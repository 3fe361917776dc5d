----------------------------- MODULE MCReports -----------------------------
(* Reports with interchangeable requests, responders and languages.        *)
EXTENDS Reports, TLC

Symmetry == Permutations(Req) \cup Permutations(User) \cup Permutations(Lang)
=============================================================================
