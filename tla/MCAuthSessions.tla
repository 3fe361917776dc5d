-------------------------- MODULE MCAuthSessions --------------------------
(* AuthSessions on a small instance for TLC. *)
EXTENDS AuthSessions, TLC

AuthSymmetry == Permutations(Request) \cup Permutations(Family)
=============================================================================
