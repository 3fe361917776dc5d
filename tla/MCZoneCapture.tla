--------------------------- MODULE MCZoneCapture ---------------------------
(* ZoneCapture on a small instance for TLC. *)
EXTENDS ZoneCapture, TLC

SessionSymmetry == Permutations(Session)
=============================================================================
