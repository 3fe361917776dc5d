----------------------------- MODULE MCConsole -----------------------------
(* The console on small instances of its pages. *)
EXTENDS Console

MCItems == <<"i1", "i2">>
=============================================================================
