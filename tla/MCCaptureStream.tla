-------------------------- MODULE MCCaptureStream --------------------------
(* CaptureStream on a small instance for TLC. *)
EXTENDS CaptureStream, TLC
=============================================================================
