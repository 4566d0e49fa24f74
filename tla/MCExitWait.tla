----------------------------- MODULE MCExitWait -----------------------------
(* The exit ring and its readers on a few processes. *)
EXTENDS ExitWait
=============================================================================
