------------------------------ MODULE MCSched ------------------------------
(* The scheduler on small machines. *)
EXTENDS Sched
=============================================================================
