---------------------------- MODULE MCScheduler ----------------------------
(* Model values for TLC. *)
EXTENDS Scheduler

CONSTANTS p1, p2, housekeeping
=============================================================================
