---------------------------- MODULE MCScheduler ----------------------------
(* The instance of Scheduler that TLC checks, without symmetry because      *)
(* liveness is checked with it.                                             *)
EXTENDS Scheduler
=============================================================================
