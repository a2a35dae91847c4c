---------------------------- MODULE MCScheduler ----------------------------
(* TLC instances of the scheduler, with the code's own loops beside it. *)
EXTENDS SchedulerReference
=============================================================================
