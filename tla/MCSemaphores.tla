---------------------------- MODULE MCSemaphores ----------------------------
(* TLC instances of the semaphores with the scheduler. *)
EXTENDS Semaphores
=============================================================================
