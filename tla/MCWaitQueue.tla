---------------------------- MODULE MCWaitQueue ----------------------------
(* TLC instances of the queue of waiters. *)
EXTENDS WaitQueue
=============================================================================
