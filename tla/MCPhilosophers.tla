--------------------------- MODULE MCPhilosophers ---------------------------
(* TLC instances of the dining philosophers. *)
EXTENDS Philosophers
=============================================================================
