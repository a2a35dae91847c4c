------------------------------- MODULE MCTron -------------------------------
(* TLC instances of the game. *)
EXTENDS Tron
=============================================================================
