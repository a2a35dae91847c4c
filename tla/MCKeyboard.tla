----------------------------- MODULE MCKeyboard -----------------------------
(* TLC instances of the keyboard driver. *)
EXTENDS Keyboard
=============================================================================
