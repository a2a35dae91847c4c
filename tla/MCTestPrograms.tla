--------------------------- MODULE MCTestPrograms ---------------------------
(* TLC instance of the test programs.                                      *)
EXTENDS TestPrograms
=============================================================================
