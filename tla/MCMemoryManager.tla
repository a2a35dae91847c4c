-------------------------- MODULE MCMemoryManager --------------------------
(* TLC instance of the heap.                                               *)
EXTENDS MemoryManager
=============================================================================
