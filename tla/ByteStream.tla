----------------------------- MODULE ByteStream -----------------------------
(***************************************************************************)
(* What a pipe promises its two ends: bytes come out in the order they     *)
(* went in, each once, and no byte of one pipeline shows up in the next.   *)
(***************************************************************************)
EXTENDS Naturals, Sequences

CONSTANTS Bytes, Capacity

VARIABLES
  stream,  \* bytes written and not read yet, oldest first
  last     \* the byte the last read gave

vars == <<stream, last>>

Init == stream = <<>> /\ last \notin Bytes

Put == /\ Len(stream) < Capacity
       /\ \E b \in Bytes : stream' = Append(stream, b)
       /\ UNCHANGED last

Get == /\ stream # <<>>
       /\ last' = Head(stream)
       /\ stream' = Tail(stream)

(* The pipe is deleted with whatever is left in it.                        *)
Discard == stream' = <<>> /\ UNCHANGED last

Next == Put \/ Get \/ Discard

Spec == Init /\ [][Next]_vars
=============================================================================
