----------------------------- MODULE InputQueue -----------------------------
(***************************************************************************)
(* What the keyboard driver promises: the characters it took come out in   *)
(* the order they were typed, each once.                                   *)
(***************************************************************************)
EXTENDS Naturals, Sequences

CONSTANTS Chars, Capacity

VARIABLE pending  \* characters typed and not read yet, oldest first

Init == pending = <<>>

Type == /\ Len(pending) < Capacity
        /\ \E c \in Chars : pending' = Append(pending, c)

Read == \E n \in 1 .. Len(pending) :
          pending' = SubSeq(pending, n + 1, Len(pending))

Next == Type \/ Read

Spec == Init /\ [][Next]_pending
=============================================================================
