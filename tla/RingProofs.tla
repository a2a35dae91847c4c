----------------------------- MODULE RingProofs -----------------------------
(***************************************************************************)
(* Proofs about the kernel's two rings, for every capacity: the keyboard's *)
(* ring and the queue of a semaphore's waiters both implement the bounded  *)
(* queue of module InputQueue, and their counters agree.                   *)
(***************************************************************************)
EXTENDS Keyboard, WaitQueue, SequenceTheorems, TLAPS

USE KeyboardAssumption, WaitQueueAssumption

(* The remainders the ring takes are of numbers below twice its size.      *)
LEMMA ModBelow ==
  ASSUME NEW b \in Nat \ {0}, NEW a \in 0 .. b - 1
  PROVE  a % b = a
  BY SMT

LEMMA ModOnce ==
  ASSUME NEW b \in Nat \ {0}, NEW a \in b .. 2 * b - 1
  PROVE  a % b = a - b
  BY SMT

(* IndicesAgree without a remainder: the two indices differ by the number  *)
(* of characters not read; the write index may have gone round before the  *)
(* read index, or stand at the end still when the read index has.          *)
Agree ==
  \/ write_index = read_index + q_elements
  \/ write_index = read_index + q_elements - BUFFER_SIZE
  \/ write_index = read_index + q_elements + BUFFER_SIZE

IInv == TypeOK /\ Agree

LEMMA AgreeIsModular == IInv => IndicesAgree
<1> SUFFICES ASSUME IInv PROVE IndicesAgree
  OBVIOUS
<1> DEFINE s == read_index + q_elements
<1>1. /\ s \in 0 .. 2 * BUFFER_SIZE - 1
      /\ write_index \in 0 .. BUFFER_SIZE
      /\ \/ write_index = s
         \/ write_index = s - BUFFER_SIZE
         \/ write_index = BUFFER_SIZE /\ s = 0
  BY DEF IInv, TypeOK, Agree
<1>2. CASE write_index = s
  BY <1>2 DEF IndicesAgree
<1>3. CASE write_index = s - BUFFER_SIZE /\ write_index < BUFFER_SIZE
  <2>1. s % BUFFER_SIZE = s - BUFFER_SIZE
    BY <1>1, <1>3, ModOnce
  <2>2. write_index % BUFFER_SIZE = write_index
    BY <1>1, <1>3, ModBelow
  <2> QED BY <1>3, <2>1, <2>2 DEF IndicesAgree
<1>4. CASE write_index = BUFFER_SIZE /\ s \in {0, BUFFER_SIZE}
  <2>1. BUFFER_SIZE % BUFFER_SIZE = 0 /\ 0 % BUFFER_SIZE = 0
    BY ModBelow, ModOnce
  <2> QED BY <1>4, <2>1 DEF IndicesAgree
<1> HIDE DEF s
<1> QED BY <1>1, <1>2, <1>3, <1>4

-----------------------------------------------------------------------------
(* Storing a character keeps the counters in step and appends to what is   *)
(* pending, unless the ring is full: then it changes nothing.              *)
LEMMA StoreKeeps ==
  ASSUME IInv, NEW char \in Chars, Store(char), ctrl_pressed' \in BOOLEAN
  PROVE  IInv'
<1>1. CASE q_elements >= BUFFER_SIZE
  BY <1>1 DEF Store, IInv, TypeOK, Agree, ring
<1>2. CASE ~(q_elements >= BUFFER_SIZE)
  BY <1>2 DEF Store, IInv, TypeOK, Agree
<1> QED BY <1>1, <1>2

LEMMA PendingIsSeq ==
  ASSUME TypeOK
  PROVE  Oldest(q_elements) \in Seq(Chars \cup {"0"}) /\ Len(Oldest(q_elements)) = q_elements
<1>1. \A k \in 1 .. q_elements : (read_index + k - 1) % BUFFER_SIZE \in 0 .. BUFFER_SIZE - 1
  BY DEF TypeOK
<1>2. Oldest(q_elements) \in [1 .. q_elements -> Chars \cup {"0"}]
  BY <1>1 DEF Oldest, TypeOK
<1>3. q_elements \in Nat
  BY DEF TypeOK
<1> HIDE DEF Oldest
<1> QED BY <1>2, <1>3

(* Where the k-th of the pending characters is kept.                       *)
LEMMA Place ==
  ASSUME NEW r \in 0 .. BUFFER_SIZE - 1, NEW k \in 1 .. BUFFER_SIZE
  PROVE  (r + k - 1) % BUFFER_SIZE = IF r + k - 1 < BUFFER_SIZE
                                       THEN r + k - 1 ELSE r + k - 1 - BUFFER_SIZE
<1>1. CASE r + k - 1 < BUFFER_SIZE
  BY <1>1, ModBelow
<1>2. CASE ~(r + k - 1 < BUFFER_SIZE)
  BY <1>2, ModOnce
<1> QED BY <1>1, <1>2

LEMMA StoreAppends ==
  ASSUME IInv, NEW char \in Chars, Store(char), q_elements < BUFFER_SIZE,
         ctrl_pressed' \in BOOLEAN
  PROVE  Oldest(q_elements)' = Append(Oldest(q_elements), char)
<1> DEFINE w == IF write_index >= BUFFER_SIZE THEN 0 ELSE write_index
           at(k) == (read_index + k - 1) % BUFFER_SIZE
           S == Chars \cup {"0"}
           old == Oldest(q_elements)
<1>1. /\ q_elements' = q_elements + 1
      /\ read_index' = read_index
      /\ buffer' = [buffer EXCEPT ![w] = char]
  BY DEF Store, IInv, TypeOK
<1>2. q_elements \in Nat /\ w \in 0 .. BUFFER_SIZE - 1
  BY DEF IInv, TypeOK
<1>3. \A k \in 1 .. q_elements + 1 : at(k) = (IF read_index + k - 1 < BUFFER_SIZE
                                              THEN read_index + k - 1
                                              ELSE read_index + k - 1 - BUFFER_SIZE)
  BY Place DEF IInv, TypeOK
<1>4. at(q_elements + 1) = w
  <2> HIDE DEF at
  <2> QED BY <1>2, <1>3 DEF IInv, TypeOK, Agree
<1>5. \A k \in 1 .. q_elements : at(k) # w /\ at(k) \in 0 .. BUFFER_SIZE - 1
  <2> HIDE DEF at
  <2> QED BY <1>2, <1>3 DEF IInv, TypeOK, Agree
<1>6. old' = [k \in 1 .. q_elements + 1 |-> buffer'[at(k)]]
  BY <1>1 DEF Oldest
<1>7. old = [k \in 1 .. q_elements |-> buffer[at(k)]]
  BY DEF Oldest
<1>8. DOMAIN buffer = 0 .. BUFFER_SIZE - 1
  BY DEF IInv, TypeOK
<1>9. /\ old \in Seq(S) /\ Len(old) = q_elements
      /\ old' \in Seq(S) /\ Len(old') = q_elements + 1
  <2>1. TypeOK /\ TypeOK'
    BY StoreKeeps DEF IInv
  <2>2. (old \in Seq(S) /\ Len(old) = q_elements)'
    BY <2>1, PendingIsSeq, PTL
  <2> HIDE DEF old
  <2> QED BY <1>1, <2>1, <2>2, PendingIsSeq DEF old
<1> HIDE DEF at, w, old
<1>10. /\ \A k \in 1 .. q_elements : old'[k] = old[k]
       /\ old'[q_elements + 1] = char
  BY <1>1, <1>2, <1>4, <1>5, <1>6, <1>7, <1>8
<1> HIDE DEF S
<1>11. char \in S
  BY DEF S
<1>12. /\ Append(old, char) \in Seq(S)
       /\ Len(Append(old, char)) = q_elements + 1
       /\ \A k \in 1 .. q_elements : Append(old, char)[k] = old[k]
       /\ Append(old, char)[q_elements + 1] = char
  BY <1>9, <1>11, AppendProperties
<1>13. \A k \in 1 .. q_elements + 1 : old'[k] = Append(old, char)[k]
  BY <1>2, <1>10, <1>12
<1>14. old' = Append(old, char)
  BY <1>9, <1>12, <1>13, SeqEqual
<1> QED BY <1>14 DEF old

-----------------------------------------------------------------------------
(* A read call moves the oldest characters out.                            *)
LEMMA ReadKeeps ==
  ASSUME IInv, NEW n \in 1 .. MaxRead, sys_read(n)
  PROVE  /\ IInv'
         /\ Taken(n) \in 0 .. q_elements
         /\ q_elements' = q_elements - Taken(n)
<1>1. /\ q_elements \in 0 .. BUFFER_SIZE
      /\ read_index \in 0 .. BUFFER_SIZE - 1
      /\ write_index \in 0 .. BUFFER_SIZE
  BY DEF IInv, TypeOK
<1>2. Taken(n) \in 0 .. q_elements
  BY <1>1 DEF Taken, Lesser
<1>3. read_index' = IF read_index + Taken(n) < BUFFER_SIZE
                      THEN read_index + Taken(n)
                      ELSE read_index + Taken(n) - BUFFER_SIZE
  <2>1. read_index' = (read_index + Taken(n)) % BUFFER_SIZE
    BY DEF sys_read
  <2>2. CASE read_index + Taken(n) < BUFFER_SIZE
    BY <1>1, <1>2, <2>1, <2>2, ModBelow
  <2>3. CASE ~(read_index + Taken(n) < BUFFER_SIZE)
    BY <1>1, <1>2, <2>1, <2>3, ModOnce
  <2> QED BY <2>2, <2>3
<1>4. q_elements' = q_elements - Taken(n)
  BY DEF sys_read
<1>5. UNCHANGED <<buffer, write_index, ctrl_pressed>>
  BY DEF sys_read
<1>6. TypeOK'
  BY <1>1, <1>2, <1>3, <1>4, <1>5 DEF IInv, TypeOK
<1>7. Agree'
  <2> DEFINE t == Taken(n)
  <2>1. Agree /\ write_index' = write_index
    BY <1>5 DEF IInv
  <2> HIDE DEF t
  <2>2. CASE read_index + t < BUFFER_SIZE
    <3>1. read_index' + q_elements' = read_index + q_elements
      BY <1>1, <1>2, <1>3, <1>4, <2>2 DEF t
    <3> DEFINE a == read_index + q_elements
    <3>2. write_index' = a \/ write_index' = a - BUFFER_SIZE \/ write_index' = a + BUFFER_SIZE
      BY <1>1, <2>1 DEF Agree
    <3>3. read_index' \in Int /\ q_elements' \in Int /\ a \in Int
      BY <1>1, <1>2, <1>3, <1>4
    <3>4. a = read_index' + q_elements'
      BY <3>1
    <3> HIDE DEF a
    <3> QED BY <3>2, <3>3, <3>4 DEF Agree
  <2>3. CASE ~(read_index + t < BUFFER_SIZE)
    <3>1. /\ read_index' + q_elements' = read_index + q_elements - BUFFER_SIZE
          /\ read_index + q_elements >= BUFFER_SIZE
      BY <1>1, <1>2, <1>3, <1>4, <2>3 DEF t
    <3>2. write_index = read_index + q_elements \/ write_index = read_index + q_elements - BUFFER_SIZE
      BY <1>1, <2>1, <3>1 DEF Agree
    <3> DEFINE a == read_index' + q_elements'
    <3>3. a = write_index - BUFFER_SIZE \/ a = write_index
      BY <1>1, <3>1, <3>2
    <3>4. a \in Int
      BY <1>1, <3>1
    <3> HIDE DEF a
    <3>5. write_index' = a \/ write_index' = a + BUFFER_SIZE
      BY <1>1, <2>1, <3>3, <3>4
    <3> QED BY <3>5 DEF Agree, a
  <2> QED BY <2>2, <2>3
<1> QED BY <1>2, <1>4, <1>6, <1>7 DEF IInv

LEMMA ReadShifts ==
  ASSUME IInv, NEW n \in 1 .. MaxRead, sys_read(n)
  PROVE  /\ Oldest(q_elements)' = SubSeq(Oldest(q_elements), Taken(n) + 1, q_elements)
         /\ Oldest(Taken(n)) = SubSeq(Oldest(q_elements), 1, Taken(n))
<1> DEFINE S == Chars \cup {"0"}
           t == Taken(n)
           old == Oldest(q_elements)
           at(k) == (read_index + k - 1) % BUFFER_SIZE
<1>1. /\ t \in 0 .. q_elements
      /\ q_elements \in 0 .. BUFFER_SIZE
      /\ read_index \in 0 .. BUFFER_SIZE - 1
      /\ q_elements' = q_elements - t
  BY ReadKeeps DEF IInv, TypeOK
<1>2. buffer' = buffer /\ read_index' = (read_index + t) % BUFFER_SIZE
  BY DEF sys_read
<1>3. read_index' = IF read_index + t < BUFFER_SIZE THEN read_index + t
                                                  ELSE read_index + t - BUFFER_SIZE
  <2>1. CASE read_index + t < BUFFER_SIZE
    BY <1>1, <1>2, <2>1, ModBelow
  <2>2. CASE ~(read_index + t < BUFFER_SIZE)
    BY <1>1, <1>2, <2>2, ModOnce
  <2> QED BY <2>1, <2>2
<1>4. read_index' \in 0 .. BUFFER_SIZE - 1
  BY <1>1, <1>3
<1>5. ASSUME NEW k \in 1 .. q_elements - t
      PROVE  (read_index' + k - 1) % BUFFER_SIZE = at(t + k)
  <2> DEFINE r == read_index'
  <2>0. r \in 0 .. BUFFER_SIZE - 1 /\ k \in 1 .. BUFFER_SIZE
    BY <1>1, <1>4
  <2> HIDE DEF r
  <2>1. (r + k - 1) % BUFFER_SIZE
          = IF r + k - 1 < BUFFER_SIZE
              THEN r + k - 1 ELSE r + k - 1 - BUFFER_SIZE
    BY <2>0, Place
  <2>2. at(t + k) = IF read_index + (t + k) - 1 < BUFFER_SIZE
                      THEN read_index + (t + k) - 1 ELSE read_index + (t + k) - 1 - BUFFER_SIZE
    <3>1. t + k \in 1 .. BUFFER_SIZE
      BY <1>1
    <3> QED BY <1>1, <3>1, Place
  <2> HIDE DEF at, t
  <2> QED BY <1>1, <1>3, <2>1, <2>2 DEF r
<1>6. old' = [k \in 1 .. q_elements - t |-> buffer[(read_index' + k - 1) % BUFFER_SIZE]]
  BY <1>1, <1>2 DEF Oldest
<1>7. old = [k \in 1 .. q_elements |-> buffer[at(k)]]
  BY DEF Oldest
<1>8. Oldest(t) = [k \in 1 .. t |-> buffer[at(k)]]
  BY DEF Oldest
<1>9. /\ old \in Seq(S) /\ Len(old) = q_elements
      /\ old' \in Seq(S) /\ Len(old') = q_elements - t
  <2>1. TypeOK /\ TypeOK'
    BY ReadKeeps DEF IInv
  <2>2. (old \in Seq(S) /\ Len(old) = q_elements)'
    BY <2>1, PendingIsSeq, PTL
  <2> HIDE DEF old
  <2> QED BY <1>1, <2>1, <2>2, PendingIsSeq DEF old
<1> DEFINE head == Oldest(t)
<1> HIDE DEF at, old, S, t, head
<1>10. \A k \in 1 .. q_elements - t : old'[k] = old[t + k]
  BY <1>1, <1>5, <1>6, <1>7
<1>11. head = [k \in 1 .. t |-> old[k]]
  BY <1>1, <1>7, <1>8 DEF head
<1>12. /\ SubSeq(old, t + 1, q_elements) \in Seq(S)
       /\ Len(SubSeq(old, t + 1, q_elements)) = q_elements - t
       /\ \A i \in 1 .. q_elements - t : SubSeq(old, t + 1, q_elements)[i] = old[t + i]
  <2>1. t + 1 \in Int /\ q_elements \in Int /\ \A i \in t + 1 .. q_elements : old[i] \in S
    BY <1>1, <1>9
  <2> DEFINE m == t + 1
  <2>2. \A i \in 1 .. q_elements - m + 1 : SubSeq(old, m, q_elements)[i] = old[m + i - 1]
    BY <2>1, SubSeqProperties
  <2>3. /\ SubSeq(old, m, q_elements) \in Seq(S)
        /\ Len(SubSeq(old, m, q_elements)) = IF m <= q_elements THEN q_elements - m + 1 ELSE 0
    BY <2>1, SubSeqProperties
  <2> QED BY <1>1, <2>2, <2>3
<1>13. old' = SubSeq(old, t + 1, q_elements)
  <2>1. \A i \in 1 .. q_elements - t : old'[i] = SubSeq(old, t + 1, q_elements)[i]
    BY <1>10, <1>12
  <2> QED BY <1>9, <1>12, <2>1, SeqEqual
<1>14. head = SubSeq(old, 1, t)
  <2>1. head \in Seq(S) /\ Len(head) = t
    <3>1. \A k \in 1 .. t : old[k] \in S
      BY <1>1, <1>9
    <3>2. t \in Nat /\ head \in [1 .. t -> S]
      BY <1>1, <1>11, <3>1
    <3> QED BY <3>2
  <2>2. 1 \in Int /\ t \in Int /\ \A i \in 1 .. t : old[i] \in S
    BY <1>1, <1>9
  <2>3. /\ SubSeq(old, 1, t) \in Seq(S)
        /\ Len(SubSeq(old, 1, t)) = IF 1 <= t THEN t - 1 + 1 ELSE 0
        /\ \A i \in 1 .. t - 1 + 1 : SubSeq(old, 1, t)[i] = old[1 + i - 1]
    BY <2>2, SubSeqProperties
  <2>4. Len(SubSeq(old, 1, t)) = t /\ \A i \in 1 .. t : SubSeq(old, 1, t)[i] = head[i]
    BY <1>1, <1>11, <2>3
  <2> QED BY <2>1, <2>3, <2>4, SeqEqual
<1> QED BY <1>13, <1>14 DEF old, t, head

-----------------------------------------------------------------------------
LEMMA SpecialIsChar == \A key \in ControlKeys \ {"c"} : Special(key) \in Chars
  BY DEF ControlKeys, Special, Chars, TypingKeys

LEMMA KeysAreChars == TypingKeys \subseteq Chars
  BY DEF Chars

(* What keyboard_handler does to the ring: nothing, or one Store.          *)
LEMMA HandlerStores ==
  ASSUME IInv, keyboard_handler
  PROVE  /\ ctrl_pressed' \in BOOLEAN
         /\ UNCHANGED ring \/ \E char \in Chars : Store(char)
<1>1. CASE CtrlDown \/ CtrlC \/ Release
  BY <1>1 DEF CtrlDown, CtrlC, Release
<1>2. CASE \E key \in ControlKeys \ {"c"} : ControlKey(key)
  BY <1>2, SpecialIsChar DEF ControlKey
<1>3. CASE \E key \in TypingKeys : PlainKey(key)
  BY <1>3, KeysAreChars DEF PlainKey
<1> QED BY <1>1, <1>2, <1>3 DEF keyboard_handler

(* The counters stay in range and agree, for every ring and keyboard.      *)
THEOREM RingInductive == Spec => []IInv
<1>1. Init => IInv
  <2>1. [i \in 0 .. BUFFER_SIZE - 1 |-> "0"] \in [0 .. BUFFER_SIZE - 1 -> Chars \cup {"0"}]
    BY Zenon
  <2>2. 0 \in 0 .. BUFFER_SIZE /\ 0 \in 0 .. BUFFER_SIZE - 1
    OBVIOUS
  <2>3. Init => TypeOK
    BY <2>1, <2>2, Zenon DEF Init, TypeOK
  <2> QED BY <2>3 DEF Init, IInv, Agree
<1>2. ASSUME IInv, [Next]_vars PROVE IInv'
  <2>1. CASE keyboard_handler
    <3>1. CASE UNCHANGED ring
      BY <1>2, <2>1, <3>1, HandlerStores DEF IInv, TypeOK, Agree, ring
    <3>2. CASE \E char \in Chars : Store(char)
      BY <1>2, <2>1, <3>2, HandlerStores, StoreKeeps
    <3> QED BY <1>2, <2>1, <3>1, <3>2, HandlerStores
  <2>2. CASE \E n \in 1 .. MaxRead : sys_read(n)
    BY <1>2, <2>2, ReadKeeps
  <2>3. CASE UNCHANGED vars
    BY <1>2, <2>3 DEF IInv, TypeOK, Agree, vars, ring
  <2> QED BY <1>2, <2>1, <2>2, <2>3 DEF Next
<1> QED BY <1>1, <1>2, PTL DEF Spec

(* The variables keep their types and ranges (keyboard.c:25-29).           *)
THEOREM RingTypeCorrect == Spec => []TypeOK
<1>1. IInv => TypeOK
  BY DEF IInv
<1> QED BY <1>1, RingInductive, PTL

(* The two indices and the count never contradict each other, whatever is  *)
(* typed and read (keyboard.c:60-93).                                      *)
THEOREM RingIndicesAgree == Spec => []IndicesAgree
BY AgreeIsModular, RingInductive, PTL

(* A character goes in at the end of the queue or is refused by a full one. *)
LEMMA HandlerTypes ==
  ASSUME IInv, keyboard_handler
  PROVE  [Queue!Type]_(Oldest(q_elements))
<1>1. CASE UNCHANGED ring
  BY <1>1 DEF ring, Oldest
<1>2. ASSUME NEW char \in Chars, Store(char)
      PROVE  [Queue!Type]_(Oldest(q_elements))
  <2>1. CASE q_elements >= BUFFER_SIZE
    BY <1>2, <2>1 DEF Store, ring, Oldest
  <2>2. CASE ~(q_elements >= BUFFER_SIZE)
    <3>1. q_elements < BUFFER_SIZE
      BY <2>2 DEF IInv, TypeOK
    <3>2. Oldest(q_elements)' = Append(Oldest(q_elements), char)
      BY <1>2, <3>1, HandlerStores, StoreAppends
    <3>3. Len(Oldest(q_elements)) < BUFFER_SIZE
      BY <3>1, PendingIsSeq DEF IInv
    <3> QED BY <1>2, <3>2, <3>3 DEF Queue!Type
  <2> QED BY <2>1, <2>2
<1> QED BY <1>1, <1>2, HandlerStores

(* A read call takes the oldest characters of the queue, or finds it empty. *)
LEMMA ReadReads ==
  ASSUME IInv, NEW n \in 1 .. MaxRead, sys_read(n)
  PROVE  [Queue!Read]_(Oldest(q_elements))
<1>1. /\ q_elements \in Nat
      /\ Taken(n) \in 0 .. q_elements
      /\ Len(Oldest(q_elements)) = q_elements
      /\ Oldest(q_elements) \in Seq(Chars \cup {"0"})
  BY ReadKeeps, PendingIsSeq DEF IInv, TypeOK
<1>2. Oldest(q_elements)' = SubSeq(Oldest(q_elements), Taken(n) + 1, q_elements)
  BY ReadShifts
<1> HIDE DEF Oldest, Taken
<1>3. CASE Taken(n) = 0
  <2>1. SubSeq(Oldest(q_elements), 1, Len(Oldest(q_elements))) = Oldest(q_elements)
    BY <1>1, SubSeqFull
  <2> QED BY <1>1, <1>2, <1>3, <2>1
<1>4. CASE Taken(n) # 0
  <2>1. Taken(n) \in 1 .. Len(Oldest(q_elements))
    BY <1>1, <1>4
  <2> QED BY <1>1, <1>2, <2>1 DEF Queue!Read
<1> QED BY <1>3, <1>4

(* The ring, its indices and its count implement the bounded first-in      *)
(* first-out queue of module InputQueue: a character it took is never      *)
(* overwritten, repeated or overtaken (keyboard.c:60-93).                  *)
THEOREM RingIsQueue == Spec => FirstInFirstOut
<1>1. Init => Queue!Init
  BY DEF Init, Queue!Init, Oldest
<1>2. ASSUME IInv, [Next]_vars PROVE [Queue!Next]_(Oldest(q_elements))
  <2>1. CASE keyboard_handler
    BY <1>2, <2>1, HandlerTypes DEF Queue!Next
  <2>2. CASE \E n \in 1 .. MaxRead : sys_read(n)
    BY <1>2, <2>2, ReadReads DEF Queue!Next
  <2>3. CASE UNCHANGED vars
    BY <2>3 DEF vars, ring, Oldest
  <2> QED BY <1>2, <2>1, <2>2, <2>3 DEF Next
<1> QED BY <1>1, <1>2, RingInductive, PTL DEF Spec, FirstInFirstOut, Queue!Spec

(* What a read call gives its caller is what it takes from the ring, in    *)
(* order, for every size and count (syscall_handler.c:40-43).              *)
THEOREM RingReads == Spec => ReadTakesWhatItGives
<1> DEFINE S == Chars \cup {"0"}
           R(n) == LET got == q_elements - q_elements'
                   IN  /\ Oldest(q_elements) = SubSeq(delivered', 1, got) \o Oldest(q_elements)'
                       /\ \A k \in got + 1 .. n : delivered'[k] = Empty
<1>1. ASSUME IInv, NEW n \in 1 .. MaxRead, sys_read(n) PROVE R(n)
  <2> DEFINE t == Taken(n)
             old == Oldest(q_elements)
  <2>1. /\ n \in Nat /\ t \in 0 .. q_elements /\ t <= n
        /\ q_elements \in Nat
        /\ q_elements - q_elements' = t
        /\ old \in Seq(S) /\ Len(old) = q_elements
        /\ old' = SubSeq(old, t + 1, q_elements)
        /\ Oldest(t) = SubSeq(old, 1, t)
    BY <1>1, ReadKeeps, PendingIsSeq, ReadShifts DEF IInv, TypeOK, Taken, Lesser
  <2>2. delivered' = [k \in 1 .. n |-> IF k <= t THEN Oldest(t)[k] ELSE Empty]
    BY <1>1 DEF sys_read
  <2> HIDE DEF t, old, S
  <2>3. \A k \in 1 .. n : delivered'[k] = IF k <= t THEN old[k] ELSE Empty
    <3>1. \A k \in 1 .. t : old[k] \in S
      BY <2>1
    <3>2. \A i \in 1 .. t - 1 + 1 : SubSeq(old, 1, t)[i] = old[1 + i - 1]
      BY <2>1, <3>1, SubSeqProperties
    <3>3. \A i \in 1 .. t : Oldest(t)[i] = old[i]
      BY <2>1, <3>2
    <3> QED BY <2>1, <2>2, <3>3
  <2>4. SubSeq(delivered', 1, t) = SubSeq(old, 1, t)
    <3>1. \A k \in 1 .. t : delivered'[k] = old[k] /\ delivered'[k] \in S /\ old[k] \in S
      BY <2>1, <2>3
    <3>2. /\ SubSeq(delivered', 1, t) \in Seq(S)
          /\ Len(SubSeq(delivered', 1, t)) = IF 1 <= t THEN t - 1 + 1 ELSE 0
          /\ \A i \in 1 .. t - 1 + 1 : SubSeq(delivered', 1, t)[i] = delivered'[1 + i - 1]
      BY <2>1, <3>1, SubSeqProperties
    <3>3. /\ SubSeq(old, 1, t) \in Seq(S)
          /\ Len(SubSeq(old, 1, t)) = IF 1 <= t THEN t - 1 + 1 ELSE 0
          /\ \A i \in 1 .. t - 1 + 1 : SubSeq(old, 1, t)[i] = old[1 + i - 1]
      BY <2>1, <3>1, SubSeqProperties
    <3>4. Len(SubSeq(delivered', 1, t)) = t /\ Len(SubSeq(old, 1, t)) = t
      BY <2>1, <3>2, <3>3
    <3>5. \A i \in 1 .. t : SubSeq(delivered', 1, t)[i] = SubSeq(old, 1, t)[i]
      BY <2>1, <3>1, <3>2, <3>3
    <3> QED BY <3>2, <3>3, <3>4, <3>5, SeqEqual
  <2>5. old = SubSeq(old, 1, t) \o SubSeq(old, t + 1, q_elements)
    <3>1. /\ 1 \in 1 .. Len(old) + 1
          /\ t \in 1 - 1 .. Len(old)
          /\ q_elements \in t .. Len(old)
      BY <2>1
    <3>2. SubSeq(old, 1, t) \o SubSeq(old, t + 1, q_elements) = SubSeq(old, 1, q_elements)
      BY <2>1, <3>1, ConcatAdjacentSubSeq
    <3> QED BY <2>1, <3>2, SubSeqFull
  <2>6. \A k \in t + 1 .. n : delivered'[k] = Empty
    BY <2>1, <2>3
  <2> QED BY <2>1, <2>4, <2>5, <2>6 DEF old
<1>2. ASSUME IInv, [Next]_vars
      PROVE  [\A n \in 1 .. MaxRead : sys_read(n) => R(n)]_vars
  BY <1>1, <1>2
<1> QED BY <1>2, RingInductive, PTL DEF Spec, ReadTakesWhatItGives

-----------------------------------------------------------------------------
(* The queue of waiters.                                                   *)

(* The two indices differ by the length, or by what is left of the array.  *)
QueueAgree == write_pos = read_pos + length \/ write_pos = read_pos + length - SIZE

QueueIInv == QueueTypeOK /\ QueueAgree

Waiting == IF freed THEN <<>> ELSE OldestWaiters(length)

(* A place counted from r, without the remainder.                          *)
LEMMA Wraps ==
  ASSUME NEW r \in Places, NEW k \in 0 .. SIZE
  PROVE  /\ (r + k) % SIZE = IF r + k < SIZE THEN r + k ELSE r + k - SIZE
         /\ (r + k) % SIZE \in Places
  BY SMT DEF Places

LEMMA InitSound == QueueInit => QueueIInv
<1> SUFFICES ASSUME QueueInit PROVE QueueIInv
  OBVIOUS
<1>1. 0 \in Places /\ 0 \in 0 .. SIZE
  BY DEF Places
<1>2. QueueTypeOK
  BY <1>1 DEF QueueInit, QueueTypeOK
<1>3. QueueAgree
  BY DEF QueueInit, QueueAgree
<1> QED BY <1>2, <1>3 DEF QueueIInv

(* create_queue starts over.                                               *)
LEMMA CreateSound == ASSUME create_queue PROVE QueueIInv'
<1>1. 0 \in Places /\ 0 \in 0 .. SIZE
  BY DEF Places
<1>2. QueueTypeOK'
  BY <1>1 DEF create_queue, QueueTypeOK
<1>3. QueueAgree'
  BY DEF create_queue, QueueAgree
<1> QED BY <1>2, <1>3 DEF QueueIInv

LEMMA EnqueueSound ==
  ASSUME QueueIInv, NEW elem \in Pids, enqueue(elem)
  PROVE  /\ QueueIInv'
         /\ read_pos' = read_pos /\ length' = length + 1 /\ length < SIZE
         /\ write_pos = IF read_pos + length < SIZE THEN read_pos + length
                                                    ELSE read_pos + length - SIZE
<1>1. /\ read_pos \in Places /\ write_pos \in Places
      /\ length \in 0 .. SIZE /\ length # SIZE
      /\ UNCHANGED <<read_pos, freed>>
      /\ length' = length + 1
  BY DEF QueueIInv, QueueTypeOK, enqueue
<1>2. write_pos' = IF write_pos + 1 < SIZE THEN write_pos + 1 ELSE write_pos + 1 - SIZE
  BY <1>1, Wraps DEF enqueue
<1>3. QueueTypeOK'
  <2>1. elements' \in [Places -> Pids]
    BY <1>1 DEF QueueIInv, QueueTypeOK, enqueue
  <2>2. length' \in 0 .. SIZE /\ write_pos' \in Places
    BY <1>1, <1>2 DEF Places
  <2> QED BY <1>1, <2>1, <2>2 DEF QueueIInv, QueueTypeOK
<1>4. QueueAgree'
  BY <1>1, <1>2 DEF QueueIInv, QueueAgree, Places
<1>5. write_pos = IF read_pos + length < SIZE THEN read_pos + length
                                              ELSE read_pos + length - SIZE
  BY <1>1 DEF QueueIInv, QueueAgree, Places
<1> QED BY <1>1, <1>3, <1>4, <1>5 DEF QueueIInv, Places

LEMMA DequeueSound ==
  ASSUME QueueIInv, dequeue
  PROVE  /\ QueueIInv'
         /\ length \in 1 .. SIZE /\ length' = length - 1
         /\ read_pos' = IF read_pos + 1 < SIZE THEN read_pos + 1 ELSE 0
<1>1. /\ read_pos \in Places /\ write_pos \in Places
      /\ length \in 1 .. SIZE
      /\ UNCHANGED <<elements, write_pos, freed>>
      /\ length' = length - 1
  BY DEF QueueIInv, QueueTypeOK, dequeue
<1>2. read_pos' = IF read_pos + 1 < SIZE THEN read_pos + 1 ELSE 0
  <2>1. 1 \in 0 .. SIZE
    OBVIOUS
  <2>2. read_pos' = IF read_pos + 1 < SIZE THEN read_pos + 1 ELSE read_pos + 1 - SIZE
    BY <1>1, <2>1, Wraps DEF dequeue
  <2> QED BY <1>1, <2>2 DEF Places
<1>3. QueueTypeOK'
  <2>1. length' \in 0 .. SIZE /\ read_pos' \in Places
    BY <1>1, <1>2 DEF Places
  <2> QED BY <1>1, <2>1 DEF QueueIInv, QueueTypeOK
<1>4. QueueAgree'
  BY <1>1, <1>2 DEF QueueIInv, QueueAgree, Places
<1> QED BY <1>1, <1>2, <1>3, <1>4 DEF QueueIInv

(* Freeing the array, and what its next owner writes, touch no index.      *)
LEMMA FreeSound ==
  ASSUME QueueIInv, destroy_queue \/ Reused
  PROVE  QueueIInv' /\ freed'
<1>1. UNCHANGED <<read_pos, write_pos, length>> /\ freed'
  BY DEF destroy_queue, Reused
<1>2. elements' \in [Places -> Pids] /\ freed' \in BOOLEAN
  BY DEF QueueIInv, QueueTypeOK, destroy_queue, Reused
<1> QED BY <1>1, <1>2 DEF QueueIInv, QueueTypeOK, QueueAgree

(* The indices stay in the array and never contradict the length.          *)
THEOREM QueueInductive == QueueSpec => []QueueIInv
<1>1. ASSUME QueueIInv, [QueueNext]_queueVars PROVE QueueIInv'
  <2>1. CASE create_queue
    BY <2>1, CreateSound
  <2>2. ASSUME NEW pid \in Pids, enqueue(pid) PROVE QueueIInv'
    BY <1>1, <2>2, EnqueueSound
  <2>3. CASE dequeue
    BY <1>1, <2>3, DequeueSound
  <2>4. CASE destroy_queue \/ Reused
    BY <1>1, <2>4, FreeSound
  <2>5. CASE UNCHANGED queueVars
    BY <1>1, <2>5 DEF QueueIInv, QueueTypeOK, QueueAgree, queueVars
  <2> QED BY <1>1, <2>1, <2>2, <2>3, <2>4, <2>5 DEF QueueNext
<1> QED BY <1>1, InitSound, PTL DEF QueueSpec

-----------------------------------------------------------------------------
LEMMA OldestIsSeq ==
  ASSUME QueueTypeOK
  PROVE  OldestWaiters(length) \in Seq(Pids) /\ Len(OldestWaiters(length)) = length
<1>1. \A k \in 1 .. length : (read_pos + k - 1) % SIZE \in Places
  BY SMT DEF QueueTypeOK, Places
<1>2. OldestWaiters(length) \in [1 .. length -> Pids] /\ length \in Nat
  BY <1>1 DEF OldestWaiters, QueueTypeOK
<1> HIDE DEF OldestWaiters
<1> QED BY <1>2

(* The k-th of the elements that wait.                                     *)
WaiterPlace(k) == IF read_pos + k - 1 < SIZE THEN read_pos + k - 1 ELSE read_pos + k - 1 - SIZE

LEMMA Nth ==
  ASSUME QueueTypeOK
  PROVE  \A k \in 1 .. length : OldestWaiters(length)[k] = elements[WaiterPlace(k)]
<1> SUFFICES ASSUME NEW k \in 1 .. length PROVE OldestWaiters(length)[k] = elements[WaiterPlace(k)]
  OBVIOUS
<1>1. k - 1 \in 0 .. SIZE /\ read_pos + k - 1 = read_pos + (k - 1)
  BY DEF QueueTypeOK, Places
<1>2. OldestWaiters(length)[k] = elements[(read_pos + k - 1) % SIZE]
  BY DEF OldestWaiters
<1>3. (read_pos + (k - 1)) % SIZE = IF read_pos + (k - 1) < SIZE
                                      THEN read_pos + (k - 1) ELSE read_pos + (k - 1) - SIZE
  BY <1>1, Wraps DEF QueueTypeOK
<1> QED BY <1>1, <1>2, <1>3 DEF WaiterPlace

LEMMA EnqueueAppends ==
  ASSUME QueueIInv, NEW elem \in Pids, enqueue(elem)
  PROVE  OldestWaiters(length)' = Append(OldestWaiters(length), elem)
<1> DEFINE old == OldestWaiters(length)
<1>1. /\ QueueIInv' /\ read_pos' = read_pos /\ length' = length + 1
      /\ read_pos \in Places /\ length \in 0 .. SIZE - 1
      /\ write_pos = WaiterPlace(length + 1)
      /\ elements \in [Places -> Pids]
      /\ elements' = [elements EXCEPT ![write_pos] = elem]
  <2>1. /\ length \in 0 .. SIZE /\ length < SIZE /\ read_pos \in Places
        /\ QueueIInv' /\ read_pos' = read_pos /\ length' = length + 1
    BY EnqueueSound DEF QueueIInv, QueueTypeOK
  <2>2. read_pos + (length + 1) - 1 = read_pos + length /\ length \in 0 .. SIZE - 1
    BY <2>1 DEF Places
  <2>3. write_pos = WaiterPlace(length + 1)
    BY <2>2, EnqueueSound DEF WaiterPlace
  <2> QED BY <2>1, <2>2, <2>3 DEF enqueue, QueueIInv, QueueTypeOK
<1>2. \A k \in 1 .. length : WaiterPlace(k) # write_pos /\ WaiterPlace(k) \in Places
  BY <1>1 DEF Places, WaiterPlace
<1>3. \A k \in 1 .. length : old[k] = elements[WaiterPlace(k)]
  BY Nth DEF QueueIInv
<1>4. \A k \in 1 .. length + 1 : old'[k] = elements'[WaiterPlace(k)]
  <2>1. QueueTypeOK'
    BY <1>1 DEF QueueIInv
  <2>2. (\A k \in 1 .. length : OldestWaiters(length)[k] = elements[WaiterPlace(k)])'
    BY <2>1, Nth, PTL
  <2>3. \A k \in 1 .. length + 1 : old'[k] = elements'[WaiterPlace(k)']
    BY <1>1, <2>2
  <2> QED BY <1>1, <2>3 DEF WaiterPlace
<1>5. write_pos \in Places
  BY DEF QueueIInv, QueueTypeOK
<1>6. /\ old \in Seq(Pids) /\ Len(old) = length
      /\ old' \in Seq(Pids) /\ Len(old') = length + 1
  <2>1. QueueTypeOK /\ QueueTypeOK'
    BY <1>1 DEF QueueIInv
  <2>2. (old \in Seq(Pids) /\ Len(old) = length)'
    BY <2>1, OldestIsSeq, PTL
  <2> HIDE DEF old
  <2> QED BY <1>1, <2>1, <2>2, OldestIsSeq DEF old
<1> HIDE DEF old
<1>7. /\ \A k \in 1 .. length : old'[k] = old[k]
      /\ old'[length + 1] = elem
  BY <1>1, <1>2, <1>3, <1>4, <1>5
<1>8. /\ Append(old, elem) \in Seq(Pids)
      /\ Len(Append(old, elem)) = length + 1
      /\ \A k \in 1 .. length : Append(old, elem)[k] = old[k]
      /\ Append(old, elem)[length + 1] = elem
  BY <1>6, AppendProperties
<1>9. \A k \in 1 .. length + 1 : old'[k] = Append(old, elem)[k]
  BY <1>1, <1>7, <1>8
<1>10. old' = Append(old, elem)
  BY <1>6, <1>8, <1>9, SeqEqual
<1> QED BY <1>10 DEF old

LEMMA DequeueShifts ==
  ASSUME QueueIInv, dequeue
  PROVE  OldestWaiters(length)' = SubSeq(OldestWaiters(length), 2, length)
<1> DEFINE old == OldestWaiters(length)
<1>1. /\ QueueIInv' /\ length \in 1 .. SIZE /\ length' = length - 1
      /\ read_pos \in Places
      /\ read_pos' = IF read_pos + 1 < SIZE THEN read_pos + 1 ELSE 0
      /\ elements' = elements
  BY DequeueSound DEF QueueIInv, QueueTypeOK, dequeue
<1>2. \A k \in 1 .. length - 1 : WaiterPlace(k)' = WaiterPlace(1 + k)
  BY <1>1 DEF WaiterPlace, Places
<1>3. \A k \in 1 .. length - 1 : old[1 + k] = elements[WaiterPlace(1 + k)]
  <2>1. \A k \in 1 .. length : old[k] = elements[WaiterPlace(k)]
    BY Nth DEF QueueIInv
  <2> HIDE DEF old
  <2> QED BY <1>1, <2>1
<1>4. \A k \in 1 .. length - 1 : old'[k] = elements[WaiterPlace(k)']
  <2>1. QueueTypeOK'
    BY <1>1 DEF QueueIInv
  <2>2. (\A k \in 1 .. length : OldestWaiters(length)[k] = elements[WaiterPlace(k)])'
    BY <2>1, Nth, PTL
  <2> QED BY <1>1, <2>2
<1>5. /\ old \in Seq(Pids) /\ Len(old) = length
      /\ old' \in Seq(Pids) /\ Len(old') = length - 1
  <2>1. QueueTypeOK /\ QueueTypeOK'
    BY <1>1 DEF QueueIInv
  <2>2. (old \in Seq(Pids) /\ Len(old) = length)'
    BY <2>1, OldestIsSeq, PTL
  <2> HIDE DEF old
  <2> QED BY <1>1, <2>1, <2>2, OldestIsSeq DEF old
<1> HIDE DEF old
<1>6. \A k \in 1 .. length - 1 : old'[k] = old[1 + k]
  BY <1>1, <1>2, <1>3, <1>4
<1>7. /\ SubSeq(old, 2, length) \in Seq(Pids)
      /\ Len(SubSeq(old, 2, length)) = length - 1
      /\ \A k \in 1 .. length - 1 : SubSeq(old, 2, length)[k] = old[1 + k]
  <2>1. 2 \in Int /\ length \in Int /\ \A i \in 2 .. length : old[i] \in Pids
    BY <1>1, <1>5
  <2>2. /\ SubSeq(old, 2, length) \in Seq(Pids)
        /\ Len(SubSeq(old, 2, length)) = IF 2 <= length THEN length - 2 + 1 ELSE 0
        /\ \A i \in 1 .. length - 2 + 1 : SubSeq(old, 2, length)[i] = old[2 + i - 1]
    BY <2>1, SubSeqProperties
  <2> QED BY <1>1, <2>2
<1>8. \A k \in 1 .. length - 1 : old'[k] = SubSeq(old, 2, length)[k]
  BY <1>6, <1>7
<1>9. old' = SubSeq(old, 2, length)
  BY <1>5, <1>7, <1>8, SeqEqual
<1> QED BY <1>9 DEF old

-----------------------------------------------------------------------------
(* Emptying a queue is reading all of it.                                  *)
LEMMA EmptyingReads ==
  ASSUME QueueTypeOK, Waiting' = <<>>
  PROVE  [Ring!Read]_(Waiting)
<1>1. CASE Waiting = <<>>
  BY <1>1
<1>2. CASE Waiting # <<>>
  <2>1. /\ Waiting = OldestWaiters(length)
        /\ Waiting \in Seq(Pids) /\ Len(Waiting) = length
        /\ length \in Nat
    BY <1>2, OldestIsSeq DEF Waiting, QueueTypeOK
  <2> DEFINE q == Waiting
  <2> HIDE DEF q
  <2>2. q \in Seq(Pids) /\ q # <<>> /\ Waiting = q
    BY <1>2, <2>1 DEF q
  <2>3. Len(q) \in 1 .. Len(q)
    BY <2>2
  <2>4. SubSeq(q, Len(q) + 1, Len(q)) = <<>>
    BY <2>2, SubSeqEmpty
  <2> QED BY <2>2, <2>3, <2>4 DEF Ring!Read, Waiting
<1> QED BY <1>1, <1>2

(* The ring, its indices and its length implement the bounded first-in     *)
(* first-out queue of module InputQueue for every capacity: an element it  *)
(* took is not lost, repeated or overtaken until the queue is created anew *)
(* or destroyed (queue.c:31-55).                                           *)
THEOREM QueueIsRing == QueueSpec => QueueIsFifo
<1>1. QueueInit => Ring!Init
  <2>1. [k \in 1 .. 0 |-> elements[(read_pos + k - 1) % SIZE]] = <<>>
    OBVIOUS
  <2> QED BY <2>1 DEF QueueInit, Ring!Init, OldestWaiters
<1>2. ASSUME QueueIInv, [QueueNext]_queueVars PROVE [Ring!Next]_(Waiting)
  <2>1. CASE create_queue
    <3>1. Waiting' = <<>>
      <4>1. [k \in 1 .. 0 |-> elements'[(read_pos' + k - 1) % SIZE]] = <<>>
        OBVIOUS
      <4> QED BY <2>1, <4>1 DEF create_queue, Waiting, OldestWaiters
    <3> QED BY <1>2, <3>1, EmptyingReads DEF QueueIInv, Ring!Next
  <2>2. ASSUME NEW pid \in Pids, enqueue(pid) PROVE [Ring!Next]_(Waiting)
    <3>1. CASE freed
      BY <2>2, <3>1 DEF enqueue, Waiting
    <3>2. CASE ~freed
      <4>1. OldestWaiters(length)' = Append(OldestWaiters(length), pid) /\ length < SIZE /\ ~freed'
        BY <1>2, <2>2, <3>2, EnqueueAppends, EnqueueSound DEF enqueue
      <4>2. Len(OldestWaiters(length)) < SIZE
        BY <1>2, <4>1, OldestIsSeq DEF QueueIInv
      <4>3. Ring!Type
        BY <3>2, <4>1, <4>2 DEF Ring!Type
      <4> QED BY <4>3 DEF Ring!Next
    <3> QED BY <3>1, <3>2
  <2>3. CASE dequeue
    <3>1. CASE freed
      BY <2>3, <3>1 DEF dequeue, Waiting
    <3>2. CASE ~freed
      <4>1. /\ OldestWaiters(length)' = SubSeq(OldestWaiters(length), 1 + 1, Len(OldestWaiters(length)))
            /\ 1 \in 1 .. Len(OldestWaiters(length))
            /\ ~freed'
        BY <1>2, <2>3, <3>2, DequeueShifts, DequeueSound, OldestIsSeq DEF dequeue, QueueIInv
      <4>2. Ring!Read
        BY <3>2, <4>1 DEF Ring!Read
      <4> QED BY <4>2 DEF Ring!Next
    <3> QED BY <3>1, <3>2
  <2>4. CASE destroy_queue
    BY <1>2, <2>4, EmptyingReads DEF QueueIInv, destroy_queue, Waiting, Ring!Next
  <2>5. CASE Reused
    BY <2>5 DEF Reused, Waiting
  <2>6. CASE UNCHANGED queueVars
    BY <2>6 DEF queueVars, Waiting, OldestWaiters
  <2> QED BY <1>2, <2>1, <2>2, <2>3, <2>4, <2>5, <2>6 DEF QueueNext
<1> QED BY <1>1, <1>2, QueueInductive, PTL DEF QueueSpec, QueueIsFifo, Ring!Spec, Waiting
=============================================================================
