------------------------------ MODULE Keyboard ------------------------------
(***************************************************************************)
(* The keyboard driver (Kernel/keyboard.c) and the read call that empties  *)
(* its buffer (sys_read_handler of Kernel/syscall_handler.c).  The handler *)
(* runs in the keyboard interrupt, the reader in a system call, both with  *)
(* interrupts off: each is one step.                                       *)
(***************************************************************************)
EXTENDS Integers, Sequences

CONSTANTS
  BUFFER_SIZE,  \* length of the ring               (1024)
  PlainKeys,    \* keys below 0x53 without a part in a control combination
  MaxRead       \* the largest count a reader asks for

ASSUME KeyboardAssumption ==
  /\ BUFFER_SIZE \in Nat \ {0}
  /\ MaxRead \in Nat \ {0}
  /\ PlainKeys \cap {"Ctrl", "c", "d", "6", "1", "release"} = {}

VARIABLES
  buffer,        \* the ring
  q_elements,    \* how many of its characters are not read yet
  read_index,    \* where the oldest of them is
  write_index,   \* where the next one goes, if it is below BUFFER_SIZE
  ctrl_pressed,  \* the last key leaves the next one a control combination
  delivered      \* what the last read call gave its caller

ring == <<buffer, q_elements, read_index, write_index>>
vars == <<ring, ctrl_pressed, delivered>>

(* Scan codes: 0x1D, 0x2E, 0x20, 0x07, 0x02, what else has a place in      *)
(* char_hex_map, and the codes from 0x53 on.                               *)
ControlKeys == {"c", "d", "6", "1"}
TypingKeys == ControlKeys \cup PlainKeys

(* char_hex_map, one to one on the keys told apart here, and the special   *)
(* characters: Ctrl-6 is '&', Ctrl-1 is '|', Ctrl-D the end of file.       *)
Special(key) == CASE key = "6" -> "&" [] key = "1" -> "|" [] key = "d" -> "EOF"
Chars == TypingKeys \cup {"&", "|", "EOF"}

(* What get_first_char answers when there is nothing: 0xFF.                *)
Empty == "0xFF"

Init ==
  /\ buffer = [i \in 0 .. BUFFER_SIZE - 1 |-> "0"]
  /\ q_elements = 0
  /\ read_index = 0
  /\ write_index = 0
  /\ ctrl_pressed = FALSE
  /\ delivered = <<>>

-----------------------------------------------------------------------------
(* Mutant: the buffer takes a character when it is full.                    *)
Store_WhenFull(char) ==
  LET w == IF write_index >= BUFFER_SIZE THEN 0 ELSE write_index
  IN  /\ buffer' = [buffer EXCEPT ![w] = char]
      /\ q_elements' = IF q_elements = BUFFER_SIZE THEN q_elements ELSE q_elements + 1
      /\ write_index' = w + 1
      /\ UNCHANGED read_index

(* The end of keyboard_handler: the write index wraps before it is used.   *)
Store(char) ==
  IF q_elements >= BUFFER_SIZE
    THEN UNCHANGED ring
    ELSE LET w == IF write_index >= BUFFER_SIZE THEN 0 ELSE write_index
         IN  /\ buffer' = [buffer EXCEPT ![w] = char]
             /\ q_elements' = q_elements + 1
             /\ write_index' = w + 1
             /\ UNCHANGED read_index

CtrlDown ==
  /\ ctrl_pressed' = TRUE
  /\ UNCHANGED <<ring, delivered>>

(* Ctrl-C.  When kill_all_processes kills the interrupted process, the      *)
(* handler dies with it and ctrl_pressed is never cleared.                 *)
CtrlC ==
  /\ ctrl_pressed
  /\ ctrl_pressed' \in BOOLEAN
  /\ UNCHANGED <<ring, delivered>>

ControlKey(key) ==
  /\ ctrl_pressed
  /\ ctrl_pressed' = FALSE
  /\ Store(Special(key))
  /\ UNCHANGED delivered

PlainKey(key) ==
  /\ key \in ControlKeys => ~ctrl_pressed
  /\ ctrl_pressed' = FALSE
  /\ Store(key)
  /\ UNCHANGED delivered

(* A key released, or a code from 0x53 on: nothing but ctrl_pressed.       *)
Release ==
  /\ ctrl_pressed' = FALSE
  /\ UNCHANGED <<ring, delivered>>

keyboard_handler ==
  \/ CtrlDown
  \/ CtrlC
  \/ \E key \in ControlKeys \ {"c"} : ControlKey(key)
  \/ \E key \in TypingKeys : PlainKey(key)
  \/ Release

-----------------------------------------------------------------------------
Lesser(a, b) == IF a <= b THEN a ELSE b

(* Mutant: a reader that does not get all it asked for takes one too many.  *)
Taken_OneMore(n) == IF n > q_elements THEN q_elements + 1 ELSE n

(* How many characters n calls of get_first_char take.                     *)
Taken(n) == Lesser(n, q_elements)

(* The oldest n characters.                                                *)
Oldest(n) == [k \in 1 .. n |-> buffer[(read_index + k - 1) % BUFFER_SIZE]]

(* sys_read_handler, with standard input: n calls of get_first_char.  The  *)
(* test that should end the loop at 0xFF compares a signed char with 255   *)
(* and never holds: the rest of the caller's buffer is filled with 0xFF.   *)
sys_read(n) ==
  /\ delivered' = [k \in 1 .. n |-> IF k <= Taken(n) THEN Oldest(Taken(n))[k] ELSE Empty]
  /\ q_elements' = q_elements - Taken(n)
  /\ read_index' = (read_index + Taken(n)) % BUFFER_SIZE
  /\ UNCHANGED <<buffer, write_index, ctrl_pressed>>

Next == keyboard_handler \/ \E n \in 1 .. MaxRead : sys_read(n)

Spec == Init /\ [][Next]_vars

-----------------------------------------------------------------------------
(* The variables have their types, the counts their ranges.                *)
TypeOK ==
  /\ buffer \in [0 .. BUFFER_SIZE - 1 -> Chars \cup {"0"}]
  /\ q_elements \in 0 .. BUFFER_SIZE
  /\ read_index \in 0 .. BUFFER_SIZE - 1
  /\ write_index \in 0 .. BUFFER_SIZE
  /\ ctrl_pressed \in BOOLEAN

(* The three counters agree: the characters not read yet end where the     *)
(* next one will be stored, although one index wraps when it is moved and  *)
(* the other when it is used (keyboard.c:63, 90).                          *)
IndicesAgree == (read_index + q_elements) % BUFFER_SIZE = write_index % BUFFER_SIZE

(* The ring is a bounded first-in first-out queue: a character it took is  *)
(* never overwritten, repeated or overtaken, whichever of the indices has  *)
(* gone round (keyboard.c:60-93).                                          *)
Queue == INSTANCE InputQueue WITH Capacity <- BUFFER_SIZE, pending <- Oldest(q_elements)

FirstInFirstOut == Queue!Spec

(* A read call takes from the ring just what it gives its caller, in       *)
(* order; the caller's other places hold the mark of an empty ring         *)
(* (syscall_handler.c:40-43, keyboard.c:78-93).                            *)
ReadTakesWhatItGives ==
  [][\A n \in 1 .. MaxRead : sys_read(n) =>
       LET got == q_elements - q_elements'
       IN  /\ Oldest(q_elements) = SubSeq(delivered', 1, got) \o Oldest(q_elements)'
           /\ \A k \in got + 1 .. n : delivered'[k] = Empty]_vars
=============================================================================
