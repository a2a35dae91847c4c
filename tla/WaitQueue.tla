----------------------------- MODULE WaitQueue -----------------------------
(***************************************************************************)
(* The ring a semaphore keeps its waiters in (Kernel/utils/queue.c), under *)
(* the calls of semaphore.c: semaphores are opened and closed while others *)
(* sleep, so the queue may be created anew or freed in any state.  Module  *)
(* Semaphores has this queue as a sequence; the formulas at the end say    *)
(* that it may.                                                            *)
(***************************************************************************)
EXTENDS Integers, Sequences

CONSTANTS
  SIZE,  \* capacity, MAX_PROCESS_WAITING  (10)
  Pids   \* what the elements can be

ASSUME WaitQueueAssumption == SIZE \in Nat \ {0}

VARIABLES
  elements,   \* the array
  read_pos,   \* where the oldest element is
  write_pos,  \* where the next one goes
  length,     \* how many there are
  freed       \* the array belongs to the allocator, or to its next owner

queueVars == <<elements, read_pos, write_pos, length, freed>>

Places == 0 .. SIZE - 1

(* The n oldest elements.                                                  *)
OldestWaiters(n) == [k \in 1 .. n |-> elements[(read_pos + k - 1) % SIZE]]

-----------------------------------------------------------------------------
(* create_queue: an array of whatever the memory held, and nobody in it.   *)
create_queue ==
  /\ elements' \in [Places -> Pids]
  /\ read_pos' = 0
  /\ write_pos' = 0
  /\ length' = 0
  /\ freed' = FALSE

QueueInit ==
  /\ elements \in [Places -> Pids]
  /\ read_pos = 0 /\ write_pos = 0 /\ length = 0
  /\ freed = FALSE

(* Mutant: a full queue takes one more.                                     *)
enqueue_WhenFull(elem) ==
  /\ elements' = [elements EXCEPT ![write_pos] = elem]
  /\ write_pos' = (write_pos + 1) % SIZE
  /\ length' = IF length = SIZE THEN length ELSE length + 1
  /\ UNCHANGED <<read_pos, freed>>

(* enqueue: a full queue drops the element.                                *)
enqueue(elem) ==
  /\ length # SIZE
  /\ elements' = [elements EXCEPT ![write_pos] = elem]
  /\ write_pos' = (write_pos + 1) % SIZE
  /\ length' = length + 1
  /\ UNCHANGED <<read_pos, freed>>

(* dequeue, which post_sem calls only when length > 0.                     *)
dequeue ==
  /\ length # 0
  /\ read_pos' = (read_pos + 1) % SIZE
  /\ length' = length - 1
  /\ UNCHANGED <<elements, write_pos, freed>>

(* destroy_queue frees the array; indices and length stay as they are, and *)
(* a wait or post on another semaphore still uses them.                    *)
destroy_queue ==
  /\ freed' = TRUE
  /\ UNCHANGED <<elements, read_pos, write_pos, length>>

(* The next owner of the array writes to it.                               *)
Reused ==
  /\ freed
  /\ \E i \in Places, e \in Pids : elements' = [elements EXCEPT ![i] = e]
  /\ UNCHANGED <<read_pos, write_pos, length, freed>>

QueueNext ==
  \/ create_queue
  \/ \E pid \in Pids : enqueue(pid)
  \/ dequeue
  \/ destroy_queue
  \/ Reused

QueueSpec == QueueInit /\ [][QueueNext]_queueVars

-----------------------------------------------------------------------------
QueueTypeOK ==
  /\ elements \in [Places -> Pids]
  /\ read_pos \in Places
  /\ write_pos \in Places
  /\ length \in 0 .. SIZE
  /\ freed \in BOOLEAN

(* The ring is a bounded first-in first-out queue: an element it took is   *)
(* not lost, repeated or overtaken however often the indices go round,     *)
(* until a creation or a destruction empties it (queue.c:31-55).           *)
Ring == INSTANCE InputQueue WITH
  Chars <- Pids, Capacity <- SIZE,
  pending <- IF freed THEN <<>> ELSE OldestWaiters(length)

QueueIsFifo == Ring!Spec
=============================================================================
