------------------------- MODULE CountingSemaphore -------------------------
(***************************************************************************)
(* What Kernel/include/semaphore.h promises of one semaphore, whatever the *)
(* processes and the dispatcher do: a wait takes a permit or puts the      *)
(* caller to sleep, a post wakes exactly one of those that wait or leaves  *)
(* a permit.  Nothing is said of which of them a post wakes.               *)
(*                                                                         *)
(* The header does not say that only so many can wait.  Whoever comes when *)
(* all places are taken sleeps as well, and is lost: nothing wakes it.     *)
(***************************************************************************)
EXTENDS Naturals, FiniteSets

CONSTANTS
  Callers,  \* whoever may call wait_sem
  Places    \* how many of them can wait

VARIABLES
  open,     \* the semaphore exists
  permits,  \* its value
  waiting,  \* the callers that sleep in wait_sem until a post
  lost      \* those that sleep there for ever

vars == <<open, permits, waiting, lost>>

Init == ~open /\ permits = 0 /\ waiting = {} /\ lost = {}

(* open_sem or create_sem_by_id when the semaphore does not exist yet.      *)
Open ==
  /\ ~open
  /\ open'
  /\ permits' \in Nat
  /\ UNCHANGED <<waiting, lost>>

(* wait_sem: "Decrements the semaphore if it's 0, it blocks the process".  *)
Take ==
  /\ open
  /\ permits > 0
  /\ permits' = permits - 1
  /\ UNCHANGED <<open, waiting, lost>>

Sleep ==
  /\ open
  /\ permits = 0
  /\ \E p \in Callers \ (waiting \cup lost) :
       IF Cardinality(waiting) < Places
         THEN waiting' = waiting \cup {p} /\ UNCHANGED lost
         ELSE lost' = lost \cup {p} /\ UNCHANGED waiting
  /\ UNCHANGED <<open, permits>>

(* post_sem: "Increments the semaphore if there are processes waiting, it  *)
(* unblocks one".                                                          *)
Give ==
  /\ open
  /\ waiting = {}
  /\ permits' = permits + 1
  /\ UNCHANGED <<open, waiting, lost>>

Wake ==
  /\ open
  /\ \E p \in waiting : waiting' = waiting \ {p}
  /\ UNCHANGED <<open, permits, lost>>

(* close_sem, of a semaphore nobody waits on.                              *)
Close ==
  /\ open
  /\ waiting = {}
  /\ ~open'
  /\ permits' = 0
  /\ UNCHANGED <<waiting, lost>>

Next == Open \/ Take \/ Sleep \/ Give \/ Wake \/ Close

Spec == Init /\ [][Next]_vars
=============================================================================
