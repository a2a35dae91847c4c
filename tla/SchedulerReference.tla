------------------------- MODULE SchedulerReference -------------------------
(***************************************************************************)
(* The loops of destroy_process, set_dead_process, kill_all_processes and   *)
(* next_process, iteration by iteration as the kernel runs them.  Module    *)
(* Scheduler states what each computes in closed form; the formulas at the  *)
(* end say that the two agree in every state.                               *)
(***************************************************************************)
EXTENDS Scheduler

(* set_dead_process: the first READY entry of the child, then the parent.  *)
DeleteChildren(ct, parent) ==
  [e \in Entries |-> IF ct[e].parent_pid = parent THEN FreeEntry ELSE ct[e]]

SetDeadProcess(sys, pid) ==
  LET found == {e \in Entries : /\ sys.table[e].state = READY
                                /\ sys.table[e].child_pid = pid}
      entry == Least(found)
      father == sys.table[entry].parent_pid
      marked == [sys.table EXCEPT ![entry].state = DEAD]
  IN  IF found = {} THEN sys
      ELSE IF AllChildrenFinished(marked, father)
        THEN [list |-> ChangeProcessState(sys.list, father, READY),
              table |-> DeleteChildren(marked, father)]
      ELSE [sys EXCEPT !.table = marked]

(* destroy_process: the slot is DEAD before the parent is looked for.      *)
DestroyProcess(sys, idx) ==
  SetDeadProcess([sys EXCEPT !.list[idx] = FreeSlot], sys.list[idx].pid)

(* The loop of kill_all_processes: each slot in turn, as it is by then.    *)
KillStep(sys, i) ==
  IF sys.list[i].state # DEAD /\ ~sys.list[i].immortal THEN DestroyProcess(sys, i) ELSE sys

KillLoop(sys) ==
  LET after[n \in 0 .. MAX_PROCESSES] ==
        IF n = 0 THEN sys ELSE KillStep(after[n - 1], n - 1)
  IN  after[MAX_PROCESSES]

(* The scan of next_process: advance, look, stop at the first READY.       *)
ScanStep(pl, n, scan) ==
  IF scan.found THEN scan
  ELSE LET idx == (scan.idx + 1) % n
       IN  [idx |-> idx,
            found |-> pl[idx].state = READY,
            inactive |-> scan.inactive + (IF pl[idx].state = READY THEN 0 ELSE 1)]

Scan(pl, n, c) ==
  LET after[k \in 0 .. n] ==
        IF k = 0 THEN [idx |-> c, found |-> FALSE, inactive |-> 0]
                 ELSE ScanStep(pl, n, after[k - 1])
  IN  after[n]

Now == [list |-> process_list, table |-> children_processes]

(* The set form of destroy_process used by the model is what the code      *)
(* leaves, for the death of any one process and for Ctrl-C, whatever the   *)
(* order of the slots of parents and children (scheduler.c:197-205,        *)
(* 305-319, child_processes.c:32-49).                                      *)
DestroyIsTheLoop ==
  /\ \A i \in Mortal(process_list) :
       Destroy(process_list, children_processes, {i}) = DestroyProcess(Now, i)
  /\ Destroy(process_list, children_processes, Mortal(process_list)) = KillLoop(Now)

(* The closed form of the dispatcher's choice is the slot its scan stops   *)
(* at, from any slot and for any count the table may have during an entry, *)
(* and it falls back on idle exactly when the scan has counted dim inactive *)
(* processes (scheduler.c:245-257).                                        *)
ScanIsTheLoop ==
  \A n \in 1 .. dim, c \in Slots :
    LET scan == Scan(process_list, n, c)
    IN  /\ (scan.inactive = n) = (ReadyAhead(process_list, n, c) = {})
        /\ scan.found => scan.idx = Chosen(process_list, n, c)

(* What the model says in closed form of a death and of the dispatcher's   *)
(* choice is what the loops of the kernel compute, in every state.         *)
LoopsAgree == DestroyIsTheLoop /\ ScanIsTheLoop
=============================================================================
