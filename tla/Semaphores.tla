----------------------------- MODULE Semaphores -----------------------------
(***************************************************************************)
(* The semaphores of the kernel (Kernel/utils/semaphore.c, queue.c, lock.c) *)
(* over the process table of module Scheduler.                             *)
(*                                                                         *)
(* No code allocates the queue of a semaphore: the field waiters is NULL   *)
(* in every one of them, and all queue operations work on the same         *)
(* queue_CDT at address 0.  The model has that one queue.                  *)
(*                                                                         *)
(* A system call runs with interrupts off, so the lock of a semaphore is   *)
(* always found free and each call is one step.                            *)
(***************************************************************************)
EXTENDS Scheduler, Sequences

CONSTANTS
  MAX_SEM,              \* length of the array semaphores            (30)
  FirstSemId,           \* first id find_free_sem gives out          (10)
  MAX_PROCESS_WAITING,  \* capacity of a queue                       (10)
  SemIds,               \* the ids callers choose
  InitVals,             \* the initial values callers choose
  MaxVal                \* bound of the model: posts stop at this value

ASSUME SemaphoresAssumption ==
  /\ MAX_SEM \in 1 .. 255 /\ FirstSemId \in Nat \ {0}
  /\ MAX_PROCESS_WAITING \in Nat \ {0}
  /\ SemIds \subseteq Nat \ {0}
  /\ InitVals \subseteq Nat

VARIABLES
  semaphores,          \* the array
  waiters,             \* the queue at address 0, oldest first
  buffer,              \* the elements of that queue: "none", "live" or "freed"
  current_sem_amount   \* the kernel's count of semaphores, a uint8_t

semVars == <<semaphores, waiters, buffer, current_sem_amount>>
allVars == <<vars, semVars>>

EMPTY_SEM == 0
SemSlots == 0 .. MAX_SEM - 1

SemInfo == [sem_id : Nat, sem_val : Nat]
EmptySem == [sem_id |-> EMPTY_SEM, sem_val |-> 0]

Holding(id) == {i \in SemSlots : semaphores[i].sem_id = id}
FindSem(id) == Least(Holding(id))
IsOpen(id) == Holding(id) # {}

(* Mutant: the newest waiter is put first.                                  *)
Enqueue_AtFront(queue, pid) ==
  IF Len(queue) = MAX_PROCESS_WAITING THEN queue ELSE <<pid>> \o queue

(* Mutant: the last place of the queue is never used.                       *)
Enqueue_OneShort(queue, pid) ==
  IF Len(queue) + 1 >= MAX_PROCESS_WAITING THEN queue ELSE Append(queue, pid)

(* enqueue drops the element, without telling, when the queue is full.     *)
Enqueue(queue, pid) ==
  IF Len(queue) = MAX_PROCESS_WAITING THEN queue ELSE Append(queue, pid)

(* What dequeue may return: once a close_sem has freed the elements, the   *)
(* allocator may have given them to anybody.                               *)
Dequeued == IF buffer = "live" THEN {Head(waiters)} ELSE 0 .. MaxPid

-----------------------------------------------------------------------------
(* The boot leaves the array zeroed; there is no queue yet: what lies at   *)
(* address 0 is the interrupt table.                                       *)
SemInit ==
  /\ Init
  /\ semaphores = [i \in SemSlots |-> EmptySem]
  /\ waiters = <<>>
  /\ buffer = "none"
  /\ current_sem_amount = 0

(* A semaphore starts at index pos: create_queue empties the one queue.    *)
StartSem(pos, id, init_val) ==
  /\ semaphores' = [semaphores EXCEPT ![pos] = [sem_id |-> id, sem_val |-> init_val]]
  /\ waiters' = <<>>
  /\ buffer' = "live"
  /\ current_sem_amount' = (current_sem_amount + 1) % 256
  /\ UNCHANGED vars

(* find_free_sem: an id no semaphore has, which create_sem then takes for  *)
(* an index.                                                               *)
FreeSemId == Least({id \in FirstSemId .. FirstSemId + MAX_SEM : ~IsOpen(id)})

CreateSem(init_val) ==
  /\ Calling
  /\ current_sem_amount # MAX_SEM
  /\ FreeSemId \in SemSlots
  /\ StartSem(FreeSemId, FreeSemId, init_val)

(* open_sem: the scan stops at the first empty slot, so a semaphore of     *)
(* that id in a later slot is not seen.                                    *)
Unused == {i \in SemSlots : semaphores[i].sem_id = EMPTY_SEM}
SeenByScan(id) == {i \in Holding(id) : \A j \in Unused : i < j}

OpenSem(id, init_val) ==
  /\ Calling
  /\ current_sem_amount # MAX_SEM
  /\ SeenByScan(id) = {}
  /\ Unused # {}
  /\ StartSem(Least(Unused), id, init_val)

(* create_sem_by_id has open_sem's effects and another result.             *)
CreateSemById(id, init_val) == OpenSem(id, init_val)

OneSemLess == IF current_sem_amount = 0 THEN 0 ELSE current_sem_amount - 1

(* close_sem frees the elements of the one queue and forgets nobody.       *)
CloseSem(id) ==
  /\ Calling /\ IsOpen(id)
  /\ semaphores' = [semaphores EXCEPT ![FindSem(id)] = EmptySem]
  /\ current_sem_amount' = OneSemLess
  /\ buffer' = IF buffer = "none" THEN "none" ELSE "freed"
  /\ UNCHANGED <<vars, waiters>>

(* Mutant: the last permit is given twice.                                  *)
WaitSem_OneMore(id) ==
  LET pos == FindSem(id)
  IN  /\ Calling /\ IsOpen(id)
      /\ IF semaphores[pos].sem_val >= 0
           THEN /\ semaphores' = [semaphores EXCEPT ![pos].sem_val = @ - 1]
                /\ UNCHANGED <<vars, waiters>>
           ELSE /\ buffer # "none"
                /\ waiters' = Enqueue(waiters, CurrentPid)
                /\ ForceTimerTick(
                     ChangeProcessState(process_list, CurrentPid, PAUSED_BY_SEM),
                     dim, 0)
                /\ UNCHANGED <<semaphores, dim, pid_value, children_processes>>
      /\ UNCHANGED <<buffer, current_sem_amount>>

(* Mutant: the caller is queued even when it takes a permit.                *)
WaitSem_QueuesAll(id) ==
  LET pos == FindSem(id)
  IN  /\ Calling /\ IsOpen(id)
      /\ buffer # "none"
      /\ waiters' = Enqueue(waiters, CurrentPid)
      /\ IF semaphores[pos].sem_val > 0
           THEN /\ semaphores' = [semaphores EXCEPT ![pos].sem_val = @ - 1]
                /\ UNCHANGED vars
           ELSE /\ ForceTimerTick(
                     ChangeProcessState(process_list, CurrentPid, PAUSED_BY_SEM),
                     dim, 0)
                /\ UNCHANGED <<semaphores, dim, pid_value, children_processes>>
      /\ UNCHANGED <<buffer, current_sem_amount>>

(* wait_sem: take a permit, or sleep and give up the CPU.  Before the first*)
(* semaphore the queue would be the interrupt table: not modelled.         *)
WaitSem(id) ==
  LET pos == FindSem(id)
  IN  /\ Calling /\ IsOpen(id)
      /\ IF semaphores[pos].sem_val > 0
           THEN /\ semaphores' = [semaphores EXCEPT ![pos].sem_val = @ - 1]
                /\ UNCHANGED <<vars, waiters>>
           ELSE /\ buffer # "none"
                /\ waiters' = Enqueue(waiters, CurrentPid)
                /\ ForceTimerTick(
                     ChangeProcessState(process_list, CurrentPid, PAUSED_BY_SEM),
                     dim, 0)
                /\ UNCHANGED <<semaphores, dim, pid_value, children_processes>>
      /\ UNCHANGED <<buffer, current_sem_amount>>

(* Mutant: a post that wakes a waiter leaves a permit as well.              *)
PostSem_AndPermit(id) ==
  LET pos == FindSem(id)
  IN  /\ Calling /\ IsOpen(id)
      /\ buffer # "none"
      /\ semaphores[pos].sem_val < MaxVal
      /\ semaphores' = [semaphores EXCEPT ![pos].sem_val = @ + 1]
      /\ IF waiters # <<>>
           THEN /\ \E pid \in Dequeued :
                     process_list' = ChangeProcessState(process_list, pid, READY)
                /\ waiters' = Tail(waiters)
                /\ UNCHANGED <<dim, current_process_idx, remaining_ticks, pid_value,
                               children_processes>>
           ELSE UNCHANGED <<vars, waiters>>
      /\ UNCHANGED <<buffer, current_sem_amount>>

(* post_sem: whoever is first in the queue is made READY, whatever it has  *)
(* become since; a permit is left only when the queue is empty.            *)
PostSem(id) ==
  LET pos == FindSem(id)
  IN  /\ Calling /\ IsOpen(id)
      /\ buffer # "none"
      /\ IF waiters # <<>>
           THEN /\ \E pid \in Dequeued :
                     process_list' = ChangeProcessState(process_list, pid, READY)
                /\ waiters' = Tail(waiters)
                /\ UNCHANGED <<semaphores, dim, current_process_idx, remaining_ticks,
                               pid_value, children_processes>>
           ELSE /\ semaphores[pos].sem_val < MaxVal
                /\ semaphores' = [semaphores EXCEPT ![pos].sem_val = @ + 1]
                /\ UNCHANGED <<vars, waiters>>
      /\ UNCHANGED <<buffer, current_sem_amount>>

-----------------------------------------------------------------------------
(* Calls that leave the array.  For an unknown id find_sem answers 255     *)
(* (its -1 in a uint8_t), find_free_sem at the limit ERR_MAX_SEM, the same *)
(* number; no caller recognises it, and all go on with semaphores[255].    *)
(* create_sem goes on with any id as an index, and open_sem with index -1  *)
(* when no slot is empty.  What lies there is not known.  Its lock may     *)
(* read as taken: then the call spins for ever with interrupts off, and no *)
(* step follows.  Its value may be anything; its waiters may be the one    *)
(* queue or no queue at all.  The actions below allow whatever that can do *)
(* to the tables, as long as the memory there holds none of them.          *)

StartOutside ==
  /\ Calling
  /\ \/ waiters' = <<>> /\ buffer' = "live"
     \/ UNCHANGED <<waiters, buffer>>
  /\ current_sem_amount' = (current_sem_amount + 1) % 256
  /\ UNCHANGED <<vars, semaphores>>

CreateOutside ==
  /\ current_sem_amount = MAX_SEM \/ FreeSemId \notin SemSlots
  /\ StartOutside

OpenOutside(id) ==
  /\ current_sem_amount # MAX_SEM
  /\ SeenByScan(id) = {} /\ Unused = {}
  /\ StartOutside

CloseUnknown(id) ==
  /\ Calling /\ ~IsOpen(id)
  /\ current_sem_amount' = OneSemLess
  /\ \/ buffer # "none" /\ buffer' = "freed"
     \/ UNCHANGED buffer
  /\ UNCHANGED <<vars, semaphores, waiters>>

WaitUnknown(id) ==
  /\ Calling /\ ~IsOpen(id)
  /\ \/ UNCHANGED <<vars, waiters>>
     \/ /\ waiters' \in {waiters, Enqueue(waiters, CurrentPid)}
        /\ ForceTimerTick(ChangeProcessState(process_list, CurrentPid, PAUSED_BY_SEM),
                          dim, 0)
        /\ UNCHANGED <<dim, pid_value, children_processes>>
  /\ UNCHANGED <<semaphores, buffer, current_sem_amount>>

PostUnknown(id) ==
  /\ Calling /\ ~IsOpen(id)
  /\ \/ UNCHANGED <<vars, waiters>>
     \/ /\ \E pid \in 0 .. MaxPid :
             process_list' = ChangeProcessState(process_list, pid, READY)
        /\ waiters' \in {waiters} \cup (IF waiters = <<>> THEN {} ELSE {Tail(waiters)})
        /\ UNCHANGED <<dim, current_process_idx, remaining_ticks, pid_value,
                       children_processes>>
  /\ UNCHANGED <<semaphores, buffer, current_sem_amount>>

-----------------------------------------------------------------------------
SemCall ==
  \/ \E init_val \in InitVals : CreateSem(init_val)
  \/ \E id \in SemIds, init_val \in InitVals :
        OpenSem(id, init_val) \/ CreateSemById(id, init_val)
  \/ \E id \in SemIds : CloseSem(id) \/ WaitSem(id) \/ PostSem(id)
  \/ CreateOutside
  \/ \E id \in SemIds :
        OpenOutside(id) \/ CloseUnknown(id) \/ WaitUnknown(id) \/ PostUnknown(id)

SemNext == (Next /\ UNCHANGED semVars) \/ SemCall

SemSpec == SemInit /\ [][SemNext]_allVars

-----------------------------------------------------------------------------
(* Careful callers.  With a single id, used only while it is open and      *)
(* closed only when nobody waits in its queue, and nobody killing, blocking *)
(* or parenting a process that sleeps, the semaphore keeps its promise to  *)
(* those that found a place in the queue.                                  *)

Asleep == {i \in Live(process_list) : process_list[i].state = PAUSED_BY_SEM}
AsleepPids == PidsOf(process_list, Asleep)
Queued == {waiters[k] : k \in DOMAIN waiters}

CarefulSchedulerStep ==
  \/ TimerTick
  \/ Yield
  \/ \E priority \in Priorities : CreateProcess(priority)
  \/ EndProcess
  \/ \E pid \in LivePids(process_list) \ AsleepPids : KillProcess(pid)

CarefulSemCall ==
  \E id \in SemIds :
    \/ \E init_val \in InitVals : OpenSem(id, init_val)
    \/ WaitSem(id)
    \/ PostSem(id)
    \/ waiters = <<>> /\ CloseSem(id)

CarefulNext == (CarefulSchedulerStep /\ UNCHANGED semVars) \/ CarefulSemCall

CarefulSpec == SemInit /\ [][CarefulNext]_allVars

-----------------------------------------------------------------------------
(* Every variable has its type; the queue never outgrows its buffer and    *)
(* the count of semaphores, which no limit keeps from passing MAX_SEM      *)
(* (semaphore.c:14, 55), stays in its byte.                                *)
SemTypeOK ==
  /\ semaphores \in [SemSlots -> SemInfo]
  /\ waiters \in Seq(Nat) /\ Len(waiters) <= MAX_PROCESS_WAITING
  /\ buffer \in {"none", "live", "freed"}
  /\ current_sem_amount \in 0 .. 255

(* Only the full queue turns anybody away: the processes that sleep in     *)
(* wait_sem with no place in the queue, whom no post will ever reach, grow *)
(* by the caller alone, and only when every place was taken                *)
(* (semaphore.c:139-141, 158-161, queue.c:32).  Careful callers have it; it *)
(* fails when another semaphore is created meanwhile.                      *)
TurnedAway == AsleepPids \ Queued

SleepersAreQueued ==
  [][TurnedAway' # TurnedAway =>
       /\ Len(waiters) = MAX_PROCESS_WAITING
       /\ TurnedAway' = TurnedAway \cup {CurrentPid}]_allVars

(* One semaphore, as its header promises it to at most so many sleepers as *)
(* the queue has places: module CountingSemaphore with the processes the   *)
(* table shows asleep.                                                     *)
TheId == CHOOSE id \in SemIds : TRUE

Promise == INSTANCE CountingSemaphore WITH
  Callers <- 0 .. MaxPid,
  Places  <- MAX_PROCESS_WAITING,
  open    <- IsOpen(TheId),
  permits <- IF IsOpen(TheId) THEN semaphores[FindSem(TheId)].sem_val ELSE 0,
  waiting <- AsleepPids \cap Queued,
  lost    <- TurnedAway

(* Under careful callers every step of kernel and processes is a step of   *)
(* that semaphore or leaves it alone (semaphore.c:60-169).                 *)
KeepsPromise == Promise!Spec

(* "if there are processes waiting, it unblocks one" (semaphore.h:91): a   *)
(* post while the queue is not empty wakes exactly one process, which has  *)
(* slept.  Careful callers have it; it fails when a waiter is killed, whose *)
(* pid stays in the queue and takes a post (semaphore.c:158-161).          *)
PostUnblocksOne ==
  [][(\E id \in SemIds : PostSem(id)) /\ waiters # <<>>
       => \E pid \in AsleepPids : AsleepPids' = AsleepPids \ {pid}]_allVars

(* First come, first served: as long as posts keep coming, nobody who has  *)
(* found a place in the queue sleeps for ever, however often others wait   *)
(* again (queue.c:31-55).                                                  *)
NobodyStarves ==
  []<><<\E id \in SemIds : PostSem(id)>>_allVars =>
    \A pid \in 0 .. MaxPid :
      pid \in AsleepPids \cap Queued ~> pid \notin AsleepPids
=============================================================================
