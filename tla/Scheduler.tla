----------------------------- MODULE Scheduler -----------------------------
(***************************************************************************)
(* The process table, the child table and the round-robin dispatcher of    *)
(* the MACAC-OS kernel (Kernel/scheduler.c, Kernel/child_processes.c and    *)
(* the timer entry of Kernel/asm/interrupts.asm).                           *)
(*                                                                         *)
(* There is one CPU, and every kernel entry (system call, timer, keyboard) *)
(* is an interrupt gate: it runs with interrupts off from its first to its *)
(* last instruction, except that it may switch to another process by       *)
(* raising the timer interrupt itself (force_timer_tick).  Each action     *)
(* below is therefore one whole kernel entry, the switch included.         *)
(***************************************************************************)
EXTENDS Integers, FiniteSets

CONSTANTS
  MAX_PROCESSES,           \* length of process_list                (100)
  MAX_CHILDREN_PROCESSES,  \* length of children_processes           (50)
  MAX_PRIORITY,            \* the literal 5 of change_priority
  Priorities,              \* the priority arguments callers pass
  MaxPid                   \* bound of the model: pids below MaxPid are issued

ASSUME SizesAssumption ==
  /\ MAX_PROCESSES \in Nat /\ MAX_PROCESSES >= 2
  /\ MAX_CHILDREN_PROCESSES \in Nat
  /\ MAX_PRIORITY \in Nat /\ MAX_PRIORITY >= 1
  /\ Priorities \subseteq Nat
  /\ MaxPid \in Nat

VARIABLES
  process_list,         \* the process table, indexed by slot
  dim,                  \* the kernel's count of live processes
  current_process_idx,  \* the slot that owns the CPU
  remaining_ticks,      \* what the owner of the CPU has left of its quantum
  pid_value,            \* the next pid to issue
  children_processes    \* the table of (parent, child) pairs

procVars == <<process_list, dim, current_process_idx, remaining_ticks, pid_value>>
vars == <<process_list, dim, current_process_idx, remaining_ticks, pid_value,
          children_processes>>

-----------------------------------------------------------------------------
(* Constants of include/scheduler.h.                                       *)

DEAD == 0
BLOCK == 1
READY == 2
PAUSED == 4
PAUSED_BY_CHILD == 5
PAUSED_BY_SEM == 6

NO_SPACE_FOR_PROCESS == -2
PROCESSES_LIMIT_REACHED == -3

(* What create_process returns instead of a pid.  The child table stores   *)
(* it as an unsigned pid; the two images, 2^32-2 and 2^32-3, are no pid as *)
(* long as pid_value has not come that far, so they stay negative here.    *)
FailureCodes == {NO_SPACE_FOR_PROCESS, PROCESSES_LIMIT_REACHED}

ShellPid == 0
idle_pid == 1

Slots == 0 .. MAX_PROCESSES - 1
Entries == 0 .. MAX_CHILDREN_PROCESSES - 1
States == {DEAD, BLOCK, READY, PAUSED, PAUSED_BY_CHILD, PAUSED_BY_SEM}

(* A slot of the table.  Its remaining_ticks are read only while it owns   *)
(* the CPU and reloaded when it gets it back (scheduler.c:263, 268): one   *)
(* variable holds those of the owner.                                      *)
Process == [pid : Nat, state : States, assigned_ticks : Nat, immortal : BOOLEAN]

ChildInfo == [parent_pid : Nat, child_pid : Nat \cup FailureCodes,
              state : {DEAD, READY}]

(* A DEAD slot.  The code leaves the other fields of the process that died *)
(* there; it never reads them again, and the model forgets them.           *)
FreeSlot == [pid |-> 0, state |-> DEAD, assigned_ticks |-> 0, immortal |-> FALSE]

(* An entry that delete_children has cleared, or that was never used.      *)
FreeEntry == [parent_pid |-> 0, child_pid |-> 0, state |-> DEAD]

-----------------------------------------------------------------------------
(* Pure functions of the kernel.  pl stands for a process table, ct for a  *)
(* child table, n for dim and c for current_process_idx.                   *)

Least(S) == CHOOSE i \in S : \A j \in S : i <= j

(* 1 doubled priority times in a uint32_t: the product is 0 from 32 on.    *)
CalculateTicks(priority) == IF priority < 32 THEN 2 ^ priority ELSE 0

(* What a bounded loop over a 32-bit word computes is a natural number.    *)
ASSUME TicksAssumption ==
  \A p \in Priorities \cup 1 .. MAX_PRIORITY : CalculateTicks(p) \in Nat

Live(pl) == {i \in Slots : pl[i].state # DEAD}
PidsOf(pl, S) == {pl[i].pid : i \in S}
LivePids(pl) == PidsOf(pl, Live(pl))

(* get_process_idx, for a pid that a live process has.                     *)
GetProcessIdx(pl, pid) == Least({i \in Live(pl) : pl[i].pid = pid})

(* change_process_state.  For a pid no live process has the code stores    *)
(* the state beyond the end of process_list (the result 255 of             *)
(* get_process_idx is compared with -1): no variable of the model changes. *)
ChangeProcessState(pl, pid, new_state) ==
  IF pid \in LivePids(pl)
    THEN [pl EXCEPT ![GetProcessIdx(pl, pid)].state = new_state]
    ELSE pl

(* Mutant: the scan stops one short, and never comes back to where it began. *)
ReadyAhead_OneShort(pl, n, c) ==
  {k \in 1 .. n - 1 : pl[(c + k) % n].state = READY}

(* The distances from c at which the scan of next_process finds a READY    *)
(* process; it looks only at the slots below dim.                          *)
ReadyAhead(pl, n, c) == {k \in 1 .. n : pl[(c + k) % n].state = READY}

(* Mutant: the scan starts from slot 0 instead of the slot after the owner's. *)
Chosen_FromZero(pl, n, c) ==
  IF ReadyAhead(pl, n, c) = {} THEN GetProcessIdx(pl, idle_pid)
                               ELSE Least({i \in 0 .. n - 1 : pl[i].state = READY})

(* next_process: the round-robin choice, and the idle process when the     *)
(* scan fails.  The idle process is PAUSED while another one runs.         *)
Chosen(pl, n, c) ==
  IF ReadyAhead(pl, n, c) = {} THEN GetProcessIdx(pl, idle_pid)
                               ELSE (c + Least(ReadyAhead(pl, n, c))) % n

NextProcess(pl, n, c) ==
  LET chosen == Chosen(pl, n, c)
  IN  [list |-> IF ReadyAhead(pl, n, c) = {}
                  THEN ChangeProcessState(pl, idle_pid, READY)
                ELSE IF pl[chosen].pid # idle_pid
                  THEN ChangeProcessState(pl, idle_pid, PAUSED)
                ELSE pl,
       current |-> chosen,
       ticks |-> pl[chosen].assigned_ticks]

(* Mutant: a quantum that is spent is not noticed.                          *)
Irq00_NeverSpent(pl, n, c, r) ==
  IF pl[c].state = READY
    THEN [list |-> pl, current |-> c, ticks |-> r - 1]
    ELSE NextProcess(pl, n, c)

(* consume_tick, and what _irq00_handler makes of its answer: the process  *)
(* keeps the CPU for one more tick or next_process is called.              *)
Irq00(pl, n, c, r) ==
  IF r > 0 /\ pl[c].state = READY
    THEN [list |-> pl, current |-> c, ticks |-> r - 1]
    ELSE NextProcess(pl, n, c)

(* The child table.                                                        *)
FreeEntries(ct) == {e \in Entries : ct[e].state = DEAD}

AddChild(ct, parent, child) ==
  IF FreeEntries(ct) = {}
    THEN ct
    ELSE [ct EXCEPT ![Least(FreeEntries(ct))] =
            [parent_pid |-> parent, child_pid |-> child, state |-> READY]]

HasChildren(ct, pid) == \E e \in Entries : ct[e].parent_pid = pid

AllChildrenFinished(ct, pid) ==
  \A e \in Entries : ~(ct[e].state = READY /\ ct[e].parent_pid = pid)

(* Mutant: the dead process is looked for among the parents.                *)
BuryEntries_ByParent(ct, pids) ==
  [e \in Entries |-> IF ct[e].state = READY /\ ct[e].parent_pid \in pids
                       THEN [ct[e] EXCEPT !.state = DEAD]
                       ELSE ct[e]]

(* destroy_process for each slot of a set S (one slot, or all that         *)
(* kill_all_processes takes): the entries of the dead are marked, and a    *)
(* parent with no entry left READY loses its entries and is made READY,    *)
(* unless it is among the dead.  SchedulerReference holds the loops        *)
(* themselves, and a run compares the two.                                 *)
BuryEntries(ct, pids) ==
  [e \in Entries |-> IF ct[e].state = READY /\ ct[e].child_pid \in pids
                       THEN [ct[e] EXCEPT !.state = DEAD]
                       ELSE ct[e]]

(* Mutant: the siblings are examined before the dead child is marked.       *)
FinishedParents_TooEarly(ct, pids) ==
  {ct[e].parent_pid : e \in {b \in Entries :
      /\ ct[b].state = READY /\ ct[b].child_pid \in pids
      /\ AllChildrenFinished(ct, ct[b].parent_pid)}}

(* Mutant: the siblings are not examined at all.                            *)
FinishedParents_AnyChild(ct, pids) ==
  {ct[e].parent_pid : e \in {b \in Entries :
      ct[b].state = READY /\ ct[b].child_pid \in pids}}

FinishedParents(ct, pids) ==
  {ct[e].parent_pid : e \in {b \in Entries :
      /\ ct[b].state = READY /\ ct[b].child_pid \in pids
      /\ AllChildrenFinished(BuryEntries(ct, pids), ct[b].parent_pid)}}

Destroy(pl, ct, S) ==
  LET pids == PidsOf(pl, S)
      finished == FinishedParents(ct, pids)
  IN  [list |-> [i \in Slots |->
                   IF i \in S THEN FreeSlot
                   ELSE IF pl[i].state # DEAD /\ pl[i].pid \in finished
                     THEN [pl[i] EXCEPT !.state = READY]
                   ELSE pl[i]],
       table |-> [e \in Entries |->
                   IF ct[e].parent_pid \in finished
                     THEN FreeEntry
                     ELSE BuryEntries(ct, pids)[e]]]

-----------------------------------------------------------------------------
(* The initial state is the one the boot leaves: main has created the shell *)
(* and the idle process, scheduler_init has jumped to the shell, and the    *)
(* first timer tick has enabled the scheduler.                             *)

ShellAtBoot == [pid |-> ShellPid, state |-> READY,
                assigned_ticks |-> CalculateTicks(1), immortal |-> TRUE]
IdleAtBoot == [ShellAtBoot EXCEPT !.pid = idle_pid, !.state = PAUSED]
Init ==
  /\ process_list = [i \in Slots |-> CASE i = 0 -> ShellAtBoot
                                        [] i = 1 -> IdleAtBoot
                                        [] OTHER -> FreeSlot]
  /\ dim = 2
  /\ current_process_idx = 0
  /\ remaining_ticks = CalculateTicks(1)
  /\ pid_value = 2
  /\ children_processes = [e \in Entries |-> FreeEntry]

-----------------------------------------------------------------------------
(* Kernel entries.                                                         *)

CurrentPid == process_list[current_process_idx].pid

(* The idle process only halts: every system call is another process's.    *)
Calling == CurrentPid # idle_pid

(* The table and the CPU after an entry that ends by raising the timer     *)
(* interrupt with the table at pl, the count at n and r ticks left.        *)
ForceTimerTick(pl, n, r) ==
  LET after == Irq00(pl, n, current_process_idx, r)
  IN  /\ process_list' = after.list
      /\ current_process_idx' = after.current
      /\ remaining_ticks' = after.ticks

(* The 8254 timer, whatever process runs.                                  *)
TimerTick ==
  /\ ForceTimerTick(process_list, dim, remaining_ticks)
  /\ UNCHANGED <<dim, pid_value, children_processes>>

(* sys_yield: force_next_process gives up what is left of the quantum.     *)
Yield ==
  /\ Calling
  /\ ForceTimerTick(process_list, dim, 0)
  /\ UNCHANGED <<dim, pid_value, children_processes>>

(* Mutant: pids are taken from the count of processes, not from a counter.  *)
Spawn_PidFromCount(priority) ==
  /\ dim < MAX_PROCESSES
  /\ pid_value < MaxPid
  /\ process_list' = [process_list EXCEPT
        ![Least(Slots \ Live(process_list))] =
          [pid |-> dim, state |-> READY,
           assigned_ticks |-> CalculateTicks(priority), immortal |-> FALSE]]
  /\ pid_value' = pid_value + 1
  /\ dim' = dim + 1

(* create_process when it succeeds: the first free slot and the next pid.  *)
(* When the table or the heap is full it returns a code and changes nothing.*)
Spawn(priority) ==
  /\ dim < MAX_PROCESSES
  /\ pid_value < MaxPid
  /\ process_list' = [process_list EXCEPT
        ![Least(Slots \ Live(process_list))] =
          [pid |-> pid_value, state |-> READY,
           assigned_ticks |-> CalculateTicks(priority), immortal |-> FALSE]]
  /\ pid_value' = pid_value + 1
  /\ dim' = dim + 1

CreateProcess(priority) ==
  /\ Calling
  /\ Spawn(priority)
  /\ UNCHANGED <<current_process_idx, remaining_ticks, children_processes>>

(* create_child_process records what create_process returned, be it a pid  *)
(* or an error: the heap (NO_SPACE_FOR_PROCESS) may refuse at any time.     *)
CreateChild(priority) ==
  /\ Calling
  /\ Spawn(priority)
  /\ children_processes' = AddChild(children_processes, CurrentPid, pid_value)
  /\ UNCHANGED <<current_process_idx, remaining_ticks>>

Refusal == IF dim = MAX_PROCESSES THEN PROCESSES_LIMIT_REACHED
                                  ELSE NO_SPACE_FOR_PROCESS

CreateChildFails ==
  /\ Calling
  /\ children_processes' = AddChild(children_processes, CurrentPid, Refusal)
  /\ UNCHANGED procVars

(* wait_for_children: sleep if any entry, of whatever state, names the     *)
(* caller as parent.                                                       *)
WaitForChildren ==
  /\ Calling
  /\ HasChildren(children_processes, CurrentPid)
  /\ ForceTimerTick(ChangeProcessState(process_list, CurrentPid, PAUSED_BY_CHILD),
                    dim, remaining_ticks)
  /\ UNCHANGED <<dim, pid_value, children_processes>>

(* Mutant: kill_all_processes counts its victims as one.                    *)
DestroyAndSwitch_CountsOne(S) ==
  LET after == Destroy(process_list, children_processes, S)
  IN  /\ IF current_process_idx \in S
           THEN ForceTimerTick(after.list, dim - 1, 0)
           ELSE /\ process_list' = after.list
                /\ UNCHANGED <<current_process_idx, remaining_ticks>>
      /\ dim' = dim - 1
      /\ children_processes' = after.table
      /\ UNCHANGED pid_value

(* Mutant: a process that kills itself returns to its caller.               *)
DestroyAndSwitch_Returns(S) ==
  LET after == Destroy(process_list, children_processes, S)
  IN  /\ process_list' = after.list
      /\ dim' = dim - Cardinality(S)
      /\ children_processes' = after.table
      /\ UNCHANGED <<current_process_idx, remaining_ticks, pid_value>>

(* Slots in S die; the CPU changes hands when its owner is one of them.    *)
DestroyAndSwitch(S) ==
  LET after == Destroy(process_list, children_processes, S)
      left == dim - Cardinality(S)
  IN  /\ IF current_process_idx \in S
           THEN ForceTimerTick(after.list, left, 0)
           ELSE /\ process_list' = after.list
                /\ UNCHANGED <<current_process_idx, remaining_ticks>>
      /\ dim' = left
      /\ children_processes' = after.table
      /\ UNCHANGED pid_value

Mortal(pl) == {i \in Live(pl) : ~pl[i].immortal}

(* kill_process, of another process or of the caller itself.               *)
KillProcess(pid) ==
  /\ Calling
  /\ GetProcessIdx(process_list, pid) \in Mortal(process_list)
  /\ DestroyAndSwitch({GetProcessIdx(process_list, pid)})

(* end_process, where every process but the shell and idle returns to, and *)
(* where the exception handler sends a faulting one.                       *)
EndProcess ==
  /\ current_process_idx \in Mortal(process_list)
  /\ DestroyAndSwitch({current_process_idx})

(* Ctrl-C: the keyboard interrupt kills all processes that are not immortal.*)
KillAllProcesses ==
  /\ Mortal(process_list) # {}
  /\ DestroyAndSwitch(Mortal(process_list))

(* block_or_unblock toggles BLOCK and READY, whatever the state was.       *)
BlockOrUnblock(pid) ==
  LET idx == GetProcessIdx(process_list, pid)
      toggled == [process_list EXCEPT ![idx].state =
                    IF @ = BLOCK THEN READY ELSE BLOCK]
  IN  /\ Calling
      /\ IF idx = current_process_idx
           THEN ForceTimerTick(toggled, dim, remaining_ticks)
           ELSE /\ process_list' = toggled
                /\ UNCHANGED <<current_process_idx, remaining_ticks>>
      /\ UNCHANGED <<dim, pid_value, children_processes>>

(* change_priority (system calls nice and change_priority) clamps its      *)
(* argument to 1 .. 5; the running quantum is not touched.                 *)
Clamped(priority) == CASE priority > MAX_PRIORITY -> MAX_PRIORITY
                       [] priority < 1 -> 1
                       [] OTHER -> priority

ChangePriority(pid, priority) ==
  /\ Calling
  /\ process_list' =
       [process_list EXCEPT ![GetProcessIdx(process_list, pid)].assigned_ticks =
          CalculateTicks(Clamped(priority))]
  /\ UNCHANGED <<dim, current_process_idx, remaining_ticks, pid_value,
                 children_processes>>

-----------------------------------------------------------------------------
(* The callers name live processes.  For any other pid kill_process does   *)
(* nothing, while block_or_unblock and change_priority go on with index    *)
(* 255 and reach memory outside process_list, which is not modelled.       *)
SystemCall ==
  \/ Yield
  \/ \E priority \in Priorities : CreateProcess(priority)
  \/ \E priority \in Priorities : CreateChild(priority)
  \/ CreateChildFails
  \/ WaitForChildren
  \/ \E pid \in LivePids(process_list) : KillProcess(pid)
  \/ EndProcess
  \/ \E pid \in LivePids(process_list) : BlockOrUnblock(pid)
  \/ \E pid \in LivePids(process_list), priority \in Priorities :
        ChangePriority(pid, priority)

Next == TimerTick \/ KillAllProcesses \/ SystemCall

Spec == Init /\ [][Next]_vars

(* The 8254 is programmed to interrupt periodically and every code the     *)
(* processes run has interrupts on: ticks keep coming.  Nothing else is    *)
(* promised: no process need ever make a call.                             *)
FairSpec == Spec /\ WF_vars(TimerTick)

-----------------------------------------------------------------------------
(* Invariants.                                                             *)

(* Every variable has its type, and the child table holds no state but     *)
(* DEAD and READY (scheduler.c:13-41, child_processes.c:5-11).             *)
TypeOK ==
  /\ process_list \in [Slots -> Process]
  /\ dim \in 0 .. MAX_PROCESSES
  /\ current_process_idx \in Slots
  /\ remaining_ticks \in Nat
  /\ pid_value \in Nat
  /\ children_processes \in [Entries -> ChildInfo]

(* dim is the number of live processes: each death is counted once, by     *)
(* end_process, kill_process or kill_all_processes, a process is never     *)
(* counted that was not created (scheduler.c:185, 203), and so "dim ==     *)
(* MAX_PROCESSES" is exactly "no free slot".                               *)
DimCountsLive == dim = Cardinality(Live(process_list))

(* A pid names at most one live process, so a kill, a block or a wake-up   *)
(* reaches the process it was meant for (scheduler.c:82-89, 171).          *)
PidsUnique ==
  \A i, j \in Live(process_list) :
    process_list[i].pid = process_list[j].pid => i = j

(* The shell and the idle process survive kills and Ctrl-C in the slots    *)
(* main gave them, so next_process always has an idle process to fall      *)
(* back on (scheduler.c:224, 258, 308).                                    *)
KernelProcessesSurvive ==
  \A i \in Live(process_list) \cup {0, 1} :
    /\ process_list[i].state # DEAD
    /\ i \in {0, 1} => process_list[i].pid = i /\ process_list[i].immortal
    /\ i \notin {0, 1} => process_list[i].pid > 1 /\ ~process_list[i].immortal

(* Outside the kernel the CPU is owned by a process that is READY: no      *)
(* entry returns to a process that it, or an earlier one, killed, blocked  *)
(* or put to sleep (scheduler.c:126, 193, 231, 315, child_processes.c:83). *)
RunningIsReady == process_list[current_process_idx].state = READY

(* An entry of the child table that still counts names a process that can  *)
(* still end, or is one that create_process refused (child_processes.c:65).*)
PendingChildrenAreLive ==
  \A e \in Entries :
    children_processes[e].state = READY =>
      children_processes[e].child_pid \in LivePids(process_list) \cup FailureCodes

(* Nobody sleeps for children that have all ended: a process other than    *)
(* the shell that sleeps in wait_for_children has a counting entry of a    *)
(* child that is still live, whose death will find it                      *)
(* (child_processes.c:38-44, 79-85).  The exception is a parent one of     *)
(* whose creations was refused: its entry counts, no death ever finds it   *)
(* (child_processes.c:65), and the parent sleeps on when every child it    *)
(* really had has ended.                                                   *)
Pending(ct, pid) == {e \in Entries : ct[e].state = READY /\ ct[e].parent_pid = pid}

SleepersHaveChildren ==
  \A i \in Live(process_list) :
    LET pending == Pending(children_processes, process_list[i].pid)
    IN  /\ process_list[i].state = PAUSED_BY_CHILD
        /\ process_list[i].pid # ShellPid
        /\ \A e \in pending : children_processes[e].child_pid \notin FailureCodes
        => \E e \in pending :
             children_processes[e].child_pid \in LivePids(process_list)

-----------------------------------------------------------------------------
(* Action properties.                                                      *)

(* A process asleep in wait_for_children is made READY by the end of its   *)
(* last child only, never by the end of one of several: none of the        *)
(* children that counted when it was woken is still alive                  *)
(* (child_processes.c:38-44).                                              *)
WokenByLastChild ==
  [][\A i \in Slots :
       /\ process_list[i].state = PAUSED_BY_CHILD
       /\ process_list'[i].state = READY
       => \A e \in Entries :
            /\ children_processes[e].state = READY
            /\ children_processes[e].parent_pid = process_list[i].pid
            => children_processes[e].child_pid \notin LivePids(process_list')]_vars

(* The dispatcher turns to the idle process, if nobody unblocked it by     *)
(* hand, only when no process in the slots it scans could run              *)
(* (scheduler.c:248-259).                                                  *)
IdleIsLastResort ==
  [][/\ process_list[1].state # READY
     /\ process_list'[1].state = READY
     /\ current_process_idx' = 1
     => \A i \in Live(process_list') :
          process_list'[i].state = READY /\ i < dim' => i = 1]_vars

-----------------------------------------------------------------------------
(* Liveness.                                                               *)

(* Round robin: while the number of processes does not change, a process   *)
(* that stays READY in a slot below dim gets the CPU again and again,      *)
(* whatever priorities and calls the others use (scheduler.c:248-255).     *)
RoundRobin ==
  \A i \in Slots :
    (\E n \in 0 .. MAX_PROCESSES :
        <>[](dim = n /\ i < n /\ process_list[i].state = READY))
      => []<>(current_process_idx = i)

-----------------------------------------------------------------------------
(* What the repository says and the code does not do: a run refutes it.    *)

(* "long enough to see theese processes beeing run at least twice"         *)
(* (test_util.c:12): a process that stays READY is run, again and again,   *)
(* in whatever slot of the table it is.  next_process scans only the slots *)
(* below dim, and the table has holes (scheduler.c:249).                   *)
EveryReadyProcessRuns ==
  \A i \in Slots :
    <>[](process_list[i].state = READY) => []<>(current_process_idx = i)
=============================================================================
