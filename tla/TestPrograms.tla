---------------------------- MODULE TestPrograms ----------------------------
(***************************************************************************)
(* The shell runs, one at a time in the foreground, the test programs of    *)
(* the user land that exercise the process table and the semaphores        *)
(* (test_util.c: testsync, testsc, testprio), on the kernel of modules     *)
(* Scheduler and Semaphores.  A step is one system call of the process     *)
(* that owns the CPU, or one access to the shared variable; the timer      *)
(* ticks, and Ctrl-C comes, between any two steps.                         *)
(***************************************************************************)
EXTENDS Semaphores

CONSTANTS
  TOTAL_PAIR_PROCESSES,  \* pairs testsync creates                  (2)
  Rounds,                \* increments of each, the argument n      (2)
  MAX_TEST_PROCESSES,    \* processes testsc creates               (20)
  TestRounds,            \* times testsc does it                    (5)
  MaxRefused             \* bound of the model: creations the heap refuses

VARIABLES
  prog,     \* program and local variables of each process
  global,   \* the shared variable of testsync
  rqs,      \* p_rqs and pids: what testsc and testprio know of their children
  refused   \* how many creations the heap has refused (history)

testVars == <<prog, global, rqs, refused>>
everything == <<allVars, testVars>>

SEM_ID == 1
LOWEST == 1
MEDIUM == 3
HIGHEST == 5
Pids == 0 .. MaxPid

ASSUME TestsAssumption ==
  /\ TOTAL_PAIR_PROCESSES \in Nat \ {0} /\ Rounds \in Nat
  /\ MAX_TEST_PROCESSES \in Nat \ {0} /\ TestRounds \in Nat
  /\ MaxRefused \in Nat
  /\ SEM_ID \in SemIds /\ 1 \in InitVals
  /\ MAX_PRIORITY >= HIGHEST
  /\ MaxPid >= idle_pid

(* Where a process is in its program, the index of its loop, how often the *)
(* outer loop has gone round, and its aux and inc.                         *)
At(at) == [at |-> at, i |-> 0, round |-> 0, aux |-> 0, inc |-> 0]
Nobody == At("none")
Me == prog[CurrentPid]

TestInit ==
  /\ SemInit
  /\ prog = [pid \in Pids |-> IF pid = ShellPid THEN At("prompt") ELSE Nobody]
  /\ global = 0
  /\ rqs = <<>>
  /\ refused = 0

GoTo(next) == prog' = [prog EXCEPT ![CurrentPid].at = next]
NextI(next) == prog' = [prog EXCEPT ![CurrentPid] = [Me EXCEPT !.at = next, !.i = Me.i + 1]]

(* sys_create_child_process: it succeeds, or the heap refuses.             *)
Creates(child, parent_next) ==
  /\ \E priority \in Priorities : CreateChild(priority)
  /\ prog' = [prog EXCEPT ![CurrentPid] = parent_next, ![pid_value] = child]
  /\ UNCHANGED <<semVars, refused>>

IsRefused(parent_next) ==
  /\ refused < MaxRefused
  /\ CreateChildFails
  /\ refused' = refused + 1
  /\ prog' = [prog EXCEPT ![CurrentPid] = parent_next]
  /\ UNCHANGED semVars

(* sys_wait_for_children; without an entry of the caller it returns.       *)
Waits ==
  IF HasChildren(children_processes, CurrentPid) THEN WaitForChildren
                                                 ELSE UNCHANGED vars

-----------------------------------------------------------------------------
(* normal_process_handle of the shell.                                     *)
ShellRunsTest ==
  /\ CurrentPid = ShellPid /\ Me.at = "prompt"
  /\ \/ \E test \in {"sync", "create", "prio"} : Creates(At(test), At("wait"))
     \/ IsRefused(At("prompt"))
  /\ rqs' = <<>>
  /\ UNCHANGED global

ShellWaits ==
  /\ CurrentPid = ShellPid /\ Me.at = "wait"
  /\ Waits
  /\ GoTo("prompt")
  /\ UNCHANGED <<semVars, global, rqs, refused>>

-----------------------------------------------------------------------------
(* test_sync: pairs of a decrementer and an incrementer.                   *)
SyncCreates ==
  LET inc == IF Me.i % 2 = 0 THEN -1 ELSE 1
      next == [Me EXCEPT !.i = Me.i + 1]
  IN  /\ Me.at = "sync" /\ Me.i < 2 * TOTAL_PAIR_PROCESSES
      /\ Creates([At("open") EXCEPT !.inc = inc], next) \/ IsRefused(next)
      /\ global' = IF Me.i = 0 THEN 0 ELSE global
      /\ UNCHANGED rqs

(* Mutant: the test does not wait for its children.                         *)
SyncWaits_GoesOn ==
  /\ Me.at = "sync" /\ Me.i = 2 * TOTAL_PAIR_PROCESSES
  /\ GoTo("close")
  /\ UNCHANGED <<allVars, global, rqs, refused>>

SyncWaits ==
  /\ Me.at = "sync" /\ Me.i = 2 * TOTAL_PAIR_PROCESSES
  /\ Waits
  /\ GoTo("close")
  /\ UNCHANGED <<semVars, global, rqs, refused>>

(* Nobody has opened the semaphore when every creation was refused.        *)
SyncCloses ==
  /\ Me.at = "close"
  /\ CloseSem(SEM_ID) \/ CloseUnknown(SEM_ID)
  /\ GoTo("print")
  /\ UNCHANGED <<global, rqs, refused>>

(* my_process_inc: every child opens the semaphore; the first creates it.  *)
(* (With the array of semaphores full it would end: not modelled.)         *)
ChildOpens ==
  /\ Me.at = "open"
  /\ current_sem_amount # MAX_SEM
  /\ OpenSem(SEM_ID, 1) \/ (SeenByScan(SEM_ID) # {} /\ UNCHANGED allVars)
  /\ GoTo("mutex")
  /\ UNCHANGED <<global, rqs, refused>>

ChildWaits ==
  /\ Me.at = "mutex" /\ Me.i < Rounds
  /\ WaitSem(SEM_ID)
  /\ GoTo("inside")
  /\ UNCHANGED <<global, rqs, refused>>

(* slowInc reads the variable, gives up the CPU, and writes.               *)
SlowIncReads ==
  /\ Me.at = "inside"
  /\ Yield
  /\ prog' = [prog EXCEPT ![CurrentPid] = [Me EXCEPT !.at = "inc", !.aux = global]]
  /\ UNCHANGED <<semVars, global, rqs, refused>>

SlowIncWrites ==
  /\ Me.at = "inc"
  /\ global' = Me.aux + Me.inc
  /\ GoTo("post")
  /\ UNCHANGED <<allVars, rqs, refused>>

ChildPosts ==
  /\ Me.at = "post"
  /\ PostSem(SEM_ID)
  /\ NextI("mutex")
  /\ UNCHANGED <<global, rqs, refused>>

TestSync ==
  \/ SyncCreates \/ SyncWaits \/ SyncCloses
  \/ ChildOpens \/ ChildWaits \/ SlowIncReads \/ SlowIncWrites \/ ChildPosts

-----------------------------------------------------------------------------
(* test_processes: its children compute for ever.                          *)
Rq(pid) == [pid |-> pid, state |-> "RUNNING"]
IsCode(rq) == rq.pid \in FailureCodes
Alive == {k \in DOMAIN rqs : rqs[k].state # "KILLED" /\ ~IsCode(rqs[k])}
ThisRq == rqs[Me.i + 1]
Becomes(state) == rqs' = [rqs EXCEPT ![Me.i + 1].state = state]

(* A child that cannot be created ends the test, which leaves the others.  *)
ProcessesCreates ==
  /\ Me.at = "create" /\ Me.i < MAX_TEST_PROCESSES
  /\ \/ /\ Creates(Nobody, [Me EXCEPT !.i = Me.i + 1])
        /\ rqs' = Append(rqs, Rq(pid_value))
     \/ /\ IsRefused(At("end"))
        /\ UNCHANGED rqs
  /\ UNCHANGED global

(* The loop over the children, each killed, blocked or passed over.        *)
KillsOrBlocks ==
  /\ Me.at = "create" /\ Me.i = MAX_TEST_PROCESSES
  /\ prog' = [prog EXCEPT ![CurrentPid] = [Me EXCEPT !.at = "act", !.i = 0]]
  /\ UNCHANGED <<allVars, global, rqs, refused>>

(* The end of a loop over the children: start the next one, or leave.      *)
Turn(next) ==
  prog' = [prog EXCEPT ![CurrentPid] =
    IF Me.i + 1 < MAX_TEST_PROCESSES THEN [Me EXCEPT !.i = Me.i + 1]
                                     ELSE [Me EXCEPT !.i = 0, !.at = next]]

ProcessesKills ==
  /\ Me.at = "act"
  /\ IF ThisRq.state = "KILLED"
       THEN UNCHANGED <<vars, rqs>>
       ELSE KillProcess(ThisRq.pid) /\ Becomes("KILLED")
  /\ Turn("unblock")
  /\ UNCHANGED <<semVars, global, refused>>

ProcessesBlocks ==
  /\ Me.at = "act"
  /\ IF ThisRq.state = "RUNNING"
       THEN BlockOrUnblock(ThisRq.pid) /\ Becomes("BLOCKED")
       ELSE UNCHANGED <<vars, rqs>>
  /\ Turn("unblock")
  /\ UNCHANGED <<semVars, global, refused>>

ProcessesUnblocks ==
  /\ Me.at = "unblock"
  /\ \/ UNCHANGED <<vars, rqs>>
     \/ ThisRq.state = "BLOCKED" /\ BlockOrUnblock(ThisRq.pid) /\ Becomes("RUNNING")
  /\ Turn("again")
  /\ UNCHANGED <<semVars, global, refused>>

(* Mutant: the round ends when no child runs, though some may be blocked.   *)
ProcessesGoesRound_ForgetsBlocked ==
  /\ Me.at = "again"
  /\ prog' = [prog EXCEPT ![CurrentPid] =
       IF \E k \in DOMAIN rqs : rqs[k].state = "RUNNING" THEN [Me EXCEPT !.at = "act"]
       ELSE IF Me.round + 1 < TestRounds
         THEN [Me EXCEPT !.at = "create", !.round = Me.round + 1]
       ELSE At("end")]
  /\ rqs' = IF \E k \in DOMAIN rqs : rqs[k].state = "RUNNING" THEN rqs ELSE <<>>
  /\ UNCHANGED <<allVars, global, refused>>

(* The loop goes on while a child is alive; then the next round.           *)
ProcessesGoesRound ==
  /\ Me.at = "again"
  /\ prog' = [prog EXCEPT ![CurrentPid] =
       IF Alive # {} THEN [Me EXCEPT !.at = "act"]
       ELSE IF Me.round + 1 < TestRounds
         THEN [Me EXCEPT !.at = "create", !.round = Me.round + 1]
       ELSE At("end")]
  /\ rqs' = IF Alive # {} THEN rqs ELSE <<>>
  /\ UNCHANGED <<allVars, global, refused>>

TestProcesses ==
  \/ ProcessesCreates \/ KillsOrBlocks
  \/ ProcessesKills \/ ProcessesBlocks \/ ProcessesUnblocks \/ ProcessesGoesRound

-----------------------------------------------------------------------------
(* test_prio: three children, and five passes over them.  What the         *)
(* creation returned is taken for a pid unseen.  For an error code         *)
(* kill_process does nothing; the others write to process_list[255],       *)
(* beyond the table, and report success.                                   *)
OnChild(Call) == IF IsCode(ThisRq) THEN UNCHANGED vars ELSE Call

Nices(priorities) ==
  OnChild(ChangePriority(ThisRq.pid, priorities[Me.i + 1])) /\ UNCHANGED rqs
Toggles(state) == OnChild(BlockOrUnblock(ThisRq.pid)) /\ Becomes(state)
Kills == OnChild(KillProcess(ThisRq.pid)) /\ Becomes("KILLED")

NextChild(next) == IF Me.i < 2 THEN [Me EXCEPT !.i = Me.i + 1] ELSE At(next)

PrioPass(at, next, Call) ==
  /\ Me.at = at
  /\ Call
  /\ prog' = [prog EXCEPT ![CurrentPid] = NextChild(next)]
  /\ UNCHANGED <<semVars, global, refused>>

PrioCreates ==
  /\ Me.at = "prio"
  /\ \/ /\ CreateChild(<<LOWEST, MEDIUM, HIGHEST>>[Me.i + 1])
        /\ rqs' = Append(rqs, Rq(pid_value))
        /\ prog' = [prog EXCEPT ![CurrentPid] = NextChild("change")]
        /\ UNCHANGED <<semVars, refused>>
     \/ /\ IsRefused(NextChild("change"))
        /\ rqs' = Append(rqs, Rq(Refusal))
  /\ UNCHANGED global

TestPrio ==
  \/ PrioCreates
  \/ PrioPass("change", "block", Nices(<<MEDIUM, HIGHEST, LOWEST>>))
  \/ PrioPass("block", "change_blocked", Toggles("BLOCKED"))
  \/ PrioPass("change_blocked", "release", Nices(<<HIGHEST, LOWEST, MEDIUM>>))
  \/ PrioPass("release", "kill", Toggles("RUNNING"))
  \/ PrioPass("kill", "end", Kills)

-----------------------------------------------------------------------------
(* A program ends; the timer; Ctrl-C.                                      *)
Ending ==
  /\ Me.at \in {"print", "end"} \/ (Me.at = "mutex" /\ Me.i = Rounds)
  /\ EndProcess
  /\ prog' = [prog EXCEPT ![CurrentPid] = Nobody]
  /\ UNCHANGED <<semVars, global, rqs, refused>>

Ticking == TimerTick /\ UNCHANGED <<semVars, testVars>>

CtrlC ==
  /\ KillAllProcesses
  /\ prog' = [pid \in Pids |-> IF pid = ShellPid THEN prog[pid] ELSE Nobody]
  /\ rqs' = <<>>
  /\ UNCHANGED <<semVars, global, refused>>

TestNext ==
  \/ ShellRunsTest \/ ShellWaits
  \/ TestSync \/ TestProcesses \/ TestPrio
  \/ Ending \/ Ticking \/ CtrlC

TestSpec == TestInit /\ [][TestNext]_everything

-----------------------------------------------------------------------------
(* What testsync prints is 0: no update is lost, none is still to come and *)
(* none is left over from an earlier run (test_util.c:339-357).            *)
FinalValueIsZero == \A pid \in Pids : prog[pid].at = "print" => global = 0

(* What testsc and testprio believe of their children is what the process  *)
(* table says: their calls reach the child they mean and no process is     *)
(* toggled the wrong way (test_util.c:116-157, 229, 243, 259).  Excepted is *)
(* the child of testprio that was never created, whose code it keeps for a *)
(* pid (test_util.c:109-111).                                              *)
BeliefsAreTrue ==
  \A k \in Alive :
    \E i \in Live(process_list) :
      /\ process_list[i].pid = rqs[k].pid
      /\ process_list[i].state = IF rqs[k].state = "RUNNING" THEN READY ELSE BLOCK

(* A test that has ended leaves no process behind, whatever it did to them *)
(* and wherever Ctrl-C cut it, unless a creation was refused on its way    *)
(* (test_util.c:154-158, 220-269, 355).                                    *)
NothingLeftBehind ==
  CurrentPid = ShellPid /\ Me.at = "prompt" /\ refused = 0 =>
    Live(process_list) = {0, idle_pid}
=============================================================================
