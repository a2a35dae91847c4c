------------------------- MODULE TestProgramsProofs -------------------------
(***************************************************************************)
(* Proofs about the test programs, for every number of processes, rounds   *)
(* and children: what testsc and testprio believe of their children is so, *)
(* a test that has ended leaves nobody behind, and testsync prints 0.  All *)
(* rest on the wait for children: the shell and testsync go on when nobody *)
(* they have started runs any more.  That in turn needs a place in the     *)
(* child table for every child, which is counted.                          *)
(***************************************************************************)
EXTENDS TestPrograms, KernelProofs

(* The child table has places for the children of one test, for the test   *)
(* itself, and for what every refused creation may leave there.            *)
RoomForTests ==
  \A w \in {2 * TOTAL_PAIR_PROCESSES, MAX_TEST_PROCESSES, 3} :
    MAX_CHILDREN_PROCESSES > MAX_TEST_PROCESSES * MaxRefused + w

-----------------------------------------------------------------------------
(* Who runs what.  A boss is a test the shell has started, a worker a      *)
(* child of testsync; the children of the others compute for ever.         *)
SyncAts == {"sync", "close", "print"}
CreateAts == {"create", "act", "unblock", "again"}
PrioAts == {"prio", "change", "block", "change_blocked", "release", "kill"}
BossAts == SyncAts \cup CreateAts \cup PrioAts \cup {"end"}
WorkerAts == {"open", "mutex", "inside", "inc", "post"}
ShellAts == {"prompt", "wait"}

Prog == [at : ShellAts \cup BossAts \cup WorkerAts \cup {"none"},
         i : Nat, round : Nat, aux : Int, inc : {-1, 0, 1}]
Request == [pid : Nat \cup FailureCodes, state : {"RUNNING", "BLOCKED", "KILLED"}]

Bosses == {p \in Pids : prog[p].at \in BossAts}
Workers == {p \in Pids : prog[p].at \in WorkerAts}
Working == {p \in Bosses : prog[p].at \notin {"print", "end"}}

(* What the tables say of a pid.                                           *)
Is(pl, p, s) == \E i \in Live(pl) : pl[i].pid = p /\ pl[i].state = s
Awake(p) == Is(process_list, p, READY)
Counting == {e \in Entries : children_processes[e].state = READY}
Owned(p) == {e \in Counting : children_processes[e].parent_pid = p}
Failed == {e \in Counting : children_processes[e].child_pid \in FailureCodes}
Kids(p) == Owned(p) \ Failed
Names(p, c) == \E e \in Owned(p) : children_processes[e].child_pid = c

TestTypes ==
  /\ prog \in [Pids -> Prog]
  /\ rqs \in Seq(Request)
  /\ refused \in 0 .. MaxRefused
  /\ global \in Int

(* There is one test at a time.                                            *)
Roles ==
  /\ prog[ShellPid].at \in ShellAts
  /\ \A p \in Pids \ {ShellPid} : prog[p].at \notin ShellAts
  /\ \A p \in Bosses \cup Workers : p \in LivePids(process_list) /\ p # idle_pid
  /\ \A p, q \in Bosses : p = q

(* The child table knows the test, and its workers.                        *)
Families ==
  /\ \A p \in Bosses : Names(ShellPid, p)
  /\ \A c \in Workers : \E p \in Bosses :
       prog[p].at \in {"sync", "close"} /\ Names(p, c)
  /\ \A e \in Entries :
       children_processes[e].parent_pid \in LivePids(process_list) \ {ShellPid}
         => children_processes[e].parent_pid \in Bosses
  /\ \A e \in Counting : children_processes[e].child_pid \notin {ShellPid, idle_pid}
  /\ NamedOnce(children_processes)

(* Who is awake behind its wait has nobody left.                           *)
Returned ==
  /\ prog[ShellPid].at = "prompt" /\ Awake(ShellPid) => Bosses = {}
  /\ \A p \in Bosses : prog[p].at = "close" /\ Awake(p) => Owned(p) = {}

(* What testprio has done to its child k when it stands at i of a pass.    *)
Expected(at, i, k) ==
  CASE at \in {"prio", "change"} -> "RUNNING"
    [] at = "block" -> IF k <= i THEN "BLOCKED" ELSE "RUNNING"
    [] at = "change_blocked" -> "BLOCKED"
    [] at = "release" -> IF k <= i THEN "RUNNING" ELSE "BLOCKED"
    [] at = "kill" -> IF k <= i THEN "KILLED" ELSE "RUNNING"

InStep(r) ==
  /\ r.at \in SyncAts => rqs = <<>>
  /\ r.at = "sync" => r.i <= 2 * TOTAL_PAIR_PROCESSES
  /\ r.at = "create" => r.i <= MAX_TEST_PROCESSES /\ Len(rqs) = r.i
  /\ r.at \in {"act", "unblock", "again"} =>
       r.i < MAX_TEST_PROCESSES /\ Len(rqs) = MAX_TEST_PROCESSES
  /\ r.at = "again" => r.i = 0
  /\ r.at \in CreateAts => \A k \in DOMAIN rqs : ~IsCode(rqs[k])
  /\ r.at \in PrioAts =>
       /\ r.i <= 2
       /\ Len(rqs) = IF r.at = "prio" THEN r.i ELSE 3
       /\ \A k \in DOMAIN rqs : rqs[k].state = Expected(r.at, r.i, k)

(* What the tests know of their children.                                  *)
Known(p) == \E k \in Alive : rqs[k].pid = p
Children ==
  /\ \A k \in Alive : /\ rqs[k].pid \in Pids \ {ShellPid, idle_pid}
                      /\ prog[rqs[k].pid].at = "none"
                      /\ Is(process_list, rqs[k].pid,
                            IF rqs[k].state = "RUNNING" THEN READY ELSE BLOCK)
  /\ \A j, k \in Alive : rqs[j].pid = rqs[k].pid => j = k
  /\ \A p \in Bosses : InStep(prog[p])
  /\ \A p \in Bosses : prog[p].at \in CreateAts \cup PrioAts =>
       \A e \in Kids(p) : Known(children_processes[e].child_pid)

(* Without a refusal nobody is forgotten.                                  *)
NobodyForgotten ==
  refused = 0 =>
    /\ Alive # {} => \E p \in Bosses : prog[p].at \in CreateAts \cup PrioAts
    /\ \A p \in LivePids(process_list) \ {ShellPid, idle_pid} :
         p \in Bosses \cup Workers \/ Known(p)

(* The places taken in the child table.                                    *)
Created(r) ==
  IF r.at \in {"sync", "create", "prio"} THEN r.i
  ELSE IF r.at = "close" THEN 2 * TOTAL_PAIR_PROCESSES
  ELSE IF r.at \in CreateAts THEN MAX_TEST_PROCESSES
  ELSE 3
Strays == Failed \cup {e \in Counting : /\ children_processes[e].parent_pid \notin Working
                                        /\ children_processes[e].child_pid \notin Bosses}
Room ==
  /\ Cardinality(Strays) <= MAX_TEST_PROCESSES * refused
  /\ \A p \in Working : Cardinality(Kids(p)) <= Created(prog[p])

(* The one semaphore, and who may stand in the one queue.                  *)
OneSlot ==
  /\ SemTypeOK
  /\ \A i \in SemSlots : semaphores[i].sem_id # EMPTY_SEM =>
       i = 0 /\ semaphores[i].sem_id = SEM_ID
  /\ IsOpen(SEM_ID) => buffer = "live"
  /\ \A c \in Workers : prog[c].at # "open" => IsOpen(SEM_ID)
  /\ \A k \in DOMAIN waiters : /\ waiters[k] < pid_value
                               /\ waiters[k] \notin Bosses \cup {ShellPid, idle_pid}

Serial ==
  /\ TestTypes /\ Roles /\ Families /\ Returned
  /\ Children /\ NobodyForgotten /\ Room

InPids == LivePids(process_list) \subseteq Pids

TestInv == IInv /\ Serial /\ OneSlot /\ InPids

-----------------------------------------------------------------------------
(* What the functions of the kernel do to the tables, seen by pids.        *)
LEMMA OneState ==
  ASSUME NEW pl, NEW n, NEW pv, SoundTable(pl, n, pv),
         NEW p, NEW s, NEW t, Is(pl, p, s), Is(pl, p, t)
  PROVE  s = t
BY DEF Is, SoundTable

LEMMA LiveIs ==
  ASSUME NEW pl
  PROVE  \A p : p \in LivePids(pl) <=> \E s : Is(pl, p, s)
BY DEF Is, LivePids, PidsOf

(* A switch touches nobody but the idle process.                           *)
LEMMA SwitchView ==
  ASSUME NEW pl, NEW ql, NEW n, NEW pv, SoundTable(pl, n, pv),
         ql \in [Slots -> Process], SameButIdle(pl, ql)
  PROVE  /\ LivePids(ql) = LivePids(pl)
         /\ \A p, s : p # idle_pid => (Is(ql, p, s) <=> Is(pl, p, s))
<1>1. 1 \in Live(pl) /\ pl[1].pid = idle_pid
  BY IdleSlot
<1>2. Live(ql) = Live(pl) /\ \A i \in Live(pl) : ql[i].pid = pl[i].pid
  BY <1>1 DEF SameButIdle, Live, READY, PAUSED, DEAD
<1>3. \A i \in Live(pl) : ql[i].pid # idle_pid => ql[i].state = pl[i].state
  BY <1>1, <1>2 DEF SameButIdle, Live
<1> QED BY <1>2, <1>3 DEF Is, LivePids, PidsOf

(* change_process_state.                                                   *)
LEMMA StateView ==
  ASSUME NEW pl, NEW n, NEW pv, SoundTable(pl, n, pv),
         NEW pid \in LivePids(pl), NEW st \in States \ {DEAD}
  PROVE  /\ LivePids(ChangeProcessState(pl, pid, st)) = LivePids(pl)
         /\ \A p, s : Is(ChangeProcessState(pl, pid, st), p, s) <=>
              IF p = pid THEN s = st ELSE Is(pl, p, s)
<1> DEFINE ql == ChangeProcessState(pl, pid, st)
<1>1. PICK i \in Live(pl) : pl[i].pid = pid
  BY DEF LivePids, PidsOf
<1>2. ql = [pl EXCEPT ![i].state = st]
  <2>1. ChangeProcessState(pl, pl[i].pid, st) = WithState(pl, i, st)
    BY ChangeStateOfLive
  <2> QED BY <1>1, <2>1 DEF WithState
<1>3. pl \in [Slots -> Process] /\ i \in Slots
  BY DEF SoundTable, Live
<1> HIDE DEF ql
<1>4. /\ \A j \in Slots : ql[j].pid = pl[j].pid
      /\ ql[i].state = st
      /\ \A j \in Slots \ {i} : ql[j].state = pl[j].state
  BY <1>2, <1>3 DEF Process
<1>5. Live(ql) = Live(pl)
  BY <1>3, <1>4 DEF Live
<1>6. \A j \in Live(pl) : pl[j].pid = pid => j = i
  BY <1>1 DEF SoundTable
<1>7. Live(pl) \subseteq Slots
  BY DEF Live
<1>8. LivePids(ql) = LivePids(pl)
  BY <1>4, <1>5, <1>7 DEF LivePids, PidsOf
<1>9. ASSUME NEW p, NEW s
      PROVE  Is(ql, p, s) <=> IF p = pid THEN s = st ELSE Is(pl, p, s)
  BY <1>1, <1>4, <1>5, <1>6, <1>7 DEF Is
<1> QED BY <1>8, <1>9 DEF ql

LEMMA SpawnView ==
  ASSUME IInv, NEW priority, Spawn(priority)
  PROVE  /\ LivePids(process_list') = LivePids(process_list) \cup {pid_value}
         /\ \A p, s : Is(process_list', p, s) <=>
              Is(process_list, p, s) \/ (p = pid_value /\ s = READY)
<1> DEFINE free == Slots \ Live(process_list)
           slot == Least(free)
           new == [pid |-> pid_value, state |-> READY,
                   assigned_ticks |-> CalculateTicks(priority), immortal |-> FALSE]
<1>1. process_list \in [Slots -> Process] /\ dim = Cardinality(Live(process_list))
  BY DEF IInv, SoundTable
<1>2. free # {}
  <2>1. SUFFICES ASSUME free = {} PROVE FALSE
    OBVIOUS
  <2>2. Live(process_list) = Slots
    BY <2>1 DEF Live
  <2> QED BY <1>1, <2>2, LiveFinite DEF Spawn
<1>3. slot \in free
  BY <1>2, LeastIn, free \in SUBSET Nat DEF Slots
<1>4. process_list' = [process_list EXCEPT ![slot] = new]
  BY DEF Spawn
<1>5. new.pid = pid_value /\ new.state = READY
  OBVIOUS
<1> HIDE DEF slot, new
<1>6. /\ process_list'[slot] = new
      /\ \A i \in Slots \ {slot} : process_list'[i] = process_list[i]
      /\ slot \in Slots /\ slot \notin Live(process_list)
  BY <1>1, <1>3, <1>4
<1>7. Live(process_list') = Live(process_list) \cup {slot}
  BY <1>5, <1>6 DEF Live, READY, DEAD
<1>8. \A i \in Live(process_list) : process_list'[i] = process_list[i]
  BY <1>6 DEF Live
<1> QED BY <1>5, <1>6, <1>7, <1>8 DEF Is, LivePids, PidsOf

(* destroy_process: the table, then the entries of the children.           *)
LEMMA DestroyView ==
  ASSUME NEW pl, NEW n, NEW pv, SoundTable(pl, n, pv),
         NEW ct, NEW S \in SUBSET Mortal(pl), NEW D, D = PidsOf(pl, S),
         NEW after, after = Destroy(pl, ct, S)
  PROVE  /\ LivePids(after.list) = LivePids(pl) \ D
         /\ \A p, s : p \notin D =>
              (Is(after.list, p, s) <=>
                 IF p \in FinishedParents(ct, D) THEN s = READY /\ p \in LivePids(pl)
                                                 ELSE Is(pl, p, s))
<1> DEFINE finished == FinishedParents(ct, D)
<1>1. after.list = [i \in Slots |->
                     IF i \in S THEN FreeSlot
                     ELSE IF pl[i].state # DEAD /\ pl[i].pid \in finished
                       THEN [pl[i] EXCEPT !.state = READY]
                     ELSE pl[i]]
  BY DEF Destroy
<1>2. pl \in [Slots -> Process] /\ S \subseteq Live(pl) /\ Live(pl) \subseteq Slots
  BY DEF SoundTable, Live, Mortal
<1> HIDE DEF finished
<1>3. /\ \A i \in S : after.list[i].state = DEAD
      /\ \A i \in Slots \ S : pl[i].state = DEAD => after.list[i].state = DEAD
      /\ \A i \in Live(pl) \ S :
           /\ after.list[i].pid = pl[i].pid
           /\ after.list[i].state = IF pl[i].pid \in finished THEN READY ELSE pl[i].state
  BY <1>1, <1>2 DEF Live, Process, FreeSlot
<1>4. Live(after.list) = Live(pl) \ S
  BY <1>2, <1>3 DEF Live, READY, DEAD
<1>5. \A i \in Live(pl) : i \in S <=> pl[i].pid \in D
  BY <1>2 DEF SoundTable, PidsOf
<1>6. LivePids(after.list) = LivePids(pl) \ D
  BY <1>2, <1>3, <1>4, <1>5 DEF LivePids, PidsOf
<1>7. ASSUME NEW p, NEW s, p \notin D
      PROVE  Is(after.list, p, s) <=>
               IF p \in finished THEN s = READY /\ p \in LivePids(pl) ELSE Is(pl, p, s)
  <2>1. Is(after.list, p, s) <=>
          \E i \in Live(pl) : pl[i].pid = p /\ after.list[i].state = s
    BY <1>3, <1>4, <1>5, <1>7 DEF Is
  <2>2. CASE p \in finished
    BY <1>2, <1>3, <1>5, <1>7, <2>1, <2>2 DEF LivePids, PidsOf
  <2>3. CASE p \notin finished
    BY <1>2, <1>3, <1>5, <1>7, <2>1, <2>3 DEF Is
  <2> QED BY <2>2, <2>3
<1> QED BY <1>6, <1>7 DEF finished

LEMMA EntriesView ==
  ASSUME NEW pl, NEW ct \in [Entries -> ChildInfo], NEW S, NEW D, D = PidsOf(pl, S),
         NEW after, after = Destroy(pl, ct, S)
  PROVE  /\ \A e \in Entries :
              /\ after.table[e].state = READY <=> ct[e].state = READY /\ ct[e].child_pid \notin D
              /\ after.table[e].state = READY => after.table[e] = ct[e]
              /\ after.table[e].parent_pid \in {ct[e].parent_pid, ShellPid}
         /\ \A f \in FinishedParents(ct, D) : \A e \in Entries :
              ct[e].state = READY /\ ct[e].parent_pid = f => ct[e].child_pid \in D
<1> DEFINE finished == FinishedParents(ct, D)
           buried == BuryEntries(ct, D)
<1>1. after.table = [e \in Entries |-> IF ct[e].parent_pid \in finished THEN FreeEntry
                                                                     ELSE buried[e]]
  BY DEF Destroy
<1>2. \A e \in Entries : buried[e] = IF ct[e].state = READY /\ ct[e].child_pid \in D
                                        THEN [ct[e] EXCEPT !.state = DEAD] ELSE ct[e]
  BY DEF BuryEntries
<1>3. \A f \in finished : \A e \in Entries :
        ct[e].state = READY /\ ct[e].parent_pid = f => ct[e].child_pid \in D
  BY FinishedIs
<1> HIDE DEF finished, buried
<1>4. \A e \in Entries : ct[e] \in ChildInfo
  OBVIOUS
<1>5. \A e \in Entries :
        /\ after.table[e].state = READY <=> ct[e].state = READY /\ ct[e].child_pid \notin D
        /\ after.table[e].state = READY => after.table[e] = ct[e]
        /\ after.table[e].parent_pid \in {ct[e].parent_pid, ShellPid}
  <2> TAKE e \in Entries
  <2>1. ct[e] = [parent_pid |-> ct[e].parent_pid, child_pid |-> ct[e].child_pid,
                 state |-> ct[e].state]
    BY <1>4 DEF ChildInfo
  <2>2. CASE ct[e].parent_pid \in finished
    <3>1. after.table[e] = FreeEntry
      BY <1>1, <2>2
    <3> QED BY <1>3, <2>2, <3>1 DEF FreeEntry, READY, DEAD, ShellPid
  <2>3. CASE ct[e].parent_pid \notin finished /\ ct[e].state = READY /\ ct[e].child_pid \in D
    <3>1. after.table[e] = [ct[e] EXCEPT !.state = DEAD]
      BY <1>1, <1>2, <2>3
    <3>2. after.table[e].state = DEAD /\ after.table[e].parent_pid = ct[e].parent_pid
      BY <2>1, <3>1
    <3> QED BY <2>3, <3>2 DEF READY, DEAD
  <2>4. CASE ct[e].parent_pid \notin finished /\ ~(ct[e].state = READY /\ ct[e].child_pid \in D)
    <3>1. after.table[e] = ct[e]
      BY <1>1, <1>2, <2>4
    <3> QED BY <2>4, <3>1
  <2> QED BY <2>2, <2>3, <2>4
<1> QED BY <1>3, <1>5 DEF finished

LEMMA AddView ==
  ASSUME NEW ct \in [Entries -> ChildInfo], NEW parent, NEW child
  PROVE  \/ AddChild(ct, parent, child) = ct /\ FreeEntries(ct) = {}
         \/ \E f \in Entries :
              /\ ct[f].state = DEAD
              /\ AddChild(ct, parent, child) = [ct EXCEPT ![f] =
                   [parent_pid |-> parent, child_pid |-> child, state |-> READY]]
<1>1. FreeEntries(ct) \in SUBSET Nat
  BY DEF FreeEntries, Entries
<1>2. FreeEntries(ct) # {} => Least(FreeEntries(ct)) \in FreeEntries(ct)
  BY <1>1, LeastIn
<1> QED BY <1>2 DEF AddChild, FreeEntries

-----------------------------------------------------------------------------
(* A process goes on in its program and nobody comes or goes.              *)
Requested == {rqs[k].pid : k \in Alive}

(* The live children stay as they are; a code may be noted down.           *)
RequestsKept ==
  /\ rqs' \in Seq(Request)
  /\ Alive' = Alive
  /\ \A k \in Alive : rqs'[k] = rqs[k]

(* How a boss may go on: what it leaves behind must be done.               *)
GoesOn(me, new) ==
  /\ InStep(new)'
  /\ new.at = "close" /\ Awake(me)' => Owned(me) = {}
  /\ new.at \in {"sync", "close"} \/ Workers = {}
  /\ new.at \in CreateAts \cup PrioAts => prog[me].at \in CreateAts \cup PrioAts
  /\ new.at \in CreateAts \cup PrioAts \/ Alive = {} \/ prog[me].at \notin CreateAts \cup PrioAts
  /\ \/ me \in Working /\ new.at \notin {"print", "end"} /\ Created(new) >= Created(prog[me])
     \/ Kids(me) = {}

LEMMA SteadyStep ==
  ASSUME TestInv, NEW me \in Pids, NEW new \in Prog,
         prog' = [prog EXCEPT ![me] = new],
         rqs' = rqs \/ (me \in Bosses /\ RequestsKept),
         children_processes' = children_processes, refused' = refused, global' \in Int,
         LivePids(process_list') = LivePids(process_list),
         \A p \in Bosses \cup Requested \cup {ShellPid} : p # me =>
           \A s : Is(process_list', p, s) <=> Is(process_list, p, s),
         me = ShellPid => /\ new.at \in ShellAts
                          /\ new.at = "prompt" /\ Awake(me)' => Bosses = {},
         me # ShellPid => me \in Bosses \cup Workers,
         me \in Workers => new.at \in WorkerAts,
         me \in Bosses => new.at \in BossAts /\ GoesOn(me, new)
  PROVE  Serial'
<1>1. /\ prog' \in [Pids -> Prog] /\ prog'[me] = new
      /\ \A p \in Pids \ {me} : prog'[p] = prog[p]
  BY DEF TestInv, Serial, TestTypes
<1>2. /\ BossAts \cap WorkerAts = {} /\ BossAts \cap ShellAts = {} /\ WorkerAts \cap ShellAts = {}
      /\ "none" \notin BossAts \cup WorkerAts \cup ShellAts
  BY DEF BossAts, WorkerAts, ShellAts, SyncAts, CreateAts, PrioAts
<1>3. ShellPid \in Pids /\ ShellPid \notin Bosses \cup Workers
  <2>1. prog[ShellPid].at \in ShellAts
    BY DEF TestInv, Serial, Roles
  <2> QED BY <1>2, <2>1, SizesAssumption DEF Pids, ShellPid, Bosses, Workers
<1>4. Bosses' = Bosses /\ Workers' = Workers
  BY <1>1, <1>2, <1>3 DEF Bosses, Workers
<1>5. TestTypes'
  <2>1. rqs \in Seq(Request)
    BY DEF TestInv, Serial, TestTypes
  <2>2. rqs' \in Seq(Request)
    BY <2>1 DEF RequestsKept
  <2> QED BY <1>1, <2>2 DEF TestInv, Serial, TestTypes
<1>6. Roles'
  <2>1. prog'[ShellPid].at \in ShellAts
    BY <1>1, <1>3 DEF TestInv, Serial, Roles
  <2>2. \A p \in Pids \ {ShellPid} : prog'[p].at \notin ShellAts
    BY <1>1, <1>2 DEF TestInv, Serial, Roles
  <2> QED BY <1>4, <2>1, <2>2 DEF TestInv, Serial, Roles
<1>7. /\ Counting' = Counting /\ Failed' = Failed
      /\ \A p : Owned(p)' = Owned(p) /\ Kids(p)' = Kids(p)
  BY DEF Counting, Owned, Failed, Kids
<1>8. Families'
  <2>1. \A p, c : Names(p, c)' <=> Names(p, c)
    BY <1>7 DEF Names
  <2>2. \A p \in Bosses' : Names(ShellPid, p)'
    BY <1>4, <2>1 DEF TestInv, Serial, Families
  <2>3. ASSUME NEW c \in Workers'
        PROVE  \E p \in Bosses' : prog'[p].at \in {"sync", "close"} /\ Names(p, c)'
    <3>1. PICK p \in Bosses : prog[p].at \in {"sync", "close"} /\ Names(p, c)
      BY <1>4, <2>3 DEF TestInv, Serial, Families
    <3>2. prog'[p].at \in {"sync", "close"}
      <4>1. CASE p = me
        BY <1>1, <1>4, <2>3, <4>1 DEF GoesOn
      <4>2. CASE p # me
        BY <1>1, <3>1, <4>2 DEF Bosses
      <4> QED BY <4>1, <4>2
    <3> QED BY <1>4, <2>1, <3>1, <3>2
  <2> QED BY <1>4, <1>7, <2>2, <2>3 DEF TestInv, Serial, Families
<1>9. \A p \in Bosses \cup {ShellPid} : p # me => (Awake(p)' <=> Awake(p))
  BY DEF Awake
<1>10. Returned'
  <2>1. prog'[ShellPid].at = "prompt" /\ Awake(ShellPid)' => Bosses' = {}
    <3>1. CASE me = ShellPid
      BY <1>1, <1>4, <3>1
    <3>2. CASE me # ShellPid
      BY <1>1, <1>3, <1>4, <1>9, <3>2 DEF TestInv, Serial, Returned
    <3> QED BY <3>1, <3>2
  <2>2. ASSUME NEW p \in Bosses', prog'[p].at = "close", Awake(p)'
        PROVE  Owned(p)' = {}
    <3>1. CASE p = me
      BY <1>1, <1>4, <1>7, <2>2, <3>1 DEF GoesOn
    <3>2. CASE p # me
      BY <1>1, <1>4, <1>7, <1>9, <2>2, <3>2 DEF TestInv, Serial, Returned, Bosses
    <3> QED BY <3>1, <3>2
  <2> QED BY <2>1, <2>2 DEF Returned
<1>11. Alive' = Alive /\ \A k \in Alive : rqs'[k] = rqs[k]
  <2>1. CASE rqs' = rqs
    BY <2>1 DEF Alive
  <2>2. CASE RequestsKept
    BY <2>2 DEF RequestsKept
  <2> QED BY <2>1, <2>2
<1>12. \A p : Known(p)' <=> Known(p)
  BY <1>11 DEF Known
<1>13. Children'
  <2>1. ASSUME NEW k \in Alive'
        PROVE  /\ rqs'[k] = rqs[k] /\ k \in Alive /\ rqs[k].pid \in Requested
               /\ rqs[k].pid \in Pids \ {ShellPid, idle_pid}
               /\ prog[rqs[k].pid].at = "none" /\ rqs[k].pid # me
    <3>1. rqs'[k] = rqs[k] /\ k \in Alive /\ rqs[k].pid \in Requested
      BY <1>11, <2>1 DEF Requested
    <3>2. rqs[k].pid \in Pids \ {ShellPid, idle_pid} /\ prog[rqs[k].pid].at = "none"
      BY <3>1 DEF TestInv, Serial, Children
    <3>3. prog[me].at # "none"
      BY <1>2, <1>3 DEF TestInv, Serial, Roles, Bosses, Workers
    <3> QED BY <3>1, <3>2, <3>3
  <2>2. \A k \in Alive' : prog'[rqs'[k].pid].at = "none"
    BY <1>1, <2>1
  <2>3. ASSUME NEW k \in Alive'
        PROVE  Is(process_list', rqs'[k].pid, IF rqs'[k].state = "RUNNING" THEN READY ELSE BLOCK)
    BY <2>1, <2>3 DEF TestInv, Serial, Children
  <2>4. ASSUME NEW p \in Bosses'
        PROVE  InStep(prog[p])'
    <3>1. CASE p = me
      BY <1>1, <1>4, <2>4, <3>1 DEF GoesOn, InStep
    <3>2. CASE p # me
      <4>1. p \in Bosses /\ me \notin Bosses
        BY <1>4, <2>4, <3>2 DEF TestInv, Serial, Roles
      <4>2. prog'[p] = prog[p] /\ rqs' = rqs
        BY <1>1, <3>2, <4>1 DEF Bosses
      <4>3. InStep(prog[p])
        BY <4>1 DEF TestInv, Serial, Children
      <4> QED BY <4>2, <4>3 DEF InStep
    <3> QED BY <3>1, <3>2
  <2>5. ASSUME NEW p \in Bosses', prog'[p].at \in CreateAts \cup PrioAts,
               NEW e \in Kids(p)'
        PROVE  Known(children_processes[e].child_pid)'
    <3>1. prog[p].at \in CreateAts \cup PrioAts
      BY <1>1, <1>4, <2>5 DEF GoesOn, Bosses
    <3>2. Known(children_processes[e].child_pid)
      BY <1>4, <1>7, <2>5, <3>1 DEF TestInv, Serial, Children
    <3> QED BY <1>11, <2>5, <3>2 DEF Known
  <2>6. \A j, k \in Alive' : rqs'[j].pid = rqs'[k].pid => j = k
    BY <2>1 DEF TestInv, Serial, Children
  <2> QED BY <2>1, <2>2, <2>3, <2>4, <2>5, <2>6 DEF Children
<1>14. NobodyForgotten'
  <2>1. ASSUME refused = 0, Alive # {}
        PROVE  \E p \in Bosses' : prog'[p].at \in CreateAts \cup PrioAts
    <3>1. PICK p \in Bosses : prog[p].at \in CreateAts \cup PrioAts
      BY <2>1 DEF TestInv, Serial, NobodyForgotten
    <3>2. CASE p = me
      BY <1>1, <1>4, <2>1, <3>1, <3>2 DEF GoesOn
    <3>3. CASE p # me
      BY <1>1, <1>4, <3>1, <3>3 DEF Bosses
    <3> QED BY <3>2, <3>3
  <2>2. ASSUME refused = 0, NEW p \in LivePids(process_list') \ {ShellPid, idle_pid}
        PROVE  p \in (Bosses \cup Workers)' \/ Known(p)'
    BY <1>4, <1>12, <2>2 DEF TestInv, Serial, NobodyForgotten
  <2> QED BY <1>11, <2>1, <2>2 DEF NobodyForgotten
<1>15. Room'
  <2>1. \A p \in Pids \ {me} : p \in Working' <=> p \in Working
    BY <1>1, <1>4 DEF Working
  <2>2. (me \in Working' <=> me \in Working) \/ Kids(me) = {}
    BY <1>1, <1>4 DEF GoesOn, Working
  <2>3. Working \subseteq Pids /\ Working' \subseteq Pids
    BY DEF Working, Bosses
  <2>4. \A e \in Counting \ Failed : children_processes[e].parent_pid \in Working'
                           <=> children_processes[e].parent_pid \in Working
    BY <2>1, <2>2, <2>3 DEF Owned, Kids
  <2>5. Strays' = Strays
    BY <1>4, <1>7, <2>4 DEF Strays
  <2>6. ASSUME NEW p \in Working'
        PROVE  Cardinality(Kids(p)') <= Created(prog'[p])
    <3>1. CASE p # me
      BY <1>1, <1>7, <2>1, <2>3, <2>6, <3>1 DEF TestInv, Serial, Room
    <3>2. CASE p = me
      <4>1. me \in Bosses /\ new.at \notin {"print", "end"}
        BY <1>1, <1>4, <2>6, <3>2 DEF Working
      <4>2. CASE Kids(me) = {}
        <5>1. Created(new) \in Nat
          BY TestsAssumption DEF Created, Prog
        <5>2. Kids(p)' = {} /\ Cardinality({}) = 0
          BY <1>7, <3>2, <4>2, FS_EmptySet
        <5> QED BY <1>1, <3>2, <5>1, <5>2
      <4>3. CASE me \in Working /\ Created(new) >= Created(prog[me])
        <5>1. Created(new) \in Nat /\ Created(prog[me]) \in Nat
          BY TestsAssumption DEF Created, Prog, TestInv, Serial, TestTypes
        <5>2. Cardinality(Kids(me)) <= Created(prog[me])
          BY <4>3 DEF TestInv, Serial, Room
        <5>3. Cardinality(Kids(me)) \in Nat
          <6>1. IsFiniteSet(Entries)
            BY FS_Interval, SizesAssumption DEF Entries
          <6>2. IsFiniteSet(Kids(me))
            BY <6>1, FS_Subset DEF Kids, Owned, Counting
          <6> QED BY <6>2, FS_CardinalityType
        <5> QED BY <1>1, <1>7, <3>2, <4>3, <5>1, <5>2, <5>3
      <4> QED BY <4>1, <4>2, <4>3 DEF GoesOn
    <3> QED BY <3>1, <3>2
  <2> QED BY <2>5, <2>6 DEF TestInv, Serial, Room
<1> QED BY <1>5, <1>6, <1>8, <1>10, <1>13, <1>14, <1>15 DEF Serial

-----------------------------------------------------------------------------
(* A child is created.  As long as the test has not created as many as it  *)
(* may there is a free entry.                                              *)
LEMMA Places ==
  /\ IsFiniteSet(Entries) /\ Cardinality(Entries) = MAX_CHILDREN_PROCESSES
  /\ IsFiniteSet(Counting) /\ IsFiniteSet(Strays) /\ IsFiniteSet(Failed)
  /\ \A p : IsFiniteSet(Kids(p))
<1>1. IsFiniteSet(Entries) /\ Cardinality(Entries) = MAX_CHILDREN_PROCESSES
  BY FS_Interval, SizesAssumption DEF Entries
<1>2. IsFiniteSet(Counting)
  BY <1>1, FS_Subset DEF Counting
<1>3. IsFiniteSet(Strays)
  BY <1>2, FS_Subset, Strays \in SUBSET Counting DEF Strays, Failed
<1>4. IsFiniteSet(Failed)
  BY <1>2, FS_Subset DEF Failed
<1>5. \A p : Kids(p) \in SUBSET Counting
  BY DEF Kids, Owned
<1> QED BY <1>1, <1>2, <1>3, <1>4, <1>5, FS_Subset

LEMMA UnionBound ==
  ASSUME NEW S, NEW T, IsFiniteSet(S), IsFiniteSet(T)
  PROVE  /\ IsFiniteSet(S \cup T) /\ Cardinality(S \cup T) \in Nat
         /\ Cardinality(S) \in Nat /\ Cardinality(T) \in Nat
         /\ Cardinality(S \cup T) <= Cardinality(S) + Cardinality(T)
<1>1. IsFiniteSet(S \cap T)
  BY FS_Subset, S \cap T \in SUBSET S
<1>2. /\ IsFiniteSet(S \cup T)
      /\ Cardinality(S \cup T) = Cardinality(S) + Cardinality(T) - Cardinality(S \cap T)
  BY FS_Union
<1>3. /\ Cardinality(S \cup T) \in Nat /\ Cardinality(S \cap T) \in Nat
      /\ Cardinality(S) \in Nat /\ Cardinality(T) \in Nat
  BY <1>1, <1>2, FS_CardinalityType
<1> QED BY <1>2, <1>3

LEMMA AtMostOne ==
  ASSUME NEW S, \A x, y \in S : x = y
  PROVE  IsFiniteSet(S) /\ Cardinality(S) \in Nat /\ Cardinality(S) <= 1
<1>1. S = {} \/ \E x : S = {x}
  OBVIOUS
<1>2. IsFiniteSet({}) /\ Cardinality({}) = 0
  BY FS_EmptySet
<1>3. \A x : IsFiniteSet({x}) /\ Cardinality({x}) = 1
  BY FS_Singleton
<1>4. IsFiniteSet(S) /\ Cardinality(S) \in {0, 1}
  BY <1>1, <1>2, <1>3
<1> QED BY <1>4

LEMMA RoomLeft ==
  ASSUME RoomForTests, TestInv, NEW w \in {2 * TOTAL_PAIR_PROCESSES, MAX_TEST_PROCESSES, 3},
         \A p \in Bosses : p \in Working /\ Created(prog[p]) < w
  PROVE  FreeEntries(children_processes) # {}
<1>1. children_processes \in [Entries -> ChildInfo]
  BY DEF TestInv, IInv, SoundChildren
<1>2. /\ w \in Nat /\ MAX_TEST_PROCESSES \in Nat \ {0} /\ MaxRefused \in Nat
      /\ refused \in 0 .. MaxRefused
  BY TestsAssumption DEF TestInv, Serial, TestTypes
<1>3. MAX_TEST_PROCESSES * refused <= MAX_TEST_PROCESSES * MaxRefused
  BY <1>2
<1>4. MAX_TEST_PROCESSES * refused + w < MAX_CHILDREN_PROCESSES
  <2>1. MAX_CHILDREN_PROCESSES > MAX_TEST_PROCESSES * MaxRefused + w
    BY DEF RoomForTests
  <2>2. MAX_TEST_PROCESSES * refused \in Nat /\ MAX_TEST_PROCESSES * MaxRefused \in Nat
    BY <1>2
  <2> QED BY <1>2, <1>3, <2>1, <2>2, SizesAssumption
<1>5. Cardinality(Counting) <= MAX_TEST_PROCESSES * refused + w
  <2>1. /\ Cardinality(Strays) <= MAX_TEST_PROCESSES * refused
        /\ Cardinality(Strays) \in Nat /\ MAX_TEST_PROCESSES * refused \in Nat
    BY <1>2, Places, FS_CardinalityType DEF TestInv, Serial, Room
  <2>2. CASE Bosses = {}
    <3>1. Counting = Strays
      BY <2>2 DEF Strays, Failed, Working
    <3> QED BY <1>2, <2>1, <3>1
  <2>3. ASSUME NEW p \in Bosses
        PROVE  Cardinality(Counting) <= MAX_TEST_PROCESSES * refused + w
    <3> DEFINE own == {e \in Counting : children_processes[e].child_pid = p}
    <3>1. Bosses = {p} /\ p \in Nat
      BY <2>3 DEF TestInv, Serial, Roles, Bosses, Pids
    <3>2. Working = {p}
      BY <3>1 DEF Working
    <3>3. Counting = (Strays \cup Kids(p)) \cup own
      BY <3>1, <3>2 DEF Strays, Failed, Kids, Owned
    <3>4. IsFiniteSet(own) /\ Cardinality(own) \in Nat /\ Cardinality(own) <= 1
      <4>1. \A e, f \in own : e = f
        BY <3>1 DEF TestInv, Serial, Families, NamedOnce, Counting
      <4> HIDE DEF own
      <4> QED BY <4>1, AtMostOne
    <3> HIDE DEF own
    <3>5. IsFiniteSet(Kids(p)) /\ Cardinality(Kids(p)) \in Nat /\ Cardinality(Kids(p)) <= w - 1
      <4>1. Cardinality(Kids(p)) <= Created(prog[p]) /\ Created(prog[p]) < w
        BY <3>2 DEF TestInv, Serial, Room
      <4>2. Created(prog[p]) \in Nat
        BY TestsAssumption DEF Created, Prog, TestInv, Serial, TestTypes, Bosses
      <4> QED BY <1>2, <4>1, <4>2, Places, FS_CardinalityType
    <3>6. /\ IsFiniteSet(Strays \cup Kids(p))
          /\ Cardinality(Strays \cup Kids(p)) <= Cardinality(Strays) + Cardinality(Kids(p))
      BY <3>5, Places, UnionBound
    <3>7. Cardinality(Counting) <= Cardinality(Strays \cup Kids(p)) + Cardinality(own)
      BY <3>3, <3>4, <3>6, UnionBound
    <3>8. Cardinality(Strays \cup Kids(p)) \in Nat /\ Cardinality(Counting) \in Nat
      BY <3>6, FS_CardinalityType, Places
    <3> QED BY <1>2, <2>1, <3>4, <3>5, <3>6, <3>7, <3>8
  <2> QED BY <2>2, <2>3
<1>6. CASE FreeEntries(children_processes) = {}
  <2>1. Counting = Entries
    BY <1>1, <1>6 DEF Counting, FreeEntries, ChildInfo
  <2>2. MAX_TEST_PROCESSES * refused \in Nat
    BY <1>2
  <2> QED BY <1>2, <1>4, <1>5, <2>1, <2>2, Places, SizesAssumption
<1> QED BY <1>6

LEMMA CallerLives ==
  ASSUME IInv
  PROVE  /\ CurrentPid \in LivePids(process_list) /\ Awake(CurrentPid)
         /\ CurrentPid \in Nat /\ CurrentPid < pid_value
         /\ \A p \in LivePids(process_list) : p \in Nat /\ p < pid_value
<1>1. current_process_idx \in Live(process_list)
  BY DEF IInv, Live, READY, DEAD
<1>2. \A i \in Live(process_list) : process_list[i].pid \in Nat /\ process_list[i].pid < pid_value
  BY DEF IInv, SoundTable, Live, Process
<1> QED BY <1>1, <1>2 DEF CurrentPid, Awake, Is, LivePids, PidsOf, IInv

(* What the tables look like when a child has been created.                *)
BornAt(f) ==
  /\ f \in Entries \ Counting
  /\ Counting' = Counting \cup {f}
  /\ children_processes'[f].parent_pid = CurrentPid
  /\ children_processes'[f].child_pid = pid_value
  /\ \A e \in Entries \ {f} : children_processes'[e] = children_processes[e]
  /\ \A p : Owned(p)' = IF p = CurrentPid THEN Owned(p) \cup {f} ELSE Owned(p)

Born ==
  /\ pid_value \in Pids \ {ShellPid, idle_pid} /\ prog[pid_value].at = "none"
  /\ pid_value \notin LivePids(process_list)
  /\ CurrentPid \in Nat /\ CurrentPid # pid_value /\ CurrentPid # idle_pid
  /\ LivePids(process_list') = LivePids(process_list) \cup {pid_value}
  /\ \A p, s : Is(process_list', p, s) <=>
       Is(process_list, p, s) \/ (p = pid_value /\ s = READY)
  /\ \E f : BornAt(f)
  /\ \A e \in Counting : children_processes[e].child_pid # pid_value
  /\ \A e \in Entries : /\ children_processes[e].parent_pid \in Nat
                         /\ children_processes[e].parent_pid # pid_value
  /\ NamedOnce(children_processes')

LEMMA BirthFacts ==
  ASSUME TestInv, NEW priority \in Priorities \cup 1 .. MAX_PRIORITY, CreateChild(priority),
         FreeEntries(children_processes) # {}
  PROVE  IInv' /\ Born
<1>1. Spawn(priority) /\ UNCHANGED <<current_process_idx, remaining_ticks>>
      /\ children_processes' = AddChild(children_processes, CurrentPid, pid_value)
      /\ CurrentPid # idle_pid
  BY DEF CreateChild, Calling
<1>2. /\ SoundTable(process_list', dim', pid_value')
      /\ SoundChildren(process_list', children_processes, pid_value')
      /\ SoundSleepers(process_list', children_processes)
      /\ \A i \in Live(process_list) : process_list'[i] = process_list[i]
      /\ pid_value \in LivePids(process_list')
  BY <1>1, SpawnSound DEF TestInv
<1>3. /\ pid_value' = pid_value + 1 /\ pid_value \in Nat /\ pid_value > 1
      /\ pid_value < MaxPid
  BY <1>1 DEF Spawn, TestInv, IInv, SoundTable
<1>4. /\ CurrentPid \in LivePids(process_list) /\ CurrentPid \in Nat /\ CurrentPid < pid_value
      /\ \A p \in LivePids(process_list) : p \in Nat /\ p < pid_value
  BY CallerLives DEF TestInv
<1>5. IInv'
  <2>1. /\ SoundChildren(process_list', children_processes', pid_value')
        /\ SoundSleepers(process_list', children_processes')
    <3>1. pid_value' \in Nat /\ CurrentPid < pid_value' /\ pid_value \in Nat \cup FailureCodes
      BY <1>3, <1>4
    <3> QED BY <1>1, <1>2, <1>4, <3>1, AddChildSound
  <2>2. current_process_idx \in Live(process_list)
    BY DEF TestInv, IInv, Live, READY, DEAD
  <2> QED BY <1>1, <1>2, <2>1, <2>2 DEF TestInv, IInv
<1>6. pid_value \in Pids \ {ShellPid, idle_pid} /\ pid_value \notin LivePids(process_list)
  BY <1>3, <1>4, SizesAssumption DEF Pids, ShellPid, idle_pid
<1>7. prog[pid_value].at = "none"
  <2>1. prog[pid_value] \in Prog /\ prog[pid_value].at \notin ShellAts
    BY <1>6 DEF TestInv, Serial, TestTypes, Roles
  <2>2. pid_value \notin Bosses \cup Workers
    BY <1>6 DEF TestInv, Serial, Roles
  <2> QED BY <1>6, <2>1, <2>2 DEF Prog, Bosses, Workers
<1>8. /\ LivePids(process_list') = LivePids(process_list) \cup {pid_value}
      /\ \A p, s : Is(process_list', p, s) <=>
           Is(process_list, p, s) \/ (p = pid_value /\ s = READY)
  BY <1>1, SpawnView DEF TestInv
<1>9. children_processes \in [Entries -> ChildInfo] /\ FailureCodes \cap Nat = {}
  BY DEF TestInv, IInv, SoundChildren, FailureCodes, NO_SPACE_FOR_PROCESS, PROCESSES_LIMIT_REACHED
<1>10. PICK f \in Entries :
         /\ children_processes[f].state = DEAD
         /\ children_processes' = [children_processes EXCEPT ![f] =
              [parent_pid |-> CurrentPid, child_pid |-> pid_value, state |-> READY]]
  BY <1>1, <1>9, AddView
<1>11. /\ children_processes'[f].parent_pid = CurrentPid
       /\ children_processes'[f].child_pid = pid_value
       /\ children_processes'[f].state = READY
       /\ \A e \in Entries \ {f} : children_processes'[e] = children_processes[e]
  BY <1>9, <1>10
<1>12. f \notin Counting /\ Counting' = Counting \cup {f}
  BY <1>10, <1>11 DEF Counting, READY, DEAD
<1>13. \A p : Owned(p)' = IF p = CurrentPid THEN Owned(p) \cup {f} ELSE Owned(p)
  <2> TAKE p
  <2>1. Owned(p)' = {e \in Counting \cup {f} : children_processes'[e].parent_pid = p}
    BY <1>12 DEF Owned
  <2>2. \A e \in Counting : children_processes'[e] = children_processes[e]
    BY <1>11, <1>12 DEF Counting
  <2> QED BY <1>11, <2>1, <2>2 DEF Owned
<1>14. BornAt(f)
  BY <1>11, <1>12, <1>13 DEF BornAt
<1>15. \A e \in Counting : children_processes[e].child_pid # pid_value
  BY <1>3, <1>4, <1>9 DEF TestInv, IInv, SoundChildren, Counting
<1>16. \A e \in Entries : /\ children_processes[e].parent_pid \in Nat
                          /\ children_processes[e].parent_pid # pid_value
  BY <1>3, <1>9 DEF TestInv, IInv, SoundChildren, ChildInfo
<1>17. NamedOnce(children_processes')
  <2>1. \A e \in Entries : children_processes'[e].state = READY /\ e # f =>
          /\ children_processes[e].state = READY /\ e \in Counting
          /\ children_processes'[e] = children_processes[e]
    BY <1>11 DEF Counting
  <2> QED BY <1>11, <1>15, <2>1 DEF NamedOnce, TestInv, Serial, Families
<1> QED BY <1>1, <1>4, <1>5, <1>6, <1>7, <1>8, <1>14, <1>15, <1>16, <1>17 DEF Born

LEMMA AtsApart ==
  /\ BossAts \cap WorkerAts = {} /\ BossAts \cap ShellAts = {} /\ WorkerAts \cap ShellAts = {}
  /\ "none" \notin BossAts \cup WorkerAts \cup ShellAts
BY DEF BossAts, WorkerAts, ShellAts, SyncAts, CreateAts, PrioAts

LEMMA ShellStands ==
  ASSUME Serial
  PROVE  ShellPid \in Pids /\ ShellPid \notin Bosses \cup Workers
<1>1. prog[ShellPid].at \in ShellAts
  BY DEF Serial, Roles
<1> QED BY <1>1, AtsApart, SizesAssumption DEF Pids, ShellPid, Bosses, Workers

(* The shell starts a test.                                                *)
LEMMA TestBorn ==
  ASSUME TestInv, Born, CurrentPid = ShellPid, prog[ShellPid].at = "prompt",
         NEW b, b = pid_value,
         NEW child \in Prog, child.at \in {"sync", "create", "prio"}, child.i = 0,
         NEW next \in Prog, next.at = "wait",
         prog' = [prog EXCEPT ![ShellPid] = next, ![pid_value] = child],
         rqs' = <<>>, refused' = refused, global' = global
  PROVE  Serial'
<1>1. ShellPid \in Pids /\ ShellPid \notin Bosses \cup Workers /\ pid_value # ShellPid
  BY ShellStands DEF TestInv, Born
<1>2. Bosses = {} /\ Workers = {} /\ Working = {}
  <2>1. Bosses = {}
    BY CallerLives DEF TestInv, Serial, Returned
  <2> QED BY <2>1 DEF TestInv, Serial, Families, Working
<1>3. /\ prog' \in [Pids -> Prog] /\ prog'[ShellPid] = next /\ prog'[pid_value] = child
      /\ \A p \in Pids \ {ShellPid, pid_value} : prog'[p] = prog[p]
  BY <1>1 DEF TestInv, Serial, TestTypes, Born
<1>4. Bosses' = {b} /\ Workers' = {} /\ Working' = {b}
  <2>1. child.at \in BossAts /\ child.at \notin {"print", "end"}
    BY DEF BossAts, SyncAts, CreateAts, PrioAts
  <2>2. Bosses' = {b}
    BY <1>1, <1>2, <1>3, <2>1, AtsApart DEF Bosses, Born, ShellAts
  <2>3. Workers' = {}
    BY <1>1, <1>2, <1>3, <2>1, AtsApart DEF Workers, Born, ShellAts
  <2> QED BY <1>3, <2>1, <2>2, <2>3 DEF Working
<1>5. PICK f : BornAt(f)
  BY DEF Born
<1>6. TestTypes'
  BY <1>3 DEF TestInv, Serial, TestTypes
<1>7. Roles'
  <2>1. \A p \in Pids \ {ShellPid} : prog'[p].at \notin ShellAts
    BY <1>3, AtsApart DEF TestInv, Serial, Roles, BossAts, SyncAts, CreateAts, PrioAts, ShellAts
  <2> QED BY <1>3, <1>4, <2>1 DEF Roles, Born, ShellAts
<1>8. Alive' = {}
  BY DEF Alive
<1>9. \A e \in Counting : /\ e \in Entries /\ e # f
                          /\ children_processes'[e] = children_processes[e]
  BY <1>5 DEF BornAt, Counting
<1>10. Families'
  <2>1. \A p \in Bosses' : Names(ShellPid, p)'
    BY <1>4, <1>5 DEF Names, BornAt
  <2>2. ASSUME NEW e \in Entries,
               children_processes'[e].parent_pid \in LivePids(process_list') \ {ShellPid}
        PROVE  children_processes'[e].parent_pid \in Bosses'
    <3>1. e # f /\ children_processes'[e] = children_processes[e]
      BY <1>5, <2>2 DEF BornAt
    <3>2. children_processes[e].parent_pid \in LivePids(process_list) \ {ShellPid}
      BY <2>2, <3>1 DEF Born
    <3> QED BY <1>2, <3>2 DEF TestInv, Serial, Families
  <2>3. \A e \in Counting' : children_processes'[e].child_pid \notin {ShellPid, idle_pid}
    BY <1>5, <1>9 DEF TestInv, Serial, Families, Born, BornAt
  <2> QED BY <1>4, <2>1, <2>2, <2>3 DEF Families, Born
<1>11. Returned'
  BY <1>3, <1>4 DEF Returned
<1>12. Owned(b)' = {}
  <2>1. Owned(b)' = Owned(b)
    BY <1>5, <1>1 DEF BornAt
  <2> QED BY <2>1 DEF Owned, Counting, Born
<1>16. Kids(b)' = {}
  BY <1>12 DEF Kids
<1>13. Children'
  <2>1. InStep(child)'
    <3>1. Len(<<>>) = 0 /\ DOMAIN <<>> = {}
      OBVIOUS
    <3>2. 0 <= MAX_TEST_PROCESSES /\ 0 <= 2 * TOTAL_PAIR_PROCESSES
      BY TestsAssumption
    <3>3. CASE child.at = "sync"
      BY <3>1, <3>2, <3>3 DEF InStep, SyncAts, CreateAts, PrioAts
    <3>4. CASE child.at = "create"
      BY <3>1, <3>2, <3>4 DEF InStep, SyncAts, CreateAts, PrioAts
    <3>5. CASE child.at = "prio"
      BY <3>1, <3>2, <3>5 DEF InStep, SyncAts, CreateAts, PrioAts
    <3> QED BY <3>3, <3>4, <3>5
  <2> QED BY <1>3, <1>4, <1>8, <1>16, <2>1 DEF Children, InStep
<1>14. NobodyForgotten'
  <2>1. ASSUME refused = 0, NEW p \in LivePids(process_list) \ {ShellPid, idle_pid}
        PROVE  FALSE
    BY <1>2, <2>1 DEF TestInv, Serial, NobodyForgotten, Known
  <2> QED BY <1>4, <1>8, <2>1 DEF NobodyForgotten, Born
<1>15. Room'
  <2>1. /\ Counting' = Counting \cup {f} /\ children_processes'[f].child_pid = pid_value
        /\ f \notin Counting
    BY <1>5 DEF BornAt
  <2>3. Failed' = Failed
    <3>1. pid_value \notin FailureCodes
      BY DEF Born, Pids, FailureCodes, NO_SPACE_FOR_PROCESS, PROCESSES_LIMIT_REACHED
    <3> QED BY <1>9, <2>1, <3>1 DEF Failed
  <2>2. Strays' = Strays
    BY <1>2, <1>4, <1>9, <2>1, <2>3 DEF Strays, Born, Counting
  <2>4. Cardinality(Kids(b)') <= Created(child)
    <3>1. Created(child) = 0
      BY DEF Created
    <3> QED BY <1>16, <3>1, FS_EmptySet
  <2> QED BY <1>3, <1>4, <2>2, <2>3, <2>4 DEF TestInv, Serial, Room
<1> QED BY <1>6, <1>7, <1>10, <1>11, <1>13, <1>14, <1>15 DEF Serial

(* A test creates a child: testsync a worker, the others one that computes *)
(* and whose pid they keep.                                                *)
LEMMA ChildBorn ==
  ASSUME TestInv, Born, NEW me \in Working, me = CurrentPid, NEW b, b = pid_value,
         NEW new \in Prog, NEW child \in Prog,
         prog' = [prog EXCEPT ![me] = new, ![b] = child],
         refused' = refused, global' \in Int,
         InStep(new)', new.at \in BossAts \ {"print", "end", "close"},
         Created(new) > Created(prog[me]),
         \/ /\ prog[me].at = "sync" /\ new.at = "sync"
            /\ child.at = "open" /\ rqs' = rqs
         \/ /\ prog[me].at \in CreateAts \cup PrioAts /\ new.at \in CreateAts \cup PrioAts
            /\ child.at = "none" /\ rqs' = Append(rqs, Rq(b))
  PROVE  Serial'
<1> DEFINE Sync == prog[me].at = "sync" /\ new.at = "sync" /\ child.at = "open" /\ rqs' = rqs
           Asks == /\ prog[me].at \in CreateAts \cup PrioAts /\ new.at \in CreateAts \cup PrioAts
                   /\ child.at = "none" /\ rqs' = Append(rqs, Rq(b))
<1>1. ShellPid \in Pids /\ ShellPid \notin Bosses \cup Workers /\ b # ShellPid /\ b # me
  BY ShellStands DEF TestInv, Born
<1>2. /\ me \in Bosses /\ me \in Pids /\ b \in Pids /\ prog[me].at \in BossAts
      /\ Bosses = {me} /\ Working = {me}
  BY DEF Working, TestInv, Serial, Roles, Bosses, Born
<1>3. /\ prog' \in [Pids -> Prog] /\ prog'[me] = new /\ prog'[b] = child
      /\ \A p \in Pids \ {me, b} : prog'[p] = prog[p]
      /\ prog'[ShellPid] = prog[ShellPid]
  BY <1>1, <1>2 DEF TestInv, Serial, TestTypes
<1>4. prog[b].at = "none" /\ b \notin Bosses \cup Workers
  BY AtsApart DEF Born, Bosses, Workers
<1>5. Bosses' = {me} /\ Working' = {me}
  <2>1. child.at \notin BossAts
    BY AtsApart DEF WorkerAts
  <2>2. Bosses' = {me}
    BY <1>2, <1>3, <1>4, <2>1 DEF Bosses
  <2> QED BY <1>3, <2>2 DEF Working
<1>6. Workers' = IF Sync THEN Workers \cup {b} ELSE Workers
  <2>1. new.at \notin WorkerAts /\ prog[me].at \notin WorkerAts
    BY <1>2, AtsApart
  <2>2. "open" \in WorkerAts /\ "none" \notin WorkerAts
    BY AtsApart DEF WorkerAts
  <2> QED BY <1>2, <1>3, <1>4, <2>1, <2>2 DEF Workers
<1>7. PICK f : BornAt(f)
  BY DEF Born
<1>8. \A e \in Counting : /\ e \in Entries /\ e # f
                          /\ children_processes'[e] = children_processes[e]
  BY <1>7 DEF BornAt, Counting
<1>9. /\ \A p, s : p # b => (Is(process_list', p, s) <=> Is(process_list, p, s))
      /\ Is(process_list', b, READY)
      /\ LivePids(process_list') = LivePids(process_list) \cup {b}
  BY DEF Born
<1>10. TestTypes'
  <2>1. Rq(b) \in Request
    BY <1>2 DEF Rq, Request, Pids
  <2>2. rqs' \in Seq(Request)
    BY <2>1 DEF TestInv, Serial, TestTypes
  <2> QED BY <1>3, <2>2 DEF TestInv, Serial, TestTypes
<1>11. Roles'
  <2>1. child.at \notin ShellAts /\ new.at \notin ShellAts
    BY AtsApart DEF ShellAts
  <2>2. \A p \in Pids \ {ShellPid} : prog'[p].at \notin ShellAts
    BY <1>3, <2>1 DEF TestInv, Serial, Roles
  <2>3. \A p \in Bosses' \cup Workers' : p \in LivePids(process_list') /\ p # idle_pid
    BY <1>2, <1>5, <1>6, <1>9 DEF TestInv, Serial, Roles, Born
  <2> QED BY <1>3, <1>5, <2>2, <2>3 DEF TestInv, Serial, Roles
<1>12. Names(me, b)' /\ \A p, c : Names(p, c) => Names(p, c)'
  <2>1. \A p : Owned(p) \subseteq Owned(p)' /\ Owned(p) \subseteq Counting
    BY <1>7 DEF BornAt, Owned
  <2>2. \A p, c : Names(p, c) => Names(p, c)'
    BY <1>8, <2>1 DEF Names
  <2>3. f \in Owned(me)' /\ children_processes'[f].child_pid = b
    BY <1>7 DEF BornAt
  <2> QED BY <2>2, <2>3 DEF Names
<1>13. Families'
  <2>1. \A p \in Bosses' : Names(ShellPid, p)'
    BY <1>2, <1>5, <1>12 DEF TestInv, Serial, Families
  <2>2. ASSUME NEW c \in Workers'
        PROVE  \E p \in Bosses' : prog'[p].at \in {"sync", "close"} /\ Names(p, c)'
    <3>1. CASE c \in Workers
      <4>1. prog[me].at \in {"sync", "close"} /\ Names(me, c)
        BY <1>2, <3>1 DEF TestInv, Serial, Families
      <4>2. Sync
        BY <4>1 DEF CreateAts, PrioAts
      <4> QED BY <1>3, <1>5, <1>12, <4>1, <4>2
    <3>2. CASE c \notin Workers
      <4>1. Sync /\ c = b
        BY <1>6, <2>2, <3>2
      <4> QED BY <1>3, <1>5, <1>12, <4>1
    <3> QED BY <3>1, <3>2
  <2>3. ASSUME NEW e \in Entries,
               children_processes'[e].parent_pid \in LivePids(process_list') \ {ShellPid}
        PROVE  children_processes'[e].parent_pid \in Bosses'
    <3>1. CASE e = f
      BY <1>5, <1>7, <3>1 DEF BornAt
    <3>2. CASE e # f
      <4>1. children_processes'[e] = children_processes[e]
        BY <1>7, <3>2 DEF BornAt
      <4>2. children_processes[e].parent_pid \in LivePids(process_list) \ {ShellPid}
        BY <2>3, <4>1 DEF Born
      <4> QED BY <1>2, <1>5, <4>1, <4>2 DEF TestInv, Serial, Families
    <3> QED BY <3>1, <3>2
  <2>4. \A e \in Counting' : children_processes'[e].child_pid \notin {ShellPid, idle_pid}
    BY <1>7, <1>8 DEF TestInv, Serial, Families, Born, BornAt
  <2> QED BY <2>1, <2>2, <2>3, <2>4 DEF Families, Born
<1>14. Returned'
  <2>1. ~(prog'[ShellPid].at = "prompt" /\ Awake(ShellPid)')
    BY <1>1, <1>2, <1>3, <1>9 DEF TestInv, Serial, Returned, Awake
  <2> QED BY <1>3, <1>5, <2>1 DEF Returned
<1>18. b \notin FailureCodes
  BY <1>2 DEF Pids, FailureCodes, NO_SPACE_FOR_PROCESS, PROCESSES_LIMIT_REACHED
<1>19. Failed' = Failed /\ f \notin Failed
  BY <1>7, <1>8, <1>18 DEF Failed, BornAt
<1>15. Kids(me)' = Kids(me) \cup {f} /\ f \notin Kids(me)
       /\ children_processes'[f].child_pid = b /\ Kids(me) \subseteq Counting
  BY <1>7, <1>19 DEF BornAt, Owned, Kids
<1>16. Children' /\ NobodyForgotten'
  <2>1. CASE Sync
    <3>1. rqs = <<>> /\ Alive = {} /\ Alive' = {}
      <4>1. rqs = <<>>
        BY <1>2, <2>1 DEF TestInv, Serial, Children, InStep, SyncAts
      <4> QED BY <2>1, <4>1 DEF Alive
    <3>2. Children'
      <4>1. new.at \notin CreateAts \cup PrioAts
        BY <2>1 DEF CreateAts, PrioAts
      <4> QED BY <1>3, <1>5, <3>1, <4>1 DEF Children, InStep
    <3>3. ASSUME refused = 0, NEW p \in LivePids(process_list') \ {ShellPid, idle_pid}
          PROVE  p \in Bosses' \cup Workers'
      <4>1. p = b \/ p \in Bosses \cup Workers
        BY <1>9, <3>1, <3>3 DEF TestInv, Serial, NobodyForgotten, Known
      <4> QED BY <1>2, <1>5, <1>6, <2>1, <4>1
    <3> QED BY <3>1, <3>2, <3>3 DEF NobodyForgotten
  <2>2. CASE Asks
    <3> DEFINE n == Len(rqs) + 1
    <3>1. /\ rqs \in Seq(Request) /\ n \in Nat \ {0} /\ n \notin DOMAIN rqs
          /\ DOMAIN rqs' = DOMAIN rqs \cup {n} /\ rqs'[n] = Rq(b)
          /\ \A k \in DOMAIN rqs : rqs'[k] = rqs[k]
      <4>1. rqs \in Seq(Request)
        BY DEF TestInv, Serial, TestTypes
      <4> QED BY <2>2, <4>1
    <3> HIDE DEF n
    <3>2. Rq(b).pid = b /\ Rq(b).state = "RUNNING"
      BY DEF Rq
    <3>3. Alive' = Alive \cup {n} /\ Alive \subseteq DOMAIN rqs
      BY <1>18, <3>1, <3>2 DEF Alive, IsCode
    <3>4. \A k \in Alive : /\ rqs'[k] = rqs[k] /\ rqs[k].pid # b /\ rqs[k].pid # me
                           /\ rqs[k].pid \in Pids \ {ShellPid, idle_pid}
                           /\ prog[rqs[k].pid].at = "none"
                           /\ Is(process_list, rqs[k].pid,
                                 IF rqs[k].state = "RUNNING" THEN READY ELSE BLOCK)
      <4>1. \A k \in Alive :
              /\ rqs'[k] = rqs[k]
              /\ rqs[k].pid \in Pids \ {ShellPid, idle_pid}
              /\ prog[rqs[k].pid].at = "none"
              /\ Is(process_list, rqs[k].pid,
                    IF rqs[k].state = "RUNNING" THEN READY ELSE BLOCK)
        BY <3>1, <3>3 DEF TestInv, Serial, Children
      <4>2. \A k \in Alive : rqs[k].pid \in LivePids(process_list)
        BY <4>1, LiveIs
      <4> QED BY <1>2, <4>1, <4>2, AtsApart DEF Born
    <3>5. \A k \in Alive' : /\ rqs'[k].pid \in Pids \ {ShellPid, idle_pid}
                            /\ prog'[rqs'[k].pid].at = "none"
                            /\ Is(process_list', rqs'[k].pid,
                                  IF rqs'[k].state = "RUNNING" THEN READY ELSE BLOCK)
      <4> TAKE k \in Alive'
      <4>1. CASE k = n
        BY <1>3, <1>9, <2>2, <3>1, <3>2, <4>1 DEF Born
      <4>2. CASE k \in Alive
        BY <1>3, <1>9, <3>4, <4>2
      <4> QED BY <3>3, <4>1, <4>2
    <3>6. \A j, k \in Alive' : rqs'[j].pid = rqs'[k].pid => j = k
      BY <3>1, <3>2, <3>3, <3>4 DEF TestInv, Serial, Children
    <3>7. \A p : Known(p) => Known(p)'
      BY <3>3, <3>4 DEF Known
    <3>8. Known(b)'
      BY <3>1, <3>2, <3>3 DEF Known
    <3>9. ASSUME NEW e \in Kids(me)'
          PROVE  Known(children_processes[e].child_pid)'
      <4>1. CASE e = f
        BY <1>15, <3>1, <3>2, <3>3, <4>1 DEF Known
      <4>2. CASE e \in Kids(me)
        <5>1. Known(children_processes[e].child_pid)
          BY <1>2, <2>2, <4>2 DEF TestInv, Serial, Children
        <5>2. children_processes'[e] = children_processes[e]
          BY <1>8, <1>15, <4>2
        <5> QED BY <3>3, <3>4, <5>1, <5>2 DEF Known
      <4> QED BY <1>15, <3>9, <4>1, <4>2
    <3>10. Children'
      <4>1. ASSUME NEW p \in Bosses' PROVE InStep(prog[p])'
        <5>1. prog'[p] = new
          BY <1>3, <1>5
        <5> QED BY <5>1 DEF InStep
      <4> QED BY <1>5, <3>5, <3>6, <3>9, <4>1 DEF Children
    <3>11. ASSUME refused = 0, NEW p \in LivePids(process_list') \ {ShellPid, idle_pid}
           PROVE  p \in Bosses' \cup Workers' \/ Known(p)'
      <4>1. p = b \/ p \in Bosses \cup Workers \/ Known(p)
        BY <1>9, <3>11 DEF TestInv, Serial, NobodyForgotten
      <4> QED BY <1>2, <1>5, <1>6, <3>7, <3>8, <4>1
    <3> QED BY <1>3, <1>5, <2>2, <3>10, <3>11 DEF NobodyForgotten
  <2> QED BY <2>1, <2>2
<1>17. Room'
  <2>1. Counting' = Counting \cup {f} /\ children_processes'[f].parent_pid = me
    BY <1>7 DEF BornAt
  <2>2. Strays' = Strays
    BY <1>2, <1>5, <1>8, <1>19, <2>1 DEF Strays
  <2>4. Cardinality(Kids(me)') <= Created(new)
    <3>1. Created(new) \in Nat /\ Created(prog[me]) \in Nat
      <4>1. new.i \in Nat /\ prog[me].i \in Nat
        BY <1>2 DEF Prog, TestInv, Serial, TestTypes
      <4> QED BY <4>1, TestsAssumption DEF Created
    <3>2. IsFiniteSet(Kids(me)) /\ Cardinality(Kids(me)) \in Nat
      BY Places, FS_CardinalityType
    <3>3. Cardinality(Kids(me) \cup {f}) = Cardinality(Kids(me)) + 1
      BY <1>15, <3>2, FS_AddElement
    <3>4. Cardinality(Kids(me)) <= Created(prog[me])
      BY DEF TestInv, Serial, Room
    <3> QED BY <1>15, <3>1, <3>2, <3>3, <3>4
  <2> QED BY <1>3, <1>5, <2>2, <2>4 DEF TestInv, Serial, Room
<1> QED BY <1>10, <1>11, <1>13, <1>14, <1>16, <1>17 DEF Serial

-----------------------------------------------------------------------------
(* A creation is refused: an entry is lost, if there was one.              *)
LostTo(c, X) ==
  /\ X \in SUBSET Entries /\ IsFiniteSet(X) /\ Cardinality(X) \in Nat /\ Cardinality(X) <= 1
  /\ X \cap Counting = {} /\ Counting' = Counting \cup X
  /\ \A f \in X : /\ children_processes'[f].parent_pid = CurrentPid
                  /\ children_processes'[f].child_pid = c
  /\ \A e \in Entries \ X : children_processes'[e] = children_processes[e]
  /\ \A p : Owned(p)' = IF p = CurrentPid THEN Owned(p) \cup X ELSE Owned(p)

LEMMA RefusalView ==
  ASSUME TestInv, NEW c,
         children_processes' = AddChild(children_processes, CurrentPid, c)
  PROVE  \E X : LostTo(c, X)
<1>1. children_processes \in [Entries -> ChildInfo]
  BY DEF TestInv, IInv, SoundChildren
<1>2. CASE children_processes' = children_processes
  <2>1. IsFiniteSet({}) /\ Cardinality({}) = 0
    BY FS_EmptySet
  <2>2. Counting' = Counting /\ \A p : Owned(p)' = Owned(p)
    BY <1>2 DEF Counting, Owned
  <2>3. LostTo(c, {})
    BY <1>2, <2>1, <2>2 DEF LostTo
  <2> QED BY <2>3
<1>3. ASSUME NEW f \in Entries, children_processes[f].state = DEAD,
             children_processes' = [children_processes EXCEPT ![f] =
               [parent_pid |-> CurrentPid, child_pid |-> c, state |-> READY]]
      PROVE  \E X : LostTo(c, X)
  <2>1. /\ children_processes'[f].parent_pid = CurrentPid
        /\ children_processes'[f].child_pid = c
        /\ children_processes'[f].state = READY
        /\ \A e \in Entries \ {f} : children_processes'[e] = children_processes[e]
    BY <1>1, <1>3
  <2>2. f \notin Counting /\ Counting' = Counting \cup {f}
    BY <1>3, <2>1 DEF Counting, READY, DEAD
  <2>3. \A p : Owned(p)' = IF p = CurrentPid THEN Owned(p) \cup {f} ELSE Owned(p)
    <3> TAKE p
    <3>1. Owned(p)' = {e \in Counting \cup {f} : children_processes'[e].parent_pid = p}
      BY <2>2 DEF Owned
    <3>2. \A e \in Counting : children_processes'[e] = children_processes[e]
      BY <2>1, <2>2 DEF Counting
    <3> QED BY <2>1, <3>1, <3>2 DEF Owned
  <2>4. IsFiniteSet({f}) /\ Cardinality({f}) = 1
    BY FS_Singleton
  <2>5. LostTo(c, {f})
    BY <2>1, <2>2, <2>3, <2>4 DEF LostTo
  <2> QED BY <2>5
<1> QED BY <1>1, <1>2, <1>3, AddView

LEMMA ChildRefused ==
  ASSUME TestInv, NEW c \in FailureCodes, NEW me, me = CurrentPid,
         children_processes' = AddChild(children_processes, CurrentPid, c),
         process_list' = process_list,
         NEW new \in Prog, prog' = [prog EXCEPT ![me] = new],
         refused' = refused + 1, refused < MaxRefused, global' \in Int,
         \/ /\ me = ShellPid /\ prog[me].at = "prompt" /\ new.at = "prompt" /\ rqs' = <<>>
         \/ /\ me \in Bosses /\ prog[me].at = "sync" /\ new.at = "sync" /\ rqs' = rqs
            /\ InStep(new)' /\ Created(new) > Created(prog[me])
         \/ /\ me \in Bosses /\ prog[me].at = "create" /\ new.at = "end" /\ rqs' = rqs
            /\ prog[me].i < MAX_TEST_PROCESSES
         \/ /\ me \in Bosses /\ prog[me].at = "prio" /\ new.at \in {"prio", "change"}
            /\ RequestsKept /\ InStep(new)' /\ Created(new) > Created(prog[me])
  PROVE  Serial'
<1> DEFINE Shell == me = ShellPid /\ prog[me].at = "prompt" /\ new.at = "prompt" /\ rqs' = <<>>
           Sync == /\ me \in Bosses /\ prog[me].at = "sync" /\ new.at = "sync" /\ rqs' = rqs
                   /\ InStep(new)' /\ Created(new) > Created(prog[me])
           Leaves == /\ me \in Bosses /\ prog[me].at = "create" /\ new.at = "end" /\ rqs' = rqs
                     /\ prog[me].i < MAX_TEST_PROCESSES
           Prio == /\ me \in Bosses /\ prog[me].at = "prio" /\ new.at \in {"prio", "change"}
                   /\ RequestsKept /\ InStep(new)' /\ Created(new) > Created(prog[me])
<1>1. ShellPid \in Pids /\ ShellPid \notin Bosses \cup Workers /\ me \in Pids
  BY ShellStands DEF TestInv, Bosses
<1>2. /\ prog' \in [Pids -> Prog] /\ prog'[me] = new
      /\ \A p \in Pids \ {me} : prog'[p] = prog[p]
      /\ prog[me] \in Prog
  BY <1>1 DEF TestInv, Serial, TestTypes
<1>3. /\ Shell => Bosses = {} /\ Workers = {}
      /\ ~Shell => Bosses = {me}
  <2>1. Shell => Bosses = {}
    BY CallerLives DEF TestInv, Serial, Returned
  <2> QED BY <2>1 DEF TestInv, Serial, Families, Roles
<1>4. Bosses' = Bosses /\ Workers' = Workers
  <2>1. /\ new.at \notin WorkerAts /\ prog[me].at \notin WorkerAts
        /\ new.at \in BossAts <=> prog[me].at \in BossAts
    BY AtsApart DEF BossAts, ShellAts, SyncAts, CreateAts, PrioAts
  <2> QED BY <1>1, <1>2, <2>1 DEF Bosses, Workers
<1>5. PICK X : LostTo(c, X)
  BY RefusalView
<1>6. /\ c \notin Nat /\ FailureCodes \cap Nat = {}
      /\ \A e \in Counting : e \in Entries /\ children_processes'[e] = children_processes[e]
  BY <1>5 DEF LostTo, Counting, FailureCodes, NO_SPACE_FOR_PROCESS, PROCESSES_LIMIT_REACHED
<1>7. TestTypes'
  <2>1. <<>> \in Seq(Request) /\ rqs \in Seq(Request)
    BY DEF TestInv, Serial, TestTypes
  <2>2. refused + 1 \in 0 .. MaxRefused
    BY TestsAssumption DEF TestInv, Serial, TestTypes
  <2>3. rqs' \in Seq(Request)
    BY <2>1 DEF RequestsKept
  <2>4. global' \in Int /\ refused' = refused + 1 /\ prog' \in [Pids -> Prog]
    BY <1>2
  <2> QED BY <2>2, <2>3, <2>4 DEF TestTypes
<1>8. Roles'
  <2>1. prog'[ShellPid].at \in ShellAts
    BY <1>1, <1>2 DEF TestInv, Serial, Roles, ShellAts
  <2>2. me # ShellPid => new.at \notin ShellAts
    BY DEF ShellAts
  <2>3. \A p \in Pids \ {ShellPid} : prog'[p].at \notin ShellAts
    BY <1>2, <2>2 DEF TestInv, Serial, Roles
  <2> QED BY <1>4, <2>1, <2>3 DEF TestInv, Serial, Roles
<1>9. Families'
  <2>1. \A p, q : Names(p, q) => Names(p, q)'
    <3>1. \A p : Owned(p) \subseteq Owned(p)' /\ Owned(p) \subseteq Counting
      BY <1>5 DEF LostTo, Owned
    <3> QED BY <1>6, <3>1 DEF Names
  <2>2. \A p \in Bosses' : Names(ShellPid, p)'
    BY <1>4, <2>1 DEF TestInv, Serial, Families
  <2>3. ASSUME NEW w \in Workers'
        PROVE  \E p \in Bosses' : prog'[p].at \in {"sync", "close"} /\ Names(p, w)'
    <3>1. PICK p \in Bosses : prog[p].at \in {"sync", "close"} /\ Names(p, w)
      BY <1>4, <2>3 DEF TestInv, Serial, Families
    <3>2. prog'[p].at \in {"sync", "close"}
      BY <1>2, <1>3, <3>1 DEF CreateAts, PrioAts
    <3> QED BY <1>4, <2>1, <3>1, <3>2
  <2>4. ASSUME NEW e \in Entries,
               children_processes'[e].parent_pid \in LivePids(process_list) \ {ShellPid}
        PROVE  children_processes'[e].parent_pid \in Bosses
    <3>1. CASE e \in X
      BY <1>3, <1>5, <2>4, <3>1 DEF LostTo
    <3>2. CASE e \notin X
      BY <1>5, <2>4, <3>2 DEF LostTo, TestInv, Serial, Families
    <3> QED BY <3>1, <3>2
  <2>5. \A e \in Counting' : children_processes'[e].child_pid \notin {ShellPid, idle_pid}
    <3>1. ShellPid \in Nat /\ idle_pid \in Nat
      BY DEF ShellPid, idle_pid
    <3> QED BY <1>5, <1>6, <3>1 DEF LostTo, TestInv, Serial, Families
  <2>6. NamedOnce(children_processes')
    <3>1. \A e \in Entries : children_processes'[e].state = READY
                              /\ children_processes'[e].child_pid \in Nat =>
            /\ children_processes[e].state = READY
            /\ children_processes'[e] = children_processes[e]
      BY <1>5, <1>6 DEF LostTo
    <3> QED BY <3>1 DEF NamedOnce, TestInv, Serial, Families
  <2> QED BY <1>4, <2>2, <2>3, <2>4, <2>5, <2>6 DEF Families
<1>10. Returned'
  <2>1. prog'[ShellPid].at = "prompt" /\ Awake(ShellPid)' => Bosses' = {}
    <3>1. CASE Shell
      BY <1>3, <1>4, <3>1
    <3>2. CASE ~Shell
      BY <1>1, <1>2, <1>4, <3>2 DEF TestInv, Serial, Returned, Awake
    <3> QED BY <3>1, <3>2
  <2>2. \A p \in Bosses' : prog'[p].at # "close"
    BY <1>2, <1>3, <1>4
  <2> QED BY <2>1, <2>2 DEF Returned
<1>14. Failed' = Failed \cup X /\ X \cap Kids(me)' = {} /\ \A p : Kids(p)' = Kids(p)
  BY <1>5, <1>6 DEF LostTo, Failed, Kids, Owned
<1>15. Bosses # {} => Alive' = Alive /\ \A k \in Alive : rqs'[k] = rqs[k]
  <2>1. CASE rqs' = rqs
    BY <2>1 DEF Alive
  <2>2. CASE RequestsKept
    BY <2>2 DEF RequestsKept
  <2> QED BY <1>3, <2>1, <2>2
<1>11. Children'
  <2>2. \A p \in Bosses' : InStep(prog[p])'
    <3>1. CASE Sync \/ Prio
      BY <1>2, <1>3, <1>4, <3>1 DEF InStep
    <3>2. CASE Leaves
      BY <1>2, <1>3, <1>4, <3>2 DEF InStep, SyncAts, CreateAts, PrioAts
    <3> QED BY <1>3, <1>4, <3>1, <3>2
  <2>3. CASE Shell
    <3>1. Alive' = {}
      BY <2>3 DEF Alive
    <3> QED BY <1>3, <1>4, <2>2, <2>3, <3>1 DEF Children
  <2>4. CASE me \in Bosses
    <3>1. Alive' = Alive /\ \A k \in Alive : rqs'[k] = rqs[k]
      BY <1>15, <2>4
    <3>2. \A k \in Alive : prog'[rqs[k].pid].at = "none"
      <4>1. prog[me].at # "none"
        BY <2>4, AtsApart DEF Bosses
      <4> QED BY <1>2, <4>1 DEF TestInv, Serial, Children
    <3>3. \A p : Known(p)' <=> Known(p)
      BY <3>1 DEF Known
    <3>4. ASSUME NEW p \in Bosses', prog'[p].at \in CreateAts \cup PrioAts,
                 NEW e \in Kids(p)'
          PROVE  Known(children_processes[e].child_pid)'
      <4>1. p = me /\ p \in Bosses /\ e \in Kids(p)
        BY <1>1, <1>3, <1>4, <1>14, <2>4, <3>4
      <4>2. prog[p].at \in CreateAts \cup PrioAts
        BY <1>1, <1>2, <2>4, <3>4, <4>1 DEF CreateAts, PrioAts
      <4>3. Known(children_processes[e].child_pid)
        BY <4>1, <4>2 DEF TestInv, Serial, Children
      <4>4. children_processes'[e] = children_processes[e]
        BY <1>6, <4>1 DEF Kids, Owned
      <4> QED BY <3>1, <4>3, <4>4 DEF Known
    <3>5. \A k \in Alive' : /\ rqs'[k].pid \in Pids \ {ShellPid, idle_pid}
                            /\ prog'[rqs'[k].pid].at = "none"
                            /\ Is(process_list', rqs'[k].pid,
                                  IF rqs'[k].state = "RUNNING" THEN READY ELSE BLOCK)
      BY <3>1, <3>2 DEF TestInv, Serial, Children
    <3>6. \A i, k \in Alive' : rqs'[i].pid = rqs'[k].pid => i = k
      BY <3>1 DEF TestInv, Serial, Children
    <3> QED BY <2>2, <3>4, <3>5, <3>6 DEF Children
  <2> QED BY <2>3, <2>4
<1>12. NobodyForgotten'
  BY TestsAssumption DEF NobodyForgotten, TestInv, Serial, TestTypes
<1>13. Room'
  <2>1. /\ MAX_TEST_PROCESSES \in Nat \ {0} /\ refused \in Nat
        /\ MAX_TEST_PROCESSES * refused \in Nat
        /\ MAX_TEST_PROCESSES * (refused + 1) = MAX_TEST_PROCESSES * refused + MAX_TEST_PROCESSES
    BY TestsAssumption DEF TestInv, Serial, TestTypes
  <2>2. /\ IsFiniteSet(X) /\ Cardinality(X) \in Nat /\ Cardinality(X) <= 1
        /\ X \cap Counting = {} /\ Counting' = Counting \cup X
        /\ \A f \in X : /\ children_processes'[f].parent_pid = me
                        /\ children_processes'[f].child_pid = c
        /\ Owned(me)' = Owned(me) \cup X
    BY <1>5 DEF LostTo
  <2>4. Cardinality(Strays) <= MAX_TEST_PROCESSES * refused /\ Cardinality(Strays) \in Nat
    BY Places, FS_CardinalityType DEF TestInv, Serial, Room
  <2>5. Bosses \subseteq Pids /\ Pids \subseteq Nat
    BY DEF Bosses, Pids
  <2>9. /\ Cardinality(Strays \cup X) <= Cardinality(Strays) + Cardinality(X)
        /\ Cardinality(Strays \cup X) \in Nat
    BY <2>2, Places, UnionBound
  <2>10. Cardinality(Strays \cup X) <= MAX_TEST_PROCESSES * (refused + 1)
    BY <2>1, <2>2, <2>4, <2>9
  <2>6. CASE Shell
    <3>1. Working = {} /\ Working' = {}
      BY <1>3, <1>4, <2>6 DEF Working
    <3>2. Strays' = Strays \cup X
      BY <1>3, <1>4, <1>6, <1>14, <2>2, <2>6, <3>1 DEF Strays
    <3> QED BY <2>10, <3>1, <3>2 DEF Room
  <2>7. CASE Sync \/ Prio
    <3>1. Working = {me} /\ Working' = {me}
      BY <1>2, <1>3, <1>4, <2>7 DEF Working
    <3>2. Strays' = Strays \cup X
      BY <1>4, <1>6, <1>14, <2>2, <3>1 DEF Strays
    <3>3. Cardinality(Kids(me)') <= Created(new)
      <4>1. Created(new) \in Nat /\ Created(prog[me]) \in Nat
        <5>1. new.i \in Nat /\ prog[me].i \in Nat
          BY <1>2 DEF Prog
        <5> QED BY <5>1, TestsAssumption DEF Created
      <4>2. Cardinality(Kids(me)) \in Nat
        BY Places, FS_CardinalityType
      <4>3. Cardinality(Kids(me)) <= Created(prog[me])
        BY <3>1 DEF TestInv, Serial, Room
      <4> QED BY <1>14, <2>7, <4>1, <4>2, <4>3
    <3> QED BY <1>2, <2>10, <3>1, <3>2, <3>3 DEF Room
  <2>8. CASE Leaves
    <3>1. Working = {me} /\ Working' = {}
      BY <1>2, <1>3, <1>4, <2>8 DEF Working
    <3>2. Strays' \subseteq (Strays \cup Kids(me)) \cup X
      BY <1>4, <1>6, <1>14, <2>2, <3>1 DEF Strays, Kids, Owned
    <3>3. /\ Cardinality(Strays \cup Kids(me)) <= Cardinality(Strays) + Cardinality(Kids(me))
          /\ Cardinality(Strays \cup Kids(me)) \in Nat /\ IsFiniteSet(Strays \cup Kids(me))
          /\ Cardinality(Kids(me)) \in Nat
      BY Places, UnionBound
    <3>4. /\ Cardinality((Strays \cup Kids(me)) \cup X)
               <= Cardinality(Strays \cup Kids(me)) + Cardinality(X)
          /\ Cardinality((Strays \cup Kids(me)) \cup X) \in Nat
          /\ IsFiniteSet((Strays \cup Kids(me)) \cup X)
      BY <2>2, <3>3, UnionBound
    <3>5. Cardinality(Strays') <= Cardinality((Strays \cup Kids(me)) \cup X)
          /\ Cardinality(Strays') \in Nat
      BY <3>2, <3>4, FS_Subset, FS_CardinalityType
    <3>6. Cardinality(Kids(me)) <= prog[me].i /\ prog[me].i \in Nat
      BY <1>2, <2>8, <3>1 DEF TestInv, Serial, Room, Created, Prog
    <3>7. Cardinality(Strays') <= MAX_TEST_PROCESSES * (refused + 1)
      BY <2>1, <2>2, <2>4, <2>8, <3>3, <3>4, <3>5, <3>6
    <3> QED BY <3>1, <3>7 DEF Room
  <2> QED BY <2>6, <2>7, <2>8
<1> QED BY <1>7, <1>8, <1>9, <1>10, <1>11, <1>12, <1>13 DEF Serial

-----------------------------------------------------------------------------
(* The processes D die.  A survivor is as it was, or it was the parent of  *)
(* some of them and has no other child that counts.                        *)
Died(D) ==
  /\ LivePids(process_list') = LivePids(process_list) \ D
  /\ Counting' = {e \in Counting : children_processes[e].child_pid \notin D}
  /\ \A e \in Counting' : children_processes'[e] = children_processes[e]
  /\ \A e \in Entries : children_processes'[e].parent_pid
                          \in {children_processes[e].parent_pid, ShellPid}
  /\ \A p : p \notin D \cup {idle_pid} =>
       \/ \A s : Is(process_list', p, s) <=> Is(process_list, p, s)
       \/ /\ Owned(p) # {}
          /\ \A e \in Owned(p) : children_processes[e].child_pid \in D

LEMMA DeathFacts ==
  ASSUME IInv, NEW S \in SUBSET Mortal(process_list), DestroyAndSwitch(S),
         NEW D, D = PidsOf(process_list, S)
  PROVE  Died(D)
<1> DEFINE after == Destroy(process_list, children_processes, S)
           left == dim - Cardinality(S)
<1>1. /\ SoundTable(process_list, dim, pid_value)
      /\ SoundChildren(process_list, children_processes, pid_value)
      /\ SoundSleepers(process_list, children_processes)
      /\ children_processes \in [Entries -> ChildInfo]
      /\ current_process_idx \in Slots
  BY DEF IInv, SoundChildren
<1>2. /\ process_list' = after.list \/ ForceTimerTick(after.list, left, 0)
      /\ children_processes' = after.table
  BY DEF DestroyAndSwitch
<1>3. \A x : x = Destroy(process_list, children_processes, S) =>
        /\ SoundTable(x.list, left, pid_value)
        /\ LivePids(x.list) = LivePids(process_list) \ D
        /\ \A p, s : p \notin D =>
             (Is(x.list, p, s) <=>
                IF p \in FinishedParents(children_processes, D)
                  THEN s = READY /\ p \in LivePids(process_list)
                  ELSE Is(process_list, p, s))
        /\ \A e \in Entries :
             /\ x.table[e].state = READY
                  <=> children_processes[e].state = READY
                      /\ children_processes[e].child_pid \notin D
             /\ x.table[e].state = READY => x.table[e] = children_processes[e]
             /\ x.table[e].parent_pid \in {children_processes[e].parent_pid, ShellPid}
  <2> SUFFICES ASSUME NEW x, x = Destroy(process_list, children_processes, S)
      PROVE  /\ SoundTable(x.list, left, pid_value)
             /\ LivePids(x.list) = LivePids(process_list) \ D
             /\ \A p, s : p \notin D =>
                  (Is(x.list, p, s) <=>
                     IF p \in FinishedParents(children_processes, D)
                       THEN s = READY /\ p \in LivePids(process_list)
                       ELSE Is(process_list, p, s))
             /\ \A e \in Entries :
                  /\ x.table[e].state = READY
                       <=> children_processes[e].state = READY
                           /\ children_processes[e].child_pid \notin D
                  /\ x.table[e].state = READY => x.table[e] = children_processes[e]
                  /\ x.table[e].parent_pid \in {children_processes[e].parent_pid, ShellPid}
    OBVIOUS
  <2>1. SoundTable(x.list, left, pid_value)
    BY <1>1, DestroySound
  <2>2. /\ LivePids(x.list) = LivePids(process_list) \ D
        /\ \A p, s : p \notin D =>
             (Is(x.list, p, s) <=>
                IF p \in FinishedParents(children_processes, D)
                  THEN s = READY /\ p \in LivePids(process_list)
                  ELSE Is(process_list, p, s))
    BY <1>1, DestroyView
  <2>3. \A e \in Entries :
          /\ x.table[e].state = READY
               <=> children_processes[e].state = READY
                   /\ children_processes[e].child_pid \notin D
          /\ x.table[e].state = READY => x.table[e] = children_processes[e]
          /\ x.table[e].parent_pid \in {children_processes[e].parent_pid, ShellPid}
    BY <1>1, EntriesView
  <2> QED BY <2>1, <2>2, <2>3
<1>4. /\ SoundTable(after.list, left, pid_value)
      /\ LivePids(after.list) = LivePids(process_list) \ D
      /\ \A p, s : p \notin D =>
           (Is(after.list, p, s) <=>
              IF p \in FinishedParents(children_processes, D)
                THEN s = READY /\ p \in LivePids(process_list)
                ELSE Is(process_list, p, s))
      /\ \A e \in Entries :
           /\ after.table[e].state = READY
                <=> children_processes[e].state = READY
                    /\ children_processes[e].child_pid \notin D
           /\ after.table[e].state = READY => after.table[e] = children_processes[e]
           /\ after.table[e].parent_pid \in {children_processes[e].parent_pid, ShellPid}
  BY <1>3
<1> HIDE DEF after, left
<1>5. /\ LivePids(process_list') = LivePids(after.list)
      /\ \A p, s : p # idle_pid => (Is(process_list', p, s) <=> Is(after.list, p, s))
  <2>1. CASE process_list' = after.list
    BY <2>1
  <2>2. CASE ForceTimerTick(after.list, left, 0)
    <3>1. \A x : x = Irq00(after.list, left, current_process_idx, 0) =>
            x.list \in [Slots -> Process] /\ SameButIdle(after.list, x.list)
      BY <1>1, <1>4, SwitchToReady
    <3>2. process_list' \in [Slots -> Process] /\ SameButIdle(after.list, process_list')
      BY <2>2, <3>1 DEF ForceTimerTick
    <3> QED BY <1>4, <3>2, SwitchView
  <2> QED BY <1>2, <2>1, <2>2
<1>6. \A f \in FinishedParents(children_processes, D) :
        /\ Owned(f) # {}
        /\ \A e \in Owned(f) : children_processes[e].child_pid \in D
  BY <1>1, FinishedIs DEF Owned, Counting
<1>7. ASSUME NEW p, p \notin D \cup {idle_pid}
      PROVE  \/ \A s : Is(process_list', p, s) <=> Is(process_list, p, s)
             \/ /\ Owned(p) # {}
                /\ \A e \in Owned(p) : children_processes[e].child_pid \in D
  <2>1. CASE p \in FinishedParents(children_processes, D)
    BY <1>6, <2>1
  <2>2. CASE p \notin FinishedParents(children_processes, D)
    BY <1>4, <1>5, <1>7, <2>2
  <2> QED BY <2>1, <2>2
<1>8. Counting' = {e \in Counting : children_processes[e].child_pid \notin D}
  BY <1>2, <1>4 DEF Counting
<1>9. \A e \in Counting' : e \in Entries /\ children_processes'[e] = children_processes[e]
  BY <1>2, <1>4 DEF Counting
<1> QED BY <1>2, <1>4, <1>5, <1>7, <1>8, <1>9 DEF Died

LEMMA CreatedNat == \A r \in Prog : Created(r) \in Nat
<1> TAKE r \in Prog
<1>1. r.i \in Nat
  BY DEF Prog
<1> QED BY <1>1, TestsAssumption DEF Created

(* Whatever dies, the tables still agree with the programs, provided only  *)
(* that nobody leaves work behind.                                         *)
LEMMA DeathKeeps ==
  ASSUME TestInv, NEW D, D \cap {ShellPid, idle_pid} = {}, Died(D),
         refused' = refused, prog' \in [Pids -> Prog],
         prog'[ShellPid] = prog[ShellPid],
         \A p \in Pids \ {ShellPid} : prog'[p].at \notin ShellAts,
         Bosses' = Bosses \ D, Workers' = Workers \ D,
         Bosses \cap D # {} => Workers = {},
         \A p \in Bosses' :
           /\ prog[p].at \in {"sync", "close"} => prog'[p].at = prog[p].at
           /\ prog'[p].at = "close" => prog[p].at = "close",
         Working' \subseteq Working,
         \A p \in Working : \/ p \in Working' /\ Created(prog'[p]) >= Created(prog[p])
                            \/ Kids(p)' = {}
  PROVE  /\ Roles' /\ Families' /\ Returned' /\ Room'
         /\ \A p : Kids(p)' = {e \in Kids(p) : children_processes[e].child_pid \notin D}
         /\ \A k \in Alive : rqs[k].pid \notin D =>
              \A s : Is(process_list', rqs[k].pid, s) <=> Is(process_list, rqs[k].pid, s)
<1>1. /\ LivePids(process_list') = LivePids(process_list) \ D
      /\ Counting' = {e \in Counting : children_processes[e].child_pid \notin D}
      /\ \A e \in Counting' : children_processes'[e] = children_processes[e]
      /\ \A e \in Entries : children_processes'[e].parent_pid
                              \in {children_processes[e].parent_pid, ShellPid}
      /\ \A p : p \notin D \cup {idle_pid} =>
           \/ \A s : Is(process_list', p, s) <=> Is(process_list, p, s)
           \/ /\ Owned(p) # {}
              /\ \A e \in Owned(p) : children_processes[e].child_pid \in D
  BY DEF Died
<1>2. \A p : Owned(p)' = {e \in Owned(p) : children_processes[e].child_pid \notin D}
  BY <1>1 DEF Owned
<1>9. Failed' \subseteq Failed /\ Failed \cap Counting' \subseteq Failed'
  BY <1>1 DEF Failed
<1>10. \A p : Kids(p)' = {e \in Kids(p) : children_processes[e].child_pid \notin D}
  BY <1>1, <1>2, <1>9 DEF Kids, Owned
<1>3. \A p, c : Names(p, c) /\ c \notin D => Names(p, c)'
  <2>1. \A p : \A e \in Owned(p)' : children_processes'[e] = children_processes[e]
    BY <1>1 DEF Owned
  <2> QED BY <1>2, <2>1 DEF Names
<1>4. Roles'
  BY <1>1 DEF TestInv, Serial, Roles
<1>5. Families'
  <2>1. \A p \in Bosses' : Names(ShellPid, p)'
    BY <1>3 DEF TestInv, Serial, Families
  <2>2. ASSUME NEW c \in Workers'
        PROVE  \E p \in Bosses' : prog'[p].at \in {"sync", "close"} /\ Names(p, c)'
    <3>1. PICK p \in Bosses : prog[p].at \in {"sync", "close"} /\ Names(p, c)
      BY <2>2 DEF TestInv, Serial, Families
    <3>2. p \in Bosses' /\ prog'[p].at = prog[p].at
      BY <2>2, <3>1
    <3> QED BY <1>3, <2>2, <3>1, <3>2
  <2>3. ASSUME NEW e \in Entries,
               children_processes'[e].parent_pid \in LivePids(process_list') \ {ShellPid}
        PROVE  children_processes'[e].parent_pid \in Bosses'
    <3>1. /\ children_processes'[e].parent_pid = children_processes[e].parent_pid
          /\ children_processes[e].parent_pid \in LivePids(process_list) \ {ShellPid}
          /\ children_processes[e].parent_pid \notin D
      BY <1>1, <2>3
    <3> QED BY <3>1 DEF TestInv, Serial, Families
  <2>4. \A e \in Counting' : children_processes'[e].child_pid \notin {ShellPid, idle_pid}
    BY <1>1 DEF TestInv, Serial, Families
  <2>5. NamedOnce(children_processes')
    <3>1. \A e \in Entries : children_processes'[e].state = READY =>
            /\ children_processes[e].state = READY
            /\ children_processes'[e] = children_processes[e]
      <4>1. \A e \in Entries : children_processes'[e].state = READY => e \in Counting'
        BY DEF Counting
      <4> QED BY <1>1, <4>1 DEF Counting
    <3> QED BY <3>1 DEF NamedOnce, TestInv, Serial, Families
  <2> QED BY <2>1, <2>2, <2>3, <2>4, <2>5 DEF Families
<1>6. Returned'
  <2>1. ASSUME prog'[ShellPid].at = "prompt", Awake(ShellPid)'
        PROVE  Bosses' = {}
    <3>1. CASE \A s : Is(process_list', ShellPid, s) <=> Is(process_list, ShellPid, s)
      BY <2>1, <3>1 DEF Awake, TestInv, Serial, Returned
    <3>2. CASE \A e \in Owned(ShellPid) : children_processes[e].child_pid \in D
      BY <3>2 DEF TestInv, Serial, Families, Names
    <3>3. ShellPid \notin D \cup {idle_pid}
      BY DEF ShellPid, idle_pid
    <3> QED BY <1>1, <3>1, <3>2, <3>3
  <2>2. ASSUME NEW p \in Bosses', prog'[p].at = "close", Awake(p)'
        PROVE  Owned(p)' = {}
    <3>1. p \in Bosses /\ p \notin D \cup {idle_pid} /\ prog[p].at = "close"
      BY <2>2 DEF TestInv, Serial, Roles
    <3>2. CASE \A s : Is(process_list', p, s) <=> Is(process_list, p, s)
      BY <1>2, <2>2, <3>1, <3>2 DEF Awake, TestInv, Serial, Returned
    <3>3. CASE \A e \in Owned(p) : children_processes[e].child_pid \in D
      BY <1>2, <3>3
    <3> QED BY <1>1, <3>1, <3>2, <3>3
  <2> QED BY <2>1, <2>2 DEF Returned
<1>7. Room'
  <2>1. IsFiniteSet(Strays)
        /\ \A p : IsFiniteSet(Kids(p)) /\ Cardinality(Kids(p)) \in Nat
    BY Places, FS_CardinalityType
  <2>3. Strays' \subseteq Strays
    <3>1. ASSUME NEW e \in Strays', e \notin Failed
          PROVE  e \in Strays
      <4>1. /\ e \in Counting' /\ e \in Counting /\ children_processes'[e] = children_processes[e]
            /\ children_processes[e].parent_pid \notin Working'
            /\ children_processes[e].child_pid \notin Bosses'
            /\ children_processes[e].child_pid \notin D
        BY <1>1, <1>9, <3>1 DEF Strays
      <4>2. children_processes[e].parent_pid \notin Working
        <5>1. e \in Kids(children_processes[e].parent_pid)
          BY <3>1, <4>1 DEF Kids, Owned
        <5> QED BY <1>10, <4>1, <5>1
      <4> QED BY <4>1, <4>2 DEF Strays
    <3> QED BY <3>1 DEF Strays
  <2>4. /\ Cardinality(Strays') <= Cardinality(Strays) /\ Cardinality(Strays') \in Nat
        /\ Cardinality(Strays) \in Nat
    BY <2>1, <2>3, FS_Subset, FS_CardinalityType
  <2>5. /\ Cardinality(Strays) <= MAX_TEST_PROCESSES * refused
        /\ refused \in Nat /\ MAX_TEST_PROCESSES * refused \in Nat
    BY TestsAssumption DEF TestInv, Serial, Room, TestTypes
  <2>6. ASSUME NEW p \in Working'
        PROVE  Cardinality(Kids(p)') <= Created(prog'[p])
    <3>1. Kids(p)' \subseteq Kids(p)
      BY <1>10
    <3>2. Cardinality(Kids(p)') <= Cardinality(Kids(p)) /\ Cardinality(Kids(p)') \in Nat
      BY <2>1, <3>1, FS_Subset, FS_CardinalityType
    <3>3. Cardinality(Kids(p)) <= Created(prog[p])
      BY <2>6 DEF TestInv, Serial, Room
    <3>0. Created(prog'[p]) \in Nat /\ Created(prog[p]) \in Nat
      <4>1. prog[p] \in Prog /\ prog'[p] \in Prog
        BY <2>6 DEF Working, Bosses, TestInv, Serial, TestTypes
      <4> QED BY <4>1, CreatedNat
    <3>4. CASE Created(prog'[p]) >= Created(prog[p])
      BY <2>1, <3>0, <3>2, <3>3, <3>4
    <3>5. CASE Kids(p)' = {}
      <4>1. Cardinality(Kids(p)') = 0
        BY <3>5, FS_EmptySet
      <4> QED BY <3>0, <4>1
    <3> QED BY <2>6, <3>4, <3>5
  <2> QED BY <2>4, <2>5, <2>6 DEF Room
<1>8. ASSUME NEW k \in Alive, rqs[k].pid \notin D
      PROVE  \A s : Is(process_list', rqs[k].pid, s) <=> Is(process_list, rqs[k].pid, s)
  <2>1. /\ rqs[k].pid \in Pids \ {ShellPid, idle_pid} /\ prog[rqs[k].pid].at = "none"
        /\ \E s : Is(process_list, rqs[k].pid, s)
    BY DEF TestInv, Serial, Children
  <2>2. rqs[k].pid \in LivePids(process_list) \ {ShellPid} /\ rqs[k].pid \notin Bosses
    BY <2>1, LiveIs, AtsApart DEF Bosses
  <2>3. Owned(rqs[k].pid) = {}
    BY <2>2 DEF TestInv, Serial, Families, Owned, Counting
  <2> QED BY <1>1, <1>8, <2>1, <2>3
<1> QED BY <1>4, <1>5, <1>6, <1>7, <1>8, <1>10

(* A test or a worker ends.                                                *)
LEMMA ProgramEnds ==
  ASSUME TestInv, NEW me \in Bosses \cup Workers,
         me \in Bosses => prog[me].at \in {"print", "end"},
         NEW gone \in Prog, gone.at = "none", prog' = [prog EXCEPT ![me] = gone],
         rqs' = rqs, refused' = refused, global' = global, Died({me})
  PROVE  Serial'
<1>1. /\ ShellPid \in Pids /\ ShellPid \notin Bosses \cup Workers /\ me \in Pids
      /\ me # ShellPid /\ me # idle_pid
  BY ShellStands DEF TestInv, Bosses, Workers, Serial, Roles
<1>2. /\ prog' \in [Pids -> Prog] /\ prog'[me] = gone
      /\ \A p \in Pids \ {me} : prog'[p] = prog[p]
  BY <1>1 DEF TestInv, Serial, TestTypes
<1>3. Bosses' = Bosses \ {me} /\ Workers' = Workers \ {me}
  BY <1>1, <1>2, AtsApart DEF Bosses, Workers
<1>4. Working' = Working
  <2>1. me \notin Working
    BY AtsApart DEF Working, Bosses, Workers
  <2> QED BY <1>2, <1>3, <2>1 DEF Working, Bosses
<1>5. me \in Bosses => Bosses = {me} /\ Workers = {}
  BY DEF TestInv, Serial, Roles, Families
<1>6. Bosses \subseteq Pids /\ Working \subseteq Pids
  BY DEF Bosses, Working
<1>7. /\ Roles' /\ Families' /\ Returned' /\ Room'
      /\ \A p : Kids(p)' = {e \in Kids(p) : children_processes[e].child_pid \notin {me}}
      /\ \A k \in Alive : rqs[k].pid \notin {me} =>
           \A s : Is(process_list', rqs[k].pid, s) <=> Is(process_list, rqs[k].pid, s)
  <2>1. \A p \in Working : Created(prog'[p]) \in Nat /\ Created(prog'[p]) = Created(prog[p])
    <3>1. \A p \in Working : p # me
      BY AtsApart DEF Working, Bosses, Workers
    <3>2. \A p \in Working : prog'[p] \in Prog /\ prog'[p] = prog[p]
      BY <1>2, <1>6, <3>1
    <3> QED BY <3>2, CreatedNat
  <2>2. \A p \in Working : Created(prog'[p]) >= Created(prog[p])
    BY <2>1
  <2>3. \A p \in Pids \ {ShellPid} : prog'[p].at \notin ShellAts
    BY <1>2, AtsApart DEF TestInv, Serial, Roles
  <2>4. \A p \in Bosses' : prog'[p].at = prog[p].at
    BY <1>2, <1>3, <1>6
  <2>5. Bosses \cap {me} # {} => Workers = {}
    BY <1>5
  <2>6. {me} \cap {ShellPid, idle_pid} = {} /\ prog'[ShellPid] = prog[ShellPid]
    BY <1>1, <1>2
  <2> QED BY <1>2, <1>3, <1>4, <2>2, <2>3, <2>4, <2>5, <2>6, DeathKeeps
<1>8. TestTypes'
  BY <1>2 DEF TestInv, Serial, TestTypes
<1>9. Alive' = Alive
  BY DEF Alive
<1>10. \A k \in Alive : rqs[k].pid \in Pids \ {ShellPid, idle_pid} /\ rqs[k].pid # me
                        /\ prog[rqs[k].pid].at = "none"
  BY AtsApart DEF TestInv, Serial, Children, Bosses, Workers
<1>11. Children'
  <2>1. \A k \in Alive' : /\ rqs'[k].pid \in Pids \ {ShellPid, idle_pid}
                          /\ prog'[rqs'[k].pid].at = "none"
                          /\ Is(process_list', rqs'[k].pid,
                                IF rqs'[k].state = "RUNNING" THEN READY ELSE BLOCK)
    BY <1>2, <1>7, <1>9, <1>10 DEF TestInv, Serial, Children
  <2>2. \A p \in Bosses' : p \in Bosses /\ prog'[p] = prog[p]
    BY <1>2, <1>3, <1>6
  <2>3. ASSUME NEW p \in Bosses'
        PROVE  InStep(prog[p])'
    BY <2>2 DEF TestInv, Serial, Children, InStep
  <2>4. ASSUME NEW p \in Bosses', prog'[p].at \in CreateAts \cup PrioAts, NEW e \in Kids(p)'
        PROVE  Known(children_processes[e].child_pid)'
    <3>1. Known(children_processes[e].child_pid)
      BY <1>7, <2>2, <2>4 DEF TestInv, Serial, Children
    <3>2. children_processes'[e] = children_processes[e]
      BY DEF Died, Kids, Owned
    <3> QED BY <1>9, <3>1, <3>2 DEF Known
  <2> QED BY <1>9, <2>1, <2>3, <2>4 DEF Children, TestInv, Serial
<1>12. NobodyForgotten'
  <2>1. ASSUME refused = 0, Alive # {}
        PROVE  \E p \in Bosses' : prog'[p].at \in CreateAts \cup PrioAts
    <3>1. PICK p \in Bosses : prog[p].at \in CreateAts \cup PrioAts
      BY <2>1 DEF TestInv, Serial, NobodyForgotten
    <3>2. p # me
      BY <3>1 DEF CreateAts, PrioAts
    <3> QED BY <1>2, <1>3, <1>6, <3>1, <3>2
  <2>2. ASSUME refused = 0, NEW p \in LivePids(process_list') \ {ShellPid, idle_pid}
        PROVE  p \in Bosses' \cup Workers' \/ Known(p)'
    <3>1. p # me /\ p \in LivePids(process_list)
      BY <2>2 DEF Died
    <3>2. p \in Bosses \cup Workers \/ Known(p)
      BY <2>2, <3>1 DEF TestInv, Serial, NobodyForgotten
    <3> QED BY <1>3, <1>9, <3>1, <3>2 DEF Known
  <2> QED BY <1>9, <2>1, <2>2 DEF NobodyForgotten
<1> QED BY <1>7, <1>8, <1>11, <1>12 DEF Serial

LEMMA OneBecomes ==
  ASSUME NEW rs \in Seq(Request), NEW k \in DOMAIN rs,
         NEW st \in {"RUNNING", "BLOCKED", "KILLED"},
         NEW qs, qs = [rs EXCEPT ![k].state = st]
  PROVE  /\ qs \in Seq(Request) /\ DOMAIN qs = DOMAIN rs /\ Len(qs) = Len(rs)
         /\ qs[k].pid = rs[k].pid /\ qs[k].state = st
         /\ \A j \in DOMAIN rs : j # k => qs[j] = rs[j]
<1> DEFINE one == [rs[k] EXCEPT !.state = st]
<1>1. rs[k] \in Request
  OBVIOUS
<1>2. one \in Request /\ one.pid = rs[k].pid /\ one.state = st
  BY <1>1 DEF Request
<1>3. qs = [rs EXCEPT ![k] = one]
  OBVIOUS
<1> HIDE DEF one
<1> QED BY <1>2, <1>3

(* A test kills one of the processes it has asked for.                     *)
LEMMA RequestKilled ==
  ASSUME TestInv, NEW me \in Bosses, prog[me].at \in CreateAts \cup PrioAts,
         NEW k \in Alive, NEW d, d = rqs[k].pid, Died({d}),
         rqs' = [rqs EXCEPT ![k].state = "KILLED"],
         NEW new \in Prog, prog' = [prog EXCEPT ![me] = new],
         refused' = refused, global' = global,
         InStep(new)',
         \/ new.at \in CreateAts \cup PrioAts /\ Created(new) >= Created(prog[me])
         \/ new.at = "end" /\ Alive = {k}
  PROVE  Serial'
<1>1. /\ d \in Pids \ {ShellPid, idle_pid} /\ prog[d].at = "none"
      /\ d \notin Bosses \cup Workers /\ d # me
  BY AtsApart DEF TestInv, Serial, Children, Bosses, Workers
<1>2. /\ me \in Pids /\ Bosses = {me} /\ me # ShellPid /\ prog[me].at \in BossAts
      /\ ShellPid \in Pids
  BY ShellStands DEF TestInv, Serial, Roles, Bosses
<1>3. /\ prog' \in [Pids -> Prog] /\ prog'[me] = new
      /\ \A p \in Pids \ {me} : prog'[p] = prog[p]
  BY <1>2 DEF TestInv, Serial, TestTypes
<1>4. new.at \in BossAts /\ new.at \notin {"sync", "close", "print"}
      /\ prog[me].at \notin {"sync", "close", "print", "end"}
  BY DEF BossAts, CreateAts, PrioAts
<1>5. Bosses' = {me} /\ Workers' = Workers /\ me \in Working
  BY <1>2, <1>3, <1>4, AtsApart DEF Bosses, Workers, Working
<1>6. /\ rqs \in Seq(Request) /\ k \in DOMAIN rqs /\ DOMAIN rqs' = DOMAIN rqs
      /\ rqs'[k].state = "KILLED"
      /\ \A j \in DOMAIN rqs : j # k => rqs'[j] = rqs[j]
      /\ rqs' \in Seq(Request) /\ k \in Alive
  <2>1. rqs \in Seq(Request) /\ k \in DOMAIN rqs
    BY DEF TestInv, Serial, TestTypes, Alive
  <2> QED BY <2>1, OneBecomes
<1>7. Alive' = Alive \ {k} /\ Alive \subseteq DOMAIN rqs
  BY <1>6 DEF Alive, IsCode
<1>8. /\ LivePids(process_list') = LivePids(process_list) \ {d}
      /\ \A e \in Counting' : children_processes'[e] = children_processes[e]
      /\ \A p : Kids(p)' = {e \in Kids(p) : children_processes[e].child_pid # d}
      /\ \A p : Kids(p)' \subseteq Counting'
  <2>1. Failed' = {e \in Failed : children_processes[e].child_pid # d}
    BY DEF Died, Failed
  <2> QED BY <2>1 DEF Died, Kids, Owned
<1>9. new.at = "end" => Kids(me)' = {}
  <2>1. ASSUME new.at = "end", NEW e \in Kids(me)'
        PROVE  FALSE
    <3>1. e \in Kids(me) /\ children_processes[e].child_pid # d
      BY <1>8, <2>1
    <3>2. Known(children_processes[e].child_pid) /\ Alive = {k}
      BY <2>1, <3>1 DEF TestInv, Serial, Children, CreateAts, PrioAts
    <3> QED BY <3>1, <3>2 DEF Known
  <2> QED BY <2>1
<1>10. /\ Roles' /\ Families' /\ Returned' /\ Room'
       /\ \A j \in Alive : rqs[j].pid \notin {d} =>
            \A s : Is(process_list', rqs[j].pid, s) <=> Is(process_list, rqs[j].pid, s)
  <2>1. Bosses' = Bosses \ {d} /\ Workers' = Workers \ {d} /\ Bosses \cap {d} = {}
    BY <1>1, <1>2, <1>5
  <2>2. \A p \in Pids \ {ShellPid} : prog'[p].at \notin ShellAts
    BY <1>3, <1>4, AtsApart DEF TestInv, Serial, Roles
  <2>3. Working' \subseteq Working
    BY <1>2, <1>5 DEF Working
  <2>4. \A p \in Working : \/ p \in Working' /\ Created(prog'[p]) >= Created(prog[p])
                           \/ Kids(p)' = {}
    <3>1. Working = {me}
      BY <1>2, <1>5 DEF Working
    <3>2. CASE new.at = "end"
      BY <1>9, <3>1, <3>2
    <3>3. CASE new.at \in CreateAts \cup PrioAts /\ Created(new) >= Created(prog[me])
      <4>1. me \in Working'
        BY <1>3, <1>5, <3>3 DEF Working, CreateAts, PrioAts
      <4> QED BY <1>3, <3>1, <3>3, <4>1
    <3> QED BY <3>2, <3>3
  <2>5. \A p \in Bosses' : prog[p].at \notin {"sync", "close"} /\ prog'[p].at # "close"
    BY <1>3, <1>4, <1>5
  <2>6. {d} \cap {ShellPid, idle_pid} = {} /\ prog'[ShellPid] = prog[ShellPid]
    BY <1>1, <1>2, <1>3
  <2> QED BY <1>3, <2>1, <2>2, <2>3, <2>4, <2>5, <2>6, DeathKeeps
<1>11. TestTypes'
  BY <1>3, <1>6 DEF TestInv, Serial, TestTypes
<1>12. \A j \in Alive' : /\ j \in Alive /\ rqs'[j] = rqs[j] /\ rqs[j].pid # d
                         /\ rqs[j].pid \in Pids \ {ShellPid, idle_pid} /\ rqs[j].pid # me
                         /\ prog[rqs[j].pid].at = "none"
  <2>1. \A j \in Alive : /\ rqs[j].pid \in Pids \ {ShellPid, idle_pid}
                         /\ prog[rqs[j].pid].at = "none"
    BY DEF TestInv, Serial, Children
  <2>2. \A j \in Alive : rqs[j].pid = d => j = k
    BY <1>6 DEF TestInv, Serial, Children
  <2> QED BY <1>2, <1>6, <1>7, <2>1, <2>2, AtsApart
<1>13. Children'
  <2>1. \A j \in Alive' : /\ rqs'[j].pid \in Pids \ {ShellPid, idle_pid}
                          /\ prog'[rqs'[j].pid].at = "none"
                          /\ Is(process_list', rqs'[j].pid,
                                IF rqs'[j].state = "RUNNING" THEN READY ELSE BLOCK)
    BY <1>3, <1>10, <1>12 DEF TestInv, Serial, Children
  <2>2. \A i, j \in Alive' : rqs'[i].pid = rqs'[j].pid => i = j
    BY <1>12 DEF TestInv, Serial, Children
  <2>3. ASSUME NEW p \in Bosses'
        PROVE  InStep(prog[p])'
    BY <1>3, <1>5 DEF InStep
  <2>4. ASSUME NEW e \in Kids(me)', new.at \in CreateAts \cup PrioAts
        PROVE  Known(children_processes[e].child_pid)'
    <3>1. e \in Kids(me) /\ children_processes[e].child_pid # d
          /\ children_processes'[e] = children_processes[e]
      BY <1>8, <2>4
    <3>2. PICK j \in Alive : rqs[j].pid = children_processes[e].child_pid
      BY <3>1 DEF TestInv, Serial, Children, Known
    <3>3. j \in Alive' /\ rqs'[j] = rqs[j]
      BY <1>6, <1>7, <3>1, <3>2
    <3> QED BY <3>1, <3>2, <3>3 DEF Known
  <2> QED BY <1>3, <1>5, <2>1, <2>2, <2>3, <2>4 DEF Children
<1>14. NobodyForgotten'
  <2>1. Alive' # {} => new.at \in CreateAts \cup PrioAts
    BY <1>7
  <2>2. ASSUME refused = 0, NEW p \in LivePids(process_list') \ {ShellPid, idle_pid}
        PROVE  p \in Bosses' \cup Workers' \/ Known(p)'
    <3>1. p # d /\ p \in LivePids(process_list)
      BY <1>8, <2>2
    <3>2. CASE Known(p)
      <4>1. PICK j \in Alive : rqs[j].pid = p
        BY <3>2 DEF Known
      <4>2. j \in Alive' /\ rqs'[j] = rqs[j]
        BY <1>6, <1>7, <3>1, <4>1
      <4> QED BY <4>1, <4>2 DEF Known
    <3> QED BY <1>2, <1>5, <2>2, <3>1, <3>2 DEF TestInv, Serial, NobodyForgotten
  <2> QED BY <1>3, <1>5, <2>1, <2>2 DEF NobodyForgotten
<1> QED BY <1>10, <1>11, <1>13, <1>14 DEF Serial

-----------------------------------------------------------------------------
(* A test blocks or unblocks one of the processes it has asked for.        *)
LEMMA ToggleView ==
  ASSUME IInv, NEW d \in LivePids(process_list), d # CurrentPid, BlockOrUnblock(d),
         NEW s, Is(process_list, d, s)
  PROVE  /\ LivePids(process_list') = LivePids(process_list)
         /\ \A p, t : Is(process_list', p, t) <=>
              IF p = d THEN t = (IF s = BLOCK THEN READY ELSE BLOCK)
                       ELSE Is(process_list, p, t)
<1> DEFINE idx == GetProcessIdx(process_list, d)
           st == IF s = BLOCK THEN READY ELSE BLOCK
<1>1. /\ SoundTable(process_list, dim, pid_value)
      /\ current_process_idx \in Live(process_list)
  BY DEF IInv, Live, READY, DEAD
<1>2. idx \in Live(process_list) /\ process_list[idx].pid = d
  BY <1>1, SlotOfPid
<1>3. idx # current_process_idx
  BY <1>2 DEF CurrentPid
<1>4. process_list[idx].state = s
  BY <1>1, <1>2 DEF Is, SoundTable
<1>5. process_list' = [process_list EXCEPT ![idx].state = IF @ = BLOCK THEN READY ELSE BLOCK]
  BY <1>3 DEF BlockOrUnblock
<1>6. process_list' = ChangeProcessState(process_list, d, st)
  BY <1>4, <1>5 DEF ChangeProcessState
<1>7. st \in States \ {DEAD}
  BY DEF States, READY, BLOCK, DEAD
<1> HIDE DEF st
<1>8. /\ LivePids(process_list') = LivePids(process_list)
      /\ \A p, t : Is(process_list', p, t) <=>
           IF p = d THEN t = st ELSE Is(process_list, p, t)
  BY <1>1, <1>6, <1>7, StateView
<1> QED BY <1>8 DEF st

StateOf(st) == IF st = "RUNNING" THEN READY ELSE BLOCK
Marked(k, st) == rqs' = [rqs EXCEPT ![k].state = st]
Toggled(d, st) ==
  /\ LivePids(process_list') = LivePids(process_list)
  /\ \A p, s : Is(process_list', p, s) <=>
       IF p = d THEN s = StateOf(st) ELSE Is(process_list, p, s)

LEMMA MarkedIs ==
  ASSUME rqs \in Seq(Request), NEW k \in DOMAIN rqs,
         NEW st \in {"RUNNING", "BLOCKED", "KILLED"}, Marked(k, st)
  PROVE  /\ rqs' \in Seq(Request) /\ DOMAIN rqs' = DOMAIN rqs
         /\ rqs'[k].pid = rqs[k].pid /\ rqs'[k].state = st
         /\ \A j \in DOMAIN rqs : j # k => rqs'[j] = rqs[j]
<1>1. rqs' = [rqs EXCEPT ![k].state = st]
  BY DEF Marked
<1>2. PICK qs : qs = [rqs EXCEPT ![k].state = st]
  OBVIOUS
<1>3. /\ qs \in Seq(Request) /\ DOMAIN qs = DOMAIN rqs
      /\ qs[k].pid = rqs[k].pid /\ qs[k].state = st
      /\ \A j \in DOMAIN rqs : j # k => qs[j] = rqs[j]
  BY <1>2, OneBecomes
<1> QED BY <1>1, <1>2, <1>3

LEMMA RequestToggled ==
  ASSUME TestInv, NEW me \in Bosses, prog[me].at \in CreateAts \cup PrioAts,
         NEW k \in Alive, NEW d, d = rqs[k].pid, NEW st \in {"RUNNING", "BLOCKED"},
         Toggled(d, st), children_processes' = children_processes, Marked(k, st),
         NEW new \in Prog, prog' = [prog EXCEPT ![me] = new],
         refused' = refused, global' = global,
         InStep(new)', new.at \in CreateAts \cup PrioAts, Created(new) >= Created(prog[me])
  PROVE  Serial'
<1>0. /\ LivePids(process_list') = LivePids(process_list)
      /\ \A p, s : Is(process_list', p, s) <=>
           IF p = d THEN s = StateOf(st) ELSE Is(process_list, p, s)
  BY DEF Toggled
<1>1. /\ d \in Pids \ {ShellPid, idle_pid} /\ d \notin Bosses
      /\ me \in Pids /\ Bosses = {me} /\ me # ShellPid /\ ShellPid \in Pids
  BY ShellStands, AtsApart DEF TestInv, Serial, Children, Roles, Bosses
<1>2. /\ prog' \in [Pids -> Prog] /\ prog'[me] = new
      /\ \A p \in Pids \ {me} : prog'[p] = prog[p]
  BY <1>1 DEF TestInv, Serial, TestTypes
<1>3. /\ new.at \in BossAts /\ prog[me].at \in BossAts
      /\ {new.at, prog[me].at} \cap {"sync", "close", "print", "end"} = {}
  BY DEF BossAts, CreateAts, PrioAts
<1>4. Bosses' = Bosses /\ Workers' = Workers /\ Working = {me} /\ Working' = {me}
  <2>1. new.at \notin WorkerAts /\ prog[me].at \notin WorkerAts
    BY <1>3, AtsApart
  <2>2. Bosses' = Bosses
    BY <1>1, <1>2, <1>3 DEF Bosses
  <2>3. Workers' = Workers
    BY <1>1, <1>2, <2>1 DEF Workers
  <2>4. prog[me].at \notin {"print", "end"} /\ new.at \notin {"print", "end"}
    BY <1>3
  <2>5. Working = {me}
    BY <1>1, <2>4 DEF Working
  <2>6. Working' = {me}
    BY <1>1, <1>2, <2>2, <2>4 DEF Working
  <2> QED BY <2>2, <2>3, <2>5, <2>6
<1>5. rqs \in Seq(Request) /\ k \in DOMAIN rqs
  BY DEF TestInv, Serial, TestTypes, Alive
<1>6. /\ rqs' \in Seq(Request) /\ DOMAIN rqs' = DOMAIN rqs
      /\ rqs'[k].pid = d /\ rqs'[k].state = st
      /\ \A j \in DOMAIN rqs : j # k => rqs'[j] = rqs[j]
  <2>1. st \in {"RUNNING", "BLOCKED", "KILLED"}
    OBVIOUS
  <2> QED BY <1>5, <2>1, MarkedIs
<1>7. Alive' = Alive /\ Alive \subseteq DOMAIN rqs /\ \A j \in Alive : rqs'[j].pid = rqs[j].pid
  <2>1. \A j \in DOMAIN rqs : rqs'[j].pid = rqs[j].pid
    BY <1>6
  <2> QED BY <1>6, <2>1 DEF Alive, IsCode
<1>8. /\ Counting' = Counting /\ Failed' = Failed
      /\ \A p : Owned(p)' = Owned(p) /\ Kids(p)' = Kids(p)
  BY DEF Counting, Owned, Failed, Kids
<1>9. \A p, c : Names(p, c)' <=> Names(p, c)
  BY <1>8 DEF Names
<1>10. Roles'
  BY <1>0, <1>1, <1>2, <1>3, <1>4, AtsApart DEF TestInv, Serial, Roles
<1>11. Families'
  <2>1. Workers = {}
    BY <1>1, <1>3 DEF TestInv, Serial, Families
  <2> QED BY <1>0, <1>4, <1>8, <1>9, <2>1 DEF TestInv, Serial, Families
<1>12. Returned'
  <2>1. Awake(ShellPid)' <=> Awake(ShellPid)
    BY <1>0, <1>1 DEF Awake
  <2>2. prog'[ShellPid] = prog[ShellPid]
    BY <1>1, <1>2
  <2> QED BY <1>1, <1>2, <1>3, <1>4, <2>1, <2>2 DEF TestInv, Serial, Returned
<1>13. Children'
  <2>1. \A j \in Alive : /\ rqs[j].pid \in Pids \ {ShellPid, idle_pid}
                         /\ prog[rqs[j].pid].at = "none" /\ rqs[j].pid # me
    BY <1>3, AtsApart DEF TestInv, Serial, Children
  <2>2. ASSUME NEW j \in Alive
        PROVE  Is(process_list', rqs'[j].pid, IF rqs'[j].state = "RUNNING" THEN READY ELSE BLOCK)
    <3>1. CASE j = k
      BY <1>0, <1>6, <3>1 DEF StateOf
    <3>2. CASE j # k
      <4>1. rqs[j].pid # d /\ rqs'[j] = rqs[j]
        BY <1>6, <1>7, <3>2 DEF TestInv, Serial, Children
      <4> QED BY <1>0, <4>1 DEF TestInv, Serial, Children
    <3> QED BY <3>1, <3>2
  <2>3. InStep(prog[me])'
    BY <1>2 DEF InStep
  <2>4. ASSUME NEW e \in Kids(me)
        PROVE  Known(children_processes[e].child_pid)'
    <3>1. Known(children_processes[e].child_pid)
      BY DEF TestInv, Serial, Children
    <3> QED BY <1>7, <3>1 DEF Known
  <2> QED BY <1>1, <1>2, <1>4, <1>7, <1>8, <2>1, <2>2, <2>3, <2>4
          DEF Children, TestInv, Serial
<1>14. NobodyForgotten'
  <2>1. \A p : Known(p)' <=> Known(p)
    BY <1>7 DEF Known
  <2> QED BY <1>0, <1>1, <1>2, <1>4, <2>1 DEF TestInv, Serial, NobodyForgotten
<1>15. Room'
  <2>1. Strays' = Strays
    BY <1>4, <1>8 DEF Strays
  <2>2. Cardinality(Kids(me)') <= Created(new)
    <3>1. Created(new) \in Nat /\ Created(prog[me]) \in Nat
      BY <1>1, CreatedNat DEF TestInv, Serial, TestTypes
    <3>2. Cardinality(Kids(me)) <= Created(prog[me]) /\ Cardinality(Kids(me)) \in Nat
      BY <1>4, Places, FS_CardinalityType DEF TestInv, Serial, Room
    <3>3. Kids(me)' = Kids(me)
      BY <1>8
    <3> QED BY <3>1, <3>2, <3>3
  <2> QED BY <1>2, <1>4, <2>1, <2>2 DEF TestInv, Serial, Room
<1>16. TestTypes'
  BY <1>2, <1>6 DEF TestInv, Serial, TestTypes
<1> QED BY <1>10, <1>11, <1>12, <1>13, <1>14, <1>15, <1>16 DEF Serial

-----------------------------------------------------------------------------
(* Ctrl-C leaves the shell and the idle process, and what the heap refused.*)
LEMMA EverybodyDies ==
  ASSUME TestInv, NEW D, D = PidsOf(process_list, Mortal(process_list)), Died(D),
         NEW gone \in Prog, gone.at = "none",
         prog' = [pid \in Pids |-> IF pid = ShellPid THEN prog[pid] ELSE gone],
         rqs' = <<>>, refused' = refused, global' = global
  PROVE  Serial'
<1>1. LivePids(process_list') \subseteq {ShellPid, idle_pid}
  <2>1. \A i \in Live(process_list) : i \in Mortal(process_list)
                                      \/ process_list[i].pid \in {ShellPid, idle_pid}
    <3>1. \A i \in {0, 1} : process_list[i].pid = i
      BY DEF TestInv, IInv, SoundTable
    <3>2. \A i \in Live(process_list) \ {0, 1} : i \in Mortal(process_list)
      BY DEF TestInv, IInv, SoundTable, Mortal
    <3> QED BY <3>1, <3>2 DEF ShellPid, idle_pid
  <2> QED BY <2>1 DEF Died, LivePids, PidsOf
<1>2. ShellPid \in Pids /\ ShellPid \notin Bosses \cup Workers
  BY ShellStands DEF TestInv
<1>3. /\ prog' \in [Pids -> Prog] /\ prog'[ShellPid] = prog[ShellPid]
      /\ \A p \in Pids \ {ShellPid} : prog'[p].at = "none"
  BY <1>2 DEF TestInv, Serial, TestTypes
<1>4. Bosses' = {} /\ Workers' = {} /\ Working' = {}
  <2>1. prog[ShellPid].at \notin BossAts \cup WorkerAts
    BY <1>2 DEF Bosses, Workers
  <2>2. Bosses' = {} /\ Workers' = {}
    BY <1>3, <2>1, AtsApart DEF Bosses, Workers
  <2> QED BY <2>2 DEF Working
<1>5. Alive' = {}
  BY DEF Alive
<1>6. \A e \in Counting' : /\ e \in Counting /\ children_processes'[e] = children_processes[e]
                           /\ children_processes[e].child_pid \notin D
  BY DEF Died
<1>7. Counting' \subseteq Failed
  <2>1. \A e \in Counting : children_processes[e].child_pid
                              \in (LivePids(process_list) \ {ShellPid, idle_pid}) \cup FailureCodes
    BY DEF TestInv, IInv, SoundChildren, Counting, Serial, Families
  <2>2. LivePids(process_list) \ {ShellPid, idle_pid} \subseteq D
    BY <1>1 DEF Died
  <2> QED BY <1>6, <2>1, <2>2 DEF Failed
<1>8. TestTypes' /\ Roles'
  BY <1>2, <1>3, <1>4, AtsApart DEF TestInv, Serial, TestTypes, Roles
<1>9. Families'
  <2>1. NamedOnce(children_processes')
    <3>1. \A e \in Entries : children_processes'[e].state = READY =>
            /\ children_processes[e].state = READY
            /\ children_processes'[e] = children_processes[e]
      <4>1. \A e \in Entries : children_processes'[e].state = READY => e \in Counting'
        BY DEF Counting
      <4> QED BY <1>6, <4>1 DEF Counting
    <3> QED BY <3>1 DEF NamedOnce, TestInv, Serial, Families
  <2>2. \A e \in Entries : children_processes'[e].parent_pid
                             \notin LivePids(process_list') \ {ShellPid}
    <3>1. ASSUME NEW e \in Entries, children_processes'[e].parent_pid = idle_pid,
                 idle_pid \in LivePids(process_list)
          PROVE  FALSE
      <4>1. children_processes[e].parent_pid = idle_pid
        BY <3>1 DEF Died, ShellPid, idle_pid
      <4>2. idle_pid \in Bosses
        BY <3>1, <4>1 DEF TestInv, Serial, Families, ShellPid, idle_pid
      <4> QED BY <4>2 DEF TestInv, Serial, Roles
    <3> QED BY <1>1, <3>1 DEF Died
  <2>3. \A e \in Counting' : children_processes'[e].child_pid \notin {ShellPid, idle_pid}
    BY <1>6 DEF TestInv, Serial, Families
  <2> QED BY <1>4, <2>1, <2>2, <2>3 DEF Families
<1>10. Returned' /\ Children' /\ NobodyForgotten'
  BY <1>1, <1>4, <1>5 DEF Returned, Children, NobodyForgotten
<1>11. Room'
  <2>1. IsFiniteSet(Strays) /\ Cardinality(Strays) \in Nat
    BY Places, FS_CardinalityType
  <2>2. Strays' \subseteq Strays
    BY <1>7 DEF Strays, Failed
  <2>3. Cardinality(Strays') <= Cardinality(Strays) /\ Cardinality(Strays') \in Nat
    BY <2>1, <2>2, FS_Subset, FS_CardinalityType
  <2>4. /\ Cardinality(Strays) <= MAX_TEST_PROCESSES * refused
        /\ MAX_TEST_PROCESSES * refused \in Nat
    BY TestsAssumption DEF TestInv, Serial, Room, TestTypes
  <2> QED BY <1>4, <2>1, <2>3, <2>4 DEF Room
<1> QED BY <1>8, <1>9, <1>10, <1>11 DEF Serial

-----------------------------------------------------------------------------
(* Who owns the CPU, and what its calls do to the others.                  *)
LEMMA WhoAmI ==
  ASSUME TestInv
  PROVE  /\ CurrentPid \in Pids /\ Me \in Prog
         /\ CurrentPid \in LivePids(process_list) /\ Awake(CurrentPid)
         /\ Me.at \in BossAts => CurrentPid \in Bosses /\ CurrentPid # idle_pid
         /\ Me.at \in WorkerAts => CurrentPid \in Workers /\ CurrentPid # idle_pid
<1>1. CurrentPid \in Pids /\ CurrentPid \in LivePids(process_list) /\ Awake(CurrentPid)
  BY CallerLives DEF TestInv, InPids
<1>2. Me \in Prog
  BY <1>1 DEF Me, TestInv, Serial, TestTypes
<1> QED BY <1>1, <1>2 DEF Me, Bosses, Workers, TestInv, Serial, Roles

LEMMA SwitchesQuietly ==
  ASSUME NEW pl, NEW n, NEW pv, SoundTable(pl, n, pv), current_process_idx \in Slots,
         NEW r \in Nat, ForceTimerTick(pl, n, r)
  PROVE  /\ LivePids(process_list') = LivePids(pl)
         /\ \A p, s : p # idle_pid => (Is(process_list', p, s) <=> Is(pl, p, s))
<1>1. \A x : x = Irq00(pl, n, current_process_idx, r) =>
        x.list \in [Slots -> Process] /\ SameButIdle(pl, x.list)
  BY SwitchToReady
<1>2. process_list' \in [Slots -> Process] /\ SameButIdle(pl, process_list')
  BY <1>1 DEF ForceTimerTick
<1> QED BY <1>2, SwitchView

LEMMA SleepView ==
  ASSUME IInv, NEW st \in States \ {DEAD}, NEW r \in Nat,
         ForceTimerTick(ChangeProcessState(process_list, CurrentPid, st), dim, r)
  PROVE  /\ LivePids(process_list') = LivePids(process_list)
         /\ \A p, s : p # idle_pid =>
              (Is(process_list', p, s) <=>
                 IF p = CurrentPid THEN s = st ELSE Is(process_list, p, s))
<1> DEFINE i == current_process_idx
           ql == WithState(process_list, i, st)
<1>1. /\ SoundTable(process_list, dim, pid_value) /\ process_list \in [Slots -> Process]
      /\ i \in Live(process_list) /\ i \in Slots
      /\ CurrentPid \in LivePids(process_list)
  BY CallerLives DEF IInv, SoundTable, Live, READY, DEAD
<1>2. ChangeProcessState(process_list, CurrentPid, st) = ql
  BY <1>1, ChangeStateOfLive DEF CurrentPid
<1>3. SoundTable(ql, dim, pid_value)
  <2>1. /\ ql \in [Slots -> Process]
        /\ \A j \in Slots : /\ ql[j].pid = process_list[j].pid
                            /\ ql[j].immortal = process_list[j].immortal
                            /\ ql[j].state = IF j = i THEN st ELSE process_list[j].state
    BY <1>1 DEF WithState, Process
  <2> HIDE DEF ql
  <2>2. Live(ql) = Live(process_list)
    BY <1>1, <2>1 DEF Live
  <2> QED BY <1>1, <2>1, <2>2, SameProcessesSound DEF Live
<1>4. /\ LivePids(ql) = LivePids(process_list)
      /\ \A p, s : Is(ql, p, s) <=> IF p = CurrentPid THEN s = st ELSE Is(process_list, p, s)
  BY <1>1, <1>2, StateView
<1>5. ForceTimerTick(ql, dim, r)
  BY <1>2
<1> HIDE DEF ql
<1> QED BY <1>1, <1>3, <1>4, <1>5, SwitchesQuietly

(* Nobody comes or goes, and whoever is neither me nor idle stays as is.   *)
Quiet(me) ==
  /\ children_processes' = children_processes
  /\ LivePids(process_list') = LivePids(process_list)
  /\ pid_value' = pid_value
  /\ \A p : p \notin {me, idle_pid} =>
       \A s : Is(process_list', p, s) <=> Is(process_list, p, s)

LEMMA StillIsQuiet == ASSUME UNCHANGED vars, NEW me PROVE Quiet(me)
BY DEF vars, Quiet

LEMMA TicksAreQuiet ==
  ASSUME IInv, TimerTick \/ Yield, NEW me
  PROVE  Quiet(me)
<1>1. /\ SoundTable(process_list, dim, pid_value) /\ current_process_idx \in Slots
      /\ remaining_ticks \in Nat
  BY DEF IInv
<1>2. PICK r \in Nat : ForceTimerTick(process_list, dim, r)
  BY <1>1 DEF TimerTick, Yield
<1>3. children_processes' = children_processes /\ pid_value' = pid_value
  BY DEF TimerTick, Yield
<1>4. /\ LivePids(process_list') = LivePids(process_list)
      /\ \A p, s : p # idle_pid => (Is(process_list', p, s) <=> Is(process_list, p, s))
  BY <1>1, <1>2, SwitchesQuietly
<1> QED BY <1>3, <1>4 DEF Quiet

LEMMA WaitsView ==
  ASSUME TestInv, Waits, NEW me, me = CurrentPid
  PROVE  Quiet(me) /\ (Awake(me)' => Owned(me) = {} \/ me = idle_pid)
<1>1. CASE HasChildren(children_processes, CurrentPid)
  <2>1. /\ ForceTimerTick(ChangeProcessState(process_list, CurrentPid, PAUSED_BY_CHILD),
                          dim, remaining_ticks)
        /\ UNCHANGED <<dim, pid_value, children_processes>>
    BY <1>1 DEF Waits, WaitForChildren
  <2>2. PAUSED_BY_CHILD \in States \ {DEAD} /\ PAUSED_BY_CHILD # READY /\ remaining_ticks \in Nat
    BY DEF States, PAUSED_BY_CHILD, DEAD, READY, TestInv, IInv
  <2>3. /\ LivePids(process_list') = LivePids(process_list)
        /\ \A p, s : p # idle_pid =>
             (Is(process_list', p, s) <=>
                IF p = CurrentPid THEN s = PAUSED_BY_CHILD ELSE Is(process_list, p, s))
    BY <2>1, <2>2, SleepView DEF TestInv
  <2>4. Awake(me)' => me = idle_pid
    BY <2>2, <2>3 DEF Awake
  <2> QED BY <2>1, <2>3, <2>4 DEF Quiet
<1>2. CASE ~HasChildren(children_processes, CurrentPid)
  <2>1. UNCHANGED vars
    BY <1>2 DEF Waits
  <2>2. Owned(me) = {}
    BY <1>2 DEF HasChildren, Owned, Counting
  <2> QED BY <2>1, <2>2, StillIsQuiet
<1> QED BY <1>1, <1>2

LEMMA NicesAreQuiet ==
  ASSUME IInv, NEW pid \in LivePids(process_list), NEW priority \in Nat,
         ChangePriority(pid, priority), NEW me
  PROVE  IInv' /\ Quiet(me)
<1>1. /\ IInv' /\ Live(process_list') = Live(process_list)
      /\ \A i \in Slots : /\ process_list'[i].pid = process_list[i].pid
                          /\ process_list'[i].state = process_list[i].state
  BY PriorityTouchesTicks
<1>2. Live(process_list) \subseteq Slots
  BY DEF Live
<1>3. LivePids(process_list') = LivePids(process_list)
  BY <1>1, <1>2 DEF LivePids, PidsOf
<1>4. \A p, s : Is(process_list', p, s) <=> Is(process_list, p, s)
  BY <1>1, <1>2 DEF Is
<1>5. children_processes' = children_processes /\ pid_value' = pid_value
  BY DEF ChangePriority
<1> QED BY <1>1, <1>3, <1>4, <1>5 DEF Quiet

-----------------------------------------------------------------------------
(* The semaphore while nobody calls it.                                    *)
LEMMA SlotStays ==
  ASSUME TestInv, UNCHANGED semVars, pid_value' \in Nat, pid_value' >= pid_value,
         \A p \in Bosses' : p \in Bosses \/ p >= pid_value,
         \A c \in Workers' : prog'[c].at # "open" => c \in Workers /\ prog[c].at # "open"
  PROVE  OneSlot'
<1>1. /\ waiters' = waiters /\ semaphores' = semaphores /\ buffer' = buffer
      /\ current_sem_amount' = current_sem_amount
  BY DEF semVars
<1>2. SemTypeOK' /\ (IsOpen(SEM_ID)' <=> IsOpen(SEM_ID))
  BY <1>1 DEF TestInv, OneSlot, SemTypeOK, IsOpen, Holding
<1>3. \A k \in DOMAIN waiters : /\ waiters[k] < pid_value' /\ waiters[k] \notin Bosses'
                                /\ waiters[k] \notin {ShellPid, idle_pid}
  <2> TAKE k \in DOMAIN waiters
  <2>1. waiters[k] \in Nat /\ waiters[k] < pid_value /\ pid_value \in Nat
        /\ waiters[k] \notin Bosses \cup {ShellPid, idle_pid}
    BY DEF TestInv, OneSlot, SemTypeOK, IInv, SoundTable
  <2> QED BY <2>1
<1> QED BY <1>1, <1>2, <1>3 DEF TestInv, OneSlot

(* A process goes on in its program, and the semaphore is left alone.      *)
LEMMA SteadyInv ==
  ASSUME TestInv, IInv', NEW me \in Pids, Quiet(me), UNCHANGED semVars,
         NEW new \in Prog, prog' = [prog EXCEPT ![me] = new],
         rqs' = rqs \/ (me \in Bosses /\ RequestsKept),
         refused' = refused, global' \in Int,
         me = ShellPid => /\ new.at \in ShellAts
                          /\ new.at = "prompt" /\ Awake(me)' => Bosses = {},
         me # ShellPid => me \in Bosses \cup Workers,
         me \in Workers => new.at \in WorkerAts \ {"open"} /\ prog[me].at # "open",
         me \in Bosses => new.at \in BossAts /\ GoesOn(me, new)
  PROVE  TestInv'
<1>1. \A p \in Bosses \cup Requested \cup {ShellPid} : p # idle_pid
  BY DEF Requested, TestInv, Serial, Children, Roles, ShellPid, idle_pid
<1>2. Serial'
  BY <1>1, SteadyStep DEF Quiet
<1>3. \A p \in Pids \ {me} : prog'[p] = prog[p]
  BY DEF TestInv, Serial, TestTypes
<1>4. prog'[me] = new
  BY DEF TestInv, Serial, TestTypes
<1>5. \A p \in Bosses' : p \in Bosses
  BY <1>3, <1>4, AtsApart DEF Bosses
<1>6. \A c \in Workers' : prog'[c].at # "open" => c \in Workers /\ prog[c].at # "open"
  BY <1>3, <1>4, AtsApart DEF Workers
<1>7. pid_value' \in Nat /\ pid_value' >= pid_value
  BY DEF Quiet, TestInv, IInv, SoundTable
<1>8. OneSlot'
  BY <1>5, <1>6, <1>7, SlotStays
<1> QED BY <1>2, <1>8 DEF TestInv, InPids, Quiet

-----------------------------------------------------------------------------
(* The steps of the programs, one by one.                                  *)
LEMMA TickStep ==
  ASSUME TestInv, Ticking
  PROVE  TestInv'
<1>1. IInv'
  BY NextIInv DEF Ticking, Next, TestInv
<1>2. PICK new \in Prog : new = prog[ShellPid] /\ ShellPid \in Pids
  BY ShellStands DEF TestInv, Serial, TestTypes
<1>3. Quiet(idle_pid)
  BY TicksAreQuiet DEF Ticking, TestInv
<1>4. Quiet(ShellPid) /\ (Awake(ShellPid)' <=> Awake(ShellPid))
  BY <1>3 DEF Quiet, Awake, ShellPid, idle_pid
<1>5. /\ prog' = [prog EXCEPT ![ShellPid] = new] /\ rqs' = rqs /\ refused' = refused
      /\ global' \in Int /\ UNCHANGED semVars
  BY <1>2 DEF Ticking, testVars, TestInv, Serial, TestTypes
<1>6. new.at \in ShellAts /\ (new.at = "prompt" /\ Awake(ShellPid)' => Bosses = {})
  BY <1>2, <1>4 DEF TestInv, Serial, Roles, Returned
<1>7. ShellPid \notin Bosses \cup Workers
  BY ShellStands DEF TestInv
<1> QED BY <1>1, <1>2, <1>4, <1>5, <1>6, <1>7, SteadyInv

LEMMA WaitsKeepsIInv == ASSUME IInv, Waits PROVE IInv'
BY NextIInv DEF Waits, Next, SystemCall

LEMMA ShellWaitsStep ==
  ASSUME TestInv, ShellWaits
  PROVE  TestInv'
<1>1. CurrentPid = ShellPid /\ Waits /\ prog' = [prog EXCEPT ![ShellPid].at = "prompt"]
      /\ UNCHANGED <<semVars, global, rqs, refused>>
  BY DEF ShellWaits, GoTo
<1>2. ShellPid \in Pids /\ ShellPid \notin Bosses \cup Workers /\ prog[ShellPid] \in Prog
  BY ShellStands DEF TestInv, Serial, TestTypes
<1>3. PICK new : new = [prog[ShellPid] EXCEPT !.at = "prompt"]
  OBVIOUS
<1>4. new \in Prog /\ new.at = "prompt" /\ prog' = [prog EXCEPT ![ShellPid] = new]
  BY <1>1, <1>2, <1>3 DEF Prog, ShellAts
<1>5. Quiet(ShellPid) /\ (Awake(ShellPid)' => Owned(ShellPid) = {})
  BY <1>1, WaitsView DEF ShellPid, idle_pid
<1>6. Awake(ShellPid)' => Bosses = {}
  BY <1>5 DEF TestInv, Serial, Families, Names
<1>7. IInv' /\ global' \in Int
  BY <1>1, WaitsKeepsIInv DEF TestInv, Serial, TestTypes
<1>8. new.at \in ShellAts
  BY <1>4 DEF ShellAts
<1> QED BY <1>1, <1>2, <1>4, <1>5, <1>6, <1>7, <1>8, SteadyInv

LEMMA SyncWaitsStep ==
  ASSUME TestInv, SyncWaits
  PROVE  TestInv'
<1>1. PICK me : me = CurrentPid
  OBVIOUS
<1>2. /\ prog[me].at = "sync" /\ prog[me].i = 2 * TOTAL_PAIR_PROCESSES /\ Waits
      /\ prog' = [prog EXCEPT ![me].at = "close"]
      /\ UNCHANGED <<semVars, global, rqs, refused>>
  BY <1>1 DEF SyncWaits, GoTo, Me
<1>3. me \in Pids /\ prog[me] \in Prog /\ me \in Bosses /\ me # idle_pid /\ me # ShellPid
      /\ me \notin Workers
  <2>1. "sync" \in BossAts
    BY DEF BossAts, SyncAts
  <2> QED BY <1>1, <1>2, <2>1, WhoAmI, ShellStands, AtsApart DEF Me, TestInv, Workers
<1>4. PICK new : new = [prog[me] EXCEPT !.at = "close"]
  OBVIOUS
<1>5. /\ new \in Prog /\ new.at = "close" /\ new.i = prog[me].i
      /\ prog' = [prog EXCEPT ![me] = new]
  BY <1>2, <1>3, <1>4 DEF Prog, BossAts, SyncAts
<1>6. Quiet(me) /\ (Awake(me)' => Owned(me) = {})
  BY <1>1, <1>2, <1>3, WaitsView
<1>7. InStep(new)'
  <2>1. rqs = <<>>
    BY <1>2, <1>3 DEF TestInv, Serial, Children, InStep, SyncAts
  <2> QED BY <1>2, <1>5, <2>1 DEF InStep, SyncAts, CreateAts, PrioAts
<1>8. GoesOn(me, new)
  <2>1. Created(new) = Created(prog[me]) /\ Created(new) \in Nat
    BY <1>2, <1>5, CreatedNat DEF Created
  <2>2. me \in Working
    BY <1>2, <1>3 DEF Working
  <2>3. prog[me].at \notin CreateAts \cup PrioAts /\ new.at \notin CreateAts \cup PrioAts
    BY <1>2, <1>5 DEF CreateAts, PrioAts
  <2> QED BY <1>5, <1>6, <1>7, <2>1, <2>2, <2>3 DEF GoesOn
<1>9. IInv' /\ global' \in Int
  BY <1>2, WaitsKeepsIInv DEF TestInv, Serial, TestTypes
<1>10. new.at \in BossAts
  BY <1>5 DEF BossAts, SyncAts
<1> QED BY <1>2, <1>3, <1>5, <1>6, <1>8, <1>9, <1>10, SteadyInv

(* testsc and testprio: the tables stay and the test goes on.              *)
LEMMA AskerGoesOn ==
  ASSUME TestInv, IInv', NEW me, me = CurrentPid, prog[me].at \in CreateAts \cup PrioAts,
         Quiet(me), UNCHANGED <<semVars, global, refused>>,
         NEW new \in Prog, prog' = [prog EXCEPT ![me] = new], InStep(new)',
         rqs' = rqs \/ RequestsKept,
         \/ new.at \in CreateAts \cup PrioAts /\ Created(new) >= Created(prog[me])
         \/ new.at \in CreateAts \cup {"end"} /\ Alive = {}
  PROVE  TestInv'
<1>1. /\ prog[me].at \in BossAts /\ new.at \in BossAts
      /\ new.at # "close" /\ new.at # "print" /\ prog[me].at # "sync"
      /\ prog[me].at # "close" /\ prog[me].at # "print" /\ prog[me].at # "end"
  BY DEF BossAts, CreateAts, PrioAts
<1>2. /\ me \in Pids /\ prog[me] \in Prog /\ me \in Bosses /\ me # ShellPid
      /\ me \notin Workers /\ me \in Working /\ Bosses = {me}
  <2>1. me \in Pids /\ prog[me] \in Prog /\ me \in Bosses
    BY <1>1, WhoAmI DEF Me
  <2> QED BY <1>1, <2>1, ShellStands, AtsApart DEF Workers, Working, TestInv, Serial, Roles
<1>3. Workers = {}
  BY <1>1, <1>2 DEF TestInv, Serial, Families
<1>4. Alive = {} => Kids(me) = {}
  BY <1>2 DEF TestInv, Serial, Children, Known
<1>5. GoesOn(me, new)
  <2>1. InStep(new)' /\ ~(new.at = "close")
    BY <1>1
  <2>2. \/ me \in Working /\ new.at \notin {"print", "end"} /\ Created(new) >= Created(prog[me])
        \/ Kids(me) = {}
    <3>1. new.at \in CreateAts \cup PrioAts => new.at \notin {"print", "end"}
      BY DEF CreateAts, PrioAts
    <3> QED BY <1>2, <1>4, <3>1
  <2>3. new.at \in CreateAts \cup PrioAts \/ Alive = {}
    OBVIOUS
  <2> QED BY <1>3, <2>1, <2>2, <2>3 DEF GoesOn
<1>6. global' \in Int /\ (rqs' = rqs \/ (me \in Bosses /\ RequestsKept))
  BY <1>2 DEF TestInv, Serial, TestTypes
<1> QED BY <1>1, <1>2, <1>5, <1>6, SteadyInv

LEMMA AskerIs ==
  ASSUME TestInv, NEW me, me = CurrentPid, prog[me].at \in CreateAts \cup PrioAts
  PROVE  /\ me \in Pids /\ prog[me] \in Prog /\ me \in Bosses /\ me # ShellPid
         /\ Bosses = {me} /\ Workers = {} /\ InStep(prog[me]) /\ me \in Working
         /\ rqs \in Seq(Request)
<1>1. prog[me].at \in BossAts
  BY DEF BossAts
<1>2. me \in Pids /\ prog[me] \in Prog /\ me \in Bosses
  BY <1>1, WhoAmI DEF Me
<1>3. Bosses = {me} /\ me # ShellPid /\ InStep(prog[me])
  BY <1>2, ShellStands DEF TestInv, Serial, Roles, Children
<1>4. /\ prog[me].at # "sync" /\ prog[me].at # "close"
      /\ prog[me].at # "print" /\ prog[me].at # "end"
  BY DEF CreateAts, PrioAts
<1>5. Workers = {}
  BY <1>3, <1>4 DEF TestInv, Serial, Families
<1> QED BY <1>2, <1>3, <1>4, <1>5 DEF Working, TestInv, Serial, TestTypes

LEMMA AskerKills ==
  ASSUME TestInv, NEW me, me = CurrentPid, prog[me].at \in CreateAts \cup PrioAts,
         NEW k \in Alive, NEW d, d = rqs[k].pid, KillProcess(d),
         rqs' = [rqs EXCEPT ![k].state = "KILLED"],
         UNCHANGED <<semVars, global, refused>>,
         NEW new \in Prog, prog' = [prog EXCEPT ![me] = new], InStep(new)',
         \/ new.at \in CreateAts \cup PrioAts /\ Created(new) >= Created(prog[me])
         \/ new.at = "end" /\ Alive = {k}
  PROVE  TestInv'
<1>1. me \in Bosses /\ me \in Pids
  BY AskerIs
<1>2. d \in LivePids(process_list)
  BY LiveIs DEF TestInv, Serial, Children
<1>3. PICK idx : idx = GetProcessIdx(process_list, d)
  OBVIOUS
<1>4. idx \in Live(process_list) /\ process_list[idx].pid = d
      /\ {idx} \in SUBSET Mortal(process_list) /\ DestroyAndSwitch({idx})
  BY <1>2, <1>3, SlotOfPid DEF KillProcess, TestInv, IInv
<1>5. {d} = PidsOf(process_list, {idx})
  BY <1>4 DEF PidsOf
<1>6. Died({d})
  BY <1>4, <1>5, DeathFacts DEF TestInv
<1>7. IInv'
  BY <1>2, NextIInv DEF Next, SystemCall, TestInv
<1>8. Serial'
  BY <1>1, <1>6, RequestKilled
<1>9. OneSlot'
  <2>1. /\ \A p \in Pids \ {me} : prog'[p] = prog[p]
        /\ prog'[me] = new
    BY <1>1 DEF TestInv, Serial, TestTypes
  <2>2. \A p \in Bosses' : p \in Bosses
    BY <1>1, <2>1 DEF Bosses
  <2>3. \A c \in Workers' : prog'[c].at # "open" => c \in Workers /\ prog[c].at # "open"
    <3>1. new.at \in BossAts
      BY DEF BossAts
    <3> QED BY <2>1, <3>1, AtsApart DEF Workers
  <2>4. pid_value' \in Nat /\ pid_value' >= pid_value /\ UNCHANGED semVars
    BY <1>4 DEF DestroyAndSwitch, TestInv, IInv, SoundTable
  <2> QED BY <2>2, <2>3, <2>4, SlotStays
<1> QED BY <1>6, <1>7, <1>8, <1>9 DEF TestInv, InPids, Died

LEMMA AskerToggles ==
  ASSUME TestInv, NEW me, me = CurrentPid, prog[me].at \in CreateAts \cup PrioAts,
         NEW k \in Alive, NEW st \in {"RUNNING", "BLOCKED"},
         rqs[k].state = (IF st = "RUNNING" THEN "BLOCKED" ELSE "RUNNING"),
         BlockOrUnblock(rqs[k].pid),
         rqs' = [rqs EXCEPT ![k].state = st],
         UNCHANGED <<semVars, global, refused>>,
         NEW new \in Prog, prog' = [prog EXCEPT ![me] = new], InStep(new)',
         new.at \in CreateAts \cup PrioAts, Created(new) >= Created(prog[me])
  PROVE  TestInv'
<1>1. me \in Bosses /\ me \in Pids /\ prog[me] \in Prog
  BY AskerIs
<1>2. PICK d : d = rqs[k].pid
  OBVIOUS
<1>3. /\ Is(process_list, d, IF st = "RUNNING" THEN BLOCK ELSE READY)
      /\ prog[d].at = "none"
  BY <1>2 DEF TestInv, Serial, Children
<1>4. d \in LivePids(process_list) /\ d # CurrentPid
  BY <1>1, <1>3, LiveIs, AtsApart DEF Bosses
<1>5. Toggled(d, st)
  <2>1. READY # BLOCK
    BY DEF READY, BLOCK
  <2>2. CASE st = "RUNNING"
    BY <1>2, <1>3, <1>4, <2>1, <2>2, ToggleView DEF Toggled, StateOf, TestInv
  <2>3. CASE st = "BLOCKED"
    BY <1>2, <1>3, <1>4, <2>1, <2>3, ToggleView DEF Toggled, StateOf, TestInv
  <2> QED BY <2>2, <2>3
<1>6. IInv'
  BY <1>2, <1>4, NextIInv DEF Next, SystemCall, TestInv
<1>7. children_processes' = children_processes /\ pid_value' = pid_value
  BY DEF BlockOrUnblock
<1>8. Serial'
  <2>1. refused' = refused /\ global' = global
    OBVIOUS
  <2>2. Marked(k, st) /\ children_processes' = children_processes
    BY <1>7 DEF Marked
  <2> QED BY <1>1, <1>2, <1>5, <2>1, <2>2, RequestToggled
<1>9. OneSlot'
  <2>1. /\ \A p \in Pids \ {me} : prog'[p] = prog[p]
        /\ prog'[me] = new
    BY <1>1 DEF TestInv, Serial, TestTypes
  <2>2. \A p \in Bosses' : p \in Bosses
    BY <1>1, <2>1 DEF Bosses
  <2>3. \A c \in Workers' : prog'[c].at # "open" => c \in Workers /\ prog[c].at # "open"
    <3>1. new.at \in BossAts
      BY DEF BossAts
    <3> QED BY <2>1, <3>1, AtsApart DEF Workers
  <2>4. pid_value' \in Nat /\ pid_value' >= pid_value /\ UNCHANGED semVars
    BY <1>7 DEF TestInv, IInv, SoundTable
  <2> QED BY <2>2, <2>3, <2>4, SlotStays
<1> QED BY <1>5, <1>6, <1>8, <1>9 DEF TestInv, InPids, Toggled

-----------------------------------------------------------------------------
(* testsc.                                                                 *)
LEMMA TurnIs ==
  ASSUME TestInv, NEW me, me = CurrentPid, prog[me].at \in {"act", "unblock"},
         NEW next \in {"unblock", "again"}, Turn(next), Len(rqs') = Len(rqs),
         \A j \in DOMAIN rqs' : ~IsCode(rqs'[j])
  PROVE  \E new \in Prog :
           /\ prog' = [prog EXCEPT ![me] = new] /\ InStep(new)'
           /\ new.at \in CreateAts \cup PrioAts /\ Created(new) >= Created(prog[me])
<1>1. me \in Pids /\ prog[me] \in Prog /\ InStep(prog[me]) /\ MAX_TEST_PROCESSES \in Nat \ {0}
  BY AskerIs, TestsAssumption DEF CreateAts
<1>2. \E new \in Prog : /\ prog' = [prog EXCEPT ![me] = new]
                        /\ new.i < MAX_TEST_PROCESSES
                        /\ new.at \in {"act", "unblock", "again"}
                        /\ new.at = "again" => new.i = 0
  <2>1. CASE prog[me].i + 1 < MAX_TEST_PROCESSES
    <3>1. PICK new : new = [prog[CurrentPid] EXCEPT !.i = @ + 1]
      OBVIOUS
    <3>2. prog' = [prog EXCEPT ![CurrentPid] = new]
      BY <2>1, <3>1 DEF Turn, Me
    <3>3. new \in Prog /\ new.i = prog[me].i + 1 /\ new.at = prog[me].at
      BY <1>1, <3>1 DEF Prog
    <3>4. new.i < MAX_TEST_PROCESSES /\ new.at \in {"act", "unblock", "again"} /\ new.at # "again"
      BY <2>1, <3>3
    <3> QED BY <3>2, <3>3, <3>4
  <2>2. CASE ~(prog[me].i + 1 < MAX_TEST_PROCESSES)
    <3>1. PICK new : new = [prog[me] EXCEPT !.i = 0, !.at = next]
      OBVIOUS
    <3>2. prog' = [prog EXCEPT ![me] = new]
      BY <2>2, <3>1 DEF Turn, Me
    <3>3. next \in BossAts
      BY DEF BossAts, CreateAts
    <3>4. new \in Prog /\ new.i = 0 /\ new.at = next
      BY <1>1, <3>1, <3>3 DEF Prog
    <3>5. /\ new.i < MAX_TEST_PROCESSES /\ new.at \in {"act", "unblock", "again"}
          /\ new.at = "again" => new.i = 0
      BY <1>1, <3>4
    <3> QED BY <3>2, <3>4, <3>5
  <2> QED BY <2>1, <2>2
<1>3. PICK new \in Prog : /\ prog' = [prog EXCEPT ![me] = new]
                          /\ new.i < MAX_TEST_PROCESSES
                          /\ new.at \in {"act", "unblock", "again"}
                          /\ new.at = "again" => new.i = 0
  BY <1>2
<1>5. Len(rqs) = MAX_TEST_PROCESSES
  BY <1>1 DEF InStep
<1>6. InStep(new)'
  BY <1>3, <1>5 DEF InStep, SyncAts, PrioAts, IsCode
<1>7. Created(new) = MAX_TEST_PROCESSES /\ Created(prog[me]) = MAX_TEST_PROCESSES
  BY <1>3 DEF Created, CreateAts
<1>8. Created(new) >= Created(prog[me])
  BY <1>1, <1>7
<1> QED BY <1>3, <1>6, <1>8 DEF CreateAts

LEMMA ActStep ==
  ASSUME TestInv, ProcessesKills \/ ProcessesBlocks \/ ProcessesUnblocks
  PROVE  TestInv'
<1>1. PICK me : me = CurrentPid
  OBVIOUS
<1>2. PICK k : k = prog[me].i + 1
  OBVIOUS
<1>3. prog[me].at \in {"act", "unblock"} /\ UNCHANGED <<semVars, global, refused>>
  BY <1>1 DEF ProcessesKills, ProcessesBlocks, ProcessesUnblocks, Me
<1>4. /\ rqs \in Seq(Request) /\ k \in DOMAIN rqs /\ prog[me].at \in CreateAts \cup PrioAts
      /\ \A j \in DOMAIN rqs : ~IsCode(rqs[j])
  <2>1. prog[me].at \in CreateAts \cup PrioAts
    BY <1>3 DEF CreateAts
  <2>2. /\ rqs \in Seq(Request) /\ InStep(prog[me]) /\ prog[me].i \in Nat
    BY <1>1, <2>1, AskerIs DEF Prog
  <2>3. k \in DOMAIN rqs
    BY <1>2, <1>3, <2>2, TestsAssumption DEF InStep
  <2>4. \A j \in DOMAIN rqs : ~IsCode(rqs[j])
    BY <1>3, <2>2 DEF InStep, CreateAts
  <2> QED BY <2>1, <2>2, <2>3, <2>4
<1>5. CASE UNCHANGED <<vars, rqs>>
  <2>1. Turn("unblock") \/ Turn("again")
    BY DEF ProcessesKills, ProcessesBlocks, ProcessesUnblocks
  <2>2. PICK new \in Prog :
          /\ prog' = [prog EXCEPT ![me] = new] /\ InStep(new)'
          /\ new.at \in CreateAts \cup PrioAts /\ Created(new) >= Created(prog[me])
    BY <1>1, <1>3, <1>4, <1>5, <2>1, TurnIs
  <2>3. Quiet(me) /\ IInv'
    BY <1>5, StillIsQuiet, NextIInv DEF TestInv
  <2> QED BY <1>1, <1>3, <1>4, <1>5, <2>2, <2>3, AskerGoesOn
<1>6. ASSUME rqs[k].state # "KILLED", NEW st \in {"RUNNING", "BLOCKED", "KILLED"},
             rqs' = [rqs EXCEPT ![k].state = st], Turn("unblock") \/ Turn("again")
      PROVE  /\ k \in Alive
             /\ \E new \in Prog :
                  /\ prog' = [prog EXCEPT ![me] = new] /\ InStep(new)'
                  /\ new.at \in CreateAts \cup PrioAts /\ Created(new) >= Created(prog[me])
  <2>1. /\ Len(rqs') = Len(rqs) /\ DOMAIN rqs' = DOMAIN rqs
        /\ \A j \in DOMAIN rqs : rqs'[j].pid = rqs[j].pid
    <3>1. PICK qs : qs = [rqs EXCEPT ![k].state = st]
      OBVIOUS
    <3>2. /\ DOMAIN qs = DOMAIN rqs /\ Len(qs) = Len(rqs) /\ qs[k].pid = rqs[k].pid
          /\ \A j \in DOMAIN rqs : j # k => qs[j] = rqs[j]
      BY <1>4, <1>6, <3>1, OneBecomes
    <3>3. \A j \in DOMAIN rqs : qs[j].pid = rqs[j].pid
      BY <3>2
    <3> QED BY <1>6, <3>1, <3>2, <3>3
  <2>2. \A j \in DOMAIN rqs' : ~IsCode(rqs'[j])
    BY <1>4, <2>1 DEF IsCode
  <2>3. k \in Alive
    BY <1>4, <1>6 DEF Alive
  <2> QED BY <1>1, <1>3, <1>6, <2>1, <2>2, <2>3, TurnIs
<1>7. CASE ProcessesKills /\ ~UNCHANGED <<vars, rqs>>
  <2>1. /\ rqs[k].state # "KILLED" /\ KillProcess(rqs[k].pid) /\ Turn("unblock")
        /\ rqs' = [rqs EXCEPT ![k].state = "KILLED"]
    BY <1>1, <1>2, <1>7 DEF ProcessesKills, ThisRq, Becomes, Me
  <2>2. PICK new \in Prog :
          /\ prog' = [prog EXCEPT ![me] = new] /\ InStep(new)' /\ k \in Alive
          /\ new.at \in CreateAts \cup PrioAts /\ Created(new) >= Created(prog[me])
    BY <1>6, <2>1
  <2>3. PICK d : d = rqs[k].pid /\ KillProcess(d)
    BY <2>1
  <2> QED BY <1>1, <1>3, <1>4, <2>1, <2>2, <2>3, AskerKills
<1>8. ASSUME NEW st \in {"RUNNING", "BLOCKED"},
             rqs[k].state = (IF st = "RUNNING" THEN "BLOCKED" ELSE "RUNNING"),
             BlockOrUnblock(rqs[k].pid), rqs' = [rqs EXCEPT ![k].state = st],
             Turn("unblock") \/ Turn("again")
      PROVE  TestInv'
  <2>1. PICK new \in Prog :
          /\ prog' = [prog EXCEPT ![me] = new] /\ InStep(new)' /\ k \in Alive
          /\ new.at \in CreateAts \cup PrioAts /\ Created(new) >= Created(prog[me])
    BY <1>6, <1>8
  <2> QED BY <1>1, <1>3, <1>4, <1>8, <2>1, AskerToggles
<1>9. CASE ProcessesBlocks /\ ~UNCHANGED <<vars, rqs>>
  <2>1. /\ rqs[k].state = "RUNNING" /\ BlockOrUnblock(rqs[k].pid) /\ Turn("unblock")
        /\ rqs' = [rqs EXCEPT ![k].state = "BLOCKED"]
    BY <1>1, <1>2, <1>9 DEF ProcessesBlocks, ThisRq, Becomes, Me
  <2> QED BY <1>8, <2>1
<1>10. CASE ProcessesUnblocks /\ ~UNCHANGED <<vars, rqs>>
  <2>1. /\ rqs[k].state = "BLOCKED" /\ BlockOrUnblock(rqs[k].pid) /\ Turn("again")
        /\ rqs' = [rqs EXCEPT ![k].state = "RUNNING"]
    BY <1>1, <1>2, <1>10 DEF ProcessesUnblocks, ThisRq, Becomes, Me
  <2> QED BY <1>8, <2>1
<1> QED BY <1>5, <1>7, <1>9, <1>10

LEMMA AtIs ==
  \A a \in ShellAts \cup BossAts \cup WorkerAts \cup {"none"} :
    At(a) \in Prog /\ At(a).at = a /\ At(a).i = 0
BY DEF At, Prog

LEMMA KillsOrBlocksStep ==
  ASSUME TestInv, KillsOrBlocks
  PROVE  TestInv'
<1>1. PICK me : me = CurrentPid
  OBVIOUS
<1>2. /\ prog[me].at = "create" /\ prog[me].i = MAX_TEST_PROCESSES
      /\ UNCHANGED vars /\ UNCHANGED <<semVars, global, refused>> /\ rqs' = rqs
  BY <1>1 DEF KillsOrBlocks, Me, allVars
<1>3. prog[me].at \in CreateAts \cup PrioAts
  BY <1>2 DEF CreateAts
<1>4. me \in Pids /\ prog[me] \in Prog /\ InStep(prog[me])
  BY <1>1, <1>3, AskerIs
<1>5. PICK new : new = [Me EXCEPT !.at = "act", !.i = 0]
  OBVIOUS
<1>6. prog' = [prog EXCEPT ![me] = new]
  BY <1>1, <1>5 DEF KillsOrBlocks
<1>7. new \in Prog /\ new.at = "act" /\ new.i = 0
  <2>1. "act" \in BossAts
    BY DEF BossAts, CreateAts
  <2> QED BY <1>1, <1>4, <1>5, <2>1 DEF Me, Prog
<1>8. Len(rqs) = MAX_TEST_PROCESSES /\ \A j \in DOMAIN rqs : ~IsCode(rqs[j])
  BY <1>2, <1>4 DEF InStep, CreateAts
<1>9. InStep(new)'
  BY <1>2, <1>7, <1>8, TestsAssumption DEF InStep, SyncAts, PrioAts, IsCode
<1>10. Created(new) = MAX_TEST_PROCESSES /\ Created(prog[me]) = MAX_TEST_PROCESSES
  BY <1>2, <1>7 DEF Created, CreateAts
<1>11. Created(new) >= Created(prog[me]) /\ new.at \in CreateAts \cup PrioAts
  BY <1>7, <1>10, TestsAssumption DEF CreateAts
<1>12. Quiet(me) /\ IInv'
  BY <1>2, StillIsQuiet, NextIInv DEF TestInv
<1> QED BY <1>1, <1>2, <1>3, <1>6, <1>7, <1>9, <1>11, <1>12, AskerGoesOn

LEMMA GoesRoundStep ==
  ASSUME TestInv, ProcessesGoesRound
  PROVE  TestInv'
<1>1. PICK me : me = CurrentPid
  OBVIOUS
<1>2. /\ prog[me].at = "again" /\ rqs' = (IF Alive # {} THEN rqs ELSE <<>>)
      /\ UNCHANGED vars /\ UNCHANGED <<semVars, global, refused>>
  BY <1>1 DEF ProcessesGoesRound, Me, allVars
<1>3. prog[me].at \in CreateAts \cup PrioAts
  BY <1>2 DEF CreateAts
<1>4. me \in Pids /\ prog[me] \in Prog /\ InStep(prog[me])
  BY <1>1, <1>3, AskerIs
<1>5. Quiet(me) /\ IInv'
  BY <1>2, StillIsQuiet, NextIInv DEF TestInv
<1>6. CASE Alive # {}
  <2>1. PICK new : new = [Me EXCEPT !.at = "act"]
    OBVIOUS
  <2>2. prog' = [prog EXCEPT ![me] = new] /\ rqs' = rqs
    BY <1>1, <1>2, <1>6, <2>1 DEF ProcessesGoesRound
  <2>3. new \in Prog /\ new.at = "act" /\ new.i = prog[me].i
    <3>1. "act" \in BossAts
      BY DEF BossAts, CreateAts
    <3> QED BY <1>1, <1>4, <2>1, <3>1 DEF Me, Prog
  <2>4. prog[me].i < MAX_TEST_PROCESSES /\ Len(rqs) = MAX_TEST_PROCESSES
        /\ \A j \in DOMAIN rqs : ~IsCode(rqs[j])
    BY <1>2, <1>4 DEF InStep, CreateAts
  <2>5. InStep(new)'
    BY <2>2, <2>3, <2>4 DEF InStep, SyncAts, PrioAts, IsCode
  <2>6. Created(new) = MAX_TEST_PROCESSES /\ Created(prog[me]) = MAX_TEST_PROCESSES
    BY <1>2, <2>3 DEF Created, CreateAts
  <2>7. Created(new) >= Created(prog[me]) /\ new.at \in CreateAts \cup PrioAts
    BY <2>3, <2>6, TestsAssumption DEF CreateAts
  <2> QED BY <1>1, <1>2, <1>3, <1>5, <2>2, <2>3, <2>5, <2>7, AskerGoesOn
<1>7. ASSUME Alive = {}, NEW new \in Prog, new.at \in {"create", "end"},
             new.at = "create" => new.i = 0,
             prog' = [prog EXCEPT ![me] = new]
      PROVE  TestInv'
  <2>1. rqs' = <<>> /\ Len(<<>>) = 0 /\ DOMAIN rqs' = {}
    BY <1>2, <1>7
  <2>2. InStep(new)'
    <3>1. Len(rqs') = 0 /\ 0 <= MAX_TEST_PROCESSES
      BY <2>1, TestsAssumption
    <3>2. CASE new.at = "create"
      BY <1>7, <2>1, <3>1, <3>2 DEF InStep, SyncAts, CreateAts, PrioAts
    <3>3. CASE new.at = "end"
      BY <3>3 DEF InStep, SyncAts, CreateAts, PrioAts
    <3> QED BY <1>7, <3>2, <3>3
  <2>3. new.at \in CreateAts \cup {"end"} /\ RequestsKept
    <3>1. rqs' \in Seq(Request) /\ Alive' = {}
      BY <2>1 DEF Alive
    <3> QED BY <1>7, <3>1 DEF CreateAts, RequestsKept
  <2> QED BY <1>1, <1>2, <1>3, <1>5, <1>7, <2>2, <2>3, AskerGoesOn
<1>8. CASE Alive = {} /\ Me.round + 1 < TestRounds
  <2>1. PICK new : new = [Me EXCEPT !.at = "create", !.round = Me.round + 1]
    OBVIOUS
  <2>2. prog' = [prog EXCEPT ![me] = new]
    BY <1>1, <1>8, <2>1 DEF ProcessesGoesRound
  <2>3. new \in Prog /\ new.at = "create" /\ new.i = prog[me].i
    <3>1. "create" \in BossAts
      BY DEF BossAts, CreateAts
    <3>2. Me = prog[me] /\ prog[me].round + 1 \in Nat
      BY <1>1, <1>4 DEF Me, Prog
    <3>3. PICK r \in Nat : r = prog[me].round + 1
      BY <3>2
    <3>4. new = [prog[me] EXCEPT !.at = "create", !.round = r]
      BY <2>1, <3>2, <3>3
    <3> QED BY <1>4, <3>1, <3>4 DEF Prog
  <2>4. prog[me].i = 0
    BY <1>2, <1>4 DEF InStep
  <2> QED BY <1>7, <1>8, <2>2, <2>3, <2>4
<1>9. CASE Alive = {} /\ ~(Me.round + 1 < TestRounds)
  <2>1. prog' = [prog EXCEPT ![me] = At("end")]
    BY <1>1, <1>9 DEF ProcessesGoesRound
  <2>2. At("end") \in Prog /\ At("end").at = "end"
    BY AtIs DEF BossAts
  <2> QED BY <1>7, <1>9, <2>1, <2>2
<1> QED BY <1>6, <1>8, <1>9

-----------------------------------------------------------------------------
(* testprio.                                                               *)
Passes == {"change", "block", "change_blocked", "release", "kill"}
Onward(r, next) == IF r.i < 2 THEN [r EXCEPT !.i = r.i + 1] ELSE At(next)

LEMMA OnwardIs ==
  ASSUME NEW r \in Prog, NEW next \in PrioAts \cup {"end"}, NEW new, new = Onward(r, next)
  PROVE  /\ new \in Prog
         /\ r.i < 2 => new.at = r.at /\ new.i = r.i + 1
         /\ ~(r.i < 2) => new.at = next /\ new.i = 0
<1>1. CASE r.i < 2
  <2>1. r.i + 1 \in Nat
    BY DEF Prog
  <2>2. PICK j \in Nat : j = r.i + 1
    BY <2>1
  <2>3. new = [r EXCEPT !.i = j]
    BY <1>1, <2>2 DEF Onward
  <2> QED BY <1>1, <2>2, <2>3 DEF Prog
<1>2. CASE ~(r.i < 2)
  <2>1. new = At(next)
    BY <1>2 DEF Onward
  <2> QED BY <1>2, <2>1, AtIs DEF BossAts
<1> QED BY <1>1, <1>2

(* A pass stands at its child: what is known of the children.              *)
LEMMA AtChild ==
  ASSUME TestInv, NEW me, me = CurrentPid, prog[me].at \in Passes,
         NEW k, k = prog[me].i + 1
  PROVE  /\ me \in Pids /\ prog[me] \in Prog /\ prog[me].at \in CreateAts \cup PrioAts
         /\ rqs \in Seq(Request) /\ k \in DOMAIN rqs /\ Len(rqs) = 3 /\ k \in 1 .. 3
         /\ \A j \in DOMAIN rqs : rqs[j].state = Expected(prog[me].at, prog[me].i, j)
         /\ rqs[k].state = (IF prog[me].at \in {"block", "change", "kill"} THEN "RUNNING"
                                                                  ELSE "BLOCKED")
         /\ IsCode(rqs[k]) \/ k \in Alive
         /\ Created(prog[me]) = 3
<1>1. prog[me].at \in PrioAts /\ prog[me].at # "prio" /\ prog[me].at \notin CreateAts
  BY DEF Passes, PrioAts, CreateAts
<1>2. me \in Pids /\ prog[me] \in Prog /\ InStep(prog[me]) /\ rqs \in Seq(Request)
  BY <1>1, AskerIs
<1>3. /\ prog[me].i \in Nat /\ prog[me].i <= 2 /\ Len(rqs) = 3
      /\ \A j \in DOMAIN rqs : rqs[j].state = Expected(prog[me].at, prog[me].i, j)
  BY <1>1, <1>2 DEF InStep, Prog
<1>4. k \in 1 .. 3 /\ k \in DOMAIN rqs /\ ~(k <= prog[me].i)
  BY <1>2, <1>3
<1>5. Expected(prog[me].at, prog[me].i, k) =
        (IF prog[me].at \in {"block", "change", "kill"} THEN "RUNNING" ELSE "BLOCKED")
  BY <1>4 DEF Expected, Passes
<1>6. rqs[k].state = (IF prog[me].at \in {"block", "change", "kill"} THEN "RUNNING"
                                                             ELSE "BLOCKED")
  BY <1>3, <1>4, <1>5
<1>7. IsCode(rqs[k]) \/ k \in Alive
  BY <1>4, <1>6 DEF Alive
<1>8. Created(prog[me]) = 3
  BY <1>1 DEF Created, CreateAts, Passes
<1> QED BY <1>1, <1>2, <1>3, <1>4, <1>6, <1>7, <1>8

LEMMA PassGoesOn ==
  ASSUME NEW new \in Prog, new.at \in Passes, new.i <= 2, Len(rqs') = 3,
         \A j \in DOMAIN rqs' : rqs'[j].state = Expected(new.at, new.i, j)
  PROVE  InStep(new)' /\ Created(new) = 3 /\ new.at \in CreateAts \cup PrioAts
<1>1. new.at \in PrioAts /\ new.at # "prio"
  BY DEF Passes, PrioAts
<1>2. new.at \notin SyncAts /\ new.at \notin CreateAts /\ new.at # "sync" /\ new.at # "close"
  BY DEF Passes, SyncAts, CreateAts
<1>3. InStep(new)'
  BY <1>1, <1>2 DEF InStep, CreateAts
<1>4. Created(new) = 3
  BY <1>1, <1>2 DEF Created, CreateAts
<1> QED BY <1>1, <1>3, <1>4

(* A code that testprio takes for a pid: its calls reach nobody.           *)
LEMMA CodeIsIgnored ==
  ASSUME TestInv, NEW me, me = CurrentPid, prog[me].at \in CreateAts \cup PrioAts,
         NEW k \in DOMAIN rqs, IsCode(rqs[k]), UNCHANGED vars,
         NEW st \in {"RUNNING", "BLOCKED", "KILLED"}, rqs' = [rqs EXCEPT ![k].state = st],
         UNCHANGED <<semVars, global, refused>>,
         NEW new \in Prog, prog' = [prog EXCEPT ![me] = new], InStep(new)',
         \/ new.at \in CreateAts \cup PrioAts /\ Created(new) >= Created(prog[me])
         \/ new.at = "end" /\ Alive = {}
  PROVE  TestInv'
<1>1. IInv' /\ Quiet(me)
  BY StillIsQuiet, NextIInv DEF TestInv
<1>2. /\ rqs' \in Seq(Request) /\ DOMAIN rqs' = DOMAIN rqs /\ rqs'[k].pid = rqs[k].pid
      /\ \A j \in DOMAIN rqs : j # k => rqs'[j] = rqs[j]
  <2>1. rqs \in Seq(Request)
    BY DEF TestInv, Serial, TestTypes
  <2> QED BY <2>1, OneBecomes
<1>3. k \notin Alive /\ k \notin Alive'
  BY <1>2 DEF Alive, IsCode
<1>4. Alive' = Alive
  BY <1>2, <1>3 DEF Alive
<1>5. RequestsKept
  BY <1>2, <1>3, <1>4 DEF RequestsKept, Alive
<1>6. \/ new.at \in CreateAts \cup PrioAts /\ Created(new) >= Created(prog[me])
      \/ new.at \in CreateAts \cup {"end"} /\ Alive = {}
  OBVIOUS
<1> QED BY <1>1, <1>5, <1>6, AskerGoesOn

LEMMA NicesStep ==
  ASSUME TestInv, NEW me, me = CurrentPid, NEW k, k = prog[me].i + 1, NEW next,
         \/ prog[me].at = "change" /\ next = "block"
         \/ prog[me].at = "change_blocked" /\ next = "release",
         NEW new, new = Onward(prog[me], next), prog' = [prog EXCEPT ![me] = new],
         NEW priority \in Nat,
         IF IsCode(rqs[k]) THEN UNCHANGED vars ELSE ChangePriority(rqs[k].pid, priority),
         rqs' = rqs, UNCHANGED <<semVars, global, refused>>
  PROVE  TestInv'
<1>1. prog[me].at \in Passes
  BY DEF Passes
<1>2. /\ me \in Pids /\ prog[me] \in Prog /\ prog[me].at \in CreateAts \cup PrioAts
      /\ k \in DOMAIN rqs /\ Len(rqs) = 3 /\ k \in 1 .. 3 /\ (IsCode(rqs[k]) \/ k \in Alive)
      /\ \A j \in DOMAIN rqs : rqs[j].state = Expected(prog[me].at, prog[me].i, j)
      /\ Created(prog[me]) = 3 /\ rqs \in Seq(Request)
  BY <1>1, AtChild
<1>3. PICK d : d = rqs[k].pid
  OBVIOUS
<1>4. k \in Alive => d \in LivePids(process_list)
  BY <1>3, LiveIs DEF TestInv, Serial, Children
<1>5. IInv' /\ Quiet(me)
  <2>1. CASE IsCode(rqs[k])
    BY <2>1, StillIsQuiet, NextIInv DEF TestInv
  <2>2. CASE ~IsCode(rqs[k])
    BY <1>2, <1>3, <1>4, <2>2, NicesAreQuiet DEF TestInv
  <2> QED BY <2>1, <2>2
<1>6. /\ new \in Prog /\ new.at \in Passes /\ new.i <= 2
       /\ \A j \in DOMAIN rqs : Expected(new.at, new.i, j) = Expected(prog[me].at, prog[me].i, j)
  <2>1. next \in PrioAts \cup {"end"} /\ next \in Passes
    BY DEF PrioAts, Passes
  <2>2. /\ new \in Prog
        /\ prog[me].i < 2 => new.at = prog[me].at /\ new.i = prog[me].i + 1
        /\ ~(prog[me].i < 2) => new.at = next /\ new.i = 0
    BY <1>2, <2>1, OnwardIs
  <2>3. prog[me].i \in 0 .. 2
    BY <1>2 DEF Prog
  <2>4. DOMAIN rqs = 1 .. 3
    BY <1>2
  <2>5. CASE prog[me].i < 2
    BY <1>1, <2>2, <2>3, <2>5 DEF Expected
  <2>6. CASE ~(prog[me].i < 2)
    BY <2>1, <2>2, <2>4, <2>6 DEF Expected
  <2> QED BY <2>5, <2>6
<1>7. InStep(new)' /\ Created(new) = 3 /\ new.at \in CreateAts \cup PrioAts
  <2>1. Len(rqs') = 3 /\ \A j \in DOMAIN rqs' : rqs'[j].state = Expected(new.at, new.i, j)
    BY <1>2, <1>6
  <2> QED BY <1>6, <2>1, PassGoesOn
<1>8. Created(new) >= Created(prog[me])
  BY <1>2, <1>7
<1> QED BY <1>2, <1>5, <1>6, <1>7, <1>8, AskerGoesOn

LEMMA TogglesStep ==
  ASSUME TestInv, NEW me, me = CurrentPid, NEW k, k = prog[me].i + 1, NEW next, NEW st,
         \/ prog[me].at = "block" /\ next = "change_blocked" /\ st = "BLOCKED"
         \/ prog[me].at = "release" /\ next = "kill" /\ st = "RUNNING",
         NEW new, new = Onward(prog[me], next), prog' = [prog EXCEPT ![me] = new],
         IF IsCode(rqs[k]) THEN UNCHANGED vars ELSE BlockOrUnblock(rqs[k].pid),
         rqs' = [rqs EXCEPT ![k].state = st],
         UNCHANGED <<semVars, global, refused>>
  PROVE  TestInv'
<1>1. prog[me].at \in Passes /\ st \in {"RUNNING", "BLOCKED"}
  BY DEF Passes
<1>2. /\ me \in Pids /\ prog[me] \in Prog /\ prog[me].at \in CreateAts \cup PrioAts
      /\ k \in DOMAIN rqs /\ Len(rqs) = 3 /\ k \in 1 .. 3 /\ (IsCode(rqs[k]) \/ k \in Alive)
      /\ \A j \in DOMAIN rqs : rqs[j].state = Expected(prog[me].at, prog[me].i, j)
      /\ rqs[k].state = (IF st = "RUNNING" THEN "BLOCKED" ELSE "RUNNING")
      /\ Created(prog[me]) = 3 /\ rqs \in Seq(Request)
  <2>1. /\ me \in Pids /\ prog[me] \in Prog /\ prog[me].at \in CreateAts \cup PrioAts
        /\ k \in DOMAIN rqs /\ Len(rqs) = 3 /\ k \in 1 .. 3 /\ (IsCode(rqs[k]) \/ k \in Alive)
        /\ \A j \in DOMAIN rqs : rqs[j].state = Expected(prog[me].at, prog[me].i, j)
        /\ rqs[k].state = (IF prog[me].at \in {"block", "change", "kill"} THEN "RUNNING"
                                                                  ELSE "BLOCKED")
        /\ Created(prog[me]) = 3 /\ rqs \in Seq(Request)
    BY <1>1, AtChild
  <2> QED BY <2>1
<1>3. /\ Len(rqs') = 3 /\ DOMAIN rqs' = 1 .. 3 /\ rqs'[k].state = st
      /\ \A j \in 1 .. 3 : j # k => rqs'[j].state = Expected(prog[me].at, prog[me].i, j)
  <2>1. /\ DOMAIN rqs' = DOMAIN rqs /\ Len(rqs') = Len(rqs) /\ rqs'[k].state = st
        /\ \A j \in DOMAIN rqs : j # k => rqs'[j] = rqs[j]
    <3>1. rqs \in Seq(Request) /\ k \in DOMAIN rqs
      BY <1>2
    <3>2. PICK qs : qs = [rqs EXCEPT ![k].state = st]
      OBVIOUS
    <3>3. /\ DOMAIN qs = DOMAIN rqs /\ Len(qs) = Len(rqs) /\ qs[k].state = st
          /\ \A j \in DOMAIN rqs : j # k => qs[j] = rqs[j]
      BY <1>1, <3>1, <3>2, OneBecomes
    <3> QED BY <3>2, <3>3
  <2>2. DOMAIN rqs = 1 .. 3
    BY <1>2
  <2> QED BY <1>2, <2>1, <2>2
<1>4. /\ new \in Prog /\ new.at \in Passes /\ new.i <= 2
      /\ \A j \in 1 .. 3 : rqs'[j].state = Expected(new.at, new.i, j)
  <2>1. next \in PrioAts \cup {"end"} /\ next \in Passes
    BY DEF PrioAts, Passes
  <2>2. /\ new \in Prog
        /\ prog[me].i < 2 => new.at = prog[me].at /\ new.i = prog[me].i + 1
        /\ ~(prog[me].i < 2) => new.at = next /\ new.i = 0
    BY <1>2, <2>1, OnwardIs
  <2>3. prog[me].i \in 0 .. 2
    BY <1>2 DEF Prog
  <2> DEFINE i == prog[me].i
  <2> HIDE DEF i
  <2>4. i \in 0 .. 2 /\ k = i + 1
    BY <2>3 DEF i
  <2>5. ASSUME NEW j \in 1 .. 3 PROVE rqs'[j].state = Expected(new.at, new.i, j)
    <3>1. j # k => rqs'[j].state = Expected(prog[me].at, i, j)
      BY <1>3 DEF i
    <3>2. j = k => rqs'[j].state = st
      BY <1>3
    <3>3. CASE i < 2
      <4>1. new.at = prog[me].at /\ new.i = i + 1
        BY <2>2, <3>3 DEF i
      <4>2. CASE prog[me].at = "block"
        <5>1. new.at = "block" /\ st = "BLOCKED"
          BY <4>1, <4>2
        <5> QED BY <2>4, <3>1, <3>2, <4>1, <4>2, <5>1 DEF Expected
      <4>3. CASE prog[me].at = "release"
        <5>1. new.at = "release" /\ st = "RUNNING"
          BY <4>1, <4>3
        <5> QED BY <2>4, <3>1, <3>2, <4>1, <4>3, <5>1 DEF Expected
      <4> QED BY <4>2, <4>3
    <3>4. CASE ~(i < 2)
      <4>1. new.at = next /\ new.i = 0 /\ i = 2 /\ k = 3
        BY <2>2, <2>4, <3>4 DEF i
      <4>2. CASE prog[me].at = "block"
        <5>1. new.at = "change_blocked" /\ st = "BLOCKED"
          BY <4>1, <4>2
        <5> QED BY <3>1, <3>2, <4>1, <4>2, <5>1 DEF Expected
      <4>3. CASE prog[me].at = "release"
        <5>1. new.at = "kill" /\ st = "RUNNING"
          BY <4>1, <4>3
        <5> QED BY <3>1, <3>2, <4>1, <4>3, <5>1 DEF Expected
      <4> QED BY <4>2, <4>3
    <3> QED BY <3>3, <3>4
  <2>6. new.i <= 2 /\ new.at \in Passes
    <3>1. CASE i < 2
      BY <1>1, <2>2, <2>4, <3>1 DEF i
    <3>2. CASE ~(i < 2)
      BY <2>1, <2>2, <3>2 DEF i
    <3> QED BY <3>1, <3>2
  <2> QED BY <2>2, <2>5, <2>6
<1>5. InStep(new)' /\ Created(new) = 3 /\ new.at \in CreateAts \cup PrioAts
  BY <1>3, <1>4, PassGoesOn
<1>6. Created(new) >= Created(prog[me])
  BY <1>2, <1>5
<1>7. CASE IsCode(rqs[k])
  BY <1>1, <1>2, <1>4, <1>5, <1>6, <1>7, CodeIsIgnored
<1>8. CASE ~IsCode(rqs[k])
  BY <1>1, <1>2, <1>4, <1>5, <1>6, <1>8, AskerToggles
<1> QED BY <1>7, <1>8

LEMMA KillsStep ==
  ASSUME TestInv, NEW me, me = CurrentPid, NEW k, k = prog[me].i + 1,
         prog[me].at = "kill",
         NEW new, new = Onward(prog[me], "end"), prog' = [prog EXCEPT ![me] = new],
         NEW d, d = rqs[k].pid, IF IsCode(rqs[k]) THEN UNCHANGED vars ELSE KillProcess(d),
         rqs' = [rqs EXCEPT ![k].state = "KILLED"],
         UNCHANGED <<semVars, global, refused>>
  PROVE  TestInv'
<1>1. prog[me].at \in Passes
  BY DEF Passes
<1>2. /\ me \in Pids /\ prog[me] \in Prog /\ prog[me].at \in CreateAts \cup PrioAts
      /\ k \in DOMAIN rqs /\ Len(rqs) = 3 /\ k \in 1 .. 3 /\ (IsCode(rqs[k]) \/ k \in Alive)
      /\ \A j \in DOMAIN rqs : rqs[j].state = Expected(prog[me].at, prog[me].i, j)
      /\ Created(prog[me]) = 3 /\ rqs \in Seq(Request)
  BY <1>1, AtChild
<1>3. /\ Len(rqs') = 3 /\ DOMAIN rqs' = 1 .. 3 /\ rqs'[k].state = "KILLED"
      /\ \A j \in 1 .. 3 : j # k => rqs'[j].state = Expected("kill", prog[me].i, j)
  <2>1. /\ DOMAIN rqs' = DOMAIN rqs /\ Len(rqs') = Len(rqs) /\ rqs'[k].state = "KILLED"
        /\ \A j \in DOMAIN rqs : j # k => rqs'[j] = rqs[j]
    <3>1. rqs \in Seq(Request) /\ k \in DOMAIN rqs
      BY <1>2
    <3>2. PICK qs : qs = [rqs EXCEPT ![k].state = "KILLED"]
      OBVIOUS
    <3>3. /\ DOMAIN qs = DOMAIN rqs /\ Len(qs) = Len(rqs) /\ qs[k].state = "KILLED"
          /\ \A j \in DOMAIN rqs : j # k => qs[j] = rqs[j]
      BY <1>1, <3>1, <3>2, OneBecomes
    <3> QED BY <3>2, <3>3
  <2>2. DOMAIN rqs = 1 .. 3
    BY <1>2
  <2> QED BY <1>2, <2>1, <2>2
<1>4. prog[me].i \in 0 .. 2
  BY <1>2 DEF Prog
<1>5. /\ new \in Prog
      /\ prog[me].i < 2 => new.at = "kill" /\ new.i = prog[me].i + 1
      /\ ~(prog[me].i < 2) => new.at = "end"
  BY <1>2, OnwardIs
<1>6. CASE prog[me].i < 2
  <2>1. new.at \in Passes /\ new.i <= 2
    BY <1>4, <1>5, <1>6 DEF Passes
  <2>2. \A j \in 1 .. 3 : rqs'[j].state = Expected("kill", prog[me].i + 1, j)
    BY <1>3, <1>4 DEF Expected
  <2>3. InStep(new)' /\ Created(new) = 3 /\ new.at \in CreateAts \cup PrioAts
    BY <1>3, <1>5, <1>6, <2>1, <2>2, PassGoesOn
  <2>4. Created(new) >= Created(prog[me])
    BY <1>2, <2>3
  <2>5. CASE IsCode(rqs[k])
    BY <1>2, <1>5, <2>3, <2>4, <2>5, CodeIsIgnored
  <2>6. CASE ~IsCode(rqs[k])
    BY <1>2, <1>5, <2>3, <2>4, <2>6, AskerKills
  <2> QED BY <2>5, <2>6
<1>7. CASE ~(prog[me].i < 2)
  <2>1. InStep(new)'
    BY <1>5, <1>7 DEF InStep, SyncAts, CreateAts, PrioAts
  <2>2. Alive \subseteq {k}
    <3>1. k = 3 /\ prog[me].i = 2 /\ DOMAIN rqs = 1 .. 3
      BY <1>2, <1>4, <1>7
    <3>2. \A j \in 1 .. 2 : rqs[j].state = "KILLED"
      BY <1>2, <3>1 DEF Expected
    <3> QED BY <3>1, <3>2 DEF Alive
  <2>3. CASE IsCode(rqs[k])
    <3>1. Alive = {}
      BY <2>2, <2>3 DEF Alive
    <3> QED BY <1>2, <1>5, <1>7, <2>1, <2>3, <3>1, CodeIsIgnored
  <2>4. CASE ~IsCode(rqs[k])
    <3>1. Alive = {k}
      BY <1>2, <2>2, <2>4
    <3> QED BY <1>2, <1>5, <1>7, <2>1, <2>4, <3>1, AskerKills
  <2> QED BY <2>3, <2>4
<1> QED BY <1>6, <1>7

-----------------------------------------------------------------------------
(* Creations, and what a refused one leaves.                               *)
LEMMA BirthKeeps ==
  ASSUME TestInv, Born, IInv', Serial', UNCHANGED semVars, pid_value' = pid_value + 1,
         NEW me \in Pids, NEW b, b = pid_value, NEW new \in Prog, NEW child \in Prog,
         prog' = [prog EXCEPT ![me] = new, ![b] = child],
         new.at \notin WorkerAts, child.at \notin WorkerAts \ {"open"},
         new.at \in BossAts => prog[me].at \in BossAts
  PROVE  TestInv'
<1>1. b \in Pids /\ pid_value \in Nat /\ b \in Nat
  BY DEF Born, Pids
<1>2. /\ \A p \in Pids \ {me, b} : prog'[p] = prog[p]
      /\ prog'[b] = child
      /\ me # b => prog'[me] = new
  BY <1>1 DEF TestInv, Serial, TestTypes
<1>3. ASSUME NEW p \in Bosses'
      PROVE  p \in Bosses \/ p >= pid_value
  <2>1. CASE p = b
    BY <1>1, <2>1
  <2>2. CASE p = me /\ p # b
    <3>1. prog[me].at \in BossAts
      BY <1>2, <2>2 DEF Bosses
    <3> QED BY <2>2, <3>1 DEF Bosses
  <2>3. CASE p # me /\ p # b
    BY <1>2, <2>3 DEF Bosses
  <2> QED BY <2>1, <2>2, <2>3
<1>4. ASSUME NEW c \in Workers', prog'[c].at # "open"
      PROVE  c \in Workers /\ prog[c].at # "open"
  <2>1. c # b
    BY <1>2, <1>4 DEF Workers
  <2>2. c # me
    BY <1>2, <1>4, <2>1 DEF Workers
  <2> QED BY <1>2, <1>4, <2>1, <2>2 DEF Workers
<1>5. pid_value' \in Nat /\ pid_value' >= pid_value
  BY <1>1
<1>6. OneSlot'
  BY <1>3, <1>4, <1>5, SlotStays
<1>7. InPids'
  BY <1>1 DEF TestInv, InPids, Born
<1> QED BY <1>6, <1>7 DEF TestInv

LEMMA RefusalKeeps ==
  ASSUME TestInv, CreateChildFails, Serial', UNCHANGED semVars,
         NEW me \in Pids, NEW new \in Prog, prog' = [prog EXCEPT ![me] = new],
         new.at \notin WorkerAts, new.at \in BossAts => prog[me].at \in BossAts
  PROVE  TestInv'
<1>1. IInv'
  BY NextIInv DEF Next, SystemCall, TestInv
<1>2. /\ process_list' = process_list /\ pid_value' = pid_value /\ pid_value \in Nat
  BY DEF CreateChildFails, procVars, TestInv, IInv, SoundTable
<1>3. prog'[me] = new /\ \A p \in Pids \ {me} : prog'[p] = prog[p]
  BY DEF TestInv, Serial, TestTypes
<1>4. \A p \in Bosses' : p \in Bosses
  BY <1>3 DEF Bosses
<1>5. \A c \in Workers' : prog'[c].at # "open" => c \in Workers /\ prog[c].at # "open"
  BY <1>3 DEF Workers
<1>6. OneSlot'
  BY <1>2, <1>4, <1>5, SlotStays
<1> QED BY <1>1, <1>2, <1>6 DEF TestInv, InPids

LEMMA RefusedWith ==
  ASSUME CreateChildFails
  PROVE  /\ Refusal \in FailureCodes
         /\ children_processes' = AddChild(children_processes, CurrentPid, Refusal)
         /\ process_list' = process_list
BY DEF CreateChildFails, Refusal, procVars, FailureCodes

LEMMA ShellRunsTestStep ==
  ASSUME RoomForTests, TestInv, ShellRunsTest
  PROVE  TestInv'
<1>1. /\ CurrentPid = ShellPid /\ prog[ShellPid].at = "prompt" /\ rqs' = <<>>
      /\ global' = global
  BY DEF ShellRunsTest, Me
<1>2. ShellPid \in Pids
  BY ShellStands DEF TestInv
<1>3. ASSUME NEW test \in {"sync", "create", "prio"}, Creates(At(test), At("wait"))
      PROVE  TestInv'
  <2>1. PICK priority \in Priorities : CreateChild(priority)
    BY <1>3 DEF Creates
  <2>2. Bosses = {}
    BY <1>1, CallerLives DEF TestInv, Serial, Returned
  <2>3. FreeEntries(children_processes) # {}
    BY <2>2, RoomLeft
  <2>4. IInv' /\ Born
    BY <2>1, <2>3, BirthFacts
  <2>5. PICK b : b = pid_value
    OBVIOUS
  <2>6. PICK child : child = At(test)
    OBVIOUS
  <2>7. PICK next : next = At("wait")
    OBVIOUS
  <2>8. /\ prog' = [prog EXCEPT ![ShellPid] = next, ![pid_value] = child]
        /\ UNCHANGED <<semVars, refused>>
    BY <1>1, <1>3, <2>6, <2>7 DEF Creates
  <2>9. /\ child \in Prog /\ child.at = test /\ child.i = 0
        /\ next \in Prog /\ next.at = "wait"
    <3>1. test \in BossAts /\ "wait" \in ShellAts
      BY DEF BossAts, SyncAts, CreateAts, PrioAts, ShellAts
    <3> QED BY <2>6, <2>7, <3>1, AtIs
  <2>10. Serial'
    BY <1>1, <2>4, <2>5, <2>8, <2>9, TestBorn
  <2>11. pid_value' = pid_value + 1
    BY <2>1 DEF CreateChild, Spawn
  <2>12. child.at \notin WorkerAts \ {"open"} /\ next.at \notin WorkerAts \cup BossAts
    BY <2>9, AtsApart DEF ShellAts, WorkerAts
  <2> QED BY <1>2, <2>4, <2>5, <2>8, <2>9, <2>10, <2>11, <2>12, BirthKeeps
<1>4. ASSUME IsRefused(At("prompt"))
      PROVE  TestInv'
  <2>1. PICK new : new = At("prompt")
    OBVIOUS
  <2>2. /\ refused < MaxRefused /\ CreateChildFails /\ refused' = refused + 1
        /\ prog' = [prog EXCEPT ![ShellPid] = new] /\ UNCHANGED semVars
    BY <1>1, <1>4, <2>1 DEF IsRefused
  <2>3. new \in Prog /\ new.at = "prompt"
    <3>1. "prompt" \in ShellAts
      BY DEF ShellAts
    <3> QED BY <2>1, <3>1, AtIs
  <2>4. PICK c \in FailureCodes :
          /\ children_processes' = AddChild(children_processes, CurrentPid, c)
          /\ process_list' = process_list
    BY <2>2, RefusedWith
  <2>5. PICK me : me = ShellPid
    OBVIOUS
  <2>6. global' \in Int
    BY <1>1 DEF TestInv, Serial, TestTypes
  <2>7. Serial'
    BY <1>1, <2>2, <2>3, <2>4, <2>5, <2>6, ChildRefused
  <2>8. new.at \notin WorkerAts \cup BossAts
    BY <2>3, AtsApart DEF ShellAts
  <2> QED BY <1>2, <2>2, <2>3, <2>7, <2>8, RefusalKeeps
<1> QED BY <1>3, <1>4 DEF ShellRunsTest

LEMMA SyncCreatesStep ==
  ASSUME RoomForTests, TestInv, SyncCreates
  PROVE  TestInv'
<1>1. PICK me : me = CurrentPid
  OBVIOUS
<1>2. PICK i : i = prog[me].i
  OBVIOUS
<1>3. PICK inc : inc = IF i % 2 = 0 THEN -1 ELSE 1
  OBVIOUS
<1>4. PICK new : new = [prog[me] EXCEPT !.i = i + 1]
  OBVIOUS
<1>5. PICK child : child = [At("open") EXCEPT !.inc = inc]
  OBVIOUS
<1>6. /\ prog[me].at = "sync" /\ i < 2 * TOTAL_PAIR_PROCESSES /\ rqs' = rqs
      /\ Creates(child, new) \/ IsRefused(new)
      /\ global' = IF i = 0 THEN 0 ELSE global
  BY <1>1, <1>2, <1>3, <1>4, <1>5 DEF SyncCreates, Me
<1>7. /\ me \in Pids /\ prog[me] \in Prog /\ me \in Bosses /\ Bosses = {me}
      /\ prog[me].at \in BossAts
  <2>1. "sync" \in BossAts
    BY DEF BossAts, SyncAts
  <2> QED BY <1>1, <1>6, <2>1, WhoAmI DEF Me, TestInv, Serial, Roles
<1>8. /\ i \in Nat /\ new \in Prog /\ new.at = "sync" /\ new.i = i + 1
  <2>1. i \in Nat
    BY <1>2, <1>7 DEF Prog
  <2>2. PICK j \in Nat : j = i + 1
    BY <2>1
  <2>3. new = [prog[me] EXCEPT !.i = j]
    BY <1>4, <2>2
  <2> QED BY <1>6, <1>7, <2>1, <2>2, <2>3 DEF Prog
<1>9. child \in Prog /\ child.at = "open"
  <2>1. inc \in {-1, 0, 1} /\ "open" \in WorkerAts
    BY <1>3 DEF WorkerAts
  <2> QED BY <1>5, <2>1 DEF At, Prog
<1>10. Created(new) > Created(prog[me]) /\ Created(prog[me]) < 2 * TOTAL_PAIR_PROCESSES
  BY <1>2, <1>6, <1>8 DEF Created
<1>11. InStep(new)'
  <2>1. rqs = <<>>
    BY <1>6, <1>7 DEF TestInv, Serial, Children, InStep, SyncAts
  <2> QED BY <1>6, <1>8, <2>1, TestsAssumption DEF InStep, SyncAts, CreateAts, PrioAts
<1>12. me \in Working /\ global' \in Int
  BY <1>6, <1>7 DEF Working, TestInv, Serial, TestTypes
<1>13. /\ new.at \notin WorkerAts /\ child.at \notin WorkerAts \ {"open"}
       /\ new.at \in BossAts \ {"print", "end", "close"}
  BY <1>8, <1>9 DEF WorkerAts, BossAts, SyncAts
<1>14. CASE Creates(child, new)
  <2>1. PICK priority \in Priorities : CreateChild(priority)
    BY <1>14 DEF Creates
  <2>2. FreeEntries(children_processes) # {}
    <3>1. \A p \in Bosses : p \in Working /\ Created(prog[p]) < 2 * TOTAL_PAIR_PROCESSES
      BY <1>7, <1>10, <1>12
    <3> QED BY <3>1, RoomLeft
  <2>3. IInv' /\ Born
    BY <2>1, <2>2, BirthFacts
  <2>4. PICK b : b = pid_value
    OBVIOUS
  <2>5. prog' = [prog EXCEPT ![me] = new, ![b] = child] /\ UNCHANGED <<semVars, refused>>
    BY <1>1, <1>14, <2>4 DEF Creates
  <2>6. Serial'
    BY <1>1, <1>6, <1>8, <1>9, <1>10, <1>11, <1>12, <1>13, <2>3, <2>4, <2>5, ChildBorn
  <2>7. pid_value' = pid_value + 1
    BY <2>1 DEF CreateChild, Spawn
  <2> QED BY <1>7, <1>8, <1>9, <1>13, <2>3, <2>4, <2>5, <2>6, <2>7, BirthKeeps
<1>15. CASE IsRefused(new)
  <2>1. /\ refused < MaxRefused /\ CreateChildFails /\ refused' = refused + 1
        /\ prog' = [prog EXCEPT ![me] = new] /\ UNCHANGED semVars
    BY <1>1, <1>15 DEF IsRefused
  <2>2. PICK c \in FailureCodes :
          /\ children_processes' = AddChild(children_processes, CurrentPid, c)
          /\ process_list' = process_list
    BY <2>1, RefusedWith
  <2>3. Serial'
    BY <1>1, <1>6, <1>7, <1>8, <1>10, <1>11, <1>12, <2>1, <2>2, ChildRefused
  <2> QED BY <1>7, <1>8, <1>13, <2>1, <2>3, RefusalKeeps
<1> QED BY <1>6, <1>14, <1>15

LEMMA NobodyIsProg == Nobody \in Prog /\ Nobody.at = "none"
BY AtIs DEF Nobody

LEMMA ProcessesCreatesStep ==
  ASSUME RoomForTests, TestInv, ProcessesCreates
  PROVE  TestInv'
<1>1. PICK me : me = CurrentPid
  OBVIOUS
<1>2. PICK i : i = prog[me].i
  OBVIOUS
<1>3. /\ prog[me].at = "create" /\ i < MAX_TEST_PROCESSES /\ global' = global
  BY <1>1, <1>2 DEF ProcessesCreates, Me
<1>4. prog[me].at \in CreateAts \cup PrioAts
  BY <1>3 DEF CreateAts
<1>5. /\ me \in Pids /\ prog[me] \in Prog /\ me \in Bosses /\ Bosses = {me}
      /\ me \in Working /\ rqs \in Seq(Request) /\ InStep(prog[me])
      /\ prog[me].at \in BossAts
  BY <1>1, <1>4, AskerIs DEF BossAts
<1>6. i \in Nat /\ Len(rqs) = i /\ global' \in Int /\ Created(prog[me]) = i
  BY <1>2, <1>3, <1>5 DEF InStep, Prog, TestInv, Serial, TestTypes, Created
<1>7. ASSUME NEW new, new = [prog[me] EXCEPT !.i = i + 1],
             Creates(Nobody, new), rqs' = Append(rqs, Rq(pid_value))
      PROVE  TestInv'
  <2>1. PICK priority \in Priorities : CreateChild(priority)
    BY <1>7 DEF Creates
  <2>2. FreeEntries(children_processes) # {}
    <3>1. \A p \in Bosses : p \in Working /\ Created(prog[p]) < MAX_TEST_PROCESSES
      BY <1>3, <1>5, <1>6
    <3> QED BY <3>1, RoomLeft
  <2>3. IInv' /\ Born
    BY <2>1, <2>2, BirthFacts
  <2>4. PICK b : b = pid_value
    OBVIOUS
  <2>5. PICK child \in Prog : child = Nobody /\ child.at = "none"
    BY NobodyIsProg
  <2>6. prog' = [prog EXCEPT ![me] = new, ![b] = child] /\ UNCHANGED <<semVars, refused>>
    BY <1>1, <1>7, <2>4, <2>5 DEF Creates
  <2>7. new \in Prog /\ new.at = "create" /\ new.i = i + 1
    <3>1. PICK j \in Nat : j = i + 1
      BY <1>6
    <3>2. new = [prog[me] EXCEPT !.i = j]
      BY <1>7, <3>1
    <3> QED BY <1>3, <1>5, <3>1, <3>2 DEF Prog
  <2>8. Created(new) > Created(prog[me])
    BY <1>6, <2>7 DEF Created
  <2>9. rqs' = Append(rqs, Rq(b)) /\ Len(rqs') = i + 1
    BY <1>5, <1>6, <1>7, <2>4
  <2>14. \A k \in DOMAIN rqs' : rqs'[k].pid \notin FailureCodes
    <3>1. Rq(b).pid \notin FailureCodes
      BY <2>3, <2>4 DEF Rq, Born, Pids, FailureCodes, NO_SPACE_FOR_PROCESS, PROCESSES_LIMIT_REACHED
    <3>2. \A k \in DOMAIN rqs : rqs[k].pid \notin FailureCodes
      BY <1>3, <1>5 DEF InStep, CreateAts, IsCode
    <3>3. PICK r : r = Rq(b) /\ r.pid \notin FailureCodes
      BY <3>1
    <3> QED BY <1>5, <2>9, <3>2, <3>3
  <2>10. InStep(new)'
    BY <1>3, <1>6, <2>7, <2>9, <2>14, TestsAssumption DEF InStep, SyncAts, PrioAts, IsCode
  <2>11. /\ new.at \notin WorkerAts /\ child.at \notin WorkerAts \ {"open"}
         /\ new.at \in BossAts \ {"print", "end", "close"}
         /\ new.at \in CreateAts \cup PrioAts
    BY <2>5, <2>7 DEF WorkerAts, BossAts, CreateAts
  <2>12. Serial'
    BY <1>1, <1>4, <1>5, <1>6, <2>3, <2>4, <2>5, <2>6, <2>7, <2>8, <2>9, <2>10, <2>11, ChildBorn
  <2>13. pid_value' = pid_value + 1
    BY <2>1 DEF CreateChild, Spawn
  <2> QED BY <1>5, <2>3, <2>4, <2>5, <2>6, <2>7, <2>11, <2>12, <2>13, BirthKeeps
<1>8. ASSUME NEW new, new = At("end"), IsRefused(new), rqs' = rqs
      PROVE  TestInv'
  <2>1. /\ refused < MaxRefused /\ CreateChildFails /\ refused' = refused + 1
        /\ prog' = [prog EXCEPT ![me] = new] /\ UNCHANGED semVars
    BY <1>1, <1>8 DEF IsRefused
  <2>2. PICK c \in FailureCodes :
          /\ children_processes' = AddChild(children_processes, CurrentPid, c)
          /\ process_list' = process_list
    BY <2>1, RefusedWith
  <2>3. new \in Prog /\ new.at = "end" /\ new.at \notin WorkerAts
    <3>1. "end" \in BossAts
      BY DEF BossAts
    <3> QED BY <1>8, <3>1, AtIs, AtsApart
  <2>4. Serial'
    BY <1>1, <1>2, <1>3, <1>5, <1>6, <1>8, <2>1, <2>2, <2>3, ChildRefused
  <2> QED BY <1>5, <2>1, <2>3, <2>4, RefusalKeeps
<1>9. \/ \E new : /\ new = [prog[me] EXCEPT !.i = i + 1] /\ Creates(Nobody, new)
                  /\ rqs' = Append(rqs, Rq(pid_value))
      \/ \E new : new = At("end") /\ IsRefused(new) /\ rqs' = rqs
  <2>1. PICK new : new = [prog[me] EXCEPT !.i = i + 1]
    OBVIOUS
  <2>2. PICK other : other = At("end")
    OBVIOUS
  <2> QED BY <1>1, <1>2, <2>1, <2>2 DEF ProcessesCreates, Me
<1> QED BY <1>7, <1>8, <1>9

(* testprio notes down what the creation returned, be it a pid or not.     *)
LEMMA PrioStarts ==
  ASSUME TestInv, NEW me, me = CurrentPid, prog[me].at = "prio",
         NEW new, new = Onward(prog[me], "change"), NEW r \in Request, r.state = "RUNNING",
         rqs' = Append(rqs, r)
  PROVE  /\ me \in Pids /\ prog[me] \in Prog /\ me \in Bosses /\ Bosses = {me}
         /\ me \in Working /\ prog[me].at \in BossAts
         /\ new \in Prog /\ new.at \in {"prio", "change"} /\ InStep(new)'
         /\ Created(new) > Created(prog[me]) /\ Created(prog[me]) = prog[me].i
         /\ prog[me].i \in 0 .. 2 /\ global \in Int
<1> DEFINE i == prog[me].i
<1>5. prog[me].at \in CreateAts \cup PrioAts
  BY DEF PrioAts
<1>6. /\ me \in Pids /\ prog[me] \in Prog /\ me \in Bosses /\ Bosses = {me}
      /\ me \in Working /\ rqs \in Seq(Request) /\ InStep(prog[me])
      /\ prog[me].at \in BossAts
  BY <1>5, AskerIs DEF BossAts
<1>7. /\ i \in 0 .. 2 /\ Len(rqs) = i /\ global \in Int /\ Created(prog[me]) = i
      /\ \A k \in DOMAIN rqs : rqs[k].state = "RUNNING"
  BY <1>6 DEF InStep, Prog, TestInv, Serial, TestTypes, Created, PrioAts, Expected
<1>13. /\ new \in Prog /\ new.at \in {"prio", "change"} /\ new.i <= 2
       /\ new.at = "prio" => new.i = i + 1
       /\ new.at = "change" => i = 2
       /\ new.i \in Nat
  <2>1. "change" \in PrioAts \cup {"end"}
    BY DEF PrioAts
  <2>2. /\ new \in Prog
        /\ i < 2 => new.at = "prio" /\ new.i = i + 1
        /\ ~(i < 2) => new.at = "change" /\ new.i = 0
    BY <1>6, <2>1, OnwardIs
  <2> QED BY <1>7, <2>2
<1> HIDE DEF i
<1>15. Created(new) > Created(prog[me])
  BY <1>7, <1>13 DEF Created, CreateAts
<1>16. Len(rqs') = i + 1 /\ \A k \in DOMAIN rqs' : rqs'[k].state = "RUNNING"
  BY <1>6, <1>7
<1>17. InStep(new)'
  <2>1. new.at \in PrioAts /\ new.at \notin SyncAts /\ new.at \notin CreateAts
    BY <1>13 DEF PrioAts, SyncAts, CreateAts
  <2>2. \A k : Expected(new.at, new.i, k) = "RUNNING"
    BY <1>13 DEF Expected
  <2> QED BY <1>13, <1>16, <2>1, <2>2 DEF InStep, CreateAts, SyncAts
<1> QED BY <1>6, <1>7, <1>13, <1>15, <1>17 DEF i

LEMMA PrioCreatesStep ==
  ASSUME RoomForTests, TestInv, PrioCreates
  PROVE  TestInv'
<1>1. PICK me : me = CurrentPid
  OBVIOUS
<1>2. PICK i : i = prog[me].i
  OBVIOUS
<1>3. PICK new : new = Onward(prog[me], "change")
  OBVIOUS
<1>4. prog[me].at = "prio" /\ global' = global
  BY <1>1 DEF PrioCreates, Me
<1>5. prog[me].at \in CreateAts \cup PrioAts
  BY <1>4 DEF PrioAts
<1>6. ASSUME CreateChild(<<LOWEST, MEDIUM, HIGHEST>>[i + 1]), rqs' = Append(rqs, Rq(pid_value)),
             prog' = [prog EXCEPT ![me] = new], UNCHANGED semVars, refused' = refused
      PROVE  TestInv'
  <2>1. PICK b : b = pid_value
    OBVIOUS
  <2>2. PICK r : r = Rq(b) /\ r.state = "RUNNING"
    <3>1. Rq(b).state = "RUNNING"
      BY DEF Rq
    <3> QED BY <3>1
  <2>3. r \in Request
    BY <2>1, <2>2 DEF Rq, Request, TestInv, IInv, SoundTable
  <2>4. /\ me \in Pids /\ prog[me] \in Prog /\ me \in Bosses /\ Bosses = {me}
        /\ me \in Working /\ prog[me].at \in BossAts
        /\ new \in Prog /\ new.at \in {"prio", "change"} /\ InStep(new)'
        /\ Created(new) > Created(prog[me]) /\ Created(prog[me]) = i
        /\ i \in 0 .. 2 /\ global \in Int
    <3>1. rqs' = Append(rqs, r)
      BY <1>6, <2>1, <2>2
    <3> QED BY <1>1, <1>2, <1>3, <1>4, <2>2, <2>3, <3>1, PrioStarts
  <2>5. PICK priority \in 1 .. MAX_PRIORITY : CreateChild(priority)
    <3>1. PICK priority : priority = <<LOWEST, MEDIUM, HIGHEST>>[i + 1]
      OBVIOUS
    <3>2. priority \in 1 .. MAX_PRIORITY
      BY <2>4, <3>1, TestsAssumption, SizesAssumption DEF LOWEST, MEDIUM, HIGHEST
    <3> QED BY <1>6, <3>1, <3>2
  <2>6. FreeEntries(children_processes) # {}
    <3>1. \A p \in Bosses : p \in Working /\ Created(prog[p]) < 3
      BY <2>4
    <3> QED BY <3>1, RoomLeft
  <2>7. IInv' /\ Born
    BY <2>5, <2>6, BirthFacts
  <2>8. PICK child \in Prog : child = prog[b] /\ child.at = "none"
    <3>1. b \in Pids /\ prog[b].at = "none"
      BY <2>1, <2>7 DEF Born
    <3> QED BY <3>1 DEF TestInv, Serial, TestTypes
  <2>9. prog' = [prog EXCEPT ![me] = new, ![b] = child]
    <3>1. b # me /\ b \in Pids
      BY <1>1, <2>1, <2>7 DEF Born
    <3>2. prog \in [Pids -> Prog]
      BY DEF TestInv, Serial, TestTypes
    <3> QED BY <1>6, <2>8, <3>1, <3>2
  <2>10. /\ new.at \notin WorkerAts /\ child.at \notin WorkerAts \ {"open"}
         /\ new.at \in BossAts \ {"print", "end", "close"}
         /\ new.at \in CreateAts \cup PrioAts
    BY <2>4, <2>8 DEF WorkerAts, BossAts, PrioAts
  <2>11. rqs' = Append(rqs, Rq(b)) /\ refused' = refused /\ global' \in Int
    BY <1>4, <1>6, <2>1, <2>4
  <2>12. Serial'
    BY <1>1, <1>5, <2>1, <2>4, <2>7, <2>8, <2>9, <2>10, <2>11, ChildBorn
  <2>13. pid_value' = pid_value + 1
    BY <2>5 DEF CreateChild, Spawn
  <2>14. /\ Born /\ IInv' /\ Serial' /\ UNCHANGED semVars /\ b = pid_value
         /\ me \in Pids /\ new \in Prog /\ child \in Prog
         /\ prog' = [prog EXCEPT ![me] = new, ![b] = child]
    BY <1>6, <2>1, <2>4, <2>7, <2>8, <2>9, <2>12
  <2>15. new.at \in BossAts => prog[me].at \in BossAts
    BY <2>4
  <2> QED BY <2>10, <2>13, <2>14, <2>15, BirthKeeps
<1>7. ASSUME IsRefused(new), rqs' = Append(rqs, Rq(Refusal))
      PROVE  TestInv'
  <2>1. /\ refused < MaxRefused /\ CreateChildFails /\ refused' = refused + 1
        /\ prog' = [prog EXCEPT ![me] = new] /\ UNCHANGED semVars
    BY <1>1, <1>7 DEF IsRefused
  <2>2. PICK c \in FailureCodes :
          /\ c = Refusal
          /\ children_processes' = AddChild(children_processes, CurrentPid, c)
          /\ process_list' = process_list
    BY <2>1, RefusedWith
  <2>3. PICK r : r = Rq(c) /\ r.state = "RUNNING" /\ r.pid = c
    <3>1. Rq(c).state = "RUNNING" /\ Rq(c).pid = c
      BY DEF Rq
    <3> QED BY <3>1
  <2>4. r \in Request
    BY <2>3 DEF Rq, Request
  <2>5. rqs' = Append(rqs, r)
    BY <1>7, <2>2, <2>3
  <2>6. /\ me \in Pids /\ prog[me] \in Prog /\ me \in Bosses
        /\ prog[me].at \in BossAts
        /\ new \in Prog /\ new.at \in {"prio", "change"} /\ InStep(new)'
        /\ Created(new) > Created(prog[me]) /\ global \in Int
    BY <1>1, <1>3, <1>4, <2>3, <2>4, <2>5, PrioStarts
  <2>7. RequestsKept
    <3>1. rqs \in Seq(Request)
      BY DEF TestInv, Serial, TestTypes
    <3>2. /\ rqs' \in Seq(Request) /\ DOMAIN rqs' = DOMAIN rqs \cup {Len(rqs) + 1}
          /\ rqs'[Len(rqs) + 1] = r /\ \A k \in DOMAIN rqs : rqs'[k] = rqs[k]
      BY <2>4, <2>5, <3>1
    <3>3. Alive' = Alive /\ Alive \subseteq DOMAIN rqs
      BY <2>2, <2>3, <3>2 DEF Alive, IsCode
    <3> QED BY <3>2, <3>3 DEF RequestsKept
  <2>8. global' \in Int
    BY <1>4, <2>6
  <2>9. Serial'
    BY <1>1, <1>4, <2>1, <2>2, <2>6, <2>7, <2>8, ChildRefused
  <2>10. new.at \notin WorkerAts
    BY <2>6 DEF WorkerAts
  <2> QED BY <2>1, <2>6, <2>9, <2>10, RefusalKeeps
<1>8. NextChild("change") = new
  BY <1>1, <1>3 DEF NextChild, Onward, Me
<1> QED BY <1>1, <1>2, <1>6, <1>7, <1>8 DEF PrioCreates, Me

-----------------------------------------------------------------------------
(* testsync and its children at the semaphore.                             *)
LEMMA WorkerIs ==
  ASSUME TestInv, NEW me, me = CurrentPid, prog[me].at \in WorkerAts
  PROVE  /\ me \in Pids /\ prog[me] \in Prog /\ me \in Workers /\ me \notin Bosses
         /\ me # ShellPid /\ me # idle_pid /\ Alive = {} /\ Requested = {}
         /\ me < pid_value
<1>1. me \in Pids /\ prog[me] \in Prog /\ me \in Workers /\ me # idle_pid
  BY WhoAmI DEF Me
<1>2. me \notin Bosses /\ me # ShellPid
  BY <1>1, ShellStands, AtsApart DEF Bosses, TestInv
<1>3. PICK p \in Bosses : prog[p].at \in {"sync", "close"}
  BY <1>1 DEF TestInv, Serial, Families
<1>4. rqs = <<>>
  BY <1>3 DEF TestInv, Serial, Children, InStep, SyncAts
<1>5. Alive = {} /\ Requested = {}
  BY <1>4 DEF Alive, Requested
<1>6. me < pid_value
  BY CallerLives DEF TestInv
<1> QED BY <1>1, <1>2, <1>5, <1>6

LEMMA WorkerStep ==
  ASSUME TestInv, IInv', SemTypeOK', NEW me, me = CurrentPid, prog[me].at \in WorkerAts,
         NEW new \in Prog, new.at \in WorkerAts, prog' = [prog EXCEPT ![me] = new],
         rqs' = rqs, refused' = refused, global' \in Int,
         children_processes' = children_processes, pid_value' = pid_value,
         LivePids(process_list') = LivePids(process_list),
         \A p \in Bosses \cup {ShellPid} :
           \A s : Is(process_list', p, s) <=> Is(process_list, p, s),
         \A i \in SemSlots : semaphores'[i].sem_id # EMPTY_SEM =>
           i = 0 /\ semaphores'[i].sem_id = SEM_ID,
         IsOpen(SEM_ID)', buffer' = "live",
         \A k \in DOMAIN waiters' : \/ waiters'[k] = me
                                    \/ \E j \in DOMAIN waiters : waiters'[k] = waiters[j]
  PROVE  TestInv'
<1>1. /\ me \in Pids /\ prog[me] \in Prog /\ me \in Workers /\ me \notin Bosses
      /\ me # ShellPid /\ me # idle_pid /\ Requested = {} /\ me < pid_value
  BY WorkerIs
<1>2. Serial'
  BY <1>1, SteadyStep
<1>3. Bosses' = Bosses
  <2>1. prog'[me] = new /\ \A p \in Pids \ {me} : prog'[p] = prog[p]
    BY <1>1 DEF TestInv, Serial, TestTypes
  <2> QED BY <1>1, <2>1, AtsApart DEF Bosses
<1>4. \A k \in DOMAIN waiters' : /\ waiters'[k] < pid_value'
                                 /\ waiters'[k] \notin Bosses' \cup {ShellPid, idle_pid}
  <2> TAKE k \in DOMAIN waiters'
  <2>1. CASE waiters'[k] = me
    BY <1>1, <1>3, <2>1
  <2>2. ASSUME NEW j \in DOMAIN waiters, waiters'[k] = waiters[j]
        PROVE  /\ waiters'[k] < pid_value'
               /\ waiters'[k] \notin Bosses' \cup {ShellPid, idle_pid}
    BY <1>3, <2>2 DEF TestInv, OneSlot
  <2> QED BY <2>1, <2>2
<1>5. OneSlot'
  BY <1>4 DEF OneSlot
<1> QED BY <1>2, <1>5 DEF TestInv, InPids

(* A worker that has opened the semaphore finds it in slot 0.              *)
LEMMA OpenIs ==
  ASSUME TestInv, NEW me \in Workers, prog[me].at # "open"
  PROVE  /\ IsOpen(SEM_ID) /\ buffer = "live" /\ FindSem(SEM_ID) = 0
         /\ 0 \in SemSlots /\ semaphores[0].sem_id = SEM_ID
<1>1. IsOpen(SEM_ID) /\ buffer = "live"
  BY DEF TestInv, OneSlot
<1>2. SEM_ID # EMPTY_SEM
  BY DEF SEM_ID, EMPTY_SEM
<1>3. Holding(SEM_ID) = {0} /\ 0 \in SemSlots
  BY <1>1, <1>2 DEF TestInv, OneSlot, IsOpen, Holding
<1>4. Least({0}) = 0
  BY LeastIn, {0} \in SUBSET Nat
<1> QED BY <1>1, <1>3, <1>4 DEF FindSem, Holding

(* The slots after a change of a value keep their ids.                     *)
LEMMA IdsStay ==
  ASSUME TestInv, NEW s, NEW v, s = [semaphores EXCEPT ![0].sem_val = v],
         IsOpen(SEM_ID), semaphores' \in {s, semaphores}
  PROVE  /\ IsOpen(SEM_ID)'
         /\ \A i \in SemSlots : semaphores'[i].sem_id # EMPTY_SEM =>
              i = 0 /\ semaphores'[i].sem_id = SEM_ID
<1>1. semaphores \in [SemSlots -> SemInfo]
  BY DEF TestInv, OneSlot, SemTypeOK
<1>2. \A i \in SemSlots : semaphores'[i].sem_id = semaphores[i].sem_id
  BY <1>1 DEF SemInfo
<1>3. Holding(SEM_ID)' = Holding(SEM_ID)
  BY <1>2 DEF Holding
<1> QED BY <1>2, <1>3 DEF TestInv, OneSlot, IsOpen

LEMMA ChildOpensStep ==
  ASSUME TestInv, ChildOpens
  PROVE  TestInv'
<1>1. PICK me : me = CurrentPid
  OBVIOUS
<1>2. PICK new : new = [prog[me] EXCEPT !.at = "mutex"]
  OBVIOUS
<1>3. /\ prog[me].at = "open" /\ prog' = [prog EXCEPT ![me] = new]
      /\ OpenSem(SEM_ID, 1) \/ (SeenByScan(SEM_ID) # {} /\ UNCHANGED allVars)
      /\ UNCHANGED <<global, rqs, refused>>
  BY <1>1, <1>2 DEF ChildOpens, GoTo, Me
<1>4. prog[me].at \in WorkerAts /\ "mutex" \in WorkerAts
  BY <1>3 DEF WorkerAts
<1>5. new \in Prog /\ new.at = "mutex"
  BY <1>1, <1>2, <1>4, WorkerIs DEF Prog
<1>6. SEM_ID \in SemIds /\ 1 \in InitVals
  BY TestsAssumption
<1>7. [SemNext]_allVars /\ UNCHANGED vars
  BY <1>3, <1>6 DEF SemNext, SemCall, OpenSem, StartSem, allVars
<1>8. IInv' /\ SemTypeOK'
  BY <1>7, SemNextIInv, SemNextTypeOK DEF TestInv, OneSlot
<1>9. /\ process_list' = process_list /\ children_processes' = children_processes
      /\ pid_value' = pid_value /\ global' \in Int
  BY <1>3, <1>7 DEF vars, TestInv, Serial, TestTypes
<1>10. CASE UNCHANGED semVars /\ SeenByScan(SEM_ID) # {}
  <2>1. IsOpen(SEM_ID) /\ IsOpen(SEM_ID)' /\ waiters' = waiters
        /\ semaphores' = semaphores /\ buffer' = buffer
    BY <1>10 DEF semVars, SeenByScan, IsOpen, Holding
  <2>2. /\ \A i \in SemSlots : semaphores'[i].sem_id # EMPTY_SEM =>
             i = 0 /\ semaphores'[i].sem_id = SEM_ID
        /\ buffer' = "live"
    BY <2>1 DEF TestInv, OneSlot
  <2>3. \A k \in DOMAIN waiters' : \E j \in DOMAIN waiters : waiters'[k] = waiters[j]
    BY <2>1
  <2> QED BY <1>1, <1>3, <1>4, <1>5, <1>8, <1>9, <2>1, <2>2, <2>3, WorkerStep
<1>11. CASE OpenSem(SEM_ID, 1)
  <2>1. /\ SeenByScan(SEM_ID) = {} /\ Unused # {}
        /\ semaphores' = [semaphores EXCEPT ![Least(Unused)] = [sem_id |-> SEM_ID, sem_val |-> 1]]
        /\ waiters' = <<>> /\ buffer' = "live"
    BY <1>11 DEF OpenSem, StartSem
  <2>2. Unused \in SUBSET SemSlots /\ SemSlots \in SUBSET Nat
    BY DEF Unused, SemSlots
  <2>3. 0 \in Unused
    <3>1. 0 \in SemSlots
      <4>1. PICK j \in SemSlots : j \in Unused
        BY <2>1, <2>2
      <4> QED BY <4>1, SemaphoresAssumption DEF SemSlots
    <3>2. SUFFICES ASSUME 0 \notin Unused PROVE FALSE
      OBVIOUS
    <3>3. semaphores[0].sem_id = SEM_ID
      BY <3>1, <3>2 DEF Unused, TestInv, OneSlot
    <3>4. \A j \in Unused : 0 < j
      BY <2>2, <3>2
    <3> QED BY <2>1, <3>1, <3>3, <3>4 DEF SeenByScan, Holding
  <2>4. Least(Unused) = 0
    <3>1. Unused \in SUBSET Nat /\ Unused # {}
      BY <2>2, <2>3
    <3>2. Least(Unused) \in Unused /\ \A j \in Unused : Least(Unused) <= j
      BY <3>1, LeastIn
    <3>3. Least(Unused) \in Nat /\ Least(Unused) <= 0
      BY <2>3, <3>1, <3>2
    <3> QED BY <3>3
  <2>5. semaphores \in [SemSlots -> SemInfo] /\ 0 \in SemSlots
    BY <2>2, <2>3 DEF TestInv, OneSlot, SemTypeOK
  <2>6. /\ semaphores'[0].sem_id = SEM_ID
        /\ \A i \in SemSlots \ {0} : semaphores'[i] = semaphores[i]
    BY <2>1, <2>4, <2>5
  <2>7. IsOpen(SEM_ID)'
    BY <2>5, <2>6 DEF IsOpen, Holding
  <2>8. \A i \in SemSlots : semaphores'[i].sem_id # EMPTY_SEM =>
          i = 0 /\ semaphores'[i].sem_id = SEM_ID
    BY <2>6 DEF TestInv, OneSlot
  <2>9. DOMAIN waiters' = {}
    BY <2>1
  <2> QED BY <1>1, <1>3, <1>4, <1>5, <1>8, <1>9, <2>1, <2>7, <2>8, <2>9, WorkerStep
<1> QED BY <1>3, <1>10, <1>11 DEF allVars

LEMMA ChildWaitsStep ==
  ASSUME TestInv, ChildWaits
  PROVE  TestInv'
<1>1. PICK me : me = CurrentPid
  OBVIOUS
<1>2. PICK new : new = [prog[me] EXCEPT !.at = "inside"]
  OBVIOUS
<1>3. /\ prog[me].at = "mutex" /\ prog' = [prog EXCEPT ![me] = new]
      /\ WaitSem(SEM_ID) /\ UNCHANGED <<global, rqs, refused>>
  BY <1>1, <1>2 DEF ChildWaits, GoTo, Me
<1>4. prog[me].at \in WorkerAts /\ "inside" \in WorkerAts
  BY <1>3 DEF WorkerAts
<1>5. /\ me \in Workers /\ me \notin Bosses \cup {ShellPid} /\ me # idle_pid
      /\ new \in Prog /\ new.at = "inside"
  BY <1>1, <1>2, <1>4, WorkerIs DEF Prog
<1>6. /\ IsOpen(SEM_ID) /\ buffer = "live" /\ FindSem(SEM_ID) = 0
  BY <1>3, <1>5, OpenIs
<1>7. [SemNext]_allVars
  BY <1>3, TestsAssumption DEF SemNext, SemCall
<1>8. IInv' /\ SemTypeOK'
  BY <1>7, SemNextIInv, SemNextTypeOK DEF TestInv, OneSlot
<1>9. PICK v : v = semaphores[0].sem_val - 1
  OBVIOUS
<1>10. PICK s : s = [semaphores EXCEPT ![0].sem_val = v]
  OBVIOUS
<1>11. semaphores' \in {s, semaphores} /\ buffer' = "live"
  BY <1>3, <1>6, <1>9, <1>10 DEF WaitSem
<1>12. /\ IsOpen(SEM_ID)'
       /\ \A i \in SemSlots : semaphores'[i].sem_id # EMPTY_SEM =>
            i = 0 /\ semaphores'[i].sem_id = SEM_ID
  BY <1>6, <1>10, <1>11, IdsStay
<1>13. \A k \in DOMAIN waiters' : \/ waiters'[k] = me
                                  \/ \E j \in DOMAIN waiters : waiters'[k] = waiters[j]
  <2>1. waiters \in Seq(Nat) /\ me \in Nat
    BY <1>5 DEF TestInv, OneSlot, SemTypeOK, Workers, Pids
  <2>2. waiters' = waiters \/ waiters' = Append(waiters, me)
    BY <1>1, <1>3 DEF WaitSem, Enqueue
  <2> QED BY <2>1, <2>2
<1>14. /\ children_processes' = children_processes /\ pid_value' = pid_value
       /\ LivePids(process_list') = LivePids(process_list)
       /\ \A p \in Bosses \cup {ShellPid} :
            \A t : Is(process_list', p, t) <=> Is(process_list, p, t)
  <2>1. CASE UNCHANGED vars
    BY <2>1 DEF vars
  <2>2. CASE /\ ForceTimerTick(ChangeProcessState(process_list, CurrentPid, PAUSED_BY_SEM),
                               dim, 0)
             /\ UNCHANGED <<dim, pid_value, children_processes>>
    <3>1. PAUSED_BY_SEM \in States \ {DEAD} /\ 0 \in Nat
      BY DEF States, PAUSED_BY_SEM, DEAD
    <3>2. /\ LivePids(process_list') = LivePids(process_list)
          /\ \A p, t : p # idle_pid =>
               (Is(process_list', p, t) <=>
                  IF p = CurrentPid THEN t = PAUSED_BY_SEM ELSE Is(process_list, p, t))
      BY <2>2, <3>1, SleepView DEF TestInv
    <3>3. \A p \in Bosses \cup {ShellPid} : p # me /\ p # idle_pid
      BY <1>5 DEF TestInv, Serial, Roles, ShellPid, idle_pid
    <3> QED BY <1>1, <2>2, <3>2, <3>3
  <2> QED BY <1>3, <2>1, <2>2 DEF WaitSem
<1>15. rqs' = rqs /\ refused' = refused /\ global' \in Int
  BY <1>3 DEF TestInv, Serial, TestTypes
<1> QED BY <1>1, <1>3, <1>4, <1>5, <1>8, <1>11, <1>12, <1>13, <1>14, <1>15, WorkerStep

LEMMA SlowIncReadsStep ==
  ASSUME TestInv, SlowIncReads
  PROVE  TestInv'
<1>1. PICK me : me = CurrentPid
  OBVIOUS
<1>2. PICK new : new = [prog[me] EXCEPT !.at = "inc", !.aux = global]
  OBVIOUS
<1>3. /\ prog[me].at = "inside" /\ Yield /\ prog' = [prog EXCEPT ![me] = new]
      /\ UNCHANGED semVars /\ UNCHANGED <<global, rqs, refused>>
  BY <1>1, <1>2 DEF SlowIncReads, Me
<1>4. prog[me].at \in WorkerAts /\ "inc" \in WorkerAts
  BY <1>3 DEF WorkerAts
<1>5. /\ me \in Pids /\ me \in Workers /\ me \notin Bosses /\ me # ShellPid
      /\ prog[me] \in Prog /\ global \in Int
  BY <1>1, <1>4, WorkerIs DEF TestInv, Serial, TestTypes
<1>6. new \in Prog /\ new.at = "inc"
  BY <1>2, <1>4, <1>5 DEF Prog
<1>7. Quiet(me) /\ IInv'
  BY <1>3, TicksAreQuiet, NextIInv DEF Next, SystemCall, TestInv
<1> QED BY <1>3, <1>4, <1>5, <1>6, <1>7, SteadyInv

LEMMA SlowIncWritesStep ==
  ASSUME TestInv, SlowIncWrites
  PROVE  TestInv'
<1>1. PICK me : me = CurrentPid
  OBVIOUS
<1>2. PICK new : new = [prog[me] EXCEPT !.at = "post"]
  OBVIOUS
<1>3. /\ prog[me].at = "inc" /\ prog' = [prog EXCEPT ![me] = new]
      /\ global' = prog[me].aux + prog[me].inc
      /\ UNCHANGED vars /\ UNCHANGED semVars /\ rqs' = rqs /\ refused' = refused
  BY <1>1, <1>2 DEF SlowIncWrites, GoTo, Me, allVars
<1>4. prog[me].at \in WorkerAts /\ "post" \in WorkerAts
  BY <1>3 DEF WorkerAts
<1>5. /\ me \in Pids /\ me \in Workers /\ me \notin Bosses /\ me # ShellPid
      /\ prog[me] \in Prog
  BY <1>1, <1>4, WorkerIs
<1>6. new \in Prog /\ new.at = "post" /\ global' \in Int
  BY <1>2, <1>3, <1>4, <1>5 DEF Prog
<1>7. Quiet(me) /\ IInv'
  BY <1>3, StillIsQuiet, NextIInv DEF TestInv
<1> QED BY <1>3, <1>4, <1>5, <1>6, <1>7, SteadyInv

LEMMA ChildPostsStep ==
  ASSUME TestInv, ChildPosts
  PROVE  TestInv'
<1>1. PICK me : me = CurrentPid
  OBVIOUS
<1>2. PICK new : new = [prog[me] EXCEPT !.at = "mutex", !.i = prog[me].i + 1]
  OBVIOUS
<1>3. /\ prog[me].at = "post" /\ prog' = [prog EXCEPT ![me] = new]
      /\ PostSem(SEM_ID) /\ UNCHANGED <<global, rqs, refused>>
  BY <1>1, <1>2 DEF ChildPosts, NextI, Me
<1>4. prog[me].at \in WorkerAts /\ "mutex" \in WorkerAts
  BY <1>3 DEF WorkerAts
<1>5. me \in Workers /\ prog[me] \in Prog
  BY <1>1, <1>4, WorkerIs
<1>6. new \in Prog /\ new.at = "mutex"
  <2>1. PICK j \in Nat : j = prog[me].i + 1
    BY <1>5 DEF Prog
  <2>2. new = [prog[me] EXCEPT !.at = "mutex", !.i = j]
    BY <1>2, <2>1
  <2> QED BY <1>4, <1>5, <2>1, <2>2 DEF Prog
<1>7. /\ IsOpen(SEM_ID) /\ buffer = "live" /\ FindSem(SEM_ID) = 0
  BY <1>3, <1>5, OpenIs
<1>8. [SemNext]_allVars
  BY <1>3, TestsAssumption DEF SemNext, SemCall
<1>9. IInv' /\ SemTypeOK'
  BY <1>8, SemNextIInv, SemNextTypeOK DEF TestInv, OneSlot
<1>10. PICK v : v = semaphores[0].sem_val + 1
  OBVIOUS
<1>11. PICK s : s = [semaphores EXCEPT ![0].sem_val = v]
  OBVIOUS
<1>12. semaphores' \in {s, semaphores} /\ buffer' = "live"
  BY <1>3, <1>7, <1>10, <1>11 DEF PostSem
<1>13. /\ IsOpen(SEM_ID)'
       /\ \A i \in SemSlots : semaphores'[i].sem_id # EMPTY_SEM =>
            i = 0 /\ semaphores'[i].sem_id = SEM_ID
  BY <1>7, <1>11, <1>12, IdsStay
<1>14. \A k \in DOMAIN waiters' : \E j \in DOMAIN waiters : waiters'[k] = waiters[j]
  <2>1. waiters \in Seq(Nat)
    BY DEF TestInv, OneSlot, SemTypeOK
  <2>2. waiters' = waiters \/ (waiters # <<>> /\ waiters' = Tail(waiters))
    BY <1>3 DEF PostSem
  <2>3. CASE waiters # <<>> /\ waiters' = Tail(waiters)
    <3>1. \A k \in DOMAIN waiters' : k + 1 \in DOMAIN waiters /\ waiters'[k] = waiters[k + 1]
      BY <2>1, <2>3
    <3> QED BY <3>1
  <2> QED BY <2>2, <2>3
<1>15. /\ children_processes' = children_processes /\ pid_value' = pid_value
       /\ LivePids(process_list') = LivePids(process_list)
       /\ \A p \in Bosses \cup {ShellPid} :
            \A t : Is(process_list', p, t) <=> Is(process_list, p, t)
  <2>1. CASE UNCHANGED vars
    BY <2>1 DEF vars
  <2>2. ASSUME waiters # <<>>, NEW pid \in Dequeued,
               process_list' = ChangeProcessState(process_list, pid, READY),
               UNCHANGED <<dim, current_process_idx, remaining_ticks, pid_value,
                           children_processes>>
        PROVE  /\ LivePids(process_list') = LivePids(process_list)
               /\ \A p \in Bosses \cup {ShellPid} :
                    \A t : Is(process_list', p, t) <=> Is(process_list, p, t)
    <3>1. pid \notin Bosses \cup {ShellPid}
      <4>1. pid = waiters[1] /\ 1 \in DOMAIN waiters
        <5>1. waiters \in Seq(Nat) /\ pid = Head(waiters)
          BY <1>7, <2>2 DEF TestInv, OneSlot, SemTypeOK, Dequeued
        <5> QED BY <2>2, <5>1
      <4> QED BY <4>1 DEF TestInv, OneSlot
    <3>2. CASE pid \notin LivePids(process_list)
      BY <2>2, <3>2 DEF ChangeProcessState
    <3>3. CASE pid \in LivePids(process_list)
      <4>1. SoundTable(process_list, dim, pid_value) /\ READY \in States \ {DEAD}
        BY DEF TestInv, IInv, States, READY, DEAD
      <4>2. /\ LivePids(process_list') = LivePids(process_list)
            /\ \A p, t : Is(process_list', p, t) <=>
                 IF p = pid THEN t = READY ELSE Is(process_list, p, t)
        BY <2>2, <3>3, <4>1, StateView
      <4> QED BY <3>1, <4>2
    <3> QED BY <3>2, <3>3
  <2> QED BY <1>3, <2>1, <2>2 DEF PostSem
<1>16. rqs' = rqs /\ refused' = refused /\ global' \in Int
  BY <1>3 DEF TestInv, Serial, TestTypes
<1> QED BY <1>1, <1>3, <1>4, <1>6, <1>9, <1>12, <1>13, <1>14, <1>15, <1>16, WorkerStep

LEMMA SyncClosesStep ==
  ASSUME TestInv, SyncCloses
  PROVE  TestInv'
<1>1. PICK me : me = CurrentPid
  OBVIOUS
<1>2. PICK new : new = [prog[me] EXCEPT !.at = "print"]
  OBVIOUS
<1>3. /\ prog[me].at = "close" /\ prog' = [prog EXCEPT ![me] = new]
      /\ CloseSem(SEM_ID) \/ CloseUnknown(SEM_ID)
      /\ UNCHANGED <<global, rqs, refused>>
  BY <1>1, <1>2 DEF SyncCloses, GoTo, Me
<1>4. prog[me].at \in BossAts /\ "print" \in BossAts
  BY <1>3 DEF BossAts, SyncAts
<1>5. /\ me \in Pids /\ prog[me] \in Prog /\ me \in Bosses /\ Bosses = {me}
      /\ me # ShellPid /\ me \notin Workers /\ Awake(me)
  BY <1>1, <1>4, WhoAmI, ShellStands, AtsApart DEF Me, TestInv, Serial, Roles, Workers
<1>6. new \in Prog /\ new.at = "print"
  BY <1>2, <1>4, <1>5 DEF Prog
<1>7. Owned(me) = {} /\ Workers = {}
  <2>1. Owned(me) = {}
    BY <1>3, <1>5 DEF TestInv, Serial, Returned
  <2> QED BY <1>5, <2>1 DEF TestInv, Serial, Families, Names
<1>8. UNCHANGED vars
  BY <1>3 DEF CloseSem, CloseUnknown, allVars
<1>9. IInv' /\ SemTypeOK'
  <2>1. [SemNext]_allVars
    BY <1>3, TestsAssumption DEF SemNext, SemCall
  <2> QED BY <2>1, SemNextIInv, SemNextTypeOK DEF TestInv, OneSlot
<1>10. Serial'
  <2>1. GoesOn(me, new)
    <3>1. InStep(new)'
      <4>1. rqs = <<>>
        BY <1>3, <1>5 DEF TestInv, Serial, Children, InStep, SyncAts
      <4> QED BY <1>3, <1>6, <4>1 DEF InStep, SyncAts, CreateAts, PrioAts
    <3>2. new.at \notin CreateAts \cup PrioAts /\ prog[me].at \notin CreateAts \cup PrioAts
      BY <1>3, <1>6 DEF CreateAts, PrioAts
    <3> QED BY <1>6, <1>7, <3>1, <3>2 DEF GoesOn, Kids
  <2>2. /\ process_list' = process_list /\ children_processes' = children_processes
        /\ rqs' = rqs /\ refused' = refused /\ global' \in Int
    BY <1>3, <1>8 DEF vars, TestInv, Serial, TestTypes
  <2>3. new.at \in BossAts
    BY <1>4, <1>6
  <2> QED BY <1>3, <1>5, <1>6, <2>1, <2>2, <2>3, SteadyStep
<1>11. Bosses' = Bosses /\ Workers' = {}
  <2>1. prog'[me] = new /\ \A p \in Pids \ {me} : prog'[p] = prog[p]
    BY <1>3, <1>5 DEF TestInv, Serial, TestTypes
  <2> QED BY <1>4, <1>5, <1>6, <1>7, <2>1, AtsApart DEF Bosses, Workers
<1>12. OneSlot'
  <2>1. semaphores \in [SemSlots -> SemInfo]
    BY DEF TestInv, OneSlot, SemTypeOK
  <2>8. CASE CloseUnknown(SEM_ID)
    <3>1. /\ semaphores' = semaphores /\ waiters' = waiters /\ pid_value' = pid_value
          /\ ~IsOpen(SEM_ID)
      BY <2>8 DEF CloseUnknown, allVars, semVars, vars
    <3>2. ~IsOpen(SEM_ID)'
      BY <3>1 DEF IsOpen, Holding
    <3> QED BY <1>9, <1>11, <3>1, <3>2 DEF TestInv, OneSlot
  <2>9. SUFFICES ASSUME CloseSem(SEM_ID) PROVE OneSlot'
    BY <1>3, <2>8
  <2>2. /\ semaphores' = [semaphores EXCEPT ![FindSem(SEM_ID)] = EmptySem]
        /\ waiters' = waiters
    BY <2>9 DEF CloseSem
  <2>3. EmptySem.sem_id = EMPTY_SEM /\ EMPTY_SEM # SEM_ID
    BY DEF EmptySem, EMPTY_SEM, SEM_ID
  <2>4. \A i \in SemSlots : semaphores'[i] \in {semaphores[i], EmptySem}
    BY <2>1, <2>2
  <2>5. \A i \in SemSlots : semaphores'[i].sem_id # EMPTY_SEM =>
          i = 0 /\ semaphores'[i].sem_id = SEM_ID
    BY <2>3, <2>4 DEF TestInv, OneSlot
  <2>6. ~IsOpen(SEM_ID)'
    <3>1. CASE Holding(SEM_ID) = {}
      BY <2>3, <2>4, <3>1 DEF IsOpen, Holding
    <3>2. CASE Holding(SEM_ID) # {}
      <4>1. Holding(SEM_ID) = {0} /\ 0 \in SemSlots
        BY <2>3, <3>2 DEF TestInv, OneSlot, Holding
      <4>2. Least({0}) = 0
        BY LeastIn, {0} \in SUBSET Nat
      <4>3. FindSem(SEM_ID) = 0
        BY <4>1, <4>2 DEF FindSem
      <4>4. semaphores'[0].sem_id # SEM_ID
        BY <2>1, <2>2, <2>3, <4>1, <4>3
      <4> QED BY <2>3, <2>5, <4>4 DEF IsOpen, Holding
    <3> QED BY <3>1, <3>2
  <2>7. pid_value' = pid_value
    BY <1>8 DEF vars
  <2> QED BY <1>9, <1>11, <2>2, <2>5, <2>6, <2>7 DEF TestInv, OneSlot
<1>13. InPids'
  BY <1>8 DEF TestInv, InPids, vars
<1> QED BY <1>9, <1>10, <1>12, <1>13 DEF TestInv

-----------------------------------------------------------------------------
(* Ends, Ctrl-C, and all the steps together.                               *)
LEMMA EndingStep ==
  ASSUME TestInv, Ending
  PROVE  TestInv'
<1>1. PICK me : me = CurrentPid
  OBVIOUS
<1>2. PICK gone \in Prog : gone = Nobody /\ gone.at = "none"
  BY NobodyIsProg
<1>3. /\ prog[me].at \in {"print", "end", "mutex"} /\ EndProcess
      /\ prog' = [prog EXCEPT ![me] = gone]
      /\ UNCHANGED semVars /\ rqs' = rqs /\ refused' = refused /\ global' = global
  BY <1>1, <1>2 DEF Ending, Me
<1>4. /\ me \in Bosses \cup Workers /\ me \in Pids
      /\ me \in Bosses => prog[me].at \in {"print", "end"}
  <2>1. {"print", "end"} \subseteq BossAts /\ "mutex" \in WorkerAts
    BY DEF BossAts, SyncAts, WorkerAts
  <2>2. prog[me].at = "mutex" => me \notin Bosses
    BY <2>1, AtsApart DEF Bosses
  <2> QED BY <1>1, <1>3, <2>1, <2>2, WhoAmI DEF Me
<1>5. PICK S \in SUBSET Mortal(process_list) : S = {current_process_idx} /\ DestroyAndSwitch(S)
  BY <1>3 DEF EndProcess
<1>6. PidsOf(process_list, S) = {me}
  BY <1>1, <1>5 DEF PidsOf, CurrentPid
<1>7. Died({me})
  BY <1>5, <1>6, DeathFacts DEF TestInv
<1>8. Serial'
  BY <1>2, <1>3, <1>4, <1>7, ProgramEnds
<1>9. IInv'
  BY <1>3, NextIInv DEF Next, SystemCall, TestInv
<1>10. OneSlot'
  <2>1. prog'[me] = gone /\ \A p \in Pids \ {me} : prog'[p] = prog[p]
    BY <1>3, <1>4 DEF TestInv, Serial, TestTypes
  <2>2. \A p \in Bosses' : p \in Bosses
    BY <1>2, <2>1, AtsApart DEF Bosses
  <2>3. \A c \in Workers' : prog'[c].at # "open" => c \in Workers /\ prog[c].at # "open"
    BY <1>2, <2>1, AtsApart DEF Workers
  <2>4. pid_value' \in Nat /\ pid_value' >= pid_value
    BY <1>5 DEF DestroyAndSwitch, TestInv, IInv, SoundTable
  <2> QED BY <1>3, <2>2, <2>3, <2>4, SlotStays
<1> QED BY <1>7, <1>8, <1>9, <1>10 DEF TestInv, InPids, Died

LEMMA CtrlCStep ==
  ASSUME TestInv, CtrlC
  PROVE  TestInv'
<1>1. PICK gone \in Prog : gone = Nobody /\ gone.at = "none"
  BY NobodyIsProg
<1>2. /\ prog' = [pid \in Pids |-> IF pid = ShellPid THEN prog[pid] ELSE gone]
      /\ KillAllProcesses /\ rqs' = <<>>
      /\ UNCHANGED semVars /\ refused' = refused /\ global' = global
  BY <1>1 DEF CtrlC
<1>3. PICK S \in SUBSET Mortal(process_list) : S = Mortal(process_list) /\ DestroyAndSwitch(S)
  BY <1>2 DEF KillAllProcesses
<1>4. PICK D : D = PidsOf(process_list, S)
  OBVIOUS
<1>5. Died(D) /\ D = PidsOf(process_list, Mortal(process_list))
  BY <1>3, <1>4, DeathFacts DEF TestInv
<1>6. Serial'
  BY <1>1, <1>2, <1>5, EverybodyDies
<1>7. IInv'
  BY <1>2, NextIInv DEF Next, TestInv
<1>8. OneSlot'
  <2>1. \A p \in Pids : prog'[p] = IF p = ShellPid THEN prog[p] ELSE gone
    BY <1>2
  <2>2. \A p \in Bosses' : p \in Bosses
    BY <1>1, <2>1, AtsApart DEF Bosses
  <2>3. \A c \in Workers' : prog'[c].at # "open" => c \in Workers /\ prog[c].at # "open"
    BY <1>1, <2>1, AtsApart DEF Workers
  <2>4. pid_value' \in Nat /\ pid_value' >= pid_value
    BY <1>3 DEF DestroyAndSwitch, TestInv, IInv, SoundTable
  <2> QED BY <1>2, <2>2, <2>3, <2>4, SlotStays
<1> QED BY <1>5, <1>6, <1>7, <1>8 DEF TestInv, InPids, Died

LEMMA PrioNices ==
  ASSUME TestInv,
         \/ PrioPass("change", "block", Nices(<<MEDIUM, HIGHEST, LOWEST>>))
         \/ PrioPass("change_blocked", "release", Nices(<<HIGHEST, LOWEST, MEDIUM>>))
  PROVE  TestInv'
<1>1. PICK me : me = CurrentPid
  OBVIOUS
<1>2. PICK k : k = prog[me].i + 1
  OBVIOUS
<1>3. prog[me].at \in Passes => k \in 1 .. 3
  BY <1>1, <1>2, AtChild
<1>4. CASE PrioPass("change", "block", Nices(<<MEDIUM, HIGHEST, LOWEST>>))
  <2>1. PICK new : new = Onward(prog[me], "block")
    OBVIOUS
  <2>2. PICK priority : priority = <<MEDIUM, HIGHEST, LOWEST>>[k]
    OBVIOUS
  <2>3. /\ prog[me].at = "change"
        /\ IF IsCode(rqs[k]) THEN UNCHANGED vars ELSE ChangePriority(rqs[k].pid, priority)
        /\ rqs' = rqs /\ UNCHANGED <<semVars, global, refused>>
        /\ prog' = [prog EXCEPT ![me] = new]
    BY <1>1, <1>2, <1>4, <2>1, <2>2 DEF PrioPass, Nices, OnChild, NextChild, ThisRq, Me, Onward
  <2>4. priority \in Nat
    BY <1>3, <2>2, <2>3 DEF Passes, MEDIUM, HIGHEST, LOWEST
  <2> QED BY <1>1, <1>2, <2>1, <2>3, <2>4, NicesStep
<1>5. CASE PrioPass("change_blocked", "release", Nices(<<HIGHEST, LOWEST, MEDIUM>>))
  <2>1. PICK new : new = Onward(prog[me], "release")
    OBVIOUS
  <2>2. PICK priority : priority = <<HIGHEST, LOWEST, MEDIUM>>[k]
    OBVIOUS
  <2>3. /\ prog[me].at = "change_blocked"
        /\ IF IsCode(rqs[k]) THEN UNCHANGED vars ELSE ChangePriority(rqs[k].pid, priority)
        /\ rqs' = rqs /\ UNCHANGED <<semVars, global, refused>>
        /\ prog' = [prog EXCEPT ![me] = new]
    BY <1>1, <1>2, <1>5, <2>1, <2>2 DEF PrioPass, Nices, OnChild, NextChild, ThisRq, Me, Onward
  <2>4. priority \in Nat
    BY <1>3, <2>2, <2>3 DEF Passes, MEDIUM, HIGHEST, LOWEST
  <2> QED BY <1>1, <1>2, <2>1, <2>3, <2>4, NicesStep
<1> QED BY <1>4, <1>5

LEMMA PrioStep ==
  ASSUME RoomForTests, TestInv, TestPrio
  PROVE  TestInv'
<1>1. PICK me : me = CurrentPid
  OBVIOUS
<1>2. PICK k : k = prog[me].i + 1
  OBVIOUS
<1>3. CASE PrioPass("block", "change_blocked", Toggles("BLOCKED"))
  <2>1. PICK new : new = Onward(prog[me], "change_blocked")
    OBVIOUS
  <2>2. /\ prog[me].at = "block"
        /\ IF IsCode(rqs[k]) THEN UNCHANGED vars ELSE BlockOrUnblock(rqs[k].pid)
        /\ rqs' = [rqs EXCEPT ![k].state = "BLOCKED"]
        /\ UNCHANGED <<semVars, global, refused>>
        /\ prog' = [prog EXCEPT ![me] = new]
    BY <1>1, <1>2, <1>3, <2>1 DEF PrioPass, Toggles, OnChild, NextChild, Becomes, ThisRq, Me, Onward
  <2> QED BY <1>1, <1>2, <2>1, <2>2, TogglesStep
<1>4. CASE PrioPass("release", "kill", Toggles("RUNNING"))
  <2>1. PICK new : new = Onward(prog[me], "kill")
    OBVIOUS
  <2>2. /\ prog[me].at = "release"
        /\ IF IsCode(rqs[k]) THEN UNCHANGED vars ELSE BlockOrUnblock(rqs[k].pid)
        /\ rqs' = [rqs EXCEPT ![k].state = "RUNNING"]
        /\ UNCHANGED <<semVars, global, refused>>
        /\ prog' = [prog EXCEPT ![me] = new]
    BY <1>1, <1>2, <1>4, <2>1 DEF PrioPass, Toggles, OnChild, NextChild, Becomes, ThisRq, Me, Onward
  <2> QED BY <1>1, <1>2, <2>1, <2>2, TogglesStep
<1>5. CASE PrioPass("kill", "end", Kills)
  <2>1. PICK new : new = Onward(prog[me], "end")
    OBVIOUS
  <2>2. /\ prog[me].at = "kill"
        /\ IF IsCode(rqs[k]) THEN UNCHANGED vars ELSE KillProcess(rqs[k].pid)
        /\ rqs' = [rqs EXCEPT ![k].state = "KILLED"]
        /\ UNCHANGED <<semVars, global, refused>>
        /\ prog' = [prog EXCEPT ![me] = new]
    BY <1>1, <1>2, <1>5, <2>1 DEF PrioPass, Kills, OnChild, NextChild, Becomes, ThisRq, Me, Onward
  <2>3. PICK d : d = rqs[k].pid /\ IF IsCode(rqs[k]) THEN UNCHANGED vars ELSE KillProcess(d)
    BY <2>2
  <2> QED BY <1>1, <1>2, <2>1, <2>2, <2>3, KillsStep
<1> QED BY <1>3, <1>4, <1>5, PrioNices, PrioCreatesStep DEF TestPrio

LEMMA TestInitInv ==
  ASSUME TestInit
  PROVE  TestInv
<1>1. IInv
  BY InitIInv DEF TestInit, SemInit
<1>2. /\ prog \in [Pids -> Prog]
      /\ \A p \in Pids : prog[p].at = IF p = ShellPid THEN "prompt" ELSE "none"
  <2>1. At("prompt") \in Prog /\ At("prompt").at = "prompt"
    BY AtIs DEF ShellAts
  <2> QED BY <2>1, NobodyIsProg DEF TestInit
<1>3. "prompt" \in ShellAts /\ ShellPid \in Pids
  BY SizesAssumption DEF ShellAts, Pids, ShellPid
<1>4. Bosses = {} /\ Workers = {} /\ Working = {} /\ Alive = {}
  <2>1. Bosses = {} /\ Workers = {}
    BY <1>2, <1>3, AtsApart DEF Bosses, Workers
  <2> QED BY <2>1 DEF Working, Alive, TestInit
<1>5. LivePids(process_list) = {ShellPid, idle_pid}
  <2>1. /\ 0 \in Slots /\ 1 \in Slots
        /\ process_list = [i \in Slots |-> IF i = 0 THEN ShellAtBoot
                                           ELSE IF i = 1 THEN IdleAtBoot ELSE FreeSlot]
    BY SizesAssumption DEF TestInit, SemInit, Init, Slots
  <2>2. /\ process_list[0] = ShellAtBoot /\ process_list[1] = IdleAtBoot
        /\ \A i \in Slots \ {0, 1} : process_list[i] = FreeSlot
    BY <2>1
  <2>3. Live(process_list) = {0, 1}
    BY <2>1, <2>2 DEF Live, ShellAtBoot, IdleAtBoot, FreeSlot, READY, PAUSED, DEAD
  <2>4. process_list[0].pid = ShellPid /\ process_list[1].pid = idle_pid
    BY <2>2 DEF ShellAtBoot, IdleAtBoot
  <2>5. LivePids(process_list) = {process_list[0].pid, process_list[1].pid}
    BY <2>3 DEF LivePids, PidsOf
  <2> QED BY <2>4, <2>5
<1>6. /\ Counting = {}
      /\ \A e \in Entries : children_processes[e].parent_pid = ShellPid
      /\ NamedOnce(children_processes)
  <2>1. \A e \in Entries : children_processes[e] = FreeEntry
    BY DEF TestInit, SemInit, Init
  <2> QED BY <2>1 DEF Counting, FreeEntry, READY, DEAD, ShellPid, NamedOnce
<1>7. TestTypes
  BY <1>2, TestsAssumption DEF TestInit, TestTypes
<1>8. Roles /\ Families /\ Returned
  <2>1. \A p \in Pids \ {ShellPid} : prog[p].at \notin ShellAts
    BY <1>2, AtsApart
  <2>2. Roles
    BY <1>2, <1>3, <1>4, <2>1 DEF Roles
  <2>3. Families
    <3>1. \A e \in Entries : children_processes[e].parent_pid
                               \notin LivePids(process_list) \ {ShellPid}
      BY <1>6
    <3>2. \A e \in Counting : children_processes[e].child_pid \notin {ShellPid, idle_pid}
      BY <1>6
    <3> QED BY <1>4, <1>6, <3>1, <3>2 DEF Families
  <2>4. Returned
    BY <1>4 DEF Returned
  <2> QED BY <2>2, <2>3, <2>4
<1>9. Children /\ NobodyForgotten
  BY <1>4, <1>5 DEF Children, NobodyForgotten
<1>10. Room
  <2>1. Failed = {} /\ Strays = {} /\ Cardinality({}) = 0 /\ refused = 0
    BY <1>6, FS_EmptySet DEF Failed, Strays, TestInit
  <2> QED BY <1>4, <2>1, TestsAssumption DEF Room
<1>11. OneSlot
  <2>1. \A i \in SemSlots : semaphores[i].sem_id = EMPTY_SEM
    BY DEF TestInit, SemInit, EmptySem
  <2>2. SemTypeOK
    BY SemaphoresAssumption DEF TestInit, SemInit, SemTypeOK, SemInfo, EmptySem, EMPTY_SEM
  <2>3. SEM_ID # EMPTY_SEM
    BY DEF SEM_ID, EMPTY_SEM
  <2>4. ~IsOpen(SEM_ID)
    BY <2>1, <2>3 DEF IsOpen, Holding
  <2>5. DOMAIN waiters = {}
    BY DEF TestInit, SemInit
  <2> QED BY <1>4, <2>1, <2>2, <2>4, <2>5 DEF OneSlot
<1>12. InPids
  BY <1>3, <1>5, TestsAssumption DEF InPids, Pids, idle_pid
<1> QED BY <1>1, <1>7, <1>8, <1>9, <1>10, <1>11, <1>12 DEF TestInv, Serial

LEMMA TestStepInv ==
  ASSUME RoomForTests, TestInv, [TestNext]_everything
  PROVE  TestInv'
<1>1. CASE UNCHANGED everything
  <2>1. UNCHANGED vars /\ UNCHANGED semVars /\ UNCHANGED testVars
    BY <1>1 DEF everything, allVars
  <2>2. IInv'
    BY <2>1, NextIInv DEF TestInv
  <2>3. PICK new \in Prog : new = prog[ShellPid] /\ ShellPid \in Pids
    BY ShellStands DEF TestInv, Serial, TestTypes
  <2>4. Quiet(ShellPid) /\ (Awake(ShellPid)' <=> Awake(ShellPid))
    BY <2>1, StillIsQuiet DEF Awake, vars
  <2>5. /\ prog' = [prog EXCEPT ![ShellPid] = new] /\ rqs' = rqs /\ refused' = refused
        /\ global' \in Int
    BY <2>1, <2>3 DEF testVars, TestInv, Serial, TestTypes
  <2>6. new.at \in ShellAts /\ (new.at = "prompt" /\ Awake(ShellPid)' => Bosses = {})
    BY <2>3, <2>4 DEF TestInv, Serial, Roles, Returned
  <2>7. ShellPid \notin Bosses \cup Workers
    BY ShellStands DEF TestInv
  <2> QED BY <2>1, <2>2, <2>3, <2>4, <2>5, <2>6, <2>7, SteadyInv
<1>2. CASE ShellRunsTest \/ ShellWaits
  BY <1>2, ShellRunsTestStep, ShellWaitsStep
<1>3. CASE TestSync
  BY <1>3, SyncCreatesStep, SyncWaitsStep, SyncClosesStep, ChildOpensStep, ChildWaitsStep,
     SlowIncReadsStep, SlowIncWritesStep, ChildPostsStep DEF TestSync
<1>4. CASE TestProcesses
  BY <1>4, ProcessesCreatesStep, KillsOrBlocksStep, ActStep, GoesRoundStep DEF TestProcesses
<1>5. CASE TestPrio
  BY <1>5, PrioStep
<1>6. CASE Ending \/ Ticking \/ CtrlC
  BY <1>6, EndingStep, TickStep, CtrlCStep
<1> QED BY <1>1, <1>2, <1>3, <1>4, <1>5, <1>6 DEF TestNext

LEMMA TestInductiveInvariant == RoomForTests => (TestSpec => []TestInv)
<1> SUFFICES ASSUME RoomForTests PROVE TestSpec => []TestInv
  OBVIOUS
<1>1. TestInit => TestInv
  BY TestInitInv
<1>2. TestInv /\ [TestNext]_everything => TestInv'
  BY TestStepInv
<1> QED BY <1>1, <1>2, PTL DEF TestSpec

(* Whatever testsc and testprio have asked of their children has happened  *)
(* to them, and nothing else has: a child they count alive is in the       *)
(* process table, READY if they believe it runs and BLOCK if they believe  *)
(* it blocked, so that no kill, block, unblock or change of priority of    *)
(* theirs turns a child the wrong way.  The exception is a child of        *)
(* testprio that could not be created: testprio keeps the error code for a *)
(* pid and goes on with it (test_util.c:108-112, 116, 229, 243, 259).      *)
THEOREM TestsKnowTheirChildren == RoomForTests => (TestSpec => []BeliefsAreTrue)
<1> SUFFICES ASSUME RoomForTests PROVE TestSpec => []BeliefsAreTrue
  OBVIOUS
<1>1. TestInv => BeliefsAreTrue
  BY DEF TestInv, Serial, Children, Is, BeliefsAreTrue
<1> QED BY <1>1, TestInductiveInvariant, PTL

(* When the shell owns the CPU at its prompt, the test it ran has ended and*)
(* so have all the processes that test started, whether it ended by itself,*)
(* killed its children or was cut off by Ctrl-C; without a refused creation*)
(* only the shell and the idle process are left (test_util.c:154-158,      *)
(* 220-269, 355).                                                          *)
THEOREM TestsLeaveNobody == RoomForTests => (TestSpec => []NothingLeftBehind)
<1> SUFFICES ASSUME RoomForTests PROVE TestSpec => []NothingLeftBehind
  OBVIOUS
<1>1. TestInv => NothingLeftBehind
  <2> SUFFICES ASSUME TestInv, CurrentPid = ShellPid, Me.at = "prompt", refused = 0
               PROVE  Live(process_list) = {0, idle_pid}
    BY DEF NothingLeftBehind
  <2>1. Bosses = {} /\ Workers = {}
    <3>1. Bosses = {}
      BY CallerLives DEF TestInv, Serial, Returned, Me
    <3> QED BY <3>1 DEF TestInv, Serial, Families
  <2>2. Alive = {}
    BY <2>1 DEF TestInv, Serial, NobodyForgotten
  <2>3. LivePids(process_list) \subseteq {ShellPid, idle_pid}
    BY <2>1, <2>2 DEF TestInv, Serial, NobodyForgotten, Known
  <2>4. /\ {0, 1} \subseteq Live(process_list)
        /\ process_list[0].pid = 0 /\ process_list[1].pid = 1
        /\ \A i, j \in Live(process_list) : process_list[i].pid = process_list[j].pid => i = j
    BY DEF TestInv, IInv, SoundTable
  <2>5. \A i \in Live(process_list) : process_list[i].pid \in {0, 1}
    BY <2>3 DEF LivePids, PidsOf, ShellPid, idle_pid
  <2> QED BY <2>4, <2>5 DEF idle_pid
<1> QED BY <1>1, TestInductiveInvariant, PTL

-----------------------------------------------------------------------------
(* The semaphore of testsync.  A child is inside from its wait to its post,*)
(* but not while it sleeps in the wait.                                    *)
Critical == {"inside", "inc", "post"}
Inside == {c \in Workers : prog[c].at \in Critical /\ Awake(c)}

InTurn(c) ==
  /\ prog[c].inc \in {-1, 1} /\ prog[c].i <= Rounds
  /\ prog[c].at \in Critical => prog[c].i < Rounds
  /\ prog[c].at \in {"inc", "post"} => Awake(c)
  /\ prog[c].at = "inc" => prog[c].aux = global

Turns == \A c \in Workers : InTurn(c)

Exclusion ==
  /\ \A c, d \in Inside : c = d
  /\ IsOpen(SEM_ID) => /\ semaphores[0].sem_val \in {0, 1}
                       /\ Inside # {} => semaphores[0].sem_val = 0

(* What a child will still add to the variable.                            *)
RoundsLeft(r) == IF r.at = "post" THEN Rounds - r.i - 1 ELSE Rounds - r.i
Owes(r) == IF r.at \notin WorkerAts THEN 0
           ELSE IF r.inc = 1 THEN RoundsLeft(r) ELSE 0 - RoundsLeft(r)
Owed == [p \in Pids |-> Owes(prog[p])]

(* The sum of f over the pids is m: t holds the partial sums.              *)
Total(f, m) ==
  \E t \in [0 .. MaxPid + 1 -> Int] :
    /\ t[0] = 0 /\ \A p \in Pids : t[p + 1] = t[p] + f[p]
    /\ t[MaxPid + 1] = m

(* What the decrementer without an incrementer yet is to get back.         *)
Ahead(r) == IF r.at = "sync" /\ r.i % 2 = 1 THEN Rounds ELSE 0

(* A child of p could not be created: the entry keeps p asleep for ever.   *)
Short(p) == \E e \in Owned(p) : children_processes[e].child_pid \in FailureCodes

(* What is owed in all brings the variable back to 0.                      *)
Account ==
  \A p \in Bosses :
    /\ prog[p].at = "print" => global = 0
    /\ prog[p].at = "close" \/ (prog[p].at = "sync" /\ prog[p].i # 0) =>
         Short(p) \/ Total(Owed, 0 - (global + Ahead(prog[p])))

SyncInv == Turns /\ Exclusion /\ Account

-----------------------------------------------------------------------------
(* When one pid is given d more, so is the sum.                            *)
LEMMA TotalMoves ==
  ASSUME NEW f \in [Pids -> Int], NEW g \in [Pids -> Int], NEW c \in Pids, NEW d \in Int,
         NEW m \in Int, Total(f, m), g[c] = f[c] + d, \A p \in Pids \ {c} : g[p] = f[p]
  PROVE  Total(g, m + d)
<1>1. PICK t \in [0 .. MaxPid + 1 -> Int] :
        /\ t[0] = 0 /\ \A p \in Pids : t[p + 1] = t[p] + f[p]
        /\ t[MaxPid + 1] = m
  BY DEF Total
<1> DEFINE u == [n \in 0 .. MaxPid + 1 |-> IF n > c THEN t[n] + d ELSE t[n]]
<1>2. /\ MaxPid \in Nat /\ c \in Nat /\ c <= MaxPid
      /\ \A p \in Pids : p \in Nat /\ p \in 0 .. MaxPid + 1 /\ p + 1 \in 0 .. MaxPid + 1
  BY SizesAssumption DEF Pids
<1>3. /\ u \in [0 .. MaxPid + 1 -> Int]
      /\ \A n \in 0 .. MaxPid + 1 : u[n] = IF n > c THEN t[n] + d ELSE t[n]
  OBVIOUS
<1> HIDE DEF u
<1>4. u[0] = 0 /\ u[MaxPid + 1] = m + d
  BY <1>1, <1>2, <1>3
<1>5. ASSUME NEW p \in Pids PROVE u[p + 1] = u[p] + g[p]
  <2>1. /\ t[p + 1] = t[p] + f[p] /\ t[p] \in Int /\ f[p] \in Int
        /\ u[p] = IF p > c THEN t[p] + d ELSE t[p]
        /\ u[p + 1] = IF p + 1 > c THEN t[p + 1] + d ELSE t[p + 1]
    BY <1>1, <1>2, <1>3
  <2>2. g[p] = IF p = c THEN f[p] + d ELSE f[p]
    OBVIOUS
  <2> QED BY <1>2, <2>1, <2>2
<1> QED BY <1>3, <1>4, <1>5 DEF Total

(* The sum of nothing is 0, and is nothing else.                           *)
LEMMA TotalOfNothing ==
  ASSUME NEW f \in [Pids -> Int], \A p \in Pids : f[p] = 0
  PROVE  Total(f, 0) /\ \A m : Total(f, m) => m = 0
<1>1. MaxPid \in Nat /\ \A p \in Pids : p \in 0 .. MaxPid + 1 /\ p + 1 \in 0 .. MaxPid + 1
  BY SizesAssumption DEF Pids
<1>2. Total(f, 0)
  <2> DEFINE t == [n \in 0 .. MaxPid + 1 |-> 0]
  <2>1. t \in [0 .. MaxPid + 1 -> Int] /\ \A n \in 0 .. MaxPid + 1 : t[n] = 0
    OBVIOUS
  <2> HIDE DEF t
  <2>2. t[0] = 0 /\ t[MaxPid + 1] = 0 /\ \A p \in Pids : t[p + 1] = t[p] + f[p]
    BY <1>1, <2>1
  <2> QED BY <2>1, <2>2 DEF Total
<1>3. ASSUME NEW m, Total(f, m) PROVE m = 0
  <2>1. PICK t \in [0 .. MaxPid + 1 -> Int] :
          /\ t[0] = 0 /\ \A p \in Pids : t[p + 1] = t[p] + f[p]
          /\ t[MaxPid + 1] = m
    BY <1>3 DEF Total
  <2> DEFINE Wrong == {n \in 0 .. MaxPid + 1 : t[n] # 0}
  <2>2. SUFFICES ASSUME m # 0 PROVE FALSE
    OBVIOUS
  <2>3. Wrong \in SUBSET Nat /\ Wrong # {}
    BY <1>1, <2>1, <2>2
  <2>4. PICK n \in Wrong : \A j \in Wrong : n <= j
    <3> HIDE DEF Wrong
    <3>1. Least(Wrong) \in Wrong /\ \A j \in Wrong : Least(Wrong) <= j
      BY <2>3, LeastIn
    <3> QED BY <3>1
  <2>5. n \in 0 .. MaxPid + 1 /\ t[n] # 0 /\ n # 0
    BY <2>1
  <2>6. PICK p \in Pids : n = p + 1
    <3>1. n - 1 \in 0 .. MaxPid
      BY <1>1, <2>5
    <3>2. n = (n - 1) + 1
      BY <2>5
    <3> QED BY <3>1, <3>2 DEF Pids
  <2>7. t[p] = 0
    <3>1. p \in 0 .. MaxPid + 1 /\ ~(n <= p)
      BY <1>1, <2>6 DEF Pids
    <3> QED BY <2>4, <3>1
  <2> QED BY <2>1, <2>5, <2>6, <2>7
<1> QED BY <1>2, <1>3

(* Only a worker owes anything.                                            *)
LEMMA OwesIs ==
  ASSUME NEW r \in Prog
  PROVE  Owes(r) \in Int /\ (r.at \notin WorkerAts => Owes(r) = 0)
<1>1. r.i \in Int /\ Rounds \in Int
  BY TestsAssumption DEF Prog
<1>2. RoundsLeft(r) \in Int
  BY <1>1 DEF RoundsLeft
<1> QED BY <1>2 DEF Owes

(* The table of debts, pid by pid.                                         *)
LEMMA OwedIs ==
  ASSUME TestTypes
  PROVE  Owed \in [Pids -> Int] /\ \A p \in Pids : Owed[p] = Owes(prog[p])
<1>1. \A p \in Pids : Owes(prog[p]) \in Int
  BY OwesIs DEF TestTypes
<1> QED BY <1>1 DEF Owed

(* Without workers nothing is owed.                                        *)
LEMMA NothingOwed ==
  ASSUME TestTypes, Workers = {}
  PROVE  Total(Owed, 0) /\ \A m : Total(Owed, m) => m = 0
<1>1. \A p \in Pids : prog[p] \in Prog /\ prog[p].at \notin WorkerAts
  BY DEF TestTypes, Workers
<1>2. Owed \in [Pids -> Int] /\ \A p \in Pids : Owed[p] = 0
  BY <1>1, OwedIs, OwesIs
<1> QED BY <1>2, TotalOfNothing

(* The decrementer's lead is a number.                                     *)
LEMMA AheadInt == ASSUME NEW r PROVE Ahead(r) \in Int
BY TestsAssumption DEF Ahead

-----------------------------------------------------------------------------
(* What a step must respect to keep each part.                             *)
LEMMA TurnsKeep ==
  ASSUME Turns, NEW me, me \in Workers' => InTurn(me)',
         \A c \in Workers' : c # me =>
           /\ c \in Workers /\ prog'[c] = prog[c] /\ (Awake(c) => Awake(c)')
           /\ prog[c].at = "inc" => global' = global
  PROVE  Turns'
<1>1. ASSUME NEW c \in Workers', c # me PROVE InTurn(c)'
  BY <1>1 DEF Turns, InTurn
<1> QED BY <1>1 DEF Turns

(* Exclusion survives a step that lets nobody in and leaves SEM_ID alone.  *)
LEMMA ExclusionStays ==
  ASSUME Exclusion, semaphores' = semaphores, Inside' \subseteq Inside
  PROVE  Exclusion'
<1>1. IsOpen(SEM_ID)' <=> IsOpen(SEM_ID)
  BY DEF IsOpen, Holding
<1> QED BY <1>1 DEF Exclusion

(* Anybody but the test goes on, and the variable grows by what is no      *)
(* longer owed.                                                            *)
LEMMA AccountKeeps ==
  ASSUME TestInv, TestTypes', Account, NEW me \in Pids, NEW new \in Prog,
         prog' = [prog EXCEPT ![me] = new],
         me \notin Bosses, new.at \notin BossAts,
         Workers = {} => global' = global,
         Owes(new) = Owes(prog[me]) - (global' - global),
         \A p \in Bosses : Short(p) => Short(p)'
  PROVE  Account'
<1>1. /\ prog'[me] = new /\ \A p \in Pids \ {me} : prog'[p] = prog[p]
      /\ prog[me] \in Prog /\ global \in Int /\ global' \in Int
  BY DEF TestInv, Serial, TestTypes
<1>2. ASSUME NEW p \in Bosses' PROVE p \in Bosses /\ prog'[p] = prog[p]
  BY <1>1 DEF Bosses
<1>3. ASSUME NEW p \in Bosses', prog'[p].at = "print" PROVE global' = 0
  <2>1. Workers = {}
    BY <1>2, <1>3 DEF TestInv, Serial, Roles, Families
  <2> QED BY <1>2, <1>3, <2>1 DEF Account
<1>4. ASSUME NEW m \in Int, Total(Owed, m)
      PROVE  Total(Owed', m + (global - global'))
  <2>1. Owed \in [Pids -> Int] /\ \A p \in Pids : Owed[p] = Owes(prog[p])
    BY OwedIs DEF TestInv, Serial
  <2>2. Owed' \in [Pids -> Int] /\ \A p \in Pids : Owed'[p] = Owes(prog'[p])
    <3>1. \A p \in Pids : prog'[p] \in Prog
      BY DEF TestTypes
    <3>2. Owed' = [p \in Pids |-> Owes(prog'[p])]
      BY DEF Owed, Owes, RoundsLeft
    <3> QED BY <3>1, <3>2, OwesIs
  <2>3. Owes(new) \in Int /\ Owes(prog[me]) \in Int
    BY <1>1, OwesIs
  <2>4. Owed'[me] = Owed[me] + (global - global') /\ global - global' \in Int
    BY <1>1, <2>1, <2>2, <2>3
  <2>5. \A p \in Pids \ {me} : Owed'[p] = Owed[p]
    BY <1>1, <2>1, <2>2
  <2> QED BY <1>4, <2>1, <2>2, <2>4, <2>5, TotalMoves
<1>5. ASSUME NEW p \in Bosses',
             prog'[p].at = "close" \/ (prog'[p].at = "sync" /\ prog'[p].i # 0)
      PROVE  Short(p)' \/ Total(Owed, 0 - (global + Ahead(prog[p])))'
  <2>1. p \in Bosses /\ prog'[p] = prog[p]
    BY <1>2
  <2>2. CASE Short(p)
    BY <2>1, <2>2
  <2>3. CASE Total(Owed, 0 - (global + Ahead(prog[p])))
    <3>1. PICK a \in Int : a = Ahead(prog[p])
      BY AheadInt
    <3>2. 0 - (global + a) \in Int
      BY <1>1, <3>1
    <3>3. Total(Owed', 0 - (global + a) + (global - global'))
      BY <1>4, <2>3, <3>1, <3>2
    <3>4. 0 - (global + a) + (global - global') = 0 - (global' + a)
      BY <1>1, <3>1
    <3>5. Ahead(prog[p])' = a
      BY <2>1, <3>1 DEF Ahead
    <3>6. Total(Owed', 0 - (global' + a))
      BY <3>3, <3>4
    <3> QED BY <3>5, <3>6 DEF Total
  <2> QED BY <1>5, <2>1, <2>2, <2>3 DEF Account
<1> QED BY <1>3, <1>5 DEF Account

(* No child of testsync is left and testsync is not under way.             *)
LEMMA WorkersGone ==
  ASSUME SyncInv, semaphores' = semaphores, Workers' = {},
         \A p \in Bosses' : /\ prog'[p].at \notin {"close", "print"}
                            /\ prog'[p].at = "sync" => prog'[p].i = 0
  PROVE  SyncInv'
<1>1. Turns' /\ Inside' = {}
  BY DEF Turns, Inside
<1>2. Exclusion'
  BY <1>1, ExclusionStays DEF SyncInv
<1>3. Account'
  BY DEF Account
<1> QED BY <1>1, <1>2, <1>3 DEF SyncInv

(* testsc and testprio run alone.                                          *)
LEMMA AskersKeepSync ==
  ASSUME TestInv, SyncInv, UNCHANGED semVars, prog[CurrentPid].at \in CreateAts \cup PrioAts,
         \A p \in Pids : \/ prog'[p] = prog[p]
                         \/ prog'[p].at \in CreateAts \cup PrioAts \cup {"end", "none"}
  PROVE  SyncInv'
<1>1. PICK me : me = CurrentPid
  OBVIOUS
<1>2. Bosses = {me} /\ Workers = {} /\ prog[me].at \in CreateAts \cup PrioAts
  BY <1>1, AskerIs
<1>3. /\ (CreateAts \cup PrioAts \cup {"end"}) \cap SyncAts = {}
      /\ (CreateAts \cup PrioAts \cup {"end"}) \subseteq BossAts
  BY DEF CreateAts, PrioAts, SyncAts, BossAts
<1>4. Workers' = {}
  BY <1>2, <1>3, AtsApart DEF Workers
<1>5. \A p \in Bosses' : prog'[p].at \notin SyncAts
  BY <1>2, <1>3, AtsApart DEF Bosses
<1>6. \A p \in Bosses' : /\ prog'[p].at \notin {"close", "print"}
                         /\ prog'[p].at = "sync" => prog'[p].i = 0
  BY <1>5 DEF SyncAts
<1>7. semaphores' = semaphores
  BY DEF semVars
<1> QED BY <1>4, <1>6, <1>7, WorkersGone

(* testsc has no workers.                                                  *)
LEMMA TestProcessesKeepsSync ==
  ASSUME TestInv, SyncInv, TestProcesses
  PROVE  SyncInv'
<1>1. PICK me : me = CurrentPid
  OBVIOUS
<1>2. prog[me].at \in {"create", "act", "unblock", "again"} /\ UNCHANGED semVars
  BY <1>1 DEF TestProcesses, ProcessesCreates, KillsOrBlocks, ProcessesKills, ProcessesBlocks,
     ProcessesUnblocks, ProcessesGoesRound, Creates, IsRefused, Me, allVars
<1>3. prog[me].at \in CreateAts \cup PrioAts
  BY <1>2 DEF CreateAts
<1>4. me \in Pids /\ prog[me] \in Prog /\ prog \in [Pids -> Prog]
  BY <1>1, <1>3, AskerIs DEF TestInv, Serial, TestTypes
<1> DEFINE Ats == {"create", "act", "unblock", "again", "end"}
<1>5. \A r \in Prog : \A a \in Ats : \A n, k :
        /\ [r EXCEPT !.at = a].at = a /\ [r EXCEPT !.at = a, !.i = n].at = a
        /\ [r EXCEPT !.i = n, !.at = a].at = a /\ [r EXCEPT !.at = a, !.round = k].at = a
        /\ [r EXCEPT !.i = n].at = r.at
  BY DEF Prog
<1>6. At("end").at = "end" /\ Nobody.at = "none"
  BY DEF At, Nobody
<1>7. \A p \in Pids : prog'[p] = prog[p] \/ prog'[p].at \in Ats \cup {"none"}
  <2>1. CASE ProcessesCreates
    <3>1. PICK new, end : new = [prog[me] EXCEPT !.i = prog[me].i + 1] /\ end = At("end")
      OBVIOUS
    <3>2. new.at \in Ats /\ end.at \in Ats
      BY <1>2, <1>4, <1>5, <1>6, <3>1
    <3>3. \/ prog' = [prog EXCEPT ![me] = new, ![pid_value] = Nobody]
          \/ prog' = [prog EXCEPT ![me] = end]
      BY <1>1, <2>1, <3>1 DEF ProcessesCreates, Creates, IsRefused, Me
    <3> QED BY <1>4, <1>6, <3>2, <3>3
  <2>2. CASE KillsOrBlocks
    <3>1. PICK new : new = [prog[me] EXCEPT !.at = "act", !.i = 0]
      OBVIOUS
    <3>2. new.at \in Ats
      BY <1>4, <1>5, <3>1
    <3>3. prog' = [prog EXCEPT ![me] = new]
      BY <1>1, <2>2, <3>1 DEF KillsOrBlocks, Me
    <3> QED BY <1>4, <1>6, <3>2, <3>3
  <2>3. ASSUME NEW next \in {"unblock", "again"}, Turn(next)
        PROVE  \A p \in Pids : prog'[p] = prog[p] \/ prog'[p].at \in Ats \cup {"none"}
    <3>1. PICK new : new = IF prog[me].i + 1 < MAX_TEST_PROCESSES
                             THEN [prog[me] EXCEPT !.i = prog[me].i + 1]
                             ELSE [prog[me] EXCEPT !.i = 0, !.at = next]
      OBVIOUS
    <3>2. new.at \in Ats
      BY <1>2, <1>4, <1>5, <3>1
    <3>3. prog' = [prog EXCEPT ![me] = new]
      BY <1>1, <2>3, <3>1 DEF Turn, Me
    <3> QED BY <1>4, <1>6, <3>2, <3>3
  <2>4. CASE ProcessesKills \/ ProcessesBlocks \/ ProcessesUnblocks
    BY <2>3, <2>4 DEF ProcessesKills, ProcessesBlocks, ProcessesUnblocks
  <2>5. CASE ProcessesGoesRound
    <3>1. PICK new : new =
            IF Alive # {} THEN [prog[me] EXCEPT !.at = "act"]
            ELSE IF prog[me].round + 1 < TestRounds
              THEN [prog[me] EXCEPT !.at = "create", !.round = prog[me].round + 1]
            ELSE At("end")
      OBVIOUS
    <3>2. new.at \in Ats
      BY <1>4, <1>5, <1>6, <3>1
    <3>3. prog' = [prog EXCEPT ![me] = new]
      BY <1>1, <2>5, <3>1 DEF ProcessesGoesRound, Me
    <3> QED BY <1>4, <1>6, <3>2, <3>3
  <2> QED BY <2>1, <2>2, <2>4, <2>5 DEF TestProcesses
<1>8. Ats \subseteq CreateAts \cup PrioAts \cup {"end", "none"}
  BY DEF CreateAts
<1> HIDE DEF Ats
<1>9. \A p \in Pids : \/ prog'[p] = prog[p]
                      \/ prog'[p].at \in CreateAts \cup PrioAts \cup {"end", "none"}
  BY <1>7, <1>8
<1> QED BY <1>1, <1>2, <1>3, <1>9, AskersKeepSync

(* testprio has none either.                                               *)
LEMMA TestPrioKeepsSync ==
  ASSUME TestInv, SyncInv, TestPrio
  PROVE  SyncInv'
<1>1. PICK me : me = CurrentPid
  OBVIOUS
<1>2. UNCHANGED semVars
  BY DEF TestPrio, PrioCreates, PrioPass, IsRefused
<1>3. prog[me].at \in PrioAts
  BY <1>1 DEF TestPrio, PrioCreates, PrioPass, Me, PrioAts
<1>4. me \in Pids /\ prog[me] \in Prog /\ prog \in [Pids -> Prog]
  BY <1>1, <1>3, AskerIs DEF TestInv, Serial, TestTypes
<1>5. \E next \in PrioAts \cup {"end"} : prog' = [prog EXCEPT ![me] = Onward(prog[me], next)]
  BY <1>1 DEF TestPrio, PrioCreates, PrioPass, IsRefused, NextChild, Onward, Me, PrioAts
<1>6. PICK new : /\ \E next \in PrioAts \cup {"end"} : new = Onward(prog[me], next)
                 /\ prog' = [prog EXCEPT ![me] = new]
  BY <1>5
<1>7. new.at \in PrioAts \cup {"end"}
  BY <1>3, <1>4, <1>6, OnwardIs
<1>8. \A p \in Pids : prog'[p] = prog[p] \/ prog'[p].at \in PrioAts \cup {"end"}
  BY <1>4, <1>6, <1>7
<1> QED BY <1>1, <1>2, <1>3, <1>8, AskersKeepSync

(* A test starts without workers: nothing is counted or owed.              *)
LEMMA ShellRunsTestKeepsSync ==
  ASSUME TestInv, SyncInv, ShellRunsTest
  PROVE  SyncInv'
<1>1. /\ CurrentPid = ShellPid /\ prog[ShellPid].at = "prompt" /\ UNCHANGED semVars
      /\ \E test \in {"sync", "create", "prio"} :
           \/ prog' = [prog EXCEPT ![ShellPid] = At("wait"), ![pid_value] = At(test)]
           \/ prog' = [prog EXCEPT ![ShellPid] = At("prompt")]
  BY DEF ShellRunsTest, Creates, IsRefused, Me
<1>2. Bosses = {} /\ Workers = {} /\ prog \in [Pids -> Prog] /\ ShellPid \in Pids
  <2>1. Bosses = {}
    BY <1>1, CallerLives DEF TestInv, Serial, Returned
  <2> QED BY <2>1, ShellStands DEF TestInv, Serial, Families, TestTypes
<1>3. PICK test, child, wait, prompt :
        /\ test \in {"sync", "create", "prio"}
        /\ child = At(test) /\ wait = At("wait") /\ prompt = At("prompt")
        /\ \/ prog' = [prog EXCEPT ![ShellPid] = wait, ![pid_value] = child]
           \/ prog' = [prog EXCEPT ![ShellPid] = prompt]
  BY <1>1
<1>4. /\ child.at = test /\ child.i = 0
      /\ test \in BossAts /\ test \notin {"close", "print"}
      /\ wait.at \in ShellAts /\ prompt.at \in ShellAts
  BY <1>3 DEF At, ShellAts, BossAts, SyncAts, CreateAts, PrioAts
<1>5. \A p \in Pids : prog'[p] \in {prog[p], child, wait, prompt}
  BY <1>2, <1>3
<1>6. Workers' = {}
  BY <1>2, <1>4, <1>5, AtsApart DEF Workers
<1>7. \A p \in Bosses' : prog'[p] = child
  BY <1>2, <1>4, <1>5, AtsApart DEF Bosses
<1>8. semaphores' = semaphores
  BY <1>1 DEF semVars
<1> QED BY <1>4, <1>6, <1>7, <1>8, WorkersGone

(* Ctrl-C ends the test, whatever its workers were doing.                  *)
LEMMA CtrlCKeepsSync ==
  ASSUME TestInv, SyncInv, CtrlC
  PROVE  SyncInv'
<1>1. \A p \in Pids : p # ShellPid => prog'[p].at = "none"
  BY DEF CtrlC, Nobody, At
<1>2. prog'[ShellPid] = prog[ShellPid]
  BY ShellStands DEF CtrlC, TestInv
<1>3. Workers' = {} /\ Bosses' = {}
  BY <1>1, <1>2, AtsApart DEF Workers, Bosses, TestInv, Serial, Roles
<1>4. semaphores' = semaphores
  BY DEF CtrlC, semVars
<1> QED BY <1>3, <1>4, WorkersGone

(* A child that has gone all its rounds owes nothing, and the entry of one *)
(* that could not be created stays.                                        *)
LEMMA EndingKeepsSync ==
  ASSUME TestInv, TestInv', SyncInv, Ending
  PROVE  SyncInv'
<1>1. PICK me : me = CurrentPid
  OBVIOUS
<1>2. PICK gone \in Prog : gone = Nobody /\ gone.at = "none"
  BY NobodyIsProg
<1>3. /\ prog[me].at \in {"print", "end"} \/ (prog[me].at = "mutex" /\ prog[me].i = Rounds)
      /\ EndProcess /\ prog' = [prog EXCEPT ![me] = gone]
      /\ UNCHANGED semVars /\ global' = global
  BY <1>1, <1>2 DEF Ending, Me
<1>4. /\ prog \in [Pids -> Prog] /\ me \in Pids /\ semaphores' = semaphores
      /\ prog'[me] = gone /\ \A p \in Pids \ {me} : prog'[p] = prog[p]
  BY <1>1, <1>3, WhoAmI DEF TestInv, Serial, TestTypes, semVars
<1>5. CASE prog[me].at \in {"print", "end"}
  <2>1. me \in Bosses
    <3>1. {"print", "end"} \subseteq BossAts
      BY DEF BossAts, SyncAts
    <3> QED BY <1>4, <1>5, <3>1 DEF Bosses
  <2>2. Bosses = {me} /\ Workers = {}
    BY <1>5, <2>1 DEF TestInv, Serial, Roles, Families
  <2>3. Bosses' = {} /\ Workers' = {}
    BY <1>2, <1>4, <2>2, AtsApart DEF Bosses, Workers
  <2> QED BY <1>4, <2>3, WorkersGone
<1>6. CASE prog[me].at = "mutex" /\ prog[me].i = Rounds
  <2>1. /\ me \in Workers /\ me \notin Bosses /\ me # idle_pid /\ prog[me] \in Prog
    <3>1. "mutex" \in WorkerAts
      BY DEF WorkerAts
    <3> QED BY <1>1, <1>6, <3>1, WorkerIs
  <2>2. Died({me})
    <3>1. PICK S \in SUBSET Mortal(process_list) : S = {current_process_idx}
                                                   /\ DestroyAndSwitch(S)
      BY <1>3 DEF EndProcess
    <3>2. PidsOf(process_list, S) = {me}
      BY <1>1, <3>1 DEF PidsOf, CurrentPid
    <3> QED BY <3>1, <3>2, DeathFacts DEF TestInv
  <2>3. \A c \in Workers' : c \in Workers /\ c # me /\ prog'[c] = prog[c]
    BY <1>2, <1>4, AtsApart DEF Workers
  <2>4. ASSUME NEW c \in Workers' PROVE Awake(c)' <=> Awake(c)
    <3>1. c \in LivePids(process_list) /\ c \notin {ShellPid, idle_pid} /\ c \notin Bosses
      BY <2>3, ShellStands, AtsApart DEF TestInv, Serial, Roles, Workers, Bosses
    <3>2. Owned(c) = {}
      BY <3>1 DEF TestInv, Serial, Families, Owned, Counting
    <3> QED BY <2>2, <2>3, <3>1, <3>2 DEF Died, Awake
  <2>5. Turns'
    BY <1>3, <2>3, <2>4, TurnsKeep DEF SyncInv
  <2>6. Exclusion'
    <3>1. Inside' \subseteq Inside
      BY <2>3, <2>4 DEF Inside
    <3> QED BY <1>4, <3>1, ExclusionStays DEF SyncInv
  <2>7. ASSUME NEW p, Short(p) PROVE Short(p)'
    <3>1. PICK e \in Counting : /\ children_processes[e].parent_pid = p
                                /\ children_processes[e].child_pid \in FailureCodes
      BY <2>7 DEF Short, Owned
    <3>2. children_processes[e].child_pid # me
      BY <1>4, <3>1 DEF Pids, FailureCodes, NO_SPACE_FOR_PROCESS, PROCESSES_LIMIT_REACHED
    <3>3. e \in Counting' /\ children_processes'[e] = children_processes[e]
      BY <2>2, <3>2 DEF Died
    <3> QED BY <3>1, <3>3 DEF Short, Owned
  <2>8. Account'
    <3>1. Owes(prog[me]) = 0
      <4>1. RoundsLeft(prog[me]) = 0
        BY <1>6, TestsAssumption DEF RoundsLeft
      <4> QED BY <4>1 DEF Owes
    <3>2. Owes(gone) = 0 /\ global \in Int
      BY <1>2, OwesIs, AtsApart DEF TestInv, Serial, TestTypes
    <3>3. Owes(gone) = Owes(prog[me]) - (global' - global)
      BY <1>3, <3>1, <3>2
    <3>4. gone.at \notin BossAts /\ TestTypes'
      BY <1>2, AtsApart DEF TestInv, Serial
    <3> QED BY <1>3, <1>4, <2>1, <2>7, <3>3, <3>4, AccountKeeps DEF SyncInv
  <2> QED BY <2>5, <2>6, <2>8 DEF SyncInv
<1> QED BY <1>3, <1>5, <1>6

(* The timer, and the shell's wait.                                        *)
LEMMA ShellStepsKeepSync ==
  ASSUME TestInv, TestInv', SyncInv, NEW new \in Prog, new.at \in ShellAts,
         prog' = [prog EXCEPT ![ShellPid] = new], UNCHANGED <<semVars, global>>,
         Quiet(ShellPid)
  PROVE  SyncInv'
<1>1. /\ prog \in [Pids -> Prog] /\ ShellPid \in Pids /\ ShellPid \notin Bosses \cup Workers
      /\ semaphores' = semaphores /\ children_processes' = children_processes
      /\ global' = global
  BY ShellStands DEF TestInv, Serial, TestTypes, semVars, Quiet
<1>2. prog'[ShellPid] = new /\ \A p \in Pids \ {ShellPid} : prog'[p] = prog[p]
  BY <1>1
<1>3. \A c \in Workers' : c \in Workers /\ prog'[c] = prog[c]
  BY <1>2, AtsApart DEF Workers
<1>4. \A c \in Workers' : Awake(c)' <=> Awake(c)
  <2>1. \A c \in Workers' : c \notin {ShellPid, idle_pid}
    BY <1>1, <1>3 DEF TestInv, Serial, Roles
  <2> QED BY <2>1 DEF Quiet, Awake
<1>5. Turns'
  <2>1. ShellPid \notin Workers'
    BY <1>1, <1>3
  <2> QED BY <1>1, <1>3, <1>4, <2>1, TurnsKeep DEF SyncInv
<1>6. Exclusion'
  <2>1. Inside' \subseteq Inside
    BY <1>3, <1>4 DEF Inside
  <2> QED BY <1>1, <2>1, ExclusionStays DEF SyncInv
<1>7. Account'
  <2>1. Owes(new) = 0 /\ Owes(prog[ShellPid]) = 0 /\ global \in Int
    BY <1>1, OwesIs, AtsApart DEF TestInv, Serial, TestTypes, Workers
  <2>2. Owes(new) = Owes(prog[ShellPid]) - (global' - global)
    BY <1>1, <2>1
  <2>3. \A p : Short(p) => Short(p)'
    BY <1>1 DEF Short, Owned, Counting
  <2>4. new.at \notin BossAts /\ TestTypes'
    BY AtsApart DEF TestInv, Serial
  <2> QED BY <1>1, <2>2, <2>3, <2>4, AccountKeeps DEF SyncInv
<1> QED BY <1>5, <1>6, <1>7 DEF SyncInv

(* The timer changes who runs, and puts nobody to sleep.                   *)
LEMMA TickingKeepsSync ==
  ASSUME TestInv, TestInv', SyncInv, Ticking \/ UNCHANGED everything
  PROVE  SyncInv'
<1>1. UNCHANGED semVars /\ UNCHANGED testVars /\ Quiet(ShellPid)
  <2>1. CASE Ticking
    <3>1. Quiet(ShellPid)
      BY <2>1, TicksAreQuiet DEF Ticking, TestInv
    <3> QED BY <2>1, <3>1 DEF Ticking
  <2>2. CASE UNCHANGED everything
    <3>1. UNCHANGED vars
      BY <2>2 DEF everything, allVars
    <3> QED BY <2>2, <3>1, StillIsQuiet DEF everything, allVars
  <2> QED BY <2>1, <2>2
<1>2. PICK new \in Prog : new = prog[ShellPid] /\ ShellPid \in Pids
  BY ShellStands DEF TestInv, Serial, TestTypes
<1>3. new.at \in ShellAts /\ prog' = [prog EXCEPT ![ShellPid] = new] /\ global' = global
  BY <1>1, <1>2 DEF TestInv, Serial, Roles, TestTypes, testVars
<1> QED BY <1>1, <1>3, ShellStepsKeepSync

(* The shell waits for its children, and no worker is its child.           *)
LEMMA ShellWaitsKeepsSync ==
  ASSUME TestInv, TestInv', SyncInv, ShellWaits
  PROVE  SyncInv'
<1>1. CurrentPid = ShellPid /\ Waits /\ prog' = [prog EXCEPT ![ShellPid].at = "prompt"]
      /\ UNCHANGED <<semVars, global>>
  BY DEF ShellWaits, GoTo
<1>2. ShellPid \in Pids /\ prog[ShellPid] \in Prog
  BY ShellStands DEF TestInv, Serial, TestTypes
<1>3. PICK new : new = [prog[ShellPid] EXCEPT !.at = "prompt"]
  OBVIOUS
<1>4. new \in Prog /\ new.at \in ShellAts /\ prog' = [prog EXCEPT ![ShellPid] = new]
  BY <1>1, <1>2, <1>3 DEF Prog, ShellAts
<1>5. Quiet(ShellPid)
  BY <1>1, WaitsView
<1> QED BY <1>1, <1>4, <1>5, ShellStepsKeepSync

-----------------------------------------------------------------------------
(* The children of testsync.                                               *)
LEMMA WorkerKeepsSync ==
  ASSUME TestInv, TestInv', SyncInv, NEW me, me = CurrentPid, prog[me].at \in WorkerAts,
         NEW new \in Prog, new.at \in WorkerAts, prog' = [prog EXCEPT ![me] = new],
         children_processes' = children_processes,
         Owes(new) = Owes(prog[me]) - (global' - global),
         InTurn(me)', Exclusion',
         \A c \in Workers : c # me => /\ Awake(c) => Awake(c)'
                                      /\ prog[c].at = "inc" => global' = global
  PROVE  SyncInv'
<1>1. me \in Pids /\ me \in Workers /\ me \notin Bosses
  BY WorkerIs
<1>2. prog'[me] = new /\ \A p \in Pids \ {me} : prog'[p] = prog[p]
  BY <1>1 DEF TestInv, Serial, TestTypes
<1>3. \A c \in Workers' : c # me => c \in Workers /\ prog'[c] = prog[c]
  BY <1>2 DEF Workers
<1>4. Turns'
  BY <1>3, TurnsKeep DEF SyncInv
<1>5. Account'
  <2>1. \A p : Short(p) => Short(p)'
    BY DEF Short, Owned, Counting
  <2>2. new.at \notin BossAts /\ TestTypes'
    BY AtsApart DEF TestInv, Serial
  <2> QED BY <1>1, <2>1, <2>2, AccountKeeps DEF SyncInv
<1> QED BY <1>4, <1>5 DEF SyncInv

(* A worker that runs, at a critical place, is inside, and nobody else is. *)
LEMMA WorkerStands ==
  ASSUME TestInv, SyncInv, NEW me, me = CurrentPid, prog[me].at \in WorkerAts
  PROVE  /\ me \in Workers /\ me # idle_pid /\ Awake(me) /\ InTurn(me)
         /\ prog[me] \in Prog /\ global \in Int /\ Rounds \in Nat
         /\ prog[me].at \in Critical => Inside = {me}
<1>1. /\ me \in Workers /\ me # idle_pid /\ Awake(me) /\ prog[me] \in Prog
      /\ global \in Int /\ Rounds \in Nat
  BY WorkerIs, WhoAmI, TestsAssumption DEF TestInv, Serial, TestTypes
<1>2. prog[me].at \in Critical => Inside = {me}
  BY <1>1 DEF Inside, SyncInv, Exclusion
<1> QED BY <1>1, <1>2 DEF SyncInv, Turns

(* Who is inside after a step of one worker.                               *)
LEMMA InsideAfter ==
  ASSUME TestInv, NEW me \in Workers, NEW new, prog' = [prog EXCEPT ![me] = new]
  PROVE  /\ prog'[me] = new
         /\ \A c \in Inside' : /\ Awake(c)' /\ c # idle_pid
                               /\ c = me => new.at \in Critical
                               /\ c # me /\ Awake(c) => c \in Inside
<1>1. prog \in [Pids -> Prog] /\ me \in Pids /\ me # idle_pid
  BY DEF TestInv, Serial, TestTypes, Workers, Roles
<1>2. prog'[me] = new /\ \A p \in Pids \ {me} : prog'[p] = prog[p]
  BY <1>1
<1>3. ASSUME NEW c \in Inside'
      PROVE  /\ Awake(c)' /\ c # idle_pid
             /\ c = me => new.at \in Critical
             /\ c # me /\ Awake(c) => c \in Inside
  <2>1. c \in Pids /\ prog'[c].at \in WorkerAts /\ prog'[c].at \in Critical /\ Awake(c)'
    BY DEF Inside, Workers
  <2>2. CASE c = me
    BY <1>1, <1>2, <2>1, <2>2
  <2>3. CASE c # me
    <3>1. c \in Workers /\ prog[c].at \in Critical
      BY <1>2, <2>1, <2>3 DEF Workers
    <3> QED BY <2>1, <2>3, <3>1 DEF Inside, TestInv, Serial, Roles
  <2> QED BY <2>2, <2>3
<1> QED BY <1>2, <1>3

(* slowInc: the worker reads the variable, and gives up the CPU.           *)
LEMMA SlowIncReadsKeepsSync ==
  ASSUME TestInv, TestInv', SyncInv, SlowIncReads
  PROVE  SyncInv'
<1>1. PICK me : me = CurrentPid
  OBVIOUS
<1>2. PICK new : new = [prog[me] EXCEPT !.at = "inc", !.aux = global]
  OBVIOUS
<1>3. /\ prog[me].at = "inside" /\ Yield /\ prog' = [prog EXCEPT ![me] = new]
      /\ semaphores' = semaphores /\ global' = global
  BY <1>1, <1>2 DEF SlowIncReads, Me, semVars
<1>4. prog[me].at \in WorkerAts /\ "inc" \in WorkerAts /\ prog[me].at \in Critical
  BY <1>3 DEF WorkerAts, Critical
<1>5. prog[me] \in Prog /\ global \in Int
  BY <1>1, <1>4, WorkerIs DEF TestInv, Serial, TestTypes
<1>6. /\ new \in Prog /\ new.at = "inc" /\ new.aux = global
      /\ new.i = prog[me].i /\ new.inc = prog[me].inc
  BY <1>2, <1>4, <1>5 DEF Prog
<1>7. me \in Workers /\ me # idle_pid /\ Awake(me) /\ InTurn(me) /\ Inside = {me}
  BY <1>1, <1>4, WorkerStands
<1>8. \A c : c # idle_pid => (Awake(c)' <=> Awake(c))
  <2>1. Quiet(idle_pid)
    BY <1>3, TicksAreQuiet DEF TestInv
  <2> QED BY <2>1 DEF Quiet, Awake
<1>9. InTurn(me)'
  <2>1. prog'[me] = new
    BY <1>3, <1>7, InsideAfter
  <2> QED BY <1>3, <1>4, <1>6, <1>7, <1>8, <2>1 DEF InTurn
<1>10. Exclusion'
  <2>1. Inside' \subseteq Inside
    <3>1. \A c \in Inside' : /\ Awake(c)' /\ c # idle_pid
                             /\ c # me /\ Awake(c) => c \in Inside
      BY <1>3, <1>7, InsideAfter
    <3>2. ASSUME NEW c \in Inside' PROVE c \in Inside
      <4>1. Awake(c)
        BY <1>8, <3>1
      <4> QED BY <1>7, <3>1, <4>1
    <3> QED BY <3>2
  <2> QED BY <1>3, <2>1, ExclusionStays DEF SyncInv
<1>11. Owes(new) = Owes(prog[me]) - (global' - global)
  <2>1. Owes(new) = Owes(prog[me])
    BY <1>3, <1>4, <1>6 DEF Owes, RoundsLeft
  <2> QED BY <1>3, <1>5, <2>1, OwesIs
<1>12. children_processes' = children_processes /\ \A c \in Workers : Awake(c) => Awake(c)'
  BY <1>3, <1>8 DEF Yield, TestInv, Serial, Roles
<1> QED BY <1>1, <1>3, <1>4, <1>6, <1>9, <1>10, <1>11, <1>12, WorkerKeepsSync

(* The child adds to what it has read, and nobody has written since.       *)
LEMMA SlowIncWritesKeepsSync ==
  ASSUME TestInv, TestInv', SyncInv, SlowIncWrites
  PROVE  SyncInv'
<1>1. PICK me : me = CurrentPid
  OBVIOUS
<1>2. PICK new : new = [prog[me] EXCEPT !.at = "post"]
  OBVIOUS
<1>3. /\ prog[me].at = "inc" /\ prog' = [prog EXCEPT ![me] = new]
      /\ global' = prog[me].aux + prog[me].inc
      /\ process_list' = process_list /\ children_processes' = children_processes
      /\ semaphores' = semaphores
  BY <1>1, <1>2 DEF SlowIncWrites, GoTo, Me, allVars, vars, semVars
<1>4. prog[me].at \in WorkerAts /\ "post" \in WorkerAts /\ prog[me].at \in Critical
  BY <1>3 DEF WorkerAts, Critical
<1>5. prog[me] \in Prog /\ global \in Int /\ Rounds \in Nat
  BY <1>1, <1>4, WorkerIs, TestsAssumption DEF TestInv, Serial, TestTypes
<1>6. /\ new \in Prog /\ new.at = "post" /\ new.i = prog[me].i /\ new.inc = prog[me].inc
  BY <1>2, <1>4, <1>5 DEF Prog
<1>7. me \in Workers /\ me # idle_pid /\ Awake(me) /\ InTurn(me) /\ Inside = {me}
  BY <1>1, <1>4, WorkerStands
<1>8. \A c : Awake(c)' <=> Awake(c)
  BY <1>3 DEF Awake, Is
<1>9. InTurn(me)'
  <2>1. prog'[me] = new
    BY <1>3, <1>7, InsideAfter
  <2> QED BY <1>4, <1>6, <1>7, <1>8, <2>1 DEF InTurn
<1>10. Exclusion'
  <2>1. Inside' \subseteq Inside
    <3>1. \A c \in Inside' : Awake(c)' /\ (c # me /\ Awake(c) => c \in Inside)
      BY <1>3, <1>7, InsideAfter
    <3> QED BY <1>7, <1>8, <3>1
  <2> QED BY <1>3, <2>1, ExclusionStays DEF SyncInv
<1>11. Owes(new) = Owes(prog[me]) - (global' - global)
  <2>1. /\ global' = global + prog[me].inc /\ prog[me].inc \in {-1, 1}
        /\ prog[me].i \in Int
    BY <1>3, <1>5, <1>7 DEF InTurn, Prog
  <2>2. RoundsLeft(new) = Rounds - prog[me].i - 1 /\ RoundsLeft(prog[me]) = Rounds - prog[me].i
    BY <1>3, <1>6 DEF RoundsLeft
  <2>3. CASE prog[me].inc = 1
    <3>1. Owes(new) = RoundsLeft(new) /\ Owes(prog[me]) = RoundsLeft(prog[me])
      BY <1>4, <1>6, <2>3 DEF Owes
    <3> QED BY <1>5, <2>1, <2>2, <2>3, <3>1
  <2>4. CASE prog[me].inc = -1
    <3>1. Owes(new) = 0 - RoundsLeft(new) /\ Owes(prog[me]) = 0 - RoundsLeft(prog[me])
      BY <1>4, <1>6, <2>4 DEF Owes
    <3> QED BY <1>5, <2>1, <2>2, <2>4, <3>1
  <2> QED BY <2>1, <2>3, <2>4
<1>12. \A c \in Workers : c # me => prog[c].at # "inc"
  <2> SUFFICES ASSUME NEW c \in Workers, c # me, prog[c].at = "inc" PROVE FALSE
    OBVIOUS
  <2>1. Awake(c) /\ prog[c].at \in Critical
    BY DEF SyncInv, Turns, InTurn, Critical
  <2>2. c \in Inside
    BY <2>1 DEF Inside
  <2> QED BY <1>7, <2>2
<1> QED BY <1>1, <1>3, <1>4, <1>6, <1>8, <1>9, <1>10, <1>11, <1>12, WorkerKeepsSync

(* The first child to open the semaphore puts it in slot 0.                *)
LEMMA OpensSlotZero ==
  ASSUME TestInv, OpenSem(SEM_ID, 1)
  PROVE  /\ 0 \in SemSlots /\ ~IsOpen(SEM_ID)
         /\ semaphores' = [semaphores EXCEPT ![0] = [sem_id |-> SEM_ID, sem_val |-> 1]]
<1>1. /\ SeenByScan(SEM_ID) = {} /\ Unused # {}
      /\ semaphores' = [semaphores EXCEPT ![Least(Unused)] = [sem_id |-> SEM_ID, sem_val |-> 1]]
  BY DEF OpenSem, StartSem
<1>2. Unused \in SUBSET SemSlots /\ SemSlots \in SUBSET Nat
  BY DEF Unused, SemSlots
<1>3. 0 \in SemSlots
  <2>1. PICK j \in SemSlots : j \in Unused
    BY <1>1, <1>2
  <2> QED BY <2>1, SemaphoresAssumption DEF SemSlots
<1>4. 0 \in Unused
  <2>1. SUFFICES ASSUME 0 \notin Unused PROVE FALSE
    OBVIOUS
  <2>2. semaphores[0].sem_id = SEM_ID
    BY <1>3, <2>1 DEF Unused, TestInv, OneSlot
  <2>3. \A j \in Unused : 0 < j
    BY <1>2, <2>1
  <2> QED BY <1>1, <1>3, <2>2, <2>3 DEF SeenByScan, Holding
<1>5. Least(Unused) = 0
  <2>1. Unused \in SUBSET Nat /\ Unused # {}
    BY <1>2, <1>4
  <2>2. Least(Unused) \in Unused /\ \A j \in Unused : Least(Unused) <= j
    BY <2>1, LeastIn
  <2>3. Least(Unused) \in Nat /\ Least(Unused) <= 0
    BY <1>4, <2>1, <2>2
  <2> QED BY <2>3
<1>6. ~IsOpen(SEM_ID)
  <2>1. \A i \in Holding(SEM_ID) : i = 0
    BY DEF Holding, TestInv, OneSlot, SEM_ID, EMPTY_SEM
  <2>2. 0 \notin Holding(SEM_ID)
    BY <1>4 DEF Holding, Unused, SEM_ID, EMPTY_SEM
  <2> QED BY <2>1, <2>2 DEF IsOpen
<1> QED BY <1>1, <1>3, <1>5, <1>6

(* A worker opens the semaphore: the first creates it with the value 1.    *)
LEMMA ChildOpensKeepsSync ==
  ASSUME TestInv, TestInv', SyncInv, ChildOpens
  PROVE  SyncInv'
<1>1. PICK me : me = CurrentPid
  OBVIOUS
<1>2. PICK new : new = [prog[me] EXCEPT !.at = "mutex"]
  OBVIOUS
<1>3. /\ prog[me].at = "open" /\ prog' = [prog EXCEPT ![me] = new]
      /\ OpenSem(SEM_ID, 1) \/ UNCHANGED allVars
      /\ global' = global
  BY <1>1, <1>2 DEF ChildOpens, GoTo, Me
<1>4. prog[me].at \in WorkerAts /\ "mutex" \in WorkerAts /\ "mutex" \notin Critical
  BY <1>3 DEF WorkerAts, Critical
<1>5. prog[me] \in Prog /\ global \in Int
  BY <1>1, <1>4, WorkerIs DEF TestInv, Serial, TestTypes
<1>6. /\ new \in Prog /\ new.at = "mutex" /\ new.i = prog[me].i /\ new.inc = prog[me].inc
  BY <1>2, <1>4, <1>5 DEF Prog
<1>7. me \in Workers /\ InTurn(me)
  BY <1>1, <1>4, WorkerStands
<1>8. process_list' = process_list /\ children_processes' = children_processes
  BY <1>3 DEF OpenSem, StartSem, allVars, vars
<1>9. \A c : Awake(c)' <=> Awake(c)
  BY <1>8 DEF Awake, Is
<1>10. prog'[me] = new /\ Inside' \subseteq Inside
  <2>1. /\ prog'[me] = new
        /\ \A c \in Inside' : /\ Awake(c)' /\ c # idle_pid
                              /\ c = me => new.at \in Critical
                              /\ c # me /\ Awake(c) => c \in Inside
    BY <1>3, <1>7, InsideAfter
  <2> QED BY <1>4, <1>6, <1>9, <2>1
<1>11. InTurn(me)'
  BY <1>4, <1>6, <1>7, <1>10 DEF InTurn
<1>12. Exclusion'
  <2>1. CASE UNCHANGED allVars
    <3>1. semaphores' = semaphores
      BY <2>1 DEF allVars, semVars
    <3> QED BY <1>10, <3>1, ExclusionStays DEF SyncInv
  <2>2. CASE OpenSem(SEM_ID, 1)
    <3>1. /\ 0 \in SemSlots /\ ~IsOpen(SEM_ID)
          /\ semaphores' = [semaphores EXCEPT ![0] = [sem_id |-> SEM_ID, sem_val |-> 1]]
      BY <2>2, OpensSlotZero
    <3>2. semaphores'[0].sem_val = 1
      BY <3>1 DEF TestInv, OneSlot, SemTypeOK
    <3>3. Inside = {}
      BY <3>1 DEF Inside, Critical, TestInv, OneSlot
    <3> QED BY <1>10, <3>2, <3>3 DEF Exclusion
  <2> QED BY <1>3, <2>1, <2>2
<1>13. Owes(new) = Owes(prog[me]) - (global' - global)
  <2>1. Owes(new) = Owes(prog[me])
    BY <1>3, <1>4, <1>6 DEF Owes, RoundsLeft
  <2> QED BY <1>3, <1>5, <2>1, OwesIs
<1> QED BY <1>1, <1>3, <1>4, <1>6, <1>8, <1>9, <1>11, <1>12, <1>13, WorkerKeepsSync

(* A permit is there only when nobody is inside; whoever finds none sleeps.*)
LEMMA ChildWaitsKeepsSync ==
  ASSUME TestInv, TestInv', SyncInv, ChildWaits
  PROVE  SyncInv'
<1>1. PICK me : me = CurrentPid
  OBVIOUS
<1>2. PICK new : new = [prog[me] EXCEPT !.at = "inside"]
  OBVIOUS
<1>3. /\ prog[me].at = "mutex" /\ prog[me].i < Rounds /\ prog' = [prog EXCEPT ![me] = new]
      /\ WaitSem(SEM_ID) /\ global' = global
  BY <1>1, <1>2 DEF ChildWaits, GoTo, Me
<1>4. /\ prog[me].at \in WorkerAts /\ "inside" \in WorkerAts
      /\ prog[me].at \notin Critical
  BY <1>3 DEF WorkerAts, Critical
<1>5. prog[me] \in Prog /\ global \in Int
  BY <1>1, <1>4, WorkerIs DEF TestInv, Serial, TestTypes
<1>6. /\ new \in Prog /\ new.at = "inside" /\ new.i = prog[me].i /\ new.inc = prog[me].inc
  BY <1>2, <1>4, <1>5 DEF Prog
<1>7. me \in Workers /\ InTurn(me)
  BY <1>1, <1>4, WorkerStands
<1>8. /\ prog'[me] = new
      /\ \A c \in Inside' : /\ Awake(c)' /\ c # idle_pid
                            /\ c = me => new.at \in Critical
                            /\ c # me /\ Awake(c) => c \in Inside
  BY <1>3, <1>7, InsideAfter
<1>9. IsOpen(SEM_ID) /\ FindSem(SEM_ID) = 0 /\ 0 \in SemSlots
  BY <1>3, <1>7, OpenIs
<1>10. semaphores[0].sem_val \in {0, 1} /\ (Inside # {} => semaphores[0].sem_val = 0)
  BY <1>9 DEF SyncInv, Exclusion
<1>11. ASSUME semaphores[0].sem_val > 0, UNCHANGED vars,
              semaphores' = [semaphores EXCEPT ![0].sem_val = semaphores[0].sem_val - 1]
       PROVE  /\ Exclusion' /\ children_processes' = children_processes
              /\ \A c \in Workers : c # me => (Awake(c) => Awake(c)')
  <2>1. \A c : Awake(c)' <=> Awake(c)
    BY <1>11 DEF Awake, Is, vars
  <2>2. Inside = {} /\ semaphores[0].sem_val = 1
    BY <1>10, <1>11
  <2>3. semaphores'[0].sem_val = 0
    <3>1. semaphores \in [SemSlots -> SemInfo]
      BY DEF TestInv, OneSlot, SemTypeOK
    <3> QED BY <1>9, <1>11, <2>2, <3>1 DEF SemInfo
  <2>4. \A c \in Inside' : c = me
    BY <1>8, <2>1, <2>2
  <2>5. Exclusion'
    BY <2>3, <2>4 DEF Exclusion
  <2>6. children_processes' = children_processes
    BY <1>11 DEF vars
  <2> QED BY <2>1, <2>5, <2>6
<1>12. ASSUME ForceTimerTick(ChangeProcessState(process_list, CurrentPid, PAUSED_BY_SEM),
                             dim, 0),
              UNCHANGED <<semaphores, dim, pid_value, children_processes>>
       PROVE  /\ Exclusion' /\ children_processes' = children_processes
              /\ \A c \in Workers : c # me => (Awake(c) => Awake(c)')
  <2>1. PAUSED_BY_SEM \in States \ {DEAD} /\ 0 \in Nat /\ READY # PAUSED_BY_SEM
    BY DEF States, PAUSED_BY_SEM, DEAD, READY
  <2>2. \A c, t : c # idle_pid =>
          (Is(process_list', c, t) <=>
             IF c = CurrentPid THEN t = PAUSED_BY_SEM ELSE Is(process_list, c, t))
    BY <1>12, <2>1, SleepView DEF TestInv
  <2>3. \A c : c # idle_pid => (Awake(c)' <=> c # me /\ Awake(c))
    BY <1>1, <2>1, <2>2 DEF Awake
  <2>4. Inside' \subseteq Inside
    <3>1. ASSUME NEW c \in Inside' PROVE c \in Inside
      <4>1. c # me /\ Awake(c)
        BY <1>8, <2>3
      <4> QED BY <1>8, <4>1
    <3> QED BY <3>1
  <2>5. Exclusion'
    BY <1>12, <2>4, ExclusionStays DEF SyncInv
  <2>6. \A c \in Workers : c # me => (Awake(c) => Awake(c)')
    BY <2>3 DEF TestInv, Serial, Roles
  <2> QED BY <1>12, <2>5, <2>6
<1>13. /\ Exclusion' /\ children_processes' = children_processes
       /\ \A c \in Workers : c # me => (Awake(c) => Awake(c)')
  BY <1>3, <1>9, <1>11, <1>12 DEF WaitSem
<1>14. InTurn(me)'
  BY <1>3, <1>6, <1>7, <1>8 DEF InTurn
<1>15. Owes(new) = Owes(prog[me]) - (global' - global)
  <2>1. Owes(new) = Owes(prog[me])
    BY <1>3, <1>4, <1>6 DEF Owes, RoundsLeft
  <2> QED BY <1>3, <1>5, <2>1, OwesIs
<1> QED BY <1>1, <1>3, <1>4, <1>6, <1>13, <1>14, <1>15, WorkerKeepsSync

(* Whoever posts leaves, and hands the permit to the first that waits, or  *)
(* leaves it in the semaphore.                                             *)
LEMMA ChildPostsKeepsSync ==
  ASSUME TestInv, TestInv', SyncInv, ChildPosts
  PROVE  SyncInv'
<1>1. PICK me : me = CurrentPid
  OBVIOUS
<1>2. PICK new : new = [prog[me] EXCEPT !.at = "mutex", !.i = prog[me].i + 1]
  OBVIOUS
<1>3. /\ prog[me].at = "post" /\ prog' = [prog EXCEPT ![me] = new]
      /\ PostSem(SEM_ID) /\ global' = global
  BY <1>1, <1>2 DEF ChildPosts, NextI, Me
<1>4. /\ prog[me].at \in WorkerAts /\ "mutex" \in WorkerAts
      /\ prog[me].at \in Critical /\ "mutex" \notin Critical
  BY <1>3 DEF WorkerAts, Critical
<1>5. prog[me] \in Prog /\ global \in Int /\ Rounds \in Nat
  BY <1>1, <1>4, WorkerIs, TestsAssumption DEF TestInv, Serial, TestTypes
<1>6. /\ new \in Prog /\ new.at = "mutex" /\ new.i = prog[me].i + 1
      /\ new.inc = prog[me].inc
  <2>1. PICK j \in Nat : j = prog[me].i + 1
    BY <1>5 DEF Prog
  <2>2. new = [prog[me] EXCEPT !.at = "mutex", !.i = j]
    BY <1>2, <2>1
  <2> QED BY <1>4, <1>5, <2>1, <2>2 DEF Prog
<1>7. me \in Workers /\ InTurn(me) /\ Inside = {me}
  BY <1>1, <1>4, WorkerStands
<1>8. /\ prog'[me] = new
      /\ \A c \in Inside' : Awake(c)' /\ c # me /\ ~Awake(c)
  <2>1. /\ prog'[me] = new
        /\ \A c \in Inside' : /\ Awake(c)' /\ c # idle_pid
                              /\ c = me => new.at \in Critical
                              /\ c # me /\ Awake(c) => c \in Inside
    BY <1>3, <1>7, InsideAfter
  <2> QED BY <1>4, <1>6, <1>7, <2>1
<1>9. IsOpen(SEM_ID) /\ buffer = "live" /\ FindSem(SEM_ID) = 0 /\ 0 \in SemSlots
  BY <1>3, <1>7, OpenIs
<1>10. semaphores[0].sem_val = 0
  BY <1>7, <1>9 DEF SyncInv, Exclusion
<1>11. ASSUME UNCHANGED vars,
              semaphores' = [semaphores EXCEPT ![0].sem_val = semaphores[0].sem_val + 1]
       PROVE  Exclusion' /\ \A c : Awake(c) => Awake(c)'
  <2>1. \A c : Awake(c)' <=> Awake(c)
    BY <1>11 DEF Awake, Is, vars
  <2>2. Inside' = {}
    BY <1>8, <2>1
  <2>3. semaphores'[0].sem_val = 1
    <3>1. semaphores \in [SemSlots -> SemInfo]
      BY DEF TestInv, OneSlot, SemTypeOK
    <3> QED BY <1>9, <1>10, <1>11, <3>1 DEF SemInfo
  <2> QED BY <2>1, <2>2, <2>3 DEF Exclusion
<1>12. ASSUME NEW pid, process_list' = ChangeProcessState(process_list, pid, READY),
              semaphores' = semaphores
       PROVE  Exclusion' /\ \A c : Awake(c) => Awake(c)'
  <2>1. \A c : Awake(c)' => Awake(c) \/ c = pid
    <3>1. CASE pid \notin LivePids(process_list)
      BY <1>12, <3>1 DEF ChangeProcessState, Awake, Is
    <3>2. CASE pid \in LivePids(process_list)
      BY <1>12, <3>2, StateView DEF Awake, TestInv, IInv, States, READY, DEAD
    <3> QED BY <3>1, <3>2
  <2>2. \A c : Awake(c) => Awake(c)'
    <3>1. CASE pid \notin LivePids(process_list)
      BY <1>12, <3>1 DEF ChangeProcessState, Awake, Is
    <3>2. CASE pid \in LivePids(process_list)
      BY <1>12, <3>2, StateView DEF Awake, TestInv, IInv, States, READY, DEAD
    <3> QED BY <3>1, <3>2
  <2>3. \A c \in Inside' : c = pid
    BY <1>8, <2>1
  <2>4. IsOpen(SEM_ID)' <=> IsOpen(SEM_ID)
    BY <1>12 DEF IsOpen, Holding
  <2> QED BY <1>10, <1>12, <2>2, <2>3, <2>4 DEF Exclusion
<1>13. Exclusion' /\ \A c : Awake(c) => Awake(c)'
  BY <1>3, <1>9, <1>11, <1>12 DEF PostSem
<1>14. InTurn(me)'
  <2>1. prog[me].i \in Nat /\ prog[me].i < Rounds
    BY <1>4, <1>5, <1>7 DEF InTurn, Prog
  <2>2. new.i <= Rounds
    BY <1>5, <1>6, <2>1
  <2> QED BY <1>4, <1>6, <1>7, <1>8, <2>2 DEF InTurn
<1>15. Owes(new) = Owes(prog[me]) - (global' - global)
  <2>1. RoundsLeft(new) = RoundsLeft(prog[me])
    <3>1. prog[me].i \in Int
      BY <1>5 DEF Prog
    <3> QED BY <1>3, <1>5, <1>6, <3>1 DEF RoundsLeft
  <2>2. Owes(new) = Owes(prog[me])
    BY <1>4, <1>6, <2>1 DEF Owes
  <2> QED BY <1>3, <1>5, <2>2, OwesIs
<1>16. children_processes' = children_processes
  BY <1>3 DEF PostSem, vars
<1> QED BY <1>1, <1>3, <1>4, <1>6, <1>13, <1>14, <1>15, <1>16, WorkerKeepsSync

-----------------------------------------------------------------------------
(* testsync itself.                                                        *)
LEMMA SyncWaitsKeepsSync ==
  ASSUME TestInv, TestInv', SyncInv, SyncWaits
  PROVE  SyncInv'
<1>1. PICK me : me = CurrentPid
  OBVIOUS
<1>2. PICK new : new = [prog[me] EXCEPT !.at = "close"]
  OBVIOUS
<1>3. /\ prog[me].at = "sync" /\ prog[me].i = 2 * TOTAL_PAIR_PROCESSES /\ Waits
      /\ prog' = [prog EXCEPT ![me] = new]
      /\ semaphores' = semaphores /\ global' = global
  BY <1>1, <1>2 DEF SyncWaits, GoTo, Me, semVars
<1>4. prog[me].at \in BossAts /\ new.at = "close"
  <2>1. "sync" \in BossAts
    BY DEF BossAts, SyncAts
  <2> QED BY <1>1, <1>2, <1>3, <2>1, WhoAmI DEF Me, Prog
<1>5. /\ me \in Pids /\ me \in Bosses /\ Bosses = {me} /\ me \notin Workers
      /\ prog[me] \in Prog /\ prog \in [Pids -> Prog]
  BY <1>1, <1>4, WhoAmI, AtsApart DEF Me, TestInv, Serial, Roles, Workers, TestTypes
<1>6. prog'[me] = new /\ \A p \in Pids \ {me} : prog'[p] = prog[p]
  BY <1>3, <1>5
<1>7. "close" \in BossAts /\ "close" \notin WorkerAts
  BY DEF BossAts, SyncAts, WorkerAts
<1>8. Bosses' = {me} /\ \A c \in Workers' : c \in Workers /\ c # me /\ prog'[c] = prog[c]
  BY <1>4, <1>5, <1>6, <1>7 DEF Bosses, Workers
<1>9. Quiet(me)
  BY <1>1, <1>3, WaitsView
<1>10. \A c \in Workers' : Awake(c)' <=> Awake(c)
  <2>1. \A c \in Workers' : c \notin {me, idle_pid}
    BY <1>8 DEF TestInv, Serial, Roles
  <2> QED BY <1>9, <2>1 DEF Quiet, Awake
<1>11. Turns'
  BY <1>3, <1>8, <1>10, TurnsKeep DEF SyncInv
<1>12. Exclusion'
  <2>1. Inside' \subseteq Inside
    BY <1>8, <1>10 DEF Inside
  <2> QED BY <1>3, <2>1, ExclusionStays DEF SyncInv
<1>13. Account'
  <2>1. Short(me) => Short(me)'
    BY <1>9 DEF Quiet, Short, Owned, Counting
  <2>2. Owed' = Owed
    <3>1. "sync" \notin WorkerAts
      BY DEF WorkerAts
    <3>2. Owes(prog[me]) = 0 /\ Owes(prog'[me]) = 0
      BY <1>3, <1>4, <1>6, <1>7, <3>1 DEF Owes
    <3>3. \A p \in Pids : Owes(prog'[p]) = Owes(prog[p])
      BY <1>6, <3>2
    <3>4. Owed' = [p \in Pids |-> Owes(prog'[p])]
      BY DEF Owed, Owes, RoundsLeft
    <3> QED BY <3>3, <3>4 DEF Owed
  <2>3. Ahead(prog[me]) = 0 /\ Ahead(prog'[me]) = 0 /\ prog[me].i # 0
    <3>1. TOTAL_PAIR_PROCESSES \in Nat \ {0}
      BY TestsAssumption
    <3>2. \A n \in Nat \ {0} : (2 * n) % 2 # 1 /\ 2 * n # 0
      OBVIOUS
    <3> QED BY <1>3, <1>4, <1>6, <3>1, <3>2 DEF Ahead
  <2>4. Short(me) \/ Total(Owed, 0 - (global + 0))
    BY <1>3, <1>5, <2>3 DEF SyncInv, Account
  <2>5. Short(me)' \/ Total(Owed', 0 - (global' + Ahead(prog'[me])))
    BY <1>3, <2>1, <2>2, <2>3, <2>4
  <2>6. Ahead(prog'[me]) = Ahead(prog[me])'
    BY DEF Ahead
  <2>7. (Short(me) \/ Total(Owed, 0 - (global + Ahead(prog[me]))))'
    BY <2>5, <2>6 DEF Total
  <2> QED BY <1>4, <1>6, <1>8, <2>7 DEF Account
<1> QED BY <1>11, <1>12, <1>13 DEF SyncInv

(* It comes back from its wait when every child has gone: nothing is owed. *)
LEMMA SyncClosesKeepsSync ==
  ASSUME TestInv, TestInv', SyncInv, SyncCloses
  PROVE  SyncInv'
<1>1. PICK me : me = CurrentPid
  OBVIOUS
<1>2. PICK new : new = [prog[me] EXCEPT !.at = "print"]
  OBVIOUS
<1>3. /\ prog[me].at = "close" /\ prog' = [prog EXCEPT ![me] = new]
      /\ CloseSem(SEM_ID) \/ CloseUnknown(SEM_ID)
      /\ global' = global
  BY <1>1, <1>2 DEF SyncCloses, GoTo, Me
<1>4. prog[me].at \in BossAts /\ "print" \notin WorkerAts
  BY <1>3 DEF BossAts, SyncAts, WorkerAts
<1>5. /\ me \in Pids /\ prog[me] \in Prog /\ me \in Bosses /\ Bosses = {me} /\ Awake(me)
      /\ prog \in [Pids -> Prog] /\ global \in Int
  BY <1>1, <1>4, WhoAmI DEF Me, TestInv, Serial, Roles, TestTypes
<1>6. new.at = "print" /\ prog'[me] = new /\ \A p \in Pids \ {me} : prog'[p] = prog[p]
  BY <1>2, <1>3, <1>5 DEF Prog
<1>7. Owned(me) = {} /\ Workers = {}
  <2>1. Owned(me) = {}
    BY <1>3, <1>5 DEF TestInv, Serial, Returned
  <2> QED BY <1>5, <2>1 DEF TestInv, Serial, Families, Names
<1>8. global = 0
  <2>1. Total(Owed, 0 - (global + Ahead(prog[me])))
    BY <1>3, <1>5, <1>7 DEF SyncInv, Account, Short
  <2>2. Ahead(prog[me]) = 0
    BY <1>3 DEF Ahead
  <2>3. 0 - (global + 0) = 0
    BY <1>7, <2>1, <2>2, NothingOwed DEF TestInv, Serial
  <2> QED BY <1>5, <2>3
<1>9. Workers' = {} /\ \A p \in Bosses' : p = me
  BY <1>4, <1>5, <1>6, <1>7 DEF Workers, Bosses
<1>10. Turns' /\ Inside' = {}
  BY <1>9 DEF Turns, Inside
<1>11. Exclusion'
  <2>1. semaphores \in [SemSlots -> SemInfo]
    BY DEF TestInv, OneSlot, SemTypeOK
  <2>2. \/ semaphores' = [semaphores EXCEPT ![FindSem(SEM_ID)] = EmptySem]
        \/ semaphores' = semaphores
    BY <1>3 DEF CloseSem, CloseUnknown, allVars, semVars
  <2>3. \A i \in SemSlots : semaphores'[i] \in {semaphores[i], EmptySem}
    BY <2>1, <2>2
  <2>4. EmptySem.sem_val = 0 /\ EmptySem.sem_id # SEM_ID
    BY DEF EmptySem, EMPTY_SEM, SEM_ID
  <2>5. IsOpen(SEM_ID)' => IsOpen(SEM_ID) /\ 0 \in SemSlots
    <3>1. \A i \in Holding(SEM_ID)' : i \in Holding(SEM_ID) /\ i \in SemSlots
      BY <2>3, <2>4 DEF Holding
    <3>2. \A i \in Holding(SEM_ID) : i = 0
      BY DEF Holding, TestInv, OneSlot, SEM_ID, EMPTY_SEM
    <3> QED BY <3>1, <3>2 DEF IsOpen
  <2> QED BY <1>10, <2>3, <2>4, <2>5 DEF SyncInv, Exclusion
<1>12. Account'
  BY <1>3, <1>6, <1>8, <1>9 DEF Account
<1> QED BY <1>10, <1>11, <1>12 DEF SyncInv

(* Before the first child there is none.                                   *)
LEMMA BeginsAlone ==
  ASSUME TestInv, NEW me \in Bosses, prog[me].at = "sync", prog[me].i = 0
  PROVE  Workers = {}
<1>1. me \in Working /\ Created(prog[me]) = 0
  BY DEF Working, Created
<1>2. Cardinality(Kids(me)) <= 0 /\ IsFiniteSet(Kids(me))
  BY <1>1, Places DEF TestInv, Serial, Room
<1>3. Kids(me) = {}
  BY <1>2, FS_CardinalityType, FS_EmptySet
<1>4. \A c \in Workers : c \notin FailureCodes
  BY DEF Workers, Pids, FailureCodes, NO_SPACE_FOR_PROCESS, PROCESSES_LIMIT_REACHED
<1>5. \A e \in Owned(me) : children_processes[e].child_pid \in FailureCodes
  BY <1>3 DEF Kids, Failed
<1> QED BY <1>4, <1>5 DEF TestInv, Serial, Families, Roles, Names

(* A refused creation leaves its entry.                                    *)
LEMMA RefusalIsSeen ==
  ASSUME NEW me, me = CurrentPid, FreeEntries(children_processes) # {},
         NEW c \in FailureCodes, children_processes \in [Entries -> ChildInfo],
         children_processes' = AddChild(children_processes, CurrentPid, c)
  PROVE  Short(me)'
<1>1. FreeEntries(children_processes) \in SUBSET Nat
      /\ FreeEntries(children_processes) \subseteq Entries
  BY DEF FreeEntries, Entries
<1>2. PICK e \in Entries : e = Least(FreeEntries(children_processes))
  BY <1>1, LeastIn
<1>3. children_processes' = [children_processes EXCEPT ![e] =
        [parent_pid |-> me, child_pid |-> c, state |-> READY]]
  BY <1>2 DEF AddChild
<1>4. /\ children_processes'[e].parent_pid = me /\ children_processes'[e].child_pid = c
      /\ children_processes'[e].state = READY
  BY <1>3
<1> QED BY <1>4 DEF Short, Owned, Counting

(* A boss that makes children goes from one to the next.                   *)
LEMMA CreatingKeepsTurns ==
  ASSUME TestInv, SyncInv, NEW me \in Bosses, prog[me].at = "sync",
         global' = IF prog[me].i = 0 THEN 0 ELSE global,
         semaphores' = semaphores, \A c : Awake(c) => Awake(c)',
         \A c \in Workers' : \/ c \in Workers /\ prog'[c] = prog[c] /\ (Awake(c)' => Awake(c))
                            \/ /\ prog'[c].at = "open" /\ prog'[c].i = 0
                               /\ prog'[c].inc \in {-1, 1}
  PROVE  Turns' /\ Exclusion'
<1>1. Workers # {} => global' = global
  BY BeginsAlone
<1>2. "open" \notin Critical /\ Rounds \in Nat
  BY TestsAssumption DEF Critical
<1>3. ASSUME NEW c \in Workers' PROVE InTurn(c)' /\ (c \in Inside' => c \in Inside)
  <2>1. CASE c \in Workers /\ prog'[c] = prog[c] /\ (Awake(c)' => Awake(c))
    <3>1. InTurn(c)
      BY <2>1 DEF SyncInv, Turns
    <3> QED BY <1>1, <2>1, <3>1 DEF InTurn, Inside
  <2>2. CASE prog'[c].at = "open" /\ prog'[c].i = 0 /\ prog'[c].inc \in {-1, 1}
    BY <1>2, <2>2 DEF InTurn, Inside
  <2> QED BY <1>3, <2>1, <2>2
<1>4. Inside' \subseteq Inside
  BY <1>3 DEF Inside
<1> QED BY <1>3, <1>4, ExclusionStays DEF Turns, SyncInv

(* The pairs even out: what a decrementer will take, the incrementer after *)
(* it brings back.                                                         *)
LEMMA PairsEvenOut ==
  ASSUME NEW i \in Nat, NEW inc, inc = IF i % 2 = 0 THEN -1 ELSE 1,
         NEW r \in Prog, r.at = "sync", r.i = i, NEW s \in Prog, s.at = "sync", s.i = i + 1,
         NEW child \in Prog, child.at = "open", child.i = 0, child.inc = inc
  PROVE  /\ Owes(r) = 0 /\ Owes(s) = 0 /\ Owes(child) \in Int
         /\ Ahead(r) \in Int /\ Ahead(s) \in Int
         /\ Owes(child) = Ahead(r) - Ahead(s)
<1>1. "sync" \notin WorkerAts /\ "open" \in WorkerAts /\ Rounds \in Nat
  BY TestsAssumption DEF WorkerAts
<1>2. Owes(r) = 0 /\ Owes(s) = 0 /\ Owes(child) \in Int
  BY <1>1, OwesIs
<1>3. RoundsLeft(child) = Rounds
  BY <1>1 DEF RoundsLeft
<1>4. CASE i % 2 = 0
  <2>1. (i + 1) % 2 = 1
    BY <1>4
  <2>2. Owes(child) = 0 - Rounds
    BY <1>1, <1>3, <1>4 DEF Owes
  <2>3. Ahead(r) = 0 /\ Ahead(s) = Rounds
    BY <1>4, <2>1 DEF Ahead
  <2> QED BY <1>1, <1>2, <2>2, <2>3
<1>5. CASE i % 2 = 1
  <2>1. (i + 1) % 2 = 0
    BY <1>5
  <2>2. Owes(child) = Rounds
    BY <1>1, <1>3, <1>5 DEF Owes
  <2>3. Ahead(r) = Rounds /\ Ahead(s) = 0
    BY <1>5, <2>1 DEF Ahead
  <2> QED BY <1>1, <1>2, <2>2, <2>3
<1>6. i % 2 \in {0, 1}
  OBVIOUS
<1> QED BY <1>4, <1>5, <1>6

(* testsync creates a worker, which from now on owes all its rounds.       *)
LEMMA SyncCreatesKeepsSync ==
  ASSUME RoomForTests, TestInv, TestInv', SyncInv, SyncCreates
  PROVE  SyncInv'
<1>1. PICK me : me = CurrentPid
  OBVIOUS
<1>2. PICK i : i = prog[me].i
  OBVIOUS
<1>3. PICK inc : inc = IF i % 2 = 0 THEN -1 ELSE 1
  OBVIOUS
<1>4. PICK new : new = [prog[me] EXCEPT !.i = i + 1]
  OBVIOUS
<1>5. PICK child : child = [At("open") EXCEPT !.inc = inc]
  OBVIOUS
<1>6. /\ prog[me].at = "sync" /\ i < 2 * TOTAL_PAIR_PROCESSES
      /\ Creates(child, new) \/ IsRefused(new)
      /\ global' = IF i = 0 THEN 0 ELSE global
  BY <1>1, <1>2, <1>3, <1>4, <1>5 DEF SyncCreates, Me
<1>7. /\ me \in Pids /\ prog[me] \in Prog /\ me \in Bosses /\ Bosses = {me}
      /\ me \notin Workers /\ prog \in [Pids -> Prog] /\ global \in Int
  <2>1. "sync" \in BossAts
    BY DEF BossAts, SyncAts
  <2> QED BY <1>1, <1>6, <2>1, WhoAmI, AtsApart
          DEF Me, TestInv, Serial, Roles, Workers, TestTypes
<1>8. i \in Nat /\ new \in Prog /\ new.at = "sync" /\ new.i = i + 1
  <2>1. i \in Nat
    BY <1>2, <1>7 DEF Prog
  <2>2. PICK j \in Nat : j = i + 1
    BY <2>1
  <2>3. new = [prog[me] EXCEPT !.i = j]
    BY <1>4, <2>2
  <2> QED BY <1>6, <1>7, <2>1, <2>2, <2>3 DEF Prog
<1>9. /\ child \in Prog /\ child.at = "open" /\ child.i = 0 /\ child.inc = inc
      /\ inc \in {-1, 1}
  <2>1. inc \in {-1, 1} /\ "open" \in WorkerAts
    BY <1>3 DEF WorkerAts
  <2> QED BY <1>5, <2>1 DEF At, Prog
<1>10. FreeEntries(children_processes) # {}
  <2>1. me \in Working /\ Created(prog[me]) < 2 * TOTAL_PAIR_PROCESSES
    BY <1>2, <1>6, <1>7 DEF Working, Created
  <2>2. \A p \in Bosses : p \in Working /\ Created(prog[p]) < 2 * TOTAL_PAIR_PROCESSES
    BY <1>7, <2>1
  <2> QED BY <2>2, RoomLeft
<1>11. /\ "sync" \in BossAts /\ "sync" \notin WorkerAts /\ "open" \notin BossAts
       /\ child.at \notin BossAts /\ new.at \notin WorkerAts
  BY <1>8, <1>9 DEF BossAts, SyncAts, CreateAts, PrioAts, WorkerAts
<1>12. CASE Creates(child, new)
  <2>1. PICK priority \in Priorities : CreateChild(priority)
    BY <1>12 DEF Creates
  <2>2. Born
    BY <1>10, <2>1, BirthFacts
  <2>3. PICK b : b = pid_value
    OBVIOUS
  <2>4. prog' = [prog EXCEPT ![me] = new, ![b] = child] /\ semaphores' = semaphores
    BY <1>1, <1>12, <2>3 DEF Creates, semVars
  <2>5. b \in Pids /\ b # me /\ prog[b].at = "none" /\ b \notin Workers
    BY <1>1, <2>2, <2>3, AtsApart DEF Born, Workers
  <2>6. /\ prog'[me] = new /\ prog'[b] = child
        /\ \A p \in Pids \ {me, b} : prog'[p] = prog[p]
    BY <1>7, <2>4, <2>5
  <2>7. \A c : c # b => (Awake(c)' <=> Awake(c))
    BY <2>2, <2>3 DEF Born, Awake
  <2>8. \A c : Awake(c) => Awake(c)'
    BY <2>2 DEF Born, Awake
  <2>9. Turns' /\ Exclusion'
    <3>1. \A c \in Workers' : c # me /\ (c # b => c \in Workers)
      BY <1>11, <2>6 DEF Workers
    <3>2. \A c \in Workers' :
            \/ c \in Workers /\ prog'[c] = prog[c] /\ (Awake(c)' => Awake(c))
            \/ /\ prog'[c].at = "open" /\ prog'[c].i = 0 /\ prog'[c].inc \in {-1, 1}
      BY <1>9, <2>6, <2>7, <3>1 DEF Workers
    <3>3. global' = IF prog[me].i = 0 THEN 0 ELSE global
      BY <1>2, <1>6
    <3> QED BY <1>6, <1>7, <2>4, <2>8, <3>2, <3>3, CreatingKeepsTurns
  <2>10. \A p \in Bosses' : p = me
    BY <1>7, <1>11, <2>6 DEF Bosses
  <2>11. /\ Owes(prog[me]) = 0 /\ Owes(new) = 0 /\ Owes(child) \in Int
         /\ Ahead(prog[me]) \in Int /\ Ahead(new) \in Int
         /\ Owes(child) = Ahead(prog[me]) - Ahead(new)
    BY <1>2, <1>3, <1>6, <1>7, <1>8, <1>9, PairsEvenOut
  <2>12. ASSUME NEW m \in Int, Total(Owed, m)
         PROVE  Total(Owed', m + Owes(child))
    <3>1. Owed \in [Pids -> Int] /\ \A p \in Pids : Owed[p] = Owes(prog[p])
      BY OwedIs DEF TestInv, Serial
    <3>2. Owed' \in [Pids -> Int] /\ \A p \in Pids : Owed'[p] = Owes(prog'[p])
      <4>1. \A p \in Pids : prog'[p] \in Prog
        BY DEF TestInv, Serial, TestTypes
      <4>2. Owed' = [p \in Pids |-> Owes(prog'[p])]
        BY DEF Owed, Owes, RoundsLeft
      <4> QED BY <4>1, <4>2, OwesIs
    <3>3. Owes(prog[b]) = 0
      BY <1>7, <2>5, OwesIs, AtsApart
    <3>4. Owed'[b] = Owed[b] + Owes(child)
      BY <2>5, <2>6, <2>11, <3>1, <3>2, <3>3
    <3>5. \A p \in Pids \ {b} : Owed'[p] = Owed[p]
      BY <1>7, <2>6, <2>11, <3>1, <3>2
    <3> QED BY <2>5, <2>11, <2>12, <3>1, <3>2, <3>4, <3>5, TotalMoves
  <2>13. Short(me) \/ Total(Owed, 0 - (global' + Ahead(prog[me])))
    <3>1. CASE i = 0
      <4>1. global' = 0 /\ Ahead(prog[me]) = 0
        BY <1>2, <1>6, <3>1 DEF Ahead
      <4>2. Total(Owed, 0)
        BY <1>2, <1>6, <1>7, <3>1, BeginsAlone, NothingOwed DEF TestInv, Serial
      <4>3. 0 - (global' + Ahead(prog[me])) = 0
        BY <4>1
      <4> QED BY <4>2, <4>3
    <3>2. CASE i # 0
      BY <1>2, <1>6, <1>7, <3>2 DEF SyncInv, Account
    <3> QED BY <3>1, <3>2
  <2>14. Short(me)' \/ Total(Owed', 0 - (global' + Ahead(new)))
    <3>1. CASE Short(me)
      <4>1. PICK e \in Owned(me) : children_processes[e].child_pid \in FailureCodes
        BY <3>1 DEF Short
      <4>2. PICK f : BornAt(f)
        BY <2>2 DEF Born
      <4>3. e \in Owned(me)' /\ children_processes'[e] = children_processes[e]
        BY <4>1, <4>2 DEF BornAt, Owned, Counting
      <4> QED BY <4>1, <4>3 DEF Short
    <3>2. CASE Total(Owed, 0 - (global' + Ahead(prog[me])))
      <4>1. global' \in Int
        BY <1>6, <1>7
      <4>2. /\ 0 - (global' + Ahead(prog[me])) \in Int
            /\ 0 - (global' + Ahead(prog[me])) + Owes(child) = 0 - (global' + Ahead(new))
        BY <2>11, <4>1
      <4> QED BY <2>12, <3>2, <4>2
    <3> QED BY <2>13, <3>1, <3>2
  <2>15. Ahead(prog[me])' = Ahead(new)
    BY <2>6 DEF Ahead
  <2>16. (Short(me) \/ Total(Owed, 0 - (global + Ahead(prog[me]))))'
    BY <2>14, <2>15 DEF Total
  <2>17. Account'
    BY <1>8, <2>6, <2>10, <2>16 DEF Account
  <2> QED BY <2>9, <2>17 DEF SyncInv
<1>13. CASE IsRefused(new)
  <2>1. CreateChildFails /\ prog' = [prog EXCEPT ![me] = new] /\ semaphores' = semaphores
    BY <1>1, <1>13 DEF IsRefused, semVars
  <2>2. PICK c \in FailureCodes :
          /\ children_processes' = AddChild(children_processes, CurrentPid, c)
          /\ process_list' = process_list
    BY <2>1, RefusedWith
  <2>3. prog'[me] = new /\ \A p \in Pids \ {me} : prog'[p] = prog[p]
    BY <1>7, <2>1
  <2>4. \A p : Awake(p)' <=> Awake(p)
    BY <2>2 DEF Awake, Is
  <2>5. Turns' /\ Exclusion'
    <3>1. \A p \in Workers' : p # me /\ p \in Workers /\ prog'[p] = prog[p]
      BY <1>11, <2>3 DEF Workers
    <3>2. global' = IF prog[me].i = 0 THEN 0 ELSE global
      BY <1>2, <1>6
    <3> QED BY <1>6, <1>7, <2>1, <2>4, <3>1, <3>2, CreatingKeepsTurns
  <2>6. Short(me)'
    BY <1>1, <1>10, <2>2, RefusalIsSeen DEF TestInv, IInv, SoundChildren
  <2>7. \A p \in Bosses' : p = me
    BY <1>7, <2>3 DEF Bosses
  <2>8. Account'
    BY <1>8, <2>3, <2>6, <2>7 DEF Account
  <2> QED BY <2>5, <2>8 DEF SyncInv
<1> QED BY <1>6, <1>12, <1>13

-----------------------------------------------------------------------------
(* Before the first command nothing is shared.                             *)
LEMMA SyncInitially ==
  ASSUME TestInit
  PROVE  SyncInv
<1>1. \A p \in Pids : prog[p].at \in {"prompt", "none"}
  BY DEF TestInit, Nobody, At
<1>2. "prompt" \notin BossAts \cup WorkerAts /\ "none" \notin BossAts \cup WorkerAts
  BY AtsApart DEF ShellAts
<1>3. Bosses = {} /\ Workers = {}
  BY <1>1, <1>2 DEF Bosses, Workers
<1>4. Inside = {}
  BY <1>3 DEF Inside
<1>5. ~IsOpen(SEM_ID)
  BY DEF TestInit, SemInit, EmptySem, EMPTY_SEM, SEM_ID, IsOpen, Holding
<1> QED BY <1>3, <1>4, <1>5 DEF SyncInv, Turns, Exclusion, Account

(* Every step keeps the account.                                           *)
LEMMA SyncStepInv ==
  ASSUME RoomForTests, TestInv, TestInv', SyncInv, [TestNext]_everything
  PROVE  SyncInv'
<1>1. CASE Ending \/ Ticking \/ CtrlC \/ UNCHANGED everything
  BY <1>1, EndingKeepsSync, TickingKeepsSync, CtrlCKeepsSync
<1>2. CASE ShellRunsTest \/ ShellWaits
  BY <1>2, ShellRunsTestKeepsSync, ShellWaitsKeepsSync
<1>3. CASE TestSync
  BY <1>3, SyncCreatesKeepsSync, SyncWaitsKeepsSync, SyncClosesKeepsSync, ChildOpensKeepsSync,
     ChildWaitsKeepsSync, SlowIncReadsKeepsSync, SlowIncWritesKeepsSync, ChildPostsKeepsSync
     DEF TestSync
<1>4. CASE TestProcesses \/ TestPrio
  BY <1>4, TestProcessesKeepsSync, TestPrioKeepsSync
<1> QED BY <1>1, <1>2, <1>3, <1>4 DEF TestNext

(* testsync prints 0, whatever the timer interrupts and whichever creation *)
(* the heap refuses: one child at a time is between its wait and its post, *)
(* so no update is lost; every child has gone all its rounds when the wait *)
(* for them returns, and as many count up as down (test_util.c:312-357).   *)
THEOREM TestsyncPrintsZero == RoomForTests => (TestSpec => []FinalValueIsZero)
<1> SUFFICES ASSUME RoomForTests PROVE TestSpec => []FinalValueIsZero
  OBVIOUS
<1>1. TestInit => SyncInv
  BY SyncInitially
<1>2. TestInv /\ TestInv' /\ SyncInv /\ [TestNext]_everything => SyncInv'
  BY SyncStepInv
<1>3. SyncInv => FinalValueIsZero
  BY DEF SyncInv, Account, FinalValueIsZero, Bosses, BossAts, SyncAts
<1> QED BY <1>1, <1>2, <1>3, TestInductiveInvariant, PTL DEF TestSpec

=============================================================================
