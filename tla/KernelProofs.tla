---------------------------- MODULE KernelProofs ----------------------------
(***************************************************************************)
(* Proofs about modules Scheduler and Semaphores, for every size of the    *)
(* tables and every set of priorities.  The inductive invariant IInv is    *)
(* made of parts that speak of a process table pl, a count n, a child      *)
(* table ct and a next pid pv, so that the lemmas about the kernel's       *)
(* functions can be stated for the intermediate tables an entry goes       *)
(* through.  The second half shows that every semaphore call keeps IInv    *)
(* too, whatever ids the callers pass and whatever has become of the one   *)
(* queue: a wake-up that reaches the wrong process does not break the      *)
(* table.                                                                  *)
(***************************************************************************)
EXTENDS Semaphores, SchedulerReference, FiniteSetTheorems, TLAPS

(* The process table, its count and the pids issued.                       *)
SoundTable(pl, n, pv) ==
  /\ pl \in [Slots -> Process]
  /\ n = Cardinality(Live(pl))
  /\ pv \in Nat /\ pv > 1
  /\ \A i \in Live(pl) : pl[i].pid < pv
  /\ \A i, j \in Live(pl) : pl[i].pid = pl[j].pid => i = j
  /\ \A i \in {0, 1} : i \in Live(pl) /\ pl[i].pid = i /\ pl[i].immortal
  /\ \A i \in Live(pl) \ {0, 1} : pl[i].pid > 1 /\ ~pl[i].immortal

(* The child table: what still counts can still end, and the finished      *)
(* entries of a parent are kept only while one of its entries counts.      *)
SoundChildren(pl, ct, pv) ==
  /\ ct \in [Entries -> ChildInfo]
  /\ \A e \in Entries :
       /\ ct[e].parent_pid < pv
       /\ ct[e].state = READY => ct[e].child_pid \in LivePids(pl) \cup FailureCodes
       /\ ct[e].parent_pid # ShellPid => ~AllChildrenFinished(ct, ct[e].parent_pid)

SoundSleepers(pl, ct) ==
  \A i \in Live(pl) : pl[i].state = PAUSED_BY_CHILD /\ pl[i].pid # ShellPid =>
    ~AllChildrenFinished(ct, pl[i].pid)

IInv ==
  /\ SoundTable(process_list, dim, pid_value)
  /\ SoundChildren(process_list, children_processes, pid_value)
  /\ SoundSleepers(process_list, children_processes)
  /\ current_process_idx \in Slots
  /\ remaining_ticks \in Nat
  /\ process_list[current_process_idx].state = READY

(* Two tables that differ at most in the state of the idle process, which  *)
(* is neither dead nor asleep in either.                                   *)
SameButIdle(pl, ql) ==
  /\ \A i \in Slots \ {1} : ql[i] = pl[i]
  /\ ql[1].pid = pl[1].pid /\ ql[1].immortal = pl[1].immortal
  /\ ql[1].state \in {pl[1].state, READY, PAUSED}

(* The table with one state replaced.                                      *)
WithState(pl, i, st) == [pl EXCEPT ![i].state = st]

-----------------------------------------------------------------------------
(* A non-empty set of naturals has a least element, and Least finds it.    *)
LEMMA LeastIn ==
  ASSUME NEW S \in SUBSET Nat, S # {}
  PROVE  Least(S) \in S /\ \A j \in S : Least(S) <= j
<1> DEFINE R == OpToRel(<, Nat)
<1>1. IsWellFoundedOn(R, Nat)
  BY NatLessThanWellFounded, Zenon
<1>2. R = {ss \in Nat \X Nat : ss[1] < ss[2]}
  BY DEF OpToRel
<1> HIDE DEF R
<1>3. PICK x \in S : \A y \in S : <<y, x>> \notin R
  BY <1>1, WFMin, Zenon
<1>4. ASSUME NEW y \in S
      PROVE  x <= y
  <2>1. <<y, x>> \in Nat \X Nat
    OBVIOUS
  <2>2. ~(y < x)
    BY <2>1, <1>2, <1>3
  <2> QED
    BY <2>2
<1> QED
  BY <1>4 DEF Least

(* A remainder is below its divisor.                                       *)
LEMMA ModInRange ==
  ASSUME NEW a \in Int, NEW n \in Nat \ {0}
  PROVE  a % n \in 0 .. n - 1
  OBVIOUS

(* The live slots are finitely many, and there are at most MAX_PROCESSES.  *)
LEMMA LiveFinite ==
  ASSUME NEW pl
  PROVE  /\ IsFiniteSet(Live(pl))
         /\ Cardinality(Live(pl)) \in 0 .. MAX_PROCESSES
         /\ IsFiniteSet(Slots) /\ Cardinality(Slots) = MAX_PROCESSES
<1>1. IsFiniteSet(Slots) /\ Cardinality(Slots) = MAX_PROCESSES
  BY FS_Interval, SizesAssumption DEF Slots
<1>2. IsFiniteSet(Live(pl)) /\ Cardinality(Live(pl)) <= Cardinality(Slots)
  BY <1>1, FS_Subset, Live(pl) \in SUBSET Slots DEF Live
<1>3. Cardinality(Live(pl)) \in Nat
  BY <1>2, FS_CardinalityType
<1> QED
  BY <1>1, <1>2, <1>3, SizesAssumption

(* get_process_idx finds the slot of a live process.                       *)
LEMMA IdxOfLive ==
  ASSUME NEW pl, NEW n, NEW pv, SoundTable(pl, n, pv), NEW i \in Live(pl)
  PROVE  GetProcessIdx(pl, pl[i].pid) = i
<1> DEFINE S == {j \in Live(pl) : pl[j].pid = pl[i].pid}
<1>1. S = {i}
  BY DEF SoundTable
<1>2. S \in SUBSET Nat
  BY DEF Live, Slots
<1>3. Least(S) \in S
  BY <1>1, <1>2, LeastIn
<1> QED
  BY <1>1, <1>3 DEF GetProcessIdx

(* change_process_state changes the state of that slot alone.              *)
LEMMA ChangeStateOfLive ==
  ASSUME NEW pl, NEW n, NEW pv, SoundTable(pl, n, pv), NEW i \in Live(pl), NEW st
  PROVE  ChangeProcessState(pl, pl[i].pid, st) = WithState(pl, i, st)
<1>1. pl[i].pid \in LivePids(pl)
  BY DEF LivePids, PidsOf
<1> QED
  BY <1>1, IdxOfLive, Zenon DEF ChangeProcessState, WithState

(* A pid of a live process names exactly one slot.                         *)
LEMMA SlotOfPid ==
  ASSUME NEW pl, NEW n, NEW pv, SoundTable(pl, n, pv), NEW pid \in LivePids(pl)
  PROVE  /\ GetProcessIdx(pl, pid) \in Live(pl)
         /\ pl[GetProcessIdx(pl, pid)].pid = pid
<1>1. PICK i \in Live(pl) : pl[i].pid = pid
  BY DEF LivePids, PidsOf
<1> QED
  BY <1>1, IdxOfLive

(* The idle process sits in slot 1, alive, under its pid.                  *)
LEMMA IdleSlot ==
  ASSUME NEW pl, NEW n, NEW pv, SoundTable(pl, n, pv)
  PROVE  /\ 1 \in Live(pl) /\ 1 \in Slots
         /\ pl[1].pid = idle_pid
         /\ GetProcessIdx(pl, idle_pid) = 1
         /\ \A st : ChangeProcessState(pl, idle_pid, st) = WithState(pl, 1, st)
<1>1. 1 \in Live(pl) /\ pl[1].pid = idle_pid
  BY DEF SoundTable, idle_pid
<1>2. GetProcessIdx(pl, idle_pid) = 1
  BY <1>1, IdxOfLive
<1>3. ASSUME NEW st
      PROVE  ChangeProcessState(pl, idle_pid, st) = WithState(pl, 1, st)
  <2>1. ChangeProcessState(pl, pl[1].pid, st) = WithState(pl, 1, st)
    BY <1>1, ChangeStateOfLive, Zenon
  <2> QED
    BY <1>1, <2>1, Zenon
<1> QED
  BY <1>1, <1>2, <1>3 DEF Live

-----------------------------------------------------------------------------
(* The timer interrupt leaves the CPU with a READY process and changes no  *)
(* process but the idle one.                                               *)
LEMMA SwitchToReady ==
  ASSUME NEW pl, NEW n, NEW pv, SoundTable(pl, n, pv),
         NEW c \in Slots, NEW r \in Nat,
         NEW after, after = Irq00(pl, n, c, r)
  PROVE  /\ after.list \in [Slots -> Process]
         /\ after.current \in Slots
         /\ after.ticks \in Nat
         /\ after.list[after.current].state = READY
         /\ SameButIdle(pl, after.list)
<1> DEFINE A == ReadyAhead(pl, n, c)
           chosen == Chosen(pl, n, c)
<1>1. pl \in [Slots -> Process] /\ n \in 0 .. MAX_PROCESSES /\ 1 \in Slots
  BY LiveFinite, IdleSlot DEF SoundTable
<1>2. CASE r > 0 /\ pl[c].state = READY
  BY <1>1, <1>2 DEF Irq00, SameButIdle
<1>3. CASE ~(r > 0 /\ pl[c].state = READY) /\ A = {}
  <2>1. chosen = 1
    BY <1>3, IdleSlot DEF Chosen
  <2>2. after = [list |-> [pl EXCEPT ![1].state = READY], current |-> 1,
                 ticks |-> pl[1].assigned_ticks]
    BY <1>3, <2>1, IdleSlot DEF Irq00, NextProcess, WithState
  <2> QED
    BY <1>1, <2>2 DEF SameButIdle, Process, States
<1>4. CASE ~(r > 0 /\ pl[c].state = READY) /\ A # {}
  <2>1. Least(A) \in A
    BY <1>4, LeastIn, A \in SUBSET Nat DEF ReadyAhead
  <2>2. chosen = (c + Least(A)) % n /\ pl[chosen].state = READY
    BY <1>4, <2>1 DEF Chosen, ReadyAhead
  <2>3. chosen \in Slots
    <3>1. n \in Nat \ {0} /\ n <= MAX_PROCESSES /\ c + Least(A) \in Int
      BY <1>1, <2>1, SizesAssumption DEF ReadyAhead, Slots
    <3>2. (c + Least(A)) % n \in 0 .. n - 1
      BY <3>1, ModInRange, Zenon
    <3> QED
      BY <3>1, <3>2, <2>2, SizesAssumption DEF Slots
  <2>4. CASE pl[chosen].pid = idle_pid
    <3>1. after = [list |-> pl, current |-> chosen, ticks |-> pl[chosen].assigned_ticks]
      BY <1>4, <2>4 DEF Irq00, NextProcess
    <3> QED
      BY <1>1, <2>2, <2>3, <3>1 DEF SameButIdle, Process
  <2>5. CASE pl[chosen].pid # idle_pid
    <3>1. after = [list |-> [pl EXCEPT ![1].state = PAUSED], current |-> chosen,
                   ticks |-> pl[chosen].assigned_ticks]
      BY <1>4, <2>5, IdleSlot DEF Irq00, NextProcess, WithState
    <3>2. chosen # 1
      BY <2>5, IdleSlot
    <3> QED
      BY <1>1, <2>2, <2>3, <3>1, <3>2 DEF SameButIdle, Process, States
  <2> QED
    BY <2>4, <2>5
<1> QED
  BY <1>2, <1>3, <1>4

(* A table with the same processes in the same slots is as sound.          *)
LEMMA SameProcessesSound ==
  ASSUME NEW pl, NEW ql, NEW n, NEW pv, SoundTable(pl, n, pv),
         ql \in [Slots -> Process], Live(ql) = Live(pl),
         \A i \in Live(pl) : ql[i].pid = pl[i].pid /\ ql[i].immortal = pl[i].immortal
  PROVE  SoundTable(ql, n, pv)
<1>1. n = Cardinality(Live(ql)) /\ pv \in Nat /\ pv > 1
  BY DEF SoundTable
<1>2. \A i \in Live(ql) : ql[i].pid < pv
  BY DEF SoundTable
<1>3. \A i, j \in Live(ql) : ql[i].pid = ql[j].pid => i = j
  BY DEF SoundTable
<1>4. \A i \in {0, 1} : i \in Live(ql) /\ ql[i].pid = i /\ ql[i].immortal
  BY Zenon DEF SoundTable
<1>5. \A i \in Live(ql) \ {0, 1} : ql[i].pid > 1
  BY DEF SoundTable
<1>6. \A i \in Live(ql) \ {0, 1} : ~ql[i].immortal
  BY Zenon DEF SoundTable
<1> QED
  BY <1>1, <1>2, <1>3, <1>4, <1>5, <1>6, Zenon DEF SoundTable

(* The timer interrupt therefore keeps the three parts of the invariant.               *)
LEMMA SameButIdleSound ==
  ASSUME NEW pl, NEW ql, NEW n, NEW pv, NEW ct,
         SoundTable(pl, n, pv), SoundChildren(pl, ct, pv), SoundSleepers(pl, ct),
         ql \in [Slots -> Process], SameButIdle(pl, ql)
  PROVE  /\ SoundTable(ql, n, pv)
         /\ SoundChildren(ql, ct, pv)
         /\ SoundSleepers(ql, ct)
<1>1. 1 \in Live(pl) /\ 1 \in Slots /\ pl \in [Slots -> Process]
  BY IdleSlot DEF SoundTable
<1>2. ql[1].state # DEAD /\ 1 \in Live(ql)
  BY <1>1 DEF SameButIdle, Live, DEAD, READY, PAUSED
<1>3. Live(ql) = Live(pl)
  BY <1>1, <1>2 DEF SameButIdle, Live
<1>4. \A i \in Slots : ql[i].pid = pl[i].pid /\ ql[i].immortal = pl[i].immortal
  BY DEF SameButIdle
<1>5. LivePids(ql) = LivePids(pl)
  BY <1>3, <1>4 DEF LivePids, PidsOf, Live
<1>6. SoundTable(ql, n, pv)
  BY <1>3, <1>4, SameProcessesSound DEF Live
<1>7. SoundChildren(ql, ct, pv)
  BY <1>5 DEF SoundChildren
<1>8. ASSUME NEW i \in Live(ql), ql[i].state = PAUSED_BY_CHILD, ql[i].pid # ShellPid
      PROVE  ~AllChildrenFinished(ct, ql[i].pid)
  <2>1. pl[i].state = PAUSED_BY_CHILD
    BY <1>8, <1>2 DEF SameButIdle, Live, PAUSED_BY_CHILD, READY, PAUSED
  <2> QED
    BY <1>3, <1>4, <1>8, <2>1 DEF SoundSleepers, Live
<1> QED
  BY <1>6, <1>7, <1>8 DEF SoundSleepers

(* An entry that ends by raising the timer interrupt keeps the invariant.  *)
LEMMA SwitchSound ==
  ASSUME NEW pl, NEW n, NEW pv, NEW ct, NEW r \in Nat,
         SoundTable(pl, n, pv), SoundChildren(pl, ct, pv), SoundSleepers(pl, ct),
         current_process_idx \in Slots,
         ForceTimerTick(pl, n, r)
  PROVE  /\ SoundTable(process_list', n, pv)
         /\ SoundChildren(process_list', ct, pv)
         /\ SoundSleepers(process_list', ct)
         /\ current_process_idx' \in Slots
         /\ remaining_ticks' \in Nat
         /\ process_list'[current_process_idx'].state = READY
<1> DEFINE after == Irq00(pl, n, current_process_idx, r)
<1>1. /\ process_list' = after.list
      /\ current_process_idx' = after.current
      /\ remaining_ticks' = after.ticks
  BY DEF ForceTimerTick
<1>2. /\ after.list \in [Slots -> Process]
      /\ after.current \in Slots
      /\ after.ticks \in Nat
      /\ after.list[after.current].state = READY
      /\ SameButIdle(pl, after.list)
  <2> HIDE DEF after
  <2>1. \A x : x = Irq00(pl, n, current_process_idx, r) =>
          /\ x.list \in [Slots -> Process]
          /\ x.current \in Slots
          /\ x.ticks \in Nat
          /\ x.list[x.current].state = READY
          /\ SameButIdle(pl, x.list)
    BY SwitchToReady
  <2> QED
    BY <2>1 DEF after
<1> HIDE DEF after
<1> QED
  BY <1>1, <1>2, SameButIdleSound

-----------------------------------------------------------------------------
(* A change of one live process to another state that is neither DEAD nor  *)
(* asleep keeps the three parts; so does one to sleep, if it has children. *)
LEMMA WithStateSound ==
  ASSUME NEW pl, NEW n, NEW pv, NEW ct, NEW i \in Live(pl),
         NEW st \in States \ {DEAD},
         SoundTable(pl, n, pv), SoundChildren(pl, ct, pv), SoundSleepers(pl, ct),
         st = PAUSED_BY_CHILD /\ pl[i].pid # ShellPid
           => ~AllChildrenFinished(ct, pl[i].pid)
  PROVE  /\ SoundTable(WithState(pl, i, st), n, pv)
         /\ SoundChildren(WithState(pl, i, st), ct, pv)
         /\ SoundSleepers(WithState(pl, i, st), ct)
<1> DEFINE ql == WithState(pl, i, st)
<1>1. pl \in [Slots -> Process] /\ i \in Slots
  BY DEF SoundTable, Live
<1>2. /\ ql \in [Slots -> Process]
      /\ ql[i].state = st
      /\ \A j \in Slots : ql[j].pid = pl[j].pid /\ ql[j].immortal = pl[j].immortal
      /\ \A j \in Slots \ {i} : ql[j] = pl[j]
  BY <1>1 DEF WithState, Process
<1> HIDE DEF ql
<1>3. Live(ql) = Live(pl)
  BY <1>1, <1>2 DEF Live
<1>4. LivePids(ql) = LivePids(pl)
  BY <1>2, <1>3 DEF LivePids, PidsOf, Live
<1>5. SoundTable(ql, n, pv)
  BY <1>2, <1>3, SameProcessesSound DEF Live
<1>6. SoundChildren(ql, ct, pv)
  BY <1>4 DEF SoundChildren
<1>7. SoundSleepers(ql, ct)
  BY <1>2, <1>3 DEF SoundSleepers, Live
<1> QED
  BY <1>5, <1>6, <1>7 DEF ql

-----------------------------------------------------------------------------
(* Deaths.  What counts in the child table afterwards counted before and    *)
(* names none of the dead.                                                 *)
LEMMA DestroyTable ==
  ASSUME NEW pl, NEW n, NEW pv, NEW ct, NEW S \in SUBSET Live(pl),
         NEW pids, pids = PidsOf(pl, S),
         NEW after, after = Destroy(pl, ct, S),
         SoundTable(pl, n, pv), SoundChildren(pl, ct, pv)
  PROVE  /\ after.table \in [Entries -> ChildInfo]
         /\ \A e \in Entries : after.table[e].parent_pid < pv
         /\ \A e \in Entries : after.table[e].state = READY =>
              /\ after.table[e] = ct[e]
              /\ ct[e].child_pid \notin pids
         /\ \A p : ~AllChildrenFinished(ct, p) =>
              \/ ~AllChildrenFinished(after.table, p)
              \/ p \in FinishedParents(ct, pids)
         /\ \A e \in Entries :
              \/ after.table[e] = FreeEntry
              \/ /\ after.table[e].parent_pid = ct[e].parent_pid
                 /\ ct[e].parent_pid \notin FinishedParents(ct, pids)
<1> DEFINE finished == FinishedParents(ct, pids)
           marked == BuryEntries(ct, pids)
<1>1. after.table = [e \in Entries |-> IF ct[e].parent_pid \in finished
                                         THEN FreeEntry ELSE marked[e]]
  BY DEF Destroy
<1>2. ct \in [Entries -> ChildInfo] /\ pv > 1 /\ pv \in Nat
  BY DEF SoundChildren, SoundTable
<1>3. /\ marked \in [Entries -> ChildInfo]
      /\ \A e \in Entries :
           /\ marked[e].parent_pid = ct[e].parent_pid
           /\ marked[e].state = READY => marked[e] = ct[e] /\ ct[e].child_pid \notin pids
           /\ ct[e].state = READY /\ ct[e].child_pid \notin pids => marked[e] = ct[e]
  BY <1>2 DEF BuryEntries, ChildInfo, DEAD, READY
<1> HIDE DEF marked
<1>4. FreeEntry \in ChildInfo /\ FreeEntry.parent_pid = 0 /\ FreeEntry.state # READY
  BY DEF FreeEntry, ChildInfo, DEAD, READY
<1>5. after.table \in [Entries -> ChildInfo]
  BY <1>1, <1>3, <1>4
<1>6. \A e \in Entries : after.table[e].parent_pid < pv
  BY <1>1, <1>2, <1>3, <1>4 DEF SoundChildren
<1>7. \A e \in Entries : after.table[e].state = READY =>
        after.table[e] = ct[e] /\ ct[e].child_pid \notin pids
  BY <1>1, <1>3, <1>4
<1>8. ASSUME NEW p, ~AllChildrenFinished(ct, p), AllChildrenFinished(after.table, p)
      PROVE  p \in finished
  <2>1. PICK e \in Entries : ct[e].state = READY /\ ct[e].parent_pid = p
    BY <1>8 DEF AllChildrenFinished
  <2>2. SUFFICES ASSUME p \notin finished
                 PROVE  FALSE
    OBVIOUS
  <2>3. \A b \in Entries : ct[b].parent_pid = p => after.table[b] = marked[b]
    BY <1>1, <2>2
  <2>4. AllChildrenFinished(marked, p)
    BY <1>8, <1>3, <2>3 DEF AllChildrenFinished
  <2>5. ct[e].child_pid \in pids
    BY <1>3, <2>1, <2>4 DEF AllChildrenFinished
  <2> QED
    BY <2>1, <2>2, <2>4, <2>5 DEF FinishedParents, marked
<1>9. \A e \in Entries :
        \/ after.table[e] = FreeEntry
        \/ after.table[e].parent_pid = ct[e].parent_pid /\ ct[e].parent_pid \notin finished
  BY <1>1, <1>3
<1> QED
  BY <1>5, <1>6, <1>7, <1>8, <1>9

(* The process table afterwards: the dead are gone, and the others are as  *)
(* they were, or READY.                                                    *)
LEMMA DestroyList ==
  ASSUME NEW pl, NEW n, NEW pv, NEW ct, NEW S \in SUBSET Live(pl),
         NEW pids, pids = PidsOf(pl, S),
         NEW after, after = Destroy(pl, ct, S),
         SoundTable(pl, n, pv), 0 \notin S, 1 \notin S
  PROVE  /\ SoundTable(after.list, n - Cardinality(S), pv)
         /\ Live(after.list) = Live(pl) \ S
         /\ \A i \in Live(pl) \ S :
              /\ after.list[i].pid = pl[i].pid
              /\ after.list[i].state \in {pl[i].state, READY}
              /\ pl[i].pid \in FinishedParents(ct, pids)
                   => after.list[i].state = READY
<1> DEFINE finished == FinishedParents(ct, pids)
<1>1. after.list = [i \in Slots |->
                     IF i \in S THEN FreeSlot
                     ELSE IF pl[i].state # DEAD /\ pl[i].pid \in finished
                       THEN [pl[i] EXCEPT !.state = READY]
                     ELSE pl[i]]
  BY DEF Destroy
<1>2. pl \in [Slots -> Process] /\ S \subseteq Slots
  BY DEF SoundTable, Live
<1>3. FreeSlot \in Process /\ FreeSlot.state = DEAD
  BY DEF FreeSlot, Process, States
<1> HIDE DEF finished
<1>4. after.list \in [Slots -> Process]
  BY <1>1, <1>2, <1>3 DEF Process, States
<1>5. \A i \in Live(pl) \ S :
        /\ after.list[i].pid = pl[i].pid
        /\ after.list[i].immortal = pl[i].immortal
        /\ after.list[i].state \in {pl[i].state, READY}
        /\ pl[i].pid \in finished => after.list[i].state = READY
  BY <1>1, <1>2 DEF Live, Process
<1>6. \A i \in Slots : after.list[i].state # DEAD <=> i \in Live(pl) \ S
  BY <1>1, <1>2, <1>3 DEF Live, DEAD, READY, Process
<1>7. Live(after.list) = Live(pl) \ S
  BY <1>6 DEF Live
<1>8. Cardinality(Live(after.list)) = n - Cardinality(S)
  <2>1. Live(pl) \cap S = S
    OBVIOUS
  <2>2. Cardinality(Live(pl) \ S) = Cardinality(Live(pl)) - Cardinality(Live(pl) \cap S)
    BY LiveFinite, FS_Difference
  <2> QED
    BY <1>7, <2>1, <2>2, Zenon DEF SoundTable
<1>9. SoundTable(after.list, n - Cardinality(S), pv)
  <2>1. \A i \in Live(after.list) : after.list[i].pid < pv
    BY <1>5, <1>7 DEF SoundTable
  <2>2. \A i, j \in Live(after.list) : after.list[i].pid = after.list[j].pid => i = j
    BY <1>5, <1>7 DEF SoundTable
  <2>3. \A i \in {0, 1} : i \in Live(after.list) /\ after.list[i].pid = i
    BY <1>5, <1>7 DEF SoundTable
  <2>4. \A i \in {0, 1} : after.list[i].immortal
    BY <1>5, <1>7, <2>3, Zenon DEF SoundTable
  <2>5. \A i \in Live(after.list) \ {0, 1} : after.list[i].pid > 1
    BY <1>5, <1>7 DEF SoundTable
  <2>6. \A i \in Live(after.list) \ {0, 1} : ~after.list[i].immortal
    BY <1>5, <1>7, Zenon DEF SoundTable
  <2>7. pv \in Nat /\ pv > 1
    BY DEF SoundTable
  <2> QED
    BY <1>4, <1>8, <2>1, <2>2, <2>3, <2>4, <2>5, <2>6, <2>7, Zenon DEF SoundTable
<1> QED
  BY <1>5, <1>7, <1>9 DEF finished

(* Deaths of mortal processes keep the three parts of the invariant, and   *)
(* a READY survivor stays READY.                                           *)
LEMMA DestroySound ==
  ASSUME NEW pl, NEW n, NEW pv, NEW ct, NEW S \in SUBSET Mortal(pl),
         NEW after, after = Destroy(pl, ct, S),
         SoundTable(pl, n, pv), SoundChildren(pl, ct, pv), SoundSleepers(pl, ct)
  PROVE  /\ SoundTable(after.list, n - Cardinality(S), pv)
         /\ SoundChildren(after.list, after.table, pv)
         /\ SoundSleepers(after.list, after.table)
         /\ \A i \in Slots \ S : pl[i].state = READY => after.list[i].state = READY
<1> DEFINE pids == PidsOf(pl, S)
<1> DEFINE finished == FinishedParents(ct, pids)
<1>1. S \in SUBSET Live(pl)
  BY DEF Mortal
<1>2. 0 \notin S /\ 1 \notin S
  BY Zenon DEF Mortal, SoundTable
<1>3. /\ SoundTable(after.list, n - Cardinality(S), pv)
      /\ Live(after.list) = Live(pl) \ S
      /\ \A i \in Live(pl) \ S :
           /\ after.list[i].pid = pl[i].pid
           /\ after.list[i].state \in {pl[i].state, READY}
           /\ pl[i].pid \in finished => after.list[i].state = READY
  BY <1>1, <1>2, DestroyList
<1>4. /\ after.table \in [Entries -> ChildInfo]
      /\ \A e \in Entries : after.table[e].parent_pid < pv
      /\ \A e \in Entries : after.table[e].state = READY =>
           after.table[e] = ct[e] /\ ct[e].child_pid \notin pids
      /\ \A p : ~AllChildrenFinished(ct, p) =>
           ~AllChildrenFinished(after.table, p) \/ p \in finished
      /\ \A e \in Entries :
           \/ after.table[e] = FreeEntry
           \/ /\ after.table[e].parent_pid = ct[e].parent_pid
              /\ ct[e].parent_pid \notin finished
  BY <1>1, DestroyTable
<1> HIDE DEF finished
<1>5. ASSUME NEW e \in Entries, after.table[e].state = READY
      PROVE  after.table[e].child_pid \in LivePids(after.list) \cup FailureCodes
  <2>1. ct[e].state = READY /\ ct[e].child_pid \notin pids
        /\ after.table[e].child_pid = ct[e].child_pid
    BY <1>4, <1>5
  <2>2. CASE ct[e].child_pid \in FailureCodes
    BY <2>1, <2>2
  <2>3. CASE ct[e].child_pid \in LivePids(pl)
    <3>1. PICK i \in Live(pl) : pl[i].pid = ct[e].child_pid
      BY <2>3 DEF LivePids, PidsOf
    <3>2. i \in Live(after.list) /\ after.list[i].pid = ct[e].child_pid
      BY <1>3, <2>1, <3>1 DEF PidsOf
    <3> QED
      BY <2>1, <3>2 DEF LivePids, PidsOf
  <2> QED
    BY <2>1, <2>2, <2>3 DEF SoundChildren
<1>6. ASSUME NEW e \in Entries, after.table[e].parent_pid # ShellPid
      PROVE  ~AllChildrenFinished(after.table, after.table[e].parent_pid)
  <2>1. after.table[e] # FreeEntry
    BY <1>6 DEF FreeEntry, ShellPid
  <2>2. after.table[e].parent_pid = ct[e].parent_pid /\ ct[e].parent_pid \notin finished
    BY <1>4, <2>1
  <2>3. ~AllChildrenFinished(ct, ct[e].parent_pid)
    BY <1>6, <2>2 DEF SoundChildren
  <2> QED
    BY <1>4, <2>2, <2>3
<1>7. SoundChildren(after.list, after.table, pv)
  BY <1>4, <1>5, <1>6 DEF SoundChildren
<1>8. ASSUME NEW i \in Live(after.list), after.list[i].state = PAUSED_BY_CHILD,
             after.list[i].pid # ShellPid
      PROVE  ~AllChildrenFinished(after.table, after.list[i].pid)
  <2>1. /\ i \in Live(pl) /\ pl[i].pid = after.list[i].pid
        /\ pl[i].state = PAUSED_BY_CHILD /\ pl[i].pid \notin finished
    BY <1>3, <1>8 DEF PAUSED_BY_CHILD, READY
  <2>2. ~AllChildrenFinished(ct, pl[i].pid)
    BY <1>8, <2>1 DEF SoundSleepers
  <2> QED
    BY <1>4, <2>1, <2>2
<1>9. \A i \in Slots \ S : pl[i].state = READY => after.list[i].state = READY
  BY <1>3 DEF Live, READY, DEAD
<1> QED
  BY <1>3, <1>7, <1>8, <1>9 DEF SoundSleepers

(* A death, one or many, keeps the inductive invariant.                    *)
LEMMA DestroyAndSwitchSound ==
  ASSUME IInv, NEW S \in SUBSET Mortal(process_list), DestroyAndSwitch(S)
  PROVE  IInv'
<1> DEFINE after == Destroy(process_list, children_processes, S)
           left == dim - Cardinality(S)
<1>1. /\ IF current_process_idx \in S
           THEN ForceTimerTick(after.list, left, 0)
           ELSE /\ process_list' = after.list
                /\ UNCHANGED <<current_process_idx, remaining_ticks>>
      /\ dim' = left
      /\ children_processes' = after.table
      /\ pid_value' = pid_value
  BY DEF DestroyAndSwitch
<1>2. \A x : x = Destroy(process_list, children_processes, S) =>
        /\ SoundTable(x.list, left, pid_value)
        /\ SoundChildren(x.list, x.table, pid_value)
        /\ SoundSleepers(x.list, x.table)
        /\ \A i \in Slots \ S :
             process_list[i].state = READY => x.list[i].state = READY
  BY DestroySound DEF IInv
<1>3. /\ SoundTable(after.list, left, pid_value)
      /\ SoundChildren(after.list, after.table, pid_value)
      /\ SoundSleepers(after.list, after.table)
      /\ \A i \in Slots \ S :
           process_list[i].state = READY => after.list[i].state = READY
  BY <1>2
<1> HIDE DEF after, left
<1>4. CASE current_process_idx \in S
  <2>1. /\ SoundTable(process_list', left, pid_value)
        /\ SoundChildren(process_list', after.table, pid_value)
        /\ SoundSleepers(process_list', after.table)
        /\ current_process_idx' \in Slots
        /\ remaining_ticks' \in Nat
        /\ process_list'[current_process_idx'].state = READY
    BY <1>1, <1>3, <1>4, SwitchSound DEF IInv
  <2> QED
    BY <1>1, <2>1 DEF IInv
<1>5. CASE current_process_idx \notin S
  BY <1>1, <1>3, <1>5 DEF IInv
<1> QED
  BY <1>4, <1>5

-----------------------------------------------------------------------------
(* Births.  add_child overwrites no entry that counts.                     *)
LEMMA AddChildSound ==
  ASSUME NEW pl, NEW ct, NEW pv \in Nat, NEW parent \in Nat, parent < pv,
         NEW child \in Nat \cup FailureCodes, child \in LivePids(pl) \cup FailureCodes,
         SoundChildren(pl, ct, pv), SoundSleepers(pl, ct)
  PROVE  /\ SoundChildren(pl, AddChild(ct, parent, child), pv)
         /\ SoundSleepers(pl, AddChild(ct, parent, child))
<1> DEFINE free == FreeEntries(ct)
           slot == Least(free)
           entry == [parent_pid |-> parent, child_pid |-> child, state |-> READY]
           dt == AddChild(ct, parent, child)
<1>1. CASE free = {}
  BY <1>1 DEF AddChild
<1>2. CASE free # {}
  <2>1. slot \in free
    BY <1>2, LeastIn, free \in SUBSET Nat DEF FreeEntries, Entries
  <2>2. slot \in Entries /\ ct[slot].state # READY /\ ct \in [Entries -> ChildInfo]
    BY <2>1 DEF FreeEntries, SoundChildren, DEAD, READY
  <2>3. dt = [ct EXCEPT ![slot] = entry]
    BY <1>2 DEF AddChild
  <2>4. entry \in ChildInfo /\ entry.state = READY /\ entry.parent_pid = parent
        /\ entry.child_pid = child
    BY DEF ChildInfo
  <2> HIDE DEF dt, entry, slot
  <2>5. /\ dt \in [Entries -> ChildInfo]
        /\ dt[slot] = entry
        /\ \A e \in Entries \ {slot} : dt[e] = ct[e]
    BY <2>2, <2>3, <2>4
  <2>6. ASSUME NEW p, ~AllChildrenFinished(ct, p)
        PROVE  ~AllChildrenFinished(dt, p)
    BY <2>2, <2>5, <2>6 DEF AllChildrenFinished
  <2>7. ~AllChildrenFinished(dt, parent)
    BY <2>2, <2>4, <2>5 DEF AllChildrenFinished
  <2>8. \A e \in Entries :
          /\ dt[e].parent_pid < pv
          /\ dt[e].state = READY => dt[e].child_pid \in LivePids(pl) \cup FailureCodes
          /\ dt[e].parent_pid # ShellPid => ~AllChildrenFinished(dt, dt[e].parent_pid)
    BY <2>4, <2>5, <2>6, <2>7 DEF SoundChildren
  <2>9. SoundChildren(pl, dt, pv)
    BY <2>5, <2>8 DEF SoundChildren
  <2>10. SoundSleepers(pl, dt)
    BY <2>6 DEF SoundSleepers
  <2> QED
    BY <2>9, <2>10 DEF dt
<1> QED
  BY <1>1, <1>2

(* create_process adds one process, under a pid no other has.              *)
LEMMA SpawnSound ==
  ASSUME IInv, NEW priority \in Priorities \cup 1 .. MAX_PRIORITY,
         Spawn(priority)
  PROVE  /\ SoundTable(process_list', dim', pid_value')
         /\ SoundChildren(process_list', children_processes, pid_value')
         /\ SoundSleepers(process_list', children_processes)
         /\ \A i \in Live(process_list) : process_list'[i] = process_list[i]
         /\ pid_value \in LivePids(process_list')
<1> DEFINE free == Slots \ Live(process_list)
           slot == Least(free)
           new == [pid |-> pid_value, state |-> READY,
                   assigned_ticks |-> CalculateTicks(priority), immortal |-> FALSE]
<1>1. /\ process_list \in [Slots -> Process] /\ dim = Cardinality(Live(process_list))
      /\ pid_value \in Nat /\ pid_value > 1
  BY DEF IInv, SoundTable
<1>2. free # {}
  <2>1. SUFFICES ASSUME free = {} PROVE FALSE
    OBVIOUS
  <2>2. Live(process_list) = Slots
    BY <2>1 DEF Live
  <2> QED
    BY <1>1, <2>2, LiveFinite DEF Spawn
<1>3. slot \in free
  BY <1>2, LeastIn, free \in SUBSET Nat DEF Slots
<1>4. /\ process_list' = [process_list EXCEPT ![slot] = new]
      /\ pid_value' = pid_value + 1 /\ dim' = dim + 1
  BY DEF Spawn
<1>5. new \in Process /\ new.pid = pid_value /\ new.state = READY /\ new.immortal = FALSE
  BY <1>1, TicksAssumption DEF Process, States
<1> HIDE DEF slot, new
<1>6. /\ process_list' \in [Slots -> Process]
      /\ process_list'[slot] = new
      /\ \A i \in Slots \ {slot} : process_list'[i] = process_list[i]
      /\ slot \in Slots /\ slot \notin Live(process_list)
  BY <1>1, <1>3, <1>4, <1>5
<1>7. Live(process_list') = Live(process_list) \cup {slot}
  BY <1>5, <1>6 DEF Live, READY, DEAD
<1>8. dim' = Cardinality(Live(process_list'))
  BY <1>1, <1>4, <1>6, <1>7, LiveFinite, FS_AddElement
<1>9. \A i \in Live(process_list) : process_list'[i] = process_list[i]
  BY <1>6 DEF Live
<1>10. SoundTable(process_list', dim', pid_value')
  <2>1. \A i \in Live(process_list) : process_list[i].pid < pid_value
    BY DEF IInv, SoundTable
  <2>2. \A i \in Live(process_list') : process_list'[i].pid < pid_value'
    <3>1. \A i \in Live(process_list) : process_list'[i].pid \in Nat
      BY <1>1, <1>9 DEF Live, Process
    <3> QED
      BY <1>1, <1>4, <1>5, <1>6, <1>7, <1>9, <2>1, <3>1
  <2>3. \A i, j \in Live(process_list) :
          process_list[i].pid = process_list[j].pid => i = j
    BY DEF IInv, SoundTable
  <2>4. \A i, j \in Live(process_list') :
          process_list'[i].pid = process_list'[j].pid => i = j
    BY <1>1, <1>5, <1>6, <1>7, <1>9, <2>1, <2>3
  <2>5. \A i \in {0, 1} : i \in Live(process_list) /\ process_list[i].pid = i
    BY DEF IInv, SoundTable
  <2>6. \A i \in {0, 1} : i \in Live(process_list') /\ process_list'[i].pid = i
    BY <1>7, <1>9, <2>5
  <2>7. \A i \in {0, 1} : process_list[i].immortal
    BY Zenon DEF IInv, SoundTable
  <2>8. \A i \in {0, 1} : process_list'[i].immortal
    BY <1>9, <2>5, <2>7, Zenon
  <2>9. \A i \in Live(process_list) \ {0, 1} : process_list[i].pid > 1
    BY DEF IInv, SoundTable
  <2>10. \A i \in Live(process_list') \ {0, 1} : process_list'[i].pid > 1
    BY <1>1, <1>5, <1>6, <1>7, <1>9, <2>9
  <2>11. \A i \in Live(process_list) \ {0, 1} : ~process_list[i].immortal
    BY Zenon DEF IInv, SoundTable
  <2>12. \A i \in Live(process_list') \ {0, 1} : ~process_list'[i].immortal
    BY <1>5, <1>6, <1>7, <1>9, <2>11, Zenon
  <2>13. pid_value' \in Nat /\ pid_value' > 1
    BY <1>1, <1>4
  <2> QED
    BY <1>6, <1>8, <2>2, <2>4, <2>6, <2>8, <2>10, <2>12, <2>13, Zenon DEF SoundTable
<1>11. LivePids(process_list) \subseteq LivePids(process_list')
  BY <1>7, <1>9 DEF LivePids, PidsOf
<1>12. SoundChildren(process_list', children_processes, pid_value')
  <2>1. \A e \in Entries : children_processes[e].parent_pid \in Nat
    BY DEF IInv, SoundChildren, ChildInfo
  <2>2. \A e \in Entries : children_processes[e].parent_pid < pid_value'
    BY <1>1, <1>4, <2>1 DEF IInv, SoundChildren
  <2>3. children_processes \in [Entries -> ChildInfo]
    BY DEF IInv, SoundChildren
  <2> QED
    BY <1>11, <2>2, <2>3 DEF IInv, SoundChildren
<1>13. SoundSleepers(process_list', children_processes)
  BY <1>5, <1>6, <1>7, <1>9 DEF IInv, SoundSleepers, READY, PAUSED_BY_CHILD
<1>14. pid_value \in LivePids(process_list')
  BY <1>5, <1>6, <1>7 DEF LivePids, PidsOf
<1> QED
  BY <1>9, <1>10, <1>12, <1>13, <1>14

-----------------------------------------------------------------------------
(* The inductive invariant: it holds after boot, ...                       *)
LEMMA InitIInv ==
  ASSUME Init
  PROVE  IInv
<1>1. /\ 0 \in Slots /\ 1 \in Slots /\ {0, 1} \subseteq Slots
      /\ CalculateTicks(1) \in Nat
  BY SizesAssumption, TicksAssumption DEF Slots
<1>2. ShellAtBoot \in Process /\ IdleAtBoot \in Process /\ FreeSlot \in Process
  BY <1>1 DEF ShellAtBoot, IdleAtBoot, FreeSlot, Process, States, READY, PAUSED, DEAD,
              ShellPid, idle_pid
<1>3. /\ process_list \in [Slots -> Process]
      /\ process_list[0] = ShellAtBoot /\ process_list[1] = IdleAtBoot
      /\ \A i \in Slots \ {0, 1} : process_list[i] = FreeSlot
  BY <1>1, <1>2 DEF Init
<1>4. Live(process_list) = {0, 1}
  <2>1. /\ process_list[0].state # DEAD /\ process_list[1].state # DEAD
        /\ \A i \in Slots \ {0, 1} : process_list[i].state = DEAD
    BY <1>3 DEF ShellAtBoot, IdleAtBoot, FreeSlot, READY, PAUSED, DEAD
  <2> QED
    BY <1>1, <2>1 DEF Live
<1>5. Cardinality({0, 1}) = 2
  <2>1. {0, 1} = 0 .. 1
    OBVIOUS
  <2>2. Cardinality(0 .. 1) = 2
    BY FS_Interval, 0 \in Int, 1 \in Int, ~(0 > 1), 1 - 0 + 1 = 2
  <2> QED
    BY <2>1, <2>2, Zenon
<1>6. /\ process_list[0].pid = 0 /\ process_list[1].pid = 1
      /\ process_list[0].immortal /\ process_list[1].immortal
      /\ process_list[0].state = READY /\ process_list[1].state = PAUSED
  BY <1>3 DEF ShellAtBoot, IdleAtBoot, ShellPid, idle_pid
<1>7. SoundTable(process_list, dim, pid_value)
  <2>1. \A i \in {0, 1} :
          i \in Live(process_list) /\ process_list[i].pid = i /\ process_list[i].immortal
    BY <1>4, <1>6
  <2>2. pid_value = 2 /\ dim = 2
    BY DEF Init
  <2> QED
    BY <1>3, <1>4, <1>5, <1>6, <2>1, <2>2 DEF SoundTable
<1>8. SoundChildren(process_list, children_processes, pid_value)
  BY DEF Init, SoundChildren, FreeEntry, ChildInfo, DEAD, READY, ShellPid
<1>9. SoundSleepers(process_list, children_processes)
  BY <1>4, <1>6 DEF SoundSleepers, PAUSED, READY, PAUSED_BY_CHILD
<1> QED
  BY <1>1, <1>6, <1>7, <1>8, <1>9 DEF IInv, Init

(* change_priority, for whatever priority, touches no pid and no state.    *)
LEMMA PriorityTouchesTicks ==
  ASSUME IInv, NEW pid \in LivePids(process_list), NEW priority \in Nat,
         ChangePriority(pid, priority)
  PROVE  /\ IInv' /\ Live(process_list') = Live(process_list)
         /\ \A i \in Slots : /\ process_list'[i].pid = process_list[i].pid
                             /\ process_list'[i].state = process_list[i].state
<1> DEFINE idx == GetProcessIdx(process_list, pid)
           ticks == CalculateTicks(Clamped(priority))
           ql == [process_list EXCEPT ![idx].assigned_ticks = ticks]
<1>1. /\ SoundTable(process_list, dim, pid_value)
      /\ SoundChildren(process_list, children_processes, pid_value)
      /\ SoundSleepers(process_list, children_processes)
      /\ process_list \in [Slots -> Process]
  BY DEF IInv, SoundTable
<1>2. idx \in Slots
  BY <1>1, SlotOfPid DEF Live
<1>3. ticks \in Nat
  <2>1. Clamped(priority) \in 1 .. MAX_PRIORITY
    BY SizesAssumption DEF Clamped
  <2> QED
    BY <2>1, TicksAssumption
<1> HIDE DEF idx, ticks
<1>4. /\ ql \in [Slots -> Process]
      /\ \A i \in Slots : /\ ql[i].pid = process_list[i].pid
                          /\ ql[i].state = process_list[i].state
                          /\ ql[i].immortal = process_list[i].immortal
  BY <1>1, <1>2, <1>3 DEF Process
<1>5. process_list' = ql /\ UNCHANGED <<dim, current_process_idx, remaining_ticks,
                                        pid_value, children_processes>>
  BY DEF ChangePriority, idx, ticks
<1> HIDE DEF ql
<1>6. Live(ql) = Live(process_list)
  BY <1>4 DEF Live
<1>7. LivePids(ql) = LivePids(process_list)
  BY <1>4, <1>6 DEF LivePids, PidsOf, Live
<1>8. SoundTable(ql, dim, pid_value)
  BY <1>1, <1>4, <1>6, SameProcessesSound DEF Live
<1>9. SoundChildren(ql, children_processes, pid_value)
  BY <1>1, <1>7 DEF SoundChildren
<1>10. SoundSleepers(ql, children_processes)
  BY <1>1, <1>4, <1>6 DEF SoundSleepers, Live
<1> QED
  BY <1>1, <1>4, <1>5, <1>6, <1>8, <1>9, <1>10 DEF IInv

(* ... and every kernel entry keeps it.                                    *)
LEMMA NextIInv ==
  ASSUME IInv, [Next]_vars
  PROVE  IInv'
<1>1. /\ SoundTable(process_list, dim, pid_value)
      /\ SoundChildren(process_list, children_processes, pid_value)
      /\ SoundSleepers(process_list, children_processes)
      /\ current_process_idx \in Live(process_list)
      /\ current_process_idx \in Slots /\ remaining_ticks \in Nat
      /\ process_list \in [Slots -> Process]
      /\ pid_value \in Nat /\ pid_value > 1
  BY DEF IInv, SoundTable, Live, READY, DEAD
<1>2. /\ CurrentPid \in Nat /\ CurrentPid < pid_value
      /\ CurrentPid \in LivePids(process_list)
  BY <1>1 DEF CurrentPid, SoundTable, Process, LivePids, PidsOf
<1>3. CASE TimerTick
  BY <1>1, <1>3, SwitchSound DEF TimerTick, IInv
<1>4. CASE Yield
  BY <1>1, <1>4, SwitchSound DEF Yield, IInv
<1>5. ASSUME NEW priority \in Priorities, CreateProcess(priority)
      PROVE  IInv'
  <2>1. Spawn(priority) /\ UNCHANGED <<current_process_idx, remaining_ticks, children_processes>>
    BY <1>5 DEF CreateProcess
  <2> QED
    BY <1>1, <2>1, SpawnSound DEF IInv
<1>6. ASSUME NEW priority \in Priorities, CreateChild(priority)
      PROVE  IInv'
  <2>1. /\ Spawn(priority) /\ UNCHANGED <<current_process_idx, remaining_ticks>>
        /\ children_processes' = AddChild(children_processes, CurrentPid, pid_value)
    BY <1>6 DEF CreateChild
  <2>2. /\ SoundTable(process_list', dim', pid_value')
        /\ SoundChildren(process_list', children_processes, pid_value')
        /\ SoundSleepers(process_list', children_processes)
        /\ \A i \in Live(process_list) : process_list'[i] = process_list[i]
        /\ pid_value \in LivePids(process_list')
    BY <2>1, SpawnSound
  <2>3. pid_value' = pid_value + 1
    BY <2>1 DEF Spawn
  <2>4. /\ SoundChildren(process_list', children_processes', pid_value')
        /\ SoundSleepers(process_list', children_processes')
    BY <1>1, <1>2, <2>1, <2>2, <2>3, AddChildSound
  <2> QED
    BY <1>1, <2>1, <2>2, <2>4 DEF IInv
<1>7. CASE CreateChildFails
  <2>1. PICK code \in FailureCodes :
          children_processes' = AddChild(children_processes, CurrentPid, code)
    BY <1>7 DEF CreateChildFails, Refusal, FailureCodes
  <2>2. /\ SoundChildren(process_list, children_processes', pid_value)
        /\ SoundSleepers(process_list, children_processes')
    BY <1>1, <1>2, <2>1, AddChildSound
  <2> QED
    BY <1>1, <1>7, <2>2 DEF CreateChildFails, procVars, IInv
<1>8. CASE WaitForChildren
  <2> DEFINE i == current_process_idx
             ql == WithState(process_list, i, PAUSED_BY_CHILD)
  <2>1. ChangeProcessState(process_list, CurrentPid, PAUSED_BY_CHILD) = ql
    BY <1>1, ChangeStateOfLive DEF CurrentPid
  <2>2. process_list[i].pid # ShellPid =>
          ~AllChildrenFinished(children_processes, process_list[i].pid)
    BY <1>1, <1>8 DEF WaitForChildren, HasChildren, CurrentPid, SoundChildren
  <2>3. /\ SoundTable(ql, dim, pid_value)
        /\ SoundChildren(ql, children_processes, pid_value)
        /\ SoundSleepers(ql, children_processes)
    BY <1>1, <2>2, WithStateSound DEF States, PAUSED_BY_CHILD, DEAD
  <2> HIDE DEF ql
  <2> QED
    BY <1>1, <1>8, <2>1, <2>3, SwitchSound DEF WaitForChildren, IInv
<1>9. ASSUME NEW pid \in LivePids(process_list), KillProcess(pid)
      PROVE  IInv'
  BY <1>9, DestroyAndSwitchSound DEF KillProcess
<1>10. CASE EndProcess
  BY <1>10, DestroyAndSwitchSound DEF EndProcess
<1>11. CASE KillAllProcesses
  BY <1>11, DestroyAndSwitchSound DEF KillAllProcesses
<1>12. ASSUME NEW pid \in LivePids(process_list), BlockOrUnblock(pid)
       PROVE  IInv'
  <2> DEFINE idx == GetProcessIdx(process_list, pid)
             st == IF process_list[idx].state = BLOCK THEN READY ELSE BLOCK
             ql == WithState(process_list, idx, st)
  <2>1. idx \in Live(process_list) /\ idx \in Slots
    BY <1>1, SlotOfPid DEF Live
  <2> HIDE DEF idx
  <2>2. /\ IF idx = current_process_idx
             THEN ForceTimerTick(ql, dim, remaining_ticks)
             ELSE /\ process_list' = ql
                  /\ UNCHANGED <<current_process_idx, remaining_ticks>>
        /\ UNCHANGED <<dim, pid_value, children_processes>>
    BY <1>1, <1>12, <2>1 DEF BlockOrUnblock, WithState, idx
  <2>3. /\ SoundTable(ql, dim, pid_value)
        /\ SoundChildren(ql, children_processes, pid_value)
        /\ SoundSleepers(ql, children_processes)
    <3>1. st \in States \ {DEAD} /\ st # PAUSED_BY_CHILD
      BY DEF States, READY, BLOCK, DEAD, PAUSED_BY_CHILD
    <3> HIDE DEF st
    <3> QED
      BY <1>1, <2>1, <3>1, WithStateSound
  <2>4. idx # current_process_idx => ql[current_process_idx] = process_list[current_process_idx]
    BY <1>1, <2>1 DEF WithState
  <2> HIDE DEF ql
  <2>5. CASE idx = current_process_idx
    BY <1>1, <2>2, <2>3, <2>5, SwitchSound DEF IInv
  <2>6. CASE idx # current_process_idx
    BY <1>1, <2>2, <2>3, <2>4, <2>6 DEF IInv
  <2> QED
    BY <2>5, <2>6
<1>13. ASSUME NEW pid \in LivePids(process_list), NEW priority \in Priorities,
              ChangePriority(pid, priority)
       PROVE  IInv'
  BY <1>13, PriorityTouchesTicks, SizesAssumption
<1>14. CASE UNCHANGED vars
  BY <1>14 DEF vars, IInv
<1> QED
  BY <1>3, <1>4, <1>5, <1>6, <1>7, <1>8, <1>9, <1>10, <1>11, <1>12, <1>13, <1>14
  DEF Next, SystemCall

(* The inductive invariant holds of every behaviour of the kernel.         *)
THEOREM InductiveInvariant == Spec => []IInv
<1>1. Init => IInv
  BY InitIInv
<1>2. IInv /\ [Next]_vars => IInv'
  BY NextIInv
<1> QED
  BY <1>1, <1>2, PTL DEF Spec

-----------------------------------------------------------------------------
(* Every variable keeps its type (scheduler.c:13-41).                      *)
THEOREM TypeCorrect == Spec => []TypeOK
<1>1. IInv => TypeOK
  BY LiveFinite DEF IInv, SoundTable, SoundChildren, TypeOK
<1> QED
  BY <1>1, InductiveInvariant, PTL

(* dim is the number of live processes, whatever dies, and however many at *)
(* once (scheduler.c:185, 203, 305-319).                                   *)
THEOREM DimIsExact == Spec => []DimCountsLive
<1>1. IInv => DimCountsLive
  BY DEF IInv, SoundTable, DimCountsLive
<1> QED
  BY <1>1, InductiveInvariant, PTL

(* No two live processes share a pid (scheduler.c:82-89, 171).             *)
THEOREM PidsStayUnique == Spec => []PidsUnique
<1>1. IInv => PidsUnique
  BY DEF IInv, SoundTable, PidsUnique
<1> QED
  BY <1>1, InductiveInvariant, PTL

(* The shell and the idle process keep their slots and are never killed    *)
(* (scheduler.c:224, 308).                                                 *)
THEOREM KernelProcessesAreSafe == Spec => []KernelProcessesSurvive
<1>1. ASSUME IInv
      PROVE  KernelProcessesSurvive
  <2>1. \A i \in {0, 1} : i \in Live(process_list) /\ process_list[i].pid = i
    BY <1>1 DEF IInv, SoundTable
  <2>2. \A i \in {0, 1} : process_list[i].immortal
    BY <1>1, Zenon DEF IInv, SoundTable
  <2>3. \A i \in Live(process_list) \ {0, 1} : process_list[i].pid > 1
    BY <1>1 DEF IInv, SoundTable
  <2>4. \A i \in Live(process_list) \ {0, 1} : ~process_list[i].immortal
    BY <1>1, Zenon DEF IInv, SoundTable
  <2>5. \A i \in Live(process_list) \cup {0, 1} : process_list[i].state # DEAD
    BY <2>1 DEF Live
  <2> QED
    BY <2>1, <2>2, <2>3, <2>4, <2>5, Zenon DEF KernelProcessesSurvive
<1> QED
  BY <1>1, InductiveInvariant, PTL

(* The CPU always belongs to a READY process: no kernel entry returns to a *)
(* process it killed, blocked or put to sleep (scheduler.c:126, 193, 231). *)
THEOREM CpuOwnerIsReady == Spec => []RunningIsReady
<1>1. IInv => RunningIsReady
  BY DEF IInv, RunningIsReady
<1> QED
  BY <1>1, InductiveInvariant, PTL

(* What counts in the child table can still end, or was never created      *)
(* (child_processes.c:32-68).                                              *)
THEOREM ChildrenCanEnd == Spec => []PendingChildrenAreLive
<1>1. IInv => PendingChildrenAreLive
  BY DEF IInv, SoundChildren, PendingChildrenAreLive
<1> QED
  BY <1>1, InductiveInvariant, PTL

(* What sleeps for children and counts no refused creation has a child     *)
(* that is live and counts.                                                *)
LEMMA SleeperHasLiveChild == ASSUME IInv PROVE SleepersHaveChildren
<1> SUFFICES ASSUME NEW i \in Live(process_list),
                    process_list[i].state = PAUSED_BY_CHILD,
                    process_list[i].pid # ShellPid,
                    \A e \in Pending(children_processes, process_list[i].pid) :
                      children_processes[e].child_pid \notin FailureCodes
             PROVE  \E e \in Pending(children_processes, process_list[i].pid) :
                      children_processes[e].child_pid \in LivePids(process_list)
  BY DEF SleepersHaveChildren
<1>1. PICK e \in Entries : /\ children_processes[e].state = READY
                           /\ children_processes[e].parent_pid = process_list[i].pid
  BY DEF IInv, SoundSleepers, AllChildrenFinished
<1>2. e \in Pending(children_processes, process_list[i].pid)
  BY <1>1 DEF Pending
<1>3. children_processes[e].child_pid \in LivePids(process_list) \cup FailureCodes
  BY <1>1 DEF IInv, SoundChildren
<1> QED
  BY <1>2, <1>3

(* Over any order of births, deaths and waits, a process other than the    *)
(* shell, none of whose creations was refused, never sleeps in             *)
(* wait_for_children with all its children ended                           *)
(* (child_processes.c:32-49, 79-85).                                       *)
THEOREM NoLostWakeup == Spec => []SleepersHaveChildren
<1> QED
  BY SleeperHasLiveChild, InductiveInvariant, PTL
-----------------------------------------------------------------------------
(***************************************************************************)
(* Proofs of what a step of module Scheduler may not do: wake a sleeping   *)
(* parent too early, and turn to the idle process while another could run. *)
(* They rest on the inductive invariant and on what                        *)
(* that invariant does not say of the idle process: that it makes no call. *)
(***************************************************************************)

(* The idle process never waits for children and never has any.            *)
NoSleepingIdle(pl) == pl[1].state # PAUSED_BY_CHILD
NoChildOfIdle(ct) == \A e \in Entries : ct[e].parent_pid # idle_pid
IdleOnlyHalts ==
  NoSleepingIdle(process_list) /\ NoChildOfIdle(children_processes)

-----------------------------------------------------------------------------
(* A sum with remainder i is found within one turn of the ring.            *)
LEMMA ModIs ==
  ASSUME NEW n \in Nat, NEW q \in Int, NEW i \in 0 .. n - 1,
         NEW a \in Int, a = n * q + i
  PROVE  (a % n) = i
<1>1. PICK d \in Int, r \in 0 .. n - 1 : (a % n) = r /\ a = n * d + r
  <2>1. /\ a \div n \in Int /\ (a % n) \in 0 .. n - 1
        /\ a = n * (a \div n) + (a % n)
    OBVIOUS
  <2> QED
    BY <2>1
<1>2. n * (q - d) = r - i
  BY <1>1
<1>3. n * (d - q) = i - r
  BY <1>1
<1>4. ASSUME NEW x \in Int, x >= 1
      PROVE  n * x >= n
  BY <1>4
<1>5. ~(q - d >= 1)
  BY <1>1, <1>2, <1>4
<1>6. ~(d - q >= 1)
  BY <1>1, <1>3, <1>4
<1>7. q = d
  BY <1>5, <1>6
<1> QED
  BY <1>1, <1>7

LEMMA ModReach ==
  ASSUME NEW c \in Nat, NEW n \in Nat, NEW i \in Nat, i < n
  PROVE  \E k \in 1 .. n : ((c + k) % n) = i
<1>1. PICK q \in Int, m \in 0 .. n - 1 : c = n * q + m
  <2>1. /\ c \div n \in Int /\ (c % n) \in 0 .. n - 1
        /\ c = n * (c \div n) + (c % n)
    OBVIOUS
  <2> QED
    BY <2>1
<1>2. PICK k \in 1 .. n, p \in Int : c + k = n * p + i
  <2>1. CASE i > m
    <3>1. i - m \in 1 .. n /\ c + (i - m) = n * q + i
      BY <1>1, <2>1
    <3> QED
      BY <3>1
  <2>2. CASE i <= m
    <3>1. i - m + n \in 1 .. n /\ n * (q + 1) = n * q + n
      BY <1>1, <2>2
    <3>2. c + (i - m + n) = n * (q + 1) + i /\ q + 1 \in Int
      BY <1>1, <3>1
    <3> QED
      BY <3>1, <3>2, Zenon
  <2> QED
    BY <1>1, <2>1, <2>2
<1>3. i \in 0 .. n - 1 /\ c + k \in Int
  OBVIOUS
<1>4. ((c + k) % n) = i
  BY <1>2, <1>3, ModIs, Zenon
<1> QED
  BY <1>4

-----------------------------------------------------------------------------
(* Raising the timer interrupt changes the idle process's state only, and  *)
(* never puts it to sleep.                                                 *)
LEMMA SwitchTouchesIdleOnly ==
  ASSUME NEW pl, NEW n, NEW pv, NEW r \in Nat, SoundTable(pl, n, pv),
         current_process_idx \in Slots, ForceTimerTick(pl, n, r)
  PROVE  /\ SameButIdle(pl, process_list')
         /\ NoSleepingIdle(pl) => NoSleepingIdle(process_list')
<1>1. \A x : x = Irq00(pl, n, current_process_idx, r) => SameButIdle(pl, x.list)
  BY SwitchToReady
<1>2. SameButIdle(pl, process_list')
  BY <1>1 DEF ForceTimerTick
<1> QED
  BY <1>2 DEF SameButIdle, NoSleepingIdle, PAUSED, READY, PAUSED_BY_CHILD

(* When it gives the CPU to an idle process that was not READY, no process *)
(* in the slots below n is.                                                *)
LEMMA SwitchToIdleIsLast ==
  ASSUME NEW pl, NEW n, NEW pv, NEW r \in Nat, SoundTable(pl, n, pv),
         current_process_idx \in Slots, current_process_idx # 1,
         ForceTimerTick(pl, n, r),
         pl[1].state # READY, current_process_idx' = 1
  PROVE  \A i \in Live(process_list') :
           process_list'[i].state = READY /\ i < n => i = 1
<1> DEFINE c == current_process_idx
           A == ReadyAhead(pl, n, c)
<1>1. ~(r > 0 /\ pl[c].state = READY)
  BY DEF ForceTimerTick, Irq00
<1>2. current_process_idx' = Chosen(pl, n, c)
  BY <1>1 DEF ForceTimerTick, Irq00, NextProcess
<1>3. A = {}
  <2>1. SUFFICES ASSUME A # {}
                 PROVE  FALSE
    OBVIOUS
  <2>2. Least(A) \in A
    BY <2>1, LeastIn, A \in SUBSET Nat DEF ReadyAhead
  <2>3. pl[Chosen(pl, n, c)].state = READY
    BY <2>1, <2>2 DEF Chosen, ReadyAhead
  <2> QED
    BY <1>2, <2>3
<1>4. SameButIdle(pl, process_list')
  BY SwitchTouchesIdleOnly
<1>5. n \in Nat /\ c \in Nat
  BY LiveFinite DEF SoundTable, Slots
<1>6. ASSUME NEW i \in Live(process_list'), process_list'[i].state = READY,
             i < n, i # 1
      PROVE  FALSE
  <2>1. i \in Slots /\ i \in Nat
    BY DEF Live, Slots
  <2>2. pl[i].state = READY
    BY <1>4, <1>6, <2>1 DEF SameButIdle
  <2>3. PICK k \in 1 .. n : ((c + k) % n) = i
    BY <1>5, <1>6, <2>1, ModReach
  <2>4. k \in A
    BY <2>2, <2>3 DEF ReadyAhead
  <2> QED
    BY <1>3, <2>4
<1> QED
  BY <1>6

(* A death makes no entry of the idle process and does not put it to sleep.*)
LEMMA DestroyKeepsIdle ==
  ASSUME NEW pl, NEW n, NEW pv, NEW ct, NEW S \in SUBSET Mortal(pl),
         NEW after, after = Destroy(pl, ct, S),
         SoundTable(pl, n, pv), SoundChildren(pl, ct, pv),
         NoSleepingIdle(pl), NoChildOfIdle(ct)
  PROVE  /\ NoSleepingIdle(after.list) /\ NoChildOfIdle(after.table)
         /\ after.list[1] = pl[1]
<1>1. 1 \notin S /\ 1 \in Slots /\ pl[1].pid = idle_pid /\ S \in SUBSET Live(pl)
  <2>1. 1 \notin S
    BY Zenon DEF Mortal, SoundTable
  <2> QED
    BY <2>1, IdleSlot DEF Mortal
<1>2. idle_pid \notin FinishedParents(ct, PidsOf(pl, S))
  BY DEF FinishedParents, NoChildOfIdle
<1>3. after.list[1] = pl[1]
  BY <1>1, <1>2 DEF Destroy
<1>4. \A e \in Entries : \/ after.table[e] = FreeEntry
                         \/ after.table[e].parent_pid = ct[e].parent_pid
  BY <1>1, DestroyTable
<1>5. NoChildOfIdle(after.table)
  BY <1>4 DEF NoChildOfIdle, FreeEntry, idle_pid
<1> QED
  BY <1>3, <1>5 DEF NoSleepingIdle

(* add_child enters the caller as parent, and nobody else.                 *)
LEMMA AddChildKeepsIdle ==
  ASSUME NEW ct, NEW pl, NEW pv, NEW parent, parent # idle_pid, NEW child,
         SoundChildren(pl, ct, pv), NoChildOfIdle(ct)
  PROVE  NoChildOfIdle(AddChild(ct, parent, child))
<1> DEFINE free == FreeEntries(ct)
           entry == [parent_pid |-> parent, child_pid |-> child, state |-> READY]
<1>1. CASE free = {}
  BY <1>1 DEF AddChild
<1>2. CASE free # {}
  <2>1. AddChild(ct, parent, child) = [ct EXCEPT ![Least(free)] = entry]
    BY <1>2 DEF AddChild
  <2>2. ct \in [Entries -> ChildInfo] /\ entry.parent_pid = parent
    BY DEF SoundChildren
  <2> HIDE DEF entry, free
  <2> QED
    BY <2>1, <2>2 DEF NoChildOfIdle
<1> QED
  BY <1>1, <1>2

-----------------------------------------------------------------------------
(* A step of the kernel is one of four: it moves the CPU over a table that *)
(* differs from the old one by no wake-up, kills some, lets block_or_unblock*)
(* touch another process, or leaves every state and the CPU alone.         *)
QuietSwitch ==
  \E pl \in [Slots -> Process], r \in Nat :
    /\ SoundTable(pl, dim, pid_value)
    /\ ForceTimerTick(pl, dim, r)
    /\ \A i \in Slots : pl[i].state = READY => process_list[i].state = READY
                                                \/ process_list[i].state = BLOCK
    /\ pl[1].state \in {process_list[1].state, BLOCK, READY}
    /\ pl[1].state = READY => process_list[1].state = READY
                               \/ current_process_idx = 1
    /\ UNCHANGED <<dim, children_processes>>

SomeDie == \E S \in SUBSET Mortal(process_list) : DestroyAndSwitch(S)

NoSwitch ==
  /\ UNCHANGED current_process_idx
  /\ \A i \in Slots : process_list'[i].state = process_list[i].state
       \/ process_list[i].state = DEAD \/ process_list'[i].state = BLOCK
       \/ process_list[i].state = BLOCK
  /\ process_list'[1].state \in {process_list[1].state, BLOCK, READY}
  /\ \/ UNCHANGED children_processes
     \/ \E child : children_processes' = AddChild(children_processes, CurrentPid, child)
  /\ \/ UNCHANGED children_processes
     \/ Calling

LEMMA StepKinds ==
  ASSUME IInv, [Next]_vars, NoSleepingIdle(process_list)
  PROVE  QuietSwitch \/ SomeDie \/ NoSwitch
<1>1. /\ SoundTable(process_list, dim, pid_value)
      /\ SoundChildren(process_list, children_processes, pid_value)
      /\ SoundSleepers(process_list, children_processes)
      /\ current_process_idx \in Live(process_list)
      /\ current_process_idx \in Slots /\ remaining_ticks \in Nat
      /\ process_list \in [Slots -> Process]
      /\ process_list[current_process_idx].state = READY
      /\ 1 \in Slots /\ process_list[1].pid = idle_pid
      /\ process_list[1].state # DEAD
  <2>1. SoundTable(process_list, dim, pid_value)
    BY DEF IInv
  <2>2. 1 \in Slots /\ process_list[1].pid = idle_pid /\ process_list[1].state # DEAD
    BY <2>1, IdleSlot DEF Live
  <2> QED
    BY <2>1, <2>2 DEF IInv, SoundTable, Live, READY, DEAD
<1>2. ASSUME NEW r \in Nat, ForceTimerTick(process_list, dim, r),
             UNCHANGED <<dim, children_processes>>
      PROVE  QuietSwitch
  BY <1>1, <1>2 DEF QuietSwitch
<1>3. CASE TimerTick
  BY <1>1, <1>2, <1>3 DEF TimerTick
<1>4. CASE Yield
  BY <1>2, <1>4 DEF Yield
<1>5. ASSUME NEW priority \in Priorities, Spawn(priority)
      PROVE  \A i \in Slots : process_list[i].state = DEAD
                             \/ process_list'[i] = process_list[i]
  BY <1>1, <1>5, SpawnSound DEF Live
<1>6. ASSUME NEW priority \in Priorities,
             CreateProcess(priority) \/ CreateChild(priority)
      PROVE  NoSwitch
  <2>1. Spawn(priority) /\ UNCHANGED current_process_idx
        /\ \/ UNCHANGED children_processes
           \/ /\ Calling
              /\ children_processes' =
                   AddChild(children_processes, CurrentPid, pid_value)
    BY <1>6 DEF CreateProcess, CreateChild
  <2>2. process_list'[1] = process_list[1]
    BY <1>1, <1>5, <2>1
  <2> QED
    BY <1>5, <2>1, <2>2 DEF NoSwitch
<1>7. CASE CreateChildFails
  BY <1>7 DEF CreateChildFails, procVars, NoSwitch
<1>8. CASE WaitForChildren
  <2> DEFINE i == current_process_idx
             ql == WithState(process_list, i, PAUSED_BY_CHILD)
  <2>1. ChangeProcessState(process_list, CurrentPid, PAUSED_BY_CHILD) = ql
    BY <1>1, ChangeStateOfLive DEF CurrentPid
  <2>2. process_list[i].pid # ShellPid =>
          ~AllChildrenFinished(children_processes, process_list[i].pid)
    BY <1>8 DEF WaitForChildren, HasChildren, CurrentPid, IInv, SoundChildren
  <2>3. SoundTable(ql, dim, pid_value)
    BY <1>1, <2>2, WithStateSound DEF States, PAUSED_BY_CHILD, DEAD
  <2>4. i # 1
    BY <1>1, <1>8 DEF WaitForChildren, Calling, CurrentPid
  <2>5. /\ ql \in [Slots -> Process]
        /\ ql[i].state = PAUSED_BY_CHILD
        /\ \A j \in Slots \ {i} : ql[j] = process_list[j]
    BY <1>1 DEF WithState, Process, States
  <2>6. ForceTimerTick(ql, dim, remaining_ticks) /\ UNCHANGED <<dim, children_processes>>
    BY <1>8, <2>1 DEF WaitForChildren
  <2> HIDE DEF ql
  <2> QED
    BY <1>1, <2>3, <2>4, <2>5, <2>6 DEF QuietSwitch, PAUSED_BY_CHILD, READY
<1>9. ASSUME NEW pid \in LivePids(process_list), KillProcess(pid)
      PROVE  SomeDie
  BY <1>9 DEF KillProcess, SomeDie
<1>10. CASE EndProcess
  BY <1>10 DEF EndProcess, SomeDie
<1>11. CASE KillAllProcesses
  BY <1>11 DEF KillAllProcesses, SomeDie
<1>12. ASSUME NEW pid \in LivePids(process_list), BlockOrUnblock(pid)
       PROVE  QuietSwitch \/ NoSwitch
  <2> DEFINE idx == GetProcessIdx(process_list, pid)
             st == IF process_list[idx].state = BLOCK THEN READY ELSE BLOCK
             ql == WithState(process_list, idx, st)
  <2>1. idx \in Live(process_list) /\ idx \in Slots
    BY <1>1, SlotOfPid DEF Live
  <2> HIDE DEF idx
  <2>2. /\ IF idx = current_process_idx
             THEN ForceTimerTick(ql, dim, remaining_ticks)
             ELSE /\ process_list' = ql
                  /\ UNCHANGED <<current_process_idx, remaining_ticks>>
        /\ UNCHANGED <<dim, pid_value, children_processes>>
    BY <1>1, <1>12, <2>1 DEF BlockOrUnblock, WithState, idx
  <2>3. /\ ql \in [Slots -> Process]
        /\ ql[idx].state = st
        /\ \A j \in Slots \ {idx} : ql[j] = process_list[j]
        /\ st \in {READY, BLOCK}
        /\ st = READY => process_list[idx].state = BLOCK
    BY <1>1, <2>1 DEF WithState, Process, States, READY, BLOCK
  <2>4. SoundTable(ql, dim, pid_value)
    <3>1. st \in States \ {DEAD} /\ st # PAUSED_BY_CHILD
      BY DEF States, READY, BLOCK, DEAD, PAUSED_BY_CHILD
    <3> HIDE DEF st
    <3> QED
      BY <1>1, <2>1, <3>1, WithStateSound
  <2> HIDE DEF ql, st
  <2>5. CASE idx = current_process_idx
    BY <1>1, <2>2, <2>3, <2>4, <2>5 DEF QuietSwitch, READY, BLOCK
  <2>6. CASE idx # current_process_idx
    BY <1>1, <2>2, <2>3, <2>6 DEF NoSwitch
  <2> QED
    BY <2>5, <2>6
<1>13. ASSUME NEW pid \in LivePids(process_list), NEW priority \in Priorities,
              ChangePriority(pid, priority)
       PROVE  NoSwitch
  <2>1. /\ process_list' = [process_list EXCEPT
              ![GetProcessIdx(process_list, pid)].assigned_ticks =
                 CalculateTicks(Clamped(priority))]
        /\ UNCHANGED <<current_process_idx, children_processes>>
    BY <1>13 DEF ChangePriority
  <2>2. \A i \in Slots : process_list'[i].state = process_list[i].state
    BY <1>1, <2>1 DEF Process
  <2> QED
    BY <1>1, <2>1, <2>2 DEF NoSwitch
<1>14. CASE UNCHANGED vars
  BY <1>14 DEF vars, NoSwitch
<1> QED
  BY <1>3, <1>4, <1>6, <1>7, <1>8, <1>9, <1>10, <1>11, <1>12, <1>13, <1>14
  DEF Next, SystemCall

(* The idle process makes no call, so it has no children to wait for.      *)
LEMMA IdleStaysIdle ==
  ASSUME IInv, IdleOnlyHalts, [Next]_vars
  PROVE  IdleOnlyHalts'
<1>1. QuietSwitch \/ SomeDie \/ NoSwitch
  BY StepKinds DEF IdleOnlyHalts
<1>2. CASE QuietSwitch
  <2>1. PICK pl \in [Slots -> Process], r \in Nat :
          /\ SoundTable(pl, dim, pid_value)
          /\ ForceTimerTick(pl, dim, r)
          /\ pl[1].state \in {process_list[1].state, BLOCK, READY}
          /\ UNCHANGED children_processes
    BY <1>2 DEF QuietSwitch
  <2>2. NoSleepingIdle(pl)
    BY <2>1 DEF IdleOnlyHalts, NoSleepingIdle, BLOCK, READY, PAUSED_BY_CHILD
  <2>3. NoSleepingIdle(process_list')
    BY <2>1, <2>2, SwitchTouchesIdleOnly DEF IInv
  <2> QED
    BY <2>1, <2>3 DEF IdleOnlyHalts, NoChildOfIdle
<1>3. CASE SomeDie
  <2>1. PICK S \in SUBSET Mortal(process_list) : DestroyAndSwitch(S)
    BY <1>3 DEF SomeDie
  <2> DEFINE after == Destroy(process_list, children_processes, S)
             left == dim - Cardinality(S)
  <2>2. /\ \/ ForceTimerTick(after.list, left, 0)
           \/ process_list' = after.list
        /\ children_processes' = after.table
    BY <2>1 DEF DestroyAndSwitch
  <2>3. \A x : x = Destroy(process_list, children_processes, S) =>
          /\ NoSleepingIdle(x.list) /\ NoChildOfIdle(x.table)
          /\ SoundTable(x.list, left, pid_value)
    BY DestroyKeepsIdle, DestroySound DEF IInv, IdleOnlyHalts
  <2>4. /\ NoSleepingIdle(after.list) /\ NoChildOfIdle(after.table)
        /\ SoundTable(after.list, left, pid_value)
    BY <2>3
  <2> HIDE DEF after, left
  <2>5. NoSleepingIdle(process_list')
    BY <2>2, <2>4, SwitchTouchesIdleOnly DEF IInv
  <2> QED
    BY <2>2, <2>4, <2>5 DEF IdleOnlyHalts
<1>4. CASE NoSwitch
  <2>1. NoSleepingIdle(process_list')
    BY <1>4 DEF NoSwitch, IdleOnlyHalts, NoSleepingIdle, BLOCK, READY, PAUSED_BY_CHILD
  <2>2. CASE UNCHANGED children_processes
    BY <2>1, <2>2 DEF IdleOnlyHalts, NoChildOfIdle
  <2>3. ASSUME NEW child, Calling,
               children_processes' = AddChild(children_processes, CurrentPid, child)
        PROVE  NoChildOfIdle(children_processes')
    BY <2>3, AddChildKeepsIdle DEF IInv, IdleOnlyHalts, Calling
  <2> QED
    BY <1>4, <2>1, <2>2, <2>3 DEF NoSwitch, IdleOnlyHalts
<1> QED
  BY <1>1, <1>2, <1>3, <1>4

LEMMA IdleInvariant == Spec => [](IInv /\ IdleOnlyHalts)
<1>1. Init => IInv /\ IdleOnlyHalts
  <2>1. ASSUME Init
        PROVE  IdleOnlyHalts
    <3>1. 1 \in Slots
      BY SizesAssumption DEF Slots
    <3>2. process_list[1] = IdleAtBoot
      BY <2>1, <3>1 DEF Init
    <3>3. IdleAtBoot.state = PAUSED
      BY DEF IdleAtBoot, ShellAtBoot
    <3>4. NoSleepingIdle(process_list)
      BY <3>2, <3>3 DEF NoSleepingIdle, PAUSED, PAUSED_BY_CHILD
    <3>5. NoChildOfIdle(children_processes)
      BY <2>1 DEF Init, NoChildOfIdle, FreeEntry, idle_pid
    <3> QED
      BY <3>4, <3>5 DEF IdleOnlyHalts
  <2> QED
    BY <2>1, InitIInv
<1>2. IInv /\ IdleOnlyHalts /\ [Next]_vars => (IInv /\ IdleOnlyHalts)'
  BY NextIInv, IdleStaysIdle
<1> QED
  BY <1>1, <1>2, PTL DEF Spec

-----------------------------------------------------------------------------
(* No early wake-up: a sleeping parent is made READY by the end of its last*)
(* child only, whoever is killed, in whatever order, one or all at once    *)
(* (child_processes.c:32-49, scheduler.c:305-319).                         *)
THEOREM LastChildWakes == Spec => WokenByLastChild
<1>1. ASSUME IInv, IdleOnlyHalts, [Next]_vars, NEW i \in Slots,
             process_list[i].state = PAUSED_BY_CHILD,
             process_list'[i].state = READY,
             NEW e \in Entries,
             children_processes[e].state = READY,
             children_processes[e].parent_pid = process_list[i].pid
      PROVE  children_processes[e].child_pid \notin LivePids(process_list')
  <2>1. QuietSwitch \/ SomeDie \/ NoSwitch
    BY <1>1, StepKinds DEF IdleOnlyHalts
  <2>2. i # 1 /\ i \in Live(process_list)
    BY <1>1 DEF IdleOnlyHalts, NoSleepingIdle, Live, PAUSED_BY_CHILD, DEAD
  <2>3. ~NoSwitch
    BY <1>1 DEF NoSwitch, PAUSED_BY_CHILD, READY, DEAD, BLOCK
  <2>4. ~QuietSwitch
    <3>1. SUFFICES ASSUME NEW pl \in [Slots -> Process], NEW r \in Nat,
                          SoundTable(pl, dim, pid_value),
                          ForceTimerTick(pl, dim, r),
                          pl[i].state = READY => process_list[i].state \in {READY, BLOCK}
                   PROVE  FALSE
      BY DEF QuietSwitch
    <3>2. SameButIdle(pl, process_list')
      BY <1>1, <3>1, SwitchTouchesIdleOnly DEF IInv
    <3>3. pl[i].state = READY
      BY <1>1, <2>2, <3>2 DEF SameButIdle
    <3> QED
      BY <1>1, <3>1, <3>3 DEF PAUSED_BY_CHILD, READY, BLOCK
  <2>5. PICK S \in SUBSET Mortal(process_list) : DestroyAndSwitch(S)
    BY <2>1, <2>3, <2>4 DEF SomeDie
  <2> DEFINE after == Destroy(process_list, children_processes, S)
             left == dim - Cardinality(S)
             pids == PidsOf(process_list, S)
             child == children_processes[e].child_pid
  <2>6. \/ ForceTimerTick(after.list, left, 0)
        \/ process_list' = after.list
    BY <2>5 DEF DestroyAndSwitch
  <2>7. S \in SUBSET Live(process_list) /\ 0 \notin S /\ 1 \notin S
    <3>1. 0 \notin S /\ 1 \notin S
      BY <1>1, Zenon DEF Mortal, IInv, SoundTable
    <3> QED
      BY <3>1 DEF Mortal
  <2>8. \A x : x = Destroy(process_list, children_processes, S) =>
          /\ SoundTable(x.list, left, pid_value)
          /\ Live(x.list) = Live(process_list) \ S
          /\ \A j \in Live(process_list) \ S : x.list[j].pid = process_list[j].pid
    BY <1>1, <2>7, DestroyList DEF IInv
  <2>9. /\ SoundTable(after.list, left, pid_value)
        /\ Live(after.list) = Live(process_list) \ S
        /\ \A j \in Live(process_list) \ S : after.list[j].pid = process_list[j].pid
    BY <2>8
  <2>10. after.list[i].state = READY => i \notin S /\ process_list[i].pid \in
                                         FinishedParents(children_processes, pids)
    BY <1>1, <2>2 DEF Destroy, FreeSlot, READY, DEAD, PAUSED_BY_CHILD
  <2> HIDE DEF after, left, pids
  <2>11. SameButIdle(after.list, process_list')
    <3>1. ASSUME ForceTimerTick(after.list, left, 0)
          PROVE  SameButIdle(after.list, process_list')
      BY <1>1, <2>9, <3>1, SwitchTouchesIdleOnly DEF IInv
    <3> QED
      BY <2>6, <3>1 DEF SameButIdle
  <2>12. process_list[i].pid \in FinishedParents(children_processes, pids)
    BY <1>1, <2>2, <2>10, <2>11 DEF SameButIdle
  <2>13. AllChildrenFinished(BuryEntries(children_processes, pids), process_list[i].pid)
    BY <2>12 DEF FinishedParents
  <2>14. child \in pids
    BY <1>1, <2>13 DEF AllChildrenFinished, BuryEntries
  <2>15. PICK s \in S : process_list[s].pid = child
    BY <2>14 DEF pids, PidsOf
  <2>16. ASSUME NEW j \in Live(process_list'), process_list'[j].pid = child
         PROVE  FALSE
    <3>1. j \in Slots /\ after.list[j].pid = child
      BY <2>11, <2>16 DEF SameButIdle, Live
    <3>2. j \in Live(after.list)
      <4>1. 1 \in Live(after.list)
        BY <2>9, IdleSlot
      <4> QED
        BY <2>11, <2>16, <3>1, <4>1 DEF SameButIdle, Live
    <3>3. j \in Live(process_list) \ S /\ process_list[j].pid = process_list[s].pid
      BY <2>9, <2>15, <3>1, <3>2
    <3> QED
      BY <1>1, <2>7, <3>3 DEF IInv, SoundTable
  <2> QED
    BY <2>16 DEF LivePids, PidsOf
<1>2. IInv /\ IdleOnlyHalts /\ [Next]_vars =>
        [\A i \in Slots :
           /\ process_list[i].state = PAUSED_BY_CHILD
           /\ process_list'[i].state = READY
           => \A e \in Entries :
                /\ children_processes[e].state = READY
                /\ children_processes[e].parent_pid = process_list[i].pid
                => children_processes[e].child_pid \notin LivePids(process_list')]_vars
  BY <1>1
<1> QED
  BY <1>2, IdleInvariant, PTL DEF Spec, WokenByLastChild

(* The dispatcher turns to the idle process only when nothing below dim    *)
(* can run, from any slot, with any holes in the table and whatever has    *)
(* just died (scheduler.c:245-259).                                        *)
THEOREM IdleRunsLast == Spec => IdleIsLastResort
<1>1. ASSUME IInv, IdleOnlyHalts, [Next]_vars,
             process_list[1].state # READY,
             process_list'[1].state = READY,
             current_process_idx' = 1,
             NEW i \in Live(process_list'),
             process_list'[i].state = READY, i < dim'
      PROVE  i = 1
  <2>1. QuietSwitch \/ SomeDie \/ NoSwitch
    BY <1>1, StepKinds DEF IdleOnlyHalts
  <2>2. current_process_idx # 1 /\ current_process_idx \in Slots
    BY <1>1 DEF IInv
  <2>3. CASE NoSwitch
    BY <1>1, <2>2, <2>3 DEF NoSwitch
  <2>4. CASE QuietSwitch
    <3>1. PICK pl \in [Slots -> Process], r \in Nat :
            /\ SoundTable(pl, dim, pid_value)
            /\ ForceTimerTick(pl, dim, r)
            /\ pl[1].state # READY /\ dim' = dim
      BY <1>1, <2>2, <2>4 DEF QuietSwitch
    <3> QED
      BY <1>1, <2>2, <3>1, SwitchToIdleIsLast
  <2>5. CASE SomeDie
    <3>1. PICK S \in SUBSET Mortal(process_list) : DestroyAndSwitch(S)
      BY <2>5 DEF SomeDie
    <3> DEFINE after == Destroy(process_list, children_processes, S)
               left == dim - Cardinality(S)
    <3>2. ForceTimerTick(after.list, left, 0) /\ dim' = left
      BY <1>1, <2>2, <3>1 DEF DestroyAndSwitch
    <3>3. \A x : x = Destroy(process_list, children_processes, S) =>
            x.list[1] = process_list[1] /\ SoundTable(x.list, left, pid_value)
      BY <1>1, DestroyKeepsIdle, DestroySound DEF IInv, IdleOnlyHalts
    <3>4. after.list[1] = process_list[1] /\ SoundTable(after.list, left, pid_value)
      BY <3>3
    <3> HIDE DEF after, left
    <3> QED
      BY <1>1, <2>2, <3>2, <3>4, SwitchToIdleIsLast
  <2> QED
    BY <2>1, <2>3, <2>4, <2>5
<1>2. IInv /\ IdleOnlyHalts /\ [Next]_vars =>
        [/\ process_list[1].state # READY
         /\ process_list'[1].state = READY
         /\ current_process_idx' = 1
         => \A i \in Live(process_list') :
              process_list'[i].state = READY /\ i < dim' => i = 1]_vars
  BY <1>1
<1> QED
  BY <1>2, IdleInvariant, PTL DEF Spec, IdleIsLastResort

-----------------------------------------------------------------------------
(* The loops of the kernel and the closed forms of the model.              *)

(* A child that counts is named by one entry.                              *)
NamedOnce(ct) ==
  \A e, f \in Entries :
    /\ ct[e].state = READY /\ ct[f].state = READY
    /\ ct[e].child_pid = ct[f].child_pid /\ ct[e].child_pid \in Nat
    => e = f

(* Nobody dies: nothing changes.                                           *)
LEMMA DestroyNobody ==
  ASSUME NEW pl \in [Slots -> Process], NEW ct \in [Entries -> ChildInfo]
  PROVE  Destroy(pl, ct, {}) = [list |-> pl, table |-> ct]
<1>1. PidsOf(pl, {}) = {} /\ FinishedParents(ct, {}) = {}
  BY DEF PidsOf, FinishedParents
<1>2. BuryEntries(ct, {}) = ct
  BY DEF BuryEntries
<1>3. [i \in Slots |-> IF i \in {} THEN FreeSlot
                       ELSE IF pl[i].state # DEAD /\ pl[i].pid \in {}
                         THEN [pl[i] EXCEPT !.state = READY] ELSE pl[i]] = pl
  OBVIOUS
<1>4. [e \in Entries |-> IF ct[e].parent_pid \in {} THEN FreeEntry ELSE ct[e]] = ct
  OBVIOUS
<1> QED BY <1>1, <1>2, <1>3, <1>4 DEF Destroy

(* Whose children have all ended once R are dead.                          *)
LEMMA FinishedIs ==
  ASSUME NEW ct \in [Entries -> ChildInfo], NEW R, NEW x
  PROVE  x \in FinishedParents(ct, R) <=>
           /\ {e \in Entries : /\ ct[e].state = READY /\ ct[e].parent_pid = x
                               /\ ct[e].child_pid \notin R} = {}
           /\ \E e \in Entries : /\ ct[e].state = READY /\ ct[e].child_pid \in R
                                 /\ ct[e].parent_pid = x
<1> DEFINE Left == {e \in Entries : /\ ct[e].state = READY /\ ct[e].parent_pid = x
                                    /\ ct[e].child_pid \notin R}
<1>1. AllChildrenFinished(BuryEntries(ct, R), x) <=> Left = {}
  <2>1. DEAD # READY
    BY DEF DEAD, READY
  <2>2. \A e \in Entries : (BuryEntries(ct, R)[e].state = READY
                              /\ BuryEntries(ct, R)[e].parent_pid = x) <=> e \in Left
    BY <2>1 DEF BuryEntries, ChildInfo
  <2> QED BY <2>2 DEF AllChildrenFinished
<1>2. x \in FinishedParents(ct, R) <=>
        \E e \in Entries : /\ ct[e].state = READY /\ ct[e].child_pid \in R
                          /\ ct[e].parent_pid = x
                          /\ AllChildrenFinished(BuryEntries(ct, R), x)
  BY DEF FinishedParents
<1> QED BY <1>1, <1>2

(* What set_dead_process does when it finds entry e first.                 *)
LEMMA SetDeadIs ==
  ASSUME NEW pl, NEW ct, NEW pid, NEW e, NEW parent,
         {f \in Entries : ct[f].state = READY /\ ct[f].child_pid = pid} # {},
         Least({f \in Entries : ct[f].state = READY /\ ct[f].child_pid = pid}) = e,
         ct[e].parent_pid = parent
  PROVE  SetDeadProcess([list |-> pl, table |-> ct], pid) =
           IF AllChildrenFinished([ct EXCEPT ![e].state = DEAD], parent)
             THEN [list |-> ChangeProcessState(pl, parent, READY),
                   table |-> DeleteChildren([ct EXCEPT ![e].state = DEAD], parent)]
             ELSE [list |-> pl, table |-> [ct EXCEPT ![e].state = DEAD]]
<1> DEFINE sys == [list |-> pl, table |-> ct]
           found(c) == {f \in Entries : c[f].state = READY /\ c[f].child_pid = pid}
<1>1. sys.list = pl /\ sys.table = ct
  OBVIOUS
<1>2. \A x : [sys EXCEPT !.table = x] = [list |-> pl, table |-> x]
  OBVIOUS
<1> HIDE DEF sys
<1>4. SetDeadProcess(sys, pid) =
        LET entry == Least(found(sys.table))
            father == sys.table[entry].parent_pid
            marked == [sys.table EXCEPT ![entry].state = DEAD]
        IN  IF found(sys.table) = {} THEN sys
            ELSE IF AllChildrenFinished(marked, father)
              THEN [list |-> ChangeProcessState(sys.list, father, READY),
                    table |-> DeleteChildren(marked, father)]
            ELSE [sys EXCEPT !.table = marked]
  BY Zenon DEF SetDeadProcess
<1>5. found(sys.table) = found(ct) /\ found(ct) # {} /\ Least(found(ct)) = e
  BY <1>1
<1> HIDE DEF found
<1>3. SetDeadProcess(sys, pid) =
           IF AllChildrenFinished([ct EXCEPT ![e].state = DEAD], parent)
             THEN [list |-> ChangeProcessState(pl, parent, READY),
                   table |-> DeleteChildren([ct EXCEPT ![e].state = DEAD], parent)]
             ELSE [list |-> pl, table |-> [ct EXCEPT ![e].state = DEAD]]
  BY <1>1, <1>2, <1>4, <1>5, Zenon
<1> QED BY <1>3 DEF sys

(* One more death, after those of S: the loop finds the one entry of the   *)
(* dead process, unless its parent has been woken, which cannot be as long *)
(* as that entry counts.                                                   *)
LEMMA OneMoreDies ==
  ASSUME NEW pl, NEW n, NEW pv, SoundTable(pl, n, pv),
         NEW ct \in [Entries -> ChildInfo], NamedOnce(ct),
         NEW S \in SUBSET Live(pl), NEW i \in Live(pl) \ S
  PROVE  Destroy(pl, ct, S \cup {i}) = DestroyProcess(Destroy(pl, ct, S), i)
<1> DEFINE P == PidsOf(pl, S)
           Q == PidsOf(pl, S \cup {i})
           p == pl[i].pid
           F == FinishedParents(ct, P)
           G == FinishedParents(ct, Q)
           L == Destroy(pl, ct, S).list
           T == Destroy(pl, ct, S).table
           M == [L EXCEPT ![i] = FreeSlot]
           found == {e \in Entries : T[e].state = READY /\ T[e].child_pid = p}
<1>1. /\ Q = P \cup {p} /\ p \notin P /\ p \in Nat
      /\ i \in Slots /\ S \subseteq Slots /\ pl \in [Slots -> Process]
      /\ \A j \in Live(pl) \ S : pl[j].pid \notin P
      /\ \A j, k \in Live(pl) : pl[j].pid = pl[k].pid => j = k
  BY DEF PidsOf, SoundTable, Live, Process
<1>2. /\ L = [j \in Slots |-> IF j \in S THEN FreeSlot
                              ELSE IF pl[j].state # DEAD /\ pl[j].pid \in F
                                THEN [pl[j] EXCEPT !.state = READY]
                              ELSE pl[j]]
      /\ T = [e \in Entries |-> IF ct[e].parent_pid \in F THEN FreeEntry
                                ELSE BuryEntries(ct, P)[e]]
  BY DEF Destroy
<1>3. L[i].pid = p
  BY <1>1, <1>2 DEF Process
<1>4. DestroyProcess(Destroy(pl, ct, S), i) = SetDeadProcess([list |-> M, table |-> T], p)
  <2>1. Destroy(pl, ct, S) = [list |-> L, table |-> T]
    BY DEF Destroy
  <2> HIDE DEF L, T
  <2> QED BY <1>3, <2>1 DEF DestroyProcess, M
<1>5. Destroy(pl, ct, S \cup {i}) =
        [list |-> [j \in Slots |-> IF j \in S \cup {i} THEN FreeSlot
                              ELSE IF pl[j].state # DEAD /\ pl[j].pid \in G
                                THEN [pl[j] EXCEPT !.state = READY]
                              ELSE pl[j]],
         table |-> [e \in Entries |-> IF ct[e].parent_pid \in G THEN FreeEntry
                                      ELSE BuryEntries(ct, Q)[e]]]
  BY DEF Destroy
<1>6. /\ \A e \in Entries : /\ ct[e] \in ChildInfo
                            /\ BuryEntries(ct, P)[e] =
                                 IF ct[e].state = READY /\ ct[e].child_pid \in P
                                   THEN [ct[e] EXCEPT !.state = DEAD] ELSE ct[e]
                            /\ BuryEntries(ct, Q)[e] =
                                 IF ct[e].state = READY /\ ct[e].child_pid \in Q
                                   THEN [ct[e] EXCEPT !.state = DEAD] ELSE ct[e]
  BY DEF BuryEntries
<1>7. DEAD # READY /\ FreeEntry.state = DEAD /\ FreeSlot.state = DEAD
  BY DEF DEAD, READY, FreeEntry, FreeSlot
<1> DEFINE Left(R, x) == {e \in Entries : /\ ct[e].state = READY /\ ct[e].parent_pid = x
                                          /\ ct[e].child_pid \notin R}
<1>9. /\ \A x : x \in F <=> /\ Left(P, x) = {}
                            /\ \E e \in Entries : /\ ct[e].state = READY
                                                  /\ ct[e].child_pid \in P
                                                  /\ ct[e].parent_pid = x
      /\ \A x : x \in G <=> /\ Left(Q, x) = {}
                            /\ \E e \in Entries : /\ ct[e].state = READY
                                                  /\ ct[e].child_pid \in Q
                                                  /\ ct[e].parent_pid = x
  <2> HIDE DEF P, Q
  <2>1. \A x : x \in F <=> /\ Left(P, x) = {}
                            /\ \E e \in Entries : /\ ct[e].state = READY
                                                  /\ ct[e].child_pid \in P
                                                  /\ ct[e].parent_pid = x
    BY FinishedIs
  <2>2. \A x : x \in G <=> /\ Left(Q, x) = {}
                            /\ \E e \in Entries : /\ ct[e].state = READY
                                                  /\ ct[e].child_pid \in Q
                                                  /\ ct[e].parent_pid = x
    BY FinishedIs
  <2> QED BY <2>1, <2>2
<1> HIDE DEF P, Q, p, F, G, L, T, M
<1>10. \A e \in Entries :
         /\ ct[e].parent_pid \in F => T[e] = FreeEntry
         /\ ct[e].parent_pid \notin F => T[e] = BuryEntries(ct, P)[e]
         /\ T[e].state = READY <=> /\ ct[e].state = READY /\ ct[e].child_pid \notin P
         /\ T[e].state = READY => T[e] = ct[e] /\ ct[e].parent_pid \notin F
  <2> TAKE e \in Entries
  <2>1. CASE ct[e].parent_pid \in F
    <3>1. T[e] = FreeEntry
      BY <1>2, <2>1
    <3>2. e \notin Left(P, ct[e].parent_pid)
      BY <1>9, <2>1
    <3> QED BY <1>7, <2>1, <3>1, <3>2
  <2>2. CASE ct[e].parent_pid \notin F
    <3>1. T[e] = BuryEntries(ct, P)[e]
      BY <1>2, <2>2
    <3> QED BY <1>6, <1>7, <2>2, <3>1 DEF ChildInfo
  <2> QED BY <2>1, <2>2
<1>11. found = {e \in Entries : ct[e].state = READY /\ ct[e].child_pid = p}
  BY <1>1, <1>10
<1>12. T = [e \in Entries |-> T[e]] /\ M = [j \in Slots |-> M[j]]
       /\ \A j \in Slots : M[j] = IF j = i THEN FreeSlot ELSE L[j]
  BY <1>1, <1>2 DEF M
<1>13. CASE found = {}
  <2>1. SetDeadProcess([list |-> M, table |-> T], p) = [list |-> M, table |-> T]
    BY <1>13 DEF SetDeadProcess
  <2>2. \A e \in Entries : ct[e].state = READY => (ct[e].child_pid \in Q <=> ct[e].child_pid \in P)
    BY <1>1, <1>11, <1>13
  <2>3. G = F
    <3>1. \A x : Left(Q, x) = Left(P, x)
      BY <2>2
    <3> HIDE DEF Left
    <3>2. ASSUME NEW x
          PROVE  x \in G <=> x \in F
      BY <1>9, <2>2, <3>1
    <3> QED BY <3>2
  <2>4. \A e \in Entries : BuryEntries(ct, Q)[e] = BuryEntries(ct, P)[e]
    BY <1>6, <2>2
  <2>5. T = [e \in Entries |-> IF ct[e].parent_pid \in G THEN FreeEntry
                               ELSE BuryEntries(ct, Q)[e]]
    BY <1>2, <2>3, <2>4
  <2>6. M = [j \in Slots |-> IF j \in S \cup {i} THEN FreeSlot
                             ELSE IF pl[j].state # DEAD /\ pl[j].pid \in G
                               THEN [pl[j] EXCEPT !.state = READY]
                             ELSE pl[j]]
    BY <1>1, <1>2, <1>12, <2>3
  <2> QED BY <1>4, <1>5, <2>1, <2>5, <2>6
<1>14. CASE found # {}
  <2>1. PICK e0 \in Entries : found = {e0}
    <3>1. PICK e0 \in found : TRUE
      BY <1>14
    <3>2. \A e \in found : e = e0
      BY <1>1, <1>11, <3>1 DEF NamedOnce
    <3> QED BY <3>1, <3>2
  <2> DEFINE f == ct[e0].parent_pid
             U == [T EXCEPT ![e0].state = DEAD]
  <2>2. /\ ct[e0].state = READY /\ ct[e0].child_pid = p /\ T[e0] = ct[e0] /\ f \notin F
        /\ \A e \in Entries \ {e0} : ct[e].state = READY => ct[e].child_pid # p
    BY <1>1, <1>10, <1>11, <2>1
  <2>3. Least(found) = e0
    <3>1. found \in SUBSET Nat
      BY DEF Entries
    <3> HIDE DEF found
    <3> QED BY <2>1, <3>1, LeastIn
  <2>4. SetDeadProcess([list |-> M, table |-> T], p) =
          IF AllChildrenFinished(U, f)
            THEN [list |-> ChangeProcessState(M, f, READY), table |-> DeleteChildren(U, f)]
            ELSE [list |-> M, table |-> U]
    <3> HIDE DEF f
    <3>1. T[e0].parent_pid = f
      BY <2>2 DEF f
    <3>2. found # {} /\ Least(found) = e0
      BY <1>14, <2>3
    <3> QED BY <3>1, <3>2, SetDeadIs
  <2>5. /\ U = [e \in Entries |-> U[e]]
        /\ \A e \in Entries \ {e0} : U[e] = T[e]
        /\ U[e0] = [ct[e0] EXCEPT !.state = DEAD]
    BY <1>2, <2>2
  <2>6. AllChildrenFinished(U, f) <=> Left(Q, f) = {}
    <3>1. U[e0].state = DEAD
      BY <2>5 DEF ChildInfo
    <3>2. ASSUME NEW e \in Entries
          PROVE  (U[e].state = READY /\ U[e].parent_pid = f) <=> e \in Left(Q, f)
      <4>1. CASE e = e0
        BY <1>1, <1>7, <2>2, <3>1, <4>1
      <4>2. CASE e # e0
        BY <1>1, <1>10, <2>2, <2>5, <4>2
      <4> QED BY <4>1, <4>2
    <3> QED BY <3>2 DEF AllChildrenFinished
  <2>7. \A x : x # f => (x \in G <=> x \in F)
    <3> TAKE x
    <3> HAVE x # f
    <3>1. \A e \in Entries : ct[e].state = READY /\ ct[e].parent_pid = x
                             => (ct[e].child_pid \in Q <=> ct[e].child_pid \in P)
      BY <1>1, <2>2
    <3>2. Left(Q, x) = Left(P, x)
      BY <3>1
    <3> QED BY <1>9, <3>1, <3>2
  <2>8. f \in G <=> AllChildrenFinished(U, f)
    BY <1>1, <1>9, <2>2, <2>6
  <2>9. \A e \in Entries \ {e0} : BuryEntries(ct, Q)[e] = BuryEntries(ct, P)[e]
    BY <1>1, <1>6, <2>2
  <2>10. BuryEntries(ct, Q)[e0] = U[e0]
    BY <1>1, <1>6, <2>2, <2>5
  <2>11. CASE AllChildrenFinished(U, f)
    <3>1. G = F \cup {f}
      BY <2>7, <2>8, <2>11
    <3>2. DeleteChildren(U, f) = [e \in Entries |-> IF ct[e].parent_pid \in G THEN FreeEntry
                                                    ELSE BuryEntries(ct, Q)[e]]
      <4> SUFFICES ASSUME NEW e \in Entries
                   PROVE  (IF U[e].parent_pid = f THEN FreeEntry ELSE U[e]) =
                          (IF ct[e].parent_pid \in G THEN FreeEntry ELSE BuryEntries(ct, Q)[e])
        BY DEF DeleteChildren
      <4>1. CASE e = e0
        BY <2>5, <3>1, <4>1 DEF ChildInfo
      <4>2. CASE e # e0 /\ ct[e].parent_pid \in F
        BY <1>10, <2>5, <3>1, <4>2
      <4>3. CASE e # e0 /\ ct[e].parent_pid \notin F
        <5>1. U[e] = BuryEntries(ct, Q)[e]
          BY <1>10, <2>5, <2>9, <4>3
        <5>2. U[e].parent_pid = ct[e].parent_pid
          <6>1. /\ ct[e] \in ChildInfo
                /\ \/ BuryEntries(ct, Q)[e] = [ct[e] EXCEPT !.state = DEAD]
                   \/ BuryEntries(ct, Q)[e] = ct[e]
            BY <1>6
          <6>2. [ct[e] EXCEPT !.state = DEAD].parent_pid = ct[e].parent_pid
            BY <6>1 DEF ChildInfo
          <6> QED BY <5>1, <6>1, <6>2
        <5> QED BY <3>1, <4>3, <5>1, <5>2
      <4> QED BY <4>1, <4>2, <4>3
    <3>3. ChangeProcessState(M, f, READY) =
            [j \in Slots |-> IF j \in S \cup {i} THEN FreeSlot
                             ELSE IF pl[j].state # DEAD /\ pl[j].pid \in G
                               THEN [pl[j] EXCEPT !.state = READY]
                             ELSE pl[j]]
      <4> DEFINE N == [j \in Slots |-> IF j \in S \cup {i} THEN FreeSlot
                             ELSE IF pl[j].state # DEAD /\ pl[j].pid \in G
                               THEN [pl[j] EXCEPT !.state = READY]
                             ELSE pl[j]]
      <4>1. \A j \in Slots : /\ j \in S \cup {i} => M[j] = FreeSlot /\ N[j] = FreeSlot
                             /\ j \notin S \cup {i} =>
                                  /\ M[j] = L[j] /\ M[j].pid = pl[j].pid
                                  /\ M[j].state # DEAD <=> pl[j].state # DEAD
                                  /\ pl[j].pid # f \/ pl[j].state = DEAD => N[j] = M[j]
                                  /\ pl[j].pid = f /\ pl[j].state # DEAD =>
                                       N[j] = [M[j] EXCEPT !.state = READY]
        <5> TAKE j \in Slots
        <5>1. pl[j] \in Process
          BY <1>1
        <5>2. CASE j \in S \cup {i}
          BY <1>2, <1>12, <5>2
        <5>3. CASE j \notin S \cup {i}
          <6>1. /\ M[j] = L[j]
                /\ L[j] = IF pl[j].state # DEAD /\ pl[j].pid \in F
                            THEN [pl[j] EXCEPT !.state = READY] ELSE pl[j]
                /\ N[j] = IF pl[j].state # DEAD /\ pl[j].pid \in G
                            THEN [pl[j] EXCEPT !.state = READY] ELSE pl[j]
            BY <1>2, <1>12, <5>3
          <6> HIDE DEF N, f
          <6> QED BY <1>7, <3>1, <5>1, <5>3, <6>1 DEF Process
        <5> QED BY <5>2, <5>3
      <4>2. Live(M) = Live(pl) \ (S \cup {i})
        BY <1>7, <4>1 DEF Live
      <4>3. CASE f \in LivePids(M)
        <5>1. PICK k \in Live(M) : M[k].pid = f
          BY <4>3 DEF LivePids, PidsOf
        <5>2. \A j \in Live(M) : M[j].pid = f <=> j = k
          <6>1. \A j \in Live(M) : j \in Live(pl) /\ M[j].pid = pl[j].pid
            BY <4>1, <4>2 DEF Live
          <6> QED BY <1>1, <5>1, <6>1, Zenon
        <5>3. GetProcessIdx(M, f) = k
          <6>1. {j \in Live(M) : M[j].pid = f} = {k} /\ {k} \in SUBSET Nat
            BY <5>1, <5>2 DEF Live, Slots
          <6> QED BY <6>1, LeastIn DEF GetProcessIdx
        <5>4. ChangeProcessState(M, f, READY) = [M EXCEPT ![k].state = READY]
          BY <4>3, <5>3 DEF ChangeProcessState
        <5>5. \A j \in Slots : N[j] = [M EXCEPT ![k].state = READY][j]
          <6> TAKE j \in Slots
          <6>1. CASE j = k
            BY <1>12, <4>1, <4>2, <5>1, <6>1 DEF Live
          <6>2. CASE j # k
            BY <1>12, <4>1, <4>2, <5>2, <6>2 DEF Live
          <6> QED BY <6>1, <6>2
        <5>6. [M EXCEPT ![k].state = READY] = [j \in Slots |-> [M EXCEPT ![k].state = READY][j]]
          BY <1>12
        <5> QED BY <5>4, <5>5, <5>6
      <4>4. CASE f \notin LivePids(M)
        <5>1. ChangeProcessState(M, f, READY) = M
          BY <4>4 DEF ChangeProcessState
        <5>2. \A j \in Slots : N[j] = M[j]
          <6>1. \A j \in Live(M) : M[j].pid # f
            BY <4>4, Zenon DEF LivePids, PidsOf
          <6>2. \A j \in Slots \ (S \cup {i}) : pl[j].pid # f \/ pl[j].state = DEAD
            BY <4>1, <4>2, <6>1 DEF Live
          <6> QED BY <4>1, <6>2
        <5> QED BY <1>12, <5>1, <5>2
      <4> QED BY <4>3, <4>4
    <3> QED BY <1>4, <1>5, <2>4, <2>11, <3>2, <3>3
  <2>12. CASE ~AllChildrenFinished(U, f)
    <3>1. G = F
      <4>1. \A x : x \in G <=> x \in F
        BY <2>2, <2>7, <2>8, <2>12, Zenon
      <4> QED BY <4>1
    <3>2. U = [e \in Entries |-> IF ct[e].parent_pid \in G THEN FreeEntry
                                 ELSE BuryEntries(ct, Q)[e]]
      <4>1. \A e \in Entries : U[e] = IF ct[e].parent_pid \in G THEN FreeEntry
                                      ELSE BuryEntries(ct, Q)[e]
        BY <1>10, <2>2, <2>5, <2>9, <2>10, <3>1
      <4> QED BY <2>5, <4>1
    <3>3. M = [j \in Slots |-> IF j \in S \cup {i} THEN FreeSlot
                               ELSE IF pl[j].state # DEAD /\ pl[j].pid \in G
                                 THEN [pl[j] EXCEPT !.state = READY]
                               ELSE pl[j]]
      BY <1>1, <1>2, <1>12, <3>1
    <3> QED BY <1>4, <1>5, <2>4, <2>12, <3>2, <3>3
  <2> QED BY <2>11, <2>12
<1> QED BY <1>13, <1>14

(* Slot by slot, kill_all_processes has destroyed those it has come by.    *)
LEMMA KillLoopIs ==
  ASSUME NEW pl, NEW n, NEW pv, SoundTable(pl, n, pv),
         NEW ct \in [Entries -> ChildInfo], NamedOnce(ct)
  PROVE  KillLoop([list |-> pl, table |-> ct]) = Destroy(pl, ct, Mortal(pl))
<1> DEFINE sys == [list |-> pl, table |-> ct]
           Before(k) == {i \in Mortal(pl) : i < k}
           g == [k \in 0 .. MAX_PROCESSES |-> Destroy(pl, ct, Before(k))]
           Is(h) == h = [k \in 0 .. MAX_PROCESSES |->
                           IF k = 0 THEN sys ELSE KillStep(h[k - 1], k - 1)]
           f == CHOOSE h : Is(h)
<1>1. pl \in [Slots -> Process] /\ Mortal(pl) \subseteq Live(pl) /\ Live(pl) \subseteq Slots
  BY DEF SoundTable, Mortal, Live
<1>2. ASSUME NEW k \in 1 .. MAX_PROCESSES
      PROVE  Destroy(pl, ct, Before(k)) = KillStep(Destroy(pl, ct, Before(k - 1)), k - 1)
  <2> DEFINE i == k - 1
             S == Before(i)
             L == Destroy(pl, ct, S).list
  <2>1. i \in Slots /\ i \notin S /\ S \subseteq Live(pl) /\ MAX_PROCESSES \in Nat
    BY <1>1, SizesAssumption DEF Slots
  <2>2. L[i] = IF pl[i].state # DEAD /\ pl[i].pid \in FinishedParents(ct, PidsOf(pl, S))
                 THEN [pl[i] EXCEPT !.state = READY] ELSE pl[i]
    <3> HIDE DEF i, S
    <3> QED BY <2>1 DEF Destroy
  <2>3. (L[i].state # DEAD /\ ~L[i].immortal) <=> i \in Mortal(pl)
    <3>1. pl[i] \in Process /\ READY # DEAD
      BY <1>1, <2>1 DEF READY, DEAD
    <3> HIDE DEF i, S, L
    <3> QED BY <2>1, <2>2, <3>1 DEF Mortal, Live, Process
  <2>4. \A j \in Mortal(pl) : j \in Nat
    BY <1>1 DEF Slots
  <2>5. CASE i \in Mortal(pl)
    <3>1. Before(k) = S \cup {i}
      BY <2>4, <2>5
    <3>2. i \in Live(pl) \ S
      BY <1>1, <2>1, <2>5
    <3> HIDE DEF S, i, L, Before
    <3>3. Destroy(pl, ct, S \cup {i}) = DestroyProcess(Destroy(pl, ct, S), i)
      BY <2>1, <3>2, OneMoreDies
    <3>4. KillStep(Destroy(pl, ct, S), i) = DestroyProcess(Destroy(pl, ct, S), i)
      BY <2>3, <2>5 DEF KillStep, L
    <3> QED BY <3>1, <3>3, <3>4 DEF S, i
  <2>6. CASE i \notin Mortal(pl)
    <3>1. Before(k) = S
      <4>1. \A j \in Mortal(pl) : j < k <=> j < i
        BY <2>4, <2>6
      <4> QED BY <4>1
    <3> HIDE DEF S, i, L, Before
    <3>2. KillStep(Destroy(pl, ct, S), i) = Destroy(pl, ct, S)
      BY <2>3, <2>6 DEF KillStep, L
    <3> QED BY <3>1, <3>2 DEF S, i
  <2> QED BY <2>5, <2>6
<1>3. Before(0) = {} /\ Before(MAX_PROCESSES) = Mortal(pl)
  BY <1>1, SizesAssumption DEF Slots
<1>4. Destroy(pl, ct, {}) = sys
  BY <1>1, DestroyNobody
<1>5. Is(g)
  <2> HIDE DEF Before, sys
  <2>1. \A k \in 0 .. MAX_PROCESSES :
          g[k] = IF k = 0 THEN sys ELSE KillStep(g[k - 1], k - 1)
    <3> TAKE k \in 0 .. MAX_PROCESSES
    <3>1. CASE k = 0
      BY <1>3, <1>4, <3>1, SizesAssumption
    <3>2. CASE k # 0
      <4>1. k \in 1 .. MAX_PROCESSES /\ k - 1 \in 0 .. MAX_PROCESSES
        BY <3>2, SizesAssumption
      <4> QED BY <1>2, <3>2, <4>1
    <3> QED BY <3>1, <3>2
  <2> HIDE DEF g
  <2>2. g = [k \in 0 .. MAX_PROCESSES |-> g[k]]
    BY DEF g
  <2> QED BY <2>1, <2>2
<1>6. KillLoop(sys) = f[MAX_PROCESSES]
  <2> HIDE DEF sys
  <2> QED BY DEF KillLoop
<1>7. Is(f)
  <2> HIDE DEF g, Is
  <2> QED BY <1>5
<1> HIDE DEF f, Before, sys
<1>8. \A k \in 0 .. MAX_PROCESSES : f[k] = Destroy(pl, ct, Before(k))
  <2> DEFINE W == {k \in 0 .. MAX_PROCESSES : f[k] # Destroy(pl, ct, Before(k))}
  <2> SUFFICES ASSUME W # {} PROVE FALSE
    OBVIOUS
  <2>1. W \in SUBSET Nat
    BY SizesAssumption
  <2> HIDE DEF W
  <2>2. PICK k \in W : \A j \in W : k <= j
    BY <2>1, LeastIn
  <2>3. k \in 0 .. MAX_PROCESSES /\ f[k] # Destroy(pl, ct, Before(k)) /\ MAX_PROCESSES \in Nat
    BY SizesAssumption DEF W
  <2>4. f[k] = IF k = 0 THEN sys ELSE KillStep(f[k - 1], k - 1)
    BY <1>7, <2>3
  <2>5. k # 0
    BY <1>3, <1>4, <2>3, <2>4
  <2>6. k \in 1 .. MAX_PROCESSES /\ k - 1 \in 0 .. MAX_PROCESSES /\ k - 1 \notin W
    BY <2>2, <2>3, <2>5
  <2>7. f[k - 1] = Destroy(pl, ct, Before(k - 1))
    BY <2>6 DEF W
  <2> QED BY <1>2, <2>3, <2>4, <2>5, <2>6, <2>7
<1> QED BY <1>3, <1>6, <1>8, SizesAssumption DEF sys

LEMMA DeathsAreTheLoops ==
  ASSUME IInv, NamedOnce(children_processes)
  PROVE  DestroyIsTheLoop
<1>1. /\ SoundTable(process_list, dim, pid_value)
      /\ process_list \in [Slots -> Process] /\ children_processes \in [Entries -> ChildInfo]
  BY DEF IInv, SoundTable, SoundChildren
<1>2. ASSUME NEW i \in Mortal(process_list)
      PROVE  Destroy(process_list, children_processes, {i}) = DestroyProcess(Now, i)
  <2>1. i \in Live(process_list) \ {} /\ {} \in SUBSET Live(process_list) /\ {} \cup {i} = {i}
    BY DEF Mortal
  <2>2. Destroy(process_list, children_processes, {} \cup {i}) =
          DestroyProcess(Destroy(process_list, children_processes, {}), i)
    BY <1>1, <2>1, OneMoreDies
  <2> QED BY <1>1, <2>1, <2>2, DestroyNobody DEF Now
<1>3. KillLoop(Now) = Destroy(process_list, children_processes, Mortal(process_list))
  BY <1>1, KillLoopIs DEF Now
<1> QED BY <1>2, <1>3 DEF DestroyIsTheLoop

-----------------------------------------------------------------------------
(* One further round a ring.                                               *)
LEMMA ModNext ==
  ASSUME NEW a \in Nat, NEW n \in Nat \ {0}
  PROVE  ((a % n) + 1) % n = (a + 1) % n
<1>1. PICK q \in Int, r \in 0 .. n - 1 : a = n * q + r /\ a % n = r
  <2>1. a \div n \in Int /\ a % n \in 0 .. n - 1 /\ a = n * (a \div n) + (a % n)
    OBVIOUS
  <2> QED BY <2>1
<1>2. PICK p \in Int, t \in 0 .. n - 1 : r + 1 = n * p + t
  <2>1. CASE r + 1 < n
    <3>1. r + 1 = n * 0 + (r + 1) /\ r + 1 \in 0 .. n - 1 /\ 0 \in Int
      BY <2>1
    <3> QED BY <3>1, Zenon
  <2>2. CASE r + 1 = n
    <3>1. r + 1 = n * 1 + 0 /\ 0 \in 0 .. n - 1 /\ 1 \in Int
      BY <2>2
    <3> QED BY <3>1, Zenon
  <2> QED BY <1>1, <2>1, <2>2
<1>3. /\ a + 1 = n * (q + p) + t /\ q + p \in Int /\ a + 1 \in Int /\ r + 1 \in Int
      /\ n \in Nat /\ t \in 0 .. n - 1
  <2>1. n * (q + p) = n * q + n * p /\ n * q \in Int /\ n * p \in Int
    OBVIOUS
  <2> QED BY <1>1, <1>2, <2>1
<1>4. ASSUME NEW x \in Int, NEW z \in Int, x = n * z + t PROVE x % n = t
  BY <1>3, <1>4, ModIs
<1>5. (a + 1) % n = t
  BY <1>3, <1>4
<1>6. (r + 1) % n = t
  BY <1>2, <1>3, <1>4
<1> QED BY <1>1, <1>5, <1>6

(* The scan of next_process stops at the nearest READY slot, and counts n  *)
(* inactive ones when there is none.                                       *)
LEMMA ScanIs ==
  ASSUME NEW pl, NEW n \in Nat \ {0}, NEW c \in Nat
  PROVE  LET scan == Scan(pl, n, c)
             R == ReadyAhead(pl, n, c)
         IN  /\ scan.inactive = n <=> R = {}
             /\ scan.found => scan.idx = (c + Least(R)) % n /\ R # {}
<1> DEFINE R == ReadyAhead(pl, n, c)
           start == [idx |-> c, found |-> FALSE, inactive |-> 0]
           missed(k) == [idx |-> (c + k) % n, found |-> FALSE, inactive |-> k]
           met == [idx |-> (c + Least(R)) % n, found |-> TRUE, inactive |-> Least(R) - 1]
           at(k) == IF \E j \in R : j <= k THEN met ELSE IF k = 0 THEN start ELSE missed(k)
           g == [k \in 0 .. n |-> at(k)]
           Is(h) == h = [k \in 0 .. n |-> IF k = 0 THEN start ELSE ScanStep(pl, n, h[k - 1])]
           f == CHOOSE h : Is(h)
<1>1. /\ R \subseteq 1 .. n /\ R \in SUBSET Nat
      /\ \A k \in 1 .. n : k \in R <=> pl[(c + k) % n].state = READY
  BY DEF ReadyAhead
<1>2. R # {} => Least(R) \in R /\ \A j \in R : Least(R) <= j
  <2> HIDE DEF R
  <2> QED BY <1>1, LeastIn
<1> HIDE DEF R
<1>3. ASSUME NEW k \in 1 .. n PROVE at(k) = ScanStep(pl, n, at(k - 1))
  <2>1. CASE \E j \in R : j <= k - 1
    <3>1. \E j \in R : j <= k
      BY <1>1, <2>1
    <3>2. at(k) = met /\ at(k - 1) = met /\ met.found
      BY <2>1, <3>1
    <3> HIDE DEF met, at
    <3> QED BY <3>2 DEF ScanStep
  <2>2. CASE ~\E j \in R : j <= k - 1
    <3> DEFINE before == at(k - 1)
    <3>1. /\ before.idx = IF k = 1 THEN c ELSE (c + (k - 1)) % n
          /\ before.found = FALSE /\ before.inactive = k - 1
      BY <2>2
    <3>2. (before.idx + 1) % n = (c + k) % n
      <4>1. CASE k = 1
        BY <3>1, <4>1
      <4>2. CASE k # 1
        <5>1. c + (k - 1) \in Nat /\ (c + (k - 1)) + 1 = c + k
          OBVIOUS
        <5> QED BY <3>1, <4>2, <5>1, ModNext
      <4> QED BY <4>1, <4>2
    <3> HIDE DEF before
    <3>3. ScanStep(pl, n, before) =
            [idx |-> (c + k) % n, found |-> pl[(c + k) % n].state = READY,
             inactive |-> (k - 1) + (IF pl[(c + k) % n].state = READY THEN 0 ELSE 1)]
      BY <3>1, <3>2, Zenon DEF ScanStep
    <3>4. CASE k \in R
      <4>1. Least(R) = k
        <5>1. Least(R) \in R /\ Least(R) <= k /\ Least(R) \in Nat
          BY <1>1, <1>2, <3>4
        <5>2. ~(Least(R) <= k - 1)
          BY <2>2, <5>1
        <5> QED BY <5>1, <5>2
      <4>2. at(k) = met
        BY <1>1, <3>4
      <4>3. (pl[(c + k) % n].state = READY) = TRUE /\ (k - 1) + 0 = k - 1
        BY <1>1, <3>4
      <4>4. met = [idx |-> (c + k) % n, found |-> TRUE, inactive |-> (k - 1) + 0]
        BY <4>1, <4>3
      <4> HIDE DEF met, at
      <4>5. ScanStep(pl, n, before) = met
        BY <3>3, <4>3, <4>4, Zenon
      <4> QED BY <4>2, <4>5 DEF before
    <3>5. CASE k \notin R
      <4>1. ~\E j \in R : j <= k
        BY <1>1, <2>2, <3>5
      <4>2. at(k) = missed(k)
        BY <4>1
      <4>3. (pl[(c + k) % n].state = READY) = FALSE /\ (k - 1) + 1 = k
        BY <1>1, <3>5
      <4> HIDE DEF at, met
      <4>4. ScanStep(pl, n, before) = missed(k)
        BY <3>3, <4>3, Zenon
      <4> QED BY <4>2, <4>4 DEF before
    <3> QED BY <3>4, <3>5
  <2> QED BY <2>1, <2>2
<1>4. at(0) = start
  BY <1>1
<1> HIDE DEF at, start
<1>5. Is(g)
  <2>1. \A k \in 0 .. n : g[k] = IF k = 0 THEN start ELSE ScanStep(pl, n, g[k - 1])
    <3> TAKE k \in 0 .. n
    <3>1. CASE k = 0
      BY <1>4, <3>1
    <3>2. CASE k # 0
      <4>1. k \in 1 .. n /\ k - 1 \in 0 .. n
        BY <3>2
      <4> QED BY <1>3, <3>2, <4>1
    <3> QED BY <3>1, <3>2
  <2> HIDE DEF g
  <2>2. g = [k \in 0 .. n |-> g[k]]
    BY DEF g
  <2> QED BY <2>1, <2>2
<1>6. Scan(pl, n, c) = f[n]
  BY DEF Scan, start
<1>7. Is(f)
  <2> HIDE DEF g, Is
  <2> QED BY <1>5
<1> HIDE DEF f
<1>8. \A k \in 0 .. n : f[k] = at(k)
  <2> DEFINE W == {k \in 0 .. n : f[k] # at(k)}
  <2> SUFFICES ASSUME W # {} PROVE FALSE
    OBVIOUS
  <2>1. W \in SUBSET Nat
    OBVIOUS
  <2> HIDE DEF W
  <2>2. PICK k \in W : \A j \in W : k <= j
    BY <2>1, LeastIn
  <2>3. k \in 0 .. n /\ f[k] # at(k)
    BY DEF W
  <2>4. f[k] = IF k = 0 THEN start ELSE ScanStep(pl, n, f[k - 1])
    BY <1>7, <2>3
  <2>5. k # 0
    BY <1>4, <2>3, <2>4
  <2>6. k \in 1 .. n /\ k - 1 \in 0 .. n /\ k - 1 \notin W
    BY <2>2, <2>3, <2>5
  <2>7. f[k - 1] = at(k - 1)
    BY <2>6 DEF W
  <2> QED BY <1>3, <2>3, <2>4, <2>5, <2>6, <2>7
<1>9. Scan(pl, n, c) = at(n)
  BY <1>6, <1>8
<1>10. CASE R = {}
  <2>1. at(n) = missed(n)
    BY <1>10 DEF at
  <2> QED BY <1>9, <1>10, <2>1 DEF R
<1>11. CASE R # {}
  <2>1. Least(R) \in R /\ Least(R) \in 1 .. n
    BY <1>1, <1>2, <1>11
  <2>2. at(n) = met
    BY <2>1 DEF at
  <2>3. met.inactive # n /\ met.idx = (c + Least(R)) % n
    BY <2>1
  <2> HIDE DEF met
  <2> QED BY <1>9, <1>11, <2>2, <2>3 DEF R
<1> QED BY <1>10, <1>11

(* The scan of any dispatch is the closed form's.                          *)
LEMMA ScansAreTheLoop == ASSUME IInv PROVE ScanIsTheLoop
<1>1. dim \in Nat
  BY LiveFinite DEF IInv, SoundTable
<1>2. ASSUME NEW n \in 1 .. dim, NEW c \in Slots
      PROVE  LET scan == Scan(process_list, n, c)
             IN  /\ (scan.inactive = n) = (ReadyAhead(process_list, n, c) = {})
                 /\ scan.found => scan.idx = Chosen(process_list, n, c)
  <2>1. n \in Nat \ {0} /\ c \in Nat
    BY <1>1 DEF Slots
  <2> DEFINE scan == Scan(process_list, n, c)
  <2>2. /\ scan.inactive = n <=> ReadyAhead(process_list, n, c) = {}
        /\ scan.found => /\ scan.idx = (c + Least(ReadyAhead(process_list, n, c))) % n
                         /\ ReadyAhead(process_list, n, c) # {}
    BY <2>1, ScanIs
  <2> HIDE DEF scan
  <2>3. scan.found => scan.idx = Chosen(process_list, n, c)
    BY <2>2 DEF Chosen
  <2> QED BY <2>2, <2>3 DEF scan
<1> QED BY <1>2 DEF ScanIsTheLoop

-----------------------------------------------------------------------------
(* What a step does to the child table.                                    *)
LEMMA ChildTableSteps ==
  ASSUME IInv, [Next]_vars
  PROVE  \/ children_processes' = children_processes
         \/ \E child \in {pid_value} \cup FailureCodes :
              children_processes' = AddChild(children_processes, CurrentPid, child)
         \/ \E S \in SUBSET Live(process_list) :
              children_processes' = Destroy(process_list, children_processes, S).table
<1>1. ASSUME NEW S \in SUBSET Live(process_list), DestroyAndSwitch(S)
      PROVE  children_processes' = Destroy(process_list, children_processes, S).table
  BY <1>1 DEF DestroyAndSwitch
<1>2. CASE TimerTick
  BY <1>2 DEF TimerTick
<1>3. CASE KillAllProcesses
  BY <1>1, <1>3 DEF KillAllProcesses, Mortal
<1>4. CASE SystemCall
  <2>1. CASE Yield
    BY <2>1 DEF Yield
  <2>2. ASSUME NEW priority \in Priorities, CreateProcess(priority)
        PROVE  children_processes' = children_processes
    BY <2>2 DEF CreateProcess
  <2>3. ASSUME NEW priority \in Priorities, CreateChild(priority)
        PROVE  children_processes' = AddChild(children_processes, CurrentPid, pid_value)
    BY <2>3 DEF CreateChild
  <2>4. ASSUME CreateChildFails
        PROVE  \E child \in FailureCodes :
                 children_processes' = AddChild(children_processes, CurrentPid, child)
    BY <2>4 DEF CreateChildFails, Refusal, FailureCodes
  <2>5. CASE WaitForChildren
    BY <2>5 DEF WaitForChildren
  <2>6. ASSUME NEW pid \in LivePids(process_list), KillProcess(pid)
        PROVE  \E S \in SUBSET Live(process_list) : DestroyAndSwitch(S)
    <3>1. {GetProcessIdx(process_list, pid)} \in SUBSET Live(process_list)
      BY <2>6 DEF KillProcess, Mortal
    <3> QED BY <2>6, <3>1, Zenon DEF KillProcess
  <2>7. ASSUME EndProcess
        PROVE  \E S \in SUBSET Live(process_list) : DestroyAndSwitch(S)
    <3>1. {current_process_idx} \in SUBSET Live(process_list)
      BY <2>7 DEF EndProcess, Mortal
    <3> QED BY <2>7, <3>1, Zenon DEF EndProcess
  <2>8. ASSUME NEW pid \in LivePids(process_list), BlockOrUnblock(pid)
        PROVE  children_processes' = children_processes
    BY <2>8 DEF BlockOrUnblock
  <2>9. ASSUME NEW pid \in LivePids(process_list), NEW priority \in Priorities,
               ChangePriority(pid, priority)
        PROVE  children_processes' = children_processes
    BY <2>9 DEF ChangePriority
  <2> QED BY <1>1, <1>4, <2>1, <2>2, <2>3, <2>4, <2>5, <2>6, <2>7, <2>8, <2>9 DEF SystemCall
<1>5. CASE UNCHANGED vars
  BY <1>5 DEF vars
<1> QED BY <1>2, <1>3, <1>4, <1>5 DEF Next

LEMMA NamedOnceKept ==
  ASSUME IInv, NamedOnce(children_processes), [Next]_vars
  PROVE  NamedOnce(children_processes')
<1>1. /\ children_processes \in [Entries -> ChildInfo] /\ pid_value \in Nat
      /\ \A e \in Entries : children_processes[e].state = READY /\ children_processes[e].child_pid \in Nat
           => children_processes[e].child_pid < pid_value
      /\ FailureCodes \cap Nat = {}
  <2>1. FailureCodes \cap Nat = {}
    BY DEF FailureCodes, NO_SPACE_FOR_PROCESS, PROCESSES_LIMIT_REACHED
  <2>2. \A p \in LivePids(process_list) : p < pid_value
    BY DEF IInv, SoundTable, LivePids, PidsOf
  <2> QED BY <2>1, <2>2 DEF IInv, SoundTable, SoundChildren
<1>2. ASSUME NEW child \in {pid_value} \cup FailureCodes,
             children_processes' = AddChild(children_processes, CurrentPid, child)
      PROVE  NamedOnce(children_processes')
  <2> DEFINE free == FreeEntries(children_processes)
             slot == Least(free)
             entry == [parent_pid |-> CurrentPid, child_pid |-> child, state |-> READY]
  <2>1. CASE free = {}
    BY <1>2, <2>1 DEF AddChild
  <2>2. CASE free # {}
    <3>1. children_processes' = [children_processes EXCEPT ![slot] = entry]
      BY <1>2, <2>2 DEF AddChild
    <3>2. entry.child_pid = child
      OBVIOUS
    <3> HIDE DEF entry, slot
    <3>3. \A e \in Entries : children_processes'[e] = IF e = slot THEN entry ELSE children_processes[e]
      BY <1>1, <3>1
    <3>4. \A e \in Entries : /\ children_processes[e].state = READY
                             /\ children_processes[e].child_pid = child
                             => child \notin Nat
      BY <1>1
    <3> QED BY <3>2, <3>3, <3>4 DEF NamedOnce
  <2> QED BY <2>1, <2>2
<1>3. ASSUME NEW S \in SUBSET Live(process_list),
             children_processes' = Destroy(process_list, children_processes, S).table
      PROVE  NamedOnce(children_processes')
  <2>1. \A x, y : x = PidsOf(process_list, S) /\ y = Destroy(process_list, children_processes, S) =>
          \A e \in Entries : y.table[e].state = READY => y.table[e] = children_processes[e]
    BY DestroyTable DEF IInv
  <2>2. \A e \in Entries : children_processes'[e].state = READY =>
                             children_processes'[e] = children_processes[e]
    BY <1>3, <2>1
  <2> HIDE <1>3
  <2> QED BY <2>2 DEF NamedOnce
<1> QED BY <1>2, <1>3, ChildTableSteps

(* The closed forms of a death and of the dispatcher's choice are what the *)
(* kernel's loops compute, in every state and for every size of the tables *)
(* (scheduler.c:197-205, 245-257, 305-319, child_processes.c:32-49).       *)
THEOREM LoopsCompute == Spec => []LoopsAgree
<1>1. Init => IInv /\ NamedOnce(children_processes)
  <2>1. ASSUME Init PROVE NamedOnce(children_processes)
    BY <2>1 DEF Init, NamedOnce, FreeEntry, DEAD, READY
  <2> QED BY <2>1, InitIInv
<1>2. IInv /\ NamedOnce(children_processes) /\ [Next]_vars
        => IInv' /\ NamedOnce(children_processes)'
  BY NextIInv, NamedOnceKept
<1>3. IInv /\ NamedOnce(children_processes) => LoopsAgree
  BY DeathsAreTheLoops, ScansAreTheLoop DEF LoopsAgree
<1> QED BY <1>1, <1>2, <1>3, PTL DEF Spec

-----------------------------------------------------------------------------
(* The semaphores.                                                         *)

(* Making a process READY, or one that no longer lives, keeps the tables   *)
(* sound and leaves the owner of the CPU READY.                            *)
LEMMA WakeKeepsIInv ==
  ASSUME IInv, NEW pid,
         process_list' = ChangeProcessState(process_list, pid, READY),
         UNCHANGED <<dim, current_process_idx, remaining_ticks, pid_value,
                     children_processes>>
  PROVE  IInv'
<1>1. CASE pid \notin LivePids(process_list)
  <2>1. UNCHANGED vars
    BY <1>1 DEF ChangeProcessState, vars
  <2> QED
    BY <2>1, NextIInv
<1>2. CASE pid \in LivePids(process_list)
  <2> DEFINE i == GetProcessIdx(process_list, pid)
             ql == WithState(process_list, i, READY)
  <2>1. i \in Live(process_list) /\ process_list[i].pid = pid
    BY <1>2, SlotOfPid DEF IInv
  <2>2. process_list' = ql
    BY <1>2 DEF ChangeProcessState, WithState
  <2>3. READY \in States \ {DEAD} /\ READY # PAUSED_BY_CHILD
    BY DEF States, READY, DEAD, PAUSED_BY_CHILD
  <2>4. /\ SoundTable(process_list, dim, pid_value)
        /\ SoundChildren(process_list, children_processes, pid_value)
        /\ SoundSleepers(process_list, children_processes)
        /\ process_list \in [Slots -> Process]
        /\ i \in Slots
    BY <2>1 DEF IInv, SoundTable, Live
  <2> HIDE DEF i
  <2>5. /\ SoundTable(ql, dim, pid_value)
        /\ SoundChildren(ql, children_processes, pid_value)
        /\ SoundSleepers(ql, children_processes)
    BY <2>1, <2>3, <2>4, WithStateSound
  <2>6. ql[current_process_idx].state = READY
    BY <2>4 DEF IInv, WithState, Process
  <2> QED
    BY <2>2, <2>5, <2>6 DEF IInv
<1> QED
  BY <1>1, <1>2

(* Putting the caller to sleep on a semaphore and switching keeps them.    *)
LEMMA SleepKeepsIInv ==
  ASSUME IInv,
         ForceTimerTick(ChangeProcessState(process_list, CurrentPid, PAUSED_BY_SEM),
                        dim, 0),
         UNCHANGED <<dim, pid_value, children_processes>>
  PROVE  IInv'
<1> DEFINE ql == WithState(process_list, current_process_idx, PAUSED_BY_SEM)
<1>1. /\ SoundTable(process_list, dim, pid_value)
      /\ SoundChildren(process_list, children_processes, pid_value)
      /\ SoundSleepers(process_list, children_processes)
      /\ current_process_idx \in Slots
      /\ current_process_idx \in Live(process_list)
  BY DEF IInv, Live, READY, DEAD
<1>2. ChangeProcessState(process_list, CurrentPid, PAUSED_BY_SEM) = ql
  BY <1>1, ChangeStateOfLive DEF CurrentPid
<1>3. PAUSED_BY_SEM \in States \ {DEAD} /\ PAUSED_BY_SEM # PAUSED_BY_CHILD
  BY DEF States, PAUSED_BY_SEM, DEAD, PAUSED_BY_CHILD
<1>4. /\ SoundTable(ql, dim, pid_value)
      /\ SoundChildren(ql, children_processes, pid_value)
      /\ SoundSleepers(ql, children_processes)
  BY <1>1, <1>3, WithStateSound
<1>5. ForceTimerTick(ql, dim, 0)
  BY <1>2
<1> HIDE DEF ql
<1>6. /\ SoundTable(process_list', dim, pid_value)
      /\ SoundChildren(process_list', children_processes, pid_value)
      /\ SoundSleepers(process_list', children_processes)
      /\ current_process_idx' \in Slots
      /\ remaining_ticks' \in Nat
      /\ process_list'[current_process_idx'].state = READY
  BY <1>1, <1>4, <1>5, SwitchSound
<1> QED
  BY <1>6 DEF IInv

LEMMA SemNextIInv ==
  ASSUME IInv, [SemNext]_allVars
  PROVE  IInv'
<1>1. CASE UNCHANGED vars
  BY <1>1, NextIInv
<1>2. CASE Next
  BY <1>2, NextIInv
<1>3. ASSUME NEW id \in SemIds, WaitSem(id)
      PROVE  IInv'
  <2>1. CASE UNCHANGED vars
    BY <2>1, <1>1
  <2>2. CASE /\ ForceTimerTick(ChangeProcessState(process_list, CurrentPid, PAUSED_BY_SEM),
                               dim, 0)
             /\ UNCHANGED <<dim, pid_value, children_processes>>
    BY <2>2, SleepKeepsIInv
  <2> QED
    BY <1>3, <2>1, <2>2 DEF WaitSem
<1>4. ASSUME NEW id \in SemIds, PostSem(id)
      PROVE  IInv'
  <2>1. CASE UNCHANGED vars
    BY <2>1, <1>1
  <2>2. ASSUME NEW pid,
               process_list' = ChangeProcessState(process_list, pid, READY),
               UNCHANGED <<dim, current_process_idx, remaining_ticks, pid_value,
                           children_processes>>
        PROVE  IInv'
    BY <2>2, WakeKeepsIInv
  <2> QED
    BY <1>4, <2>1, <2>2 DEF PostSem
<1>5. ASSUME NEW id \in SemIds, WaitUnknown(id)
      PROVE  IInv'
  <2>1. CASE UNCHANGED vars
    BY <2>1, <1>1
  <2>2. CASE /\ ForceTimerTick(ChangeProcessState(process_list, CurrentPid, PAUSED_BY_SEM),
                               dim, 0)
             /\ UNCHANGED <<dim, pid_value, children_processes>>
    BY <2>2, SleepKeepsIInv
  <2> QED
    BY <1>5, <2>1, <2>2 DEF WaitUnknown
<1>6. ASSUME NEW id \in SemIds, PostUnknown(id)
      PROVE  IInv'
  <2>1. CASE UNCHANGED vars
    BY <2>1, <1>1
  <2>2. ASSUME NEW pid,
               process_list' = ChangeProcessState(process_list, pid, READY),
               UNCHANGED <<dim, current_process_idx, remaining_ticks, pid_value,
                           children_processes>>
        PROVE  IInv'
    BY <2>2, WakeKeepsIInv
  <2> QED
    BY <1>6, <2>1, <2>2 DEF PostUnknown
<1>7. CASE /\ SemCall
           /\ \A id \in SemIds : /\ ~WaitSem(id) /\ ~PostSem(id)
                                /\ ~WaitUnknown(id) /\ ~PostUnknown(id)
  <2>1. UNCHANGED vars
    BY <1>7 DEF SemCall, CreateSem, OpenSem, CreateSemById, CloseSem, StartSem,
                CreateOutside, OpenOutside, StartOutside, CloseUnknown
  <2> QED
    BY <2>1, <1>1
<1> QED
  BY <1>1, <1>2, <1>3, <1>4, <1>5, <1>6, <1>7 DEF SemNext, SemCall, allVars

(* The inductive invariant of the kernel survives any use of semaphores.   *)
THEOREM SemInductiveInvariant == SemSpec => []IInv
<1>1. SemInit => IInv
  BY InitIInv DEF SemInit
<1>2. IInv /\ [SemNext]_allVars => IInv'
  BY SemNextIInv
<1> QED
  BY <1>1, <1>2, PTL DEF SemSpec

(* Also with semaphores, every kernel entry returns to a READY process: a  *)
(* caller that sleeps in wait_sem has given up the CPU (semaphore.c:138-145*)
(* ).                                                                      *)
THEOREM CpuOwnerIsReadyWithSemaphores == SemSpec => []RunningIsReady
<1>1. IInv => RunningIsReady
  BY DEF IInv, RunningIsReady
<1> QED
  BY <1>1, SemInductiveInvariant, PTL

(* Semaphore calls, stray wake-ups included, make no process wait for      *)
(* children that have all ended: the shell and a parent with a refused     *)
(* creation excepted as above (child_processes.c:38-44, semaphore.c:160).  *)
THEOREM NoLostWakeupWithSemaphores == SemSpec => []SleepersHaveChildren
<1> QED
  BY SleeperHasLiveChild, SemInductiveInvariant, PTL

-----------------------------------------------------------------------------
(* The semaphores' own variables keep their types, whatever ids are called *)
(* with: the queue never holds more than its capacity, and the count stays *)
(* in its byte, though it may pass MAX_SEM (queue.c:32, semaphore.c:14).   *)
LEMMA ByteCounts ==
  ASSUME NEW n \in 0 .. 255
  PROVE  /\ (n + 1) % 256 \in 0 .. 255
         /\ (IF n = 0 THEN 0 ELSE n - 1) \in 0 .. 255
  OBVIOUS

LEMMA FindSemInSlots ==
  ASSUME NEW id, IsOpen(id)
  PROVE  FindSem(id) \in SemSlots
<1>1. Holding(id) \in SUBSET Nat /\ Holding(id) \in SUBSET SemSlots
  BY DEF Holding, SemSlots
<1> QED
  BY <1>1, LeastIn DEF IsOpen, FindSem

LEMMA SemNextTypeOK ==
  ASSUME IInv, SemTypeOK, [SemNext]_allVars
  PROVE  SemTypeOK'
<1>1. CASE UNCHANGED semVars
  BY <1>1 DEF semVars, SemTypeOK
<1>2. /\ CurrentPid \in Nat
      /\ (current_sem_amount + 1) % 256 \in 0 .. 255
      /\ OneSemLess \in 0 .. 255
  <2>1. CurrentPid \in Nat
    BY DEF IInv, SoundTable, CurrentPid, Process
  <2> QED
    BY <2>1, ByteCounts DEF SemTypeOK, OneSemLess
<1>3. Enqueue(waiters, CurrentPid) \in Seq(Nat)
      /\ Len(Enqueue(waiters, CurrentPid)) <= MAX_PROCESS_WAITING
  BY <1>2, SemaphoresAssumption DEF SemTypeOK, Enqueue
<1>4. waiters # <<>> =>
        Tail(waiters) \in Seq(Nat) /\ Len(Tail(waiters)) <= MAX_PROCESS_WAITING
  BY SemaphoresAssumption DEF SemTypeOK
<1>5. <<>> \in Seq(Nat) /\ Len(<<>>) <= MAX_PROCESS_WAITING
  BY SemaphoresAssumption
<1>6. ASSUME NEW pos \in SemSlots, NEW id \in Nat, NEW v \in Nat, StartSem(pos, id, v)
      PROVE  SemTypeOK'
  <2>1. semaphores' \in [SemSlots -> SemInfo]
    BY <1>6 DEF StartSem, SemTypeOK, SemInfo
  <2> QED
    BY <1>2, <1>5, <1>6, <2>1 DEF StartSem, SemTypeOK
<1>7. ASSUME NEW v \in InitVals, CreateSem(v)
      PROVE  SemTypeOK'
  BY <1>6, <1>7, SemaphoresAssumption DEF CreateSem, SemSlots
<1>8. ASSUME NEW id \in SemIds, NEW v \in InitVals, OpenSem(id, v)
      PROVE  SemTypeOK'
  <2>1. Unused \in SUBSET Nat /\ Unused \in SUBSET SemSlots /\ Unused # {}
    BY <1>8 DEF OpenSem, Unused, SemSlots
  <2>2. Least(Unused) \in SemSlots
    BY <2>1, LeastIn
  <2> QED
    BY <1>6, <1>8, <2>2, SemaphoresAssumption DEF OpenSem
<1>9. ASSUME NEW id \in SemIds, CloseSem(id)
      PROVE  SemTypeOK'
  <2>1. semaphores' \in [SemSlots -> SemInfo]
    BY <1>9, FindSemInSlots DEF CloseSem, SemTypeOK, SemInfo, EmptySem, EMPTY_SEM
  <2> QED
    BY <1>2, <1>9, <2>1 DEF CloseSem, SemTypeOK
<1>10. ASSUME NEW id \in SemIds, WaitSem(id)
       PROVE  SemTypeOK'
  <2>2. FindSem(id) \in SemSlots
    BY <1>10, FindSemInSlots DEF WaitSem
  <2>3. /\ semaphores \in [SemSlots -> SemInfo]
        /\ semaphores[FindSem(id)].sem_val \in Nat
    BY <2>2 DEF SemTypeOK, SemInfo
  <2>1. semaphores' \in [SemSlots -> SemInfo]
    BY <1>10, <2>2, <2>3 DEF WaitSem, SemInfo
  <2> QED
    BY <1>3, <1>10, <2>1 DEF WaitSem, SemTypeOK
<1>11. ASSUME NEW id \in SemIds, PostSem(id)
       PROVE  SemTypeOK'
  <2>2. FindSem(id) \in SemSlots
    BY <1>11, FindSemInSlots DEF PostSem
  <2>3. /\ semaphores \in [SemSlots -> SemInfo]
        /\ semaphores[FindSem(id)].sem_val \in Nat
    BY <2>2 DEF SemTypeOK, SemInfo
  <2>1. semaphores' \in [SemSlots -> SemInfo]
    BY <1>11, <2>2, <2>3 DEF PostSem, SemInfo
  <2> QED
    BY <1>4, <1>11, <2>1 DEF PostSem, SemTypeOK
<1>12. ASSUME StartOutside
       PROVE  SemTypeOK'
  BY <1>2, <1>5, <1>12 DEF StartOutside, SemTypeOK
<1>13. ASSUME NEW id \in SemIds, CloseUnknown(id) \/ WaitUnknown(id) \/ PostUnknown(id)
       PROVE  SemTypeOK'
  <2>1. CASE CloseUnknown(id)
    BY <1>2, <2>1 DEF CloseUnknown, SemTypeOK
  <2>2. CASE WaitUnknown(id)
    BY <1>3, <2>2 DEF WaitUnknown, SemTypeOK
  <2>3. CASE PostUnknown(id)
    BY <1>4, <2>3 DEF PostUnknown, SemTypeOK
  <2> QED
    BY <1>13, <2>1, <2>2, <2>3
<1> QED
  BY <1>1, <1>7, <1>8, <1>9, <1>10, <1>11, <1>12, <1>13
     DEF SemNext, SemCall, CreateSemById, CreateOutside, OpenOutside, allVars

(* The array, the queue and their counts keep their types whatever calls   *)
(* come, those that leave the array included: the queue holds no more than *)
(* its places, and the count of semaphores, though it may pass MAX_SEM,    *)
(* stays in its byte (semaphore.c:14-16, 55, 80, 118, queue.c:32).          *)
THEOREM SemTypeCorrect == SemSpec => []SemTypeOK
<1>1. SemInit => SemTypeOK
  BY SemaphoresAssumption DEF SemInit, SemTypeOK, SemInfo, EmptySem, EMPTY_SEM
<1>2. IInv /\ SemTypeOK /\ [SemNext]_allVars => SemTypeOK'
  BY SemNextTypeOK
<1> QED
  BY <1>1, <1>2, SemInductiveInvariant, PTL DEF SemSpec
-----------------------------------------------------------------------------
(***************************************************************************)
(* Proofs of what careful callers get from a semaphore of module           *)
(* Semaphores: the queue holds processes that sleep, each once, only the   *)
(* full queue turns a caller away, and the whole kernel implements module  *)
(* CountingSemaphore.  The one assumption is that the callers use one id.  *)
(***************************************************************************)

OneSemaphore == SemIds = {TheId}

(* The slots and the pids of the processes of pl that sleep.               *)
Sleeping(pl) == {i \in Slots : pl[i].state = PAUSED_BY_SEM}
SleepingPids(pl) == PidsOf(pl, Sleeping(pl))

(* The same processes sleep in both tables, in the same slots.             *)
SameSleepers(pl, ql) ==
  \A i \in Slots :
    pl[i].state = PAUSED_BY_SEM \/ ql[i].state = PAUSED_BY_SEM
      => ql[i].state = pl[i].state /\ ql[i].pid = pl[i].pid

(* The idle process does not sleep, and the pids are within the bound.     *)
QuietTable(pl) ==
  /\ pl[1].state # PAUSED_BY_SEM
  /\ \A i \in Live(pl) \ {1} : pl[i].pid <= MaxPid

(* No careful caller has a child, so that no death makes anybody READY.    *)
NoEntries == \A e \in Entries : children_processes[e] = FreeEntry

(* The sequence q holds the members of P, each once.                       *)
Queues(q, P) ==
  /\ q \in Seq(Nat)
  /\ \A k \in 1 .. Len(q) : q[k] \in P
  /\ \A pid \in P : \E k \in 1 .. Len(q) : q[k] = pid
  /\ \A j, k \in 1 .. Len(q) : q[j] = q[k] => j = k

(* In the array s the semaphore, if there is one, is in slot 0; nothing    *)
(* else is.                                                                *)
OnlySlotZero(s) ==
  /\ \A i \in SemSlots : i # 0 => s[i] = EmptySem
  /\ s[0] = EmptySem \/ s[0].sem_id = TheId

InUse(s) == s[0].sem_id = TheId
Permits(s) == IF InUse(s) THEN s[0].sem_val ELSE 0

CarefulInv ==
  /\ NoEntries
  /\ QuietTable(process_list)
  /\ Queues(waiters, Queued)
  /\ Queued \subseteq SleepingPids(process_list)
  /\ OnlySlotZero(semaphores)
  /\ InUse(semaphores) => buffer = "live"
  /\ ~InUse(semaphores) => waiters = <<>>
  /\ waiters # <<>> => semaphores[0].sem_val = 0

-----------------------------------------------------------------------------
(* Who sleeps, in terms of the table.                                      *)
LEMMA AsleepAre ==
  AsleepPids = SleepingPids(process_list) /\ Asleep = Sleeping(process_list)
<1>1. Asleep = Sleeping(process_list)
  BY DEF Asleep, Sleeping, Live, PAUSED_BY_SEM, DEAD
<1> QED
  BY <1>1 DEF AsleepPids, SleepingPids

LEMMA AsleepWillBe ==
  AsleepPids' = SleepingPids(process_list')
<1>1. Asleep' = Sleeping(process_list')
  BY DEF Asleep, Sleeping, Live, PAUSED_BY_SEM, DEAD
<1> QED
  BY <1>1 DEF AsleepPids, SleepingPids, PidsOf

LEMMA SameSleepersSamePids ==
  ASSUME NEW pl, NEW ql, SameSleepers(pl, ql)
  PROVE  SleepingPids(ql) = SleepingPids(pl)
<1>1. Sleeping(ql) = Sleeping(pl)
  BY DEF Sleeping, SameSleepers
<1>2. \A i \in Sleeping(pl) : ql[i].pid = pl[i].pid
  BY DEF Sleeping, SameSleepers
<1> QED
  BY <1>1, <1>2 DEF SleepingPids, PidsOf

(* A change of the idle process's state leaves the sleepers alone.         *)
LEMMA IdleChangeIsQuiet ==
  ASSUME NEW pl, NEW ql, NEW n, NEW pv, SoundTable(pl, n, pv),
         SameButIdle(pl, ql), QuietTable(pl)
  PROVE  SameSleepers(pl, ql) /\ QuietTable(ql)
<1>1. 1 \in Slots /\ 1 \in Live(pl)
  BY IdleSlot
<1>2. ql[1].state # PAUSED_BY_SEM
  BY DEF SameButIdle, QuietTable, READY, PAUSED, PAUSED_BY_SEM
<1>3. SameSleepers(pl, ql)
  BY <1>2 DEF SameButIdle, SameSleepers, QuietTable
<1>4. \A i \in Live(ql) \ {1} : i \in Live(pl) /\ ql[i] = pl[i]
  BY DEF SameButIdle, Live
<1> QED
  BY <1>2, <1>3, <1>4 DEF QuietTable

(* So does raising the timer interrupt.                                    *)
LEMMA SwitchIsQuiet ==
  ASSUME NEW pl, NEW n, NEW pv, NEW r \in Nat, SoundTable(pl, n, pv),
         current_process_idx \in Slots, ForceTimerTick(pl, n, r), QuietTable(pl)
  PROVE  SameSleepers(pl, process_list') /\ QuietTable(process_list')
<1>1. \A x : x = Irq00(pl, n, current_process_idx, r) => SameButIdle(pl, x.list)
  BY SwitchToReady
<1>2. SameButIdle(pl, process_list')
  BY <1>1 DEF ForceTimerTick
<1> QED
  BY <1>2, IdleChangeIsQuiet

(* The death of one process that does not sleep, when nobody has children. *)
LEMMA DeathIsQuiet ==
  ASSUME IInv, NoEntries, QuietTable(process_list),
         NEW i \in Mortal(process_list), process_list[i].state # PAUSED_BY_SEM,
         DestroyAndSwitch({i})
  PROVE  /\ SameSleepers(process_list, process_list')
         /\ QuietTable(process_list')
         /\ NoEntries'
<1> DEFINE S == {i}
           after == Destroy(process_list, children_processes, S)
           left == dim - Cardinality(S)
<1>1. FinishedParents(children_processes, PidsOf(process_list, S)) = {}
  BY DEF FinishedParents, NoEntries, FreeEntry, READY, DEAD
<1>2. /\ after.list = [j \in Slots |-> IF j \in S THEN FreeSlot ELSE process_list[j]]
      /\ \A e \in Entries : after.table[e] = children_processes[e]
  <2>1. \A e \in Entries : BuryEntries(children_processes, PidsOf(process_list, S))[e]
                            = children_processes[e]
    BY DEF BuryEntries, NoEntries, FreeEntry, READY, DEAD
  <2> QED BY <1>1, <2>1 DEF Destroy
<1>3. FreeSlot.state = DEAD /\ DEAD # PAUSED_BY_SEM /\ i \in Live(process_list) /\ i # 1
  <2>1. i # 1
    BY Zenon DEF Mortal, IInv, SoundTable
  <2> QED
    BY <2>1 DEF FreeSlot, DEAD, PAUSED_BY_SEM, Mortal
<1>4. SameSleepers(process_list, after.list)
  BY <1>2, <1>3 DEF SameSleepers
<1>5. QuietTable(after.list)
  <2>1. 1 \in Slots
    BY IdleSlot DEF IInv
  <2>2. \A j \in Slots : after.list[j] \in {FreeSlot, process_list[j]}
    BY <1>2
  <2>3. after.list[1] = process_list[1]
    BY <1>2, <1>3, <2>1
  <2> HIDE DEF after
  <2>4. \A j \in Live(after.list) : j \in Live(process_list) /\ after.list[j] = process_list[j]
    BY <1>3, <2>2 DEF Live
  <2> QED
    BY <2>3, <2>4 DEF QuietTable
<1>6. SoundTable(after.list, left, pid_value)
  <2>1. \A x : x = Destroy(process_list, children_processes, S) =>
          SoundTable(x.list, left, pid_value)
    BY DestroySound DEF IInv
  <2> QED
    BY <2>1
<1>7. /\ process_list' = after.list \/ ForceTimerTick(after.list, left, 0)
      /\ children_processes' = after.table
  BY DEF DestroyAndSwitch
<1>8. NoEntries'
  BY <1>2, <1>7 DEF NoEntries
<1> HIDE DEF after, left, S
<1>9. SameSleepers(after.list, process_list') /\ QuietTable(process_list')
  BY <1>5, <1>6, <1>7, SwitchIsQuiet DEF IInv, SameSleepers
<1> QED
  BY <1>4, <1>8, <1>9 DEF SameSleepers

(* No step of the scheduler that careful callers cause changes who sleeps. *)
LEMMA CarefulStepIsQuiet ==
  ASSUME IInv, NoEntries, QuietTable(process_list), CarefulSchedulerStep
  PROVE  /\ SleepingPids(process_list') = SleepingPids(process_list)
         /\ QuietTable(process_list')
         /\ NoEntries'
<1>1. SUFFICES /\ SameSleepers(process_list, process_list')
               /\ QuietTable(process_list')
               /\ NoEntries'
  BY SameSleepersSamePids
<1>2. CASE TimerTick \/ Yield
  <2>1. \E r \in Nat : ForceTimerTick(process_list, dim, r)
    BY <1>2 DEF TimerTick, Yield, IInv
  <2>2. UNCHANGED children_processes
    BY <1>2 DEF TimerTick, Yield
  <2> QED
    BY <2>1, <2>2, SwitchIsQuiet DEF IInv, NoEntries
<1>3. ASSUME NEW priority \in Priorities, CreateProcess(priority)
      PROVE  /\ SameSleepers(process_list, process_list')
             /\ QuietTable(process_list')
             /\ NoEntries'
  <2> DEFINE new == [pid |-> pid_value, state |-> READY,
                     assigned_ticks |-> CalculateTicks(priority), immortal |-> FALSE]
  <2>1. /\ process_list \in [Slots -> Process]
        /\ process_list' = [process_list EXCEPT ![Least(Slots \ Live(process_list))] = new]
        /\ pid_value < MaxPid /\ pid_value \in Nat
        /\ UNCHANGED children_processes
    BY <1>3 DEF CreateProcess, Spawn, IInv, SoundTable
  <2>2. \A i \in Live(process_list) : process_list'[i] = process_list[i]
    BY <1>3, SpawnSound DEF CreateProcess
  <2>3. \A i \in Slots : process_list'[i] \in {process_list[i], new}
    BY <2>1
  <2>4. new.state = READY /\ new.pid = pid_value
    OBVIOUS
  <2> HIDE DEF new
  <2>5. SameSleepers(process_list, process_list')
    BY <2>2, <2>3, <2>4 DEF SameSleepers, Live, PAUSED_BY_SEM, READY, DEAD
  <2>6. QuietTable(process_list')
    <3>1. 1 \in Live(process_list)
      BY IdleSlot DEF IInv
    <3>2. ASSUME NEW i \in Live(process_list') \ {1}
          PROVE  process_list'[i].pid <= MaxPid
      <4>1. CASE i \in Live(process_list)
        BY <2>2, <4>1 DEF QuietTable
      <4>2. CASE i \notin Live(process_list)
        <5>1. process_list'[i] = new
          BY <2>3, <4>2 DEF Live
        <5> QED
          BY <2>1, <2>4, <5>1, SizesAssumption
      <4> QED
        BY <4>1, <4>2
    <3>3. process_list'[1].state # PAUSED_BY_SEM
      BY <2>2, <3>1 DEF QuietTable
    <3> QED
      BY <3>2, <3>3 DEF QuietTable
  <2> QED
    BY <2>1, <2>5, <2>6 DEF NoEntries
<1>4. CASE EndProcess
  <2>1. process_list[current_process_idx].state # PAUSED_BY_SEM
    BY DEF IInv, READY, PAUSED_BY_SEM
  <2> QED
    BY <1>4, <2>1, DeathIsQuiet DEF EndProcess
<1>5. ASSUME NEW pid \in LivePids(process_list) \ AsleepPids, KillProcess(pid)
      PROVE  /\ SameSleepers(process_list, process_list')
             /\ QuietTable(process_list')
             /\ NoEntries'
  <2> DEFINE i == GetProcessIdx(process_list, pid)
  <2>1. i \in Live(process_list) /\ process_list[i].pid = pid
    BY SlotOfPid DEF IInv
  <2>2. process_list[i].state # PAUSED_BY_SEM
    BY <1>5, <2>1 DEF AsleepPids, Asleep, PidsOf
  <2> QED
    BY <1>5, <2>2, DeathIsQuiet DEF KillProcess
<1> QED
  BY <1>2, <1>3, <1>4, <1>5 DEF CarefulSchedulerStep

-----------------------------------------------------------------------------
(* The queue.  Somebody new at its end, and somebody less at its front.    *)
LEMMA OneMoreWaits ==
  ASSUME NEW q, NEW P, Queues(q, P), NEW pid \in Nat, pid \notin P
  PROVE  Queues(Append(q, pid), P \cup {pid})
<1> DEFINE r == Append(q, pid)
<1>1. q \in Seq(Nat) /\ Len(q) \in Nat
  BY DEF Queues
<1>2. /\ r \in Seq(Nat) /\ Len(r) = Len(q) + 1
      /\ r[Len(q) + 1] = pid
      /\ \A k \in 1 .. Len(q) : r[k] = q[k]
  BY <1>1
<1> HIDE DEF r
<1>3. \A k \in 1 .. Len(r) : k \in 1 .. Len(q) \/ k = Len(q) + 1
  BY <1>1, <1>2
<1>4. 1 .. Len(q) \subseteq 1 .. Len(r) /\ Len(q) + 1 \in 1 .. Len(r)
  BY <1>1, <1>2
<1>5. \A k \in 1 .. Len(r) : r[k] \in P \cup {pid}
  BY <1>2, <1>3 DEF Queues
<1>6. \A p \in P \cup {pid} : \E k \in 1 .. Len(r) : r[k] = p
  BY <1>2, <1>4 DEF Queues
<1>7. \A j, k \in 1 .. Len(r) : r[j] = r[k] => j = k
  BY <1>2, <1>3 DEF Queues
<1> QED
  BY <1>2, <1>5, <1>6, <1>7 DEF Queues, r

LEMMA OneLessWaits ==
  ASSUME NEW q, NEW P, Queues(q, P), q # <<>>
  PROVE  Head(q) \in P /\ Queues(Tail(q), P \ {Head(q)})
<1> DEFINE r == Tail(q)
           h == Head(q)
<1>1. q \in Seq(Nat) /\ Len(q) \in Nat \ {0}
  BY DEF Queues
<1>2. /\ r \in Seq(Nat) /\ Len(r) = Len(q) - 1
      /\ h = q[1]
      /\ \A k \in 1 .. Len(r) : r[k] = q[k + 1]
  BY <1>1
<1> HIDE DEF r, h
<1>3. \A k \in 1 .. Len(r) : k + 1 \in 1 .. Len(q) /\ k + 1 # 1
  BY <1>1, <1>2
<1>4. 1 \in 1 .. Len(q)
  BY <1>1
<1>5. ASSUME NEW k \in 1 .. Len(r)
      PROVE  r[k] \in P \ {h}
  <2>1. k + 1 \in 1 .. Len(q) /\ k + 1 # 1 /\ r[k] = q[k + 1]
    BY <1>2, <1>3
  <2>2. q[k + 1] \in P /\ q[k + 1] # q[1]
    BY <1>4, <2>1 DEF Queues
  <2> QED BY <1>2, <2>1, <2>2
<1>6. ASSUME NEW p \in P \ {h}
      PROVE  \E k \in 1 .. Len(r) : r[k] = p
  <2>1. \E k \in 1 .. Len(q) : q[k] = p
    BY <1>6, Zenon DEF Queues
  <2>2. PICK k \in 1 .. Len(q) : q[k] = p
    BY <2>1, Zenon
  <2>3. k - 1 \in 1 .. Len(r) /\ (k - 1) + 1 = k
    BY <1>1, <1>2, <2>2
  <2> QED
    BY <1>2, <2>2, <2>3
<1>7. ASSUME NEW j \in 1 .. Len(r), NEW k \in 1 .. Len(r), r[j] = r[k]
      PROVE  j = k
  <2>1. \A a, b \in 1 .. Len(q) : q[a] = q[b] => a = b
    BY DEF Queues
  <2>2. j + 1 \in 1 .. Len(q) /\ k + 1 \in 1 .. Len(q) /\ q[j + 1] = q[k + 1]
    BY <1>2, <1>3, <1>7
  <2>3. j + 1 = k + 1
    BY <2>1, <2>2, Zenon
  <2> QED
    BY <2>3
<1>8. h \in P
  BY <1>2, <1>4 DEF Queues
<1> QED
  BY <1>2, <1>5, <1>6, <1>7, <1>8 DEF Queues, r, h

(* A queue is as long as the set of those in it.                           *)
LEMMA QueueCounts ==
  ASSUME NEW q, NEW P, Queues(q, P)
  PROVE  {q[k] : k \in DOMAIN q} = P /\ Cardinality(P) = Len(q) /\ Len(q) \in Nat
<1>1. q \in Seq(Nat) /\ Len(q) \in Nat /\ DOMAIN q = 1 .. Len(q)
  BY DEF Queues
<1>2. {q[k] : k \in DOMAIN q} = P
  BY <1>1 DEF Queues
<1> DEFINE f == [k \in 1 .. Len(q) |-> q[k]]
<1>3. /\ f \in [1 .. Len(q) -> P]
      /\ \A j, k \in 1 .. Len(q) : f[j] = f[k] => j = k
      /\ \A p \in P : \E k \in 1 .. Len(q) : f[k] = p
  BY DEF Queues
<1>4. f \in Bijection(1 .. Len(q), P)
  BY <1>3, Zenon DEF Bijection, Injection, IsInjective, Surjection
<1>5. IsFiniteSet(1 .. Len(q)) /\ Cardinality(1 .. Len(q)) = Len(q)
  BY <1>1, FS_Interval
<1>6. ExistsBijection(1 .. Len(q), P)
  BY <1>4 DEF ExistsBijection
<1> QED
  BY <1>1, <1>2, <1>5, <1>6, FS_Bijection, Zenon

-----------------------------------------------------------------------------
(* The array.  The one id is found in slot 0 or nowhere.                   *)
LEMMA FoundInSlotZero ==
  ASSUME OneSemaphore, NEW s, OnlySlotZero(s)
  PROVE  /\ {i \in SemSlots : s[i].sem_id = TheId} = IF InUse(s) THEN {0} ELSE {}
         /\ ~InUse(s) => s[0] = EmptySem
         /\ TheId \in SemIds /\ TheId \in Nat \ {0}
<1>1. TheId \in SemIds /\ TheId \in Nat \ {0}
  BY SemaphoresAssumption DEF OneSemaphore
<1>2. EmptySem.sem_id = 0 /\ EmptySem.sem_id # TheId
  BY <1>1 DEF EmptySem, EMPTY_SEM
<1>3. \A i \in SemSlots : i # 0 => s[i].sem_id # TheId
  BY <1>2 DEF OnlySlotZero
<1>4. 0 \in SemSlots
  BY SemaphoresAssumption DEF SemSlots
<1>5. ~InUse(s) => s[0] = EmptySem
  BY DEF OnlySlotZero, InUse
<1> QED
  BY <1>1, <1>3, <1>4, <1>5 DEF InUse

(* What the promised semaphore is, before and after a step.                *)
LEMMA PromiseIs ==
  ASSUME OneSemaphore, OnlySlotZero(semaphores), OnlySlotZero(semaphores')
  PROVE  /\ IsOpen(TheId) <=> InUse(semaphores)
         /\ IsOpen(TheId)' <=> InUse(semaphores')
         /\ InUse(semaphores) => FindSem(TheId) = 0
         /\ InUse(semaphores') => FindSem(TheId)' = 0
<1>1. Least({0}) = 0
  BY LeastIn, {0} \in SUBSET Nat
<1>2. Holding(TheId) = IF InUse(semaphores) THEN {0} ELSE {}
  BY FoundInSlotZero DEF Holding
<1>3. Holding(TheId)' = IF InUse(semaphores') THEN {0} ELSE {}
  BY FoundInSlotZero DEF Holding
<1> QED
  BY <1>1, <1>2, <1>3 DEF IsOpen, FindSem

LEMMA SameView ==
  ASSUME UNCHANGED <<semaphores, waiters>>, AsleepPids' = AsleepPids
  PROVE  UNCHANGED Promise!vars /\ TurnedAway' = TurnedAway
<1>1. Holding(TheId)' = Holding(TheId)
  BY DEF Holding
<1>2. FindSem(TheId)' = FindSem(TheId) /\ IsOpen(TheId)' = IsOpen(TheId)
  BY <1>1 DEF FindSem, IsOpen
<1>3. (IF IsOpen(TheId) THEN semaphores[FindSem(TheId)].sem_val ELSE 0)'
        = IF IsOpen(TheId) THEN semaphores[FindSem(TheId)].sem_val ELSE 0
  BY <1>2, Zenon
<1>4. Queued' = Queued
  BY DEF Queued
<1>5. TurnedAway' = TurnedAway /\ (AsleepPids \cap Queued)' = AsleepPids \cap Queued
  BY <1>4 DEF TurnedAway
<1> QED
  BY <1>2, <1>3, <1>5, Zenon DEF Promise!vars

(* A caller that goes to sleep joins the sleepers.                         *)
LEMMA CallerFallsAsleep ==
  ASSUME IInv, QuietTable(process_list), Calling,
         ForceTimerTick(ChangeProcessState(process_list, CurrentPid, PAUSED_BY_SEM),
                        dim, 0)
  PROVE  /\ QuietTable(process_list')
         /\ SleepingPids(process_list') = SleepingPids(process_list) \cup {CurrentPid}
         /\ CurrentPid \in 0 .. MaxPid
         /\ CurrentPid \notin SleepingPids(process_list)
         /\ current_process_idx \in Slots /\ current_process_idx # 1
         /\ process_list[current_process_idx].state # PAUSED_BY_SEM
<1> DEFINE c == current_process_idx
           ql == WithState(process_list, c, PAUSED_BY_SEM)
<1>1. /\ SoundTable(process_list, dim, pid_value)
      /\ SoundChildren(process_list, children_processes, pid_value)
      /\ SoundSleepers(process_list, children_processes)
      /\ process_list \in [Slots -> Process]
      /\ c \in Slots /\ c \in Live(process_list)
      /\ process_list[c].state # PAUSED_BY_SEM
  BY DEF IInv, SoundTable, Live, READY, DEAD, PAUSED_BY_SEM
<1>2. c # 1
  BY <1>1, IdleSlot DEF Calling, CurrentPid
<1>3. ChangeProcessState(process_list, CurrentPid, PAUSED_BY_SEM) = ql
  BY <1>1, ChangeStateOfLive DEF CurrentPid
<1>4. SoundTable(ql, dim, pid_value)
  <2>1. PAUSED_BY_SEM \in States \ {DEAD} /\ PAUSED_BY_SEM # PAUSED_BY_CHILD
    BY DEF States, PAUSED_BY_SEM, DEAD, PAUSED_BY_CHILD
  <2> QED
    BY <1>1, <2>1, WithStateSound
<1>5. /\ ql[c].state = PAUSED_BY_SEM /\ ql[c].pid = process_list[c].pid
      /\ \A i \in Slots \ {c} : ql[i] = process_list[i]
  BY <1>1 DEF WithState, Process
<1>6. ForceTimerTick(ql, dim, 0)
  BY <1>3
<1> HIDE DEF ql
<1>7. QuietTable(ql)
  <2>1. ql[1] = process_list[1]
    BY <1>1, <1>2, <1>5, IdleSlot
  <2>2. \A i \in Live(ql) \ {1} : i \in Live(process_list) /\ ql[i].pid = process_list[i].pid
    BY <1>1, <1>5 DEF Live
  <2> QED
    BY <2>1, <2>2 DEF QuietTable
<1>8. SameSleepers(ql, process_list') /\ QuietTable(process_list')
  BY <1>1, <1>4, <1>6, <1>7, SwitchIsQuiet
<1>9. SleepingPids(ql) = SleepingPids(process_list) \cup {CurrentPid}
  <2>1. Sleeping(ql) = Sleeping(process_list) \cup {c}
    BY <1>1, <1>5 DEF Sleeping
  <2>2. \A i \in Sleeping(ql) : ql[i].pid = process_list[i].pid
    BY <1>5 DEF Sleeping
  <2> QED
    BY <2>1, <2>2 DEF SleepingPids, PidsOf, CurrentPid
<1>10. CurrentPid \in 0 .. MaxPid
  <2>1. CurrentPid <= MaxPid
    BY <1>1, <1>2 DEF QuietTable, CurrentPid
  <2>2. CurrentPid \in Nat
    BY <1>1 DEF CurrentPid, Process
  <2> QED
    BY <2>1, <2>2, SizesAssumption
<1>11. CurrentPid \notin SleepingPids(process_list)
  <2>1. \A i \in Sleeping(process_list) : i \in Live(process_list) /\ i # c
    BY <1>1 DEF Sleeping, Live, PAUSED_BY_SEM, DEAD
  <2> QED
    BY <1>1, <2>1 DEF SoundTable, SleepingPids, PidsOf, CurrentPid
<1>12. SleepingPids(process_list') = SleepingPids(ql)
  BY <1>8, SameSleepersSamePids
<1> QED
  BY <1>1, <1>2, <1>8, <1>9, <1>10, <1>11, <1>12

(* A sleeper that is made READY leaves them, and it alone.                 *)
LEMMA SleeperWakes ==
  ASSUME IInv, QuietTable(process_list), NEW pid \in SleepingPids(process_list),
         process_list' = ChangeProcessState(process_list, pid, READY)
  PROVE  /\ QuietTable(process_list')
         /\ SleepingPids(process_list') = SleepingPids(process_list) \ {pid}
<1>1. PICK i \in Sleeping(process_list) : process_list[i].pid = pid
  BY DEF SleepingPids, PidsOf
<1>2. /\ SoundTable(process_list, dim, pid_value)
      /\ process_list \in [Slots -> Process]
      /\ \A j \in Sleeping(process_list) : j \in Live(process_list)
      /\ i \in Slots
  BY DEF IInv, SoundTable, Sleeping, Live, PAUSED_BY_SEM, DEAD
<1>3. process_list' = WithState(process_list, i, READY)
  BY <1>1, <1>2, ChangeStateOfLive
<1>4. /\ process_list'[i].state = READY /\ process_list'[i].pid = pid
      /\ \A j \in Slots \ {i} : process_list'[j] = process_list[j]
  BY <1>1, <1>2, <1>3 DEF WithState, Process
<1>5. Sleeping(process_list') = Sleeping(process_list) \ {i}
  BY <1>2, <1>4 DEF Sleeping, READY, PAUSED_BY_SEM
<1>6. SleepingPids(process_list') = SleepingPids(process_list) \ {pid}
  <2>1. \A j \in Sleeping(process_list) : process_list[j].pid = pid => j = i
    BY <1>1, <1>2 DEF SoundTable
  <2>2. \A j \in Sleeping(process_list) \ {i} : process_list'[j].pid = process_list[j].pid
    BY <1>4 DEF Sleeping
  <2> QED
    BY <1>1, <1>5, <2>1, <2>2 DEF SleepingPids, PidsOf
<1>7. QuietTable(process_list')
  <2>1. i # 1 /\ 1 \in Slots
    BY <1>2, IdleSlot DEF Sleeping, QuietTable
  <2>2. \A j \in Live(process_list') \ {1} :
          j \in Live(process_list) /\ process_list'[j].pid = process_list[j].pid
    BY <1>1, <1>2, <1>4 DEF Live
  <2> QED
    BY <1>4, <2>1, <2>2 DEF QuietTable
<1> QED
  BY <1>6, <1>7

-----------------------------------------------------------------------------
(* The promised semaphore counts as everybody does.                        *)
LEMMA PromiseCounts ==
  ASSUME NEW S
  PROVE  Promise!Cardinality(S) = Cardinality(S)
BY DEF Promise!Cardinality, Cardinality

(* The steps.  Each keeps the invariant, is one of the promised            *)
(* semaphore's or leaves that alone, and turns nobody away without need.   *)
OnlyFullTurnsAway ==
  TurnedAway' # TurnedAway =>
    /\ Len(waiters) = MAX_PROCESS_WAITING
    /\ TurnedAway' = TurnedAway \cup {CurrentPid}

Kept == CarefulInv' /\ [Promise!Next]_(Promise!vars) /\ OnlyFullTurnsAway

(* Whom the promised semaphore sees, given that the queue is of sleepers.  *)
LEMMA WaitingAreQueued ==
  ASSUME CarefulInv
  PROVE  AsleepPids \cap Queued = Queued /\ AsleepPids = SleepingPids(process_list)
BY AsleepAre DEF CarefulInv

LEMMA WaitingWillBeQueued ==
  ASSUME CarefulInv'
  PROVE  AsleepPids' \cap Queued' = Queued' /\ AsleepPids' = SleepingPids(process_list')
BY AsleepWillBe DEF CarefulInv

LEMMA OpeningIsOpen ==
  ASSUME OneSemaphore, IInv, SemTypeOK, CarefulInv,
         NEW v \in InitVals, OpenSem(TheId, v)
  PROVE  Kept
<1>1. OnlySlotZero(semaphores) /\ MAX_SEM \in Nat
  BY SemaphoresAssumption DEF CarefulInv
<1>2. \A j \in Unused : j \in Nat /\ j \in SemSlots
  BY DEF Unused, SemSlots
<1>3. Unused # {} /\ SeenByScan(TheId) = {}
  BY DEF OpenSem
<1>4. 0 \in SemSlots /\ MAX_SEM # 0
  BY <1>1, <1>2, <1>3 DEF SemSlots
<1>5. ~InUse(semaphores)
  <2>1. SUFFICES ASSUME InUse(semaphores)
                 PROVE  FALSE
    OBVIOUS
  <2>2. Holding(TheId) = {0}
    BY <1>1, <2>1, FoundInSlotZero DEF Holding
  <2>3. 0 \notin Unused
    BY <1>1, <2>1, FoundInSlotZero DEF Unused, EMPTY_SEM, InUse
  <2>4. 0 \in SeenByScan(TheId)
    BY <1>2, <2>2, <2>3 DEF SeenByScan
  <2> QED
    BY <1>3, <2>4
<1>6. semaphores[0] = EmptySem /\ 0 \in Unused
  BY <1>1, <1>4, <1>5, FoundInSlotZero DEF Unused, EmptySem, EMPTY_SEM
<1>7. Least(Unused) = 0
  <2>1. Least(Unused) \in Unused /\ \A j \in Unused : Least(Unused) <= j
    BY <1>2, <1>3, LeastIn, Unused \in SUBSET Nat
  <2> QED
    BY <1>2, <1>6, <2>1
<1>8. /\ semaphores' = [semaphores EXCEPT ![0] = [sem_id |-> TheId, sem_val |-> v]]
      /\ waiters' = <<>> /\ buffer' = "live"
      /\ UNCHANGED <<process_list, children_processes>>
  BY <1>7 DEF OpenSem, StartSem, vars
<1>9. /\ semaphores'[0].sem_id = TheId /\ semaphores'[0].sem_val = v
      /\ \A i \in SemSlots : i # 0 => semaphores'[i] = semaphores[i]
  BY <1>4, <1>8 DEF SemTypeOK
<1>10. OnlySlotZero(semaphores') /\ InUse(semaphores') /\ v \in Nat
  BY <1>1, <1>4, <1>9, SemaphoresAssumption DEF OnlySlotZero, InUse
<1>11. waiters = <<>>
  BY <1>5 DEF CarefulInv
<1>12. CarefulInv'
  BY <1>8, <1>10, <1>11 DEF CarefulInv, NoEntries, Queued
<1>13. AsleepPids' = AsleepPids /\ Queued' = Queued
  BY <1>8, <1>11, AsleepAre, AsleepWillBe DEF Queued
<1>14. ~IsOpen(TheId) /\ IsOpen(TheId)' /\ FindSem(TheId)' = 0
  BY <1>1, <1>5, <1>10, PromiseIs
<1>15. TurnedAway' = TurnedAway
  BY <1>13 DEF TurnedAway
<1>16. Promise!Open
  BY <1>9, <1>10, <1>13, <1>14, <1>15 DEF Promise!Open
<1> QED
  BY <1>12, <1>15, <1>16 DEF Kept, Promise!Next, OnlyFullTurnsAway

LEMMA WaitingTakesOrSleeps ==
  ASSUME OneSemaphore, IInv, SemTypeOK, CarefulInv, WaitSem(TheId)
  PROVE  Kept
<1>1. /\ OnlySlotZero(semaphores) /\ QuietTable(process_list)
      /\ Queues(waiters, Queued) /\ Queued \subseteq SleepingPids(process_list)
      /\ 0 \in SemSlots
      /\ semaphores \in [SemSlots -> SemInfo]
      /\ semaphores[0].sem_val \in Nat
  <2>1. 0 \in SemSlots
    BY SemaphoresAssumption DEF SemSlots
  <2> QED
    BY <2>1 DEF CarefulInv, SemTypeOK, SemInfo
<1>2. InUse(semaphores) /\ FindSem(TheId) = 0 /\ IsOpen(TheId)
  <2>1. Holding(TheId) = IF InUse(semaphores) THEN {0} ELSE {}
    BY <1>1, FoundInSlotZero DEF Holding
  <2>2. Least({0}) = 0
    BY LeastIn, {0} \in SUBSET Nat
  <2> QED
    BY <2>1, <2>2 DEF IsOpen, FindSem, WaitSem
<1>3. buffer = "live" /\ buffer' = buffer
  BY <1>2 DEF CarefulInv, WaitSem
<1>4. CASE semaphores[0].sem_val > 0
  <2>1. /\ semaphores' = [semaphores EXCEPT ![0].sem_val = @ - 1]
        /\ UNCHANGED <<process_list, children_processes, waiters>>
    BY <1>2, <1>4 DEF WaitSem, vars
  <2>2. /\ semaphores'[0].sem_val = semaphores[0].sem_val - 1
        /\ semaphores'[0].sem_id = semaphores[0].sem_id
        /\ \A i \in SemSlots : i # 0 => semaphores'[i] = semaphores[i]
    BY <1>1, <2>1 DEF SemInfo
  <2>3. OnlySlotZero(semaphores') /\ InUse(semaphores')
    BY <1>1, <1>2, <2>2, FoundInSlotZero DEF OnlySlotZero, InUse, EmptySem, EMPTY_SEM
  <2>4. waiters = <<>>
    BY <1>4 DEF CarefulInv
  <2>5. CarefulInv'
    BY <1>3, <2>1, <2>3, <2>4 DEF CarefulInv, NoEntries, Queued
  <2>6. AsleepPids' = AsleepPids /\ Queued' = Queued
    BY <2>1, AsleepAre, AsleepWillBe DEF Queued
  <2>7. IsOpen(TheId)' /\ FindSem(TheId)' = 0
    BY <1>1, <2>3, PromiseIs
  <2>8. TurnedAway' = TurnedAway
    BY <2>6 DEF TurnedAway
  <2>9. Promise!Take
    BY <1>2, <1>4, <2>2, <2>6, <2>7, <2>8 DEF Promise!Take
  <2> QED
    BY <2>5, <2>8, <2>9 DEF Kept, Promise!Next, OnlyFullTurnsAway
<1>5. CASE ~(semaphores[0].sem_val > 0)
  <2>1. /\ Calling
        /\ waiters' = Enqueue(waiters, CurrentPid)
        /\ ForceTimerTick(ChangeProcessState(process_list, CurrentPid, PAUSED_BY_SEM),
                          dim, 0)
        /\ UNCHANGED <<semaphores, children_processes>>
    BY <1>2, <1>5 DEF WaitSem
  <2>2. /\ QuietTable(process_list')
        /\ SleepingPids(process_list') = SleepingPids(process_list) \cup {CurrentPid}
        /\ CurrentPid \in 0 .. MaxPid
        /\ CurrentPid \notin SleepingPids(process_list)
        /\ current_process_idx \in Slots /\ current_process_idx # 1
        /\ process_list[current_process_idx].state # PAUSED_BY_SEM
    BY <1>1, <2>1, CallerFallsAsleep
  <2>3. CurrentPid \in Nat /\ CurrentPid \notin Queued
    BY <1>1, <2>2, SizesAssumption
  <2>4. /\ AsleepPids = SleepingPids(process_list)
        /\ AsleepPids' = AsleepPids \cup {CurrentPid}
        /\ CurrentPid \in (0 .. MaxPid) \ AsleepPids
    BY <2>2, AsleepAre, AsleepWillBe
  <2>5. /\ Cardinality(Queued) = Len(waiters)
        /\ Len(waiters) \in Nat /\ Len(waiters) <= MAX_PROCESS_WAITING
    BY <1>1, QueueCounts DEF SemTypeOK
  <2>6. AsleepPids \cap Queued = Queued
    BY <1>1, <2>4
  <2>7. semaphores[0].sem_val = 0
    BY <1>1, <1>5
  <2>8. IsOpen(TheId)' /\ FindSem(TheId)' = 0
    BY <1>1, <1>2, <2>1, PromiseIs
  <2>9. CASE Len(waiters) = MAX_PROCESS_WAITING
    <3>1. waiters' = waiters /\ Queued' = Queued
      BY <2>1, <2>9 DEF Enqueue, Queued
    <3>2. CarefulInv'
      BY <1>1, <1>2, <1>3, <2>1, <2>2, <2>7, <3>1 DEF CarefulInv, NoEntries
    <3>3. TurnedAway' = TurnedAway \cup {CurrentPid}
      BY <2>3, <2>4, <3>1 DEF TurnedAway
    <3>4. AsleepPids' \cap Queued' = Queued
      BY <2>3, <2>4, <2>6, <3>1
    <3>5. CurrentPid \in (0 .. MaxPid) \ (Queued \cup TurnedAway)
      BY <2>3, <2>4 DEF TurnedAway
    <3>6. ~(Cardinality(Queued) < MAX_PROCESS_WAITING)
      BY <2>5, <2>9, SemaphoresAssumption
    <3>7. Promise!Sleep
      <4>1. \E p \in (0 .. MaxPid) \ ((AsleepPids \cap Queued) \cup TurnedAway) :
              IF Cardinality(AsleepPids \cap Queued) < MAX_PROCESS_WAITING
                THEN /\ AsleepPids' \cap Queued' = (AsleepPids \cap Queued) \cup {p}
                     /\ TurnedAway' = TurnedAway
                ELSE /\ TurnedAway' = TurnedAway \cup {p}
                     /\ AsleepPids' \cap Queued' = AsleepPids \cap Queued
        BY <2>6, <3>3, <3>4, <3>5, <3>6
      <4> QED
        BY <1>2, <2>1, <2>7, <2>8, <4>1, PromiseCounts DEF Promise!Sleep
    <3> QED
      BY <2>9, <3>2, <3>3, <3>7 DEF Kept, Promise!Next, OnlyFullTurnsAway
  <2>10. CASE Len(waiters) # MAX_PROCESS_WAITING
    <3>1. waiters' = Append(waiters, CurrentPid)
      BY <2>1, <2>10 DEF Enqueue
    <3>2. Queues(waiters', Queued \cup {CurrentPid})
      BY <1>1, <2>3, <3>1, OneMoreWaits
    <3>3. Queued' = Queued \cup {CurrentPid}
      BY <3>2, QueueCounts DEF Queued
    <3>4. CarefulInv'
      BY <1>1, <1>2, <1>3, <2>1, <2>2, <2>7, <3>2, <3>3 DEF CarefulInv, NoEntries
    <3>5. TurnedAway' = TurnedAway
      BY <2>3, <2>4, <3>3 DEF TurnedAway
    <3>6. AsleepPids' \cap Queued' = Queued \cup {CurrentPid}
      BY <2>4, <2>6, <3>3
    <3>7. CurrentPid \in (0 .. MaxPid) \ (Queued \cup TurnedAway)
      BY <2>3, <2>4 DEF TurnedAway
    <3>8. Cardinality(Queued) < MAX_PROCESS_WAITING
      BY <2>5, <2>10, SemaphoresAssumption
    <3>9. Promise!Sleep
      <4>1. \E p \in (0 .. MaxPid) \ ((AsleepPids \cap Queued) \cup TurnedAway) :
              IF Cardinality(AsleepPids \cap Queued) < MAX_PROCESS_WAITING
                THEN /\ AsleepPids' \cap Queued' = (AsleepPids \cap Queued) \cup {p}
                     /\ TurnedAway' = TurnedAway
                ELSE /\ TurnedAway' = TurnedAway \cup {p}
                     /\ AsleepPids' \cap Queued' = AsleepPids \cap Queued
        BY <2>6, <3>5, <3>6, <3>7, <3>8
      <4> QED
        BY <1>2, <2>1, <2>7, <2>8, <4>1, PromiseCounts DEF Promise!Sleep
    <3> QED
      BY <3>4, <3>5, <3>9 DEF Kept, Promise!Next, OnlyFullTurnsAway
  <2> QED
    BY <2>9, <2>10
<1> QED
  BY <1>4, <1>5

(* A post with a sleeper in the queue wakes the first one, and it alone.   *)
LEMMA PostingWakes ==
  ASSUME OneSemaphore, IInv, CarefulInv, PostSem(TheId), waiters # <<>>
  PROVE  /\ InUse(semaphores)
         /\ Head(waiters) \in Queued
         /\ Head(waiters) \in SleepingPids(process_list)
         /\ SleepingPids(process_list') = SleepingPids(process_list) \ {Head(waiters)}
         /\ QuietTable(process_list')
         /\ Queues(waiters', Queued') /\ Queued' = Queued \ {Head(waiters)}
         /\ waiters' = Tail(waiters) /\ buffer = "live"
         /\ UNCHANGED <<semaphores, buffer, children_processes>>
<1>1. InUse(semaphores) /\ buffer = "live"
  BY DEF CarefulInv
<1>2. /\ process_list' = ChangeProcessState(process_list, Head(waiters), READY)
      /\ waiters' = Tail(waiters)
      /\ UNCHANGED <<semaphores, buffer, children_processes>>
  BY <1>1 DEF PostSem, Dequeued
<1>3. /\ Head(waiters) \in Queued
      /\ Head(waiters) \in SleepingPids(process_list)
      /\ Queues(waiters', Queued \ {Head(waiters)})
  BY <1>2, OneLessWaits DEF CarefulInv
<1>4. /\ QuietTable(process_list')
      /\ SleepingPids(process_list') = SleepingPids(process_list) \ {Head(waiters)}
  BY <1>2, <1>3, SleeperWakes DEF CarefulInv
<1>5. Queued' = Queued \ {Head(waiters)}
  BY <1>3, QueueCounts DEF Queued
<1> QED
  BY <1>1, <1>2, <1>3, <1>4, <1>5

LEMMA PostingWakesOrGives ==
  ASSUME OneSemaphore, IInv, SemTypeOK, CarefulInv, PostSem(TheId)
  PROVE  Kept
<1>1. /\ OnlySlotZero(semaphores)
      /\ 0 \in SemSlots
      /\ semaphores \in [SemSlots -> SemInfo]
      /\ semaphores[0].sem_val \in Nat
  <2>1. 0 \in SemSlots
    BY SemaphoresAssumption DEF SemSlots
  <2> QED
    BY <2>1 DEF CarefulInv, SemTypeOK, SemInfo
<1>2. InUse(semaphores) /\ FindSem(TheId) = 0 /\ IsOpen(TheId)
  <2>1. Holding(TheId) = IF InUse(semaphores) THEN {0} ELSE {}
    BY <1>1, FoundInSlotZero DEF Holding
  <2>2. Least({0}) = 0
    BY LeastIn, {0} \in SUBSET Nat
  <2> QED
    BY <2>1, <2>2 DEF IsOpen, FindSem, PostSem
<1>3. CASE waiters # <<>>
  <2>1. /\ Head(waiters) \in Queued
        /\ Head(waiters) \in SleepingPids(process_list)
        /\ SleepingPids(process_list') = SleepingPids(process_list) \ {Head(waiters)}
        /\ QuietTable(process_list')
        /\ Queues(waiters', Queued') /\ Queued' = Queued \ {Head(waiters)}
        /\ buffer = "live"
        /\ UNCHANGED <<semaphores, buffer, children_processes>>
    BY <1>3, PostingWakes
  <2>2. semaphores[0].sem_val = 0
    BY <1>3 DEF CarefulInv
  <2>3. CarefulInv'
    BY <1>1, <1>2, <2>1, <2>2 DEF CarefulInv, NoEntries
  <2>4. IsOpen(TheId)' /\ FindSem(TheId)' = 0
    BY <1>1, <1>2, <2>1, PromiseIs
  <2>5. AsleepPids \cap Queued = Queued /\ AsleepPids' \cap Queued' = Queued \ {Head(waiters)}
    BY <2>1, <2>3, WaitingAreQueued, WaitingWillBeQueued
  <2>6. TurnedAway' = TurnedAway
    BY <2>1, AsleepAre, AsleepWillBe DEF TurnedAway
  <2>7. Promise!Wake
    BY <1>2, <2>1, <2>4, <2>5, <2>6 DEF Promise!Wake
  <2> QED
    BY <2>3, <2>6, <2>7 DEF Kept, Promise!Next, OnlyFullTurnsAway
<1>4. CASE waiters = <<>>
  <2>1. /\ semaphores' = [semaphores EXCEPT ![0].sem_val = @ + 1]
        /\ UNCHANGED <<process_list, children_processes, waiters, buffer>>
    BY <1>2, <1>4 DEF PostSem, vars
  <2>2. /\ semaphores'[0].sem_val = semaphores[0].sem_val + 1
        /\ semaphores'[0].sem_id = semaphores[0].sem_id
        /\ \A i \in SemSlots : i # 0 => semaphores'[i] = semaphores[i]
    BY <1>1, <2>1 DEF SemInfo
  <2>3. OnlySlotZero(semaphores') /\ InUse(semaphores')
    BY <1>1, <1>2, <2>2, FoundInSlotZero DEF OnlySlotZero, InUse, EmptySem, EMPTY_SEM
  <2>4. Queued = {} /\ Queued' = {}
    BY <1>4, <2>1 DEF Queued
  <2>5. CarefulInv'
    BY <1>2, <1>4, <2>1, <2>3, <2>4 DEF CarefulInv, NoEntries
  <2>6. TurnedAway' = TurnedAway
    BY <2>1, <2>4, AsleepAre, AsleepWillBe DEF TurnedAway
  <2>7. IsOpen(TheId)' /\ FindSem(TheId)' = 0
    BY <1>1, <2>3, PromiseIs
  <2>8. Promise!Give
    BY <1>2, <2>2, <2>4, <2>6, <2>7 DEF Promise!Give
  <2> QED
    BY <2>5, <2>6, <2>8 DEF Kept, Promise!Next, OnlyFullTurnsAway
<1> QED
  BY <1>3, <1>4

LEMMA ClosingIsClose ==
  ASSUME OneSemaphore, IInv, SemTypeOK, CarefulInv,
         waiters = <<>>, CloseSem(TheId)
  PROVE  Kept
<1>1. /\ OnlySlotZero(semaphores)
      /\ 0 \in SemSlots
      /\ semaphores \in [SemSlots -> SemInfo]
  <2>1. 0 \in SemSlots
    BY SemaphoresAssumption DEF SemSlots
  <2> QED
    BY <2>1 DEF CarefulInv, SemTypeOK
<1>2. InUse(semaphores) /\ FindSem(TheId) = 0 /\ IsOpen(TheId)
  <2>1. Holding(TheId) = IF InUse(semaphores) THEN {0} ELSE {}
    BY <1>1, FoundInSlotZero DEF Holding
  <2>2. Least({0}) = 0
    BY LeastIn, {0} \in SUBSET Nat
  <2> QED
    BY <2>1, <2>2 DEF IsOpen, FindSem, CloseSem
<1>3. /\ semaphores' = [semaphores EXCEPT ![0] = EmptySem]
      /\ UNCHANGED <<process_list, children_processes, waiters>>
  BY <1>2 DEF CloseSem, vars
<1>4. OnlySlotZero(semaphores') /\ ~InUse(semaphores')
  <2>1. /\ semaphores'[0] = EmptySem
        /\ \A i \in SemSlots : i # 0 => semaphores'[i] = semaphores[i]
    BY <1>1, <1>3
  <2>2. EmptySem.sem_id # TheId
    BY <1>1, FoundInSlotZero DEF EmptySem, EMPTY_SEM
  <2> QED
    BY <1>1, <2>1, <2>2 DEF OnlySlotZero, InUse
<1>5. Queued = {} /\ Queued' = {}
  BY <1>3 DEF Queued
<1>6. CarefulInv'
  BY <1>3, <1>4, <1>5 DEF CarefulInv, NoEntries
<1>7. TurnedAway' = TurnedAway
  BY <1>3, <1>5, AsleepAre, AsleepWillBe DEF TurnedAway
<1>8. ~IsOpen(TheId)'
  BY <1>1, <1>4, PromiseIs
<1>9. Promise!Close
  BY <1>2, <1>5, <1>7, <1>8 DEF Promise!Close
<1> QED
  BY <1>6, <1>7, <1>9 DEF Kept, Promise!Next, OnlyFullTurnsAway

LEMMA CarefulStep ==
  ASSUME OneSemaphore, IInv, SemTypeOK, CarefulInv, [CarefulNext]_allVars
  PROVE  Kept
<1>1. TheId \in SemIds /\ \A id \in SemIds : id = TheId
  BY DEF OneSemaphore
<1>2. CASE UNCHANGED allVars
  <2>1. CarefulInv'
    BY <1>2 DEF CarefulInv, NoEntries, Queued, allVars, vars, semVars
  <2>2. UNCHANGED Promise!vars /\ TurnedAway' = TurnedAway
    <3>1. UNCHANGED <<semaphores, waiters, process_list>>
      BY <1>2 DEF allVars, vars, semVars
    <3>2. AsleepPids' = AsleepPids
      BY <3>1, AsleepAre, AsleepWillBe
    <3> QED
      BY <3>1, <3>2, SameView
  <2> QED
    BY <2>1, <2>2 DEF Kept, OnlyFullTurnsAway
<1>3. CASE CarefulSchedulerStep /\ UNCHANGED semVars
  <2>1. /\ UNCHANGED <<semaphores, waiters, buffer>>
        /\ SleepingPids(process_list') = SleepingPids(process_list)
        /\ QuietTable(process_list')
        /\ NoEntries'
        /\ OnlySlotZero(semaphores)
    BY <1>3, CarefulStepIsQuiet DEF CarefulInv, semVars
  <2>2. CarefulInv'
    BY <2>1 DEF CarefulInv, Queued
  <2>3. AsleepPids' = AsleepPids
    BY <2>1, AsleepAre, AsleepWillBe
  <2>4. UNCHANGED Promise!vars /\ TurnedAway' = TurnedAway
    BY <2>1, <2>3, SameView
  <2> QED
    BY <2>2, <2>4 DEF Kept, OnlyFullTurnsAway
<1>4. CASE CarefulSemCall
  BY <1>1, <1>4, OpeningIsOpen, WaitingTakesOrSleeps, PostingWakesOrGives, ClosingIsClose
     DEF CarefulSemCall
<1> QED
  BY <1>2, <1>3, <1>4 DEF CarefulNext

(* Careful callers make no call that SemNext does not have.                *)
LEMMA CarefulIsSem ==
  ASSUME IInv, [CarefulNext]_allVars
  PROVE  [SemNext]_allVars
  BY DEF CarefulNext, CarefulSchedulerStep, CarefulSemCall, SemNext, SemCall,
         Next, SystemCall

LEMMA CarefulInit ==
  ASSUME OneSemaphore, SemInit
  PROVE  IInv /\ SemTypeOK /\ CarefulInv /\ Promise!Init
<1>1. IInv
  BY InitIInv DEF SemInit
<1>2. SemTypeOK
  BY SemaphoresAssumption DEF SemInit, SemTypeOK, SemInfo, EmptySem, EMPTY_SEM
<1>3. \A i \in SemSlots : semaphores[i] = EmptySem
  BY DEF SemInit
<1>4. 0 \in SemSlots
  BY SemaphoresAssumption DEF SemSlots
<1>5. OnlySlotZero(semaphores)
  BY <1>3, <1>4 DEF OnlySlotZero
<1>6. ~InUse(semaphores) /\ Holding(TheId) = {}
  <2>1. EmptySem.sem_id # TheId
    BY <1>5, FoundInSlotZero DEF EmptySem, EMPTY_SEM
  <2> QED
    BY <1>3, <1>4, <2>1 DEF InUse, Holding
<1>7. NoEntries
  BY DEF SemInit, Init, NoEntries
<1>8. \A i \in Slots :
        /\ process_list[i].state # PAUSED_BY_SEM
        /\ i # 1 /\ i \in Live(process_list) => process_list[i].pid = 0
  <2>1. ShellAtBoot.state = READY /\ ShellAtBoot.pid = 0
    BY DEF ShellAtBoot, ShellPid
  <2>2. IdleAtBoot.state = PAUSED
    BY DEF IdleAtBoot, ShellAtBoot
  <2>3. FreeSlot.state = DEAD
    BY DEF FreeSlot
  <2>4. \A i \in Slots : process_list[i] = IF i = 0 THEN ShellAtBoot
                                           ELSE IF i = 1 THEN IdleAtBoot ELSE FreeSlot
    BY DEF SemInit, Init
  <2> QED
    BY <2>1, <2>2, <2>3, <2>4 DEF Live, PAUSED_BY_SEM, READY, PAUSED, DEAD
<1>9. QuietTable(process_list)
  <2>1. 1 \in Slots
    BY <1>1, IdleSlot DEF IInv
  <2>2. \A i \in Live(process_list) \ {1} : i \in Slots /\ process_list[i].pid = 0
    BY <1>8 DEF Live
  <2>3. 0 <= MaxPid
    BY SizesAssumption
  <2> QED
    BY <1>8, <2>1, <2>2, <2>3 DEF QuietTable
<1>10. Sleeping(process_list) = {} /\ SleepingPids(process_list) = {}
  <2>1. Sleeping(process_list) = {}
    BY <1>8 DEF Sleeping
  <2> QED
    BY <2>1 DEF SleepingPids, PidsOf
<1>11. waiters = <<>> /\ Queued = {} /\ Queues(waiters, Queued)
  BY DEF SemInit, Queued, Queues
<1>12. CarefulInv
  BY <1>5, <1>6, <1>7, <1>9, <1>11 DEF CarefulInv
<1>13. Promise!Init
  BY <1>6, <1>10, <1>11, AsleepAre DEF Promise!Init, IsOpen, TurnedAway
<1> QED
  BY <1>1, <1>2, <1>12, <1>13

(* What every careful run keeps.                                           *)
Careful == OneSemaphore /\ IInv /\ SemTypeOK /\ CarefulInv

LEMMA CarefulRuns ==
  OneSemaphore /\ CarefulSpec => Promise!Init /\ []Careful
<1>1. OneSemaphore /\ SemInit => Promise!Init /\ Careful
  BY CarefulInit DEF Careful
<1>2. Careful /\ [CarefulNext]_allVars => Careful'
  <2>1. OneSemaphore' = OneSemaphore
    BY DEF OneSemaphore, TheId
  <2> QED
    BY <2>1, CarefulIsSem, SemNextIInv, SemNextTypeOK, CarefulStep DEF Careful, Kept
<1> QED
  BY <1>1, <1>2, PTL DEF CarefulSpec

-----------------------------------------------------------------------------
(* However many processes there are and however they come, end and are     *)
(* killed awake, whoever goes to sleep in wait_sem finds its place in the  *)
(* queue unless all places are taken, and keeps it until a post comes      *)
(* (semaphore.c:138-145, 158-161, queue.c:31-55).                          *)
THEOREM SleepersStayQueued ==
  OneSemaphore /\ CarefulSpec => SleepersAreQueued
<1>1. Careful /\ [CarefulNext]_allVars => [OnlyFullTurnsAway]_allVars
  BY CarefulStep DEF Careful, Kept
<1>2. OnlyFullTurnsAway
        <=> (TurnedAway' # TurnedAway =>
               /\ Len(waiters) = MAX_PROCESS_WAITING
               /\ TurnedAway' = TurnedAway \cup {CurrentPid})
  BY DEF OnlyFullTurnsAway
<1>3. Careful /\ [CarefulNext]_allVars
        => [TurnedAway' # TurnedAway =>
               /\ Len(waiters) = MAX_PROCESS_WAITING
               /\ TurnedAway' = TurnedAway \cup {CurrentPid}]_allVars
  BY <1>1, <1>2
<1> QED
  BY <1>3, CarefulRuns, PTL DEF CarefulSpec, SleepersAreQueued

(* The kernel's semaphore implements the one its header promises, for every*)
(* number of processes and of places, priority and initial value: a wait   *)
(* takes a permit or sleeps, a post wakes one that waits or leaves a       *)
(* permit, nothing else wakes anybody, and only who comes when all places  *)
(* are taken is lost (semaphore.c:60-169, semaphore.h:80-95).              *)
THEOREM SemaphoreKeepsPromise ==
  OneSemaphore /\ CarefulSpec => KeepsPromise
<1>1. Careful /\ [CarefulNext]_allVars => [Promise!Next]_(Promise!vars)
  BY CarefulStep DEF Careful, Kept
<1> QED
  BY <1>1, CarefulRuns, PTL DEF CarefulSpec, KeepsPromise, Promise!Spec

(* A post while somebody waits in the queue wakes exactly one process      *)
(* (semaphore.c:158-161).                                                  *)
THEOREM PostsReachSleepers ==
  OneSemaphore /\ CarefulSpec => PostUnblocksOne
<1>1. ASSUME Careful,
             \E id \in SemIds : PostSem(id), waiters # <<>>
      PROVE  \E pid \in AsleepPids : AsleepPids' = AsleepPids \ {pid}
  <2>1. PostSem(TheId)
    BY <1>1 DEF Careful, OneSemaphore
  <2>2. /\ Head(waiters) \in SleepingPids(process_list)
        /\ SleepingPids(process_list') = SleepingPids(process_list) \ {Head(waiters)}
    BY <1>1, <2>1, PostingWakes DEF Careful
  <2> QED
    BY <2>2, AsleepAre, AsleepWillBe
<1>2. Careful
        => [(\E id \in SemIds : PostSem(id)) /\ waiters # <<>>
              => \E pid \in AsleepPids : AsleepPids' = AsleepPids \ {pid}]_allVars
  BY <1>1
<1> QED
  BY <1>2, CarefulRuns, PTL DEF PostUnblocksOne
=============================================================================
