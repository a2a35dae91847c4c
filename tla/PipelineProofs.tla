--------------------------- MODULE PipelineProofs ---------------------------
(***************************************************************************)
(* Proofs about the pipelines of the shell, for every size of the process  *)
(* table, of the ring and of the array of semaphores: the permits of a     *)
(* pipe match its ring, nobody sleeps without cause, no semaphore is lost, *)
(* and the bytes come out in order.                                        *)
(*                                                                         *)
(* One assumption is the kernel's own: the table of children has room for  *)
(* the two programs of a pipeline (MAX_CHILDREN_PROCESSES is 50).  With    *)
(* less the shell would not wait for both.                                 *)
(***************************************************************************)
EXTENDS Pipeline, KernelProofs, SequenceTheorems

RoomForTwo == MAX_CHILDREN_PROCESSES >= 2

(* The programs of the pipeline: every process but the shell and idle.     *)
ProgramsOf(pl) == LivePids(pl) \ {ShellPid, idle_pid}
Programs == ProgramsOf(process_list)

(* The shell and its children, as the process and child tables have them:  *)
(* while a program lives it has an entry that counts, so that a shell which *)
(* is READY and past its wait has no program left.                         *)
AllDead(ct) == \A e \in Entries : ct[e].state = DEAD

Family(pl, ct, at) ==
  /\ at \in {"prompt", "first", "second", "wait", "delete"}
  /\ \A e \in Entries : ct[e].parent_pid = ShellPid
  /\ pl[0].state \in {READY, PAUSED_BY_CHILD}
  /\ pl[0].state = PAUSED_BY_CHILD => at = "delete"
  /\ \A pid \in ProgramsOf(pl) :
       \E e \in Entries : ct[e].state = READY /\ ct[e].child_pid = pid
  /\ at \in {"prompt", "first"} => AllDead(ct)
  /\ at = "delete" /\ pl[0].state = READY => AllDead(ct)
  /\ at = "second" => \A e, f \in Entries :
                        ct[e].state = READY /\ ct[f].state = READY => e = f

(* The first program writes to the pipe, the second one reads from it.     *)
PipeId == 10
Writer == [input |-> STDIN, output |-> PipeId]
Reader == [input |-> PipeId, output |-> STDOUT]

Roles ==
  /\ io \in [Pids -> [input : Nat, output : Nat]]
  /\ \A pid \in {ShellPid, idle_pid} : io[pid] = [input |-> STDIN, output |-> STDOUT]
  /\ \A pid \in Programs : pid \in Pids /\ io[pid] \in {Writer, Reader}
  /\ \A p, q \in Programs : io[p] = io[q] => p = q
  /\ shell_at = "second" => \A pid \in Programs : io[pid] = Writer
  /\ shell_at # "prompt" => pipe_id = PipeId
  /\ pid_value <= MaxPid + 1

(* There is one pipe at most, in the first slot, and its two semaphores    *)
(* have the index that is their id.                                        *)
ThePipe == pipes[0]
Used == ThePipe.current_pipe_size
Readable == semaphores[ThePipe.read_sem_id].sem_val
Writable == semaphores[ThePipe.write_sem_id].sem_val

PipeInfo == [pipe_id : Nat, read_sem_id : Nat, write_sem_id : Nat,
             pipe_read_id : Ring, pipe_write_id : Ring,
             pipe_buffer : [Ring -> Bytes \cup {Nothing}],
             current_pipe_size : 0 .. PIPE_SIZE]

OnePipe ==
  /\ pipes \in [PipeSlots -> PipeInfo]
  /\ \A i \in PipeSlots : i # 0 \/ shell_at = "prompt" => pipes[i] = FreePipe
  /\ shell_at # "prompt" =>
       /\ ThePipe.pipe_id = PipeId
       /\ ThePipe.read_sem_id \in SemSlots \ {0}
       /\ ThePipe.write_sem_id \in SemSlots \ {0}
       /\ ThePipe.read_sem_id # ThePipe.write_sem_id
       /\ semaphores[ThePipe.read_sem_id].sem_id = ThePipe.read_sem_id
       /\ semaphores[ThePipe.write_sem_id].sem_id = ThePipe.write_sem_id
       /\ ThePipe.pipe_write_id = (ThePipe.pipe_read_id + Used) % PIPE_SIZE

IdIsIndex ==
  /\ semaphores \in [SemSlots -> SemInfo]
  /\ \A i \in SemSlots : semaphores[i].sem_id \in {EMPTY_SEM, i}
  /\ shell_at # "prompt" => buffer = "live"
  /\ refused \in Nat
  /\ current_sem_amount = 2 * ((IF shell_at = "prompt" THEN 0 ELSE 1) + refused)

(* A call that its process cannot go on with at once is a write that has   *)
(* passed its wait: it sleeps, or it was woken and holds a permit.         *)
CallInfo == [op : {"none", "read", "write"}, pos : {0}, left : Nat, waited : BOOLEAN]

Calls ==
  /\ call \in [Pids -> CallInfo]
  /\ \A pid \in Pids : InCall(pid) =>
       /\ pid \in Programs
       /\ io[pid] = IF call[pid].op = "write" THEN Writer ELSE Reader
       /\ pid # CurrentPid => call[pid].op = "write" /\ call[pid].waited
       /\ call[pid].op = "read" => Used > 0
  /\ \A pid \in Pids : ~InCall(pid) => call[pid] = NoCall

(* The queue holds the writer while it sleeps, and may go on holding it    *)
(* when Ctrl-C has killed it there.                                        *)
Queue ==
  /\ waiters # <<>> => \E pid \in Pids \ {ShellPid, idle_pid} :
                          waiters = <<pid>> /\ pid < pid_value
  /\ \A pid \in SleepingPids(process_list) :
       /\ pid \in Programs /\ call[pid].op = "write" /\ call[pid].waited
       /\ waiters = <<pid>> /\ Used = PIPE_SIZE
  /\ \A pid \in Programs : io[pid] = Writer /\ waiters # <<>> =>
       waiters = <<pid>> /\ pid \in SleepingPids(process_list)
  /\ \A pid \in Programs : waiters = <<pid>> => io[pid] = Writer
  /\ shell_at = "first" => waiters = <<>>

(* The permits.                                                            *)
HoldsRead(pid) == call[pid].op = "read" /\ call[pid].waited
HoldsWrite(pid) ==
  call[pid].op = "write" /\ call[pid].waited /\ pid \notin SleepingPids(process_list)

One(b) == IF b THEN 1 ELSE 0

PermitsBalance ==
  /\ shell_at = "first" => Writable = PIPE_SIZE /\ Used = 0
  /\ shell_at # "prompt" =>
    /\ Readable + One(\E pid \in Pids : HoldsRead(pid)) = Used
    /\ \A w \in Programs : io[w] = Writer =>
         Writable + One(HoldsWrite(w)) + Used = PIPE_SIZE

PipeInv ==
  /\ IInv
  /\ QuietTable(process_list)
  /\ Family(process_list, children_processes, shell_at)
  /\ Roles /\ OnePipe /\ IdIsIndex /\ Calls /\ Queue /\ PermitsBalance

-----------------------------------------------------------------------------
(* The tables.                                                             *)

(* A switch changes nothing that the invariant sees.                       *)
LEMMA SwitchKeepsFamily ==
  ASSUME NEW pl, NEW n, NEW pv, NEW r \in Nat, NEW ct, NEW at, SoundTable(pl, n, pv),
         current_process_idx \in Slots, ForceTimerTick(pl, n, r),
         QuietTable(pl), Family(pl, ct, at)
  PROVE  /\ QuietTable(process_list') /\ Family(process_list', ct, at)
         /\ LivePids(process_list') = LivePids(pl)
         /\ SleepingPids(process_list') = SleepingPids(pl)
<1>1. SameSleepers(pl, process_list') /\ QuietTable(process_list')
  BY SwitchIsQuiet
<1>2. SleepingPids(process_list') = SleepingPids(pl)
  BY <1>1, SameSleepersSamePids
<1>3. \A x : x = Irq00(pl, n, current_process_idx, r) => SameButIdle(pl, x.list)
  BY SwitchToReady
<1>4. SameButIdle(pl, process_list')
  BY <1>3 DEF ForceTimerTick
<1>5. 1 \in Live(pl) /\ 1 \in Slots /\ 0 \in Slots
  BY IdleSlot, SizesAssumption DEF Slots
<1>6. Live(process_list') = Live(pl)
  BY <1>4, <1>5 DEF SameButIdle, Live, DEAD, READY, PAUSED
<1>7. \A i \in Slots : process_list'[i].pid = pl[i].pid
  BY <1>4 DEF SameButIdle
<1>8. LivePids(process_list') = LivePids(pl)
  BY <1>6, <1>7 DEF LivePids, PidsOf, Live
<1>9. process_list'[0] = pl[0]
  BY <1>4, <1>5 DEF SameButIdle
<1>10. Family(process_list', ct, at)
  BY <1>8, <1>9 DEF Family, ProgramsOf
<1> QED BY <1>1, <1>2, <1>8, <1>10

(* Who is mortal is a program.                                             *)
LEMMA MortalPrograms ==
  ASSUME NEW pl, NEW n, NEW pv, SoundTable(pl, n, pv), NEW S \in SUBSET Mortal(pl)
  PROVE  /\ S \in SUBSET Live(pl) /\ 0 \notin S /\ 1 \notin S
         /\ PidsOf(pl, S) \subseteq ProgramsOf(pl)
         /\ 0 \in Live(pl) /\ pl[0].pid = ShellPid
<1>1. S \in SUBSET Live(pl)
  BY DEF Mortal
<1>2. 0 \notin S /\ 1 \notin S
  BY Zenon DEF Mortal, SoundTable
<1>3. \A i \in S : pl[i].pid > 1 /\ pl[i].pid \in Nat
  BY <1>1, <1>2 DEF SoundTable, Live, Process
<1>4. PidsOf(pl, S) \subseteq ProgramsOf(pl)
  BY <1>1, <1>3 DEF PidsOf, ProgramsOf, LivePids, ShellPid, idle_pid
<1>5. 0 \in Live(pl) /\ pl[0].pid = ShellPid
  BY DEF SoundTable, ShellPid
<1> QED BY <1>1, <1>2, <1>4, <1>5

(* The deaths of a set of programs, whether or not they end the wait of    *)
(* the shell: they wake it only when no program is left.                   *)
LEMMA KillKeepsFamily ==
  ASSUME NEW pl, NEW n, NEW pv, NEW ct, NEW at, NEW S \in SUBSET Mortal(pl),
         SoundTable(pl, n, pv), SoundChildren(pl, ct, pv), QuietTable(pl),
         Family(pl, ct, at),
         NEW after, after = Destroy(pl, ct, S)
  PROVE  /\ QuietTable(after.list) /\ Family(after.list, after.table, at)
         /\ LivePids(after.list) = LivePids(pl) \ PidsOf(pl, S)
         /\ SleepingPids(after.list) = SleepingPids(pl) \ PidsOf(pl, S)
<1> DEFINE pids == PidsOf(pl, S)
           marked == BuryEntries(ct, pids)
           finished == FinishedParents(ct, pids)
<1>1. /\ S \in SUBSET Live(pl) /\ 0 \notin S /\ 1 \notin S
      /\ pids \subseteq ProgramsOf(pl)
      /\ 0 \in Live(pl) /\ pl[0].pid = ShellPid
  BY MortalPrograms
<1>2. /\ pl \in [Slots -> Process]
      /\ \A i, j \in Live(pl) : pl[i].pid = pl[j].pid => i = j
      /\ 1 \in Live(pl) /\ pl[1].pid = 1
  BY DEF SoundTable
<1>3. finished \subseteq {ShellPid}
  BY DEF FinishedParents, Family
<1>4. after.list = [i \in Slots |->
                     IF i \in S THEN FreeSlot
                     ELSE IF pl[i].state # DEAD /\ pl[i].pid \in finished
                       THEN [pl[i] EXCEPT !.state = READY]
                     ELSE pl[i]]
  BY DEF Destroy
<1>5. after.table = [e \in Entries |-> IF ct[e].parent_pid \in finished
                                         THEN FreeEntry ELSE marked[e]]
  BY DEF Destroy
<1>6. marked = [e \in Entries |-> IF ct[e].state = READY /\ ct[e].child_pid \in pids
                                    THEN [ct[e] EXCEPT !.state = DEAD] ELSE ct[e]]
  BY DEF BuryEntries
<1>7. ct \in [Entries -> ChildInfo]
  BY DEF SoundChildren
<1>8. \A e \in Entries : /\ marked[e].parent_pid = ShellPid
                         /\ marked[e].state = IF ct[e].state = READY /\ ct[e].child_pid \in pids
                                                THEN DEAD ELSE ct[e].state
                         /\ marked[e].child_pid = ct[e].child_pid
  BY <1>6, <1>7 DEF ChildInfo, Family
<1>9. \A i \in Slots : pl[i].pid = ShellPid /\ i \in Live(pl) => i = 0
  BY <1>1, <1>2
<1>10. /\ \A i \in Slots \ S : i # 0 => after.list[i] = pl[i]
       /\ after.list[0] = IF ShellPid \in finished THEN [pl[0] EXCEPT !.state = READY] ELSE pl[0]
       /\ \A i \in S : after.list[i] = FreeSlot
       /\ 0 \in Slots /\ 1 \in Slots
  <2>1. 0 \in Slots /\ 1 \in Slots
    BY SizesAssumption DEF Slots
  <2>2. \A i \in Slots \ S : i # 0 => after.list[i] = pl[i]
    BY <1>3, <1>4, <1>9 DEF Live
  <2>3. after.list[0] = IF ShellPid \in finished THEN [pl[0] EXCEPT !.state = READY] ELSE pl[0]
    <3>1. pl[0].state # DEAD /\ 0 \notin S
      BY <1>1 DEF Live
    <3> HIDE DEF finished
    <3> QED BY <1>1, <1>4, <2>1, <3>1
  <2>4. \A i \in S : i \in Slots
    BY <1>1 DEF Live
  <2> QED BY <1>4, <2>1, <2>2, <2>3, <2>4
<1> HIDE DEF finished, marked, pids
<1>11. /\ after.list[0].pid = ShellPid
       /\ after.list[0].state = IF ShellPid \in finished THEN READY ELSE pl[0].state
       /\ after.list[0].state # DEAD /\ after.list[0].state # PAUSED_BY_SEM
       /\ pl[0].state # PAUSED_BY_SEM
  BY <1>1, <1>2, <1>10 DEF Process, Family, READY, DEAD, PAUSED_BY_CHILD, PAUSED_BY_SEM
<1> DEFINE st(i) == IF i \in S THEN DEAD ELSE IF i = 0 THEN after.list[0].state
                    ELSE pl[i].state
<1>11a. \A i \in Slots : after.list[i].state = st(i)
  <2>1. FreeSlot.state = DEAD
    BY DEF FreeSlot
  <2>2. ASSUME NEW i \in Slots PROVE after.list[i].state = st(i)
    <3>1. CASE i \in S
      BY <1>10, <2>1, <3>1
    <3>2. CASE i \notin S /\ i # 0
      BY <1>10, <3>2
    <3>3. CASE i = 0
      BY <1>1, <3>3
    <3> QED BY <3>1, <3>2, <3>3
  <2> QED BY <2>2
<1>12. Live(after.list) = Live(pl) \ S
  BY <1>1, <1>11, <1>11a DEF Live
<1>13. \A i \in Live(pl) \ S : after.list[i].pid = pl[i].pid
  BY <1>1, <1>10, <1>11 DEF Live
<1>14. Sleeping(after.list) = Sleeping(pl) \ S
  BY <1>1, <1>11, <1>11a DEF Sleeping, DEAD, PAUSED_BY_SEM
<1>15. Sleeping(pl) \subseteq Live(pl)
  BY DEF Sleeping, Live, DEAD, PAUSED_BY_SEM
<1>16. \A T \in SUBSET Live(pl) : PidsOf(after.list, T \ S) = PidsOf(pl, T) \ pids
  BY <1>1, <1>2, <1>13 DEF PidsOf, pids
<1>17. /\ LivePids(after.list) = LivePids(pl) \ pids
       /\ SleepingPids(after.list) = SleepingPids(pl) \ pids
  BY <1>12, <1>14, <1>15, <1>16 DEF LivePids, SleepingPids
<1>18. QuietTable(after.list)
  <2>1. after.list[1].state = pl[1].state
    BY <1>1, <1>10
  <2>2. \A i \in Live(after.list) \ {1} : after.list[i].pid <= MaxPid
    BY <1>12, <1>13 DEF QuietTable
  <2> QED BY <2>1, <2>2 DEF QuietTable
<1>19. ProgramsOf(after.list) = ProgramsOf(pl) \ pids
  BY <1>17 DEF ProgramsOf
<1>20. \A pid \in ProgramsOf(after.list) :
         \E e \in Entries : marked[e].state = READY /\ marked[e].child_pid = pid
  BY <1>8, <1>19 DEF Family
<1>21. CASE ShellPid \in finished
  <2>1. \A e \in Entries : marked[e].state # READY
    BY <1>8, <1>21 DEF finished, marked, FinishedParents, AllChildrenFinished
  <2>2. ProgramsOf(after.list) = {}
    BY <1>20, <2>1
  <2>3. \A e \in Entries : after.table[e] = FreeEntry
    BY <1>5, <1>21 DEF Family
  <2>4. \A e \in Entries : after.table[e].state = DEAD /\ after.table[e].parent_pid = ShellPid
    BY <2>3 DEF FreeEntry, ShellPid
  <2>5. after.list[0].state = READY
    BY <1>11, <1>21
  <2> QED
    BY <1>17, <1>18, <2>2, <2>4, <2>5
    DEF Family, AllDead, READY, PAUSED_BY_CHILD, DEAD, pids
<1>22. CASE ShellPid \notin finished
  <2>1. \A e \in Entries : after.table[e] = marked[e]
    BY <1>5, <1>22 DEF Family
  <2>2. after.list[0].state = pl[0].state
    BY <1>11, <1>22
  <2>3. \A e \in Entries : /\ after.table[e].parent_pid = ShellPid
                           /\ after.table[e].state = READY => ct[e].state = READY
                           /\ ct[e].state = DEAD => after.table[e].state = DEAD
    BY <1>8, <2>1 DEF DEAD, READY
  <2>4. \A pid \in ProgramsOf(after.list) :
          \E e \in Entries : after.table[e].state = READY /\ after.table[e].child_pid = pid
    BY <1>20, <2>1
  <2>5. Family(after.list, after.table, at)
    BY <2>2, <2>3, <2>4 DEF Family, AllDead
  <2> QED BY <1>17, <1>18, <2>5 DEF pids
<1> QED BY <1>21, <1>22
(* A new process: one program more.                                        *)
LEMMA SpawnAddsProgram ==
  ASSUME IInv, QuietTable(process_list), NEW priority \in Priorities, Spawn(priority)
  PROVE  /\ QuietTable(process_list')
         /\ LivePids(process_list') = LivePids(process_list) \cup {pid_value}
         /\ SleepingPids(process_list') = SleepingPids(process_list)
         /\ process_list'[0] = process_list[0]
         /\ pid_value \in Nat /\ pid_value > 1 /\ pid_value < MaxPid
         /\ pid_value \notin LivePids(process_list)
<1> DEFINE slot == Least(Slots \ Live(process_list))
           new == [pid |-> pid_value, state |-> READY,
                   assigned_ticks |-> CalculateTicks(priority), immortal |-> FALSE]
<1>1. /\ process_list \in [Slots -> Process]
      /\ pid_value \in Nat /\ pid_value > 1
      /\ \A i \in Live(process_list) : process_list[i].pid < pid_value
      /\ {0, 1} \subseteq Live(process_list)
  BY DEF IInv, SoundTable
<1>2. pid_value < MaxPid
  BY DEF Spawn
<1>3. pid_value \notin LivePids(process_list)
  <2>1. \A i \in Live(process_list) : process_list[i].pid \in Nat
    BY <1>1 DEF Live, Process
  <2> QED BY <1>1, <2>1 DEF LivePids, PidsOf
<1>4. slot \in Slots \ Live(process_list)
  <2>1. Slots \ Live(process_list) # {}
    <3>1. SUFFICES ASSUME Live(process_list) = Slots PROVE FALSE
      BY DEF Live
    <3> QED BY <3>1, LiveFinite DEF Spawn, IInv, SoundTable
  <2> QED BY <2>1, LeastIn, Slots \ Live(process_list) \in SUBSET Nat DEF Slots
<1>5. process_list' = [process_list EXCEPT ![slot] = new]
  BY DEF Spawn
<1>6. /\ \A i \in Slots \ {slot} : process_list'[i] = process_list[i]
      /\ process_list'[slot] = new
  BY <1>1, <1>4, <1>5
<1>7. new.pid = pid_value /\ new.state = READY
  OBVIOUS
<1> HIDE DEF slot, new
<1>8. Live(process_list') = Live(process_list) \cup {slot} /\ slot \notin {0, 1}
  BY <1>1, <1>4, <1>6, <1>7 DEF Live, READY, DEAD
<1>9. Sleeping(process_list') = Sleeping(process_list) /\ slot \notin Sleeping(process_list)
  <2>1. slot \notin Sleeping(process_list)
    BY <1>4 DEF Sleeping, Live, DEAD, PAUSED_BY_SEM
  <2> QED BY <1>6, <1>7, <2>1 DEF Sleeping, READY, PAUSED_BY_SEM
<1>10. \A i \in Live(process_list) : process_list'[i] = process_list[i]
  BY <1>4, <1>6 DEF Live
<1>11. LivePids(process_list') = LivePids(process_list) \cup {pid_value}
  BY <1>6, <1>7, <1>8, <1>10 DEF LivePids, PidsOf
<1>12. SleepingPids(process_list') = SleepingPids(process_list)
  BY <1>6, <1>9 DEF SleepingPids, PidsOf, Sleeping
<1>13. QuietTable(process_list')
  <2>1. process_list'[1] = process_list[1]
    BY <1>1, <1>10
  <2>2. \A i \in Live(process_list') \ {1} : process_list'[i].pid <= MaxPid
    <3>1. new.pid <= MaxPid
      BY <1>1, <1>2, <1>7, SizesAssumption
    <3> QED BY <1>6, <1>8, <1>10, <3>1 DEF QuietTable
  <2> QED BY <2>1, <2>2 DEF QuietTable
<1>14. process_list'[0] = process_list[0]
  BY <1>1, <1>10
<1> QED BY <1>1, <1>2, <1>3, <1>11, <1>12, <1>13, <1>14

(* The shell records what it created, be it a program or an error.         *)
LEMMA EntryKeepsFamily ==
  ASSUME RoomForTwo, NEW pl, NEW ql, NEW ct \in [Entries -> ChildInfo],
         NEW child \in Nat \cup FailureCodes, NEW at, NEW next,
         \/ at = "first" /\ next = "second"
         \/ at = "second" /\ next = "wait",
         Family(pl, ct, at), ql[0] = pl[0],
         ProgramsOf(ql) \subseteq ProgramsOf(pl) \cup {child}
  PROVE  Family(ql, AddChild(ct, ShellPid, child), next)
<1> DEFINE free == FreeEntries(ct)
           slot == Least(free)
           entry == [parent_pid |-> ShellPid, child_pid |-> child, state |-> READY]
           dt == AddChild(ct, ShellPid, child)
<1>1. 0 \in Entries /\ 1 \in Entries
  BY SizesAssumption DEF RoomForTwo, Entries
<1>2. \A e \in Entries : ct[e].state \in {DEAD, READY}
  BY DEF ChildInfo
<1>3. free # {}
  <2>1. ct[0].state = DEAD \/ ct[1].state = DEAD
    BY <1>1, <1>2 DEF Family, AllDead
  <2> QED BY <1>1, <2>1 DEF FreeEntries
<1>4. slot \in free
  BY <1>3, LeastIn, free \in SUBSET Nat DEF FreeEntries, Entries
<1>5. slot \in Entries /\ ct[slot].state = DEAD
  BY <1>4 DEF FreeEntries
<1>6. dt = [ct EXCEPT ![slot] = entry]
  BY <1>3 DEF AddChild
<1>7. entry.parent_pid = ShellPid /\ entry.child_pid = child /\ entry.state = READY
  OBVIOUS
<1> HIDE DEF slot, entry, dt, free
<1>8. dt[slot] = entry /\ \A e \in Entries \ {slot} : dt[e] = ct[e]
  BY <1>5, <1>6
<1>9. \A e \in Entries : dt[e].parent_pid = ShellPid
  BY <1>7, <1>8 DEF Family
<1>10. \A pid \in ProgramsOf(ql) : \E e \in Entries : dt[e].state = READY /\ dt[e].child_pid = pid
  <2>1. ASSUME NEW pid \in ProgramsOf(pl)
        PROVE  \E e \in Entries : dt[e].state = READY /\ dt[e].child_pid = pid
    <3>1. PICK e \in Entries : ct[e].state = READY /\ ct[e].child_pid = pid
      BY DEF Family
    <3>2. e # slot
      BY <1>5, <3>1 DEF READY, DEAD
    <3> QED BY <1>8, <3>1, <3>2
  <2> QED BY <1>5, <1>7, <1>8, <2>1
<1>11. next = "second" => \A e, f \in Entries : dt[e].state = READY /\ dt[f].state = READY => e = f
  <2>1. next = "second" => \A e \in Entries \ {slot} : dt[e].state = DEAD
    BY <1>8 DEF Family, AllDead
  <2> QED BY <2>1 DEF READY, DEAD
<1> QED
  BY <1>9, <1>10, <1>11 DEF Family, dt

(* The process that owns the CPU lives, and it does not sleep.             *)
LEMMA OwnerLives ==
  ASSUME IInv
  PROVE  /\ current_process_idx \in Live(process_list)
         /\ CurrentPid \in LivePids(process_list)
         /\ CurrentPid \notin SleepingPids(process_list)
         /\ CurrentPid = ShellPid => current_process_idx = 0
<1>1. current_process_idx \in Live(process_list)
  BY DEF IInv, Live, READY, DEAD
<1>2. \A i, j \in Live(process_list) : process_list[i].pid = process_list[j].pid => i = j
  BY DEF IInv, SoundTable
<1>3. Sleeping(process_list) \subseteq Live(process_list)
  BY DEF Sleeping, Live, DEAD, PAUSED_BY_SEM
<1>4. process_list[current_process_idx].state # PAUSED_BY_SEM
  BY DEF IInv, READY, PAUSED_BY_SEM
<1>5. CurrentPid \notin SleepingPids(process_list)
  BY <1>1, <1>2, <1>3, <1>4 DEF SleepingPids, PidsOf, CurrentPid, Sleeping
<1>6. 0 \in Live(process_list) /\ process_list[0].pid = ShellPid
  BY DEF IInv, SoundTable, ShellPid
<1> QED BY <1>1, <1>2, <1>5, <1>6 DEF LivePids, PidsOf, CurrentPid

(* The shell goes to sleep in wait_for_children.                           *)
LEMMA WaitKeepsFamily ==
  ASSUME IInv, QuietTable(process_list), CurrentPid = ShellPid, WaitForChildren,
         Family(process_list, children_processes, "wait")
  PROVE  /\ QuietTable(process_list')
         /\ Family(process_list', children_processes', "delete")
         /\ LivePids(process_list') = LivePids(process_list)
         /\ SleepingPids(process_list') = SleepingPids(process_list)
<1> DEFINE pl == WithState(process_list, 0, PAUSED_BY_CHILD)
<1>1. /\ 0 \in Live(process_list) /\ process_list[0].pid = ShellPid
      /\ process_list \in [Slots -> Process] /\ 0 \in Slots
      /\ SoundTable(process_list, dim, pid_value)
  BY DEF IInv, SoundTable, ShellPid, Live
<1>2. ChangeProcessState(process_list, CurrentPid, PAUSED_BY_CHILD) = pl
  <2>1. ChangeProcessState(process_list, process_list[0].pid, PAUSED_BY_CHILD) = pl
    BY <1>1, ChangeStateOfLive
  <2> QED BY <1>1, <2>1
<1>3. /\ ForceTimerTick(pl, dim, remaining_ticks)
      /\ children_processes' = children_processes
      /\ current_process_idx \in Slots /\ remaining_ticks \in Nat
  BY <1>2 DEF WaitForChildren, IInv
<1>4. /\ \A i \in Slots \ {0} : pl[i] = process_list[i]
      /\ pl[0] = [process_list[0] EXCEPT !.state = PAUSED_BY_CHILD]
      /\ pl \in [Slots -> Process]
  BY <1>1 DEF WithState, Process, States
<1>5. pl[0].state = PAUSED_BY_CHILD /\ pl[0].pid = ShellPid
      /\ pl[0].immortal = process_list[0].immortal
  BY <1>1, <1>4 DEF Process
<1> HIDE DEF pl
<1>6. Live(pl) = Live(process_list)
  <2>1. process_list[0].state # DEAD /\ pl[0].state # DEAD
    BY <1>1, <1>5 DEF Live, DEAD, PAUSED_BY_CHILD
  <2>2. \A i \in Slots : pl[i].state # DEAD <=> process_list[i].state # DEAD
    BY <1>4, <2>1
  <2> QED BY <2>2 DEF Live
<1>7. \A i \in Slots : pl[i].pid = process_list[i].pid /\ pl[i].immortal = process_list[i].immortal
  BY <1>1, <1>4, <1>5
<1>8. SoundTable(pl, dim, pid_value)
  BY <1>1, <1>4, <1>6, <1>7, SameProcessesSound DEF Live
<1>9. LivePids(pl) = LivePids(process_list)
  BY <1>6, <1>7 DEF LivePids, PidsOf, Live
<1>10. SleepingPids(pl) = SleepingPids(process_list)
  <2>1. process_list[0].state # PAUSED_BY_SEM
    BY DEF Family, READY, PAUSED_BY_CHILD, PAUSED_BY_SEM
  <2>2. pl[0].state # PAUSED_BY_SEM
    BY <1>5 DEF PAUSED_BY_CHILD, PAUSED_BY_SEM
  <2>3. SameSleepers(process_list, pl)
    BY <1>4, <2>1, <2>2 DEF SameSleepers
  <2> QED BY <2>3, SameSleepersSamePids
<1>11. QuietTable(pl)
  <2>1. 1 \in Slots
    BY SizesAssumption DEF Slots
  <2> QED BY <1>4, <1>6, <1>7, <2>1 DEF QuietTable, Live
<1>12. Family(pl, children_processes, "delete")
  BY <1>5, <1>9 DEF Family, ProgramsOf, READY, PAUSED_BY_CHILD
<1> QED
  BY <1>3, <1>8, <1>9, <1>10, <1>11, <1>12, SwitchKeepsFamily
(* The timer, the end of a program, and Ctrl-C: some programs die.         *)
LEMMA KernelKeepsFamily ==
  ASSUME IInv, QuietTable(process_list), NEW at,
         Family(process_list, children_processes, at),
         TimerTick \/ EndProcess \/ KillAllProcesses
  PROVE  \E D \in SUBSET Programs :
           /\ QuietTable(process_list')
           /\ Family(process_list', children_processes', at)
           /\ LivePids(process_list') = LivePids(process_list) \ D
           /\ SleepingPids(process_list') = SleepingPids(process_list) \ D
           /\ pid_value' = pid_value
<1>1. /\ SoundTable(process_list, dim, pid_value)
      /\ SoundChildren(process_list, children_processes, pid_value)
      /\ SoundSleepers(process_list, children_processes)
      /\ current_process_idx \in Slots /\ remaining_ticks \in Nat
  BY DEF IInv
<1>2. CASE TimerTick
  <2>1. /\ ForceTimerTick(process_list, dim, remaining_ticks)
        /\ UNCHANGED <<pid_value, children_processes>>
    BY <1>2 DEF TimerTick
  <2>2. /\ QuietTable(process_list') /\ Family(process_list', children_processes, at)
        /\ LivePids(process_list') = LivePids(process_list)
        /\ SleepingPids(process_list') = SleepingPids(process_list)
    BY <1>1, <2>1, SwitchKeepsFamily
  <2> WITNESS {} \in SUBSET Programs
  <2> QED BY <2>1, <2>2
<1>3. ASSUME NEW S \in SUBSET Mortal(process_list), DestroyAndSwitch(S)
      PROVE  \E D \in SUBSET Programs :
               /\ QuietTable(process_list')
               /\ Family(process_list', children_processes', at)
               /\ LivePids(process_list') = LivePids(process_list) \ D
               /\ SleepingPids(process_list') = SleepingPids(process_list) \ D
               /\ pid_value' = pid_value
  <2> DEFINE after == Destroy(process_list, children_processes, S)
             left == dim - Cardinality(S)
             D == PidsOf(process_list, S)
  <2>1. /\ IF current_process_idx \in S
             THEN ForceTimerTick(after.list, left, 0)
             ELSE process_list' = after.list
        /\ children_processes' = after.table /\ pid_value' = pid_value
    BY <1>3 DEF DestroyAndSwitch
  <2>2. \A x : x = after =>
          /\ SoundTable(x.list, left, pid_value)
          /\ QuietTable(x.list) /\ Family(x.list, x.table, at)
          /\ LivePids(x.list) = LivePids(process_list) \ D
          /\ SleepingPids(x.list) = SleepingPids(process_list) \ D
    BY <1>1, DestroySound, KillKeepsFamily
  <2>3. D \in SUBSET Programs
    BY <1>1, MortalPrograms DEF Programs
  <2> HIDE DEF after, left, D
  <2>4. CASE current_process_idx \in S
    <3>1. ForceTimerTick(after.list, left, 0) /\ 0 \in Nat
      BY <2>1, <2>4
    <3>2. /\ QuietTable(process_list') /\ Family(process_list', after.table, at)
          /\ LivePids(process_list') = LivePids(after.list)
          /\ SleepingPids(process_list') = SleepingPids(after.list)
      BY <1>1, <2>2, <3>1, SwitchKeepsFamily
    <3> QED BY <2>1, <2>2, <2>3, <3>2
  <2>5. CASE current_process_idx \notin S
    BY <2>1, <2>2, <2>3, <2>5
  <2> QED BY <2>4, <2>5
<1>4. CASE EndProcess
  BY <1>3, <1>4 DEF EndProcess
<1>5. CASE KillAllProcesses
  BY <1>3, <1>5 DEF KillAllProcesses
<1> QED BY <1>2, <1>4, <1>5

-----------------------------------------------------------------------------
(* The pipe and the semaphores.                                            *)
LEMMA BootPids ==
  ASSUME Roles
  PROVE  /\ ShellPid \in Pids /\ idle_pid \in Pids
         /\ LivePids(process_list) \subseteq Pids
         /\ STDIN # PipeId /\ STDOUT # PipeId /\ STDIN # STDOUT /\ Writer # Reader
<1>1. ShellPid \in Pids /\ idle_pid \in Pids
  BY SizesAssumption, PipesAssumption DEF Pids, ShellPid, idle_pid
<1>2. LivePids(process_list) \subseteq Programs \cup {ShellPid, idle_pid}
  BY DEF Programs, ProgramsOf
<1>3. STDIN # PipeId /\ STDOUT # PipeId /\ STDIN # STDOUT
  BY DEF STDIN, STDOUT, PipeId
<1>4. Writer.input = STDIN /\ Reader.input = PipeId
  BY DEF Writer, Reader
<1> QED BY <1>1, <1>2, <1>3, <1>4 DEF Roles

(* Which slots of the array pipes a search finds.                          *)
LEMMA Found ==
  ASSUME OnePipe
  PROVE  /\ 0 \in PipeSlots
         /\ shell_at = "prompt" => /\ OpenPipes = {} /\ Least(FindPipe(0)) = 0
                                   /\ FindPipe(0) # {}
                                   /\ FindPipe(PipeId) = {}
         /\ shell_at # "prompt" => /\ OpenPipes = {0} /\ FindPipe(PipeId) = {0}
                                   /\ FindPipe(STDOUT) = {}
<1>1. 0 \in PipeSlots /\ PipeSlots \subseteq Nat
  BY PipesAssumption DEF PipeSlots
<1>2. FreePipe.pipe_id = 0
  BY DEF FreePipe
<1>3. CASE shell_at = "prompt"
  <2>1. \A i \in PipeSlots : pipes[i].pipe_id = 0
    BY <1>2, <1>3 DEF OnePipe
  <2>2. FindPipe(0) = PipeSlots
    BY <2>1 DEF FindPipe
  <2>3. Least(PipeSlots) = 0
    <3>1. Least(PipeSlots) \in PipeSlots /\ \A j \in PipeSlots : Least(PipeSlots) <= j
      BY <1>1, LeastIn
    <3> QED BY <1>1, <3>1 DEF PipeSlots
  <2> QED BY <1>1, <1>3, <2>1, <2>2, <2>3 DEF OpenPipes, FindPipe, PipeId
<1>4. CASE shell_at # "prompt"
  <2>1. /\ pipes[0].pipe_id = 10
        /\ \A i \in PipeSlots : i # 0 => pipes[i].pipe_id = 0
    BY <1>2, <1>4 DEF OnePipe, ThePipe, PipeId
  <2>2. OpenPipes = {0}
    <3>1. \A i \in PipeSlots : pipes[i].pipe_id # 0 <=> i = 0
      BY <2>1
    <3> QED BY <1>1, <3>1, Zenon DEF OpenPipes
  <2>3. FindPipe(PipeId) = {0}
    <3>1. \A i \in PipeSlots : pipes[i].pipe_id = PipeId <=> i = 0
      BY <2>1 DEF PipeId
    <3> QED BY <1>1, <3>1, Zenon DEF FindPipe
  <2>4. FindPipe(STDOUT) = {}
    BY <2>1 DEF FindPipe, PipeId, STDOUT
  <2> QED BY <1>1, <1>4, <2>2, <2>3, <2>4
<1> QED BY <1>1, <1>3, <1>4

(* A semaphore that exists is found at the index that is its id.           *)
LEMMA FindSemIs ==
  ASSUME IdIsIndex, NEW id \in SemSlots \ {0}, semaphores[id].sem_id = id
  PROVE  FindSem(id) = id
<1>1. Holding(id) = {id}
  BY DEF Holding, IdIsIndex, EMPTY_SEM
<1>2. {id} \in SUBSET Nat
  BY SemaphoresAssumption DEF SemSlots
<1>3. Least({id}) \in {id}
  BY <1>2, LeastIn
<1> QED BY <1>1, <1>3 DEF FindSem

(* The two ids of create_pipe are new, and indices of the array.           *)
LEMMA TwoSems ==
  ASSUME IdIsIndex, CreateTwoSems
  PROVE  /\ ReadSemId \in SemSlots \ {0} /\ WriteSemId \in SemSlots \ {0}
         /\ ReadSemId # WriteSemId
         /\ semaphores' \in [SemSlots -> SemInfo]
         /\ \A i \in SemSlots : semaphores'[i].sem_id \in {EMPTY_SEM, i}
         /\ semaphores'[ReadSemId] = [sem_id |-> ReadSemId, sem_val |-> 0]
         /\ semaphores'[WriteSemId] = [sem_id |-> WriteSemId, sem_val |-> PIPE_SIZE]
         /\ waiters' = <<>> /\ buffer' = "live"
         /\ current_sem_amount' = current_sem_amount + 2
<1> DEFINE ids == FirstSemId .. FirstSemId + MAX_SEM
           last == FirstSemId + MAX_SEM
           R == {id \in ids : ~IsOpen(id)}
           W == {id \in ids : id # ReadSemId /\ ~IsOpen(id)}
<1>1. /\ last \in ids /\ ids \subseteq Nat \ {0}
      /\ \A i \in SemSlots : i \in Nat /\ i < last
  BY SemaphoresAssumption DEF SemSlots
<1>2. ~IsOpen(last)
  BY <1>1 DEF IsOpen, Holding, IdIsIndex, EMPTY_SEM
<1>3. current_sem_amount + 2 <= MAX_SEM /\ ReadSemId \in SemSlots /\ WriteSemId \in SemSlots
  BY DEF CreateTwoSems
<1>4. current_sem_amount # MAX_SEM
  BY <1>3, SemaphoresAssumption DEF IdIsIndex
<1>5. ReadSemId = Least(R)
  BY <1>4 DEF ReadSemId, FreeSemId
<1>6. ReadSemId \in R
  BY <1>1, <1>2, <1>5, LeastIn
<1>7. WriteSemId = Least(W)
  BY DEF WriteSemId
<1>8. last \in W
  BY <1>1, <1>2, <1>3
<1>9. WriteSemId \in W
  <2>1. W \in SUBSET Nat /\ W # {}
    BY <1>1, <1>8
  <2> HIDE DEF W
  <2> QED BY <1>7, <2>1, LeastIn
<1>10. semaphores' = [semaphores EXCEPT
         ![ReadSemId] = [sem_id |-> ReadSemId, sem_val |-> 0],
         ![WriteSemId] = [sem_id |-> WriteSemId, sem_val |-> PIPE_SIZE]]
  BY DEF CreateTwoSems
<1>11. ReadSemId \in Nat \ {0} /\ WriteSemId \in Nat \ {0} /\ ReadSemId # WriteSemId
  BY <1>1, <1>6, <1>9
<1>12. PIPE_SIZE \in Nat
  BY PipesAssumption
<1> HIDE DEF R, W, ids, last
<1>13. semaphores \in [SemSlots -> SemInfo]
       /\ \A i \in SemSlots : semaphores[i].sem_id \in {EMPTY_SEM, i}
  BY DEF IdIsIndex
<1>14. /\ semaphores'[ReadSemId] = [sem_id |-> ReadSemId, sem_val |-> 0]
       /\ semaphores'[WriteSemId] = [sem_id |-> WriteSemId, sem_val |-> PIPE_SIZE]
       /\ \A i \in SemSlots : i # ReadSemId /\ i # WriteSemId => semaphores'[i] = semaphores[i]
       /\ semaphores' \in [SemSlots -> SemInfo]
  BY <1>3, <1>10, <1>11, <1>12, <1>13 DEF SemInfo
<1>15. \A i \in SemSlots : semaphores'[i].sem_id \in {EMPTY_SEM, i}
  BY <1>13, <1>14
<1> QED BY <1>3, <1>11, <1>14, <1>15 DEF CreateTwoSems
-----------------------------------------------------------------------------
(* The steps of the shell.                                                 *)
LEMMA NoProgramLeft ==
  ASSUME NEW pl, NEW ct, NEW at, Family(pl, ct, at),
         at \in {"prompt", "first"} \/ (at = "delete" /\ pl[0].state = READY)
  PROVE  ProgramsOf(pl) = {} /\ AllDead(ct)
<1>1. AllDead(ct)
  BY DEF Family
<1> QED BY <1>1 DEF Family, AllDead, READY, DEAD

LEMMA FreeIsPipe ==
  /\ FreePipe \in PipeInfo /\ FreePipe.pipe_read_id = 0
  /\ FreePipe.pipe_write_id = 0 /\ FreePipe.current_pipe_size = 0
BY PipesAssumption DEF FreePipe, PipeInfo, Ring

LEMMA InitPipeInv == PipelineInit => PipeInv
<1> SUFFICES ASSUME PipelineInit PROVE PipeInv
  OBVIOUS
<1> USE DEF PipelineInit, PipesInit, SemInit
<1>1. IInv
  BY InitIInv
<1>2. /\ process_list = [i \in Slots |-> CASE i = 0 -> ShellAtBoot
                                            [] i = 1 -> IdleAtBoot
                                            [] OTHER -> FreeSlot]
      /\ pid_value = 2 /\ children_processes = [e \in Entries |-> FreeEntry]
      /\ 0 \in Slots /\ 1 \in Slots
  BY SizesAssumption DEF Init, Slots
<1>3. /\ process_list[0].state = READY /\ process_list[0].pid = 0
      /\ process_list[1].state = PAUSED /\ process_list[1].pid = 1
      /\ \A i \in Slots : i # 0 /\ i # 1 => process_list[i].state = DEAD
  <2>1. /\ process_list[0] = ShellAtBoot /\ process_list[1] = IdleAtBoot
        /\ \A i \in Slots : i # 0 /\ i # 1 => process_list[i] = FreeSlot
    BY <1>2
  <2>2. ShellAtBoot.state = READY /\ ShellAtBoot.pid = 0
    BY DEF ShellAtBoot, ShellPid
  <2>3. IdleAtBoot.state = PAUSED /\ IdleAtBoot.pid = 1
    BY DEF IdleAtBoot, ShellAtBoot, idle_pid
  <2>4. FreeSlot.state = DEAD
    BY DEF FreeSlot
  <2> QED BY <2>1, <2>2, <2>3, <2>4
<1>4. /\ \A i \in Live(process_list) : i = 0 \/ i = 1
      /\ Sleeping(process_list) = {}
  BY <1>3 DEF Live, Sleeping, READY, PAUSED, PAUSED_BY_SEM, DEAD
<1>5. Programs = {} /\ SleepingPids(process_list) = {}
  BY <1>3, <1>4 DEF Programs, ProgramsOf, LivePids, PidsOf, SleepingPids, ShellPid, idle_pid
<1>6. QuietTable(process_list)
  BY <1>3, <1>4, SizesAssumption DEF QuietTable, PAUSED, PAUSED_BY_SEM
<1>7. Family(process_list, children_processes, shell_at)
  BY <1>2, <1>3, <1>5 DEF Family, Programs, AllDead, FreeEntry, ShellPid, READY,
     PAUSED_BY_CHILD
<1>8. Roles
  <2>1. ShellPid \in Pids /\ idle_pid \in Pids /\ pid_value <= MaxPid + 1
    BY <1>2, SizesAssumption, PipesAssumption DEF Pids, ShellPid, idle_pid
  <2> QED BY <1>5, <2>1 DEF Roles, STDIN, STDOUT
<1>9. OnePipe
  BY FreeIsPipe DEF OnePipe
<1>10. IdIsIndex
  BY DEF IdIsIndex, EmptySem, EMPTY_SEM, SemInfo
<1>11. Calls
  BY DEF Calls, NoCall, CallInfo, InCall
<1>12. Queue
  BY <1>5 DEF Queue
<1>13. PermitsBalance
  BY DEF PermitsBalance
<1> QED
  BY <1>1, <1>6, <1>7, <1>8, <1>9, <1>10, <1>11, <1>12, <1>13 DEF PipeInv

(* While the shell owns the CPU every call is a write past its wait.       *)
LEMMA ShellOwns ==
  ASSUME PipeInv, CurrentPid = ShellPid
  PROVE  /\ process_list[0].state = READY
         /\ \A pid \in Pids : InCall(pid) => call[pid].op = "write" /\ call[pid].waited
         /\ \A pid \in Pids : ~HoldsRead(pid)
<1>1. current_process_idx = 0 /\ process_list[current_process_idx].state = READY
  BY OwnerLives DEF PipeInv, IInv
<1>2. ShellPid \notin Programs
  BY DEF Programs, ProgramsOf
<1>3. \A pid \in Pids : InCall(pid) => call[pid].op = "write" /\ call[pid].waited
  BY <1>2 DEF PipeInv, Calls
<1> QED BY <1>1, <1>3 DEF HoldsRead, InCall

LEMMA ShellCreatesPipeInv == PipeInv /\ ShellCreatesPipe => PipeInv'
<1> SUFFICES ASSUME PipeInv, ShellCreatesPipe PROVE PipeInv'
  OBVIOUS
<1>1. /\ shell_at = "prompt" /\ shell_at' = "first"
      /\ CreatePipe(FindPipeAvailable) /\ FindPipeAvailable # MAX_PIPES_REACHED
      /\ pipe_id' = FindPipeAvailable
      /\ UNCHANGED <<io, call, got, refused>>
  BY DEF ShellCreatesPipe, ShellRuns
<1>2. /\ OnePipe /\ IdIsIndex /\ Roles /\ Calls
      /\ Family(process_list, children_processes, "prompt")
  BY <1>1 DEF PipeInv
<1>3. /\ 0 \in PipeSlots /\ Least(FindPipe(0)) = 0 /\ FindPipe(PipeId) = {}
  BY <1>1, <1>2, Found
<1>4. FindPipeAvailable = PipeId
  BY <1>1, <1>3 DEF FindPipeAvailable, PipeId
<1> DEFINE new == [FreePipe EXCEPT !.pipe_id = PipeId, !.read_sem_id = ReadSemId,
                                   !.write_sem_id = WriteSemId]
<1>5. /\ CreateTwoSems /\ UNCHANGED vars
      /\ pipes' = [pipes EXCEPT ![0] = new]
  BY <1>1, <1>3, <1>4 DEF CreatePipe
<1>6. /\ ReadSemId \in SemSlots \ {0} /\ WriteSemId \in SemSlots \ {0}
      /\ ReadSemId # WriteSemId
      /\ semaphores' \in [SemSlots -> SemInfo]
      /\ \A i \in SemSlots : semaphores'[i].sem_id \in {EMPTY_SEM, i}
      /\ semaphores'[ReadSemId] = [sem_id |-> ReadSemId, sem_val |-> 0]
      /\ semaphores'[WriteSemId] = [sem_id |-> WriteSemId, sem_val |-> PIPE_SIZE]
      /\ waiters' = <<>> /\ buffer' = "live"
      /\ current_sem_amount' = current_sem_amount + 2
  BY <1>2, <1>5, TwoSems
<1>7. Programs = {} /\ AllDead(children_processes)
  BY <1>2, NoProgramLeft DEF Programs
<1>8. process_list' = process_list /\ children_processes' = children_processes
      /\ pid_value' = pid_value
  BY <1>5 DEF vars
<1>9. IInv'
  BY <1>5, NextIInv DEF PipeInv
<1>10. Family(process_list', children_processes', shell_at') /\ QuietTable(process_list')
  BY <1>1, <1>7, <1>8 DEF PipeInv, Family, AllDead
<1>11. Programs' = {} /\ SleepingPids(process_list') = SleepingPids(process_list)
  BY <1>7, <1>8 DEF Programs
<1>12. Roles'
  BY <1>1, <1>2, <1>4, <1>8, <1>11 DEF Roles
<1>13. /\ new \in PipeInfo /\ new.pipe_id = PipeId /\ new.read_sem_id = ReadSemId
       /\ new.write_sem_id = WriteSemId /\ new.pipe_read_id = 0 /\ new.pipe_write_id = 0
       /\ new.current_pipe_size = 0
  <2>1. ReadSemId \in Nat /\ WriteSemId \in Nat /\ 0 \in Ring
    BY <1>6, SemaphoresAssumption, PipesAssumption DEF SemSlots, Ring
  <2> QED BY <2>1, FreeIsPipe DEF PipeInfo, PipeId
<1> HIDE DEF new
<1>14. pipes \in [PipeSlots -> PipeInfo]
       /\ \A i \in PipeSlots : pipes[i] = FreePipe
  BY <1>1, <1>2 DEF OnePipe
<1>15. pipes'[0] = new /\ \A i \in PipeSlots : i # 0 => pipes'[i] = FreePipe
  BY <1>3, <1>5, <1>14
<1>16. OnePipe'
  <2>1. pipes' \in [PipeSlots -> PipeInfo]
    BY <1>3, <1>5, <1>13, <1>14
  <2>2. (0 + 0) % PIPE_SIZE = 0
    BY PipesAssumption
  <2> QED BY <1>1, <1>6, <1>13, <1>15, <2>1, <2>2 DEF OnePipe, ThePipe, Used
<1>17. IdIsIndex'
  BY <1>1, <1>2, <1>6 DEF IdIsIndex
<1>18. \A pid \in Pids : ~InCall(pid)
  BY <1>2, <1>7 DEF Calls
<1>19. Calls'
  <2>1. \A pid \in Pids : ~InCall(pid)' /\ call[pid]' = NoCall
    BY <1>1, <1>2, <1>18 DEF Calls, InCall
  <2> QED BY <1>1, <1>2, <2>1 DEF Calls
<1>20. SleepingPids(process_list) = {}
  BY <1>7 DEF PipeInv, Queue
<1>21. Queue'
  BY <1>1, <1>6, <1>11, <1>20 DEF Queue
<1>22. PermitsBalance'
  <2>1. \A pid \in Pids : ~HoldsRead(pid)'
    BY <1>1, <1>18 DEF HoldsRead, InCall
  <2>2. Readable' = 0 /\ Writable' = PIPE_SIZE /\ Used' = 0
    BY <1>6, <1>13, <1>15 DEF Readable, Writable, Used, ThePipe
  <2> QED BY <1>11, <2>1, <2>2 DEF PermitsBalance, One
<1> QED
  BY <1>9, <1>10, <1>12, <1>16, <1>17, <1>19, <1>21, <1>22 DEF PipeInv
LEMMA ShellIsRefusedInv == PipeInv /\ ShellIsRefused => PipeInv'
<1> SUFFICES ASSUME PipeInv, ShellIsRefused PROVE PipeInv'
  OBVIOUS
<1>1. /\ shell_at = "prompt" /\ shell_at' = "prompt"
      /\ CreateTwoSems /\ UNCHANGED <<vars, pipes, pipes_count>>
      /\ refused' = refused + 1
      /\ UNCHANGED <<io, call, got, pipe_id>>
  BY DEF ShellIsRefused, ShellRuns, CreatePipeFails
<1>2. /\ OnePipe /\ IdIsIndex /\ Roles /\ Calls /\ Queue
      /\ Family(process_list, children_processes, "prompt")
  BY <1>1 DEF PipeInv
<1>3. /\ semaphores' \in [SemSlots -> SemInfo]
      /\ \A i \in SemSlots : semaphores'[i].sem_id \in {EMPTY_SEM, i}
      /\ waiters' = <<>> /\ buffer' = "live"
      /\ current_sem_amount' = current_sem_amount + 2
  BY <1>1, <1>2, TwoSems
<1>4. Programs = {}
  BY <1>2, NoProgramLeft DEF Programs
<1>5. process_list' = process_list /\ children_processes' = children_processes
      /\ pid_value' = pid_value /\ Programs' = {}
  BY <1>1, <1>4 DEF vars, Programs
<1>6. IInv'
  BY <1>1, NextIInv DEF PipeInv
<1>7. Family(process_list', children_processes', shell_at') /\ QuietTable(process_list')
  BY <1>1, <1>2, <1>5 DEF PipeInv
<1>8. Roles'
  BY <1>1, <1>2, <1>5 DEF Roles
<1>9. OnePipe'
  BY <1>1, <1>2 DEF OnePipe
<1>10. IdIsIndex'
  BY <1>1, <1>2, <1>3 DEF IdIsIndex
<1>11. Calls'
  BY <1>1, <1>2, <1>4 DEF Calls, InCall
<1>12. Queue'
  BY <1>1, <1>2, <1>3, <1>4, <1>5 DEF Queue
<1>13. PermitsBalance'
  BY <1>1 DEF PermitsBalance
<1> QED
  BY <1>6, <1>7, <1>8, <1>9, <1>10, <1>11, <1>12, <1>13 DEF PipeInv

LEMMA ShellCreatesChildInv ==
  ASSUME RoomForTwo, PipeInv, NEW here, NEW next, NEW stdio,
         \/ here = "first" /\ next = "second" /\ stdio = Writer
         \/ here = "second" /\ next = "wait" /\ stdio = Reader,
         ShellCreatesChild(here, next, stdio)
  PROVE  PipeInv'
<1>1. /\ CurrentPid = ShellPid /\ shell_at = here /\ shell_at' = next
      /\ UNCHANGED <<semVars, pipes, pipes_count, call, got, pipe_id, refused>>
  BY DEF ShellCreatesChild, ShellRuns
<1>2. /\ IInv /\ QuietTable(process_list) /\ OnePipe /\ IdIsIndex /\ Roles /\ Calls
      /\ Queue /\ PermitsBalance /\ Family(process_list, children_processes, here)
      /\ children_processes \in [Entries -> ChildInfo]
  BY <1>1 DEF PipeInv, IInv, SoundChildren
<1>3. \A pid \in Pids : InCall(pid) => call[pid].op = "write"
                                       /\ call[pid].waited /\ pid \in Programs
  BY <1>1, ShellOwns DEF PipeInv, Calls
<1>4. here = "first" => Programs = {} /\ waiters = <<>>
  BY <1>1, <1>2, NoProgramLeft DEF Programs, Queue
<1>5. OnePipe' /\ IdIsIndex'
  BY <1>1, <1>2 DEF OnePipe, IdIsIndex, semVars, ThePipe, Used
<1>6. /\ ThePipe' = ThePipe /\ Used' = Used /\ Readable' = Readable /\ Writable' = Writable
      /\ waiters' = waiters
  BY <1>1 DEF ThePipe, Used, Readable, Writable, semVars
<1>7. CASE CreateChildFails /\ UNCHANGED io
  <2> DEFINE code == IF dim = MAX_PROCESSES THEN PROCESSES_LIMIT_REACHED
                                            ELSE NO_SPACE_FOR_PROCESS
  <2>1. /\ children_processes' = AddChild(children_processes, ShellPid, code)
        /\ code \in Nat \cup FailureCodes /\ UNCHANGED procVars
    BY <1>1, <1>7 DEF CreateChildFails, Refusal, FailureCodes
  <2> HIDE DEF code
  <2>2. process_list' = process_list /\ pid_value' = pid_value
    BY <2>1 DEF procVars
  <2>3. Family(process_list', children_processes', shell_at') /\ QuietTable(process_list')
    BY <1>1, <1>2, <2>1, <2>2, EntryKeepsFamily
  <2>4. IInv'
    BY <1>2, <1>7, NextIInv DEF Next, SystemCall
  <2>5. Programs' = Programs
    BY <2>2 DEF Programs
  <2>6. Roles'
    BY <1>1, <1>2, <1>4, <1>7, <2>2, <2>5 DEF Roles
  <2>7. Calls'
    BY <1>1, <1>2, <1>3, <1>7, <2>5 DEF Calls, InCall
  <2>8. Queue'
    BY <1>1, <1>2, <1>6, <1>7, <2>2, <2>5 DEF Queue
  <2>9. PermitsBalance'
    BY <1>1, <1>2, <1>6, <1>7, <2>2, <2>5 DEF PermitsBalance, HoldsRead, HoldsWrite
  <2> QED BY <1>5, <2>3, <2>4, <2>6, <2>7, <2>8, <2>9 DEF PipeInv
<1>8. ASSUME NEW priority \in Priorities, CreateChild(priority),
             io' = [io EXCEPT ![pid_value] = stdio]
      PROVE  PipeInv'
  <2>1. /\ Spawn(priority)
        /\ children_processes' = AddChild(children_processes, ShellPid, pid_value)
    BY <1>1, <1>8 DEF CreateChild
  <2>2. /\ QuietTable(process_list')
        /\ LivePids(process_list') = LivePids(process_list) \cup {pid_value}
        /\ SleepingPids(process_list') = SleepingPids(process_list)
        /\ process_list'[0] = process_list[0]
        /\ pid_value \in Nat /\ pid_value > 1 /\ pid_value < MaxPid
        /\ pid_value \notin LivePids(process_list)
        /\ pid_value' = pid_value + 1
    BY <1>2, <2>1, SpawnAddsProgram DEF Spawn
  <2>3. Programs' = Programs \cup {pid_value} /\ pid_value \notin Programs
    BY <2>2 DEF Programs, ProgramsOf, ShellPid, idle_pid
  <2>4. IInv'
    BY <1>2, <1>8, NextIInv DEF Next, SystemCall
  <2>5. Family(process_list', children_processes', shell_at')
    BY <1>1, <1>2, <2>1, <2>2, <2>3, EntryKeepsFamily DEF Programs
  <2>6. pid_value \in Pids /\ MaxPid \in Nat
    BY <2>2, SizesAssumption DEF Pids
  <2>7. /\ io'[pid_value] = stdio
        /\ \A pid \in Pids : pid # pid_value => io'[pid] = io[pid]
        /\ \A pid \in Programs : pid \in Pids /\ io'[pid] = io[pid]
        /\ io' \in [Pids -> [input : Nat, output : Nat]]
        /\ stdio \in {Writer, Reader}
    <3>1. Writer \in [input : Nat, output : Nat] /\ Reader \in [input : Nat, output : Nat]
      BY DEF Writer, Reader, STDIN, STDOUT, PipeId
    <3> QED BY <1>2, <1>8, <2>3, <2>6, <3>1 DEF Roles
  <2>8. Roles'
    <3>1. \A pid \in {ShellPid, idle_pid} : io'[pid] = io[pid]
      BY <1>2, <2>2, <2>7, BootPids DEF ShellPid, idle_pid
    <3>2. \A p, q \in Programs' : io'[p] = io'[q] => p = q
      <4>1. \A p \in Programs : io'[p] # stdio
        BY <1>1, <1>2, <1>4, <2>7, BootPids DEF Roles
      <4> QED BY <1>2, <2>3, <2>7, <4>1 DEF Roles
    <3>3. shell_at' = "second" => \A pid \in Programs' : io'[pid] = Writer
      BY <1>1, <1>4, <2>3, <2>7
    <3>4. \A pid \in Programs' : pid \in Pids /\ io'[pid] \in {Writer, Reader}
      BY <1>2, <2>3, <2>6, <2>7 DEF Roles
    <3>5. pid_value' <= MaxPid + 1
      BY <2>2, <2>6
    <3>6. pipe_id' = PipeId
      BY <1>1, <1>2 DEF Roles
    <3> QED BY <1>2, <2>7, <3>1, <3>2, <3>3, <3>4, <3>5, <3>6 DEF Roles
  <2>9. Calls'
    <3>1. \A pid \in Pids : InCall(pid)' <=> InCall(pid)
      BY <1>1 DEF InCall
    <3> QED BY <1>1, <1>2, <1>3, <2>3, <2>7, <3>1 DEF Calls
  <2>10. Queue'
    <3>1. waiters # <<>> => \E pid \in Pids \ {ShellPid, idle_pid} :
                               waiters = <<pid>> /\ pid < pid_value
      BY <1>2 DEF Queue
    <3>2. waiters # <<pid_value>>
      <4>1. CASE waiters = <<>>
        BY <4>1
      <4>2. CASE waiters # <<>>
        <5>1. PICK pid \in Pids : waiters = <<pid>> /\ pid < pid_value
          BY <3>1, <4>2, Zenon
        <5>2. waiters[1] = pid /\ pid # pid_value /\ <<pid_value>>[1] = pid_value
          BY <2>2, <5>1 DEF Pids
        <5> QED BY <5>2, Zenon
      <4> QED BY <4>1, <4>2
    <3>3. \A pid \in Pids : pid < pid_value => pid < pid_value'
      BY <2>2 DEF Pids
    <3>4. waiters' # <<>> => \E pid \in Pids \ {ShellPid, idle_pid} :
                               waiters' = <<pid>> /\ pid < pid_value'
      BY <1>6, <3>1, <3>3
    <3>5. \A pid \in Programs' : io'[pid] = Writer /\ waiters # <<>> =>
            waiters = <<pid>> /\ pid \in SleepingPids(process_list')
      BY <1>1, <1>2, <1>4, <2>2, <2>3, <2>7, BootPids DEF Queue
    <3>6. \A pid \in Programs' : waiters = <<pid>> => io'[pid] = Writer
      BY <1>2, <2>3, <2>7, <3>2 DEF Queue
    <3>7. \A pid \in SleepingPids(process_list') :
            /\ pid \in Programs' /\ call'[pid].op = "write" /\ call'[pid].waited
            /\ waiters = <<pid>> /\ Used' = PIPE_SIZE
      BY <1>1, <1>2, <1>6, <2>2, <2>3 DEF Queue
    <3>8. shell_at' # "first"
      BY <1>1
    <3> QED BY <1>6, <3>4, <3>5, <3>6, <3>7, <3>8 DEF Queue
  <2>11. PermitsBalance'
    <3>1. \A pid \in Pids : /\ HoldsRead(pid)' <=> HoldsRead(pid)
                            /\ HoldsWrite(pid)' <=> HoldsWrite(pid)
      BY <1>1, <2>2 DEF HoldsRead, HoldsWrite
    <3>2. Readable' + One((\E pid \in Pids : HoldsRead(pid))') = Used'
      BY <1>1, <1>2, <1>6, <3>1 DEF PermitsBalance
    <3>3. ASSUME NEW w \in Programs', io'[w] = Writer
          PROVE  Writable' + One(HoldsWrite(w)') + Used' = PIPE_SIZE
      <4>1. CASE w \in Programs
        <5>1. Writable + One(HoldsWrite(w)) + Used = PIPE_SIZE
          BY <1>1, <1>2, <2>7, <3>3, <4>1 DEF PermitsBalance
        <5>2. HoldsWrite(w)' <=> HoldsWrite(w)
          BY <2>7, <3>1, <4>1
        <5> QED BY <1>6, <5>1, <5>2 DEF One
      <4>2. CASE w = pid_value
        <5>1. here = "first"
          BY <2>7, <3>3, <4>2, <1>2, BootPids
        <5>2. Writable = PIPE_SIZE /\ Used = 0
          BY <1>1, <1>2, <5>1 DEF PermitsBalance
        <5>3. ~HoldsWrite(w)'
          BY <1>3, <2>3, <2>6, <3>1, <4>2 DEF HoldsWrite, InCall
        <5> QED BY <1>6, <5>2, <5>3, PipesAssumption DEF One
      <4> QED BY <2>3, <3>3, <4>1, <4>2
    <3>4. shell_at' # "first"
      BY <1>1
    <3> QED BY <3>2, <3>3, <3>4 DEF PermitsBalance
  <2> QED
    BY <1>5, <2>2, <2>4, <2>5, <2>8, <2>9, <2>10, <2>11 DEF PipeInv
<1> QED BY <1>7, <1>8 DEF ShellCreatesChild
LEMMA ShellWaitsInv == PipeInv /\ ShellWaits => PipeInv'
<1> SUFFICES ASSUME PipeInv, ShellWaits PROVE PipeInv'
  OBVIOUS
<1>1. /\ CurrentPid = ShellPid /\ shell_at = "wait" /\ shell_at' = "delete"
      /\ WaitForChildren /\ pid_value' = pid_value
      /\ UNCHANGED <<semVars, pipeVars, pipe_id, refused>>
  BY DEF ShellWaits, ShellRuns, WaitForChildren
<1>2. /\ IInv /\ QuietTable(process_list) /\ OnePipe /\ IdIsIndex /\ Roles /\ Calls
      /\ Queue /\ PermitsBalance /\ Family(process_list, children_processes, "wait")
  BY <1>1 DEF PipeInv
<1>3. /\ QuietTable(process_list')
      /\ Family(process_list', children_processes', shell_at')
      /\ LivePids(process_list') = LivePids(process_list)
      /\ SleepingPids(process_list') = SleepingPids(process_list)
  BY <1>1, <1>2, WaitKeepsFamily
<1>4. IInv'
  BY <1>1, <1>2, NextIInv DEF Next, SystemCall
<1>5. Programs' = Programs
  BY <1>3 DEF Programs, ProgramsOf
<1>6. /\ UNCHANGED <<io, call, pipes, semaphores, waiters, buffer, current_sem_amount>>
      /\ UNCHANGED <<pipe_id, refused>>
  BY <1>1 DEF semVars, pipeVars
<1>7. Roles'
  BY <1>1, <1>2, <1>5, <1>6 DEF Roles
<1>8. OnePipe' /\ IdIsIndex'
  BY <1>1, <1>2, <1>6 DEF OnePipe, IdIsIndex, ThePipe, Used
<1>9. Calls'
  <2>1. \A pid \in Pids : InCall(pid) => call[pid].op = "write" /\ call[pid].waited
    BY <1>1, ShellOwns
  <2> QED BY <1>2, <1>5, <1>6, <2>1 DEF Calls, InCall
<1>10. Queue'
  BY <1>1, <1>2, <1>3, <1>5, <1>6 DEF Queue, Used, ThePipe
<1>11. PermitsBalance'
  BY <1>1, <1>2, <1>3, <1>5, <1>6
  DEF PermitsBalance, HoldsRead, HoldsWrite, Readable, Writable, Used, ThePipe
<1> QED
  BY <1>3, <1>4, <1>7, <1>8, <1>9, <1>10, <1>11 DEF PipeInv

LEMMA ShellDeletesPipeInv == PipeInv /\ ShellDeletesPipe => PipeInv'
<1> SUFFICES ASSUME PipeInv, ShellDeletesPipe PROVE PipeInv'
  OBVIOUS
<1>1. /\ CurrentPid = ShellPid /\ shell_at = "delete" /\ shell_at' = "prompt"
      /\ UNCHANGED <<io, call, got, pipe_id, refused>>
  BY DEF ShellDeletesPipe, ShellRuns
<1>2. /\ IInv /\ QuietTable(process_list) /\ OnePipe /\ IdIsIndex /\ Roles /\ Calls
      /\ Queue /\ Family(process_list, children_processes, "delete")
  BY <1>1 DEF PipeInv
<1>3. pipe_id = PipeId /\ FindPipe(PipeId) = {0} /\ 0 \in PipeSlots
  BY <1>1, <1>2, Found DEF Roles
<1>4. DeletePipe(0)
  BY <1>3 DEF ShellDeletesPipe
<1>5. Programs = {} /\ AllDead(children_processes)
  BY <1>1, <1>2, ShellOwns, NoProgramLeft DEF Programs
<1> DEFINE r == ThePipe.read_sem_id
           w == ThePipe.write_sem_id
<1>6. /\ r \in SemSlots \ {0} /\ w \in SemSlots \ {0}
      /\ FindSem(r) = r /\ FindSem(w) = w
  BY <1>1, <1>2, FindSemIs DEF OnePipe
<1>7. /\ semaphores' = [semaphores EXCEPT ![r] = EmptySem, ![w] = EmptySem]
      /\ current_sem_amount' = IF current_sem_amount < 2 THEN 0 ELSE current_sem_amount - 2
      /\ pipes' = [pipes EXCEPT ![0] = FreePipe]
      /\ UNCHANGED <<vars, waiters, pipes_count>>
  BY <1>4, <1>6 DEF DeletePipe, ThePipe
<1> HIDE DEF r, w
<1>8. /\ process_list' = process_list /\ children_processes' = children_processes
      /\ pid_value' = pid_value /\ Programs' = {}
  BY <1>5, <1>7 DEF vars, Programs
<1>9. IInv'
  BY <1>2, <1>7, NextIInv
<1>10. Family(process_list', children_processes', shell_at') /\ QuietTable(process_list')
  BY <1>1, <1>2, <1>5, <1>8, ShellOwns DEF Family, AllDead, READY, PAUSED_BY_CHILD
<1>11. Roles'
  BY <1>1, <1>2, <1>8 DEF Roles
<1>12. OnePipe'
  BY <1>1, <1>2, <1>3, <1>7, FreeIsPipe DEF OnePipe
<1>13. IdIsIndex'
  <2>1. /\ semaphores' \in [SemSlots -> SemInfo]
        /\ \A i \in SemSlots : semaphores'[i].sem_id \in {EMPTY_SEM, i}
    <3>1. EmptySem \in SemInfo /\ EmptySem.sem_id = EMPTY_SEM
      BY DEF EmptySem, SemInfo, EMPTY_SEM
    <3> QED BY <1>2, <1>6, <1>7, <3>1 DEF IdIsIndex
  <2>2. refused \in Nat /\ current_sem_amount = 2 * (1 + refused)
    BY <1>1, <1>2 DEF IdIsIndex
  <2>3. current_sem_amount' = 2 * (0 + refused)
    BY <1>7, <2>2
  <2> QED BY <1>1, <2>1, <2>2, <2>3 DEF IdIsIndex
<1>14. Calls'
  BY <1>1, <1>2, <1>5 DEF Calls, InCall
<1>15. Queue'
  BY <1>1, <1>2, <1>5, <1>7, <1>8 DEF Queue
<1>16. PermitsBalance'
  BY <1>1 DEF PermitsBalance
<1> QED
  BY <1>9, <1>10, <1>11, <1>12, <1>13, <1>14, <1>15, <1>16 DEF PipeInv

-----------------------------------------------------------------------------
(* The steps of the kernel and of the programs.                            *)
LEMMA KernelStepInv == PipeInv /\ KernelStep => PipeInv'
<1> SUFFICES ASSUME PipeInv, KernelStep PROVE PipeInv'
  OBVIOUS
<1>1. /\ ~InCall(CurrentPid) /\ (TimerTick \/ EndProcess \/ KillAllProcesses)
      /\ call' = [pid \in Pids |-> IF pid \in LivePids(process_list') THEN call[pid]
                                                                      ELSE NoCall]
      /\ UNCHANGED <<semVars, pipes, pipes_count, io, got, shell_at, pipe_id, refused>>
  BY DEF KernelStep
<1>2. /\ IInv /\ QuietTable(process_list) /\ OnePipe /\ IdIsIndex /\ Roles /\ Calls
      /\ Queue /\ PermitsBalance /\ Family(process_list, children_processes, shell_at)
  BY DEF PipeInv
<1>3. PICK D \in SUBSET Programs :
        /\ QuietTable(process_list')
        /\ Family(process_list', children_processes', shell_at)
        /\ LivePids(process_list') = LivePids(process_list) \ D
        /\ SleepingPids(process_list') = SleepingPids(process_list) \ D
        /\ pid_value' = pid_value
  BY <1>1, <1>2, KernelKeepsFamily
<1>4. IInv'
  BY <1>1, <1>2, NextIInv DEF Next, SystemCall
<1>5. Programs' = Programs \ D /\ Programs' \subseteq LivePids(process_list')
  BY <1>3 DEF Programs, ProgramsOf
<1>6. UNCHANGED <<io, pipes, semaphores, waiters, buffer, current_sem_amount, shell_at,
                  pipe_id, refused>>
  BY <1>1 DEF semVars
<1>7. Roles'
  BY <1>2, <1>3, <1>5, <1>6 DEF Roles
<1>8. OnePipe' /\ IdIsIndex'
  BY <1>2, <1>6 DEF OnePipe, IdIsIndex, ThePipe, Used
<1>9. \A pid \in Pids : InCall(pid) => /\ call[pid].op = "write" /\ call[pid].waited
                                       /\ pid \in Programs /\ io[pid] = Writer
  BY <1>1, <1>2 DEF Calls
<1>10. /\ \A pid \in Programs' : pid \in Pids /\ call'[pid] = call[pid]
       /\ \A pid \in Pids : call'[pid] \in {call[pid], NoCall}
       /\ \A pid \in Pids : call'[pid] # NoCall => pid \in LivePids(process_list')
       /\ NoCall.op = "none" /\ NoCall \in CallInfo
  BY <1>1, <1>2, <1>5 DEF Roles, NoCall, CallInfo
<1>11. Calls'
  <2>1. call' \in [Pids -> CallInfo]
    BY <1>1, <1>2, <1>10 DEF Calls
  <2>2. \A pid \in Pids : InCall(pid)' => call'[pid] = call[pid] /\ InCall(pid) /\ pid \in Programs'
    BY <1>3, <1>5, <1>9, <1>10 DEF InCall
  <2>3. \A pid \in Pids : ~InCall(pid)' => call'[pid] = NoCall
    BY <1>2, <1>10 DEF Calls, InCall
  <2> QED BY <1>6, <1>9, <2>1, <2>2, <2>3 DEF Calls
<1>12. Queue'
  BY <1>2, <1>3, <1>5, <1>6, <1>10 DEF Queue, Used, ThePipe
<1>13. PermitsBalance'
  <2>1. \A pid \in Pids : ~HoldsRead(pid) /\ ~HoldsRead(pid)'
    BY <1>9, <1>10 DEF HoldsRead, InCall
  <2>2. \A pid \in Programs' : pid \in Programs /\ (HoldsWrite(pid)' <=> HoldsWrite(pid))
    BY <1>3, <1>5, <1>10 DEF HoldsWrite
  <2>3. Readable' = Readable /\ Writable' = Writable /\ Used' = Used
    BY <1>6 DEF Readable, Writable, Used, ThePipe
  <2>4. shell_at # "prompt" => Readable' + One((\E pid \in Pids : HoldsRead(pid))') = Used'
    BY <1>2, <2>1, <2>3 DEF PermitsBalance, One
  <2>5. \A w \in Programs' : shell_at # "prompt" /\ io'[w] = Writer =>
          Writable' + One(HoldsWrite(w)') + Used' = PIPE_SIZE
    BY <1>2, <1>6, <2>2, <2>3 DEF PermitsBalance, One
  <2> QED BY <1>2, <1>6, <2>3, <2>4, <2>5 DEF PermitsBalance
<1> QED
  BY <1>3, <1>4, <1>6, <1>7, <1>8, <1>11, <1>12, <1>13 DEF PipeInv
(* A program that goes to sleep or wakes up is as much alive as before.    *)
LEMMA StateKeepsFamily ==
  ASSUME NEW pl, NEW n, NEW pv, NEW ct, NEW at, SoundTable(pl, n, pv),
         NEW i \in Live(pl), i # 0, i # 1, NEW st \in States \ {DEAD},
         QuietTable(pl), Family(pl, ct, at),
         NEW ql, ql = WithState(pl, i, st)
  PROVE  QuietTable(ql) /\ Family(ql, ct, at) /\ LivePids(ql) = LivePids(pl)
<1>1. pl \in [Slots -> Process] /\ i \in Slots /\ 0 \in Slots /\ 1 \in Slots
  BY SizesAssumption DEF SoundTable, Live, Slots
<1>2. /\ \A j \in Slots \ {i} : ql[j] = pl[j]
      /\ ql[i].state = st /\ ql[i].pid = pl[i].pid
  BY <1>1 DEF WithState, Process
<1>3. Live(ql) = Live(pl) /\ \A j \in Slots : ql[j].pid = pl[j].pid
  BY <1>1, <1>2 DEF Live
<1>4. LivePids(ql) = LivePids(pl)
  BY <1>3 DEF LivePids, PidsOf, Live
<1>5. ql[0] = pl[0] /\ ql[1] = pl[1]
  BY <1>1, <1>2
<1>6. QuietTable(ql)
  BY <1>3, <1>5 DEF QuietTable, Live
<1>7. Family(ql, ct, at)
  BY <1>4, <1>5 DEF Family, ProgramsOf
<1> QED BY <1>4, <1>6, <1>7

LEMMA SleepKeepsFamily ==
  ASSUME IInv, QuietTable(process_list), NEW at,
         Family(process_list, children_processes, at),
         Calling, CurrentPid # ShellPid,
         ForceTimerTick(ChangeProcessState(process_list, CurrentPid, PAUSED_BY_SEM),
                        dim, 0)
  PROVE  /\ QuietTable(process_list')
         /\ Family(process_list', children_processes, at)
         /\ LivePids(process_list') = LivePids(process_list)
<1> DEFINE c == current_process_idx
           ql == WithState(process_list, c, PAUSED_BY_SEM)
<1>1. /\ SoundTable(process_list, dim, pid_value)
      /\ SoundChildren(process_list, children_processes, pid_value)
      /\ SoundSleepers(process_list, children_processes)
      /\ c \in Slots /\ c \in Live(process_list)
  BY DEF IInv, Live, READY, DEAD
<1>2. c # 0 /\ c # 1
  BY <1>1, IdleSlot DEF Calling, CurrentPid, SoundTable, ShellPid
<1>3. PAUSED_BY_SEM \in States \ {DEAD} /\ PAUSED_BY_SEM # PAUSED_BY_CHILD
  BY DEF States, PAUSED_BY_SEM, DEAD, PAUSED_BY_CHILD
<1>4. ChangeProcessState(process_list, CurrentPid, PAUSED_BY_SEM) = ql
  BY <1>1, ChangeStateOfLive DEF CurrentPid
<1>5. SoundTable(ql, dim, pid_value)
  BY <1>1, <1>3, WithStateSound
<1>6. /\ QuietTable(ql) /\ Family(ql, children_processes, at)
      /\ LivePids(ql) = LivePids(process_list)
  BY <1>1, <1>2, <1>3, StateKeepsFamily
<1>7. ForceTimerTick(ql, dim, 0) /\ 0 \in Nat
  BY <1>4
<1> HIDE DEF ql
<1> QED BY <1>1, <1>5, <1>6, <1>7, SwitchKeepsFamily

LEMMA WakeKeepsFamily ==
  ASSUME IInv, QuietTable(process_list), NEW at,
         Family(process_list, children_processes, at),
         NEW pid \in SleepingPids(process_list),
         process_list' = ChangeProcessState(process_list, pid, READY)
  PROVE  /\ Family(process_list', children_processes, at)
         /\ LivePids(process_list') = LivePids(process_list)
<1>1. PICK i \in Sleeping(process_list) : process_list[i].pid = pid
  BY DEF SleepingPids, PidsOf
<1>2. /\ SoundTable(process_list, dim, pid_value)
      /\ i \in Live(process_list) /\ process_list[i].state = PAUSED_BY_SEM
  BY DEF IInv, Sleeping, Live, PAUSED_BY_SEM, DEAD
<1>3. i # 0 /\ i # 1
  BY <1>2 DEF QuietTable, Family, READY, PAUSED_BY_CHILD, PAUSED_BY_SEM
<1>4. process_list' = WithState(process_list, i, READY)
  BY <1>1, <1>2, ChangeStateOfLive
<1>5. READY \in States \ {DEAD}
  BY DEF States, READY, DEAD
<1> QED BY <1>2, <1>3, <1>4, <1>5, StateKeepsFamily

(* Waking a sleeper leaves the owner of the CPU alone.                      *)
LEMMA WakeKeepsOwner ==
  ASSUME IInv, NEW pid \in SleepingPids(process_list),
         process_list' = ChangeProcessState(process_list, pid, READY),
         UNCHANGED current_process_idx
  PROVE  CurrentPid' = CurrentPid
<1>1. PICK i \in Sleeping(process_list) : process_list[i].pid = pid
  BY DEF SleepingPids, PidsOf
<1>2. /\ SoundTable(process_list, dim, pid_value)
      /\ i \in Live(process_list) /\ i \in Slots
      /\ process_list[i].state = PAUSED_BY_SEM
      /\ process_list \in [Slots -> Process]
      /\ current_process_idx \in Slots
      /\ process_list[current_process_idx].state = READY
  BY DEF IInv, SoundTable, Sleeping, Live, PAUSED_BY_SEM, DEAD
<1>3. process_list' = WithState(process_list, i, READY)
  BY <1>1, <1>2, ChangeStateOfLive
<1> QED
  BY <1>2, <1>3 DEF WithState, CurrentPid, Process

(* What a program that owns the CPU is.                                    *)
LEMMA ProgramRuns ==
  ASSUME PipeInv, CurrentPid # ShellPid, Calling
  PROVE  /\ CurrentPid \in Programs /\ CurrentPid \in Pids
         /\ CurrentPid \notin SleepingPids(process_list)
         /\ io[CurrentPid] \in {Writer, Reader}
         /\ shell_at # "prompt" /\ shell_at # "first"
         /\ io[CurrentPid] = Writer =>
              waiters = <<>> /\ SleepingPids(process_list) = {}
<1>1. CurrentPid \in Programs
  BY OwnerLives DEF PipeInv, Programs, ProgramsOf, Calling
<1>2. CurrentPid \notin SleepingPids(process_list)
  BY OwnerLives DEF PipeInv
<1>3. shell_at # "prompt" /\ shell_at # "first"
  BY <1>1, NoProgramLeft DEF PipeInv, Programs
<1>4. io[CurrentPid] = Writer => waiters = <<>> /\ SleepingPids(process_list) = {}
  <2>1. ASSUME io[CurrentPid] = Writer
        PROVE  waiters = <<>>
    BY <1>1, <1>2, <2>1 DEF PipeInv, Queue
  <2>2. ASSUME NEW pid \in SleepingPids(process_list)
        PROVE  Len(waiters) = 1
    <3>1. waiters = <<pid>>
      BY DEF PipeInv, Queue
    <3> QED BY <3>1
  <2>3. waiters = <<>> => Len(waiters) = 0
    OBVIOUS
  <2> QED BY <2>1, <2>2, <2>3
<1> QED BY <1>1, <1>2, <1>3, <1>4 DEF PipeInv, Roles

(* A program enters a call: only the first one finds a pipe to write to,   *)
(* only the second one a pipe to read from.                                *)
LEMMA BeginCallInv ==
  ASSUME PipeInv, CurrentPid # ShellPid, NEW c, c = CurrentPid,
         NEW op \in {"write", "read"}, NEW count \in Counts, NEW fd,
         fd = IF op = "write" THEN io[CurrentPid].output ELSE io[CurrentPid].input,
         BeginCall(op, fd, count),
         op = "read" => \E i \in FindPipe(fd) : pipes[i].current_pipe_size > 0,
         UNCHANGED <<shell_at, pipe_id, refused>>
  PROVE  PipeInv'
<1> DEFINE begun == [op |-> op, pos |-> Least(FindPipe(fd)), left |-> count, waited |-> FALSE]
<1>1. /\ Calling /\ ~InCall(c) /\ FindPipe(fd) # {} /\ fd # STDIN
      /\ call' = [call EXCEPT ![c] = begun]
      /\ UNCHANGED <<allVars, pipes, pipes_count, io, got>>
  BY DEF BeginCall
<1>2. /\ IInv /\ QuietTable(process_list) /\ OnePipe /\ IdIsIndex /\ Roles /\ Calls
      /\ Queue /\ PermitsBalance /\ Family(process_list, children_processes, shell_at)
  BY DEF PipeInv
<1>3. /\ c \in Programs /\ c \in Pids /\ c \notin SleepingPids(process_list)
      /\ io[c] \in {Writer, Reader} /\ shell_at # "prompt"
  BY <1>1, ProgramRuns
<1>4. FindPipe(PipeId) = {0} /\ FindPipe(STDOUT) = {}
  BY <1>2, <1>3, Found
<1>5. io[c] = IF op = "write" THEN Writer ELSE Reader
  BY <1>1, <1>3, <1>4 DEF Writer, Reader
<1>6. fd = PipeId
  BY <1>5 DEF Writer, Reader
<1>7. Least(FindPipe(fd)) = 0
  BY <1>4, <1>6, LeastIn, {0} \in SUBSET Nat
<1>8. begun = [op |-> op, pos |-> 0, left |-> count, waited |-> FALSE]
  BY <1>7
<1>9. op = "read" => Used > 0
  BY <1>4, <1>6 DEF Used, ThePipe
<1>10. begun \in CallInfo /\ begun.op = op /\ ~begun.waited
  BY <1>8, PipesAssumption DEF CallInfo
<1> HIDE DEF begun
<1>11. /\ call'[c] = begun /\ \A pid \in Pids : pid # c => call'[pid] = call[pid]
       /\ call' \in [Pids -> CallInfo]
  BY <1>1, <1>2, <1>3, <1>10 DEF Calls
<1>12. /\ process_list' = process_list /\ children_processes' = children_processes
       /\ pid_value' = pid_value /\ Programs' = Programs /\ CurrentPid' = CurrentPid
       /\ UNCHANGED <<vars, io, pipes, semaphores, waiters, buffer, current_sem_amount,
                      shell_at, pipe_id, refused>>
  BY <1>1 DEF allVars, vars, semVars, procVars, Programs, CurrentPid
<1>13. IInv'
  BY <1>2, <1>12, NextIInv
<1>14. Family(process_list', children_processes', shell_at') /\ QuietTable(process_list')
  BY <1>2, <1>12
<1>15. Roles'
  BY <1>2, <1>12 DEF Roles
<1>16. OnePipe' /\ IdIsIndex'
  BY <1>2, <1>12 DEF OnePipe, IdIsIndex, ThePipe, Used
<1>17. Calls'
  <2>1. \A pid \in Pids : pid # c => /\ InCall(pid)' <=> InCall(pid)
                                     /\ call'[pid] = call[pid]
    BY <1>11 DEF InCall
  <2>2. Used' = Used
    BY <1>12 DEF Used, ThePipe
  <2>3. ASSUME NEW pid \in Pids, InCall(pid)'
        PROVE  /\ pid \in Programs'
               /\ io'[pid] = IF call'[pid].op = "write" THEN Writer ELSE Reader
               /\ pid # CurrentPid' => call'[pid].op = "write" /\ call'[pid].waited
               /\ call'[pid].op = "read" => Used' > 0
    <3>1. CASE pid = c
      BY <1>3, <1>5, <1>9, <1>10, <1>11, <1>12, <2>2, <3>1
    <3>2. CASE pid # c
      BY <1>2, <1>12, <2>1, <2>2, <2>3, <3>2 DEF Calls
    <3> QED BY <3>1, <3>2
  <2>4. \A pid \in Pids : ~InCall(pid)' => call'[pid] = NoCall
    <3>1. InCall(c)'
      BY <1>10, <1>11 DEF InCall
    <3> QED BY <1>2, <2>1, <3>1 DEF Calls
  <2> QED BY <1>11, <2>3, <2>4 DEF Calls
<1>18. Queue'
  <2>1. \A pid \in SleepingPids(process_list) : pid \in Programs /\ pid # c /\ pid \in Pids
    BY <1>2, <1>3 DEF Queue, Roles
  <2>2. \A pid \in SleepingPids(process_list) : call'[pid] = call[pid]
    BY <1>11, <2>1
  <2> QED BY <1>2, <1>12, <2>2 DEF Queue, Used, ThePipe
<1>19. PermitsBalance'
  <2>1. \A pid \in Pids : /\ HoldsRead(pid)' <=> HoldsRead(pid)
                          /\ HoldsWrite(pid)' <=> HoldsWrite(pid)
    <3>1. ~HoldsRead(c) /\ ~HoldsWrite(c) /\ ~HoldsRead(c)' /\ ~HoldsWrite(c)'
      BY <1>1, <1>10, <1>11 DEF HoldsRead, HoldsWrite, InCall
    <3>2. \A pid \in Pids : pid # c => /\ HoldsRead(pid)' <=> HoldsRead(pid)
                                       /\ HoldsWrite(pid)' <=> HoldsWrite(pid)
      BY <1>11, <1>12 DEF HoldsRead, HoldsWrite
    <3> QED BY <3>1, <3>2
  <2>2. Readable' = Readable /\ Writable' = Writable /\ Used' = Used
    BY <1>12 DEF Readable, Writable, Used, ThePipe
  <2>3. \A w \in Programs : w \in Pids
    BY <1>2 DEF Roles
  <2>4. One((\E pid \in Pids : HoldsRead(pid))') = One(\E pid \in Pids : HoldsRead(pid))
    BY <2>1 DEF One
  <2>5. \A w \in Programs : One(HoldsWrite(w)') = One(HoldsWrite(w))
    BY <2>1, <2>3 DEF One
  <2> QED BY <1>2, <1>12, <2>2, <2>4, <2>5 DEF PermitsBalance
<1> QED
  BY <1>13, <1>14, <1>15, <1>16, <1>17, <1>18, <1>19 DEF PipeInv
(* The owner of the CPU alone can be in a read, and it holds no permit     *)
(* before its wait.                                                        *)
LEMMA OthersWrite ==
  ASSUME Calls, NEW c, c = CurrentPid
  PROVE  \A pid \in Pids : pid # c /\ InCall(pid) => call[pid].op = "write" /\ call[pid].waited
BY DEF Calls

(* The head of a turn: the caller takes a permit, or it is the writer and  *)
(* falls asleep at a full ring.                                            *)
LEMMA WaitTurnInv ==
  ASSUME PipeInv, CurrentPid # ShellPid, NEW c, c = CurrentPid, WaitTurn,
         UNCHANGED <<shell_at, pipe_id, refused>>
  PROVE  PipeInv'
<1> DEFINE s == IF call[c].op = "write" THEN ThePipe.write_sem_id
                                        ELSE ThePipe.read_sem_id
<1>1. /\ IInv /\ QuietTable(process_list) /\ OnePipe /\ IdIsIndex /\ Roles /\ Calls
      /\ Queue /\ PermitsBalance /\ Family(process_list, children_processes, shell_at)
  BY DEF PipeInv
<1>2. /\ InCall(c) /\ ~call[c].waited /\ Calling
      /\ call' = [call EXCEPT ![c].waited = TRUE]
      /\ UNCHANGED <<pipes, pipes_count, io, got>>
  BY DEF WaitTurn, Here, WaitSem
<1>3. /\ c \in Programs /\ c \in Pids /\ c \notin SleepingPids(process_list)
      /\ shell_at # "prompt" /\ shell_at # "first"
      /\ io[c] = Writer => waiters = <<>> /\ SleepingPids(process_list) = {}
  BY <1>2, ProgramRuns
<1>4. /\ call[c] \in CallInfo /\ call[c].pos = 0 /\ call[c].op \in {"read", "write"}
      /\ io[c] = IF call[c].op = "write" THEN Writer ELSE Reader
      /\ call[c].op = "read" => Used > 0
  BY <1>1, <1>2, <1>3 DEF Calls, CallInfo, InCall
<1>5. s \in SemSlots \ {0} /\ FindSem(s) = s
  BY <1>1, <1>3, FindSemIs DEF OnePipe
<1>6. WaitSem(s)
  BY <1>4 DEF WaitTurn, Here, ThePipe
<1>7. \/ s = ThePipe.write_sem_id /\ call[c].op = "write"
      \/ s = ThePipe.read_sem_id /\ call[c].op = "read"
  BY <1>4
<1> HIDE DEF s
<1>8. /\ call'[c].op = call[c].op /\ call'[c].waited /\ call'[c] \in CallInfo
      /\ \A pid \in Pids : pid # c => call'[pid] = call[pid]
      /\ call' \in [Pids -> CallInfo]
      /\ \A pid \in Pids : InCall(pid)' <=> InCall(pid)
      /\ \A pid \in Pids : call'[pid].op = call[pid].op
  BY <1>1, <1>2, <1>3, <1>4 DEF Calls, CallInfo, InCall
<1>9. \A pid \in Pids : ~HoldsRead(pid)
  BY <1>1, <1>2, OthersWrite DEF HoldsRead, InCall
<1>10. Readable = Used /\ Used \in Nat
  <2>1. Readable + One(\E pid \in Pids : HoldsRead(pid)) = Used
    BY <1>1, <1>3 DEF PermitsBalance
  <2>2. ThePipe \in PipeInfo
    BY <1>1, Found DEF OnePipe, ThePipe
  <2>3. Used \in Nat
    BY <2>2, PipesAssumption DEF Used, PipeInfo
  <2>4. Readable \in Nat
    BY <1>1, <1>3 DEF OnePipe, IdIsIndex, SemInfo, Readable
  <2> QED BY <1>9, <2>1, <2>3, <2>4 DEF One
<1>11. /\ UNCHANGED <<io, pipes, shell_at, pipe_id, refused, buffer, current_sem_amount>>
       /\ Used' = Used /\ ThePipe' = ThePipe
  BY <1>2, <1>6 DEF WaitSem, Used, ThePipe
<1>12. ASSUME process_list' = process_list \/ LivePids(process_list') = LivePids(process_list),
              pid_value' = pid_value
       PROVE  Roles' /\ Calls' /\ Programs' = Programs
  <2>1. Programs' = Programs
    BY <1>12 DEF Programs, ProgramsOf
  <2>2. Roles'
    BY <1>1, <1>11, <1>12, <2>1 DEF Roles
  <2>3. ASSUME NEW pid \in Pids, InCall(pid)'
        PROVE  /\ pid \in Programs'
               /\ io'[pid] = IF call'[pid].op = "write" THEN Writer ELSE Reader
               /\ call'[pid].op = "read" => Used' > 0
    BY <1>1, <1>8, <1>11, <2>1, <2>3 DEF Calls
  <2>4. ASSUME NEW pid \in Pids, InCall(pid)', pid # c \/ call[c].op = "write"
        PROVE  call'[pid].op = "write" /\ call'[pid].waited
    BY <1>1, <1>8, <2>4, OthersWrite
  <2>5. \A pid \in Pids : ~InCall(pid)' => call'[pid] = NoCall
    BY <1>1, <1>2, <1>8 DEF Calls
  <2>6. c = CurrentPid' \/ call[c].op = "write"
    <3>1. CASE semaphores[s].sem_val > 0
      BY <1>5, <1>6, <3>1 DEF WaitSem, vars, procVars, CurrentPid
    <3>2. CASE ~(semaphores[s].sem_val > 0)
      BY <1>4, <1>7, <1>10, <3>2 DEF Readable
    <3> QED BY <3>1, <3>2
  <2>7. Calls'
    BY <1>8, <2>3, <2>4, <2>5, <2>6 DEF Calls
  <2> QED BY <2>1, <2>2, <2>7
<1>13. CASE semaphores[s].sem_val > 0
  <2>1. /\ semaphores' = [semaphores EXCEPT ![s].sem_val = @ - 1]
        /\ UNCHANGED <<vars, waiters>>
    BY <1>5, <1>6, <1>13 DEF WaitSem
  <2>2. /\ process_list' = process_list /\ children_processes' = children_processes
        /\ pid_value' = pid_value
    BY <2>1 DEF vars, procVars
  <2>3. Roles' /\ Calls' /\ Programs' = Programs
    BY <1>12, <2>2
  <2>4. /\ semaphores' \in [SemSlots -> SemInfo]
        /\ semaphores'[s].sem_val = semaphores[s].sem_val - 1
        /\ \A i \in SemSlots : i # s => semaphores'[i] = semaphores[i]
        /\ \A i \in SemSlots : semaphores'[i].sem_id = semaphores[i].sem_id
    BY <1>1, <1>5, <1>13, <2>1 DEF IdIsIndex, SemInfo
  <2>5. IdIsIndex' /\ OnePipe'
    BY <1>1, <1>11, <2>4 DEF IdIsIndex, OnePipe
  <2>6. IInv'
    BY <1>1, <2>1, NextIInv
  <2>7. Family(process_list', children_processes', shell_at') /\ QuietTable(process_list')
    BY <1>1, <1>11, <2>2
  <2>8. Queue'
    <3>1. \A pid \in SleepingPids(process_list) : pid # c /\ pid \in Pids
      BY <1>1, <1>3 DEF Queue, Roles
    <3>2. \A pid \in SleepingPids(process_list) : call'[pid] = call[pid]
      BY <1>8, <3>1
    <3> QED BY <1>1, <1>3, <1>11, <2>1, <2>2, <2>3, <3>2 DEF Queue
  <2>9. /\ ThePipe.read_sem_id \in SemSlots /\ ThePipe.write_sem_id \in SemSlots
        /\ ThePipe.read_sem_id # ThePipe.write_sem_id
    BY <1>1, <1>3 DEF OnePipe
  <2>10. \A pid \in Pids : pid # c => /\ ~HoldsRead(pid)'
                                      /\ HoldsWrite(pid)' <=> HoldsWrite(pid)
    BY <1>8, <1>9, <2>2 DEF HoldsRead, HoldsWrite
  <2>11. PermitsBalance'
    <3>1. CASE call[c].op = "read"
      <4>1. Readable' = Readable - 1 /\ Writable' = Writable
        BY <1>7, <1>11, <2>4, <2>9, <3>1 DEF Readable, Writable
      <4>2. HoldsRead(c)'
        BY <1>8, <3>1 DEF HoldsRead
      <4>3. Readable' + One((\E pid \in Pids : HoldsRead(pid))') = Used'
        BY <1>3, <1>10, <1>11, <4>1, <4>2 DEF One
      <4>4. \A w \in Programs : io[w] = Writer => w # c /\ w \in Pids
        BY <1>1, <1>4, <3>1, BootPids DEF Roles
      <4>5. \A w \in Programs' : io'[w] = Writer =>
              Writable' + One(HoldsWrite(w)') + Used' = PIPE_SIZE
        BY <1>1, <1>3, <1>11, <2>3, <2>10, <4>1, <4>4 DEF PermitsBalance, One
      <4> QED BY <1>3, <1>11, <4>3, <4>5 DEF PermitsBalance
    <3>2. CASE call[c].op = "write"
      <4>1. Readable' = Readable /\ Writable' = Writable - 1
        BY <1>7, <1>11, <2>4, <2>9, <3>2 DEF Readable, Writable
      <4>2. HoldsWrite(c)' /\ ~HoldsWrite(c) /\ ~HoldsRead(c)'
        BY <1>2, <1>3, <1>8, <2>2, <3>2 DEF HoldsWrite, HoldsRead
      <4>3. Readable' + One((\E pid \in Pids : HoldsRead(pid))') = Used'
        BY <1>10, <1>11, <2>10, <4>1, <4>2 DEF One
      <4>4. \A w \in Programs : io[w] = Writer => w = c
        BY <1>1, <1>3, <1>4, <3>2 DEF Roles
      <4>5. Writable + 0 + Used = PIPE_SIZE
        BY <1>1, <1>3, <1>4, <3>2, <4>2 DEF PermitsBalance, One
      <4>6. Writable \in Nat
        BY <1>1, <2>9 DEF IdIsIndex, SemInfo, Writable
      <4>7. Writable' + One(HoldsWrite(c)') + Used' = PIPE_SIZE
        BY <1>10, <1>11, <4>1, <4>2, <4>5, <4>6 DEF One
      <4> QED BY <1>3, <1>11, <2>3, <4>3, <4>4, <4>7 DEF PermitsBalance
    <3> QED BY <1>4, <3>1, <3>2
  <2> QED BY <2>3, <2>5, <2>6, <2>7, <2>8, <2>11 DEF PipeInv
<1>14. CASE ~(semaphores[s].sem_val > 0)
  <2>1. /\ waiters' = Enqueue(waiters, c)
        /\ ForceTimerTick(ChangeProcessState(process_list, CurrentPid, PAUSED_BY_SEM), dim, 0)
        /\ UNCHANGED <<semaphores, dim, pid_value, children_processes>>
    BY <1>5, <1>6, <1>14 DEF WaitSem
  <2>2. call[c].op = "write" /\ s = ThePipe.write_sem_id
    BY <1>4, <1>7, <1>10, <1>14 DEF Readable
  <2>3. waiters = <<>> /\ SleepingPids(process_list) = {}
    BY <1>3, <1>4, <2>2
  <2>4. waiters' = <<c>>
    BY <2>1, <2>3, SemaphoresAssumption DEF Enqueue
  <2>5. /\ QuietTable(process_list')
        /\ Family(process_list', children_processes', shell_at')
        /\ LivePids(process_list') = LivePids(process_list)
    BY <1>1, <1>2, <1>11, <2>1, SleepKeepsFamily
  <2>6. SleepingPids(process_list') = {c}
    BY <1>1, <1>2, <2>1, <2>3, CallerFallsAsleep
  <2>7. IInv'
    BY <1>1, <2>1, SleepKeepsIInv
  <2>8. Roles' /\ Calls' /\ Programs' = Programs
    BY <1>12, <2>1, <2>5
  <2>9. IdIsIndex' /\ OnePipe'
    BY <1>1, <1>11, <2>1 DEF IdIsIndex, OnePipe
  <2>10. \A w \in Programs : io[w] = Writer => w = c
    BY <1>1, <1>3, <1>4, <2>2 DEF Roles
  <2>11. Writable' = Writable /\ Readable' = Readable
    BY <1>11, <2>1 DEF Writable, Readable
  <2>12. Writable = 0 /\ Used = PIPE_SIZE
    <3>1. Writable + One(HoldsWrite(c)) + Used = PIPE_SIZE /\ ~HoldsWrite(c)
      BY <1>1, <1>2, <1>3, <1>4, <2>2 DEF PermitsBalance, HoldsWrite
    <3>2. Writable \in Nat /\ ~(Writable > 0)
      BY <1>1, <1>5, <1>14, <2>2 DEF IdIsIndex, SemInfo, Writable
    <3> QED BY <1>10, <3>1, <3>2 DEF One
  <2>13. Queue'
    <3>1. c # ShellPid /\ c # idle_pid /\ c < pid_value'
      <4>1. \A i \in Live(process_list) : process_list[i].pid < pid_value
        BY <1>1 DEF IInv, SoundTable
      <4>2. c < pid_value
        BY <1>1, <4>1, OwnerLives DEF CurrentPid
      <4> QED BY <1>2, <2>1, <4>2 DEF Calling
    <3> QED
      BY <1>3, <1>4, <1>8, <1>11, <2>2, <2>4, <2>6, <2>8, <2>10, <2>12, <3>1 DEF Queue
  <2>14. PermitsBalance'
    <3>1. ~HoldsWrite(c)' /\ ~HoldsRead(c)'
      BY <1>8, <2>2, <2>6 DEF HoldsWrite, HoldsRead
    <3>2. \A pid \in Pids : ~HoldsRead(pid)'
      BY <1>8, <1>9, <3>1 DEF HoldsRead
    <3>3. Readable' + One((\E pid \in Pids : HoldsRead(pid))') = Used'
      BY <1>10, <1>11, <2>11, <3>2 DEF One
    <3>4. Writable' + One(HoldsWrite(c)') + Used' = PIPE_SIZE
      BY <1>10, <1>11, <2>11, <2>12, <3>1 DEF One
    <3> QED BY <1>3, <1>11, <2>8, <2>10, <3>3, <3>4 DEF PermitsBalance
  <2> QED BY <2>5, <2>7, <2>8, <2>9, <2>13, <2>14 DEF PipeInv
<1> QED BY <1>13, <1>14
(* A number below the divisor is its own remainder.                         *)
LEMMA SmallMod ==
  ASSUME NEW n \in Nat, NEW a \in 0 .. n - 1
  PROVE  (a % n) = a
<1>1. \A q \in Int : \A i \in 0 .. n - 1 : \A b \in Int : b = n * q + i => (b % n) = i
  BY ModIs, Zenon
<1>2. \A b \in Int : b = n * 0 + a => (b % n) = a
  BY <1>1, 0 \in Int, Zenon
<1>3. a \in Int /\ a = n * 0 + a
  OBVIOUS
<1> QED BY <1>2, <1>3, Zenon

(* The place k after place r of the ring.                                  *)
LEMMA RingPlace ==
  ASSUME NEW r \in Ring, NEW k \in 0 .. PIPE_SIZE
  PROVE  (r + k) % PIPE_SIZE = IF r + k < PIPE_SIZE THEN r + k ELSE r + k - PIPE_SIZE
<1>1. PIPE_SIZE \in Nat /\ PIPE_SIZE > 0 /\ r \in 0 .. PIPE_SIZE - 1
  BY PipesAssumption DEF Ring
<1>2. CASE r + k < PIPE_SIZE
  <2>1. r + k \in 0 .. PIPE_SIZE - 1
    BY <1>1, <1>2
  <2>2. ((r + k) % PIPE_SIZE) = r + k
    BY <1>1, <2>1, SmallMod, Zenon
  <2> QED BY <1>2, <2>2
<1>3. CASE ~(r + k < PIPE_SIZE)
  <2>1. \A a \in Int : \A i \in 0 .. PIPE_SIZE - 1 : a = PIPE_SIZE * 1 + i => (a % PIPE_SIZE) = i
    BY <1>1, ModIs, 1 \in Int, Zenon
  <2>2. r + k \in Int /\ r + k - PIPE_SIZE \in 0 .. PIPE_SIZE - 1
    BY <1>1, <1>3
  <2>3. r + k = PIPE_SIZE * 1 + (r + k - PIPE_SIZE)
    BY <1>1
  <2>4. ((r + k) % PIPE_SIZE) = r + k - PIPE_SIZE
    BY <2>1, <2>2, <2>3, Zenon
  <2> QED BY <1>3, <2>4
<1> QED BY <1>2, <1>3

(* The end of a turn gives up the permit.                                  *)
LEMMA NextTurnDoes ==
  ASSUME Calls, NEW c \in Pids, c = CurrentPid, InCall(c), NEW more \in BOOLEAN, NextTurn(more)
  PROVE  /\ call' \in [Pids -> CallInfo] /\ ~call'[c].waited
         /\ \A pid \in Pids : pid # c => call'[pid] = call[pid]
         /\ \/ call'[c] = NoCall
            \/ more /\ call'[c].op = call[c].op
         /\ \A pid \in Pids : ~InCall(pid)' => call'[pid] = NoCall
         /\ \A pid \in Pids : InCall(pid)' => InCall(pid) /\ call'[pid].op = call[pid].op
<1> DEFINE turned == IF call[c].left > 1 /\ more
                       THEN [call[c] EXCEPT !.left = @ - 1, !.waited = FALSE]
                       ELSE NoCall
<1>1. call' = [call EXCEPT ![c] = turned]
  BY DEF NextTurn, Here
<1>2. call \in [Pids -> CallInfo] /\ call[c] \in CallInfo
  BY DEF Calls
<1>3. NoCall \in CallInfo /\ ~NoCall.waited
  BY DEF NoCall, CallInfo
<1>4. CASE call[c].left > 1 /\ more
  <2>1. turned = [call[c] EXCEPT !.left = @ - 1, !.waited = FALSE]
    BY <1>4, Zenon
  <2>2. call[c].left - 1 \in Nat
    BY <1>2, <1>4 DEF CallInfo
  <2> HIDE DEF turned
  <2>3. /\ turned \in CallInfo /\ ~turned.waited /\ turned.op = call[c].op
    BY <1>2, <2>1, <2>2 DEF CallInfo
  <2> QED BY <1>1, <1>2, <1>4, <2>3 DEF Calls, InCall
<1>5. CASE ~(call[c].left > 1 /\ more)
  <2>1. turned = NoCall
    BY <1>5
  <2> HIDE DEF turned
  <2>2. NoCall.op = "none"
    BY DEF NoCall
  <2> QED BY <1>1, <1>2, <1>3, <2>1, <2>2 DEF Calls, InCall
<1> QED BY <1>4, <1>5

(* What a turn of the writer does: the ring has room, nobody sleeps, and   *)
(* the reader gets a permit.                                               *)
LEMMA StoreByteDoes ==
  ASSUME PipeInv, CurrentPid # ShellPid, NEW c, c = CurrentPid,
         NEW b \in Bytes, StoreByte(b)
  PROVE  /\ c \in Programs /\ c \in Pids /\ shell_at # "prompt" /\ shell_at # "first"
         /\ InCall(c) /\ call[c].op = "write" /\ call[c].waited /\ io[c] = Writer
         /\ waiters = <<>> /\ SleepingPids(process_list) = {}
         /\ ThePipe \in PipeInfo /\ ThePipe' \in PipeInfo
         /\ Used \in Nat /\ Used < PIPE_SIZE /\ Writable + 1 + Used = PIPE_SIZE
         /\ semaphores' = [semaphores EXCEPT ![ThePipe.read_sem_id].sem_val = @ + 1]
         /\ UNCHANGED <<vars, waiters, buffer, current_sem_amount, io, got>>
         /\ \A i \in PipeSlots : i # 0 => pipes'[i] = pipes[i]
         /\ pipes' \in [PipeSlots -> PipeInfo]
         /\ ThePipe'.pipe_buffer = [ThePipe.pipe_buffer EXCEPT ![ThePipe.pipe_write_id] = b]
         /\ ThePipe'.pipe_write_id = (ThePipe.pipe_write_id + 1) % PIPE_SIZE
         /\ ThePipe'.pipe_read_id = ThePipe.pipe_read_id
         /\ Used' = Used + 1
         /\ ThePipe'.pipe_id = ThePipe.pipe_id
         /\ ThePipe'.read_sem_id = ThePipe.read_sem_id
         /\ ThePipe'.write_sem_id = ThePipe.write_sem_id
         /\ NextTurn(TRUE)
<1>1. /\ OnePipe /\ IdIsIndex /\ Roles /\ Calls /\ Queue /\ PermitsBalance
  BY DEF PipeInv
<1>2. /\ call[c].op = "write" /\ call[c].waited /\ InCall(c) /\ Calling
      /\ NextTurn(TRUE) /\ UNCHANGED <<pipes_count, io, got>>
  BY DEF StoreByte, Here, InCall, PostSem
<1>3. /\ c \in Programs /\ c \in Pids /\ c \notin SleepingPids(process_list)
      /\ shell_at # "prompt" /\ shell_at # "first"
      /\ io[c] = Writer => waiters = <<>> /\ SleepingPids(process_list) = {}
  BY <1>2, ProgramRuns
<1>4. /\ call[c] \in CallInfo /\ call[c].pos = 0 /\ io[c] = Writer
  BY <1>1, <1>2, <1>3 DEF Calls, CallInfo
<1>5. /\ 0 \in PipeSlots /\ pipes \in [PipeSlots -> PipeInfo] /\ ThePipe \in PipeInfo
      /\ PIPE_SIZE \in Nat \ {0}
  BY <1>1, Found, PipesAssumption DEF OnePipe, ThePipe
<1>6. Writable + 1 + Used = PIPE_SIZE
  BY <1>1, <1>2, <1>3, <1>4 DEF PermitsBalance, HoldsWrite, One
<1>7. Writable \in Nat /\ Used \in Nat
  BY <1>1, <1>3, <1>5 DEF OnePipe, IdIsIndex, SemInfo, Writable, Used, PipeInfo
<1>8. FindSem(ThePipe.read_sem_id) = ThePipe.read_sem_id
  BY <1>1, <1>3, FindSemIs DEF OnePipe
<1>9. PostSem(ThePipe.read_sem_id)
  BY <1>4 DEF StoreByte, Here, ThePipe
<1>10. /\ semaphores' = [semaphores EXCEPT ![ThePipe.read_sem_id].sem_val = @ + 1]
       /\ UNCHANGED <<vars, waiters, buffer, current_sem_amount>>
  BY <1>3, <1>4, <1>8, <1>9 DEF PostSem
<1> DEFINE w == ThePipe.pipe_write_id
<1>11. pipes' = [pipes EXCEPT ![0].pipe_buffer[w] = b,
                              ![0].pipe_write_id = (@ + 1) % PIPE_SIZE,
                              ![0].current_pipe_size = @ + 1]
  BY <1>4 DEF StoreByte, Here, ThePipe
<1>12. w \in Ring /\ (w + 1) % PIPE_SIZE \in Ring
  <2>1. w \in Ring /\ w + 1 \in Int
    BY <1>5 DEF PipeInfo, Ring
  <2>2. (w + 1) % PIPE_SIZE \in 0 .. PIPE_SIZE - 1
    BY <1>5, <2>1, ModInRange, Zenon
  <2> QED BY <2>1, <2>2 DEF Ring
<1>13. [ThePipe.pipe_buffer EXCEPT ![w] = b] \in [Ring -> Bytes \cup {Nothing}]
  BY <1>5 DEF PipeInfo
<1>14. Used + 1 \in 0 .. PIPE_SIZE
  BY <1>5, <1>6, <1>7
<1> DEFINE q == [ThePipe.pipe_buffer EXCEPT ![w] = b]
           v == (w + 1) % PIPE_SIZE
           new == [ThePipe EXCEPT !.pipe_buffer = q, !.pipe_write_id = v,
                                  !.current_pipe_size = Used + 1]
<1>15. pipes' = [pipes EXCEPT ![0] = new]
  BY <1>5, <1>11 DEF ThePipe, PipeInfo, Used
<1>16. q \in [Ring -> Bytes \cup {Nothing}] /\ v \in Ring
  BY <1>12, <1>13
<1> HIDE DEF q, v
<1>17. /\ new \in PipeInfo /\ new.pipe_buffer = q /\ new.pipe_write_id = v
       /\ new.current_pipe_size = Used + 1 /\ new.pipe_read_id = ThePipe.pipe_read_id
       /\ new.pipe_id = ThePipe.pipe_id /\ new.read_sem_id = ThePipe.read_sem_id
       /\ new.write_sem_id = ThePipe.write_sem_id
  BY <1>5, <1>14, <1>16 DEF PipeInfo
<1> HIDE DEF new
<1>18. ThePipe' = new /\ \A i \in PipeSlots : i # 0 => pipes'[i] = pipes[i]
  BY <1>5, <1>15 DEF ThePipe
<1>19. pipes' \in [PipeSlots -> PipeInfo]
  BY <1>5, <1>15, <1>17
<1>20. Used' = Used + 1
  BY <1>17, <1>18 DEF Used
<1>21. Used < PIPE_SIZE
  BY <1>5, <1>6, <1>7
<1>22. /\ ThePipe'.pipe_buffer = [ThePipe.pipe_buffer EXCEPT ![ThePipe.pipe_write_id] = b]
       /\ ThePipe'.pipe_write_id = (ThePipe.pipe_write_id + 1) % PIPE_SIZE
  BY <1>17, <1>18 DEF q, v
<1> QED
  BY <1>2, <1>3, <1>4, <1>5, <1>6, <1>7, <1>10, <1>17, <1>18, <1>19, <1>20, <1>21, <1>22

LEMMA StoreByteInv ==
  ASSUME PipeInv, CurrentPid # ShellPid, NEW c, c = CurrentPid,
         NEW b \in Bytes, StoreByte(b), UNCHANGED <<shell_at, pipe_id, refused>>
  PROVE  PipeInv'
<1>1. /\ IInv /\ QuietTable(process_list) /\ OnePipe /\ IdIsIndex /\ Roles /\ Calls
      /\ Queue /\ PermitsBalance /\ Family(process_list, children_processes, shell_at)
  BY DEF PipeInv
<1>2. /\ c \in Programs /\ c \in Pids /\ shell_at # "prompt" /\ shell_at # "first"
      /\ InCall(c) /\ call[c].op = "write" /\ call[c].waited /\ io[c] = Writer
      /\ waiters = <<>> /\ SleepingPids(process_list) = {}
      /\ ThePipe \in PipeInfo
      /\ Used \in Nat /\ Used < PIPE_SIZE /\ Writable + 1 + Used = PIPE_SIZE
  BY StoreByteDoes
<1>3. /\ semaphores' = [semaphores EXCEPT ![ThePipe.read_sem_id].sem_val = @ + 1]
      /\ UNCHANGED <<vars, waiters, buffer, current_sem_amount, io, got>>
      /\ \A i \in PipeSlots : i # 0 => pipes'[i] = pipes[i]
      /\ pipes' \in [PipeSlots -> PipeInfo]
  BY StoreByteDoes
<1>4. /\ ThePipe'.pipe_write_id = (ThePipe.pipe_write_id + 1) % PIPE_SIZE
      /\ ThePipe'.pipe_read_id = ThePipe.pipe_read_id
      /\ Used' = Used + 1
      /\ ThePipe'.pipe_id = ThePipe.pipe_id
      /\ ThePipe'.read_sem_id = ThePipe.read_sem_id
      /\ ThePipe'.write_sem_id = ThePipe.write_sem_id
      /\ NextTurn(TRUE)
  BY StoreByteDoes
<1>5. /\ process_list' = process_list /\ children_processes' = children_processes
      /\ pid_value' = pid_value /\ Programs' = Programs /\ CurrentPid' = CurrentPid
  BY <1>3 DEF vars, procVars, Programs, CurrentPid
<1>6. /\ ThePipe.read_sem_id \in SemSlots /\ ThePipe.write_sem_id \in SemSlots
      /\ ThePipe.read_sem_id # ThePipe.write_sem_id
  BY <1>1, <1>2 DEF OnePipe
<1>7. /\ semaphores' \in [SemSlots -> SemInfo]
      /\ \A i \in SemSlots : semaphores'[i].sem_id = semaphores[i].sem_id
      /\ Readable' = Readable + 1 /\ Writable' = Writable
      /\ Readable \in Nat
  BY <1>1, <1>3, <1>4, <1>6 DEF IdIsIndex, SemInfo, Readable, Writable
<1>8. IInv' /\ Family(process_list', children_processes', shell_at')
      /\ QuietTable(process_list')
  BY <1>1, <1>3, <1>5, NextIInv
<1>9. Roles'
  BY <1>1, <1>3, <1>5 DEF Roles
<1>10. IdIsIndex'
  BY <1>1, <1>3, <1>7 DEF IdIsIndex
<1>11. OnePipe'
  <2>1. ThePipe.pipe_read_id \in Ring /\ ThePipe.pipe_write_id \in Ring
        /\ PIPE_SIZE \in Nat /\ PIPE_SIZE > 0
    BY <1>2, PipesAssumption DEF PipeInfo
  <2>2. ThePipe.pipe_write_id = (ThePipe.pipe_read_id + Used) % PIPE_SIZE
    BY <1>1, <1>2 DEF OnePipe
  <2>3. /\ Used \in 0 .. PIPE_SIZE /\ Used + 1 \in 0 .. PIPE_SIZE /\ 1 \in 0 .. PIPE_SIZE
    BY <1>2, <2>1
  <2> DEFINE x == (ThePipe.pipe_write_id + 1) % PIPE_SIZE
             y == (ThePipe.pipe_read_id + (Used + 1)) % PIPE_SIZE
             z == (ThePipe.pipe_read_id + Used) % PIPE_SIZE
  <2>4. x = y
    <3>1. z = IF ThePipe.pipe_read_id + Used < PIPE_SIZE THEN ThePipe.pipe_read_id + Used
              ELSE ThePipe.pipe_read_id + Used - PIPE_SIZE
      BY <2>1, <2>3, RingPlace
    <3>2. y = IF ThePipe.pipe_read_id + (Used + 1) < PIPE_SIZE
                THEN ThePipe.pipe_read_id + (Used + 1)
              ELSE ThePipe.pipe_read_id + (Used + 1) - PIPE_SIZE
      BY <2>1, <2>3, RingPlace
    <3>3. x = IF ThePipe.pipe_write_id + 1 < PIPE_SIZE THEN ThePipe.pipe_write_id + 1
              ELSE ThePipe.pipe_write_id + 1 - PIPE_SIZE
      BY <2>1, <2>3, RingPlace
    <3>4. ThePipe.pipe_write_id = z
      BY <2>2
    <3> DEFINE r == ThePipe.pipe_read_id
    <3>5. r \in Nat /\ r < PIPE_SIZE /\ Used \in Nat /\ Used < PIPE_SIZE
      BY <1>2, <2>1 DEF Ring
    <3>6. x = IF z + 1 < PIPE_SIZE THEN z + 1 ELSE z + 1 - PIPE_SIZE
      BY <3>3, <3>4
    <3> HIDE DEF x, y, z, r
    <3>7. CASE r + Used < PIPE_SIZE
      BY <2>1, <3>1, <3>2, <3>5, <3>6, <3>7 DEF r
    <3>8. CASE ~(r + Used < PIPE_SIZE)
      BY <2>1, <3>1, <3>2, <3>5, <3>6, <3>8 DEF r
    <3> QED BY <3>7, <3>8
  <2> QED BY <1>1, <1>2, <1>3, <1>4, <1>6, <1>7, <2>4 DEF OnePipe
<1>12. /\ call' \in [Pids -> CallInfo] /\ ~call'[c].waited
       /\ \A pid \in Pids : pid # c => call'[pid] = call[pid]
       /\ \A pid \in Pids : ~InCall(pid)' => call'[pid] = NoCall
       /\ \A pid \in Pids : InCall(pid)' => InCall(pid) /\ call'[pid].op = call[pid].op
  BY <1>1, <1>2, <1>4, NextTurnDoes
<1>13. \A pid \in Pids : InCall(pid) => call[pid].op = "write"
  BY <1>1, <1>2, OthersWrite
<1>14. Calls'
  BY <1>1, <1>3, <1>5, <1>12, <1>13 DEF Calls
<1>15. Queue'
  BY <1>2, <1>3, <1>5 DEF Queue
<1>16. PermitsBalance'
  <2>1. \A pid \in Pids : ~HoldsRead(pid) /\ ~HoldsRead(pid)'
    BY <1>12, <1>13 DEF HoldsRead, InCall
  <2>2. ~HoldsWrite(c)'
    BY <1>12 DEF HoldsWrite
  <2>3. Readable + 0 = Used
    BY <1>1, <1>2, <2>1 DEF PermitsBalance, One
  <2>4. Readable' + One((\E pid \in Pids : HoldsRead(pid))') = Used'
    BY <1>2, <1>4, <1>7, <2>1, <2>3 DEF One
  <2>5. \A v \in Programs : io[v] = Writer => v = c
    BY <1>1, <1>2 DEF Roles
  <2>6. Writable' + One(HoldsWrite(c)') + Used' = PIPE_SIZE
    <3>1. Writable \in Nat
      BY <1>1, <1>6 DEF IdIsIndex, SemInfo, Writable
    <3> QED BY <1>2, <1>4, <1>7, <2>2, <3>1 DEF One
  <2> QED BY <1>2, <1>3, <1>5, <2>4, <2>5, <2>6 DEF PermitsBalance
<1> QED
  BY <1>8, <1>9, <1>10, <1>11, <1>14, <1>15, <1>16 DEF PipeInv
(* What a turn of the reader does to the pipe, and its semaphore.          *)
LEMMA TakeByteDoes ==
  ASSUME PipeInv, CurrentPid # ShellPid, NEW c, c = CurrentPid, TakeByte
  PROVE  /\ c \in Programs /\ c \in Pids /\ c \notin SleepingPids(process_list)
         /\ shell_at # "prompt" /\ shell_at # "first" /\ Calling
         /\ InCall(c) /\ call[c].op = "read" /\ call[c].waited /\ io[c] = Reader
         /\ ThePipe \in PipeInfo /\ ThePipe' \in PipeInfo
         /\ Used \in Nat /\ Used > 0 /\ Readable + 1 = Used
         /\ FindSem(ThePipe.write_sem_id) = ThePipe.write_sem_id
         /\ PostSem(ThePipe.write_sem_id)
         /\ got' = ThePipe.pipe_buffer[ThePipe.pipe_read_id]
         /\ UNCHANGED <<io, buffer, current_sem_amount>>
         /\ \A i \in PipeSlots : i # 0 => pipes'[i] = pipes[i]
         /\ pipes' \in [PipeSlots -> PipeInfo]
         /\ ThePipe'.pipe_buffer = ThePipe.pipe_buffer
         /\ ThePipe'.pipe_write_id = ThePipe.pipe_write_id
         /\ ThePipe'.pipe_read_id = (ThePipe.pipe_read_id + 1) % PIPE_SIZE
         /\ Used' = Used - 1
         /\ ThePipe'.pipe_id = ThePipe.pipe_id
         /\ ThePipe'.read_sem_id = ThePipe.read_sem_id
         /\ ThePipe'.write_sem_id = ThePipe.write_sem_id
         /\ NextTurn(Used > 1)
<1>1. /\ OnePipe /\ IdIsIndex /\ Roles /\ Calls /\ Queue /\ PermitsBalance
  BY DEF PipeInv
<1>2. /\ call[c].op = "read" /\ call[c].waited /\ InCall(c) /\ Calling
      /\ UNCHANGED <<pipes_count, io>>
  BY DEF TakeByte, Here, InCall, PostSem
<1>3. /\ c \in Programs /\ c \in Pids /\ c \notin SleepingPids(process_list)
      /\ shell_at # "prompt" /\ shell_at # "first"
  BY <1>2, ProgramRuns
<1>4. /\ call[c] \in CallInfo /\ call[c].pos = 0 /\ io[c] = Reader /\ Used > 0
  BY <1>1, <1>2, <1>3 DEF Calls, CallInfo
<1>5. /\ 0 \in PipeSlots /\ pipes \in [PipeSlots -> PipeInfo] /\ ThePipe \in PipeInfo
      /\ PIPE_SIZE \in Nat \ {0}
  BY <1>1, Found, PipesAssumption DEF OnePipe, ThePipe
<1>6. Readable + 1 = Used
  <2>1. \E pid \in Pids : HoldsRead(pid)
    BY <1>2, <1>3 DEF HoldsRead
  <2> QED BY <1>1, <1>3, <2>1 DEF PermitsBalance, One
<1>7. Used \in Nat /\ Used <= PIPE_SIZE
  BY <1>5 DEF Used, PipeInfo
<1>8. FindSem(ThePipe.write_sem_id) = ThePipe.write_sem_id
  BY <1>1, <1>3, FindSemIs DEF OnePipe
<1>9. /\ PostSem(ThePipe.write_sem_id) /\ NextTurn(Used > 1)
      /\ got' = ThePipe.pipe_buffer[ThePipe.pipe_read_id]
  BY <1>4 DEF TakeByte, Here, ThePipe, Used
<1>10. UNCHANGED <<buffer, current_sem_amount>>
  BY <1>9 DEF PostSem
<1> DEFINE r == ThePipe.pipe_read_id
           v == (r + 1) % PIPE_SIZE
           new == [ThePipe EXCEPT !.pipe_read_id = v, !.current_pipe_size = Used - 1]
<1>11. pipes' = [pipes EXCEPT ![0].pipe_read_id = (@ + 1) % PIPE_SIZE,
                              ![0].current_pipe_size = @ - 1]
  BY <1>4 DEF TakeByte, Here
<1>12. r \in Ring /\ v \in Ring
  <2>1. r \in Ring /\ r + 1 \in Int
    BY <1>5 DEF PipeInfo, Ring
  <2>2. (r + 1) % PIPE_SIZE \in 0 .. PIPE_SIZE - 1
    BY <1>5, <2>1, ModInRange, Zenon
  <2> QED BY <2>1, <2>2 DEF Ring
<1>13. pipes' = [pipes EXCEPT ![0] = new]
  BY <1>5, <1>11 DEF ThePipe, PipeInfo, Used
<1>14. Used - 1 \in 0 .. PIPE_SIZE
  BY <1>4, <1>5, <1>7
<1> HIDE DEF v
<1>15. /\ new \in PipeInfo /\ new.pipe_buffer = ThePipe.pipe_buffer
       /\ new.pipe_write_id = ThePipe.pipe_write_id
       /\ new.current_pipe_size = Used - 1 /\ new.pipe_read_id = v
       /\ new.pipe_id = ThePipe.pipe_id /\ new.read_sem_id = ThePipe.read_sem_id
       /\ new.write_sem_id = ThePipe.write_sem_id
  BY <1>5, <1>12, <1>14 DEF PipeInfo
<1> HIDE DEF new
<1>16. ThePipe' = new /\ \A i \in PipeSlots : i # 0 => pipes'[i] = pipes[i]
  BY <1>5, <1>13 DEF ThePipe
<1>17. pipes' \in [PipeSlots -> PipeInfo]
  BY <1>5, <1>13, <1>15
<1>18. Used' = Used - 1
  BY <1>15, <1>16 DEF Used
<1>19. ThePipe'.pipe_read_id = (ThePipe.pipe_read_id + 1) % PIPE_SIZE
  BY <1>15, <1>16 DEF v
<1> QED
  BY <1>2, <1>3, <1>4, <1>5, <1>6, <1>7, <1>8, <1>9, <1>10, <1>15, <1>16, <1>17, <1>18, <1>19

LEMMA TakeByteInv ==
  ASSUME PipeInv, CurrentPid # ShellPid, NEW c, c = CurrentPid, TakeByte,
         UNCHANGED <<shell_at, pipe_id, refused>>
  PROVE  PipeInv'
<1>1. /\ IInv /\ QuietTable(process_list) /\ OnePipe /\ IdIsIndex /\ Roles /\ Calls
      /\ Queue /\ PermitsBalance /\ Family(process_list, children_processes, shell_at)
  BY DEF PipeInv
<1>2. /\ c \in Programs /\ c \in Pids /\ c \notin SleepingPids(process_list)
      /\ shell_at # "prompt" /\ shell_at # "first"
      /\ InCall(c) /\ call[c].op = "read" /\ call[c].waited /\ io[c] = Reader
      /\ ThePipe \in PipeInfo
      /\ Used \in Nat /\ Used > 0 /\ Readable + 1 = Used
      /\ FindSem(ThePipe.write_sem_id) = ThePipe.write_sem_id
      /\ PostSem(ThePipe.write_sem_id)
  BY TakeByteDoes
<1>3. /\ UNCHANGED <<io, buffer, current_sem_amount>>
      /\ \A i \in PipeSlots : i # 0 => pipes'[i] = pipes[i]
      /\ pipes' \in [PipeSlots -> PipeInfo]
      /\ ThePipe'.pipe_write_id = ThePipe.pipe_write_id
      /\ ThePipe'.pipe_read_id = (ThePipe.pipe_read_id + 1) % PIPE_SIZE
      /\ Used' = Used - 1
      /\ ThePipe'.pipe_id = ThePipe.pipe_id
      /\ ThePipe'.read_sem_id = ThePipe.read_sem_id
      /\ ThePipe'.write_sem_id = ThePipe.write_sem_id
      /\ NextTurn(Used > 1)
  BY TakeByteDoes
<1> DEFINE r == ThePipe.read_sem_id
           w == ThePipe.write_sem_id
<1>4. /\ r \in SemSlots /\ w \in SemSlots /\ r # w
      /\ semaphores[r] \in SemInfo /\ semaphores[w] \in SemInfo
      /\ Readable \in Nat /\ Writable \in Nat
  BY <1>1, <1>2 DEF OnePipe, IdIsIndex, SemInfo, Readable, Writable
<1>5. buffer = "live"
  BY <1>1, <1>2 DEF IdIsIndex
<1>6. /\ call' \in [Pids -> CallInfo] /\ ~call'[c].waited
      /\ \A pid \in Pids : pid # c => call'[pid] = call[pid]
      /\ \A pid \in Pids : ~InCall(pid)' => call'[pid] = NoCall
      /\ \A pid \in Pids : InCall(pid)' => InCall(pid) /\ call'[pid].op = call[pid].op
      /\ call'[c] = NoCall \/ (Used > 1 /\ call'[c].op = call[c].op)
  <2> DEFINE more == Used > 1
  <2>1. more \in BOOLEAN /\ NextTurn(more)
    BY <1>3
  <2> HIDE DEF more
  <2>2. /\ call' \in [Pids -> CallInfo] /\ ~call'[c].waited
        /\ \A pid \in Pids : pid # c => call'[pid] = call[pid]
        /\ \A pid \in Pids : ~InCall(pid)' => call'[pid] = NoCall
        /\ \A pid \in Pids : InCall(pid)' => InCall(pid) /\ call'[pid].op = call[pid].op
        /\ call'[c] = NoCall \/ (more /\ call'[c].op = call[c].op)
    BY <1>1, <1>2, <2>1, NextTurnDoes
  <2> QED BY <2>2 DEF more
<1>7. \A pid \in Pids : pid # c /\ InCall(pid) => call[pid].op = "write" /\ call[pid].waited
  BY <1>1, OthersWrite
<1>8. /\ \A pid \in Pids : ~HoldsRead(pid)'
      /\ ~InCall(c)' \/ Used' > 0
  <2>1. NoCall.op = "none"
    BY DEF NoCall
  <2> QED BY <1>2, <1>3, <1>6, <1>7, <2>1 DEF HoldsRead, InCall
<1>9. ThePipe'.pipe_write_id = (ThePipe'.pipe_read_id + Used') % PIPE_SIZE
  <2>1. ThePipe.pipe_read_id \in Ring /\ ThePipe.pipe_write_id \in Ring
        /\ PIPE_SIZE \in Nat /\ PIPE_SIZE > 0 /\ Used \in 0 .. PIPE_SIZE
    BY <1>2, PipesAssumption DEF PipeInfo, Used
  <2> DEFINE x == (ThePipe.pipe_read_id + 1) % PIPE_SIZE
             y == (x + (Used - 1)) % PIPE_SIZE
             z == (ThePipe.pipe_read_id + Used) % PIPE_SIZE
  <2>2. ThePipe.pipe_write_id = z
    BY <1>1, <1>2 DEF OnePipe
  <2>3. Used - 1 \in 0 .. PIPE_SIZE /\ 1 \in 0 .. PIPE_SIZE
    BY <1>2, <2>1
  <2>4. z = IF ThePipe.pipe_read_id + Used < PIPE_SIZE THEN ThePipe.pipe_read_id + Used
            ELSE ThePipe.pipe_read_id + Used - PIPE_SIZE
    BY <2>1, RingPlace
  <2>5. x = IF ThePipe.pipe_read_id + 1 < PIPE_SIZE THEN ThePipe.pipe_read_id + 1
            ELSE ThePipe.pipe_read_id + 1 - PIPE_SIZE
    BY <2>1, <2>3, RingPlace
  <2> HIDE DEF x, z
  <2>6. x \in Ring
    BY <2>1, <2>5 DEF Ring
  <2>7. y = IF x + (Used - 1) < PIPE_SIZE THEN x + (Used - 1)
            ELSE x + (Used - 1) - PIPE_SIZE
    BY <2>3, <2>6, RingPlace
  <2>8. ThePipe'.pipe_write_id = z /\ y = (ThePipe'.pipe_read_id + Used') % PIPE_SIZE
    BY <1>3, <2>2 DEF x
  <2> HIDE DEF y
  <2>9. y = z
    BY <1>2, <2>1, <2>4, <2>5, <2>7 DEF Ring
  <2> QED BY <2>8, <2>9
(* What is left to show is the same whether the post wakes the writer or   *)
(* leaves a permit.                                                        *)
<1>10. ASSUME semaphores' \in [SemSlots -> SemInfo],
              \A i \in SemSlots : semaphores'[i].sem_id = semaphores[i].sem_id,
              LivePids(process_list') = LivePids(process_list),
              pid_value' = pid_value, CurrentPid' = CurrentPid
       PROVE  Roles' /\ OnePipe' /\ IdIsIndex' /\ Calls' /\ Programs' = Programs
  <2>1. Programs' = Programs
    BY <1>10 DEF Programs, ProgramsOf
  <2>2. Roles'
    BY <1>1, <1>3, <1>10, <2>1 DEF Roles
  <2>3. IdIsIndex'
    BY <1>1, <1>3, <1>10 DEF IdIsIndex
  <2>4. OnePipe'
    BY <1>1, <1>2, <1>3, <1>4, <1>9, <1>10 DEF OnePipe
  <2>5. Calls'
    BY <1>1, <1>2, <1>3, <1>6, <1>7, <1>8, <1>10, <2>1 DEF Calls
  <2> QED BY <2>1, <2>2, <2>3, <2>4, <2>5
<1>11. CASE waiters = <<>>
  <2>1. /\ semaphores' = [semaphores EXCEPT ![w].sem_val = @ + 1]
        /\ UNCHANGED <<vars, waiters>>
    BY <1>2, <1>11 DEF PostSem
  <2>2. /\ process_list' = process_list /\ children_processes' = children_processes
        /\ pid_value' = pid_value /\ CurrentPid' = CurrentPid
    BY <2>1 DEF vars, procVars, CurrentPid
  <2>3. /\ semaphores' \in [SemSlots -> SemInfo]
        /\ \A i \in SemSlots : semaphores'[i].sem_id = semaphores[i].sem_id
        /\ Readable' = Readable /\ Writable' = Writable + 1
    BY <1>1, <1>3, <1>4, <2>1 DEF IdIsIndex, SemInfo, Readable, Writable
  <2>4. Roles' /\ OnePipe' /\ IdIsIndex' /\ Calls' /\ Programs' = Programs
    BY <1>10, <2>2, <2>3
  <2>5. IInv' /\ Family(process_list', children_processes', shell_at')
        /\ QuietTable(process_list')
    BY <1>1, <2>1, <2>2, NextIInv
  <2>6. SleepingPids(process_list) = {}
    BY <1>1, <1>11 DEF Queue
  <2>7. Queue'
    BY <1>2, <1>11, <2>1, <2>2, <2>6 DEF Queue
  <2>8. PermitsBalance'
    <3>1. Readable' + One((\E pid \in Pids : HoldsRead(pid))') = Used'
      BY <1>2, <1>3, <1>4, <1>8, <2>3 DEF One
    <3>2. ASSUME NEW p \in Programs, io[p] = Writer
          PROVE  Writable' + One(HoldsWrite(p)') + Used' = PIPE_SIZE
      <4>1. p # c /\ p \in Pids
        BY <1>1, <1>2, <3>2, BootPids DEF Roles
      <4>2. HoldsWrite(p)' <=> HoldsWrite(p)
        BY <1>6, <2>2, <4>1 DEF HoldsWrite
      <4>3. Writable + One(HoldsWrite(p)) + Used = PIPE_SIZE
        BY <1>1, <1>2, <3>2 DEF PermitsBalance
      <4> QED BY <1>2, <1>3, <1>4, <2>3, <4>2, <4>3 DEF One
    <3> QED BY <1>2, <1>3, <2>4, <3>1, <3>2 DEF PermitsBalance
  <2> QED BY <2>4, <2>5, <2>7, <2>8 DEF PipeInv
<1>12. CASE waiters # <<>>
  <2>1. PICK p \in Pids \ {ShellPid, idle_pid} : waiters = <<p>> /\ p < pid_value
    BY <1>1, <1>12 DEF Queue
  <2>2. Dequeued = {p} /\ Tail(waiters) = <<>>
    BY <1>5, <2>1 DEF Dequeued
  <2>3. /\ process_list' = ChangeProcessState(process_list, p, READY)
        /\ waiters' = <<>>
        /\ UNCHANGED <<semaphores, dim, current_process_idx, remaining_ticks,
                       pid_value, children_processes>>
    BY <1>2, <1>12, <2>2 DEF PostSem
  <2>4. /\ semaphores' \in [SemSlots -> SemInfo]
        /\ Readable' = Readable /\ Writable' = Writable
    BY <1>1, <1>3, <2>3 DEF IdIsIndex, Readable, Writable
  <2>5. IInv'
    BY <1>1, <2>3, WakeKeepsIInv
  <2>6. p # c /\ (p \in Programs <=> p \in LivePids(process_list))
    <3>1. p \in Programs => p \in SleepingPids(process_list)
      BY <1>1, <1>12, <2>1 DEF Queue
    <3> QED BY <1>2, <2>1, <3>1 DEF Programs, ProgramsOf
  <2>7. Readable' + One((\E pid \in Pids : HoldsRead(pid))') = Used'
    BY <1>2, <1>3, <1>4, <1>8, <2>4 DEF One
  <2>8. CASE p \in Programs
    <3>1. /\ p \in SleepingPids(process_list) /\ Used = PIPE_SIZE /\ io[p] = Writer
          /\ call[p].op = "write" /\ call[p].waited
          /\ \A pid \in SleepingPids(process_list) : pid = p
      BY <1>1, <1>12, <2>1, <2>8 DEF Queue
    <3>2. /\ QuietTable(process_list') /\ SleepingPids(process_list') = {}
      BY <1>1, <2>3, <3>1, SleeperWakes
    <3>3. /\ Family(process_list', children_processes', shell_at')
          /\ LivePids(process_list') = LivePids(process_list)
      BY <1>1, <2>3, <3>1, WakeKeepsFamily
    <3>4. CurrentPid' = CurrentPid
      BY <1>1, <1>2, <2>3, <3>1, WakeKeepsOwner
    <3>5. Roles' /\ OnePipe' /\ IdIsIndex' /\ Calls' /\ Programs' = Programs
      BY <1>10, <2>3, <2>4, <3>3, <3>4
    <3>6. Queue'
      BY <1>2, <2>3, <3>2 DEF Queue
    <3>7. \A q \in Programs : io[q] = Writer => q = p
      BY <1>1, <2>8, <3>1 DEF Roles
    <3>8. HoldsWrite(p)' /\ ~HoldsWrite(p)
      BY <1>6, <2>1, <2>6, <3>1, <3>2 DEF HoldsWrite
    <3>9. Writable + One(HoldsWrite(p)) + Used = PIPE_SIZE
      BY <1>1, <1>2, <2>8, <3>1 DEF PermitsBalance
    <3>10. Writable' + One(HoldsWrite(p)') + Used' = PIPE_SIZE
      BY <1>2, <1>3, <1>4, <2>4, <3>8, <3>9 DEF One
    <3>11. PermitsBalance'
      BY <1>2, <1>3, <2>7, <3>5, <3>7, <3>10 DEF PermitsBalance
    <3> QED BY <2>5, <3>2, <3>3, <3>5, <3>6, <3>11 DEF PipeInv
  <2>9. CASE p \notin Programs
    <3>1. process_list' = process_list /\ CurrentPid' = CurrentPid
      BY <2>3, <2>6, <2>9 DEF ChangeProcessState, CurrentPid
    <3>2. Roles' /\ OnePipe' /\ IdIsIndex' /\ Calls' /\ Programs' = Programs
      BY <1>10, <2>3, <2>4, <3>1
    <3>3. Family(process_list', children_processes', shell_at') /\ QuietTable(process_list')
      BY <1>1, <2>3, <3>1
    <3>4. /\ SleepingPids(process_list) = {}
          /\ \A q \in Programs : io[q] # Writer
      BY <1>1, <2>1, <2>9, <1>12 DEF Queue
    <3>5. Queue'
      BY <1>2, <2>3, <3>1, <3>4 DEF Queue
    <3>6. PermitsBalance'
      BY <1>2, <1>3, <2>7, <3>2, <3>4 DEF PermitsBalance
    <3> QED BY <2>5, <3>2, <3>3, <3>5, <3>6 DEF PipeInv
  <2> QED BY <2>8, <2>9
<1> QED BY <1>11, <1>12
-----------------------------------------------------------------------------
(* The invariant holds, and what follows from it.                          *)
LEMMA StutterInv == PipeInv /\ UNCHANGED pipelineVars => PipeInv'
<1> SUFFICES ASSUME PipeInv, UNCHANGED pipelineVars PROVE PipeInv'
  OBVIOUS
<1>1. UNCHANGED <<vars, semVars, pipes, io, call, shell_at, pipe_id, refused>>
  BY DEF pipelineVars, allVars, pipeVars
<1>2. /\ process_list' = process_list /\ children_processes' = children_processes
      /\ pid_value' = pid_value /\ Programs' = Programs /\ CurrentPid' = CurrentPid
      /\ UNCHANGED <<semaphores, waiters, buffer, current_sem_amount>>
      /\ ThePipe' = ThePipe /\ Used' = Used /\ Readable' = Readable /\ Writable' = Writable
  BY <1>1 DEF vars, procVars, semVars, Programs, CurrentPid, ThePipe, Used, Readable, Writable
<1>3. IInv'
  BY <1>1, NextIInv DEF PipeInv
<1>4. /\ Family(process_list', children_processes', shell_at') /\ QuietTable(process_list')
      /\ Roles' /\ OnePipe' /\ IdIsIndex'
  BY <1>1, <1>2 DEF PipeInv, Roles, OnePipe, IdIsIndex
<1>5. Calls' /\ Queue'
  BY <1>1, <1>2 DEF PipeInv, Calls, Queue, InCall
<1>6. PermitsBalance'
  BY <1>1, <1>2 DEF PipeInv, PermitsBalance, HoldsRead, HoldsWrite
<1> QED BY <1>3, <1>4, <1>5, <1>6 DEF PipeInv

LEMMA ProgramCallsInv == PipeInv /\ ProgramCalls => PipeInv'
<1> SUFFICES ASSUME PipeInv, ProgramCalls PROVE PipeInv'
  OBVIOUS
<1>1. /\ CurrentPid # ShellPid /\ PipeCall
      /\ UNCHANGED <<shell_at, pipe_id, refused>>
  BY DEF ProgramCalls
<1>2. ASSUME NEW count \in Counts, SysWrite(count)
      PROVE  PipeInv'
  <2>1. \A c, fd : c = CurrentPid /\ fd = io[CurrentPid].output => PipeInv'
    BY <1>1, <1>2, BeginCallInv DEF SysWrite
  <2> QED BY <2>1
<1>3. ASSUME NEW count \in Counts, SysRead(count)
      PROVE  PipeInv'
  <2>1. \A c, fd : c = CurrentPid /\ fd = io[CurrentPid].input => PipeInv'
    BY <1>1, <1>3, BeginCallInv DEF SysRead
  <2> QED BY <2>1
<1>4. CASE WaitTurn
  BY <1>1, <1>4, WaitTurnInv
<1>5. ASSUME NEW b \in Bytes, StoreByte(b)
      PROVE  PipeInv'
  BY <1>1, <1>5, StoreByteInv
<1>6. CASE TakeByte
  BY <1>1, <1>6, TakeByteInv
<1> QED BY <1>1, <1>2, <1>3, <1>4, <1>5, <1>6 DEF PipeCall

LEMMA PipelineNextInv == RoomForTwo /\ PipeInv /\ [PipelineNext]_pipelineVars => PipeInv'
<1> SUFFICES ASSUME RoomForTwo, PipeInv, PipelineNext PROVE PipeInv'
  BY StutterInv
<1>1. CASE ShellCreatesPipe
  BY <1>1, ShellCreatesPipeInv
<1>2. CASE ShellIsRefused
  BY <1>2, ShellIsRefusedInv
<1>3. CASE ShellCreatesFirst
  <2>1. pipe_id = PipeId
    BY <1>3 DEF PipeInv, Roles, ShellCreatesFirst, ShellCreatesChild, ShellRuns
  <2> QED BY <1>3, <2>1, ShellCreatesChildInv DEF ShellCreatesFirst, Writer
<1>4. CASE ShellCreatesSecond
  <2>1. pipe_id = PipeId
    BY <1>4 DEF PipeInv, Roles, ShellCreatesSecond, ShellCreatesChild, ShellRuns
  <2> QED BY <1>4, <2>1, ShellCreatesChildInv DEF ShellCreatesSecond, Reader
<1>5. CASE ShellWaits
  BY <1>5, ShellWaitsInv
<1>6. CASE ShellDeletesPipe
  BY <1>6, ShellDeletesPipeInv
<1>7. CASE ProgramCalls
  BY <1>7, ProgramCallsInv
<1>8. CASE KernelStep
  BY <1>8, KernelStepInv
<1> QED
  BY <1>1, <1>2, <1>3, <1>4, <1>5, <1>6, <1>7, <1>8 DEF PipelineNext, Shell

(* The invariant of the whole pipeline: the tables, the roles of the       *)
(* programs, the one pipe, the calls, the queue and the permits.           *)
LEMMA PipelineInductive == RoomForTwo /\ PipelineSpec => []PipeInv
<1>1. RoomForTwo /\ PipelineInit => PipeInv
  BY InitPipeInv
<1>2. RoomForTwo /\ PipeInv /\ [PipelineNext]_pipelineVars => PipeInv'
  BY PipelineNextInv
<1>3. RoomForTwo => []RoomForTwo
  <2>1. RoomForTwo => RoomForTwo'
    BY DEF RoomForTwo
  <2> QED BY <2>1, PTL
<1> QED BY <1>1, <1>2, <1>3, PTL DEF PipelineSpec

(* The permits of the two semaphores, those handed to a process that has   *)
(* not run since included, are the bytes in the ring and, while the writer *)
(* lives, its free places: whatever the programs do, whoever dies          *)
(* (pipes.c:153-160, 174-180).                                             *)
THEOREM PermitsFollowRing == RoomForTwo /\ PipelineSpec => []PermitsMatchRing
<1>1. ASSUME PipeInv PROVE PermitsMatchRing
  <2>1. SUFFICES ASSUME shell_at # "prompt"
        PROVE  /\ Readable + Cardinality(Holders(0, "read")) = Used
               /\ HasWriter(0) =>
                    Writable + Cardinality(Holders(0, "write")) + Used = PIPE_SIZE
    <3>1. OnePipe /\ IdIsIndex
      BY <1>1 DEF PipeInv
    <3>2. shell_at = "prompt" => OpenPipes = {}
      BY <3>1, Found
    <3>3. shell_at # "prompt" =>
            /\ OpenPipes = {0}
            /\ FindSem(pipes[0].read_sem_id) = ThePipe.read_sem_id
            /\ FindSem(pipes[0].write_sem_id) = ThePipe.write_sem_id
      BY <3>1, Found, FindSemIs DEF OnePipe, ThePipe
    <3> QED BY <3>2, <3>3 DEF PermitsMatchRing, Readable, Writable, Used, ThePipe
  <2>2. /\ Roles /\ Calls /\ Queue /\ PermitsBalance /\ OnePipe /\ IInv
        /\ AsleepPids = SleepingPids(process_list)
    BY <1>1, AsleepAre DEF PipeInv
  <2>3. \A pid \in Pids : /\ call[pid] \in CallInfo
                          /\ InCall(pid) => pid \in Programs
                          /\ call[pid].op = "write" => io[pid] = Writer
                          /\ call[pid].op = "read" => pid = CurrentPid
    BY <2>2 DEF Calls, InCall
  <2>4. /\ \A pid \in Pids : pid \in Holders(0, "read") <=> HoldsRead(pid)
        /\ \A pid \in Pids : pid \in Holders(0, "write") <=> HoldsWrite(pid)
        /\ Holders(0, "read") \subseteq Pids /\ Holders(0, "write") \subseteq Pids
    <3>1. \A pid \in Pids : HoldsRead(pid) => pid \notin SleepingPids(process_list)
      BY <2>2, <2>3, OwnerLives DEF HoldsRead
    <3> QED BY <2>2, <2>3, <3>1 DEF Holders, HoldsRead, HoldsWrite, IsAsleep, CallInfo
  <2>5. Cardinality(Holders(0, "read")) = One(\E pid \in Pids : HoldsRead(pid))
    <3>1. CASE \E pid \in Pids : HoldsRead(pid)
      <4>1. Holders(0, "read") = {CurrentPid}
        BY <2>3, <2>4, <3>1 DEF HoldsRead
      <4> QED BY <3>1, <4>1, FS_Singleton DEF One
    <3>2. CASE ~\E pid \in Pids : HoldsRead(pid)
      <4>1. Holders(0, "read") = {}
        BY <2>4, <3>2
      <4> QED BY <3>2, <4>1, FS_EmptySet DEF One
    <3> QED BY <3>1, <3>2
  <2>6. ASSUME HasWriter(0)
        PROVE  Writable + Cardinality(Holders(0, "write")) + Used = PIPE_SIZE
    <3>1. PICK w \in LivePids(process_list) : io[w].output = PipeId
      BY <2>1, <2>2, <2>6 DEF HasWriter, OnePipe, ThePipe
    <3>2. w # ShellPid /\ w # idle_pid
      BY <2>2, <3>1 DEF Roles, STDOUT, PipeId
    <3>3. w \in Programs /\ w \in Pids /\ io[w] = Writer
      <4>1. w \in Programs
        BY <3>1, <3>2 DEF Programs, ProgramsOf
      <4> QED BY <2>2, <3>1, <4>1 DEF Roles, Reader, STDOUT, PipeId
    <3>4. \A pid \in Pids : HoldsWrite(pid) => pid = w
      BY <2>2, <2>3, <3>3 DEF HoldsWrite, InCall, Roles
    <3>5. Cardinality(Holders(0, "write")) = One(HoldsWrite(w))
      <4>1. CASE HoldsWrite(w)
        <5>1. Holders(0, "write") = {w}
          BY <2>4, <3>3, <3>4, <4>1
        <5> QED BY <4>1, <5>1, FS_Singleton DEF One
      <4>2. CASE ~HoldsWrite(w)
        <5>1. Holders(0, "write") = {}
          BY <2>4, <3>4, <4>2
        <5> QED BY <4>2, <5>1, FS_EmptySet DEF One
      <4> QED BY <4>1, <4>2
    <3>6. Writable + One(HoldsWrite(w)) + Used = PIPE_SIZE
      BY <2>1, <2>2, <3>3 DEF PermitsBalance
    <3> QED BY <3>5, <3>6
  <2>7. Readable + Cardinality(Holders(0, "read")) = Used
    BY <2>1, <2>2, <2>5 DEF PermitsBalance
  <2> QED BY <2>6, <2>7
<1> QED BY <1>1, PipelineInductive, PTL

(* A reader never sleeps in a pipe and a writer only at a full ring        *)
(* (pipes.c:154, 174).                                                     *)
THEOREM WritersSleepOnlyWhenFull == RoomForTwo /\ PipelineSpec => []SleepsOnlyWhenFull
<1>1. ASSUME PipeInv PROVE SleepsOnlyWhenFull
  <2>1. SUFFICES ASSUME NEW pid \in SleepingPids(process_list)
        PROVE  call[pid].op = "write" /\ pipes[call[pid].pos].current_pipe_size = PIPE_SIZE
    BY AsleepAre DEF SleepsOnlyWhenFull
  <2>2. /\ pid \in Programs /\ call[pid].op = "write" /\ Used = PIPE_SIZE
    BY <1>1 DEF PipeInv, Queue
  <2>3. call[pid].pos = 0
    BY <1>1, <2>2 DEF PipeInv, Roles, Calls, CallInfo
  <2> QED BY <2>2, <2>3 DEF Used, ThePipe
<1> QED BY <1>1, PipelineInductive, PTL

(* The semaphores that are open are those of the open pipe, and the two    *)
(* that create_pipe_available leaves open for every buffer the heap        *)
(* refused: that leak there is, and no other (pipes.c:78-88, 121-132).     *)
THEOREM NoSemaphoreIsLost == RoomForTwo /\ PipelineSpec => []SemaphoresAccounted
<1>1. ASSUME PipeInv PROVE SemaphoresAccounted
  <2>1. OnePipe /\ IdIsIndex
    BY <1>1 DEF PipeInv
  <2>2. /\ shell_at = "prompt" => OpenPipes = {} /\ Cardinality(OpenPipes) = 0
        /\ shell_at # "prompt" => OpenPipes = {0} /\ Cardinality(OpenPipes) = 1
    BY <2>1, Found, FS_EmptySet, FS_Singleton
  <2> QED BY <2>1, <2>2 DEF IdIsIndex, SemaphoresAccounted
<1> QED BY <1>1, PipelineInductive, PTL
-----------------------------------------------------------------------------
(* The ring as a sequence, and what the two turns do to it.                *)
InRing(p) ==
  [k \in 1 .. p.current_pipe_size |-> p.pipe_buffer[(p.pipe_read_id + k - 1) % PIPE_SIZE]]

Content == Bytes \cup {Nothing}

LEMMA RingBytes ==
  ASSUME NEW p \in PipeInfo
  PROVE  /\ InRing(p) \in Seq(Content) /\ Len(InRing(p)) = p.current_pipe_size
         /\ p.current_pipe_size \in Nat
         /\ \A k \in 1 .. p.current_pipe_size :
              InRing(p)[k] = p.pipe_buffer[(p.pipe_read_id + (k - 1)) % PIPE_SIZE]
<1> DEFINE n == p.current_pipe_size
<1>1. /\ n \in Nat /\ n <= PIPE_SIZE /\ PIPE_SIZE \in Nat \ {0}
      /\ p.pipe_read_id \in Ring /\ p.pipe_buffer \in [Ring -> Content]
  BY PipesAssumption DEF PipeInfo, Content
<1>2. ASSUME NEW k \in 1 .. n
      PROVE  /\ (p.pipe_read_id + k - 1) = (p.pipe_read_id + (k - 1))
             /\ (p.pipe_read_id + (k - 1)) % PIPE_SIZE \in Ring
  <2>1. p.pipe_read_id + (k - 1) \in Int /\ p.pipe_read_id + k - 1 = p.pipe_read_id + (k - 1)
    BY <1>1 DEF Ring
  <2>2. (p.pipe_read_id + (k - 1)) % PIPE_SIZE \in 0 .. PIPE_SIZE - 1
    BY <1>1, <2>1, ModInRange, Zenon
  <2> QED BY <2>1, <2>2 DEF Ring
<1>3. \A k \in 1 .. n :
        /\ InRing(p)[k] = p.pipe_buffer[(p.pipe_read_id + (k - 1)) % PIPE_SIZE]
        /\ InRing(p)[k] \in Content
  BY <1>1, <1>2 DEF InRing
<1>4. InRing(p) \in [1 .. n -> Content]
  BY <1>3 DEF InRing
<1>5. InRing(p) \in Seq(Content) /\ Len(InRing(p)) = n
  BY <1>1, <1>4
<1> QED BY <1>1, <1>3, <1>5

LEMMA PutAppends ==
  ASSUME NEW p \in PipeInfo, NEW q \in PipeInfo, NEW b \in Bytes,
         p.current_pipe_size < PIPE_SIZE,
         p.pipe_write_id = (p.pipe_read_id + p.current_pipe_size) % PIPE_SIZE,
         q.pipe_buffer = [p.pipe_buffer EXCEPT ![p.pipe_write_id] = b],
         q.pipe_read_id = p.pipe_read_id,
         q.current_pipe_size = p.current_pipe_size + 1
  PROVE  InRing(q) = Append(InRing(p), b)
<1> DEFINE n == p.current_pipe_size
           r == p.pipe_read_id
           place(k) == (r + (k - 1)) % PIPE_SIZE
<1>1. /\ n \in Nat /\ PIPE_SIZE \in Nat \ {0} /\ r \in Ring /\ p.pipe_write_id \in Ring
      /\ p.pipe_buffer \in [Ring -> Content]
  BY PipesAssumption DEF PipeInfo, Content
<1>2. ASSUME NEW k \in 1 .. n + 1
      PROVE  place(k) = IF r + (k - 1) < PIPE_SIZE THEN r + (k - 1)
                        ELSE r + (k - 1) - PIPE_SIZE
  <2>1. k - 1 \in 0 .. PIPE_SIZE
    BY <1>1
  <2> QED BY <1>1, <2>1, RingPlace
<1>3. p.pipe_write_id = place(n + 1)
  <2>1. r + ((n + 1) - 1) = r + n
    BY <1>1 DEF Ring
  <2> QED BY <2>1
<1> HIDE DEF place
<1>4. ASSUME NEW k \in 1 .. n
      PROVE  place(k) \in Ring /\ place(k) # p.pipe_write_id
  <2>1. /\ r \in Int /\ r >= 0 /\ r <= PIPE_SIZE - 1 /\ n < PIPE_SIZE
        /\ k \in 1 .. n + 1 /\ n + 1 \in 1 .. n + 1 /\ (n + 1) - 1 = n
    BY <1>1 DEF Ring
  <2>2. place(k) = IF r + (k - 1) < PIPE_SIZE THEN r + (k - 1)
                   ELSE r + (k - 1) - PIPE_SIZE
    BY <1>2, <2>1
  <2>3. place(n + 1) = IF r + n < PIPE_SIZE THEN r + n ELSE r + n - PIPE_SIZE
    BY <1>2, <2>1
  <2> DEFINE here == place(k)
             there == place(n + 1)
  <2> HIDE DEF here, there
  <2>4. /\ here = IF r + (k - 1) < PIPE_SIZE THEN r + (k - 1)
                  ELSE r + (k - 1) - PIPE_SIZE
        /\ there = IF r + n < PIPE_SIZE THEN r + n ELSE r + n - PIPE_SIZE
    BY <2>2, <2>3 DEF here, there
  <2>5. here \in 0 .. PIPE_SIZE - 1 /\ here # there
    BY <1>1, <2>1, <2>4
  <2> QED BY <1>3, <2>5 DEF here, there, Ring
<1>5. /\ InRing(p) \in Seq(Content) /\ Len(InRing(p)) = n
      /\ \A k \in 1 .. n : InRing(p)[k] = p.pipe_buffer[place(k)]
  BY RingBytes DEF place
<1>6. /\ InRing(q) \in Seq(Content) /\ Len(InRing(q)) = n + 1
      /\ \A k \in 1 .. n + 1 : InRing(q)[k] = q.pipe_buffer[place(k)]
  BY RingBytes DEF place
<1>7. b \in Content
  BY DEF Content
<1>8. /\ Append(InRing(p), b) \in Seq(Content) /\ Len(Append(InRing(p), b)) = n + 1
      /\ \A k \in 1 .. n : Append(InRing(p), b)[k] = InRing(p)[k]
      /\ Append(InRing(p), b)[n + 1] = b
  BY <1>5, <1>7, AppendProperties
<1>9. \A k \in 1 .. n + 1 : InRing(q)[k] = Append(InRing(p), b)[k]
  <2>1. \A k \in 1 .. n : q.pipe_buffer[place(k)] = p.pipe_buffer[place(k)]
    BY <1>1, <1>4
  <2>2. q.pipe_buffer[place(n + 1)] = b
    BY <1>1, <1>3
  <2>3. \A k \in 1 .. n + 1 : k \in 1 .. n \/ k = n + 1
    BY <1>1
  <2>4. n + 1 \in 1 .. n + 1 /\ \A k \in 1 .. n : k \in 1 .. n + 1
    BY <1>1
  <2> QED BY <1>5, <1>6, <1>8, <2>1, <2>2, <2>3, <2>4
<1> QED BY <1>6, <1>8, <1>9, SeqEqual

LEMMA GetTakesHead ==
  ASSUME NEW p \in PipeInfo, NEW q \in PipeInfo, p.current_pipe_size > 0,
         q.pipe_buffer = p.pipe_buffer,
         q.pipe_read_id = (p.pipe_read_id + 1) % PIPE_SIZE,
         q.current_pipe_size = p.current_pipe_size - 1
  PROVE  /\ InRing(p) # <<>>
         /\ Head(InRing(p)) = p.pipe_buffer[p.pipe_read_id]
         /\ InRing(q) = Tail(InRing(p))
<1> DEFINE n == p.current_pipe_size
           r == p.pipe_read_id
           s == q.pipe_read_id
<1>1. /\ n \in Nat /\ n <= PIPE_SIZE /\ PIPE_SIZE \in Nat \ {0} /\ r \in Ring /\ s \in Ring
  BY PipesAssumption DEF PipeInfo
<1>2. /\ InRing(p) \in Seq(Content) /\ Len(InRing(p)) = n
      /\ \A k \in 1 .. n : InRing(p)[k] = p.pipe_buffer[(r + (k - 1)) % PIPE_SIZE]
  BY RingBytes
<1>3. /\ InRing(q) \in Seq(Content) /\ Len(InRing(q)) = n - 1
      /\ \A k \in 1 .. n - 1 : InRing(q)[k] = q.pipe_buffer[(s + (k - 1)) % PIPE_SIZE]
  BY RingBytes
<1>4. InRing(p) # <<>>
  BY <1>1, <1>2
<1>5. /\ Tail(InRing(p)) \in Seq(Content) /\ Len(Tail(InRing(p))) = n - 1
      /\ \A k \in 1 .. n - 1 : Tail(InRing(p))[k] = InRing(p)[k + 1]
  BY <1>2, <1>4, HeadTailProperties
<1>6. Head(InRing(p)) = p.pipe_buffer[r]
  <2>1. 1 \in 1 .. n /\ 0 \in 0 .. PIPE_SIZE /\ r + (1 - 1) = r + 0 /\ r + 0 < PIPE_SIZE
        /\ r + 0 = r
    BY <1>1 DEF Ring
  <2>2. (r + 0) % PIPE_SIZE = r
    BY <1>1, <2>1, RingPlace
  <2>3. InRing(p)[1] = p.pipe_buffer[(r + (1 - 1)) % PIPE_SIZE]
    BY <1>2, <2>1
  <2>4. Head(InRing(p)) = InRing(p)[1]
    BY <1>2, <1>4
  <2> QED BY <2>1, <2>2, <2>3, <2>4
<1>7. ASSUME NEW k \in 1 .. n - 1
      PROVE  (s + (k - 1)) % PIPE_SIZE = (r + ((k + 1) - 1)) % PIPE_SIZE
  <2> DEFINE x == (s + (k - 1)) % PIPE_SIZE
             y == (r + k) % PIPE_SIZE
  <2>1. k - 1 \in 0 .. PIPE_SIZE /\ k \in 0 .. PIPE_SIZE /\ 1 \in 0 .. PIPE_SIZE
    BY <1>1
  <2>2. x = IF s + (k - 1) < PIPE_SIZE THEN s + (k - 1) ELSE s + (k - 1) - PIPE_SIZE
    BY <1>1, <2>1, RingPlace
  <2>3. y = IF r + k < PIPE_SIZE THEN r + k ELSE r + k - PIPE_SIZE
    BY <1>1, <2>1, RingPlace
  <2>4. s = IF r + 1 < PIPE_SIZE THEN r + 1 ELSE r + 1 - PIPE_SIZE
    BY <1>1, <2>1, RingPlace
  <2>5. r + ((k + 1) - 1) = r + k
    BY <1>1 DEF Ring
  <2> HIDE DEF x, y, s
  <2>6. x = y
    <3>1. r \in Int /\ r >= 0 /\ r <= PIPE_SIZE - 1 /\ k <= PIPE_SIZE - 1
      BY <1>1 DEF Ring
    <3>2. CASE r + 1 < PIPE_SIZE
      <4>1. s = r + 1
        BY <2>4, <3>2, Zenon
      <4>2. s + (k - 1) = r + k
        BY <3>1, <4>1
      <4>3. CASE r + k < PIPE_SIZE
        <5>1. s + (k - 1) < PIPE_SIZE
          BY <4>2, <4>3
        <5>2. x = s + (k - 1) /\ y = r + k
          BY <2>2, <2>3, <4>3, <5>1, Zenon
        <5> QED BY <4>2, <5>2, Zenon
      <4>4. CASE ~(r + k < PIPE_SIZE)
        <5>1. ~(s + (k - 1) < PIPE_SIZE)
          BY <4>2, <4>4
        <5>2. x = s + (k - 1) - PIPE_SIZE /\ y = r + k - PIPE_SIZE
          BY <2>2, <2>3, <4>4, <5>1, Zenon
        <5> QED BY <1>1, <3>1, <4>2, <5>2 DEF Ring
      <4> QED BY <4>3, <4>4
    <3>3. CASE ~(r + 1 < PIPE_SIZE)
      <4>1. s = r + 1 - PIPE_SIZE
        BY <2>4, <3>3, Zenon
      <4>2. s + (k - 1) = r + k - PIPE_SIZE /\ s + (k - 1) < PIPE_SIZE
            /\ ~(r + k < PIPE_SIZE)
        BY <1>1, <3>1, <3>3, <4>1
      <4>3. x = s + (k - 1)
        BY <2>2, <4>2, Zenon
      <4>4. y = r + k - PIPE_SIZE
        BY <2>3, <4>2, Zenon
      <4> QED BY <4>2, <4>3, <4>4, Zenon
    <3> QED BY <3>2, <3>3
  <2> QED BY <2>5, <2>6 DEF x, y, s
<1>8. \A k \in 1 .. n - 1 : InRing(q)[k] = Tail(InRing(p))[k]
  <2>1. \A k \in 1 .. n - 1 : k + 1 \in 1 .. n
    BY <1>1
  <2> QED BY <1>2, <1>3, <1>5, <1>7, <2>1
<1>9. InRing(q) = Tail(InRing(p))
  BY <1>3, <1>5, <1>8, SeqEqual
<1> QED BY <1>4, <1>6, <1>9
(* The stream that the pipe stands for.                                    *)
TheStream == IF OpenPipes = {} THEN <<>> ELSE InPipe(Least(OpenPipes))

LEMMA StreamIs ==
  ASSUME OnePipe
  PROVE  /\ shell_at = "prompt" => TheStream = <<>>
         /\ shell_at # "prompt" => TheStream = InRing(ThePipe)
<1>1. Least({0}) = 0
  BY LeastIn, {0} \in SUBSET Nat
<1> QED BY <1>1, Found DEF TheStream, InPipe, InRing, ThePipe

LEMMA StreamWillBe ==
  ASSUME OnePipe'
  PROVE  /\ shell_at' = "prompt" => TheStream' = <<>>
         /\ shell_at' # "prompt" => TheStream' = InRing(ThePipe')
<1>1. OnePipe' => (/\ shell_at = "prompt" => TheStream = <<>>
                   /\ shell_at # "prompt" => TheStream = InRing(ThePipe))'
  BY StreamIs, PTL
<1>2. InRing(ThePipe)' = InRing(ThePipe')
  BY DEF InRing
<1> QED BY <1>1, <1>2

LEMMA SameStream ==
  ASSUME UNCHANGED <<pipes, got>>
  PROVE  UNCHANGED <<TheStream, got>>
<1>1. OpenPipes' = OpenPipes
  BY DEF OpenPipes
<1>2. \A i : InPipe(i)' = InPipe(i)
  BY DEF InPipe
<1> QED BY <1>1, <1>2 DEF TheStream

LEMMA StreamStep ==
  PipeInv /\ PipeInv' /\ [PipelineNext]_pipelineVars => [Stream!Next]_(Stream!vars)
<1> SUFFICES ASSUME PipeInv, PipeInv', [PipelineNext]_pipelineVars
             PROVE  \/ \E b \in Bytes : /\ Len(TheStream) < PIPE_SIZE
                                        /\ TheStream' = Append(TheStream, b)
                                        /\ got' = got
                    \/ /\ TheStream # <<>> /\ got' = Head(TheStream)
                       /\ TheStream' = Tail(TheStream)
                    \/ TheStream' = <<>> /\ got' = got
                    \/ UNCHANGED <<TheStream, got>>
  BY DEF Stream!Next, Stream!Put, Stream!Get, Stream!Discard, Stream!vars, TheStream
<1>1. OnePipe /\ OnePipe'
  BY DEF PipeInv
<1>2. CASE UNCHANGED <<pipes, got>>
  BY <1>2, SameStream
<1>3. CASE ShellCreatesPipe
  <2>1. shell_at = "prompt" /\ shell_at' = "first" /\ got' = got
    BY <1>3 DEF ShellCreatesPipe, ShellRuns
  <2>2. Used' = 0
    BY <2>1 DEF PipeInv, PermitsBalance
  <2>3. ThePipe' \in PipeInfo
    BY <1>1, PipesAssumption DEF OnePipe, ThePipe, PipeSlots
  <2>4. InRing(ThePipe') \in Seq(Content) /\ Len(InRing(ThePipe')) = 0
    <3>1. Len(InRing(ThePipe')) = ThePipe'.current_pipe_size /\ InRing(ThePipe') \in Seq(Content)
      BY <2>3, RingBytes
    <3> QED BY <2>2, <3>1 DEF Used
  <2>5. InRing(ThePipe') = <<>>
    BY <2>4
  <2> QED BY <1>1, <2>1, <2>5, StreamWillBe
<1>4. CASE ShellDeletesPipe
  <2>1. shell_at' = "prompt" /\ got' = got
    BY <1>4 DEF ShellDeletesPipe, ShellRuns
  <2> QED BY <1>1, <2>1, StreamWillBe
<1>5. ASSUME CurrentPid # ShellPid, NEW b \in Bytes, StoreByte(b), UNCHANGED shell_at
      PROVE  /\ Len(TheStream) < PIPE_SIZE /\ TheStream' = Append(TheStream, b)
             /\ got' = got
  <2>1. \A c : c = CurrentPid =>
          /\ ThePipe \in PipeInfo /\ ThePipe' \in PipeInfo /\ shell_at # "prompt"
          /\ Used < PIPE_SIZE /\ Used' = Used + 1 /\ got' = got
          /\ ThePipe'.pipe_buffer = [ThePipe.pipe_buffer EXCEPT ![ThePipe.pipe_write_id] = b]
          /\ ThePipe'.pipe_read_id = ThePipe.pipe_read_id
    BY <1>5, StoreByteDoes
  <2>2. ThePipe.pipe_write_id = (ThePipe.pipe_read_id + Used) % PIPE_SIZE
    BY <1>1, <2>1 DEF OnePipe
  <2>3. \A p, q : p = ThePipe /\ q = ThePipe' => InRing(q) = Append(InRing(p), b)
    BY <2>1, <2>2, PutAppends DEF Used
  <2>4. Len(InRing(ThePipe)) = Used
    BY <2>1, RingBytes DEF Used
  <2>5. TheStream = InRing(ThePipe) /\ TheStream' = InRing(ThePipe')
    BY <1>1, <1>5, <2>1, StreamIs, StreamWillBe
  <2> QED BY <2>1, <2>3, <2>4, <2>5
<1>6. ASSUME CurrentPid # ShellPid, TakeByte, UNCHANGED shell_at
      PROVE  /\ TheStream # <<>> /\ got' = Head(TheStream)
             /\ TheStream' = Tail(TheStream)
  <2>1. \A c : c = CurrentPid =>
          /\ ThePipe \in PipeInfo /\ ThePipe' \in PipeInfo /\ shell_at # "prompt"
          /\ Used > 0 /\ Used' = Used - 1
          /\ got' = ThePipe.pipe_buffer[ThePipe.pipe_read_id]
          /\ ThePipe'.pipe_buffer = ThePipe.pipe_buffer
          /\ ThePipe'.pipe_read_id = (ThePipe.pipe_read_id + 1) % PIPE_SIZE
    BY <1>6, TakeByteDoes
  <2>2. \A p, q : p = ThePipe /\ q = ThePipe' =>
          /\ InRing(p) # <<>> /\ Head(InRing(p)) = p.pipe_buffer[p.pipe_read_id]
          /\ InRing(q) = Tail(InRing(p))
    BY <2>1, GetTakesHead DEF Used
  <2>3. TheStream = InRing(ThePipe) /\ TheStream' = InRing(ThePipe')
    BY <1>1, <1>6, <2>1, StreamIs, StreamWillBe
  <2> QED BY <2>1, <2>2, <2>3
<1>7. CASE ProgramCalls
  <2>1. /\ CurrentPid # ShellPid /\ PipeCall /\ UNCHANGED shell_at
    BY <1>7 DEF ProgramCalls
  <2>2. CASE \E count \in Counts : SysWrite(count) \/ SysRead(count)
    <3>1. UNCHANGED <<pipes, got>>
      BY <2>2 DEF SysWrite, SysRead, BeginCall
    <3> QED BY <1>2, <3>1
  <2>3. CASE WaitTurn
    <3>1. UNCHANGED <<pipes, got>>
      BY <2>3 DEF WaitTurn
    <3> QED BY <1>2, <3>1
  <2>4. CASE \E b \in Bytes : StoreByte(b)
    BY <1>5, <2>1, <2>4
  <2>5. CASE TakeByte
    BY <1>6, <2>1, <2>5
  <2> QED BY <2>1, <2>2, <2>3, <2>4, <2>5 DEF PipeCall
<1>8. ASSUME ShellIsRefused \/ ShellCreatesFirst \/ ShellCreatesSecond \/ ShellWaits
             \/ KernelStep \/ UNCHANGED pipelineVars
      PROVE  UNCHANGED <<pipes, got>>
  BY <1>8
  DEF ShellIsRefused, CreatePipeFails, ShellCreatesFirst, ShellCreatesSecond,
      ShellCreatesChild, ShellWaits, KernelStep, pipelineVars, pipeVars
<1> QED
  BY <1>2, <1>3, <1>4, <1>7, <1>8 DEF PipelineNext, Shell

(* From one pipeline to the next the pipe is a first-in first-out stream:  *)
(* the second program reads what the first one wrote, in order, each byte  *)
(* once, and nothing of an earlier pipeline (pipes.c:146-182).             *)
THEOREM PipeIsAStream == RoomForTwo /\ PipelineSpec => BytesInOrder
<1>1. PipelineInit => Stream!Init
  <2> SUFFICES ASSUME PipelineInit PROVE TheStream = <<>> /\ got \notin Bytes
    BY DEF Stream!Init, TheStream
  <2>2. OnePipe /\ shell_at = "prompt"
    BY InitPipeInv DEF PipeInv, PipelineInit
  <2>3. got = Nothing
    BY DEF PipelineInit, PipesInit
  <2> QED BY <2>2, <2>3, StreamIs, PipesAssumption
<1>2. PipeInv /\ PipeInv' /\ [PipelineNext]_pipelineVars => [Stream!Next]_(Stream!vars)
  BY StreamStep
<1> QED
  BY <1>1, <1>2, PipelineInductive, PTL DEF PipelineSpec, BytesInOrder, Stream!Spec
=============================================================================
