---------------------------- MODULE Philosophers ----------------------------
(***************************************************************************)
(* The dining philosophers of the user land (phylo.c): a process that       *)
(* keeps the table, and philosophers that join and leave it while the      *)
(* others eat.  Any process that is not asleep may take a step, which      *)
(* covers every order the dispatcher can produce; a step is one system     *)
(* call, one write of the shared arrays, or the reads of one test.         *)
(*                                                                         *)
(* The semaphores are the kernel's: all of them wait in one queue, which a *)
(* creation empties, a close frees and a full one drops from (module       *)
(* Semaphores).  Nobody else uses semaphores meanwhile, and there is room  *)
(* in the kernel's array for those of the table.                           *)
(***************************************************************************)
EXTENDS Integers, Sequences, FiniteSets

CONSTANTS
  MAX_PHYLOS,           \* places at the table                       (10)
  MIN_PHYLOS,           \* philosophers that cannot leave             (5)
  MAX_PROCESS_WAITING,  \* capacity of the queue                     (10)
  MaxVal,               \* bound of the model: posts stop at this value
  MaxRefused            \* bound of the model: refused creations in a game

ASSUME PhilosophersAssumption ==
  /\ MIN_PHYLOS \in Nat \ {0}
  /\ MAX_PHYLOS \in Nat /\ MAX_PHYLOS >= MIN_PHYLOS
  /\ MAX_PROCESS_WAITING \in Nat \ {0}
  /\ MaxVal \in Nat \ {0} /\ MaxRefused \in Nat

VARIABLES
  state,         \* of each place
  curr_philos,   \* places taken
  end,           \* the table is being cleared
  index,         \* i of the loop of do_philo that runs
  refused,       \* creations refused in this game
  pc,            \* where each process is; "none" for one that does not live
  granting,      \* what the test(j) a philosopher is in will do
  val,           \* the value of each semaphore, Closed for none
  queue,         \* the pids in the one queue, oldest first
  buffer,        \* the elements of that queue: "live" or "freed"
  asleep         \* the processes asleep in wait_sem

tableVars == <<state, curr_philos, end, index, refused>>
semVars == <<val, queue, buffer, asleep>>
vars == <<tableVars, pc, granting, semVars>>

THINKING == 0
HUNGRY == 1
EATING == 2

Places == 0 .. MAX_PHYLOS - 1
Keeper == -1
Procs == Places \cup {Keeper}
Gone == -2            \* the pid of a process that has died
Live == {i \in Places : pc[i] # "none"}

MUTEX == <<"mutex", 0>>
PRINT_MUTEX == <<"print", 0>>
s(i) == <<"s", i>>
safe(i) == <<"safe", i>>
Sems == {MUTEX, PRINT_MUTEX} \cup {s(i) : i \in Places} \cup {safe(i) : i \in Places}
Closed == -1

Left(i) == (i + curr_philos - 1) % curr_philos
Right(i) == (i + 1) % curr_philos

NoGrant == [to |-> 0, then |-> "none"]

Init ==
  /\ state = [i \in Places |-> THINKING]
  /\ curr_philos = 0 /\ end = FALSE /\ index = 0 /\ refused = 0
  /\ pc = [p \in Procs |-> IF p = Keeper THEN "shell" ELSE "none"]
  /\ granting = [i \in Places |-> NoGrant]
  /\ val = [sem \in Sems |-> Closed]
  /\ queue = <<>> /\ buffer = "freed" /\ asleep = {}

-----------------------------------------------------------------------------
(* The system calls.  On a semaphore that is closed they go on with what   *)
(* lies behind the array: a wait may go on or sleep, in the queue or not,  *)
(* and a post may wake anybody or nobody (module Semaphores).              *)
Enqueue(p) == IF Len(queue) = MAX_PROCESS_WAITING THEN queue ELSE Append(queue, p)
Dequeued == IF buffer = "live" THEN {Head(queue)} ELSE Procs \cup {Gone}

Sleeps(p) == asleep' = asleep \cup {p}

Wait(p, sem) ==
  /\ \/ /\ val[sem] > 0
        /\ val' = [val EXCEPT ![sem] = @ - 1]
        /\ UNCHANGED <<queue, asleep>>
     \/ /\ val[sem] = 0
        /\ queue' = Enqueue(p) /\ Sleeps(p)
        /\ UNCHANGED val
     \/ /\ val[sem] = Closed
        /\ \/ UNCHANGED <<queue, asleep>>
           \/ queue' \in {queue, Enqueue(p)} /\ Sleeps(p)
        /\ UNCHANGED val
  /\ UNCHANGED buffer

Post(sem) ==
  /\ \/ /\ val[sem] # Closed /\ queue # <<>>
        /\ \E p \in Dequeued : asleep' = asleep \ {p}
        /\ queue' = Tail(queue)
        /\ UNCHANGED val
     \/ /\ val[sem] # Closed /\ queue = <<>> /\ val[sem] < MaxVal
        /\ val' = [val EXCEPT ![sem] = @ + 1]
        /\ UNCHANGED <<queue, asleep>>
     \/ /\ val[sem] = Closed
        /\ \E p \in Procs \cup {Gone} : asleep' = asleep \ {p}
        /\ queue' \in {queue} \cup (IF queue = <<>> THEN {} ELSE {Tail(queue)})
        /\ UNCHANGED val
  /\ UNCHANGED buffer

Create(sem, value) ==
  /\ val' = [val EXCEPT ![sem] = value]
  /\ queue' = <<>> /\ buffer' = "live"
  /\ UNCHANGED asleep

(* Values after a close; the queue's elements are freed, and stay.         *)
Without(sems) == [sem \in Sems |-> IF sem \in sems THEN Closed ELSE val[sem]]

(* A process dies; its pid stays where it waits.                           *)
Dies(ps) ==
  /\ asleep' = asleep \ ps
  /\ queue' = [k \in DOMAIN queue |-> IF queue[k] \in ps THEN Gone ELSE queue[k]]

At(p, here) == pc[p] = here /\ p \notin asleep
Go(p, next) == pc' = [pc EXCEPT ![p] = next]

(* A step of p that is one call on a semaphore and nothing else.           *)
WaitStep(p, here, sem, next) ==
  At(p, here) /\ Wait(p, sem) /\ Go(p, next) /\ UNCHANGED <<tableVars, granting>>
PostStep(p, here, sem, next) ==
  At(p, here) /\ Post(sem) /\ Go(p, next) /\ UNCHANGED <<tableVars, granting>>

-----------------------------------------------------------------------------
(* A philosopher.                                                          *)
LoopHead(i) ==
  IF end
    THEN /\ At(i, "loop")
         /\ Go(i, "none") /\ Dies({i})
         /\ UNCHANGED <<tableVars, granting, val, buffer>>
    ELSE WaitStep(i, "loop", safe(i), "take")

Becomes(i, here, what, next) ==
  /\ At(i, here)
  /\ state' = [state EXCEPT ![i] = what]
  /\ Go(i, next)
  /\ UNCHANGED <<curr_philos, end, index, refused, granting, semVars>>

MayEat(j) ==
  state[j] = HUNGRY /\ state[Left(j)] # EATING /\ state[Right(j)] # EATING

(* test(j): i looks, and if j may eat says so, in the table and to j.  With *)
(* nobody counted the remainder faults; no step stands for what follows.   *)
Looks(i, here, j, next) ==
  /\ At(i, here) /\ curr_philos > 0
  /\ IF MayEat(j)
       THEN /\ granting' = [granting EXCEPT ![i] = [to |-> j, then |-> next]]
            /\ Go(i, "grant")
       ELSE Go(i, next) /\ UNCHANGED granting
  /\ UNCHANGED <<tableVars, semVars>>

Grants(i) ==
  /\ At(i, "grant")
  /\ state' = [state EXCEPT ![granting[i].to] = EATING]
  /\ Go(i, "tell")
  /\ UNCHANGED <<curr_philos, end, index, refused, granting, semVars>>

Tells(i) ==
  /\ At(i, "tell")
  /\ Post(s(granting[i].to))
  /\ Go(i, granting[i].then)
  /\ granting' = [granting EXCEPT ![i] = NoGrant]
  /\ UNCHANGED tableVars

TakesForks(i) ==
  \/ WaitStep(i, "take", MUTEX, "hungry")
  \/ Becomes(i, "hungry", HUNGRY, "own")
  \/ Looks(i, "own", i, "took")
  \/ PostStep(i, "took", MUTEX, "forks")
  \/ WaitStep(i, "forks", s(i), "eat")

PutsForks(i) ==
  \/ WaitStep(i, "put", MUTEX, "thinking")
  \/ Becomes(i, "thinking", THINKING, "left")
  \/ Looks(i, "left", Left(i), "right")
  \/ Looks(i, "right", Right(i), "gave")
  \/ PostStep(i, "gave", MUTEX, "release")

(* eat prints the table under PRINT_MUTEX.                                 *)
Eats(i) ==
  \/ WaitStep(i, "eat", PRINT_MUTEX, "print")
  \/ PostStep(i, "print", PRINT_MUTEX, "put")

Philosopher(i) ==
  \/ LoopHead(i) \/ TakesForks(i) \/ Eats(i) \/ PutsForks(i)
  \/ Grants(i) \/ Tells(i)
  \/ PostStep(i, "release", safe(i), "loop")

-----------------------------------------------------------------------------
(* The keeper: do_philo up to its first loop.  It closes the two mutexes   *)
(* before it creates them: an earlier game may have left them open.        *)
Starts ==
  /\ At(Keeper, "shell")
  /\ end' = FALSE /\ curr_philos' = 0 /\ index' = 0 /\ refused' = 0
  /\ val' = [val EXCEPT ![MUTEX] = 1, ![PRINT_MUTEX] = 1]
  /\ queue' = <<>> /\ buffer' = "live"
  /\ Go(Keeper, "read")
  /\ UNCHANGED <<state, granting, asleep>>

(* add_philo, called MIN_PHYLOS times by the first loop, and then by 'a'.   *)
NextIndex == IF index < MIN_PHYLOS THEN index + 1 ELSE index

AddWaits == WaitStep(Keeper, "read", MUTEX, "add")

AddIsFull ==
  /\ At(Keeper, "add") /\ curr_philos = MAX_PHYLOS
  /\ Go(Keeper, "post")
  /\ UNCHANGED <<tableVars, granting, semVars>>

AddCreates ==
  /\ At(Keeper, "add") /\ curr_philos # MAX_PHYLOS
  /\ state' = [state EXCEPT ![curr_philos] = THINKING]
  /\ Create(s(curr_philos), 0)
  /\ Go(Keeper, "safe")
  /\ UNCHANGED <<curr_philos, end, index, refused, granting>>

AddStarts ==
  /\ At(Keeper, "safe")
  /\ Create(safe(curr_philos), 1)
  /\ pc' = [pc EXCEPT ![Keeper] = "count", ![curr_philos] = "loop"]
  /\ UNCHANGED <<tableVars, granting>>

(* Mutant: a philosopher that could not be created is counted.              *)
AddIsRefused_Counts ==
  /\ At(Keeper, "safe") /\ refused < MaxRefused
  /\ Create(safe(curr_philos), 1)
  /\ refused' = refused + 1
  /\ Go(Keeper, "count")
  /\ UNCHANGED <<state, curr_philos, end, index, granting>>

(* The process is refused: add_philo returns, and MUTEX stays taken.       *)
AddIsRefused ==
  /\ At(Keeper, "safe") /\ refused < MaxRefused
  /\ Create(safe(curr_philos), 1)
  /\ refused' = refused + 1 /\ index' = NextIndex
  /\ Go(Keeper, "read")
  /\ UNCHANGED <<state, curr_philos, end, granting>>

AddCounts ==
  /\ At(Keeper, "count")
  /\ curr_philos' = curr_philos + 1
  /\ Go(Keeper, "post")
  /\ UNCHANGED <<state, end, index, refused, granting, semVars>>

AddPosts ==
  /\ At(Keeper, "post")
  /\ Post(MUTEX)
  /\ index' = NextIndex
  /\ Go(Keeper, "read")
  /\ UNCHANGED <<state, curr_philos, end, refused, granting>>

Add ==
  \/ AddWaits \/ AddIsFull \/ AddCreates \/ AddStarts
  \/ AddIsRefused \/ AddCounts \/ AddPosts

Reads == index = MIN_PHYLOS    \* the first loop is over

(* Mutant: the smallest table is not told from others.                      *)
RemoveWaits_Always ==
  \/ /\ Reads /\ curr_philos > 0
     /\ WaitStep(Keeper, "read", safe(curr_philos - 1), "asks")
  \/ WaitStep(Keeper, "asks", MUTEX, "remove")

(* remove_philo, unless the table has exactly MIN_PHYLOS.  After refusals  *)
(* it may have fewer, and none: safe[-1] is not modelled.                   *)
RemoveWaits ==
  \/ /\ Reads /\ curr_philos # MIN_PHYLOS /\ curr_philos > 0
     /\ WaitStep(Keeper, "read", safe(curr_philos - 1), "asks")
  \/ WaitStep(Keeper, "asks", MUTEX, "remove")

RemoveCounts ==
  /\ At(Keeper, "remove")
  /\ curr_philos' = curr_philos - 1
  /\ Go(Keeper, "unsafe")
  /\ UNCHANGED <<state, end, index, refused, granting, semVars>>

(* Mutant: the count has been lowered already, and is lowered again.        *)
RemoveCloses_OneOff ==
  /\ \/ /\ At(Keeper, "unsafe") /\ val' = Without({safe(curr_philos - 1)})
        /\ Go(Keeper, "kill")
     \/ /\ At(Keeper, "removed") /\ val' = Without({s(curr_philos - 1)})
        /\ Go(Keeper, "done")
  /\ buffer' = "freed"
  /\ UNCHANGED <<tableVars, granting, queue, asleep>>

RemoveCloses ==
  /\ \/ /\ At(Keeper, "unsafe") /\ val' = Without({safe(curr_philos)})
        /\ Go(Keeper, "kill")
     \/ /\ At(Keeper, "removed") /\ val' = Without({s(curr_philos)})
        /\ Go(Keeper, "done")
  /\ buffer' = "freed"
  /\ UNCHANGED <<tableVars, granting, queue, asleep>>

RemoveKills ==
  /\ At(Keeper, "kill")
  /\ pc' = [pc EXCEPT ![Keeper] = "removed", ![curr_philos] = "none"]
  /\ Dies({curr_philos})
  /\ granting' = [granting EXCEPT ![curr_philos] = NoGrant]
  /\ UNCHANGED <<tableVars, val, buffer>>

RemovePosts == PostStep(Keeper, "done", MUTEX, "read")

Remove == RemoveWaits \/ RemoveCounts \/ RemoveCloses \/ RemoveKills \/ RemovePosts

(* 'q': the loop ends, and the places are cleared one by one.              *)
Quits ==
  /\ At(Keeper, "read") /\ Reads
  /\ end' = TRUE /\ index' = 0
  /\ Go(Keeper, "clear")
  /\ UNCHANGED <<state, curr_philos, refused, granting, semVars>>

(* Mutant: a philosopher is waited for before it is killed.                 *)
Clears_Politely ==
  /\ At(Keeper, "clear") /\ index < curr_philos
  /\ val[safe(index)] > 0
  /\ pc' = [pc EXCEPT ![index] = "none"]
  /\ Dies({index})
  /\ granting' = [granting EXCEPT ![index] = NoGrant]
  /\ val' = Without({s(index), safe(index)})
  /\ buffer' = "freed"
  /\ index' = index + 1
  /\ UNCHANGED <<state, curr_philos, end, refused>>

Clears ==
  /\ At(Keeper, "clear") /\ index < curr_philos
  /\ pc' = [pc EXCEPT ![index] = "none"]
  /\ Dies({index})
  /\ granting' = [granting EXCEPT ![index] = NoGrant]
  /\ val' = Without({s(index), safe(index)})
  /\ buffer' = "freed"
  /\ index' = index + 1
  /\ UNCHANGED <<state, curr_philos, end, refused>>

Finishes ==
  /\ At(Keeper, "clear") /\ index >= curr_philos
  /\ val' = Without({MUTEX, PRINT_MUTEX})
  /\ buffer' = "freed"
  /\ Go(Keeper, "shell")
  /\ UNCHANGED <<tableVars, granting, queue, asleep>>

TheKeeper == Starts \/ Add \/ Remove \/ Quits \/ Clears \/ Finishes

(* Ctrl-C kills the keeper and all philosophers; the semaphores stay.      *)
Interrupt ==
  /\ pc[Keeper] # "shell"
  /\ pc' = [p \in Procs |-> IF p = Keeper THEN "shell" ELSE "none"]
  /\ granting' = [i \in Places |-> NoGrant]
  /\ Dies(Procs)
  /\ UNCHANGED <<tableVars, val, buffer>>

Next == TheKeeper \/ (\E i \in Live : Philosopher(i)) \/ Interrupt

Spec == Init /\ [][Next]_vars

(* do_philo's second loop makes no call that sleeps.  When philo is started *)
(* alone its process has the first slot after shell and idle, which is     *)
(* below the count of live processes, and the dispatcher comes back to it  *)
(* (RoundRobin of module Scheduler).  Nothing is assumed of philosophers.  *)
FairSpec == Spec /\ WF_vars(pc[Keeper] = "clear" /\ TheKeeper)

-----------------------------------------------------------------------------
(* The keeper's count is the table: between two requests the philosophers  *)
(* that live are those of the places below curr_philos, whatever was       *)
(* refused or removed before; while one joins or leaves there is one more; *)
(* and when do_philo has returned, or was interrupted, none is left         *)
(* (phylo.c:51-55, 80-86, 100-102).                                        *)
TableIsKept ==
  CASE pc[Keeper] = "shell" -> Live = {}
    [] pc[Keeper] = "clear" -> Live \subseteq index .. curr_philos - 1
    [] pc[Keeper] \in {"count", "unsafe", "kill"} -> Live = 0 .. curr_philos
    [] OTHER -> Live = 0 .. curr_philos - 1

(* A philosopher never lives without its two semaphores, and the two of    *)
(* all are there during the game, so that nobody's call on them goes on    *)
(* behind the array of semaphores (semaphore.c:132); but remove_philo      *)
(* closes safe before it kills (phylo.c:101-102), and in between the call  *)
(* may be made.                                                            *)
KeepsItsSemaphores ==
  /\ pc[Keeper] # "shell" => val[MUTEX] # Closed /\ val[PRINT_MUTEX] # Closed
  /\ \A i \in Live :
       /\ val[s(i)] # Closed
       /\ val[safe(i)] # Closed \/ (pc[Keeper] = "kill" /\ i = curr_philos)

(* LEFT and RIGHT divide by curr_philos, which the keeper sets to 0, raises *)
(* after the first philosopher was started and lowers while others are in  *)
(* the middle of a test, for MUTEX does not keep them apart; whoever        *)
(* divides finds somebody counted, unless a creation was refused           *)
(* (philo.h:13-14, phylo.c:92, 100).                                       *)
DivisorIsPositive ==
  refused = 0 =>
    \A i \in Live : pc[i] \in {"own", "left", "right"} => curr_philos > 0

(* 'q' always leads back to the shell, though the philosophers may all be  *)
(* asleep for ever by then, and with them whoever holds the mutexes        *)
(* (phylo.c:51-58).                                                        *)
QuitReturns == pc[Keeper] = "clear" ~> pc[Keeper] = "shell"

InMutex(p) ==
  /\ p \notin asleep
  /\ pc[p] \in {"hungry", "own", "took", "thinking", "left", "right", "gave",
                "grant", "tell", "add", "safe", "count", "post",
                "remove", "unsafe", "kill", "removed", "done"}

(* Nobody but one process is ever between its wait on MUTEX and its post,  *)
(* so that what test reads does not change under it (phylo.c:121-140).     *)
(* "if there are processes waiting, it unblocks one" (semaphore.h:91): one *)
(* of those that wait on that semaphore.  On the kernel's one queue it     *)
(* fails.                                                                  *)
MutexIsExclusive == \A p, q \in Procs : InMutex(p) /\ InMutex(q) => p = q
=============================================================================
