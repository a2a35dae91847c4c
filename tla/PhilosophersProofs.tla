------------------------- MODULE PhilosophersProofs -------------------------
(***************************************************************************)
(* Proofs about module Philosophers, for every number of places and        *)
(* capacity of the queue.  They use nothing of what the semaphores were    *)
(* meant to ensure: a wait may end for any reason.  Only before the first  *)
(* post of a game is it known that no wait on MUTEX ends, for there is     *)
(* nobody to post; that is what keeps the first philosopher from dividing  *)
(* by the 0 that curr_philos still is.                                     *)
(***************************************************************************)
EXTENDS Philosophers, TLAPS

PhiloPoints == {"loop", "take", "hungry", "own", "took", "forks", "eat", "print",
                "put", "thinking", "left", "right", "gave", "grant", "tell", "release"}
KeeperPoints == {"shell", "read", "add", "safe", "count", "post", "asks", "remove",
                 "unsafe", "kill", "removed", "done", "clear"}
Values == Nat \cup {Closed}

TypeInv ==
  /\ val \in [Sems -> Values]
  /\ pc \in [Procs -> PhiloPoints \cup KeeperPoints \cup {"none"}]
  /\ pc[Keeper] \in KeeperPoints
  /\ \A i \in Places : pc[i] \in PhiloPoints \cup {"none"}
  /\ granting \in [Places -> [to : Places, then : {"none", "took", "right", "gave"}]]
  /\ \A i \in Places : pc[i] \in {"grant", "tell"} => granting[i].then # "none"
  /\ curr_philos \in 0 .. MAX_PHYLOS /\ index \in Nat /\ refused \in Nat
  /\ end \in BOOLEAN

(* Where in the table the keeper can be.                                   *)
CountInv ==
  /\ pc[Keeper] \in {"safe", "count", "unsafe", "kill", "removed"} =>
       curr_philos < MAX_PHYLOS
  /\ pc[Keeper] \in {"asks", "remove"} => curr_philos > 0
  /\ pc[Keeper] = "clear" => index <= curr_philos \/ index = 0
  /\ pc[Keeper] \notin {"clear", "shell"} => ~end /\ index <= MIN_PHYLOS

(* In a game without refusals the table never gets smaller than the first  *)
(* loop has made it.                                                       *)
Grown ==
  refused = 0 =>
    /\ pc[Keeper] \in {"read", "add", "safe", "count"} => index <= curr_philos
    /\ pc[Keeper] = "post" => NextIndex <= curr_philos
    /\ pc[Keeper] \in {"asks", "remove"} =>
         index = MIN_PHYLOS /\ curr_philos > MIN_PHYLOS
    /\ pc[Keeper] \in {"unsafe", "kill", "removed", "done"} =>
         index = MIN_PHYLOS /\ curr_philos >= MIN_PHYLOS
    /\ pc[Keeper] = "clear" => curr_philos >= MIN_PHYLOS

(* As long as nobody is counted MUTEX lets nobody pass but the keeper.      *)
FirstComes ==
  refused = 0 /\ curr_philos = 0 /\ pc[Keeper] # "shell" =>
    /\ pc[Keeper] \in {"read", "add", "safe", "count"} /\ Keeper \notin asleep
    /\ pc[Keeper] = "read" => val[MUTEX] = 1
    /\ pc[Keeper] # "read" => val[MUTEX] = 0
    /\ \A i \in Live : \/ pc[i] \in {"loop", "take"}
                       \/ pc[i] = "hungry" /\ i \in asleep

OpenInv ==
  /\ KeepsItsSemaphores
  /\ pc[Keeper] = "safe" => val[s(curr_philos)] # Closed

IInv ==
  TypeInv /\ CountInv /\ TableIsKept /\ Grown /\ FirstComes /\ OpenInv

-----------------------------------------------------------------------------
(* The semaphores are as many as their names.                              *)
LEMMA SemsApart ==
  /\ MUTEX \in Sems /\ PRINT_MUTEX \in Sems /\ MUTEX # PRINT_MUTEX
  /\ \A i \in Places : s(i) \in Sems /\ safe(i) \in Sems
  /\ \A i : s(i) # MUTEX /\ s(i) # PRINT_MUTEX
  /\ \A i : safe(i) # MUTEX /\ safe(i) # PRINT_MUTEX
  /\ \A i, j : s(i) # safe(j)
  /\ \A i, j : s(i) = s(j) => i = j
  /\ \A i, j : safe(i) = safe(j) => i = j
BY DEF Sems, MUTEX, PRINT_MUTEX, s, safe

LEMMA KeeperApart ==
  /\ Keeper \notin Places /\ Keeper \in Procs
  /\ \A i \in Places : i \in Procs /\ i # Keeper /\ i \in Nat
BY DEF Keeper, Places, Procs

(* A wait or a post opens and closes nothing, and changes one value.        *)
LEMMA WaitKeeps ==
  ASSUME TypeInv, NEW p \in Procs, NEW sem \in Sems, Wait(p, sem)
  PROVE  /\ val' \in [Sems -> Values]
         /\ \A c \in Sems : val'[c] = Closed <=> val[c] = Closed
         /\ \A c \in Sems \ {sem} : val'[c] = val[c]
         /\ asleep \subseteq asleep'
         /\ val[sem] = 0 => p \in asleep' /\ val' = val
         /\ val[sem] > 0 => asleep' = asleep /\ val'[sem] = val[sem] - 1
<1>1. val \in [Sems -> Values] /\ val[sem] \in Nat \cup {-1}
  BY DEF TypeInv, Values, Closed
<1>2. CASE val[sem] > 0 /\ val' = [val EXCEPT ![sem] = @ - 1] /\ asleep' = asleep
  BY <1>1, <1>2 DEF Values, Closed
<1>3. CASE val[sem] = 0 /\ val' = val /\ asleep' = asleep \cup {p}
  BY <1>1, <1>3
<1>4. CASE val[sem] = Closed /\ val' = val /\ asleep \subseteq asleep'
  BY <1>1, <1>4 DEF Closed
<1> QED BY <1>1, <1>2, <1>3, <1>4 DEF Wait, Sleeps

LEMMA PostKeeps ==
  ASSUME TypeInv, NEW sem \in Sems, Post(sem)
  PROVE  /\ val' \in [Sems -> Values]
         /\ \A c \in Sems : val'[c] = Closed <=> val[c] = Closed
<1>1. val \in [Sems -> Values] /\ val[sem] \in Nat \cup {-1}
  BY DEF TypeInv, Values, Closed
<1>2. CASE val' = val
  BY <1>1, <1>2
<1>3. CASE val[sem] # Closed /\ val' = [val EXCEPT ![sem] = @ + 1]
  BY <1>1, <1>3 DEF Values, Closed
<1> QED BY <1>2, <1>3 DEF Post

-----------------------------------------------------------------------------
(* The initial state.                                                      *)
LEMMA InitIInv == ASSUME Init PROVE IInv
<1>1. pc[Keeper] = "shell" /\ \A i \in Places : pc[i] = "none"
  BY KeeperApart DEF Init
<1>2. Live = {}
  BY <1>1 DEF Live
<1>3. TypeInv
  <2>1. curr_philos \in 0 .. MAX_PHYLOS /\ index \in Nat /\ refused \in Nat /\ end \in BOOLEAN
    <3>1. curr_philos = 0 /\ index = 0 /\ refused = 0 /\ end = FALSE
      BY DEF Init
    <3>2. 0 \in 0 .. MAX_PHYLOS
      BY PhilosophersAssumption
    <3>3. end \in BOOLEAN
      BY <3>1
    <3> QED BY <3>1, <3>2, <3>3
  <2>2. granting \in [Places -> [to : Places, then : {"none", "took", "right", "gave"}]]
    BY PhilosophersAssumption DEF Init, NoGrant, Places
  <2>3. pc \in [Procs -> PhiloPoints \cup KeeperPoints \cup {"none"}]
    BY DEF Init, KeeperPoints
  <2> QED BY <1>1, <2>1, <2>2, <2>3 DEF TypeInv, Init, Values, KeeperPoints
<1>4. CountInv /\ TableIsKept /\ Grown /\ FirstComes /\ OpenInv
  BY <1>1, <1>2 DEF CountInv, TableIsKept, Grown, FirstComes, OpenInv, KeepsItsSemaphores
<1> QED BY <1>3, <1>4 DEF IInv

-----------------------------------------------------------------------------
(* Philosophers.                                                           *)

(* What is the same of all their steps: the keeper's part stays, one pc    *)
(* moves, and nothing is opened or closed.                                 *)
PhiloKeeps(i, next) ==
  /\ UNCHANGED <<curr_philos, end, index, refused>>
  /\ pc' = [pc EXCEPT ![i] = next]
  /\ val' \in [Sems -> Values]
  /\ \A c \in Sems : val'[c] = Closed <=> val[c] = Closed
  /\ granting' \in [Places -> [to : Places, then : {"none", "took", "right", "gave"}]]
  /\ \A j \in Places \ {i} : granting'[j] = granting[j]
  /\ next \in {"grant", "tell"} => granting'[i].then # "none"

(* What they keep of a game in which nobody is counted.                     *)
PhiloWaits(i, next) ==
  /\ i \notin asleep
  /\ pc[i] = "loop" => next = "take" /\ val'[MUTEX] = val[MUTEX] /\ asleep \subseteq asleep'
                         /\ (Keeper \in asleep' => Keeper \in asleep)
  /\ pc[i] = "take" /\ val[MUTEX] = 0 =>
       next = "hungry" /\ i \in asleep' /\ val'[MUTEX] = 0 /\ asleep \subseteq asleep'
       /\ (Keeper \in asleep' => Keeper \in asleep)

LEMMA PhiloStep ==
  ASSUME IInv, NEW i \in Live, NEW next \in PhiloPoints,
         PhiloKeeps(i, next), PhiloWaits(i, next)
  PROVE  IInv'
<1>1. i \in Places /\ i # Keeper /\ i \in Procs /\ pc[i] # "none"
  BY KeeperApart DEF Live
<1>2. /\ pc'[i] = next /\ next # "none" /\ pc'[Keeper] = pc[Keeper]
      /\ \A j \in Places \ {i} : pc'[j] = pc[j]
      /\ \A j \in Places : pc[j] \in PhiloPoints \cup {"none"}
  BY <1>1, KeeperApart DEF PhiloKeeps, IInv, TypeInv, PhiloPoints
<1>3. Live' = Live
  BY <1>1, <1>2 DEF Live
<1>4. TypeInv'
  <2>1. pc' \in [Procs -> PhiloPoints \cup KeeperPoints \cup {"none"}]
    BY <1>1 DEF PhiloKeeps, IInv, TypeInv
  <2>2. \A j \in Places : pc'[j] \in PhiloPoints \cup {"none"}
    BY <1>1, <1>2
  <2>3. \A j \in Places : pc'[j] \in {"grant", "tell"} => granting'[j].then # "none"
    BY <1>1, <1>2 DEF PhiloKeeps, IInv, TypeInv
  <2> QED BY <1>2, <2>1, <2>2, <2>3 DEF PhiloKeeps, IInv, TypeInv
<1>5. CountInv' /\ TableIsKept' /\ Grown'
  BY <1>2, <1>3 DEF PhiloKeeps, IInv, CountInv, TableIsKept, Grown, NextIndex
<1>6. FirstComes'
  <2>1. SUFFICES ASSUME refused = 0, curr_philos = 0, pc[Keeper] # "shell"
                 PROVE  /\ pc[Keeper] \in {"read", "add", "safe", "count"}
                        /\ Keeper \notin asleep'
                        /\ pc[Keeper] = "read" => val'[MUTEX] = 1
                        /\ pc[Keeper] # "read" => val'[MUTEX] = 0
                        /\ \A j \in Live : \/ pc'[j] \in {"loop", "take"}
                                           \/ pc'[j] = "hungry" /\ j \in asleep'
    BY <1>2, <1>3 DEF FirstComes, PhiloKeeps
  <2>2. /\ pc[Keeper] \in {"read", "add", "safe", "count"} /\ Keeper \notin asleep
        /\ pc[Keeper] = "read" => val[MUTEX] = 1
        /\ pc[Keeper] # "read" => val[MUTEX] = 0
        /\ \A j \in Live : \/ pc[j] \in {"loop", "take"}
                           \/ pc[j] = "hungry" /\ j \in asleep
    BY <2>1 DEF IInv, FirstComes
  <2>3. pc[Keeper] # "read"
    <3>1. pc[Keeper] = "read" => Live = 0 .. curr_philos - 1
      BY DEF IInv, TableIsKept
    <3> QED BY <2>1, <3>1
  <2>4. pc[i] \in {"loop", "take"}
    BY <2>2 DEF PhiloWaits
  <2> QED BY <1>1, <1>2, <2>2, <2>3, <2>4 DEF PhiloWaits, Live
<1>7. OpenInv'
  <2>1. \A j \in Places : (val'[s(j)] = Closed <=> val[s(j)] = Closed)
                          /\ (val'[safe(j)] = Closed <=> val[safe(j)] = Closed)
    BY SemsApart DEF PhiloKeeps
  <2>2. Live \subseteq Places
    BY DEF Live
  <2>3. pc[Keeper] = "safe" => curr_philos \in Places
    <3>1. pc[Keeper] = "safe" => curr_philos \in 0 .. MAX_PHYLOS /\ curr_philos < MAX_PHYLOS
      BY DEF IInv, CountInv, TypeInv
    <3> QED BY <3>1, PhilosophersAssumption DEF Places
  <2> QED BY <1>2, <1>3, <2>1, <2>2, <2>3, SemsApart
          DEF PhiloKeeps, IInv, OpenInv, KeepsItsSemaphores
<1> QED BY <1>4, <1>5, <1>6, <1>7 DEF IInv

LEMMA PhiloWaitStep ==
  ASSUME IInv, NEW i \in Live, NEW here, NEW sem \in Sems, NEW next \in PhiloPoints,
         next \notin {"grant", "tell"}, WaitStep(i, here, sem, next),
         here = "loop" => sem # MUTEX /\ next = "take",
         here = "take" => sem = MUTEX /\ next = "hungry"
  PROVE  IInv'
<1>1. i \in Procs /\ i # Keeper
  BY KeeperApart DEF Live
<1>2. /\ i \notin asleep /\ pc[i] = here /\ Wait(i, sem) /\ pc' = [pc EXCEPT ![i] = next]
      /\ UNCHANGED <<tableVars, granting>> /\ TypeInv
  BY DEF WaitStep, At, Go, IInv
<1>3. /\ val' \in [Sems -> Values]
      /\ \A c \in Sems : val'[c] = Closed <=> val[c] = Closed
      /\ \A c \in Sems \ {sem} : val'[c] = val[c]
      /\ asleep \subseteq asleep'
      /\ val[sem] = 0 => i \in asleep' /\ val' = val
  BY <1>1, <1>2, WaitKeeps
<1>4. Keeper \in asleep' => Keeper \in asleep
  BY <1>1, <1>2 DEF Wait, Sleeps
<1>5. PhiloKeeps(i, next)
  BY <1>2, <1>3 DEF PhiloKeeps, tableVars, TypeInv
<1>6. PhiloWaits(i, next)
  BY <1>2, <1>3, <1>4, SemsApart DEF PhiloWaits
<1> QED BY <1>5, <1>6, PhiloStep

LEMMA PhiloPostStep ==
  ASSUME IInv, NEW i \in Live, NEW here, NEW sem \in Sems, NEW next \in PhiloPoints,
         next \notin {"grant", "tell"}, PostStep(i, here, sem, next),
         here \notin {"loop", "take"}
  PROVE  IInv'
<1>1. /\ i \notin asleep /\ pc[i] = here /\ Post(sem) /\ pc' = [pc EXCEPT ![i] = next]
      /\ UNCHANGED <<tableVars, granting>> /\ TypeInv
  BY DEF PostStep, At, Go, IInv
<1>2. PhiloKeeps(i, next)
  BY <1>1, PostKeeps DEF PhiloKeeps, tableVars, TypeInv
<1>3. PhiloWaits(i, next)
  BY <1>1 DEF PhiloWaits
<1> QED BY <1>2, <1>3, PhiloStep

LEMMA PhiloQuietStep ==
  ASSUME IInv, NEW i \in Live, NEW here, NEW next \in PhiloPoints, At(i, here),
         here \notin {"loop", "take"}, Go(i, next), UNCHANGED semVars,
         UNCHANGED <<curr_philos, end, index, refused>>,
         granting' \in [Places -> [to : Places, then : {"none", "took", "right", "gave"}]],
         \A j \in Places \ {i} : granting'[j] = granting[j],
         next \in {"grant", "tell"} => granting'[i].then # "none"
  PROVE  IInv'
<1>1. PhiloKeeps(i, next)
  BY DEF PhiloKeeps, Go, semVars, IInv, TypeInv
<1>2. PhiloWaits(i, next)
  BY DEF PhiloWaits, At
<1> QED BY <1>1, <1>2, PhiloStep

LEMMA NeighboursInTable ==
  ASSUME IInv, curr_philos > 0, NEW i \in Places
  PROVE  Left(i) \in Places /\ Right(i) \in Places
<1>1. /\ curr_philos \in 1 .. MAX_PHYLOS /\ MAX_PHYLOS \in Nat /\ i \in Nat
      /\ i + curr_philos - 1 \in Nat /\ i + 1 \in Nat
  BY PhilosophersAssumption DEF IInv, TypeInv, Places
<1>2. \A a \in Nat : a % curr_philos \in 0 .. curr_philos - 1
  BY <1>1
<1>3. Left(i) \in 0 .. curr_philos - 1 /\ Right(i) \in 0 .. curr_philos - 1
  BY <1>1, <1>2 DEF Left, Right
<1> QED BY <1>1, <1>3 DEF Places

LEMMA LooksStep ==
  ASSUME IInv, NEW i \in Live, NEW here \in {"own", "left", "right"},
         NEW j, curr_philos > 0 => j \in Places,
         NEW next \in {"took", "right", "gave"}, Looks(i, here, j, next)
  PROVE  IInv'
<1>1. /\ i \in Places /\ At(i, here) /\ j \in Places
      /\ UNCHANGED <<tableVars, semVars>>
      /\ granting \in [Places -> [to : Places, then : {"none", "took", "right", "gave"}]]
  BY DEF Live, Looks, IInv, TypeInv
<1>2. CASE granting' = [granting EXCEPT ![i] = [to |-> j, then |-> next]] /\ Go(i, "grant")
  <2>1. /\ granting' \in [Places -> [to : Places, then : {"none", "took", "right", "gave"}]]
        /\ \A k \in Places \ {i} : granting'[k] = granting[k]
        /\ granting'[i].then # "none"
    BY <1>1, <1>2
  <2> QED BY <1>1, <1>2, <2>1, PhiloQuietStep DEF tableVars, PhiloPoints
<1>3. CASE Go(i, next) /\ UNCHANGED granting
  BY <1>1, <1>3, PhiloQuietStep DEF tableVars, PhiloPoints
<1> QED BY <1>2, <1>3 DEF Looks

LEMMA LoopHeadStep ==
  ASSUME IInv, NEW i \in Live, LoopHead(i)
  PROVE  IInv'
<1>1. CASE ~end
  BY <1>1, SemsApart, PhiloWaitStep DEF LoopHead, PhiloPoints, Live
<1>2. CASE end
  <2>1. /\ At(i, "loop") /\ Go(i, "none") /\ UNCHANGED <<tableVars, granting, val, buffer>>
        /\ pc[Keeper] \in {"clear", "shell"} /\ i \in Places /\ i # Keeper
    BY <1>2, KeeperApart DEF LoopHead, IInv, CountInv, Live
  <2>2. /\ pc'[i] = "none" /\ pc'[Keeper] = pc[Keeper]
        /\ \A j \in Places \ {i} : pc'[j] = pc[j]
        /\ pc' \in [Procs -> PhiloPoints \cup KeeperPoints \cup {"none"}]
    BY <2>1, KeeperApart DEF Go, IInv, TypeInv
  <2>3. Live' = Live \ {i}
    BY <2>1, <2>2 DEF Live
  <2>4. TypeInv'
    BY <2>1, <2>2 DEF IInv, TypeInv, tableVars
  <2>5. CountInv' /\ TableIsKept' /\ Grown'
    BY <2>1, <2>2, <2>3 DEF tableVars, IInv, CountInv, TableIsKept, Grown
  <2>6. FirstComes'
    <3>1. pc[Keeper] = "clear" => ~(refused = 0 /\ curr_philos = 0)
      BY PhilosophersAssumption DEF IInv, Grown
    <3> QED BY <2>1, <2>2, <3>1 DEF FirstComes, tableVars
  <2>7. OpenInv'
    BY <2>1, <2>2, <2>3 DEF IInv, OpenInv, KeepsItsSemaphores, tableVars
  <2> QED BY <2>4, <2>5, <2>6, <2>7 DEF IInv
<1> QED BY <1>1, <1>2 DEF IInv, TypeInv

LEMMA PhilosopherStep ==
  ASSUME IInv, NEW i \in Live, Philosopher(i)
  PROVE  IInv'
<1>1. i \in Places /\ s(i) \in Sems /\ safe(i) \in Sems
      /\ MUTEX \in Sems /\ PRINT_MUTEX \in Sems
  BY SemsApart DEF Live
<1>2. CASE LoopHead(i)
  BY <1>2, LoopHeadStep
<1>3. CASE TakesForks(i)
  <2>1. CASE WaitStep(i, "take", MUTEX, "hungry")
    BY <1>1, <2>1, PhiloWaitStep DEF PhiloPoints
  <2>2. CASE Becomes(i, "hungry", HUNGRY, "own")
    BY <2>2, PhiloQuietStep DEF Becomes, PhiloPoints, IInv, TypeInv
  <2>3. CASE Looks(i, "own", i, "took")
    BY <1>1, <2>3, LooksStep
  <2>4. CASE PostStep(i, "took", MUTEX, "forks")
    BY <1>1, <2>4, PhiloPostStep DEF PhiloPoints
  <2>5. CASE WaitStep(i, "forks", s(i), "eat")
    BY <1>1, <2>5, PhiloWaitStep DEF PhiloPoints
  <2> QED BY <1>3, <2>1, <2>2, <2>3, <2>4, <2>5 DEF TakesForks
<1>4. CASE Eats(i)
  BY <1>1, <1>4, PhiloWaitStep, PhiloPostStep DEF Eats, PhiloPoints
<1>5. CASE PutsForks(i)
  <2>1. CASE WaitStep(i, "put", MUTEX, "thinking")
    BY <1>1, <2>1, PhiloWaitStep DEF PhiloPoints
  <2>2. CASE Becomes(i, "thinking", THINKING, "left")
    BY <2>2, PhiloQuietStep DEF Becomes, PhiloPoints, IInv, TypeInv
  <2>3. CASE Looks(i, "left", Left(i), "right")
    BY <1>1, <2>3, LooksStep, NeighboursInTable
  <2>4. CASE Looks(i, "right", Right(i), "gave")
    BY <1>1, <2>4, LooksStep, NeighboursInTable
  <2>5. CASE PostStep(i, "gave", MUTEX, "release")
    BY <1>1, <2>5, PhiloPostStep DEF PhiloPoints
  <2> QED BY <1>5, <2>1, <2>2, <2>3, <2>4, <2>5 DEF PutsForks
<1>6. CASE Grants(i)
  <2>1. granting'[i].then # "none"
    BY <1>1, <1>6 DEF Grants, At, IInv, TypeInv
  <2> QED BY <1>6, <2>1, PhiloQuietStep DEF Grants, PhiloPoints, IInv, TypeInv
<1>7. CASE Tells(i)
  <2>1. PICK next \in {"took", "right", "gave"} : next = granting[i].then
    BY <1>1, <1>7 DEF Tells, At, IInv, TypeInv
  <2>2. PICK sem \in Sems : sem = s(granting[i].to)
    BY <1>1, SemsApart DEF IInv, TypeInv
  <2>3. /\ At(i, "tell") /\ Post(sem) /\ pc' = [pc EXCEPT ![i] = next]
        /\ granting' = [granting EXCEPT ![i] = NoGrant] /\ UNCHANGED tableVars /\ TypeInv
    BY <1>7, <2>1, <2>2 DEF Tells, Go, IInv
  <2>4. granting' \in [Places -> [to : Places, then : {"none", "took", "right", "gave"}]]
        /\ \A j \in Places \ {i} : granting'[j] = granting[j]
    BY <1>1, <2>3, PhilosophersAssumption DEF TypeInv, NoGrant, Places
  <2>5. PhiloKeeps(i, next)
    BY <2>3, <2>4, PostKeeps DEF PhiloKeeps, tableVars
  <2>6. PhiloWaits(i, next)
    BY <2>3 DEF PhiloWaits, At
  <2> QED BY <2>1, <2>5, <2>6, PhiloStep DEF PhiloPoints
<1>8. CASE PostStep(i, "release", safe(i), "loop")
  BY <1>1, <1>8, PhiloPostStep DEF PhiloPoints
<1> QED BY <1>2, <1>3, <1>4, <1>5, <1>6, <1>7, <1>8 DEF Philosopher

-----------------------------------------------------------------------------
(* The keeper.                                                             *)

(* Values after a close or a creation.                                     *)
LEMMA WithoutIs ==
  ASSUME TypeInv, NEW sems \in SUBSET Sems, val' = Without(sems)
  PROVE  /\ val' \in [Sems -> Values]
         /\ \A c \in sems : val'[c] = Closed
         /\ \A c \in Sems \ sems : val'[c] = val[c]
BY DEF Without, TypeInv, Values

(* A step of the keeper that starts and ends no process: types hold, and   *)
(* so does what it leaves alone.                                           *)
LEMMA KeeperMoves ==
  ASSUME IInv, NEW next \in KeeperPoints, Go(Keeper, next), UNCHANGED granting,
         val' \in [Sems -> Values], curr_philos' \in 0 .. MAX_PHYLOS,
         index' \in Nat, refused' \in Nat, end' \in BOOLEAN
  PROVE  /\ TypeInv' /\ Live' = Live /\ pc'[Keeper] = next
         /\ \A i \in Places : pc'[i] = pc[i]
<1>1. /\ pc'[Keeper] = next /\ \A i \in Places : pc'[i] = pc[i]
      /\ pc' \in [Procs -> PhiloPoints \cup KeeperPoints \cup {"none"}]
  BY KeeperApart DEF Go, IInv, TypeInv
<1>2. Live' = Live
  BY <1>1 DEF Live
<1>3. TypeInv'
  BY <1>1 DEF IInv, TypeInv
<1> QED BY <1>1, <1>2, <1>3

LEMMA ShellHasNobody == ASSUME IInv, pc[Keeper] = "shell" PROVE Live = {}
BY DEF IInv, TableIsKept

LEMMA StartsStep ==
  ASSUME IInv, Starts
  PROVE  IInv'
<1>1. /\ pc[Keeper] = "shell" /\ Keeper \notin asleep /\ Live = {}
      /\ end' = FALSE /\ curr_philos' = 0 /\ index' = 0 /\ refused' = 0
      /\ val' = [val EXCEPT ![MUTEX] = 1, ![PRINT_MUTEX] = 1]
      /\ Go(Keeper, "read") /\ UNCHANGED <<granting, asleep>>
  BY ShellHasNobody DEF Starts, At
<1>2. /\ val' \in [Sems -> Values] /\ val'[MUTEX] = 1 /\ val'[PRINT_MUTEX] = 1
  BY <1>1, SemsApart DEF IInv, TypeInv, Values
<1>3. TypeInv' /\ Live' = {} /\ pc'[Keeper] = "read"
  <2>1. /\ curr_philos' \in 0 .. MAX_PHYLOS /\ index' \in Nat /\ refused' \in Nat
        /\ end' \in BOOLEAN /\ "read" \in KeeperPoints
    <3>1. 0 \in 0 .. MAX_PHYLOS /\ "read" \in KeeperPoints
      BY PhilosophersAssumption DEF KeeperPoints
    <3>2. end' \in BOOLEAN
      BY <1>1
    <3> QED BY <1>1, <3>1, <3>2
  <2> QED BY <1>1, <1>2, <2>1, KeeperMoves
<1>4. CountInv' /\ Grown'
  BY <1>1, <1>3, PhilosophersAssumption DEF CountInv, Grown
<1>5. TableIsKept' /\ FirstComes' /\ OpenInv'
  BY <1>1, <1>2, <1>3 DEF TableIsKept, FirstComes, OpenInv, KeepsItsSemaphores, Closed
<1> QED BY <1>3, <1>4, <1>5 DEF IInv

LEMMA AddWaitsStep ==
  ASSUME IInv, AddWaits
  PROVE  IInv'
<1>1. /\ pc[Keeper] = "read" /\ Keeper \notin asleep /\ Wait(Keeper, MUTEX)
      /\ Go(Keeper, "add") /\ UNCHANGED <<tableVars, granting>> /\ TypeInv
  BY DEF AddWaits, WaitStep, At, IInv
<1>2. /\ val' \in [Sems -> Values]
      /\ \A c \in Sems : val'[c] = Closed <=> val[c] = Closed
      /\ asleep \subseteq asleep'
      /\ val[MUTEX] > 0 => asleep' = asleep /\ val'[MUTEX] = val[MUTEX] - 1
  BY <1>1, SemsApart, KeeperApart, WaitKeeps
<1>3. /\ TypeInv' /\ Live' = Live /\ pc'[Keeper] = "add"
      /\ \A i \in Places : pc'[i] = pc[i]
  BY <1>1, <1>2, KeeperMoves DEF KeeperPoints, tableVars, TypeInv
<1>4. CountInv' /\ Grown' /\ TableIsKept'
  BY <1>1, <1>3 DEF tableVars, IInv, CountInv, Grown, TableIsKept
<1>5. FirstComes'
  <2>1. Live = 0 .. curr_philos - 1
    BY <1>1 DEF IInv, TableIsKept
  <2> QED BY <1>1, <1>2, <1>3, <2>1 DEF tableVars, IInv, FirstComes
<1>6. OpenInv'
  BY <1>1, <1>2, <1>3, SemsApart DEF tableVars, IInv, OpenInv, KeepsItsSemaphores, Live
<1> QED BY <1>3, <1>4, <1>5, <1>6 DEF IInv

LEMMA AddIsFullStep ==
  ASSUME IInv, AddIsFull
  PROVE  IInv'
<1>1. /\ pc[Keeper] = "add" /\ curr_philos = MAX_PHYLOS /\ Go(Keeper, "post")
      /\ UNCHANGED <<tableVars, granting, val, asleep>>
  BY DEF AddIsFull, At, semVars
<1>2. /\ TypeInv' /\ Live' = Live /\ pc'[Keeper] = "post"
      /\ \A i \in Places : pc'[i] = pc[i]
  BY <1>1, KeeperMoves DEF KeeperPoints, tableVars, IInv, TypeInv
<1>3. CountInv' /\ TableIsKept'
  BY <1>1, <1>2 DEF tableVars, IInv, CountInv, TableIsKept
<1>4. Grown' /\ FirstComes'
  BY <1>1, <1>2, PhilosophersAssumption
     DEF tableVars, IInv, TypeInv, CountInv, Grown, FirstComes, NextIndex
<1>5. OpenInv'
  BY <1>1, <1>2 DEF tableVars, IInv, OpenInv, KeepsItsSemaphores
<1> QED BY <1>2, <1>3, <1>4, <1>5 DEF IInv

LEMMA CountInTable ==
  ASSUME IInv, pc[Keeper] \in {"safe", "count", "unsafe", "kill", "removed"}
  PROVE  curr_philos \in Places
<1>1. curr_philos \in 0 .. MAX_PHYLOS /\ curr_philos < MAX_PHYLOS
  BY DEF IInv, CountInv, TypeInv
<1> QED BY <1>1, PhilosophersAssumption DEF Places

LEMMA CreateIs ==
  ASSUME TypeInv, NEW sem \in Sems, NEW value \in Nat, Create(sem, value)
  PROVE  /\ val' \in [Sems -> Values] /\ val'[sem] = value /\ asleep' = asleep
         /\ \A c \in Sems \ {sem} : val'[c] = val[c]
BY DEF Create, TypeInv, Values

LEMMA AddCreatesStep ==
  ASSUME IInv, AddCreates
  PROVE  IInv'
<1>1. /\ pc[Keeper] = "add" /\ curr_philos # MAX_PHYLOS /\ Go(Keeper, "safe")
      /\ UNCHANGED <<curr_philos, end, index, refused, granting>>
      /\ Create(s(curr_philos), 0) /\ TypeInv
  BY DEF AddCreates, At, IInv
<1>2. curr_philos \in Places /\ curr_philos < MAX_PHYLOS
  BY <1>1, PhilosophersAssumption DEF TypeInv, Places
<1>3. PICK sem \in Sems : sem = s(curr_philos)
  BY <1>2, SemsApart
<1>4. /\ val' \in [Sems -> Values] /\ val'[sem] = 0 /\ asleep' = asleep
      /\ \A c \in Sems \ {sem} : val'[c] = val[c]
  BY <1>1, <1>3, CreateIs
<1>5. /\ TypeInv' /\ Live' = Live /\ pc'[Keeper] = "safe"
      /\ \A i \in Places : pc'[i] = pc[i]
  BY <1>1, <1>4, KeeperMoves DEF KeeperPoints, TypeInv
<1>6. CountInv' /\ Grown' /\ TableIsKept'
  BY <1>1, <1>2, <1>5 DEF IInv, CountInv, Grown, TableIsKept
<1>7. val'[MUTEX] = val[MUTEX] /\ val'[PRINT_MUTEX] = val[PRINT_MUTEX]
  BY <1>3, <1>4, SemsApart
<1>8. FirstComes'
  BY <1>1, <1>4, <1>5, <1>7 DEF IInv, FirstComes, Live
<1>9. OpenInv'
  <2>1. \A i \in Places : /\ val[s(i)] # Closed => val'[s(i)] # Closed
                          /\ val[safe(i)] # Closed => val'[safe(i)] # Closed
    BY <1>4, SemsApart DEF Closed
  <2>2. val'[s(curr_philos)] # Closed
    BY <1>3, <1>4 DEF Closed
  <2> QED BY <1>1, <1>5, <1>7, <2>1, <2>2 DEF IInv, OpenInv, KeepsItsSemaphores, Live
<1> QED BY <1>5, <1>6, <1>8, <1>9 DEF IInv

LEMMA AddStartsStep ==
  ASSUME IInv, AddStarts
  PROVE  IInv'
<1>1. PICK n \in Places : n = curr_philos
  BY CountInTable DEF AddStarts, At
<1>2. /\ pc[Keeper] = "safe" /\ TypeInv /\ Create(safe(n), 1)
      /\ pc' = [pc EXCEPT ![Keeper] = "count", ![n] = "loop"]
      /\ UNCHANGED <<tableVars, granting>>
  BY <1>1 DEF AddStarts, At, IInv
<1>3. PICK sem \in Sems : sem = safe(n)
  BY <1>1, SemsApart
<1>4. /\ val' \in [Sems -> Values] /\ val'[sem] = 1 /\ asleep' = asleep
      /\ \A c \in Sems \ {sem} : val'[c] = val[c]
  BY <1>2, <1>3, CreateIs
<1>5. /\ pc'[Keeper] = "count" /\ pc'[n] = "loop" /\ \A i \in Places \ {n} : pc'[i] = pc[i]
      /\ pc' \in [Procs -> PhiloPoints \cup KeeperPoints \cup {"none"}]
  BY <1>1, <1>2, KeeperApart DEF TypeInv, PhiloPoints, KeeperPoints
<1>6. Live' = Live \cup {n}
  BY <1>1, <1>5 DEF Live
<1>7. TypeInv'
  BY <1>1, <1>2, <1>4, <1>5 DEF TypeInv, tableVars, PhiloPoints, KeeperPoints
<1>8. CountInv' /\ Grown'
  BY <1>1, <1>2, <1>5 DEF IInv, CountInv, Grown, tableVars
<1>9. TableIsKept'
  <2>1. Live = 0 .. n - 1 /\ n \in Nat
    BY <1>1, <1>2, KeeperApart DEF IInv, TableIsKept
  <2>2. Live' = 0 .. n
    BY <1>6, <2>1
  <2> QED BY <1>1, <1>2, <1>5, <2>2 DEF TableIsKept, tableVars
<1>10. val'[MUTEX] = val[MUTEX] /\ val'[PRINT_MUTEX] = val[PRINT_MUTEX]
  BY <1>3, <1>4, SemsApart
<1>11. FirstComes'
  BY <1>1, <1>2, <1>4, <1>5, <1>6, <1>10 DEF IInv, FirstComes, tableVars, Live
<1>12. OpenInv'
  <2>1. \A i \in Places : /\ val[s(i)] # Closed => val'[s(i)] # Closed
                          /\ val[safe(i)] # Closed => val'[safe(i)] # Closed
    BY <1>4, SemsApart DEF Closed
  <2>2. val'[safe(n)] # Closed /\ val[s(n)] # Closed
    BY <1>1, <1>2, <1>3, <1>4 DEF Closed, IInv, OpenInv
  <2> QED BY <1>1, <1>2, <1>5, <1>6, <1>10, <2>1, <2>2
          DEF IInv, OpenInv, KeepsItsSemaphores, Live
<1> QED BY <1>7, <1>8, <1>9, <1>11, <1>12 DEF IInv

LEMMA AddIsRefusedStep ==
  ASSUME IInv, AddIsRefused
  PROVE  IInv'
<1>1. PICK n \in Places : n = curr_philos
  BY CountInTable DEF AddIsRefused, At
<1>2. /\ pc[Keeper] = "safe" /\ TypeInv /\ Create(safe(n), 1) /\ Go(Keeper, "read")
      /\ refused' = refused + 1 /\ index' = NextIndex
      /\ UNCHANGED <<curr_philos, end, granting>>
  BY <1>1 DEF AddIsRefused, At, IInv
<1>3. PICK sem \in Sems : sem = safe(n)
  BY <1>1, SemsApart
<1>4. /\ val' \in [Sems -> Values] /\ val'[sem] = 1
      /\ \A c \in Sems \ {sem} : val'[c] = val[c]
  BY <1>2, <1>3, CreateIs
<1>5. refused' \in Nat \ {0} /\ index' \in Nat /\ (index <= MIN_PHYLOS => index' <= MIN_PHYLOS)
  BY <1>2, PhilosophersAssumption DEF TypeInv, NextIndex
<1>6. /\ TypeInv' /\ Live' = Live /\ pc'[Keeper] = "read"
  BY <1>2, <1>4, <1>5, KeeperMoves DEF KeeperPoints, TypeInv
<1>7. CountInv' /\ TableIsKept'
  BY <1>2, <1>5, <1>6 DEF IInv, CountInv, TableIsKept
<1>8. Grown' /\ FirstComes'
  BY <1>5 DEF Grown, FirstComes
<1>9. OpenInv'
  <2>1. \A i \in Places : /\ val[s(i)] # Closed => val'[s(i)] # Closed
                          /\ val[safe(i)] # Closed => val'[safe(i)] # Closed
    BY <1>4, SemsApart DEF Closed
  <2>2. val'[MUTEX] = val[MUTEX] /\ val'[PRINT_MUTEX] = val[PRINT_MUTEX]
    BY <1>3, <1>4, SemsApart
  <2> QED BY <1>2, <1>6, <2>1, <2>2 DEF IInv, OpenInv, KeepsItsSemaphores, Live
<1> QED BY <1>6, <1>7, <1>8, <1>9 DEF IInv

LEMMA AddCountsStep ==
  ASSUME IInv, AddCounts
  PROVE  IInv'
<1>1. /\ pc[Keeper] = "count" /\ curr_philos' = curr_philos + 1 /\ Go(Keeper, "post")
      /\ UNCHANGED <<end, index, refused, granting, val, asleep>>
  BY DEF AddCounts, At, semVars
<1>2. curr_philos' \in 1 .. MAX_PHYLOS /\ curr_philos \in Nat
  BY <1>1, PhilosophersAssumption DEF IInv, CountInv, TypeInv
<1>3. /\ TypeInv' /\ Live' = Live /\ pc'[Keeper] = "post"
  BY <1>1, <1>2, PhilosophersAssumption, KeeperMoves DEF KeeperPoints, IInv, TypeInv
<1>4. CountInv' /\ FirstComes'
  BY <1>1, <1>2, <1>3 DEF IInv, CountInv, FirstComes
<1>5. TableIsKept'
  <2>1. Live = 0 .. curr_philos
    BY <1>1 DEF IInv, TableIsKept
  <2> QED BY <1>1, <1>2, <1>3, <2>1 DEF TableIsKept
<1>6. Grown'
  BY <1>1, <1>2, <1>3, PhilosophersAssumption DEF IInv, TypeInv, Grown, NextIndex
<1>7. OpenInv'
  BY <1>1, <1>3 DEF IInv, OpenInv, KeepsItsSemaphores
<1> QED BY <1>3, <1>4, <1>5, <1>6, <1>7 DEF IInv

LEMMA AddPostsStep ==
  ASSUME IInv, AddPosts
  PROVE  IInv'
<1>1. /\ pc[Keeper] = "post" /\ Post(MUTEX) /\ index' = NextIndex /\ Go(Keeper, "read")
      /\ UNCHANGED <<curr_philos, end, refused, granting>> /\ TypeInv
  BY DEF AddPosts, At, IInv
<1>2. /\ val' \in [Sems -> Values]
      /\ \A c \in Sems : val'[c] = Closed <=> val[c] = Closed
  BY <1>1, SemsApart, PostKeeps
<1>3. index' \in Nat /\ (index <= MIN_PHYLOS => index' <= MIN_PHYLOS)
  BY <1>1, PhilosophersAssumption DEF TypeInv, NextIndex
<1>4. /\ TypeInv' /\ Live' = Live /\ pc'[Keeper] = "read"
  BY <1>1, <1>2, <1>3, KeeperMoves DEF KeeperPoints, TypeInv
<1>5. CountInv' /\ TableIsKept' /\ Grown'
  BY <1>1, <1>3, <1>4 DEF IInv, CountInv, TableIsKept, Grown
<1>6. FirstComes'
  BY <1>1 DEF IInv, FirstComes
<1>7. OpenInv'
  BY <1>1, <1>2, <1>4, SemsApart DEF IInv, OpenInv, KeepsItsSemaphores, Live
<1> QED BY <1>4, <1>5, <1>6, <1>7 DEF IInv

(* remove_philo.  In a game without refusals somebody is always counted.    *)
LEMMA SomebodyCounted ==
  ASSUME IInv, refused = 0,
         pc[Keeper] \in {"asks", "remove", "unsafe", "kill", "removed", "done", "clear"}
  PROVE  curr_philos # 0
BY PhilosophersAssumption DEF IInv, Grown

LEMMA KeeperWaits ==
  ASSUME IInv, NEW here, NEW next \in KeeperPoints, NEW sem \in Sems,
         WaitStep(Keeper, here, sem, next)
  PROVE  /\ TypeInv' /\ Live' = Live /\ pc'[Keeper] = next /\ pc[Keeper] = here
         /\ \A i \in Places : pc'[i] = pc[i]
         /\ \A c \in Sems : val'[c] = Closed <=> val[c] = Closed
         /\ UNCHANGED tableVars
<1>1. /\ pc[Keeper] = here /\ Wait(Keeper, sem) /\ Go(Keeper, next)
      /\ UNCHANGED <<tableVars, granting>> /\ TypeInv
  BY DEF WaitStep, At, IInv
<1>2. /\ val' \in [Sems -> Values]
      /\ \A c \in Sems : val'[c] = Closed <=> val[c] = Closed
  BY <1>1, KeeperApart, WaitKeeps
<1>3. /\ TypeInv' /\ Live' = Live /\ pc'[Keeper] = next
      /\ \A i \in Places : pc'[i] = pc[i]
  BY <1>1, <1>2, KeeperMoves DEF tableVars, TypeInv
<1> QED BY <1>1, <1>2, <1>3

LEMMA OpenWhileCalled ==
  ASSUME IInv, TypeInv', Live' = Live, UNCHANGED tableVars,
         \A c \in Sems : val'[c] = Closed <=> val[c] = Closed,
         pc[Keeper] # "shell", pc[Keeper] # "kill", pc'[Keeper] \notin {"safe"}
  PROVE  OpenInv'
BY SemsApart DEF tableVars, IInv, OpenInv, KeepsItsSemaphores, Live

LEMMA RemoveWaitsStep ==
  ASSUME IInv, RemoveWaits
  PROVE  IInv'
<1>1. CASE /\ Reads /\ curr_philos # MIN_PHYLOS /\ curr_philos > 0
           /\ WaitStep(Keeper, "read", safe(curr_philos - 1), "asks")
  <2>1. curr_philos - 1 \in Places
    BY <1>1, PhilosophersAssumption DEF IInv, TypeInv, Places
  <2>2. /\ TypeInv' /\ Live' = Live /\ pc'[Keeper] = "asks" /\ pc[Keeper] = "read"
        /\ \A c \in Sems : val'[c] = Closed <=> val[c] = Closed
        /\ UNCHANGED tableVars
    BY <1>1, <2>1, SemsApart, KeeperWaits DEF KeeperPoints
  <2>3. CountInv' /\ TableIsKept' /\ FirstComes'
    BY <1>1, <2>2 DEF IInv, CountInv, TableIsKept, FirstComes, tableVars
  <2>4. Grown'
    BY <1>1, <2>2, PhilosophersAssumption DEF IInv, TypeInv, Grown, tableVars, Reads
  <2>5. OpenInv'
    BY <2>2, OpenWhileCalled
  <2> QED BY <2>2, <2>3, <2>4, <2>5 DEF IInv
<1>2. CASE WaitStep(Keeper, "asks", MUTEX, "remove")
  <2>1. /\ TypeInv' /\ Live' = Live /\ pc'[Keeper] = "remove" /\ pc[Keeper] = "asks"
        /\ \A c \in Sems : val'[c] = Closed <=> val[c] = Closed
        /\ UNCHANGED tableVars
    BY <1>2, SemsApart, KeeperWaits DEF KeeperPoints
  <2>2. CountInv' /\ TableIsKept' /\ FirstComes' /\ Grown'
    BY <2>1 DEF IInv, CountInv, TableIsKept, FirstComes, Grown, tableVars
  <2>3. OpenInv'
    BY <2>1, OpenWhileCalled
  <2> QED BY <2>1, <2>2, <2>3 DEF IInv
<1> QED BY <1>1, <1>2 DEF RemoveWaits

LEMMA RemoveCountsStep ==
  ASSUME IInv, RemoveCounts
  PROVE  IInv'
<1>1. /\ pc[Keeper] = "remove" /\ curr_philos' = curr_philos - 1 /\ Go(Keeper, "unsafe")
      /\ UNCHANGED <<end, index, refused, granting, val, asleep>>
  BY DEF RemoveCounts, At, semVars
<1>2. /\ curr_philos' \in 0 .. MAX_PHYLOS /\ curr_philos' < MAX_PHYLOS
      /\ curr_philos \in Nat \ {0}
  BY <1>1, PhilosophersAssumption DEF IInv, CountInv, TypeInv
<1>3. /\ TypeInv' /\ Live' = Live /\ pc'[Keeper] = "unsafe"
  BY <1>1, <1>2, KeeperMoves DEF KeeperPoints, IInv, TypeInv
<1>4. CountInv'
  BY <1>1, <1>2, <1>3 DEF IInv, CountInv
<1>5. TableIsKept'
  <2>1. Live = 0 .. curr_philos - 1
    BY <1>1 DEF IInv, TableIsKept
  <2> QED BY <1>1, <1>2, <1>3, <2>1 DEF TableIsKept
<1>6. Grown' /\ FirstComes'
  BY <1>1, <1>2, <1>3, PhilosophersAssumption DEF IInv, TypeInv, Grown, FirstComes
<1>7. OpenInv'
  BY <1>1, <1>3 DEF IInv, OpenInv, KeepsItsSemaphores
<1> QED BY <1>3, <1>4, <1>5, <1>6, <1>7 DEF IInv

LEMMA RemoveClosesStep ==
  ASSUME IInv, RemoveCloses
  PROVE  IInv'
<1>1. PICK n \in Places : n = curr_philos
  BY CountInTable DEF RemoveCloses, At
<1>2. UNCHANGED <<tableVars, granting>> /\ TypeInv /\ s(n) \in Sems /\ safe(n) \in Sems
  BY SemsApart DEF RemoveCloses, IInv
<1>3. CASE pc[Keeper] = "unsafe" /\ val' = Without({safe(n)}) /\ Go(Keeper, "kill")
  <2>1. val' \in [Sems -> Values] /\ \A c \in Sems \ {safe(n)} : val'[c] = val[c]
    BY <1>2, <1>3, WithoutIs
  <2>2. TypeInv' /\ Live' = Live /\ pc'[Keeper] = "kill"
    BY <1>2, <1>3, <2>1, KeeperMoves DEF KeeperPoints, IInv, TypeInv, tableVars
  <2>3. CountInv' /\ TableIsKept' /\ Grown' /\ FirstComes'
    BY <1>2, <1>3, <2>2, SomebodyCounted
       DEF IInv, CountInv, TableIsKept, Grown, FirstComes, tableVars
  <2>4. OpenInv'
    <3>1. /\ val'[MUTEX] = val[MUTEX] /\ val'[PRINT_MUTEX] = val[PRINT_MUTEX]
          /\ \A i \in Places : /\ val'[s(i)] = val[s(i)]
                               /\ i # n => val'[safe(i)] = val[safe(i)]
      BY <1>1, <2>1, SemsApart
    <3>2. \A i \in Live : i \in Places /\ val[s(i)] # Closed /\ val[safe(i)] # Closed
      BY <1>3 DEF IInv, OpenInv, KeepsItsSemaphores, Live
    <3> QED BY <1>1, <1>2, <1>3, <2>2, <3>1, <3>2
            DEF IInv, OpenInv, KeepsItsSemaphores, tableVars
  <2> QED BY <2>2, <2>3, <2>4 DEF IInv
<1>4. CASE pc[Keeper] = "removed" /\ val' = Without({s(n)}) /\ Go(Keeper, "done")
  <2>1. val' \in [Sems -> Values] /\ \A c \in Sems \ {s(n)} : val'[c] = val[c]
    BY <1>2, <1>4, WithoutIs
  <2>2. TypeInv' /\ Live' = Live /\ pc'[Keeper] = "done"
    BY <1>2, <1>4, <2>1, KeeperMoves DEF KeeperPoints, IInv, TypeInv, tableVars
  <2>3. CountInv' /\ TableIsKept' /\ Grown' /\ FirstComes'
    BY <1>2, <1>4, <2>2, SomebodyCounted
       DEF IInv, CountInv, TableIsKept, Grown, FirstComes, tableVars
  <2>4. n \notin Live
    BY <1>1, <1>4, KeeperApart DEF IInv, TableIsKept
  <2>5. OpenInv'
    BY <1>1, <1>2, <1>4, <2>1, <2>2, <2>4, SemsApart
       DEF IInv, OpenInv, KeepsItsSemaphores, tableVars, Live
  <2> QED BY <2>2, <2>3, <2>5 DEF IInv
<1> QED BY <1>1, <1>3, <1>4 DEF RemoveCloses, At

LEMMA RemoveKillsStep ==
  ASSUME IInv, RemoveKills
  PROVE  IInv'
<1>1. PICK n \in Places : n = curr_philos
  BY CountInTable DEF RemoveKills, At
<1>2. /\ pc[Keeper] = "kill" /\ pc' = [pc EXCEPT ![Keeper] = "removed", ![n] = "none"]
      /\ granting' = [granting EXCEPT ![n] = NoGrant]
      /\ UNCHANGED <<tableVars, val>>
  BY <1>1 DEF RemoveKills, At
<1>3. /\ pc'[Keeper] = "removed" /\ pc'[n] = "none" /\ \A i \in Places \ {n} : pc'[i] = pc[i]
      /\ pc' \in [Procs -> PhiloPoints \cup KeeperPoints \cup {"none"}]
  BY <1>1, <1>2, KeeperApart DEF IInv, TypeInv, PhiloPoints, KeeperPoints
<1>4. Live' = Live \ {n}
  BY <1>1, <1>3 DEF Live
<1>5. TypeInv'
  <2>1. granting' \in [Places -> [to : Places, then : {"none", "took", "right", "gave"}]]
        /\ \A i \in Places \ {n} : granting'[i] = granting[i]
    BY <1>1, <1>2, PhilosophersAssumption DEF IInv, TypeInv, NoGrant, Places
  <2>2. \A i \in Places : pc'[i] \in PhiloPoints \cup {"none"}
    BY <1>3 DEF IInv, TypeInv
  <2>3. \A i \in Places : pc'[i] \in {"grant", "tell"} => granting'[i].then # "none"
    BY <1>3, <2>1 DEF IInv, TypeInv
  <2> QED BY <1>2, <1>3, <2>1, <2>2, <2>3 DEF IInv, TypeInv, KeeperPoints, tableVars
<1>6. CountInv' /\ Grown' /\ FirstComes'
  BY <1>2, <1>3, SomebodyCounted DEF IInv, CountInv, Grown, FirstComes, tableVars
<1>7. TableIsKept'
  <2>1. Live = 0 .. n /\ n \in Nat
    BY <1>1, <1>2, KeeperApart DEF IInv, TableIsKept
  <2>2. Live' = 0 .. n - 1
    BY <1>4, <2>1
  <2> QED BY <1>1, <1>2, <1>3, <2>2 DEF TableIsKept, tableVars
<1>8. OpenInv'
  BY <1>1, <1>2, <1>3, <1>4 DEF IInv, OpenInv, KeepsItsSemaphores, tableVars
<1> QED BY <1>5, <1>6, <1>7, <1>8 DEF IInv

LEMMA RemovePostsStep ==
  ASSUME IInv, RemovePosts
  PROVE  IInv'
<1>1. /\ pc[Keeper] = "done" /\ Post(MUTEX) /\ Go(Keeper, "read")
      /\ UNCHANGED <<tableVars, granting>> /\ TypeInv
  BY DEF RemovePosts, PostStep, At, IInv
<1>2. /\ val' \in [Sems -> Values]
      /\ \A c \in Sems : val'[c] = Closed <=> val[c] = Closed
  BY <1>1, SemsApart, PostKeeps
<1>3. TypeInv' /\ Live' = Live /\ pc'[Keeper] = "read"
  BY <1>1, <1>2, KeeperMoves DEF KeeperPoints, TypeInv, tableVars
<1>4. CountInv' /\ TableIsKept' /\ Grown' /\ FirstComes'
  BY <1>1, <1>3, SomebodyCounted
     DEF IInv, CountInv, TableIsKept, Grown, FirstComes, tableVars
<1>5. OpenInv'
  BY <1>1, <1>2, <1>3, OpenWhileCalled
<1> QED BY <1>3, <1>4, <1>5 DEF IInv

(* The end of a game.                                                      *)
LEMMA QuitsStep ==
  ASSUME IInv, Quits
  PROVE  IInv'
<1>1. /\ pc[Keeper] = "read" /\ index = MIN_PHYLOS /\ end' = TRUE /\ index' = 0
      /\ Go(Keeper, "clear") /\ UNCHANGED <<curr_philos, refused, granting, val, asleep>>
  BY DEF Quits, At, semVars, Reads
<1>2. TypeInv' /\ Live' = Live /\ pc'[Keeper] = "clear"
  BY <1>1, KeeperMoves DEF KeeperPoints, IInv, TypeInv
<1>3. CountInv' /\ TableIsKept'
  BY <1>1, <1>2 DEF IInv, CountInv, TableIsKept
<1>4. Grown' /\ FirstComes'
  BY <1>1, <1>2, PhilosophersAssumption DEF IInv, Grown, FirstComes
<1>5. OpenInv'
  BY <1>1, <1>2 DEF IInv, OpenInv, KeepsItsSemaphores
<1> QED BY <1>2, <1>3, <1>4, <1>5 DEF IInv

LEMMA ClearsStep ==
  ASSUME IInv, Clears
  PROVE  IInv'
<1>1. PICK n \in Places : n = index
  BY PhilosophersAssumption DEF Clears, IInv, TypeInv, Places
<1>2. /\ pc[Keeper] = "clear" /\ n < curr_philos
      /\ pc' = [pc EXCEPT ![n] = "none"] /\ granting' = [granting EXCEPT ![n] = NoGrant]
      /\ val' = Without({s(n), safe(n)}) /\ index' = n + 1
      /\ UNCHANGED <<curr_philos, end, refused>>
  BY <1>1 DEF Clears, At
<1>3. /\ pc'[Keeper] = "clear" /\ pc'[n] = "none" /\ \A i \in Places \ {n} : pc'[i] = pc[i]
      /\ pc' \in [Procs -> PhiloPoints \cup KeeperPoints \cup {"none"}]
  BY <1>1, <1>2, KeeperApart DEF IInv, TypeInv, PhiloPoints, KeeperPoints
<1>4. Live' = Live \ {n} /\ Live \subseteq n .. curr_philos - 1
  BY <1>1, <1>2, <1>3 DEF Live, IInv, TableIsKept
<1>5. val' \in [Sems -> Values] /\ \A c \in Sems \ {s(n), safe(n)} : val'[c] = val[c]
  BY <1>1, <1>2, SemsApart, WithoutIs DEF IInv
<1>6. TypeInv'
  <2>1. granting' \in [Places -> [to : Places, then : {"none", "took", "right", "gave"}]]
        /\ \A i \in Places \ {n} : granting'[i] = granting[i]
    BY <1>1, <1>2, PhilosophersAssumption DEF IInv, TypeInv, NoGrant, Places
  <2>2. index' \in Nat
    BY <1>1, <1>2, KeeperApart
  <2>3. \A i \in Places : pc'[i] \in PhiloPoints \cup {"none"}
    BY <1>3 DEF IInv, TypeInv
  <2>4. \A i \in Places : pc'[i] \in {"grant", "tell"} => granting'[i].then # "none"
    BY <1>3, <2>1 DEF IInv, TypeInv
  <2> QED BY <1>2, <1>3, <1>5, <2>1, <2>2, <2>3, <2>4 DEF IInv, TypeInv, KeeperPoints
<1>7. CountInv' /\ TableIsKept'
  <2>1. n \in Nat /\ curr_philos \in Nat
    BY <1>1, KeeperApart, PhilosophersAssumption DEF IInv, TypeInv
  <2>2. Live' \subseteq n + 1 .. curr_philos - 1 /\ n + 1 <= curr_philos
    BY <1>2, <1>4, <2>1
  <2> QED BY <1>2, <1>3, <2>2 DEF IInv, CountInv, TableIsKept
<1>8. Grown' /\ FirstComes'
  BY <1>2, <1>3, SomebodyCounted DEF IInv, Grown, FirstComes
<1>9. OpenInv'
  <2>1. /\ val'[MUTEX] = val[MUTEX] /\ val'[PRINT_MUTEX] = val[PRINT_MUTEX]
        /\ \A i \in Places \ {n} : val'[s(i)] = val[s(i)] /\ val'[safe(i)] = val[safe(i)]
    BY <1>1, <1>5, SemsApart
  <2>2. /\ val[MUTEX] # Closed /\ val[PRINT_MUTEX] # Closed
        /\ \A i \in Live : i \in Places /\ val[s(i)] # Closed /\ val[safe(i)] # Closed
    BY <1>2 DEF IInv, OpenInv, KeepsItsSemaphores, Live
  <2> QED BY <1>3, <1>4, <2>1, <2>2 DEF OpenInv, KeepsItsSemaphores
<1> QED BY <1>6, <1>7, <1>8, <1>9 DEF IInv

LEMMA FinishesStep ==
  ASSUME IInv, Finishes
  PROVE  IInv'
<1>1. /\ pc[Keeper] = "clear" /\ index >= curr_philos
      /\ val' = Without({MUTEX, PRINT_MUTEX}) /\ Go(Keeper, "shell")
      /\ UNCHANGED <<tableVars, granting>>
  BY DEF Finishes, At
<1>2. val' \in [Sems -> Values]
  BY <1>1, SemsApart, WithoutIs DEF IInv
<1>3. TypeInv' /\ Live' = Live /\ pc'[Keeper] = "shell"
  BY <1>1, <1>2, KeeperMoves DEF KeeperPoints, IInv, TypeInv, tableVars
<1>4. Live = {}
  <2>1. Live \subseteq index .. curr_philos - 1 /\ index \in Nat /\ curr_philos \in Nat
    BY <1>1, PhilosophersAssumption DEF IInv, TableIsKept, TypeInv
  <2> QED BY <1>1, <2>1
<1>5. CountInv' /\ TableIsKept' /\ Grown' /\ FirstComes' /\ OpenInv'
  BY <1>3, <1>4 DEF CountInv, TableIsKept, Grown, FirstComes, OpenInv, KeepsItsSemaphores
<1> QED BY <1>3, <1>5 DEF IInv

LEMMA InterruptStep ==
  ASSUME IInv, Interrupt
  PROVE  IInv'
<1>1. /\ pc' \in [Procs -> PhiloPoints \cup KeeperPoints \cup {"none"}]
      /\ pc'[Keeper] = "shell" /\ \A i \in Places : pc'[i] = "none"
      /\ UNCHANGED <<tableVars, val>> /\ granting' = [i \in Places |-> NoGrant]
  BY KeeperApart DEF Interrupt, KeeperPoints
<1>2. Live' = {}
  BY <1>1 DEF Live
<1>3. granting' \in [Places -> [to : Places, then : {"none", "took", "right", "gave"}]]
  BY <1>1, PhilosophersAssumption DEF NoGrant, Places
<1>4. TypeInv'
  BY <1>1, <1>3 DEF IInv, TypeInv, KeeperPoints, tableVars
<1>5. CountInv' /\ TableIsKept' /\ Grown' /\ FirstComes' /\ OpenInv'
  BY <1>1, <1>2 DEF CountInv, TableIsKept, Grown, FirstComes, OpenInv, KeepsItsSemaphores
<1> QED BY <1>4, <1>5 DEF IInv

-----------------------------------------------------------------------------
LEMMA NextIInv ==
  ASSUME IInv, [Next]_vars
  PROVE  IInv'
<1>1. CASE Starts
  BY <1>1, StartsStep
<1>2. CASE Add
  BY <1>2, AddWaitsStep, AddIsFullStep, AddCreatesStep, AddStartsStep,
     AddIsRefusedStep, AddCountsStep, AddPostsStep DEF Add
<1>3. CASE Remove
  BY <1>3, RemoveWaitsStep, RemoveCountsStep, RemoveClosesStep, RemoveKillsStep,
     RemovePostsStep DEF Remove
<1>4. CASE Quits \/ Clears \/ Finishes
  BY <1>4, QuitsStep, ClearsStep, FinishesStep
<1>5. CASE \E i \in Live : Philosopher(i)
  BY <1>5, PhilosopherStep
<1>6. CASE Interrupt
  BY <1>6, InterruptStep
<1>7. CASE UNCHANGED vars
  BY <1>7 DEF vars, tableVars, semVars, IInv, TypeInv, CountInv, TableIsKept, Grown,
     FirstComes, OpenInv, KeepsItsSemaphores, NextIndex, Live
<1> QED BY <1>1, <1>2, <1>3, <1>4, <1>5, <1>6, <1>7 DEF Next, TheKeeper

THEOREM IInvHolds == Spec => []IInv
<1>1. Init => IInv
  BY InitIInv
<1>2. IInv /\ [Next]_vars => IInv'
  BY NextIInv
<1> QED BY <1>1, <1>2, PTL DEF Spec

(* The count is the table, for every number of places and of refusals, and *)
(* whatever the semaphores do: do_philo leaves no philosopher behind        *)
(* (phylo.c:51-55, 80-86, 100-102).                                        *)
THEOREM TableFollowsCount == Spec => []TableIsKept
<1>1. IInv => TableIsKept
  BY DEF IInv
<1> QED BY <1>1, IInvHolds, PTL

(* A philosopher outlives none of its semaphores, but for the moment        *)
(* between close and kill (phylo.c:101-102).                               *)
THEOREM SemaphoresStayOpen == Spec => []KeepsItsSemaphores
<1>1. IInv => KeepsItsSemaphores
  BY DEF IInv, OpenInv
<1> QED BY <1>1, IInvHolds, PTL

(* Nobody divides by a count of 0, for every size of the table and however *)
(* the keeper is interleaved, unless a creation was refused                *)
(* (philo.h:13-14, phylo.c:92, 100).                                       *)
THEOREM NobodyDividesByZero == Spec => []DivisorIsPositive
<1>1. IInv => DivisorIsPositive
  <2>1. SUFFICES ASSUME IInv, refused = 0, NEW i \in Live, pc[i] \in {"own", "left", "right"}
                 PROVE  curr_philos > 0
    BY DEF DivisorIsPositive
  <2>2. pc[Keeper] # "shell"
    BY <2>1, ShellHasNobody
  <2>3. curr_philos # 0
    BY <2>1, <2>2 DEF IInv, FirstComes
  <2> QED BY <2>1, <2>3, PhilosophersAssumption DEF IInv, TypeInv
<1> QED BY <1>1, IInvHolds, PTL
=============================================================================
