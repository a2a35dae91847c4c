------------------------ MODULE MemoryManagerProofs ------------------------
(***************************************************************************)
(* Proofs about the heap, for every size of it and of the requests: blocks *)
(* tile it, what a caller was given is its own until it frees it, what is  *)
(* marked allocated is held by somebody, mem_info counts exactly that, and *)
(* the block that is taken is the one the code's loop finds.               *)
(***************************************************************************)
EXTENDS MemoryManager, FiniteSetTheorems, WellFoundedInduction, TLAPS

USE MemoryAssumption DEF HEADER, MIN_SIZE, MAX_SIZE

(* The types the argument needs; that the counts never go below zero comes *)
(* from what they count.                                                   *)
HeapType ==
  /\ Chain \subseteq Nat
  /\ blocks \in [Chain -> Header]
  /\ owned \subseteq [at : Nat, len : Nat]

(* The sizes, in b, of the blocks at S.                                    *)
Sum(b, S) == MapThenSumSet(LAMBDA a : b[a].size, S)

(* mem_info counts the blocks in use, of which there are finitely many.    *)
Accounting ==
  /\ IsFiniteSet(Chain)
  /\ allocated_bytes = Sum(blocks, InUse)
  /\ allocated_blocks = Cardinality(InUse)
  /\ free_bytes = HEAP_SIZE - allocated_bytes

IInv == HeapType /\ BlocksTile /\ OwnersAreApart /\ AllocatedIsOwned /\ Accounting

-----------------------------------------------------------------------------
(* What is asked for fits behind the header.                               *)
LEMMA TrueSizeFits ==
  ASSUME NEW n \in Nat
  PROVE  TrueSize(n) \in Nat /\ HEADER + n <= TrueSize(n)
  BY DEF TrueSize, SIZE

LEMMA TheEndIsLast ==
  ASSUME BlocksTile
  PROVE  TheEnd \in Chain /\ IsLastBlock(TheEnd)
  BY DEF BlocksTile, TheEnd

LEMMA Minimum ==
  ASSUME NEW S \in SUBSET Nat, S # {}
  PROVE  \E a \in S : \A b \in S : a <= b
<1> DEFINE R == OpToRel(<, Nat)
<1>1. PICK a \in S : \A b \in S : <<b, a>> \notin R
  <2>1. IsWellFoundedOn(R, Nat)
    BY NatLessThanWellFounded, Zenon
  <2> HIDE DEF R
  <2> QED BY <2>1, WFMin, Zenon
<1>2. \A b \in S : <<b, a>> \in Nat \X Nat
  OBVIOUS
<1>3. \A b \in S : ~(b < a)
  BY <1>1, <1>2 DEF OpToRel
<1> QED BY <1>3

-----------------------------------------------------------------------------
(* Sums over finite sets.  MapThenSumSet is a recursive function on the    *)
(* subsets of the set, so that what it says of all sets is shown by taking *)
(* a smallest set of which it were false.                                  *)
First(s) == CHOOSE x \in s : TRUE

SumStep(b, S, h) ==
  [s \in SUBSET S |-> IF s = {} THEN 0 ELSE b[First(s)].size + h[s \ {First(s)}]]

Sums(b, S) == CHOOSE h : h = SumStep(b, S, h)

LEMMA Smallest ==
  ASSUME NEW S, IsFiniteSet(S), NEW W \in SUBSET SUBSET S, W # {}
  PROVE  \E s \in W : \A t \in W : t \subseteq s => t = s
<1> DEFINE N == {Cardinality(s) : s \in W}
<1>1. \A s \in W : IsFiniteSet(s) /\ Cardinality(s) \in Nat
  <2> TAKE s \in W
  <2>1. IsFiniteSet(s)
    BY FS_Subset
  <2> QED BY <2>1, FS_CardinalityType
<1>2. PICK n \in N : \A m \in N : n <= m
  <2>1. N \subseteq Nat /\ N # {}
    BY <1>1
  <2> HIDE DEF N
  <2> QED BY <2>1, Minimum
<1>3. PICK s \in W : Cardinality(s) = n
  OBVIOUS
<1>4. ASSUME NEW t \in W, t \subseteq s PROVE t = s
  <2>1. Cardinality(s) <= Cardinality(t)
    BY <1>2, <1>3
  <2>2. Cardinality(t) <= Cardinality(s) /\ (Cardinality(t) = Cardinality(s) => t = s)
    BY <1>1, <1>4, FS_Subset
  <2> QED BY <1>1, <2>1, <2>2
<1> QED BY <1>3, <1>4

LEMMA SumIs == ASSUME NEW b, NEW S PROVE Sum(b, S) = Sums(b, S)[S]
  BY DEF Sum, Sums, SumStep, First, MapThenSumSet, MapThenFoldSet

LEMMA FirstIn == ASSUME NEW s, s # {} PROVE First(s) \in s
  BY DEF First

(* Two such functions agree wherever both are defined.                     *)
LEMMA SumsAgree ==
  ASSUME NEW b, NEW S, NEW T, IsFiniteSet(S), NEW h, NEW k,
         h = SumStep(b, S, h), k = SumStep(b, T, k), NEW s, s \subseteq S, s \subseteq T
  PROVE  h[s] = k[s]
<1> DEFINE W == {u \in SUBSET S : u \subseteq T /\ h[u] # k[u]}
<1>1. ASSUME NEW u \in W, \A t \in W : t \subseteq u => t = u PROVE FALSE
  <2>1. /\ h[u] = IF u = {} THEN 0 ELSE b[First(u)].size + h[u \ {First(u)}]
        /\ k[u] = IF u = {} THEN 0 ELSE b[First(u)].size + k[u \ {First(u)}]
    BY DEF SumStep
  <2>2. u # {} /\ First(u) \in u
    BY <2>1, FirstIn
  <2>3. u \ {First(u)} \notin W /\ u \ {First(u)} \subseteq S /\ u \ {First(u)} \subseteq T
    BY <1>1, <2>2
  <2> QED BY <2>1, <2>2, <2>3
<1>2. W \in SUBSET SUBSET S
  OBVIOUS
<1> HIDE DEF W
<1>3. W = {}
  BY <1>1, <1>2, Smallest
<1> QED BY <1>3 DEF W

(* The recursive function exists.                                          *)
LEMMA SumsExist ==
  ASSUME NEW b, NEW S, IsFiniteSet(S)
  PROVE  Sums(b, S) = SumStep(b, S, Sums(b, S))
<1> DEFINE Is(T) == Sums(b, T) = SumStep(b, T, Sums(b, T))
           W == {T \in SUBSET S : ~Is(T)}
<1>1. ASSUME NEW T \in W, \A t \in W : t \subseteq T => t = T PROVE FALSE
  <2> DEFINE less(s) == s \ {First(s)}
             g == [s \in SUBSET T |->
                     IF s = {} THEN 0 ELSE b[First(s)].size + Sums(b, less(s))[less(s)]]
  <2>1. \A u : u \subseteq T /\ u # T => Is(u) /\ IsFiniteSet(u)
    BY <1>1, FS_Subset
  <2>2. ASSUME NEW s \in SUBSET T, s # {} PROVE g[less(s)] = Sums(b, less(s))[less(s)]
    <3> DEFINE u == less(s)
    <3>1. u \subseteq T /\ u # T /\ Is(u) /\ IsFiniteSet(u)
      BY <2>1, <2>2, FirstIn
    <3>2. Sums(b, u)[u] = IF u = {} THEN 0 ELSE b[First(u)].size + Sums(b, u)[less(u)]
      BY <3>1 DEF SumStep
    <3>3. u # {} => Sums(b, u)[less(u)] = Sums(b, less(u))[less(u)]
      <4> SUFFICES ASSUME u # {} PROVE Sums(b, u)[less(u)] = Sums(b, less(u))[less(u)]
        OBVIOUS
      <4>1. less(u) \subseteq u /\ less(u) \subseteq T /\ less(u) # T
        BY <3>1, FirstIn
      <4>2. Is(less(u))
        BY <2>1, <4>1
      <4> QED BY <3>1, <4>1, <4>2, SumsAgree
    <3> QED BY <3>1, <3>2, <3>3
  <2>3. g = SumStep(b, T, g)
    BY <2>2 DEF SumStep
  <2> HIDE DEF g
  <2>4. Is(T)
    BY <2>3 DEF Sums
  <2> QED BY <1>1, <2>4
<1>2. W \in SUBSET SUBSET S
  OBVIOUS
<1> HIDE DEF W
<1>3. W = {}
  BY <1>1, <1>2, Smallest
<1> QED BY <1>3 DEF W

(* A sum is what its first element adds to the sum of the others.          *)
LEMMA SumUnfold ==
  ASSUME NEW b, NEW S, IsFiniteSet(S)
  PROVE  Sum(b, S) = IF S = {} THEN 0 ELSE b[First(S)].size + Sum(b, S \ {First(S)})
<1> DEFINE u == S \ {First(S)}
<1>1. Sums(b, S) = SumStep(b, S, Sums(b, S)) /\ Sums(b, u) = SumStep(b, u, Sums(b, u))
  BY SumsExist, FS_Subset
<1>2. Sums(b, S)[S] = IF S = {} THEN 0 ELSE b[First(S)].size + Sums(b, S)[u]
  BY <1>1 DEF SumStep
<1>3. Sums(b, S)[u] = Sums(b, u)[u]
  BY <1>1, SumsAgree
<1> QED BY <1>2, <1>3, SumIs

LEMMA SumType ==
  ASSUME NEW b, NEW S, IsFiniteSet(S), \A a \in S : b[a].size \in Nat
  PROVE  Sum(b, S) \in Nat
<1> DEFINE W == {s \in SUBSET S : Sum(b, s) \notin Nat}
<1>1. ASSUME NEW s \in W, \A t \in W : t \subseteq s => t = s PROVE FALSE
  <2>1. Sum(b, s) = IF s = {} THEN 0 ELSE b[First(s)].size + Sum(b, s \ {First(s)})
    BY SumUnfold, FS_Subset
  <2>2. s # {} /\ First(s) \in s
    BY <2>1, FirstIn
  <2>3. Sum(b, s \ {First(s)}) \in Nat
    BY <1>1, <2>2
  <2> QED BY <2>1, <2>2, <2>3
<1>2. W \in SUBSET SUBSET S
  OBVIOUS
<1> HIDE DEF W
<1>3. W = {}
  BY <1>1, <1>2, Smallest
<1> QED BY <1>3 DEF W

(* Which element is taken first does not matter.                           *)
LEMMA SumWithout ==
  ASSUME NEW b, NEW S, IsFiniteSet(S), \A x \in S : b[x].size \in Nat, NEW a \in S
  PROVE  Sum(b, S) = b[a].size + Sum(b, S \ {a})
<1> DEFINE W == {s \in SUBSET S : \E x \in s : Sum(b, s) # b[x].size + Sum(b, s \ {x})}
<1>1. ASSUME NEW s \in W, \A t \in W : t \subseteq s => t = s PROVE FALSE
  <2>1. PICK x \in s : Sum(b, s) # b[x].size + Sum(b, s \ {x})
    OBVIOUS
  <2> DEFINE y == First(s)
  <2>2. Sum(b, s) = b[y].size + Sum(b, s \ {y}) /\ y \in s
    BY <2>1, SumUnfold, FirstIn, FS_Subset
  <2> HIDE DEF y
  <2>3. s \ {y} \notin W /\ s \ {x} \notin W /\ x # y
    BY <1>1, <2>1, <2>2
  <2>4. Sum(b, s \ {y}) = b[x].size + Sum(b, (s \ {y}) \ {x})
    BY <2>1, <2>3
  <2>5. Sum(b, s \ {x}) = b[y].size + Sum(b, (s \ {x}) \ {y})
    BY <2>2, <2>3
  <2>6. PICK m : m = Sum(b, (s \ {x}) \ {y})
    OBVIOUS
  <2>7. (s \ {y}) \ {x} = (s \ {x}) \ {y}
    OBVIOUS
  <2>8. m \in Nat /\ b[x].size \in Nat /\ b[y].size \in Nat
    BY <2>1, <2>2, <2>6, SumType, FS_Subset
  <2>9. Sum(b, s) = b[y].size + (b[x].size + m) /\ Sum(b, s \ {x}) = b[y].size + m
    BY <2>2, <2>4, <2>5, <2>6, <2>7
  <2> QED BY <2>1, <2>8, <2>9
<1>2. W \in SUBSET SUBSET S
  OBVIOUS
<1>3. W = {}
  <2> HIDE DEF W
  <2> QED BY <1>1, <1>2, Smallest
<1> QED BY <1>3

LEMMA SumSame ==
  ASSUME NEW b, NEW d, NEW S, IsFiniteSet(S), \A x \in S : b[x].size = d[x].size
  PROVE  Sum(b, S) = Sum(d, S)
<1> DEFINE W == {s \in SUBSET S : Sum(b, s) # Sum(d, s)}
<1>1. ASSUME NEW s \in W, \A t \in W : t \subseteq s => t = s PROVE FALSE
  <2>1. /\ Sum(b, s) = IF s = {} THEN 0 ELSE b[First(s)].size + Sum(b, s \ {First(s)})
        /\ Sum(d, s) = IF s = {} THEN 0 ELSE d[First(s)].size + Sum(d, s \ {First(s)})
    BY SumUnfold, FS_Subset
  <2>2. s # {} /\ First(s) \in s
    BY <2>1, FirstIn
  <2>3. s \ {First(s)} \notin W
    BY <1>1, <2>2
  <2> QED BY <2>1, <2>2, <2>3
<1>2. W \in SUBSET SUBSET S
  OBVIOUS
<1> HIDE DEF W
<1>3. W = {}
  BY <1>1, <1>2, Smallest
<1> QED BY <1>3 DEF W

-----------------------------------------------------------------------------
(* find_free_block finds a free block that is large enough, or the last    *)
(* block when there is room behind it.                                     *)
LEMMA Found ==
  ASSUME IInv, NEW t \in Nat, Candidates(t) # {}
  PROVE  LET a == FindFreeBlock(t)
         IN  /\ a \in Chain
             /\ \/ ~blocks[a].allocated /\ blocks[a].size >= t
                \/ IsLastBlock(a) /\ a + HEADER * (t + HEADER) <= HEAP_SIZE
<1>1. Candidates(t) \subseteq Chain
  BY TheEndIsLast DEF Candidates, Fits, IInv
<1>2. \E a \in Candidates(t) : \A b \in Candidates(t) : a <= b
  BY <1>1, Minimum DEF IInv, HeapType
<1>3. FindFreeBlock(t) \in Candidates(t)
  BY <1>2 DEF FindFreeBlock
<1> QED BY <1>1, <1>3, TheEndIsLast DEF Candidates, Fits, EndHasRoom, IInv

-----------------------------------------------------------------------------
(* What lies where: no header lies inside a block, and the last is highest. *)
LEMMA NothingInside ==
  ASSUME IInv, NEW a \in Chain, NEW b \in Chain, a < b
  PROVE  After(a) <= b /\ a + HEADER <= After(a) /\ ~IsLastBlock(a)
  BY DEF IInv, HeapType, BlocksTile

(* A block cut in two, or the last block moved up.                         *)
LEMMA CutTiles ==
  ASSUME IInv, NEW a \in Chain, NEW t \in Nat, HEADER <= t, NEW rest \in Header,
         blocks' = Cut(a, t, rest), owned' \subseteq [at : Nat, len : Nat],
         \/ a + t + HEADER <= After(a) /\ rest.size = blocks[a].size - t
         \/ IsLastBlock(a) /\ rest = EndBlock /\ a + t + HEADER <= HEAP_SIZE
  PROVE  /\ HeapType' /\ BlocksTile'
         /\ a + t \notin Chain
         /\ Chain' = Chain \cup {a + t}
         /\ blocks'[a] = Used(t) /\ blocks'[a + t] = rest
         /\ \A b \in Chain \ {a} : blocks'[b] = blocks[b]
<1> DEFINE c == a + t
<1>1. /\ Chain \subseteq Nat /\ \A b \in Chain : blocks[b] \in Header /\ blocks[b].size \in Nat
      /\ a \in Nat /\ c \in Nat /\ a < c
      /\ HEAP_SIZE \in Nat /\ rest.size \in Nat
  BY DEF IInv, HeapType, Header
<1>2. c \notin Chain
  <2>1. CASE a + t + HEADER <= After(a)
    BY <1>1, <2>1, NothingInside DEF After
  <2>2. CASE IsLastBlock(a)
    BY <1>1, <2>2 DEF IInv, BlocksTile
  <2> QED BY <2>1, <2>2
<1>3. /\ Chain' = Chain \cup {c}
      /\ blocks'[a] = Used(t) /\ blocks'[c] = rest
      /\ \A b \in Chain \ {a} : blocks'[b] = blocks[b]
  BY <1>1, <1>2 DEF Cut, Chain
<1>4. Used(t) \in Header /\ Used(t).size = t
  BY DEF Used, Header
<1>5. HeapType'
  <2>1. blocks' \in [Chain' -> Header]
    BY <1>1, <1>3, <1>4 DEF Cut
  <2> QED BY <1>1, <1>3, <2>1 DEF IInv, HeapType
<1>6. /\ After(a)' = c /\ After(c)' = c + rest.size
      /\ \A b \in Chain \ {a} : After(b)' = After(b)
  BY <1>3, <1>4 DEF After
<1>7. /\ ~IsLastBlock(a)' /\ (IsLastBlock(c)' <=> rest.size = 0)
      /\ \A b \in Chain \ {a} : IsLastBlock(b)' <=> IsLastBlock(b)
  BY <1>1, <1>3, <1>4 DEF IsLastBlock
<1> HIDE DEF c
<1>8. /\ 0 \in Chain /\ \E b \in Chain : IsLastBlock(b)
      /\ \A b \in Chain : /\ After(b) \in Chain /\ After(b) \in Nat
                          /\ IsLastBlock(b) => blocks[b].allocated /\ \A d \in Chain : d <= b
                          /\ b + HEADER <= HEAP_SIZE \/ b = 0
      /\ \A b, d \in Chain : b < d => b + HEADER <= After(b) /\ After(b) <= d
  BY <1>1 DEF IInv, BlocksTile, After
<1>9. CASE a + t + HEADER <= After(a) /\ rest.size = blocks[a].size - t
  <2>1. /\ c + rest.size = After(a) /\ rest.size >= HEADER /\ c = a + t /\ c + HEADER <= After(a)
    BY <1>1, <1>9 DEF After, c
  <2>2. ~IsLastBlock(a) /\ After(a) # 0
    BY <1>1, <1>9 DEF After, IsLastBlock
  <2>3. 0 \in Chain' /\ \E b \in Chain' : IsLastBlock(b)'
    BY <1>3, <1>7, <1>8, <2>2
  <2>4. \A b \in Chain' : After(b)' \in Chain'
    BY <1>3, <1>6, <1>8, <2>1
  <2>5. ASSUME NEW b \in Chain', NEW d \in Chain', b < d
        PROVE  b + HEADER <= After(b)' /\ After(b)' <= d
    <3>1. CASE b = a /\ d = c
      BY <1>1, <1>6, <2>1, <3>1
    <3>2. CASE b = a /\ d # c
      BY <1>1, <1>3, <1>6, <1>8, <2>1, <2>5, <3>2
    <3>3. CASE b = c
      BY <1>1, <1>3, <1>6, <1>8, <2>1, <2>5, <3>3
    <3>4. CASE b # a /\ b # c /\ d = c
      <4>1. b \in Chain /\ b \in Nat /\ b < c
        BY <1>1, <1>3, <2>5, <3>4
      <4>2. a < b => After(a) <= b
        BY <1>8, <4>1, Zenon
      <4>3. After(a) \in Nat /\ HEADER \in Nat
        BY <1>8, MemoryAssumption
      <4>4. b < a
        BY <1>1, <2>1, <3>4, <4>1, <4>2, <4>3
      <4> QED BY <1>1, <1>3, <1>6, <1>8, <2>5, <3>4, <4>4
    <3>5. CASE b # a /\ b # c /\ d # c
      BY <1>3, <1>6, <1>8, <2>5, <3>5
    <3> QED BY <3>1, <3>2, <3>3, <3>4, <3>5
  <2>6. ASSUME NEW b \in Chain', IsLastBlock(b)'
        PROVE  blocks'[b].allocated /\ \A d \in Chain' : d <= b
    <3>1. b \in Chain \ {a} /\ IsLastBlock(b) /\ blocks'[b] = blocks[b]
      BY <1>3, <1>7, <2>1, <2>6
    <3>2. After(a) <= b
      BY <1>8, <3>1
    <3> QED BY <1>1, <1>3, <1>8, <2>1, <3>1, <3>2
  <2>7. \A b \in Chain' : b + HEADER <= HEAP_SIZE \/ b = 0
    <3>1. After(a) \in Nat /\ After(a) + HEADER <= HEAP_SIZE
      BY <1>8, <2>2
    <3>2. c + HEADER <= HEAP_SIZE
      BY <1>1, <2>1, <3>1
    <3> QED BY <1>3, <1>8, <3>2
  <2> QED BY <1>2, <1>3, <1>5, <2>3, <2>4, <2>5, <2>6, <2>7 DEF BlocksTile, c
<1>10. CASE IsLastBlock(a) /\ rest = EndBlock /\ a + t + HEADER <= HEAP_SIZE
  <2>1. rest.size = 0 /\ rest.allocated /\ c = a + t /\ c + HEADER <= HEAP_SIZE
    BY <1>10 DEF EndBlock, Used, c
  <2>2. \A b \in Chain : b <= a /\ (IsLastBlock(b) => b = a)
    <3>1. \A b \in Chain : b \in Nat /\ b <= a
      BY <1>1, <1>8, <1>10
    <3>2. ASSUME NEW b \in Chain, IsLastBlock(b) PROVE b = a
      <4>1. a <= b
        BY <1>8, <3>2
      <4> QED BY <1>1, <3>1, <4>1
    <3> QED BY <3>1, <3>2
  <2>3. 0 \in Chain' /\ \E b \in Chain' : IsLastBlock(b)'
    BY <1>3, <1>7, <1>8, <2>1
  <2>4. \A b \in Chain' : After(b)' \in Chain'
    <3>1. c + rest.size = c
      BY <1>1, <2>1
    <3> QED BY <1>3, <1>6, <1>8, <3>1
  <2>5. ASSUME NEW b \in Chain', NEW d \in Chain', b < d
        PROVE  b + HEADER <= After(b)' /\ After(b)' <= d
    <3>1. CASE b = a
      <4>1. d \in Chain => d <= a /\ d \in Nat
        BY <1>1, <2>2
      <4>2. d = c
        BY <1>1, <1>3, <2>5, <3>1, <4>1
      <4> QED BY <1>1, <1>6, <2>1, <3>1, <4>2
    <3>2. CASE b # a /\ d = c
      <4>1. b \in Chain /\ b < a
        BY <1>1, <1>3, <2>2, <2>5, <3>2
      <4> QED BY <1>1, <1>6, <1>8, <3>2, <4>1
    <3>3. CASE b # a /\ d # c
      <4>1. b \in Chain /\ d \in Chain
        BY <1>1, <1>3, <2>2, <2>5, <3>3
      <4> QED BY <1>6, <1>8, <2>5, <3>3, <4>1
    <3> QED BY <3>1, <3>2, <3>3
  <2>6. ASSUME NEW b \in Chain', IsLastBlock(b)'
        PROVE  blocks'[b].allocated /\ \A d \in Chain' : d <= b
    <3>1. b = c
      BY <1>3, <1>7, <2>2, <2>6
    <3> QED BY <1>1, <1>3, <2>1, <2>2, <3>1
  <2>7. \A b \in Chain' : b + HEADER <= HEAP_SIZE \/ b = 0
    BY <1>3, <1>8, <2>1
  <2> QED BY <1>2, <1>3, <1>5, <2>3, <2>4, <2>5, <2>6, <2>7 DEF BlocksTile, c
<1> QED BY <1>9, <1>10

(* A block that changes only its mark.                                     *)
LEMMA MarkTiles ==
  ASSUME IInv, NEW a \in Chain, NEW mark \in BOOLEAN, ~IsLastBlock(a),
         blocks' = [blocks EXCEPT ![a].allocated = mark],
         owned' \subseteq [at : Nat, len : Nat]
  PROVE  /\ HeapType' /\ BlocksTile'
         /\ Chain' = Chain
         /\ blocks'[a] = [size |-> blocks[a].size, allocated |-> mark]
         /\ \A b \in Chain \ {a} : blocks'[b] = blocks[b]
<1>1. /\ Chain' = Chain
      /\ blocks'[a] = [size |-> blocks[a].size, allocated |-> mark]
      /\ \A b \in Chain \ {a} : blocks'[b] = blocks[b]
  BY DEF IInv, HeapType, Header, Chain
<1>2. \A b \in Chain : blocks'[b].size = blocks[b].size
  BY <1>1
<1>3. HeapType'
  <2>1. blocks' \in [Chain' -> Header]
    BY <1>1 DEF IInv, HeapType, Header
  <2> QED BY <1>1, <2>1 DEF IInv, HeapType
<1>4. BlocksTile'
  <2>1. /\ 0 \in Chain /\ \E b \in Chain : IsLastBlock(b)
        /\ \A b \in Chain : /\ After(b) \in Chain
                            /\ IsLastBlock(b) => blocks[b].allocated /\ \A d \in Chain : d <= b
                            /\ b + HEADER <= HEAP_SIZE \/ b = 0
        /\ \A b, d \in Chain : b < d => b + HEADER <= After(b) /\ After(b) <= d
    BY DEF IInv, BlocksTile
  <2>2. \A b \in Chain : After(b)' = After(b) /\ (IsLastBlock(b)' <=> IsLastBlock(b))
    BY <1>2 DEF After, IsLastBlock
  <2>3. \A b \in Chain : IsLastBlock(b) => blocks'[b] = blocks[b]
    BY <1>1
  <2> QED BY <1>1, <2>1, <2>2, <2>3 DEF BlocksTile
<1> QED BY <1>1, <1>3, <1>4

(* A block that takes in the free block behind it.                         *)
LEMMA MergeTiles ==
  ASSUME IInv, NEW a \in Chain, ~IsLastBlock(a), ~blocks[After(a)].allocated,
         blocks' = FreeBlock(a), owned' \subseteq [at : Nat, len : Nat]
  PROVE  /\ HeapType' /\ BlocksTile'
         /\ After(a) \in Chain /\ After(a) # a
         /\ Chain' = Chain \ {After(a)}
         /\ ~blocks'[a].allocated /\ blocks'[a].size >= blocks[a].size
         /\ \A b \in Chain \ {a, After(a)} : blocks'[b] = blocks[b]
<1> DEFINE n == After(a)
<1>1. /\ Chain \subseteq Nat /\ \A b \in Chain : blocks[b] \in Header /\ blocks[b].size \in Nat
      /\ a \in Nat
  BY DEF IInv, HeapType, Header
<1>2. /\ 0 \in Chain /\ \E b \in Chain : IsLastBlock(b)
      /\ \A b \in Chain : /\ After(b) \in Chain
                          /\ IsLastBlock(b) => blocks[b].allocated /\ \A d \in Chain : d <= b
                          /\ b + HEADER <= HEAP_SIZE \/ b = 0
      /\ \A b, d \in Chain : b < d => b + HEADER <= After(b) /\ After(b) <= d
  BY DEF IInv, BlocksTile
<1>3. n \in Chain /\ a < n /\ n = a + blocks[a].size /\ ~IsLastBlock(n) /\ n \in Nat
  BY <1>1, <1>2 DEF After, IsLastBlock
<1>4. After(n) \in Chain /\ After(n) = n + blocks[n].size /\ n < After(n) /\ After(n) \in Nat
  BY <1>1, <1>2, <1>3 DEF After, IsLastBlock
<1>5. blocks' = [b \in Chain \ {n} |->
                   IF b = a THEN Unused(blocks[a].size + blocks[n].size) ELSE blocks[b]]
  BY DEF FreeBlock
<1> HIDE DEF n
<1>6. /\ Chain' = Chain \ {n}
      /\ blocks'[a] = Unused(blocks[a].size + blocks[n].size)
      /\ \A b \in Chain \ {a, n} : blocks'[b] = blocks[b]
  BY <1>1, <1>3, <1>5 DEF Chain
<1>7. /\ Unused(blocks[a].size + blocks[n].size) \in Header
      /\ blocks'[a].size = blocks[a].size + blocks[n].size /\ ~blocks'[a].allocated
  BY <1>1, <1>3, <1>6 DEF Unused, Header
<1>8. HeapType'
  <2>1. blocks' \in [Chain' -> Header]
    BY <1>1, <1>5, <1>6, <1>7
  <2> QED BY <1>1, <1>6, <2>1 DEF HeapType
<1>9. /\ After(a)' = After(n)
      /\ \A b \in Chain \ {a, n} : After(b)' = After(b)
  BY <1>1, <1>3, <1>4, <1>6, <1>7 DEF After
<1>10. /\ ~IsLastBlock(a)'
       /\ \A b \in Chain \ {a, n} : IsLastBlock(b)' <=> IsLastBlock(b)
  <2>1. blocks[n].size # 0 /\ blocks[n].size \in Nat /\ blocks[a].size \in Nat
    BY <1>1, <1>3 DEF IsLastBlock
  <2>2. ~IsLastBlock(a)'
    BY <1>7, <2>1 DEF IsLastBlock
  <2> QED BY <1>6, <2>2 DEF IsLastBlock
<1>11. \A b \in Chain \ {a, n} : After(b) # n
  <2> SUFFICES ASSUME NEW b \in Chain \ {a, n}, After(b) = n PROVE FALSE
    OBVIOUS
  <2>1. b \in Nat
    BY <1>1
  <2>2. CASE b < a
    BY <1>1, <1>2, <1>3, <2>1, <2>2
  <2>3. CASE b > a
    <3>1. n <= b
      BY <1>2, <1>3, <2>3 DEF n
    <3>2. n < b
      BY <1>3, <2>1, <3>1
    <3>3. n < After(b)
      <4>1. After(b) \in Nat /\ b <= After(b)
        BY <1>1, <2>1 DEF After
      <4> QED BY <1>3, <2>1, <3>2, <4>1
    <3> QED BY <1>3, <3>3
  <2> QED BY <1>1, <2>1, <2>2, <2>3
<1>12. BlocksTile'
  <2>1. 0 \in Chain' /\ \E b \in Chain' : IsLastBlock(b)'
    <3>1. 0 \in Chain'
      BY <1>1, <1>2, <1>3, <1>6
    <3>2. PICK b \in Chain : IsLastBlock(b)
      BY <1>2
    <3> QED BY <1>3, <1>6, <1>10, <3>1, <3>2
  <2>2. \A b \in Chain' : After(b)' \in Chain'
    <3>1. After(n) \in Chain \ {n}
      BY <1>3, <1>4
    <3>2. \A b \in Chain \ {a, n} : After(b) \in Chain \ {n}
      BY <1>2, <1>11
    <3> QED BY <1>6, <1>9, <3>1, <3>2
  <2>3. ASSUME NEW b \in Chain', NEW d \in Chain', b < d
        PROVE  b + HEADER <= After(b)' /\ After(b)' <= d
    <3>1. CASE b = a
      <4>1. d \in Chain /\ d \in Nat /\ d # n
        BY <1>1, <1>6
      <4>2. n <= d
        BY <1>2, <2>3, <3>1, <4>1 DEF n
      <4>3. n < d
        BY <1>3, <4>1, <4>2
      <4>4. After(n) <= d
        BY <1>2, <1>3, <4>1, <4>3
      <4>5. a + HEADER <= n
        BY <1>2, <1>3 DEF n
      <4> QED BY <1>1, <1>3, <1>4, <1>9, <3>1, <4>4, <4>5
    <3>2. CASE b # a
      BY <1>2, <1>6, <1>9, <2>3, <3>2
    <3> QED BY <3>1, <3>2
  <2>4. ASSUME NEW b \in Chain', IsLastBlock(b)'
        PROVE  blocks'[b].allocated /\ \A d \in Chain' : d <= b
    BY <1>2, <1>6, <1>10, <2>4
  <2>5. \A b \in Chain' : b + HEADER <= HEAP_SIZE \/ b = 0
    BY <1>2, <1>6
  <2> QED BY <2>1, <2>2, <2>3, <2>4, <2>5 DEF BlocksTile
<1>13. blocks'[a].size >= blocks[a].size
  BY <1>1, <1>3, <1>7
<1> QED BY <1>1, <1>3, <1>6, <1>7, <1>8, <1>12, <1>13 DEF n

-----------------------------------------------------------------------------
(* What mem_info says after a block was taken or given back.               *)
LEMMA CountedAre ==
  ASSUME IInv
  PROVE  /\ IsFiniteSet(InUse) /\ \A b \in InUse : blocks[b].size \in Nat
         /\ allocated_bytes = Sum(blocks, InUse) /\ allocated_bytes \in Nat
         /\ allocated_blocks = Cardinality(InUse) /\ allocated_blocks \in Nat
         /\ free_bytes = HEAP_SIZE - allocated_bytes
<1>1. IsFiniteSet(InUse)
  BY FS_Subset DEF IInv, Accounting, InUse
<1>2. \A b \in InUse : blocks[b].size \in Nat
  BY DEF IInv, HeapType, Header, InUse
<1>3. allocated_bytes = Sum(blocks, InUse)
  BY DEF IInv, Accounting
<1> QED BY <1>1, <1>2, <1>3, SumType, FS_CardinalityType DEF IInv, Accounting

LEMMA TakenIsCounted ==
  ASSUME IInv, NEW a, a \notin InUse, InUse' = InUse \cup {a}, IsFiniteSet(Chain'),
         blocks'[a].size \in Nat, \A b \in InUse : blocks'[b] = blocks[b],
         allocated_bytes' = allocated_bytes + blocks'[a].size,
         free_bytes' = free_bytes - blocks'[a].size,
         allocated_blocks' = allocated_blocks + 1
  PROVE  Accounting'
<1>1. /\ IsFiniteSet(InUse) /\ IsFiniteSet(InUse')
      /\ \A b \in InUse' : blocks'[b].size \in Nat
      /\ a \in InUse' /\ InUse' \ {a} = InUse
  BY CountedAre, FS_AddElement
<1>2. Sum(blocks', InUse') = blocks'[a].size + Sum(blocks', InUse)
  BY <1>1, SumWithout
<1>3. Sum(blocks', InUse) = Sum(blocks, InUse)
  BY <1>1, SumSame
<1>4. allocated_bytes' = Sum(blocks', InUse')
  BY <1>2, <1>3, CountedAre
<1>5. Cardinality(InUse') = Cardinality(InUse) + 1
  BY <1>1, FS_AddElement
<1>6. free_bytes' = HEAP_SIZE - allocated_bytes'
  BY CountedAre
<1> QED BY <1>4, <1>5, <1>6, CountedAre DEF Accounting

LEMMA FreedIsCounted ==
  ASSUME IInv, NEW a, a \in InUse, InUse' = InUse \ {a}, IsFiniteSet(Chain'),
         \A b \in InUse' : blocks'[b] = blocks[b],
         allocated_bytes' = allocated_bytes - blocks[a].size,
         free_bytes' = free_bytes + blocks[a].size,
         allocated_blocks' = allocated_blocks - 1
  PROVE  Accounting'
<1>1. IsFiniteSet(InUse) /\ IsFiniteSet(InUse') /\ \A b \in InUse : blocks[b].size \in Nat
  BY CountedAre, FS_RemoveElement
<1>2. Sum(blocks, InUse) = blocks[a].size + Sum(blocks, InUse')
  BY <1>1, SumWithout
<1>3. Sum(blocks', InUse') = Sum(blocks, InUse') /\ Sum(blocks, InUse') \in Nat
  BY <1>1, SumSame, SumType
<1>4. allocated_bytes' = Sum(blocks', InUse')
  BY <1>1, <1>2, <1>3, CountedAre
<1>5. Cardinality(InUse') = Cardinality(InUse) - 1
  BY <1>1, FS_RemoveElement
<1>6. free_bytes' = HEAP_SIZE - allocated_bytes'
  BY <1>1, CountedAre
<1> QED BY <1>4, <1>5, <1>6, CountedAre DEF Accounting

-----------------------------------------------------------------------------
(* memory_alloc gives its caller a block nobody else holds.                *)
LEMMA AllocKeeps ==
  ASSUME IInv, NEW n \in Nat, MemoryAlloc(n)
  PROVE  IInv'
<1> DEFINE t == TrueSize(n)
<1>0. PICK a : a = FindFreeBlock(t)
  OBVIOUS
<1> DEFINE p == [at |-> a, len |-> n]
<1>1. /\ t \in Nat /\ HEADER + n <= t /\ HEADER <= t
      /\ n \in 1 .. MAX_SIZE /\ Candidates(t) # {} /\ AddBlock(a, t)
      /\ owned' = owned \cup {p}
      /\ allocated_bytes' = allocated_bytes + Taken(a, t)
      /\ free_bytes' = free_bytes - Taken(a, t)
      /\ allocated_blocks' = allocated_blocks + 1
  BY <1>0, TrueSizeFits DEF MemoryAlloc, AddBlock
<1> HIDE DEF t
<1>2. /\ a \in Chain /\ blocks[a] \in Header /\ blocks[a].size \in Nat /\ a \in Nat
      /\ \/ ~blocks[a].allocated /\ blocks[a].size >= t
         \/ IsLastBlock(a) /\ a + HEADER * (t + HEADER) <= HEAP_SIZE
  BY <1>0, <1>1, Found DEF IInv, HeapType, Header
<1>3. p \in [at : Nat, len : Nat] /\ p.at = a /\ p.len = n
  BY <1>1, <1>2
<1> HIDE DEF p
<1>4. owned' \subseteq [at : Nat, len : Nat]
  BY <1>1, <1>3 DEF IInv, HeapType
<1>5. /\ \A q \in owned : /\ q.at \in Chain /\ blocks[q.at].allocated /\ ~IsLastBlock(q.at)
                          /\ HEADER + q.len <= blocks[q.at].size
      /\ \A q, r \in owned : q.at = r.at => q = r
      /\ \A b \in Chain : blocks[b].allocated => IsLastBlock(b) \/ \E q \in owned : q.at = b
  BY DEF IInv, OwnersAreApart, AllocatedIsOwned
<1>6. IsLastBlock(a) => blocks[a].allocated /\ blocks[a].size = 0
  BY <1>2 DEF IInv, BlocksTile, IsLastBlock
<1>7. \A q \in owned : q.at # a
  BY <1>2, <1>5
<1>8. ASSUME HeapType', BlocksTile',
             a \in Chain', blocks'[a].allocated, blocks'[a].size >= t,
             Chain \subseteq Chain', \A b \in Chain \ {a} : blocks'[b] = blocks[b],
             \A b \in Chain' \ Chain : blocks'[b].allocated => IsLastBlock(b)',
             blocks'[a].size = Taken(a, t), IsFiniteSet(Chain')
      PROVE  IInv'
  <2>1. blocks'[a].size \in Nat
    BY <1>8 DEF HeapType, Header
  <2>2. ~IsLastBlock(a)' /\ HEADER + n <= blocks'[a].size
    BY <1>1, <1>8, <2>1 DEF IsLastBlock
  <2>3. \A b \in Chain \ {a} : IsLastBlock(b)' <=> IsLastBlock(b)
    BY <1>8 DEF IsLastBlock
  <2>4. OwnersAreApart'
    <3>1. ASSUME NEW q \in owned'
          PROVE  /\ q.at \in Chain' /\ blocks'[q.at].allocated /\ ~IsLastBlock(q.at)'
                 /\ HEADER + q.len <= blocks'[q.at].size
      <4>1. CASE q = p
        BY <1>3, <1>8, <2>2, <4>1
      <4>2. CASE q \in owned
        <5>1. q.at \in Chain \ {a} /\ blocks'[q.at] = blocks[q.at]
          BY <1>5, <1>7, <1>8, <4>2
        <5> QED BY <1>5, <1>8, <2>3, <4>2, <5>1
      <4> QED BY <1>1, <4>1, <4>2
    <3>2. \A q, r \in owned' : q.at = r.at => q = r
      BY <1>1, <1>3, <1>5, <1>7
    <3> QED BY <3>1, <3>2 DEF OwnersAreApart
  <2>5. AllocatedIsOwned'
    <3> SUFFICES ASSUME NEW b \in Chain', blocks'[b].allocated, ~IsLastBlock(b)'
                 PROVE  \E q \in owned' : q.at = b
      BY DEF AllocatedIsOwned
    <3>1. CASE b = a
      BY <1>1, <1>3, <3>1
    <3>2. CASE b # a
      <4>1. b \in Chain \ {a} /\ blocks'[b] = blocks[b]
        BY <1>8, <3>2
      <4> QED BY <1>1, <1>5, <2>3, <4>1
    <3> QED BY <3>1, <3>2
  <2>6. a \notin InUse
    BY <1>2 DEF InUse
  <2>7. InUse' = InUse \cup {a}
    BY <1>2, <1>8, <2>2, <2>3 DEF InUse
  <2>8. \A b \in InUse : blocks'[b] = blocks[b]
    BY <1>8, <2>6 DEF InUse
  <2>9. Accounting'
    BY <1>1, <1>8, <2>1, <2>6, <2>7, <2>8, TakenIsCounted
  <2> QED BY <1>8, <2>4, <2>5, <2>9 DEF IInv
<1>12. IsFiniteSet(Chain) /\ \A c : IsFiniteSet(Chain \cup {c})
  BY FS_AddElement DEF IInv, Accounting
<1>9. CASE Splits(a, t) /\ blocks' = Cut(a, t, Unused(blocks[a].size - t))
  <2> DEFINE rest == Unused(blocks[a].size - t)
  <2>1. /\ rest \in Header /\ rest.size = blocks[a].size - t /\ ~rest.allocated
        /\ a + t + HEADER <= After(a)
    BY <1>1, <1>2, <1>9 DEF Unused, Header, Splits, After
  <2> HIDE DEF rest
  <2>2. blocks' = Cut(a, t, rest)
    BY <1>9 DEF rest
  <2>3. /\ HeapType' /\ BlocksTile'
        /\ a + t \notin Chain
        /\ Chain' = Chain \cup {a + t}
        /\ blocks'[a] = Used(t) /\ blocks'[a + t] = rest
        /\ \A b \in Chain \ {a} : blocks'[b] = blocks[b]
    BY <1>1, <1>2, <1>4, <2>1, <2>2, CutTiles
  <2>4. blocks'[a].allocated /\ blocks'[a].size >= t
    BY <1>1, <2>3 DEF Used
  <2>5. \A b \in Chain' \ Chain : ~blocks'[b].allocated
    BY <2>1, <2>3
  <2>6. blocks'[a].size = Taken(a, t)
    BY <1>9, <2>3 DEF Taken, Used
  <2>7. IsFiniteSet(Chain')
    BY <1>12, <2>3
  <2> QED BY <1>2, <1>8, <2>3, <2>4, <2>5, <2>6, <2>7
<1>10. CASE IsLastBlock(a) /\ blocks' = Cut(a, t, EndBlock)
  <2>1. a + HEADER * (t + HEADER) <= HEAP_SIZE
    BY <1>2, <1>6, <1>10
  <2>2. EndBlock \in Header /\ EndBlock.size = 0 /\ a + t + HEADER <= HEAP_SIZE
    BY <1>1, <1>2, <2>1 DEF EndBlock, Used, Header
  <2>3. /\ HeapType' /\ BlocksTile'
        /\ a + t \notin Chain
        /\ Chain' = Chain \cup {a + t}
        /\ blocks'[a] = Used(t) /\ blocks'[a + t] = EndBlock
        /\ \A b \in Chain \ {a} : blocks'[b] = blocks[b]
    BY <1>1, <1>2, <1>4, <1>10, <2>2, CutTiles
  <2>4. blocks'[a].allocated /\ blocks'[a].size >= t
    BY <1>1, <2>3 DEF Used
  <2>5. \A b \in Chain' \ Chain : IsLastBlock(b)'
    BY <2>2, <2>3 DEF IsLastBlock
  <2>6. blocks'[a].size = Taken(a, t)
    BY <1>10, <2>3 DEF Taken, Used
  <2>7. IsFiniteSet(Chain')
    BY <1>12, <2>3
  <2> QED BY <1>2, <1>8, <2>3, <2>4, <2>5, <2>6, <2>7
<1>11. CASE ~Splits(a, t) /\ ~IsLastBlock(a) /\ blocks' = [blocks EXCEPT ![a].allocated = TRUE]
  <2>1. /\ HeapType' /\ BlocksTile'
        /\ Chain' = Chain
        /\ blocks'[a] = [size |-> blocks[a].size, allocated |-> TRUE]
        /\ \A b \in Chain \ {a} : blocks'[b] = blocks[b]
    BY <1>2, <1>4, <1>11, MarkTiles
  <2>2. blocks'[a].allocated /\ blocks'[a].size >= t
    BY <1>2, <1>11, <2>1
  <2>3. blocks'[a].size = Taken(a, t) /\ IsFiniteSet(Chain')
    BY <1>11, <1>12, <2>1 DEF Taken
  <2> QED BY <1>2, <1>8, <2>1, <2>2, <2>3
<1> QED BY <1>1, <1>9, <1>10, <1>11 DEF AddBlock

(* memory_free takes back what one caller holds and disturbs no other.     *)
LEMMA FreeKeeps ==
  ASSUME IInv, NEW p \in owned, MemoryFree(p)
  PROVE  IInv'
<1> DEFINE a == p.at
<1>1. /\ blocks' = FreeBlock(a) /\ owned' = owned \ {p}
      /\ allocated_bytes' = allocated_bytes - blocks[a].size
      /\ free_bytes' = free_bytes + blocks[a].size
      /\ allocated_blocks' = allocated_blocks - 1
  BY DEF MemoryFree
<1>2. owned' \subseteq [at : Nat, len : Nat]
  BY <1>1 DEF IInv, HeapType
<1>3. /\ \A q \in owned : /\ q.at \in Chain /\ blocks[q.at].allocated /\ ~IsLastBlock(q.at)
                          /\ HEADER + q.len <= blocks[q.at].size
      /\ \A q, r \in owned : q.at = r.at => q = r
      /\ \A b \in Chain : blocks[b].allocated => IsLastBlock(b) \/ \E q \in owned : q.at = b
  BY DEF IInv, OwnersAreApart, AllocatedIsOwned
<1>4. a \in Chain /\ ~IsLastBlock(a) /\ blocks[a].allocated
  BY <1>3
<1> HIDE DEF a
<1>5. \A q \in owned' : q \in owned /\ q.at # a
  BY <1>1, <1>3 DEF a
<1>6. ASSUME HeapType', BlocksTile', Chain' \subseteq Chain, ~blocks'[a].allocated,
             \A b \in Chain' \ {a} : blocks'[b] = blocks[b],
             \A b \in Chain \ Chain' : ~blocks[b].allocated
      PROVE  IInv'
  <2>1. \A b \in Chain' \ {a} : IsLastBlock(b)' <=> IsLastBlock(b)
    BY <1>6 DEF IsLastBlock
  <2>2. \A q \in owned' : q.at \in Chain' \ {a}
    BY <1>3, <1>5, <1>6
  <2>3. OwnersAreApart'
    BY <1>3, <1>5, <1>6, <2>1, <2>2 DEF OwnersAreApart
  <2>4. AllocatedIsOwned'
    <3> SUFFICES ASSUME NEW b \in Chain', blocks'[b].allocated, ~IsLastBlock(b)'
                 PROVE  \E q \in owned' : q.at = b
      BY DEF AllocatedIsOwned
    <3>1. b \in Chain /\ b # a /\ blocks[b].allocated /\ ~IsLastBlock(b)
      BY <1>6, <2>1
    <3>2. PICK q \in owned : q.at = b
      BY <1>3, <3>1
    <3> QED BY <1>1, <3>1, <3>2 DEF a
  <2>5. a \in InUse /\ InUse' = InUse \ {a}
    BY <1>4, <1>6, <2>1 DEF InUse
  <2>6. \A b \in InUse' : blocks'[b] = blocks[b]
    BY <1>6, <2>5 DEF InUse
  <2>7. IsFiniteSet(Chain')
    BY <1>6, FS_Subset DEF IInv, Accounting
  <2>8. Accounting'
    BY <1>1, <2>5, <2>6, <2>7, FreedIsCounted
  <2> QED BY <1>6, <2>3, <2>4, <2>8 DEF IInv
<1>7. CASE blocks[After(a)].allocated
  <2>1. blocks' = [blocks EXCEPT ![a].allocated = FALSE]
    BY <1>1, <1>7 DEF FreeBlock
  <2>2. /\ HeapType' /\ BlocksTile'
        /\ Chain' = Chain
        /\ blocks'[a] = [size |-> blocks[a].size, allocated |-> FALSE]
        /\ \A b \in Chain \ {a} : blocks'[b] = blocks[b]
    BY <1>2, <1>4, <2>1, MarkTiles
  <2> QED BY <1>6, <2>2
<1>8. CASE ~blocks[After(a)].allocated
  <2>1. /\ HeapType' /\ BlocksTile'
        /\ Chain' = Chain \ {After(a)}
        /\ ~blocks'[a].allocated
        /\ \A b \in Chain \ {a, After(a)} : blocks'[b] = blocks[b]
    BY <1>1, <1>2, <1>4, <1>8, MergeTiles
  <2> QED BY <1>6, <1>8, <2>1
<1> QED BY <1>7, <1>8

-----------------------------------------------------------------------------
(* find_free_block: the walk of its loop and the choice of the model.      *)
Least(S) == CHOOSE q \in S : \A r \in S : q <= r

LEMMA LeastIs ==
  ASSUME NEW S \in SUBSET Nat, NEW q \in S, \A r \in S : q <= r
  PROVE  Least(S) = q
<1>1. Least(S) \in S /\ \A r \in S : Least(S) <= r
  BY DEF Least
<1>2. Least(S) \in Nat /\ q \in Nat /\ Least(S) <= q /\ q <= Least(S)
  BY <1>1
<1> QED BY <1>2

Stops(t, q) == IsLastBlock(q) \/ (~blocks[q].allocated /\ blocks[q].size >= t)

StopsFrom(t, p) == {q \in Chain : p <= q /\ Stops(t, q)}

WalkStep(t, f) ==
  [ptr \in Chain |->
     IF ~IsLastBlock(ptr) /\ (blocks[ptr].allocated \/ blocks[ptr].size < t)
       THEN f[After(ptr)] ELSE ptr]

(* The step of the loop, in terms of where it stops.                       *)
LEMMA WalkStepIs ==
  ASSUME IInv, NEW t \in Nat, NEW f, NEW p \in Chain, f = WalkStep(t, f)
  PROVE  f[p] = IF Stops(t, p) THEN p ELSE f[After(p)]
<1>1. f[p] = IF ~IsLastBlock(p) /\ (blocks[p].allocated \/ blocks[p].size < t)
               THEN f[After(p)] ELSE p
  BY DEF WalkStep
<1>2. blocks[p].size \in Nat
  BY DEF IInv, HeapType, Header
<1>3. Stops(t, p) <=> ~(~IsLastBlock(p) /\ (blocks[p].allocated \/ blocks[p].size < t))
  BY <1>2 DEF Stops
<1> QED BY <1>1, <1>3

(* Behind a header there is only the next one and what comes after it.     *)
LEMMA Behind ==
  ASSUME IInv, NEW p \in Chain
  PROVE  /\ p \in Nat /\ TheEnd \in Chain /\ TheEnd \in Nat /\ p <= TheEnd
         /\ After(p) \in Chain
         /\ ~IsLastBlock(p) => p < After(p) /\ After(p) \in Nat
         /\ \A q \in Chain : p < q => After(p) <= q
<1>1. TheEnd \in Chain /\ IsLastBlock(TheEnd)
  BY TheEndIsLast DEF IInv
<1>2. p \in Nat /\ blocks[p].size \in Nat /\ TheEnd \in Nat
  BY <1>1 DEF IInv, HeapType, Header
<1>3. p <= TheEnd /\ After(p) \in Chain /\ \A q \in Chain : p < q => After(p) <= q
  BY <1>1 DEF IInv, BlocksTile
<1>4. ~IsLastBlock(p) => p < After(p) /\ After(p) \in Nat
  BY <1>2 DEF After, IsLastBlock
<1> QED BY <1>1, <1>2, <1>3, <1>4

(* The loop that starts at p goes on from After(p) unless it stops there.  *)
LEMMA StopsOn ==
  ASSUME IInv, NEW t \in Nat, NEW p \in Chain
  PROVE  Least(StopsFrom(t, p)) = IF Stops(t, p) THEN p ELSE Least(StopsFrom(t, After(p)))
<1>1. CASE Stops(t, p)
  <2>1. p \in StopsFrom(t, p) /\ \A r \in StopsFrom(t, p) : p <= r
    BY <1>1, Behind DEF StopsFrom
  <2>2. StopsFrom(t, p) \in SUBSET Nat
    BY DEF StopsFrom, IInv, HeapType
  <2> QED BY <1>1, <2>1, <2>2, LeastIs
<1>2. CASE ~Stops(t, p)
  <2>1. ~IsLastBlock(p)
    BY <1>2 DEF Stops
  <2>2. p \in Nat /\ After(p) \in Nat /\ p < After(p)
    BY <2>1, Behind
  <2>3. ASSUME NEW q \in Chain, Stops(t, q) PROVE p <= q <=> After(p) <= q
    <3>1. q \in Nat /\ q # p
      BY <1>2, <2>3, Behind
    <3>2. p < q => After(p) <= q
      BY Behind
    <3> QED BY <2>2, <3>1, <3>2
  <2>4. StopsFrom(t, p) = StopsFrom(t, After(p))
    BY <2>3 DEF StopsFrom
  <2> QED BY <1>2, <2>4
<1> QED BY <1>1, <1>2

(* The loop ends where the first header lies at which it stops.            *)
LEMMA WalkIs ==
  ASSUME IInv, NEW t \in Nat
  PROVE  Walk(t) = Least(StopsFrom(t, 0))
<1> DEFINE g == [p \in Chain |-> Least(StopsFrom(t, p))]
           f == CHOOSE h : h = WalkStep(t, h)
<1>1. g = WalkStep(t, g)
  <2>1. \A p \in Chain :
          g[p] = IF ~IsLastBlock(p) /\ (blocks[p].allocated \/ blocks[p].size < t)
                   THEN g[After(p)] ELSE p
    <3> TAKE p \in Chain
    <3>1. blocks[p].size \in Nat /\ After(p) \in Chain
      BY Behind DEF IInv, HeapType, Header
    <3>2. Stops(t, p) <=> ~(~IsLastBlock(p) /\ (blocks[p].allocated \/ blocks[p].size < t))
      BY <3>1 DEF Stops
    <3> QED BY <3>1, <3>2, StopsOn
  <2> HIDE DEF g
  <2>2. g = [p \in Chain |-> g[p]]
    BY DEF g
  <2> QED BY <2>1, <2>2 DEF WalkStep
<1>2. Walk(t) = f[0]
  BY DEF Walk, WalkStep
<1>3. f = WalkStep(t, f)
  <2> HIDE DEF g
  <2> QED BY <1>1
<1> HIDE DEF f
<1>4. \A p \in Chain : f[p] = Least(StopsFrom(t, p))
  <2> DEFINE W == {p \in Chain : f[p] # Least(StopsFrom(t, p))}
             D == {TheEnd - p : p \in W}
  <2> SUFFICES ASSUME W # {} PROVE FALSE
    OBVIOUS
  <2>1. D \in SUBSET Nat /\ D # {}
    BY Behind
  <2> HIDE DEF D
  <2>2. PICK d \in D : \A e \in D : d <= e
    BY <2>1, Minimum
  <2>3. PICK p \in W : d = TheEnd - p
    BY DEF D
  <2>4. f[p] = IF Stops(t, p) THEN p ELSE f[After(p)]
    BY <1>3, WalkStepIs
  <2>5. ~Stops(t, p) /\ After(p) \in W
    BY <2>4, StopsOn, Behind
  <2>6. ~IsLastBlock(p)
    BY <2>5 DEF Stops
  <2>7. TheEnd - After(p) \in D
    BY <2>5 DEF D
  <2>8. p \in Nat /\ After(p) \in Nat /\ p < After(p) /\ TheEnd \in Nat
    BY <2>6, Behind
  <2> QED BY <2>2, <2>3, <2>7, <2>8
<1>5. 0 \in Chain
  BY DEF IInv, BlocksTile
<1> QED BY <1>2, <1>4, <1>5

LEMMA LoopIsChoice ==
  ASSUME IInv, NEW t \in Nat
  PROVE  LoopFinds(t) = IF Candidates(t) = {} THEN -1 ELSE FindFreeBlock(t)
<1>1. Walk(t) = Least(StopsFrom(t, 0))
  BY WalkIs
<1>2. /\ TheEnd \in Chain /\ IsLastBlock(TheEnd) /\ TheEnd \in Nat
      /\ \A a \in Chain : a \in Nat /\ (IsLastBlock(a) => blocks[a].allocated)
      /\ \A a \in Chain : a <= TheEnd /\ (IsLastBlock(a) => TheEnd <= a)
  BY TheEndIsLast DEF IInv, HeapType, BlocksTile
<1>3. StopsFrom(t, 0) = Fits(t) \cup {TheEnd}
  <2>1. \A q \in Chain : Stops(t, q) <=> q \in Fits(t) \cup {TheEnd}
    <3> TAKE q \in Chain
    <3>1. IsLastBlock(q) <=> q = TheEnd
      BY <1>2
    <3> QED BY <3>1 DEF Stops, Fits
  <2>2. \A q \in Chain : 0 <= q
    BY <1>2
  <2> QED BY <1>2, <2>1, <2>2 DEF StopsFrom, Fits
<1>4. FindFreeBlock(t) = Least(Candidates(t))
  BY DEF FindFreeBlock, Least
<1>5. Fits(t) \in SUBSET Nat /\ Fits(t) \subseteq Chain /\ StopsFrom(t, 0) \in SUBSET Nat
  BY <1>2, <1>3 DEF Fits
<1>6. CASE Fits(t) # {}
  <2>1. PICK a \in Fits(t) : \A b \in Fits(t) : a <= b
    BY <1>5, <1>6, Minimum
  <2>2. Candidates(t) = Fits(t)
    BY <1>6 DEF Candidates
  <2>3. FindFreeBlock(t) = a
    BY <1>4, <1>5, <2>1, <2>2, LeastIs
  <2>4. a \in StopsFrom(t, 0) /\ \A b \in StopsFrom(t, 0) : a <= b
    BY <1>2, <1>3, <1>5, <2>1
  <2>5. Walk(t) = a
    BY <1>1, <1>5, <2>4, LeastIs
  <2>6. ~IsLastBlock(a)
    BY <1>2, <2>1 DEF Fits
  <2> QED BY <1>6, <2>2, <2>3, <2>5, <2>6 DEF LoopFinds
<1>7. CASE Fits(t) = {}
  <2>1. Walk(t) = TheEnd
    BY <1>1, <1>2, <1>3, <1>5, <1>7, LeastIs
  <2>2. EndHasRoom(t) <=> ~(TheEnd + HEADER * (t + HEADER) > HEAP_SIZE)
    BY <1>2 DEF EndHasRoom
  <2>3. CASE EndHasRoom(t)
    <3>1. Candidates(t) = {TheEnd}
      BY <1>7, <2>3 DEF Candidates
    <3>2. FindFreeBlock(t) = TheEnd
      BY <1>2, <1>4, <3>1, LeastIs
    <3> QED BY <2>1, <2>2, <2>3, <3>1, <3>2 DEF LoopFinds
  <2>4. CASE ~EndHasRoom(t)
    <3>1. Candidates(t) = {}
      BY <1>7, <2>4 DEF Candidates
    <3> QED BY <1>2, <2>1, <2>2, <2>4, <3>1 DEF LoopFinds
  <2> QED BY <2>3, <2>4
<1> QED BY <1>6, <1>7

-----------------------------------------------------------------------------
(* The inductive invariant: the tiling and the ownership hold each other up. *)
THEOREM HeapInductive == Spec => []IInv
<1>1. Init => IInv
  <2> SUFFICES ASSUME Init PROVE IInv
    OBVIOUS
  <2>1. Chain = {0} /\ blocks[0] = EndBlock /\ blocks \in [Chain -> Header]
    BY DEF Init, Chain, EndBlock, Used, Header
  <2>2. owned = {} /\ EndBlock.size = 0 /\ EndBlock.allocated
    BY DEF Init, EndBlock, Used
  <2>3. HeapType
    BY <2>1, <2>2 DEF HeapType
  <2>4. BlocksTile
    BY <2>1, <2>2 DEF BlocksTile, After, IsLastBlock
  <2>5. OwnersAreApart /\ AllocatedIsOwned
    BY <2>1, <2>2 DEF OwnersAreApart, AllocatedIsOwned, IsLastBlock
  <2>6. InUse = {} /\ IsFiniteSet(Chain)
    BY <2>1, <2>2, FS_Singleton DEF InUse, IsLastBlock
  <2>7. Sum(blocks, {}) = 0 /\ Cardinality({}) = 0
    BY SumUnfold, FS_EmptySet
  <2>8. Accounting
    BY <2>6, <2>7 DEF Accounting, Init
  <2> QED BY <2>3, <2>4, <2>5, <2>8 DEF IInv
<1>2. ASSUME IInv, [Next]_vars PROVE IInv'
  <2>1. CASE \E n \in Sizes : MemoryAlloc(n)
    BY <1>2, <2>1, AllocKeeps
  <2>2. CASE \E p \in owned : MemoryFree(p)
    BY <1>2, <2>2, FreeKeeps
  <2>3. CASE UNCHANGED vars
    <3>1. /\ blocks' = blocks /\ owned' = owned /\ allocated_bytes' = allocated_bytes
          /\ free_bytes' = free_bytes /\ allocated_blocks' = allocated_blocks
      BY <2>3 DEF vars, mem_info
    <3>2. Chain' = Chain /\ InUse' = InUse
      BY <3>1 DEF Chain, InUse, IsLastBlock
    <3>3. Accounting'
      BY <1>2, <3>1, <3>2 DEF IInv, Accounting
    <3> QED BY <1>2, <3>1, <3>3 DEF IInv, HeapType, BlocksTile, OwnersAreApart,
                                    AllocatedIsOwned, Chain, After, IsLastBlock
  <2> QED BY <1>2, <2>1, <2>2, <2>3 DEF Next
<1> QED BY <1>1, <1>2, PTL DEF Spec

(* The blocks in use that begin below a header end below it: no more bytes *)
(* are in use than lie there.                                              *)
LEMMA SumBelow ==
  ASSUME IInv, NEW x \in Chain
  PROVE  Sum(blocks, {a \in InUse : a < x}) <= x
<1> DEFINE below(y) == {a \in InUse : a < y}
           W == {y \in Chain : ~(Sum(blocks, below(y)) <= y)}
<1>1. /\ Chain \subseteq Nat /\ InUse \subseteq Chain /\ IsFiniteSet(InUse)
      /\ \A a \in InUse : blocks[a].size \in Nat
  BY CountedAre DEF IInv, HeapType, InUse
<1>2. ASSUME NEW y \in Chain
      PROVE  IsFiniteSet(below(y)) /\ Sum(blocks, below(y)) \in Nat
  <2>1. IsFiniteSet(below(y)) /\ \A a \in below(y) : blocks[a].size \in Nat
    BY <1>1, FS_Subset
  <2> QED BY <2>1, SumType
<1>3. ASSUME NEW y \in W, \A z \in W : y <= z PROVE FALSE
  <2>1. y \in Nat /\ y \in Chain /\ ~(Sum(blocks, below(y)) <= y)
    BY <1>1
  <2>2. below(y) # {}
    <3>1. Sum(blocks, {}) = 0
      BY SumUnfold, FS_EmptySet
    <3> QED BY <2>1, <3>1
  <2> DEFINE D == {y - a : a \in below(y)}
  <2>3. D \in SUBSET Nat /\ D # {}
    <3>1. \A b \in below(y) : b \in Nat /\ b < y
      BY <1>1
    <3>2. \A b \in below(y) : y - b \in Nat
      BY <2>1, <3>1
    <3> HIDE DEF below
    <3> QED BY <2>2, <3>2
  <2>4. PICK d \in D : \A e \in D : d <= e
    <3> HIDE DEF D
    <3> QED BY <2>3, Minimum
  <2>5. PICK a \in below(y) : d = y - a
    BY <2>4
  <2>6. /\ a \in Nat /\ a < y /\ a \in Chain /\ a \in InUse /\ blocks[a].size \in Nat
    BY <1>1, <2>5
  <2>7. \A b \in below(y) : b <= a
    <3> TAKE b \in below(y)
    <3>1. y - b \in D /\ b \in Nat
      BY <1>1
    <3>2. d <= y - b
      <4> HIDE DEF D
      <4> QED BY <2>4, <3>1
    <3> HIDE DEF D, below
    <3> QED BY <2>1, <2>5, <2>6, <3>1, <3>2
  <2>8. below(y) \ {a} = below(a) /\ a \in below(y)
    <3>1. ASSUME NEW b \in below(y) \ {a} PROVE b \in below(a)
      <4>1. b <= a /\ b # a /\ b \in Nat
        BY <1>1, <2>7
      <4> QED BY <2>6, <4>1
    <3>2. ASSUME NEW b \in below(a) PROVE b \in below(y) \ {a}
      <4>1. b \in Nat /\ b < a /\ b \in InUse
        BY <1>1
      <4> QED BY <2>1, <2>6, <4>1
    <3> QED BY <2>5, <3>1, <3>2
  <2>9. Sum(blocks, below(y)) = blocks[a].size + Sum(blocks, below(a))
    <3>1. IsFiniteSet(below(y)) /\ \A b \in below(y) : blocks[b].size \in Nat
      BY <1>1, <1>2, <2>1
    <3>2. Sum(blocks, below(y)) = blocks[a].size + Sum(blocks, below(y) \ {a})
      <4> HIDE DEF below
      <4> QED BY <2>8, <3>1, SumWithout
    <3> QED BY <2>8, <3>2
  <2>10. a \notin W
    BY <1>3, <2>1, <2>6
  <2>11. Sum(blocks, below(a)) <= a /\ Sum(blocks, below(a)) \in Nat
    BY <1>2, <2>6, <2>10
  <2>12. a + blocks[a].size <= y
    BY <2>1, <2>6 DEF IInv, BlocksTile, After
  <2> HIDE DEF below
  <2> QED BY <2>1, <2>6, <2>9, <2>11, <2>12
<1>4. W \in SUBSET Nat
  BY <1>1
<1>5. W = {}
  <2> HIDE DEF W
  <2> QED BY <1>3, <1>4, Minimum
<1> QED BY <1>5

(* The heap is well formed: no header lies beyond its end, and no counter  *)
(* of mem_info ever goes below zero, the free bytes included, for what is  *)
(* in use lies below the last header (memory_manager.c:18-20, 71-95).      *)
THEOREM HeapTypes == Spec => []TypeOK
<1>1. ASSUME IInv PROVE TypeOK
  <2>1. Chain \subseteq 0 .. HEAP_SIZE
    BY <1>1 DEF IInv, HeapType, BlocksTile
  <2>2. PICK x \in Chain : IsLastBlock(x) /\ \A b \in Chain : b <= x
    BY <1>1 DEF IInv, BlocksTile
  <2>3. {a \in InUse : a < x} = InUse
    <3>1. ASSUME NEW a \in InUse PROVE a < x
      <4>1. a \in Chain /\ a # x /\ a \in Nat /\ x \in Nat
        BY <1>1, <2>2 DEF InUse, IInv, HeapType
      <4> QED BY <2>2, <4>1
    <3> QED BY <3>1
  <2>4. Sum(blocks, InUse) <= x
    BY <1>1, <2>2, <2>3, SumBelow
  <2>5. free_bytes \in Nat
    BY <1>1, <2>1, <2>2, <2>4, CountedAre
  <2> QED BY <1>1, <2>1, <2>5, CountedAre DEF TypeOK, IInv, HeapType
<1> QED BY <1>1, HeapInductive, PTL

(* mem_info says what a walk over the headers finds, whatever was split    *)
(* and merged (memory_manager.c:18-20, 71-95).                             *)
THEOREM HeapAccounting == Spec => []AccountingIsExact
<1>1. ASSUME IInv PROVE AccountingIsExact
  <2>1. allocated_bytes + free_bytes = HEAP_SIZE
    BY <1>1, CountedAre
  <2> QED BY <1>1, <2>1 DEF IInv, Accounting, AccountingIsExact, Sum
<1> QED BY <1>1, HeapInductive, PTL

(* The blocks tile the heap, for every size of it and every sequence of    *)
(* calls (memory_manager.c:24-30, 67-102).                                 *)
THEOREM HeapTiles == Spec => []BlocksTile
<1>1. IInv => BlocksTile
  BY DEF IInv
<1> QED BY <1>1, HeapInductive, PTL

(* No two callers are ever given overlapping memory, and no caller's bytes *)
(* hold a header (memory_manager.c:32-45).                                 *)
THEOREM HeapOwners == Spec => []OwnersAreApart
<1>1. IInv => OwnersAreApart
  BY DEF IInv
<1> QED BY <1>1, HeapInductive, PTL

(* What is marked allocated is held by somebody: nothing leaks inside the  *)
(* manager (memory_manager.c:24-30, 67-96).                                *)
THEOREM HeapDoesNotLeak == Spec => []AllocatedIsOwned
<1>1. IInv => AllocatedIsOwned
  BY DEF IInv
<1> QED BY <1>1, HeapInductive, PTL

(* Marks and owners tell the same story (memory_manager.c:24-96).          *)
THEOREM HeapOwnersMatchBlocks == Spec => []OwnersMatchBlocks
<1>1. IInv => OwnersMatchBlocks
  BY DEF IInv, OwnersMatchBlocks
<1> QED BY <1>1, HeapInductive, PTL

(* The first block that fits, else the last one when there is room behind  *)
(* it, is what the loop over the headers finds (memory_manager.c:47-65).   *)
THEOREM FindWalks == Spec => []FindIsTheLoop
<1>1. ASSUME IInv PROVE FindIsTheLoop
  <2>1. \A n \in Sizes : TrueSize(n) \in Nat
    BY TrueSizeFits
  <2> QED BY <1>1, <2>1, LoopIsChoice DEF FindIsTheLoop
<1> QED BY <1>1, HeapInductive, PTL
=============================================================================
