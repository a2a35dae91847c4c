--------------------------- MODULE MemoryManager ---------------------------
(***************************************************************************)
(* The heap of the kernel (Kernel/memory_manager.c), shared by kernel and  *)
(* processes.  A block is a header and the bytes behind it; the next       *)
(* header follows where the block ends, and the last one has size 0.  The  *)
(* model keeps the headers reached from the start of the heap; addresses   *)
(* are offsets from HEAP_START.                                            *)
(*                                                                         *)
(* Calls run with interrupts off: each is one step.  Callers free what     *)
(* they were given, once, and write only into it.  The system call that    *)
(* initialises the heap again (syscall_handler.c:107-109) is left out: no  *)
(* program makes it, and it leaves every holder of memory without it.      *)
(***************************************************************************)
EXTENDS Integers, FiniteSetsExt

CONSTANTS
  HEAP_SIZE,  \* 0x100000
  Sizes       \* the sizes callers ask for

ASSUME MemoryAssumption == HEAP_SIZE \in Nat /\ Sizes \subseteq Nat

VARIABLES
  blocks,            \* the headers, by address
  allocated_bytes,   \* mem_info
  free_bytes,
  allocated_blocks,
  owned              \* of the model: what callers hold, as [at, len] records

mem_info == <<allocated_bytes, free_bytes, allocated_blocks>>
vars == <<blocks, mem_info, owned>>

HEADER == 16                     \* sizeof(header_info)
MIN_SIZE == HEADER + 2
MAX_SIZE == HEAP_SIZE - HEADER
SIZE(size) == 2 * (size \div 2)   \* masks the lowest bit

Header == [size : Nat, allocated : BOOLEAN]
Used(size) == [size |-> size, allocated |-> TRUE]
Unused(size) == [size |-> size, allocated |-> FALSE]
EndBlock == Used(0)              \* add_end_block

Chain == DOMAIN blocks
After(a) == a + blocks[a].size
IsLastBlock(a) == blocks[a].size = 0
TrueSize(n) == SIZE(n + HEADER + 1)   \* room for n bytes

Init ==
  /\ blocks = [a \in {0} |-> EndBlock]
  /\ allocated_bytes = 0
  /\ free_bytes = HEAP_SIZE
  /\ allocated_blocks = 0
  /\ owned = {}

-----------------------------------------------------------------------------
(* Mutant: a free block is taken although it is a header short.             *)
Fits_Short(true_size) ==
  {a \in Chain : ~blocks[a].allocated /\ blocks[a].size + HEADER >= true_size}

Fits(true_size) == {a \in Chain : ~blocks[a].allocated /\ blocks[a].size >= true_size}

TheEnd == CHOOSE a \in Chain : IsLastBlock(a)

(* The last block is used when this holds.  The sum is pointer arithmetic  *)
(* on header_info: it counts headers, not bytes.                           *)
EndHasRoom(true_size) == TheEnd + HEADER * (true_size + HEADER) <= HEAP_SIZE

(* find_free_block: the first block that fits, else the last one, if any.  *)
Candidates(true_size) ==
  IF Fits(true_size) # {} THEN Fits(true_size)
  ELSE IF EndHasRoom(true_size) THEN {TheEnd} ELSE {}

FindFreeBlock(true_size) ==
  CHOOSE a \in Candidates(true_size) : \A b \in Candidates(true_size) : a <= b

(* A block of true_size at a, and what is left behind it.                  *)
Cut(a, true_size, rest) ==
  [b \in Chain \cup {a + true_size} |->
     IF b = a THEN Used(true_size) ELSE IF b = a + true_size THEN rest ELSE blocks[b]]

(* Mutant: a split may leave less than a header.                            *)
Splits_NoMinimum(a, true_size) == true_size < blocks[a].size

Splits(a, true_size) == true_size + MIN_SIZE < blocks[a].size

(* Mutant: the bytes are counted that were asked for, not those taken.      *)
Taken_Asked(a, true_size) == true_size

(* How many bytes add_block takes.                                         *)
Taken(a, true_size) ==
  IF Splits(a, true_size) \/ IsLastBlock(a) THEN true_size ELSE blocks[a].size

(* add_block: split the block, move the end, or take the whole block.      *)
AddBlock(a, true_size) ==
  /\ \/ /\ Splits(a, true_size)
        /\ blocks' = Cut(a, true_size, Unused(blocks[a].size - true_size))
     \/ /\ IsLastBlock(a)
        /\ blocks' = Cut(a, true_size, EndBlock)
     \/ /\ ~Splits(a, true_size) /\ ~IsLastBlock(a)
        /\ blocks' = [blocks EXCEPT ![a].allocated = TRUE]
  /\ allocated_bytes' = allocated_bytes + Taken(a, true_size)
  /\ free_bytes' = free_bytes - Taken(a, true_size)
  /\ allocated_blocks' = allocated_blocks + 1

(* memory_alloc, when it does not return NULL.                             *)
MemoryAlloc(n) ==
  LET true_size == TrueSize(n)
      a == FindFreeBlock(true_size)
  IN  /\ n \in 1 .. MAX_SIZE
      /\ Candidates(true_size) # {}
      /\ AddBlock(a, true_size)
      /\ owned' = owned \cup {[at |-> a, len |-> n]}

(* Mutant: the block behind is merged into whatever its state.              *)
FreeBlock_MergesUsed(a) ==
  LET next == After(a)
  IN  [b \in Chain \ {next} |->
         IF b = a THEN Unused(blocks[a].size + blocks[next].size) ELSE blocks[b]]

(* free_block: a free block behind is merged into this one.                *)
FreeBlock(a) ==
  LET next == After(a)
  IN  IF blocks[next].allocated
        THEN [blocks EXCEPT ![a].allocated = FALSE]
        ELSE [b \in Chain \ {next} |->
                IF b = a THEN Unused(blocks[a].size + blocks[next].size) ELSE blocks[b]]

(* memory_free of something the caller holds.                              *)
MemoryFree(p) ==
  /\ blocks' = FreeBlock(p.at)
  /\ allocated_bytes' = allocated_bytes - blocks[p.at].size
  /\ free_bytes' = free_bytes + blocks[p.at].size
  /\ allocated_blocks' = allocated_blocks - 1
  /\ owned' = owned \ {p}

Next == (\E n \in Sizes : MemoryAlloc(n)) \/ (\E p \in owned : MemoryFree(p))

Spec == Init /\ [][Next]_vars

-----------------------------------------------------------------------------
(* The variables have their types.                                         *)
TypeOK ==
  /\ Chain \subseteq 0 .. HEAP_SIZE
  /\ blocks \in [Chain -> Header]
  /\ allocated_bytes \in Nat /\ free_bytes \in Nat /\ allocated_blocks \in Nat
  /\ owned \subseteq [at : Nat, len : Nat]

(* The blocks tile the heap from its start: every header lies where the    *)
(* block before it ends, one block is the last, and behind it there is     *)
(* room for a header at least (memory_manager.c:58, 67-102).               *)
BlocksTile ==
  /\ 0 \in Chain
  /\ \E a \in Chain : IsLastBlock(a)
  /\ \A a \in Chain : After(a) \in Chain
  /\ \A a, b \in Chain : a < b => a + HEADER <= After(a) /\ After(a) <= b
  /\ \A a \in Chain : IsLastBlock(a) => blocks[a].allocated /\ \A b \in Chain : b <= a
  /\ \A a \in Chain : a + HEADER <= HEAP_SIZE \/ a = 0

(* What a caller holds is its own: the bytes it asked for lie inside a     *)
(* block marked allocated, which no other caller holds, so that they       *)
(* overlap neither a header nor anybody else's (memory_manager.c:24-96).   *)
OwnersAreApart ==
  /\ \A p \in owned : /\ p.at \in Chain
                      /\ blocks[p.at].allocated /\ ~IsLastBlock(p.at)
                      /\ HEADER + p.len <= blocks[p.at].size
  /\ \A p, q \in owned : p.at = q.at => p = q

(* No leak: a block is marked allocated only while somebody holds it       *)
(* (memory_manager.c:24-30, 72, 84, 90).                                   *)
AllocatedIsOwned ==
  \A a \in Chain : blocks[a].allocated => IsLastBlock(a) \/ \E p \in owned : p.at = a

(* Marks and owners tell the same story: whatever is split, merged, given  *)
(* and taken back, every caller's bytes lie in a block of its own and      *)
(* every block that is marked is somebody's (memory_manager.c:24-96).      *)
OwnersMatchBlocks == OwnersAreApart /\ AllocatedIsOwned

(* mem_info says what a walk over the headers finds: the bytes and the     *)
(* number of the allocated blocks, and that the rest of the heap is free   *)
(* (memory_manager.c:18-20, 71-95), whatever was split and merged.         *)
InUse == {a \in Chain : blocks[a].allocated /\ ~IsLastBlock(a)}

AccountingIsExact ==
  /\ allocated_bytes = MapThenSumSet(LAMBDA a : blocks[a].size, InUse)
  /\ allocated_blocks = Cardinality(InUse)
  /\ allocated_bytes + free_bytes = HEAP_SIZE

(* find_free_block as its loop walks the headers; -1 is NULL.              *)
Walk(true_size) ==
  LET from[ptr \in Chain] ==
        IF ~IsLastBlock(ptr) /\ (blocks[ptr].allocated \/ blocks[ptr].size < true_size)
          THEN from[After(ptr)]
          ELSE ptr
  IN  from[0]

LoopFinds(true_size) ==
  LET ptr == Walk(true_size)
  IN  IF IsLastBlock(ptr) /\ ptr + HEADER * (true_size + HEADER) > HEAP_SIZE
        THEN -1 ELSE ptr

(* The model's choice of a block is that loop's (memory_manager.c:47-65).  *)
FindIsTheLoop ==
  \A n \in Sizes :
    LET t == TrueSize(n)
    IN  LoopFinds(t) = IF Candidates(t) = {} THEN -1 ELSE FindFreeBlock(t)
=============================================================================
