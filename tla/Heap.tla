-------------------------------- MODULE Heap --------------------------------
(***************************************************************************)
(* The kernel heap of lib/kernel/klib.c: a pool cut into blocks, each a    *)
(* header and its bytes, and a list of the free blocks.  kfree inserts a   *)
(* block at its place by address and kmalloc puts the rest of a block in   *)
(* the place of the block, so the list is always in the order of the       *)
(* addresses: it is the set free_list, and its next block is the next      *)
(* higher one.                                                             *)
(*                                                                         *)
(* Addresses are offsets in memory_pool.  Both calls hold heap_lock while  *)
(* they look at the list and no interrupt handler makes one, so each is    *)
(* one action.  Callers free what they were given, once.                   *)
(***************************************************************************)
EXTENDS Integers

CONSTANTS
  POOL,       \* KLIB_MEMORY_POOL_SIZE
  HDR,        \* sizeof(mem_block_t)
  ALIGN,      \* KLIB_BLOCK_ALIGNMENT
  SIZE_WORD,  \* size_t wraps
  Requests    \* what callers ask for, in bytes

ASSUME HeapAssumption ==
  /\ {POOL, HDR, ALIGN, SIZE_WORD} \subseteq Nat \ {0}
  /\ HDR < POOL
  /\ Requests \subseteq 1 .. SIZE_WORD - ALIGN

VARIABLES
  size,       \* block->size, for every block of the pool
  free_list,  \* the blocks of free_list
  asked,      \* history: for each block a caller holds, what was asked for
  heapPanic   \* why panic was called, "no" if it was not

heapVars == <<size, free_list, asked, heapPanic>>

Blocks == DOMAIN size
Held == DOMAIN asked
End(b) == b + HDR + size[b]
Lowest(S) == CHOOSE b \in S : \A c \in S : b <= c
Greatest(S) == CHOOSE b \in S : \A c \in S : c <= b

\* mem_init.
HeapInit ==
  /\ size = [b \in {0} |-> POOL - HDR]
  /\ free_list = {0}
  /\ asked = [b \in {} |-> 0]
  /\ heapPanic = "no"

-----------------------------------------------------------------------------
(***************************************************************************)
(* kmalloc: first fit.                                                     *)
(***************************************************************************)
\* Mutant: rounded down.
RoundedDown(n) == n - (n % ALIGN)

Rounded(n) == LET up == (n + ALIGN - 1) % SIZE_WORD IN up - (up % ALIGN)
Fits(n) == {b \in free_list : size[b] >= Rounded(n)}

\* Mutant: the header of the rest is not counted.
RestWithoutHeader(b, s) ==
  /\ size' = [c \in Blocks \cup {b + HDR + s} |->
                IF c = b THEN s
                ELSE IF c = b + HDR + s THEN size[b] - s ELSE size[c]]
  /\ free_list' = (free_list \ {b}) \cup {b + HDR + s}

\* The block keeps s bytes, the rest becomes a free block behind it.
Split(b, s) ==
  /\ size' = [c \in Blocks \cup {b + HDR + s} |->
                IF c = b THEN s
                ELSE IF c = b + HDR + s THEN size[b] - s - HDR ELSE size[c]]
  /\ free_list' = (free_list \ {b}) \cup {b + HDR + s}

kmalloc(n) ==
  /\ heapPanic = "no"
  /\ IF Fits(n) = {}
     THEN heapPanic' = "out of memory" /\ UNCHANGED <<size, free_list, asked>>
     ELSE LET b == Lowest(Fits(n))
          IN  /\ IF size[b] > Rounded(n) + HDR + ALIGN
                 THEN Split(b, Rounded(n))
                 ELSE free_list' = free_list \ {b} /\ UNCHANGED size
              /\ asked' = [c \in Held \cup {b} |-> IF c = b THEN n ELSE asked[c]]
              /\ UNCHANGED heapPanic

-----------------------------------------------------------------------------
(***************************************************************************)
(* kfree: into the list, merged with the block before and the one after.   *)
(***************************************************************************)
\* The block of the list that ends where b begins, and the one that begins
\* where b ends.  Only the neighbours in the list are looked at, and each free
\* block ends before the next one begins.
Before(b) ==
  LET lower == {c \in free_list : c < b}
  IN  IF lower # {} /\ End(Greatest(lower)) = b THEN {Greatest(lower)} ELSE {}
After(b) ==
  LET higher == {c \in free_list : c > b}
  IN  IF higher # {} /\ End(b) = Lowest(higher) THEN {Lowest(higher)} ELSE {}

\* b is in the list.  The lower of the merged blocks takes over the others.
Merge(b, before, after) ==
  LET first == IF before = {} THEN b ELSE Lowest(before)
      gone == after \cup (IF before = {} THEN {} ELSE {b})
      end == IF after = {} THEN End(b) ELSE End(Lowest(after))
  IN  /\ size' = [c \in Blocks \ gone |-> IF c = first THEN end - first - HDR ELSE size[c]]
      /\ free_list' = (free_list \cup {first}) \ gone

\* Mutant: tries the block after only when there was none before.
MergeOnce(b) == Merge(b, Before(b), IF Before(b) = {} THEN After(b) ELSE {})

InsertAndMerge(b) == Merge(b, Before(b), After(b))

kfree(b) ==
  /\ heapPanic = "no"
  /\ IF b \in free_list
     THEN heapPanic' = "double free" /\ UNCHANGED <<size, free_list, asked>>
     ELSE /\ InsertAndMerge(b)
          /\ asked' = [c \in Held \ {b} |-> asked[c]]
          /\ UNCHANGED heapPanic

HeapNext ==
  \/ \E n \in Requests : kmalloc(n)
  \/ \E b \in Held : kfree(b)

HeapSpec == HeapInit /\ [][HeapNext]_heapVars

-----------------------------------------------------------------------------
(***************************************************************************)
(* Properties.                                                             *)
(***************************************************************************)
\* Every variable has its type.
HeapTypeOK ==
  /\ size \in [Blocks -> Nat] /\ Blocks \subseteq 0 .. POOL - 1
  /\ free_list \subseteq Blocks
  /\ asked \in [Held -> Requests]
  /\ heapPanic \in {"no", "out of memory", "double free"}

\* The free blocks and the blocks held by callers tile the pool: they do not
\* overlap, there is no gap between them, and none is both.  No byte has two
\* owners and none is lost, whatever was split and merged.
BlocksTile ==
  /\ free_list \cap Held = {} /\ Blocks = free_list \cup Held
  /\ 0 \in Blocks
  /\ \A b \in Blocks : End(b) = POOL \/ End(b) \in Blocks
  /\ \A b, c \in Blocks : b < c => End(b) <= c

\* A caller has at least the bytes it asked for, and kfree never takes an
\* honest caller for one that frees twice.
CallersServed ==
  /\ \A b \in Held : asked[b] <= size[b]
  /\ heapPanic # "double free"

\* When kmalloc finds no block for a request, there is no stretch of the pool
\* between the blocks of the callers that is long enough for it: kfree leaves
\* no two free blocks side by side.
Unheld(x, n) ==
  /\ x + n <= POOL
  /\ \A b \in Held : End(b) <= x \/ x + n <= b
NoRoomMeansNoRoom ==
  \A n \in Requests :
    Fits(n) = {} => \A x \in 0 .. POOL - 1 : ~Unheld(x, HDR + Rounded(n))
=============================================================================
