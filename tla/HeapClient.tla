----------------------------- MODULE HeapClient -----------------------------
(***************************************************************************)
(* The heap of one Module with the code that uses it: the compiled libpcap *)
(* (through malloc, calloc, realloc and free) and filter.go (Xmalloc of    *)
(* the filter string and of the packet buffer, Xfree of the string).  The  *)
(* client is any program that frees or resizes only blocks it holds and    *)
(* writes only inside them; its requests and what it writes are external.  *)
(***************************************************************************)
EXTENDS BumpAlloc

CONSTANTS
  Request,    \* the lengths the client asks for, in granules
  Value,      \* what a granule may hold
  Zero        \* the value of a granule of fresh memory

ASSUME ClientAssumption ==
  /\ Request \subseteq Int
  /\ Zero \in Value

VARIABLES
  heap,       \* brk, end, last and the length of the memory
  cell,       \* the contents of the memory, by granule
  live        \* ghost: the length of the block at an address, 0 if none is

vars == << heap, cell, live >>

TypeOK ==
  /\ heap \in Heap
  /\ cell \in [Address -> Value]
  /\ live \in [Address -> Nat]

Init ==
  /\ heap = NewHeap
  /\ cell = [a \in Address |-> Zero]
  /\ live = [a \in Address |-> 0]

Blocks == {a \in Address : live[a] > 0}

(* Hand out the block of a successful result; a result of 0 is no block. *)
Obtain(r, n) ==
  /\ heap' = r.heap
  /\ live' = IF r.ptr = 0 THEN live ELSE [live EXCEPT ![r.ptr] = n]
  /\ UNCHANGED cell

AllocateBlock(n)  == Obtain(Malloc(heap, n), n)
CallocateBlock(n) == Obtain(Calloc(heap, n), n)

FreeBlock(p) ==
  /\ p \in Blocks \cup {0}
  /\ heap' = Free(heap, p)
  /\ live' = IF p = 0 THEN live ELSE [live EXCEPT ![p] = 0]
  /\ UNCHANGED cell

(* memory_copy of k granules to the block that replaces the one at p. *)
CopyCells(from, to, k) ==
  [a \in Address |-> IF to <= a /\ a < to + k THEN cell[from + (a - to)]
                                              ELSE cell[a]]

ResizeBlock(p, n) ==
  LET r == Realloc(heap, p, n)
      q == r.ptr
  IN  /\ p \in Blocks
      /\ n # 0
      /\ heap' = r.heap
      /\ live' = IF q = 0 THEN live ELSE [live EXCEPT ![p] = 0, ![q] = n]
      /\ cell' = IF q \in {0, p} THEN cell
                 ELSE CopyCells(p, q, Copied(heap, p, n))

(* realloc(p, 0) is free(p). *)
ResizeToNothing(p) ==
  LET r == Realloc(heap, p, 0)
  IN  /\ p \in Blocks
      /\ heap' = r.heap
      /\ live' = [live EXCEPT ![p] = 0]
      /\ UNCHANGED cell

WriteCell(p, i, v) ==
  /\ p \in Blocks
  /\ i \in 0 .. live[p] - 1
  /\ cell' = [cell EXCEPT ![p + i] = v]
  /\ UNCHANGED << heap, live >>

Next ==
  \/ \E n \in Request : AllocateBlock(n) \/ CallocateBlock(n)
  \/ \E p \in Blocks \cup {0} : FreeBlock(p)
  \/ \E p \in Blocks, n \in Request : ResizeBlock(p, n)
  \/ \E p \in Blocks : ResizeToNothing(p)
  \/ \E p \in Blocks, v \in Value : \E i \in 0 .. live[p] - 1 : WriteCell(p, i, v)

Spec == Init /\ [][Next]_vars

-----------------------------------------------------------------------------
BlocksBelowBreak ==
  \A a \in Blocks : HeapBase <= a /\ a + live[a] <= Top(heap)

Disjoint(a, b) == a + live[a] <= b \/ b + live[b] <= a

(* No two blocks in use share a granule, whatever was freed, resized or    *)
(* refused before (Xmalloc, Xfree, _realloc, _calloc).                     *)
NoOverlap == \A a, b \in Blocks : a # b => Disjoint(a, b)

(* The block that free may take back is in use and ends at the break: the  *)
(* break can never be rewound below another block in use.                  *)
LastIsTop ==
  heap.last # 0 => heap.last \in Blocks /\ heap.last + live[heap.last] = Top(heap)

(* The inductive invariant: the heap is well formed and the blocks in use  *)
(* lie apart below its break, the last one ending at it.                   *)
HeapInv ==
  /\ TypeOK
  /\ WellFormed(heap)
  /\ BlocksBelowBreak
  /\ NoOverlap
  /\ LastIsTop

(* A request is refused only when it is not positive or does not fit       *)
(* between where the block would start and the largest memory; neither the *)
(* rounding of memory_grow to whole pages nor the wrap of the end at 2^32  *)
(* refuses a request that fits, and realloc of the last block counts the   *)
(* room of the block itself.                                               *)
RefusedOnlyWhenFull ==
  /\ \A n \in Request :
       Malloc(heap, n).ptr = 0 <=> n <= 0 \/ Top(heap) + n > Word
  /\ \A p \in Blocks, n \in Request \ {0} :
       Realloc(heap, p, n).ptr = 0 <=>
         /\ n = 1 => p = heap.last
         /\ n < 0 \/ NewStart(heap, p) + n > Word

(* A refused malloc or realloc leaves the heap as it was: realloc puts     *)
(* back the break that it rewound, and the block stays in use.             *)
RefusalChangesNothing ==
  /\ \A n \in Request : Malloc(heap, n).ptr = 0 => Malloc(heap, n).heap = heap
  /\ \A p \in Blocks, n \in Request \ {0} :
       Realloc(heap, p, n).ptr = 0 => Realloc(heap, p, n).heap = heap

(* The refinement: a block in use is the sequence of its granules. *)
StoreOfBlocks == [a \in Blocks |-> [i \in 1 .. live[a] |-> cell[a + i - 1]]]

Store == INSTANCE BlockStore WITH Handle <- Address, store <- StoreOfBlocks

(* Every step of the heap is a step of the store: an operation on a block  *)
(* shows in no other, and realloc keeps the common prefix.                 *)
ImplementsStore == Store!StoreSpec

(* What C says of calloc, and gencode.c's arena and netdb.c rely on: the   *)
(* block is zero.                                                          *)
CallocIsZero ==
  \A n \in Request :
    LET p == Calloc(heap, n).ptr
    IN  p # 0 => \A i \in 0 .. n - 1 : cell[p + i] = Zero
=============================================================================
