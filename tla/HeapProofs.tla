----------------------------- MODULE HeapProofs -----------------------------
(***************************************************************************)
(* Proofs about the allocator and its client, for every page size, memory  *)
(* limit, start of the heap, set of requests and set of values.            *)
(***************************************************************************)
EXTENDS HeapClient, BumpLemmas, SequenceTheorems

(* The invariant of the heap and its client.                               *)

LEMMA Basics ==
  ASSUME HeapInv
  PROVE  /\ WellFormed(heap)
         /\ heap.brk \in Address /\ heap.last \in Address
         /\ Top(heap) \in Nat /\ Top(heap) <= Word
         /\ Word \in Nat \ {0} /\ HeapBase \in Nat \ {0} /\ HeapBase <= Top(heap)
         /\ Address \subseteq Int /\ \A a \in Address : live[a] \in Nat
         /\ 0 \in Address /\ live[0] = 0
         /\ \A a \in Blocks : /\ a \in Address /\ a # 0 /\ live[a] \in Nat \ {0}
                              /\ HeapBase <= a /\ a + live[a] <= Top(heap)
<1>1. /\ WellFormed(heap) /\ Word \in Nat \ {0} /\ HeapBase \in Nat \ {0}
      /\ Top(heap) \in Nat /\ heap.mem \in Nat
      /\ heap.mem <= Word /\ Top(heap) <= heap.mem /\ HeapBase <= Top(heap)
      /\ heap.brk \in Address /\ heap.last \in Address
  <2>1. WellFormed(heap)
    BY DEF HeapInv
  <2> QED
    BY <2>1, WordSize, HeapAssumption, Room
<1>2. Address \subseteq Int /\ \A a \in Address : live[a] \in Nat
  BY <1>1 DEF HeapInv, TypeOK, Address
<1>3. \A a \in Blocks :
        /\ a \in Address /\ a # 0 /\ live[a] \in Nat \ {0}
        /\ HeapBase <= a /\ a + live[a] <= Top(heap)
  BY <1>1, <1>2 DEF HeapInv, BlocksBelowBreak, Blocks, Address
<1>4. 0 \in Address
  BY <1>1 DEF Address
<1>5. live[0] = 0
  BY <1>2, <1>3, <1>4 DEF Blocks
<1> QED
  BY <1>1, <1>2, <1>3, <1>4, <1>5

(* Every other block ends where the last one starts, or below.             *)
LEMMA BelowLast ==
  ASSUME HeapInv, heap.last # 0, NEW a \in Blocks, a # heap.last
  PROVE  a + live[a] <= heap.last
<1>1. /\ heap.last \in Blocks /\ heap.last + live[heap.last] = Top(heap)
      /\ Disjoint(a, heap.last)
  BY DEF HeapInv, LastIsTop, NoOverlap
<1> QED
  BY <1>1, Basics DEF Disjoint, Address

(* The blocks stay apart when a block of n granules is placed at s, above  *)
(* every block but the one it replaces, and the break is put at its end.   *)
LEMMA Place ==
  ASSUME HeapInv, NEW s \in Address, NEW n \in Nat \ {0}, NEW old,
         HeapBase <= s, \A a \in Blocks \ {old} : a + live[a] <= s,
         WellFormed(heap'), heap'.last = s, Top(heap') = s + n,
         live' \in [Address -> Nat], live'[s] = n,
         \A a \in Address \ {s} : live'[a] = IF a = old THEN 0 ELSE live[a],
         cell' \in [Address -> Value]
  PROVE  HeapInv'
<1>1. \A a \in Blocks' : a = s \/ (a \in Blocks \ {old} /\ live'[a] = live[a])
  BY DEF Blocks
<1>2. \A a \in Blocks' :
        /\ a \in Address /\ live'[a] \in Nat
        /\ HeapBase <= a
        /\ a # s => a + live'[a] <= s
  BY <1>1, Basics DEF Blocks
<1>3. s \in Blocks' /\ Address \subseteq Int /\ HeapBase \in Nat
  BY Basics DEF Blocks
<1>4. TypeOK'
  BY DEF TypeOK, WellFormed
<1>5. BlocksBelowBreak'
  <2>1. SUFFICES ASSUME NEW a \in Blocks'
                 PROVE  HeapBase <= a /\ a + live'[a] <= Top(heap')
    BY DEF BlocksBelowBreak
  <2>2. CASE a = s
    BY <1>3, <2>2
  <2>3. CASE a # s
    <3>1. live'[a] \in Nat /\ HeapBase <= a /\ a + live'[a] <= s
      BY <1>2, <2>1, <2>3
    <3>2. a \in Int
      BY <1>2, <1>3, <2>1
    <3> QED
      BY <1>3, <3>1, <3>2
  <2> QED
    BY <2>2, <2>3
<1>6. NoOverlap'
  <2>1. SUFFICES ASSUME NEW a \in Blocks', NEW b \in Blocks', a # b
                 PROVE  a + live'[a] <= b \/ b + live'[b] <= a
    BY DEF NoOverlap, Disjoint
  <2>2. CASE a = s
    <3>1. b \in Blocks' /\ b # s
      BY <2>1, <2>2
    <3>2. b + live'[b] <= s
      BY <1>2, <3>1
    <3> QED
      BY <2>2, <3>2
  <2>4. CASE b = s
    <3>1. a \in Blocks' /\ a # s
      BY <2>1, <2>4
    <3>2. a + live'[a] <= s
      BY <1>2, <3>1
    <3> QED
      BY <2>4, <3>2
  <2>3. CASE a # s /\ b # s
    <3>1. a \in Blocks /\ b \in Blocks /\ live'[a] = live[a] /\ live'[b] = live[b]
      BY <1>1, <2>3
    <3> QED
      BY <2>1, <3>1 DEF HeapInv, NoOverlap, Disjoint
  <2> QED
    BY <2>2, <2>3, <2>4
<1>7. LastIsTop'
  BY <1>3 DEF LastIsTop
<1> QED
  BY <1>4, <1>5, <1>6, <1>7 DEF HeapInv

(* The blocks stay apart when blocks shrink or leave, as long as the last  *)
(* one, if any, is left alone and the break is not put below a block.      *)
LEMMA Shrink ==
  ASSUME HeapInv, WellFormed(heap'), cell' \in [Address -> Value],
         live' \in [Address -> Nat],
         \A a \in Address : live'[a] <= live[a],
         \A a \in Blocks' : a + live'[a] <= Top(heap'),
         heap'.last # 0 => /\ heap'.last = heap.last /\ Top(heap') = Top(heap)
                          /\ live'[heap.last] = live[heap.last]
  PROVE  HeapInv'
<1>1. \A a \in Blocks' : a \in Blocks /\ live'[a] \in Nat /\ live'[a] <= live[a]
  BY Basics DEF Blocks
<1>2. TypeOK'
  BY DEF TypeOK, WellFormed
<1>3. BlocksBelowBreak'
  BY <1>1, Basics DEF BlocksBelowBreak
<1>4. NoOverlap'
  <2>1. SUFFICES ASSUME NEW a \in Blocks', NEW b \in Blocks', a # b
                 PROVE  a + live'[a] <= b \/ b + live'[b] <= a
    BY DEF NoOverlap, Disjoint
  <2>2. /\ a \in Blocks /\ b \in Blocks
        /\ live'[a] <= live[a] /\ live'[b] <= live[b]
        /\ live'[a] \in Nat /\ live'[b] \in Nat
        /\ a \in Int /\ b \in Int /\ live[a] \in Nat /\ live[b] \in Nat
    BY <1>1, Basics
  <2>3. a + live[a] <= b \/ b + live[b] <= a
    BY <2>1, <2>2 DEF HeapInv, NoOverlap, Disjoint
  <2> QED
    BY <2>2, <2>3
<1>5. LastIsTop'
  BY Basics DEF HeapInv, LastIsTop, Blocks
<1> QED
  BY <1>2, <1>3, <1>4, <1>5 DEF HeapInv

LEMMA InitInv == Init => HeapInv
<1> SUFFICES ASSUME Init PROVE HeapInv
  OBVIOUS
<1>1. WellFormed(heap) /\ heap.last = 0
  BY NewHeapSound DEF Init
<1>2. Blocks = {} /\ live \in [Address -> Nat]
  BY DEF Init, Blocks
<1>3. cell \in [Address -> Value]
  BY ClientAssumption DEF Init
<1> QED
  BY <1>1, <1>2, <1>3
  DEF WellFormed, HeapInv, TypeOK, BlocksBelowBreak, NoOverlap, LastIsTop

(* malloc and calloc: the same placement at the break, or a refusal. *)
LEMMA ObtainInv ==
  ASSUME HeapInv, NEW n \in Int, NEW r,
         r = Malloc(heap, n) \/ r = Result(heap, 0),
         Obtain(r, n)
  PROVE  HeapInv'
<1>1. /\ r.ptr = 0 => r.heap = heap
      /\ r.ptr # 0 => /\ n > 0 /\ r.ptr = Top(heap) /\ r.ptr = heap.brk
                      /\ WellFormed(r.heap)
                      /\ r.heap.last = r.ptr
                      /\ Top(r.heap) = Top(heap) + n
  <2>1. CASE r = Malloc(heap, n)
    BY <2>1, Basics, MallocSound
  <2>2. CASE r = Result(heap, 0)
    BY <2>2 DEF Result
  <2> QED
    BY <2>1, <2>2
<1>2. CASE r.ptr = 0
  <2>1. heap' = heap /\ live' = live /\ cell' = cell
    BY <1>1, <1>2 DEF Obtain
  <2> QED
    BY <2>1 DEF HeapInv, TypeOK, WellFormed, BlocksBelowBreak, NoOverlap, LastIsTop,
                Blocks, Disjoint, Top, Limit
<1>3. CASE r.ptr # 0
  <2> DEFINE s == r.ptr
  <2>1. heap' = r.heap /\ live' = [live EXCEPT ![s] = n] /\ cell' = cell
    BY <1>3 DEF Obtain
  <2>2. s \in Address /\ n \in Nat \ {0} /\ s = Top(heap)
    BY <1>1, <1>3, Basics
  <2>3. /\ WellFormed(heap') /\ heap'.last = s /\ Top(heap') = s + n
    BY <1>1, <1>3, <2>1
  <2>4. live \in [Address -> Nat] /\ cell \in [Address -> Value]
    BY DEF HeapInv, TypeOK
  <2>5. /\ live' \in [Address -> Nat] /\ live'[s] = n
        /\ \A a \in Address \ {s} : live'[a] = live[a]
    BY <2>1, <2>2, <2>4
  <2>6. \A a \in Address : a = 0 => live[a] = 0
    BY Basics
  <2>7. HeapBase <= s /\ \A a \in Blocks \ {0} : a + live[a] <= s
    BY <2>2, Basics
  <2> HIDE DEF s
  <2> QED
    BY <2>1, <2>2, <2>3, <2>4, <2>5, <2>6, <2>7, Place
<1> QED
  BY <1>2, <1>3

(* free, and realloc to nothing. *)
LEMMA DropInv ==
  ASSUME HeapInv, NEW p \in Blocks,
         heap' = Free(heap, p), live' = [live EXCEPT ![p] = 0], cell' = cell
  PROVE  HeapInv'
<1>1. /\ p \in Address /\ p # 0 /\ HeapBase <= p /\ live[p] \in Nat \ {0}
      /\ p + live[p] <= Top(heap) /\ Top(heap) \in Nat
      /\ heap.mem \in Nat /\ Top(heap) <= heap.mem
      /\ Address \subseteq Int /\ HeapBase \in Nat /\ 0 \in Address
  BY Basics, Room
<1>2. /\ live \in [Address -> Nat] /\ cell \in [Address -> Value]
      /\ heap \in Heap /\ WellFormed(heap)
  BY DEF HeapInv, TypeOK
<1>3. /\ live' \in [Address -> Nat] /\ live'[p] = 0
      /\ \A a \in Address \ {p} : live'[a] = live[a]
      /\ \A a \in Address : live'[a] <= live[a]
  BY <1>1, <1>2
<1>4. \A a \in Blocks' : a \in Blocks \ {p} /\ live'[a] = live[a]
  BY <1>3 DEF Blocks
<1>5. CASE p = heap.last
  <2>1. heap' = HeapOf(p, heap.end, 0, heap.mem)
    BY <1>1, <1>5 DEF Free
  <2>2. /\ heap'.brk = p /\ heap'.end = heap.end /\ heap'.last = 0 /\ heap'.mem = heap.mem
        /\ heap' \in Heap
    BY <1>1, <1>2, <2>1 DEF HeapOf, Heap
  <2>3. Top(heap') = p /\ Limit(heap') = Limit(heap)
    BY <1>1, <2>2 DEF Top, Limit
  <2>4. WellFormed(heap')
    <3>1. p <= heap.mem
      BY <1>1
    <3>2. Limit(heap) = heap.mem /\ \E k \in 1 .. MaxPages : heap.mem = k * Page
      BY <1>2, Room
    <3> QED
      BY <1>1, <2>2, <2>3, <3>1, <3>2 DEF WellFormed
  <2>5. \A a \in Blocks' : a + live'[a] <= Top(heap')
    BY <1>1, <1>4, <1>5, <2>3, BelowLast
  <2> QED
    BY <1>2, <1>3, <2>2, <2>4, <2>5, Shrink
<1>6. CASE p # heap.last
  <2>1. heap' = heap
    BY <1>6 DEF Free
  <2>2. \A a \in Blocks' : a + live'[a] <= Top(heap')
    BY <1>4, <2>1, Basics
  <2>3. heap.last # 0 => live'[heap.last] = live[heap.last]
    BY <1>3, <1>6, Basics
  <2> QED
    BY <1>2, <1>3, <2>1, <2>2, <2>3, Shrink
<1> QED
  BY <1>5, <1>6

(* The copy of realloc reads no granule outside the memory. *)
LEMMA CopyTyped ==
  ASSUME HeapInv, NEW p \in Blocks, NEW q \in Address, NEW n \in Nat
  PROVE  CopyCells(p, q, Copied(heap, p, n)) \in [Address -> Value]
<1> DEFINE used == Distance(p, heap.brk)
           k == Copied(heap, p, n)
<1>1. /\ p \in Address /\ HeapBase <= p /\ p <= Top(heap) /\ Top(heap) <= Word
      /\ Top(heap) \in Nat /\ Word \in Nat \ {0} /\ HeapBase \in Nat \ {0}
      /\ heap.brk \in Address /\ cell \in [Address -> Value] /\ Address \subseteq Int
  <2>1. /\ p \in Address /\ HeapBase <= p /\ live[p] \in Nat \ {0}
        /\ p + live[p] <= Top(heap) /\ Top(heap) \in Nat /\ Top(heap) <= Word
        /\ Word \in Nat \ {0} /\ HeapBase \in Nat \ {0}
        /\ heap.brk \in Address /\ Address \subseteq Int
    BY Basics
  <2>2. cell \in [Address -> Value]
    BY DEF HeapInv, TypeOK
  <2> QED
    BY <2>1, <2>2
<1>2. used = Top(heap) - p
  BY <1>1 DEF Distance, Top, Address
<1>3. k \in Int /\ k <= Top(heap) - p
  BY <1>1, <1>2 DEF Copied
<1>4. \A a \in Address : q <= a /\ a < q + k => p + (a - q) \in Address
  <2>1. SUFFICES ASSUME NEW a \in Address, q <= a, a < q + k
                 PROVE  p + (a - q) \in Address
    OBVIOUS
  <2> HIDE DEF k
  <2> QED
    BY <1>1, <1>3, <2>1 DEF Address
<1> HIDE DEF k
<1> QED
  BY <1>1, <1>4 DEF CopyCells, k

LEMMA ResizeInv ==
  ASSUME HeapInv, NEW p \in Blocks, NEW n \in Request, ResizeBlock(p, n)
  PROVE  HeapInv'
<1> DEFINE r == Realloc(heap, p, n)
           q == r.ptr
<1>1. /\ p \in Address /\ p # 0 /\ HeapBase <= p /\ live[p] \in Nat \ {0}
      /\ p + live[p] <= Top(heap) /\ Top(heap) \in Nat /\ WellFormed(heap)
      /\ heap.brk \in Address /\ Address \subseteq Int /\ HeapBase <= Top(heap)
  BY Basics
<1>2. /\ live \in [Address -> Nat] /\ cell \in [Address -> Value] /\ n \in Int \ {0}
  BY ClientAssumption DEF HeapInv, TypeOK, ResizeBlock
<1>3. /\ heap' = r.heap
      /\ live' = IF q = 0 THEN live ELSE [live EXCEPT ![p] = 0, ![q] = n]
      /\ cell' = IF q \in {0, p} THEN cell ELSE CopyCells(p, q, Copied(heap, p, n))
  BY DEF ResizeBlock
<1>4. CASE n = 1 /\ p # heap.last
  <2>1. r = [heap |-> heap, ptr |-> p]
    BY <1>1, <1>4 DEF Realloc, Result
  <2>2. q = p /\ r.heap = heap
    BY <2>1
  <2> HIDE DEF r
  <2>3. /\ heap' = heap /\ cell' = cell
        /\ live' \in [Address -> Nat] /\ live'[p] = 1
        /\ \A a \in Address \ {p} : live'[a] = live[a]
    BY <1>1, <1>2, <1>3, <1>4, <2>2
  <2>4. \A a \in Address : live'[a] <= live[a]
    BY <1>1, <1>2, <2>3
  <2>5. \A a \in Blocks' : a + live'[a] <= Top(heap')
    <3>1. SUFFICES ASSUME NEW a \in Blocks' PROVE a + live'[a] <= Top(heap)
      BY <2>3
    <3>2. a \in Address /\ live'[a] \in Nat \ {0} /\ live[a] \in Nat /\ live'[a] <= live[a]
      BY <1>2, <2>3, <2>4, <3>1 DEF Blocks
    <3>3. a \in Blocks
      BY <3>2 DEF Blocks
    <3> QED
      BY <1>1, <3>2, <3>3, Basics
  <2>6. heap.last # 0 => live'[heap.last] = live[heap.last]
    BY <1>4, <2>3, Basics
  <2> QED
    BY <1>1, <1>2, <2>3, <2>4, <2>5, <2>6, Shrink
<1>5. CASE n # 1 \/ p = heap.last
  <2> DEFINE s == NewStart(heap, p)
  <2>1. /\ q = 0 => r.heap = heap
        /\ q # 0 => /\ n > 0 /\ q = s
                    /\ WellFormed(r.heap)
                    /\ r.heap.last = q
                    /\ Top(r.heap) = s + n
        /\ q = 0 <=> n <= 0 \/ s + n > Word
    BY <1>1, <1>2, <1>5, ReallocSound
  <2>2. CASE q = 0
    <3>1. heap' = heap /\ live' = live /\ cell' = cell
      BY <1>3, <2>1, <2>2
    <3> QED
      BY <3>1 DEF HeapInv, TypeOK, WellFormed, BlocksBelowBreak, NoOverlap,
                  LastIsTop, Blocks, Disjoint, Top, Limit
  <2>3. CASE q # 0
    <3>1. /\ n \in Nat \ {0} /\ q = s /\ WellFormed(heap')
          /\ heap'.last = s /\ Top(heap') = s + n
      BY <1>2, <1>3, <2>1, <2>3
    <3>2. q \in Address
      BY <3>1 DEF WellFormed, Heap
    <3>3. /\ live' = [live EXCEPT ![p] = 0, ![q] = n]
          /\ cell' \in [Address -> Value]
      BY <1>2, <1>3, <2>3, <3>1, <3>2, CopyTyped
    <3> HIDE DEF q
    <3>4. /\ live' \in [Address -> Nat] /\ live'[q] = n
          /\ \A a \in Address \ {q} : live'[a] = IF a = p THEN 0 ELSE live[a]
      BY <1>1, <1>2, <3>1, <3>2, <3>3
    <3>5. HeapBase <= s /\ \A a \in Blocks \ {p} : a + live[a] <= s
      <4>1. CASE p = heap.last
        BY <1>1, <4>1, BelowLast DEF NewStart
      <4>2. CASE p # heap.last
        BY <1>1, <4>2, Basics DEF NewStart
      <4> QED
        BY <4>1, <4>2
    <3> HIDE DEF s
    <3> QED
      BY <3>1, <3>2, <3>3, <3>4, <3>5, Place
  <2> QED
    BY <2>2, <2>3
<1> QED
  BY <1>4, <1>5

LEMMA NextInv == HeapInv /\ [Next]_vars => HeapInv'
<1> SUFFICES ASSUME HeapInv, [Next]_vars PROVE HeapInv'
  OBVIOUS
<1>1. ASSUME NEW n \in Request, AllocateBlock(n) \/ CallocateBlock(n)
      PROVE  HeapInv'
  <2>1. n \in Int
    BY ClientAssumption
  <2>2. PICK r : (r = Malloc(heap, n) \/ r = Result(heap, 0)) /\ Obtain(r, n)
    BY <1>1 DEF AllocateBlock, CallocateBlock, Calloc
  <2> QED
    BY <2>1, <2>2, ObtainInv
<1>2. ASSUME NEW p \in Blocks \cup {0}, FreeBlock(p)
      PROVE  HeapInv'
  <2>1. CASE p = 0
    <3>1. heap' = heap /\ live' = live /\ cell' = cell
      BY <1>2, <2>1 DEF FreeBlock, Free
    <3> QED
      BY <3>1 DEF HeapInv, TypeOK, WellFormed, BlocksBelowBreak, NoOverlap,
                  LastIsTop, Blocks, Disjoint, Top, Limit
  <2>2. CASE p # 0
    <3>1. /\ p \in Blocks /\ heap' = Free(heap, p)
          /\ live' = [live EXCEPT ![p] = 0] /\ cell' = cell
      BY <1>2, <2>2 DEF FreeBlock
    <3> QED
      BY <3>1, DropInv
  <2> QED
    BY <2>1, <2>2
<1>3. ASSUME NEW p \in Blocks, NEW n \in Request, ResizeBlock(p, n)
      PROVE  HeapInv'
  BY <1>3, ResizeInv
<1>4. ASSUME NEW p \in Blocks, ResizeToNothing(p)
      PROVE  HeapInv'
  <2>1. p # 0
    BY Basics
  <2>2. Realloc(heap, p, 0) = [heap |-> Free(heap, p), ptr |-> 0]
    BY <2>1 DEF Realloc, Result
  <2>3. /\ heap' = Free(heap, p) /\ live' = [live EXCEPT ![p] = 0] /\ cell' = cell
    BY <1>4, <2>2 DEF ResizeToNothing
  <2> QED
    BY <2>3, DropInv
<1>5. ASSUME NEW p \in Blocks, NEW v \in Value, NEW i \in 0 .. live[p] - 1,
             WriteCell(p, i, v)
      PROVE  HeapInv'
  <2>1. /\ heap' = heap /\ live' = live /\ cell' \in [Address -> Value]
    BY <1>5 DEF WriteCell, HeapInv, TypeOK
  <2> QED
    BY <2>1 DEF HeapInv, TypeOK, WellFormed, BlocksBelowBreak, NoOverlap,
                LastIsTop, Blocks, Disjoint, Top, Limit
<1>6. CASE UNCHANGED vars
  BY <1>6 DEF vars, HeapInv, TypeOK, WellFormed, BlocksBelowBreak, NoOverlap,
              LastIsTop, Blocks, Disjoint, Top, Limit
<1> QED
  BY <1>1, <1>2, <1>3, <1>4, <1>5, <1>6 DEF Next

(* The heap stays well formed and the blocks in use apart, for every       *)
(* program that frees and resizes only what it holds (Xmalloc, Xfree,      *)
(* _realloc, _calloc).                                                     *)
THEOREM HeapSafety == Spec => []HeapInv
  BY InitInv, NextInv, PTL DEF Spec

(* The types of the heap, the memory and the ghost blocks. *)
THEOREM HeapTypes == Spec => []TypeOK
<1>1. HeapInv => TypeOK
  BY DEF HeapInv
<1> QED
  BY <1>1, HeapSafety, PTL

(* No two blocks in use ever share a granule. *)
THEOREM BlocksApart == Spec => []NoOverlap
<1>1. HeapInv => NoOverlap
  BY DEF HeapInv
<1> QED
  BY <1>1, HeapSafety, PTL

(* free can only ever rewind the break to the start of the topmost block.  *)
THEOREM LastBlockOnTop == Spec => []LastIsTop
<1>1. HeapInv => LastIsTop
  BY DEF HeapInv
<1> QED
  BY <1>1, HeapSafety, PTL

LEMMA ReallocShort ==
  ASSUME HeapInv, NEW p \in Blocks, p # heap.last
  PROVE  Realloc(heap, p, 1) = [heap |-> heap, ptr |-> p] /\ p # 0
  BY Basics DEF Realloc, Result

(* Whatever the program did before, malloc and realloc refuse only what    *)
(* cannot fit in the largest memory.                                       *)
THEOREM RefusesOnlyWhenFull == Spec => []RefusedOnlyWhenFull
<1>1. ASSUME HeapInv PROVE RefusedOnlyWhenFull
  <2>1. ASSUME NEW n \in Request
        PROVE  Malloc(heap, n).ptr = 0 <=> n <= 0 \/ Top(heap) + n > Word
    BY <1>1, ClientAssumption, Basics, MallocSound
  <2>2. ASSUME NEW p \in Blocks, NEW n \in Request \ {0}
        PROVE  Realloc(heap, p, n).ptr = 0 <=>
                 /\ n = 1 => p = heap.last
                 /\ n < 0 \/ NewStart(heap, p) + n > Word
    <3>1. n \in Int \ {0} /\ (n <= 0 <=> n < 0)
      BY ClientAssumption
    <3>2. /\ p \in Address /\ p # 0 /\ HeapBase <= p /\ p <= Top(heap) /\ WellFormed(heap)
      <4>1. /\ p \in Address /\ p # 0 /\ HeapBase <= p /\ live[p] \in Nat \ {0}
            /\ p + live[p] <= Top(heap) /\ Top(heap) \in Nat /\ WellFormed(heap)
            /\ Address \subseteq Int
        BY <1>1, Basics
      <4> QED
        BY <4>1
    <3>3. CASE n = 1 /\ p # heap.last
      BY <1>1, <3>3, ReallocShort
    <3>4. CASE n # 1 \/ p = heap.last
      <4>1. Realloc(heap, p, n).ptr = 0 <=> n <= 0 \/ NewStart(heap, p) + n > Word
        BY <3>1, <3>2, <3>4, ReallocSound
      <4> QED
        BY <3>1, <3>4, <4>1
    <3> QED
      BY <3>3, <3>4
  <2> QED
    BY <2>1, <2>2 DEF RefusedOnlyWhenFull
<1> QED
  BY <1>1, HeapSafety, PTL

(* A refused request costs the caller nothing. *)
THEOREM RefusalIsHarmless == Spec => []RefusalChangesNothing
<1>1. ASSUME HeapInv PROVE RefusalChangesNothing
  <2>1. ASSUME NEW n \in Request, Malloc(heap, n).ptr = 0
        PROVE  Malloc(heap, n).heap = heap
    BY <1>1, <2>1, ClientAssumption, Basics, MallocSound
  <2>2. ASSUME NEW p \in Blocks, NEW n \in Request \ {0}, Realloc(heap, p, n).ptr = 0
        PROVE  Realloc(heap, p, n).heap = heap
    <3>1. n \in Int \ {0}
      BY ClientAssumption
    <3>2. /\ p \in Address /\ p # 0 /\ HeapBase <= p /\ live[p] \in Nat \ {0}
          /\ p + live[p] <= Top(heap) /\ Top(heap) \in Nat /\ WellFormed(heap)
          /\ Address \subseteq Int
      BY <1>1, Basics
    <3>3. HeapBase <= p /\ p <= Top(heap)
      BY <3>2
    <3>4. CASE n = 1 /\ p # heap.last
      BY <1>1, <3>4, ReallocShort
    <3>5. CASE n # 1 \/ p = heap.last
      BY <2>2, <3>1, <3>2, <3>3, <3>5, ReallocSound
    <3> QED
      BY <3>4, <3>5
  <2> QED
    BY <2>1, <2>2 DEF RefusalChangesNothing
<1> QED
  BY <1>1, HeapSafety, PTL
-----------------------------------------------------------------------------
(* The blocks of the heap implement the store of BlockStore, step by step. *)

LEMMA SameInterval ==
  ASSUME NEW m \in Nat, NEW n \in Nat, 1 .. m = 1 .. n
  PROVE  m = n
<1>1. CASE m < n
  <2>1. n \in 1 .. n /\ ~(n \in 1 .. m)
    BY <1>1
  <2> QED
    BY <2>1
<1>2. CASE n < m
  <2>1. m \in 1 .. m /\ ~(m \in 1 .. n)
    BY <1>2
  <2> QED
    BY <2>1
<1> QED
  BY <1>1, <1>2

(* A block of n granules at a is a sequence of n values. *)
LEMMA BlockCells ==
  ASSUME NEW c, NEW a \in Int, NEW n \in Nat
  PROVE  /\ Len([i \in 1 .. n |-> c[a + i - 1]]) = n
         /\ \A j \in 1 .. n : [i \in 1 .. n |-> c[a + i - 1]][j] = c[a + j - 1]
<1> DEFINE s == [i \in 1 .. n |-> c[a + i - 1]]
           S == {c[a + i - 1] : i \in 1 .. n}
<1>1. s \in [1 .. n -> S]
  OBVIOUS
<1> HIDE DEF S, s
<1>2. s \in Seq(S)
  BY <1>1, SeqDef
<1>3. Len(s) \in Nat /\ DOMAIN s = 1 .. Len(s)
  BY <1>2, LenProperties
<1>4. DOMAIN s = 1 .. n
  BY DEF s
<1>5. Len(s) = n
  BY <1>3, <1>4, SameInterval
<1> QED
  BY <1>5 DEF s

LEMMA StoreFacts ==
  /\ DOMAIN StoreOfBlocks = Blocks
  /\ \A a \in Blocks : StoreOfBlocks[a] = [i \in 1 .. live[a] |-> cell[a + i - 1]]
  /\ DOMAIN StoreOfBlocks' = Blocks'
  /\ \A a \in Blocks' : StoreOfBlocks'[a] = [i \in 1 .. live'[a] |-> cell'[a + i - 1]]
BY DEF StoreOfBlocks

(* A block whose length and granules a step leaves alone is the same.      *)
LEMMA Untouched ==
  ASSUME NEW b \in Blocks, b \in Blocks', live'[b] = live[b],
         \A i \in 1 .. live[b] : cell'[b + i - 1] = cell[b + i - 1]
  PROVE  StoreOfBlocks'[b] = StoreOfBlocks[b]
<1>1. StoreOfBlocks[b] = [i \in 1 .. live[b] |-> cell[b + i - 1]]
  BY DEF StoreOfBlocks
<1>2. StoreOfBlocks'[b] = [i \in 1 .. live'[b] |-> cell'[b + i - 1]]
  BY DEF StoreOfBlocks
<1> QED
  BY <1>1, <1>2

LEMMA StoreStutter ==
  ASSUME live' = live, cell' = cell
  PROVE  StoreOfBlocks' = StoreOfBlocks
BY DEF StoreOfBlocks, Blocks

LEMMA InitStore == Init => Store!StoreInit
<1> SUFFICES ASSUME Init PROVE StoreOfBlocks = << >>
  BY DEF Store!StoreInit
<1>1. Blocks = {}
  BY DEF Init, Blocks
<1> QED
  BY <1>1 DEF StoreOfBlocks

(* malloc and calloc: the block is new, and shows in no other.             *)
LEMMA ObtainStep ==
  ASSUME HeapInv, NEW n \in Int, NEW r,
         r = Malloc(heap, n) \/ r = Calloc(heap, n),
         Obtain(r, n)
  PROVE  [Store!StoreNext]_StoreOfBlocks
<1>1. r.ptr # 0 => n > 0 /\ r.ptr = Top(heap) /\ r.ptr = heap.brk
  BY Basics, MallocSound, CallocSound
<1>2. CASE r.ptr = 0
  BY <1>2, StoreStutter DEF Obtain
<1>3. CASE r.ptr # 0
  <2> DEFINE s == r.ptr
  <2>1. live' = [live EXCEPT ![s] = n] /\ cell' = cell
    BY <1>3 DEF Obtain
  <2>2. s \in Address /\ n \in Nat \ {0} /\ s = Top(heap)
    BY <1>1, <1>3, Basics
  <2>3. live \in [Address -> Nat]
    BY DEF HeapInv, TypeOK
  <2> HIDE DEF s
  <2>4. s \notin Blocks
    BY <2>2, Basics
  <2>5. live'[s] = n /\ \A a \in Address \ {s} : live'[a] = live[a]
    BY <2>1, <2>2, <2>3
  <2>6. Blocks' = Blocks \cup {s} /\ \A b \in Blocks : live'[b] = live[b]
    BY <2>2, <2>4, <2>5 DEF Blocks
  <2>7. \A b \in Blocks : StoreOfBlocks'[b] = StoreOfBlocks[b]
    BY <2>1, <2>6, Untouched
  <2>8. Store!Acquire(s)
    BY <2>2, <2>4, <2>6, <2>7, StoreFacts DEF Store!Acquire, Store!Others
  <2> QED
    BY <2>2, <2>8 DEF Store!StoreNext
<1> QED
  BY <1>2, <1>3

(* free, and realloc to nothing: the block leaves the store. *)
LEMMA DropStep ==
  ASSUME HeapInv, NEW p \in Blocks, live' = [live EXCEPT ![p] = 0], cell' = cell
  PROVE  Store!StoreNext
<1>1. live \in [Address -> Nat] /\ p \in Address
  BY DEF HeapInv, TypeOK, Blocks
<1>2. Blocks' = Blocks \ {p} /\ \A b \in Blocks \ {p} : live'[b] = live[b]
  BY <1>1 DEF Blocks
<1>3. \A b \in Blocks \ {p} : StoreOfBlocks'[b] = StoreOfBlocks[b]
  BY <1>2, Untouched
<1>4. Store!Release(p)
  BY <1>2, <1>3, StoreFacts DEF Store!Release, Store!Others
<1> QED
  BY <1>1, <1>4 DEF Store!StoreNext

(* The store that realloc leaves, whether it moved the block or not.       *)
LEMMA ResizedStep ==
  ASSUME HeapInv, NEW p \in Blocks, NEW q \in Address, q \notin Blocks \ {p},
         NEW n \in Nat \ {0},
         live' = [live EXCEPT ![p] = 0, ![q] = n],
         \A b \in Blocks \ {p} : \A i \in 1 .. live[b] :
           cell'[b + i - 1] = cell[b + i - 1],
         \A i \in (1 .. live[p]) \cap (1 .. n) : cell'[q + i - 1] = cell[p + i - 1]
  PROVE  Store!StoreNext
<1>1. live \in [Address -> Nat] /\ p \in Address /\ Address \subseteq Int
      /\ live[p] \in Nat
  BY Basics DEF HeapInv, TypeOK, Blocks
<1>2. live'[q] = n /\ \A b \in Address \ {q} : live'[b] = IF b = p THEN 0 ELSE live[b]
  BY <1>1
<1>3. Blocks' = (Blocks \ {p}) \cup {q} /\ \A b \in Blocks \ {p} : live'[b] = live[b]
  BY <1>1, <1>2 DEF Blocks
<1>4. \A b \in Blocks \ {p} : StoreOfBlocks'[b] = StoreOfBlocks[b]
  BY <1>3, Untouched
<1>5. Store!CommonPrefix(StoreOfBlocks[p], StoreOfBlocks'[q])
  <2>1. /\ StoreOfBlocks[p] = [i \in 1 .. live[p] |-> cell[p + i - 1]]
        /\ StoreOfBlocks'[q] = [i \in 1 .. n |-> cell'[q + i - 1]]
    <3>1. q \in Blocks' /\ live'[q] = n
      BY <1>2, <1>3
    <3> QED
      BY <3>1, StoreFacts
  <2>2. /\ Len(StoreOfBlocks[p]) = live[p]
        /\ \A i \in 1 .. live[p] : StoreOfBlocks[p][i] = cell[p + i - 1]
    BY <1>1, <2>1, BlockCells
  <2>3. /\ Len(StoreOfBlocks'[q]) = n
        /\ \A i \in 1 .. n : StoreOfBlocks'[q][i] = cell'[q + i - 1]
    BY <1>1, <2>1, BlockCells
  <2> QED
    BY <2>2, <2>3 DEF Store!CommonPrefix
<1>6. Store!Resize(p, q)
  BY <1>1, <1>3, <1>4, <1>5, StoreFacts DEF Store!Resize, Store!Others
<1> QED
  BY <1>1, <1>6 DEF Store!StoreNext

LEMMA ResizeStep ==
  ASSUME HeapInv, NEW p \in Blocks, NEW n \in Request, ResizeBlock(p, n)
  PROVE  [Store!StoreNext]_StoreOfBlocks
<1> DEFINE r == Realloc(heap, p, n)
           q == r.ptr
           k == Copied(heap, p, n)
<1>1. /\ p \in Address /\ p # 0 /\ HeapBase <= p /\ live[p] \in Nat \ {0}
      /\ p + live[p] <= Top(heap) /\ Top(heap) \in Nat /\ WellFormed(heap)
      /\ heap.brk \in Address /\ Address \subseteq Int /\ HeapBase <= Top(heap)
      /\ Top(heap) <= Word /\ Word \in Nat \ {0} /\ HeapBase \in Nat \ {0}
  BY Basics
<1>2. n \in Int \ {0}
  BY ClientAssumption DEF ResizeBlock
<1>3. /\ live' = IF q = 0 THEN live ELSE [live EXCEPT ![p] = 0, ![q] = n]
      /\ cell' = IF q \in {0, p} THEN cell ELSE CopyCells(p, q, k)
  BY DEF ResizeBlock
<1>4. /\ q = 0 \/ q = p \/ (q = Top(heap) /\ p # heap.last /\ q + n <= Word)
      /\ q # 0 => n > 0
  <2>1. CASE n = 1 /\ p # heap.last
    BY <1>1, <2>1, ReallocShort
  <2>2. CASE n # 1 \/ p = heap.last
    BY <1>1, <1>2, <2>2, ReallocSound DEF NewStart
  <2> QED
    BY <2>1, <2>2
<1>5. CASE q = 0
  BY <1>3, <1>5, StoreStutter
<1>6. CASE q # 0 /\ q = p
  <2>1. live' = [live EXCEPT ![p] = 0, ![q] = n] /\ cell' = cell
    BY <1>3, <1>6
  <2>2. n \in Nat \ {0} /\ q \in Address /\ q \notin Blocks \ {p}
    BY <1>1, <1>2, <1>4, <1>6
  <2>3. \A i \in (1 .. live[p]) \cap (1 .. n) : cell'[q + i - 1] = cell[p + i - 1]
    BY <1>6, <2>1
  <2> HIDE DEF q
  <2> QED
    BY <2>1, <2>2, <2>3, ResizedStep
<1>7. CASE q # 0 /\ q # p
  <2>1. live' = [live EXCEPT ![p] = 0, ![q] = n] /\ cell' = CopyCells(p, q, k)
    BY <1>3, <1>7
  <2>2. n \in Nat \ {0} /\ q = Top(heap) /\ q + n <= Word
    BY <1>2, <1>4, <1>7
  <2> HIDE DEF q
  <2>3. q \in Address
    BY <1>1, <2>2 DEF Address
  <2>4. /\ \A b \in Blocks : b \in Address /\ b \in Nat /\ live[b] \in Nat /\ b + live[b] <= q
        /\ q \notin Blocks
    BY <2>2, <2>3, Basics DEF Address
  <2>5. \A a \in Address : cell'[a] = IF q <= a /\ a < q + k THEN cell[p + (a - q)] ELSE cell[a]
    BY <2>1 DEF CopyCells
  <2>6. ASSUME NEW b \in Blocks, NEW i \in 1 .. live[b]
        PROVE  cell'[b + i - 1] = cell[b + i - 1]
    <3> DEFINE a == b + i - 1
    <3>1. a \in Address /\ ~(q <= a)
      BY <1>1, <2>2, <2>3, <2>4 DEF Address
    <3> HIDE DEF a
    <3>2. cell'[a] = cell[a]
      BY <2>5, <3>1
    <3> QED
      BY <3>2 DEF a
  <2>7. k \in Int /\ (k >= live[p] \/ k = n)
    <3>1. Distance(p, heap.brk) = Top(heap) - p
      BY <1>1 DEF Distance, Top, Address
    <3> QED
      BY <1>1, <1>2, <3>1 DEF Copied, Address
  <2>8. ASSUME NEW i \in (1 .. live[p]) \cap (1 .. n)
        PROVE  cell'[q + i - 1] = cell[p + i - 1]
    <3>1. q + i - 1 \in Address /\ q <= q + i - 1 /\ q + i - 1 < q + k
          /\ p + ((q + i - 1) - q) = p + i - 1
      BY <1>1, <2>2, <2>3, <2>7 DEF Address
    <3> QED
      BY <2>5, <3>1
  <2> QED
    BY <2>1, <2>2, <2>3, <2>4, <2>6, <2>8, ResizedStep
<1> QED
  BY <1>5, <1>6, <1>7

(* A write inside one block shows in no other: the blocks lie apart.       *)
LEMMA WriteStep ==
  ASSUME HeapInv, NEW p \in Blocks, NEW v \in Value, NEW i \in 0 .. live[p] - 1,
         WriteCell(p, i, v)
  PROVE  Store!StoreNext
<1>1. /\ cell' = [cell EXCEPT ![p + i] = v] /\ live' = live
      /\ cell \in [Address -> Value]
  BY DEF WriteCell, HeapInv, TypeOK
<1>2. /\ p \in Nat /\ p \in Address /\ live[p] \in Nat \ {0}
      /\ p + live[p] <= Word /\ Word \in Nat /\ i \in Nat /\ p + i \in Address
  <2>1. /\ p \in Address /\ live[p] \in Nat \ {0} /\ p + live[p] <= Top(heap)
        /\ Top(heap) \in Nat /\ Top(heap) <= Word /\ Word \in Nat
    BY Basics
  <2> QED
    BY <2>1 DEF Address
<1>3. Blocks' = Blocks
  BY <1>1 DEF Blocks
<1>4. ASSUME NEW b \in Blocks, b # p
      PROVE  StoreOfBlocks'[b] = StoreOfBlocks[b]
  <2>1. /\ b \in Int /\ live[b] \in Nat /\ (b + live[b] <= p \/ p + live[p] <= b)
    BY <1>4, Basics DEF HeapInv, NoOverlap, Disjoint
  <2>2. \A j \in 1 .. live[b] : b + j - 1 # p + i
    BY <1>2, <2>1
  <2>3. \A j \in 1 .. live[b] : cell'[b + j - 1] = cell[b + j - 1]
    BY <1>1, <2>2
  <2> QED
    BY <1>1, <1>3, <2>3, Untouched
<1>5. /\ StoreOfBlocks[p] = [j \in 1 .. live[p] |-> cell[p + j - 1]]
      /\ StoreOfBlocks'[p] = [j \in 1 .. live[p] |-> cell'[p + j - 1]]
  BY <1>1, <1>3, StoreFacts
<1>6. StoreOfBlocks'[p] = [StoreOfBlocks[p] EXCEPT ![i + 1] = v]
  <2>1. \A j \in 1 .. live[p] : cell'[p + j - 1] = IF j = i + 1 THEN v ELSE cell[p + j - 1]
    BY <1>1, <1>2
  <2>2. [StoreOfBlocks[p] EXCEPT ![i + 1] = v] =
          [j \in 1 .. live[p] |-> IF j = i + 1 THEN v ELSE cell[p + j - 1]]
    BY <1>5
  <2>3. [j \in 1 .. live[p] |-> cell'[p + j - 1]] =
          [j \in 1 .. live[p] |-> IF j = i + 1 THEN v ELSE cell[p + j - 1]]
    BY ONLY <2>1
  <2> QED
    BY ONLY <1>5, <2>2, <2>3
<1>7. i + 1 \in 1 .. Len(StoreOfBlocks[p])
  BY <1>2, <1>5, BlockCells
<1>8. StoreOfBlocks' = [StoreOfBlocks EXCEPT ![p][i + 1] = v]
  <2>1. /\ DOMAIN StoreOfBlocks' = Blocks /\ DOMAIN StoreOfBlocks = Blocks
    BY <1>3, StoreFacts
  <2>2. StoreOfBlocks' = [b \in Blocks |-> StoreOfBlocks'[b]]
    BY <1>3 DEF StoreOfBlocks
  <2>3. StoreOfBlocks = [b \in Blocks |-> StoreOfBlocks[b]]
    BY DEF StoreOfBlocks
  <2> QED
    BY <1>4, <1>6, <2>1, <2>2, <2>3
<1>9. Store!Update(p, i + 1, v)
  BY <1>7, <1>8, StoreFacts DEF Store!Update
<1> QED
  BY <1>7, <1>9, StoreFacts DEF Store!StoreNext

LEMMA StepStore == HeapInv /\ [Next]_vars => [Store!StoreNext]_StoreOfBlocks
<1> SUFFICES ASSUME HeapInv, [Next]_vars PROVE [Store!StoreNext]_StoreOfBlocks
  OBVIOUS
<1>1. ASSUME NEW n \in Request, AllocateBlock(n) \/ CallocateBlock(n)
      PROVE  [Store!StoreNext]_StoreOfBlocks
  <2>1. n \in Int
    BY ClientAssumption
  <2> QED
    BY <1>1, <2>1, ObtainStep DEF AllocateBlock, CallocateBlock
<1>2. ASSUME NEW p \in Blocks \cup {0}, FreeBlock(p)
      PROVE  [Store!StoreNext]_StoreOfBlocks
  <2>1. CASE p = 0
    BY <1>2, <2>1, StoreStutter DEF FreeBlock
  <2>2. CASE p # 0
    <3>1. p \in Blocks /\ live' = [live EXCEPT ![p] = 0] /\ cell' = cell
      BY <1>2, <2>2 DEF FreeBlock
    <3> QED
      BY <3>1, DropStep
  <2> QED
    BY <2>1, <2>2
<1>3. ASSUME NEW p \in Blocks, NEW n \in Request, ResizeBlock(p, n)
      PROVE  [Store!StoreNext]_StoreOfBlocks
  BY <1>3, ResizeStep
<1>4. ASSUME NEW p \in Blocks, ResizeToNothing(p)
      PROVE  [Store!StoreNext]_StoreOfBlocks
  <2>1. live' = [live EXCEPT ![p] = 0] /\ cell' = cell
    BY <1>4 DEF ResizeToNothing
  <2> QED
    BY <2>1, DropStep
<1>5. ASSUME NEW p \in Blocks, NEW v \in Value, NEW i \in 0 .. live[p] - 1,
             WriteCell(p, i, v)
      PROVE  [Store!StoreNext]_StoreOfBlocks
  BY <1>5, WriteStep
<1>6. CASE UNCHANGED vars
  BY <1>6, StoreStutter DEF vars
<1> QED
  BY <1>1, <1>2, <1>3, <1>4, <1>5, <1>6 DEF Next

(* The heap implements the store its users rely on: every operation of     *)
(* malloc_bump.c is one operation on one block, or a stutter when it is    *)
(* refused.                                                                *)
THEOREM HeapImplementsStore == Spec => ImplementsStore
<1>1. HeapInv /\ [Next]_vars => [Store!StoreNext]_StoreOfBlocks
  BY StepStore
<1> QED
  BY <1>1, InitStore, HeapSafety, PTL DEF Spec, ImplementsStore, Store!StoreSpec
=============================================================================
