----------------------------- MODULE BumpLemmas -----------------------------
(***************************************************************************)
(* Lemmas about the allocator, for every page size, memory limit and start *)
(* of the heap: the arithmetic of whole pages, and what malloc and realloc *)
(* return from a well-formed heap.                                         *)
(***************************************************************************)
EXTENDS BumpAlloc, TLAPS

(* Integer division, the rounding of memory_grow: PageCeil(x) is the least *)
(* whole number of pages that holds x granules.                            *)
LEMMA Division ==
  ASSUME NEW a \in Nat, NEW b \in Nat \ {0}
  PROVE  /\ (a \div b) \in Nat
         /\ (a \div b) * b <= a
         /\ a < (a \div b) * b + b
  OBVIOUS

LEMMA WholePages ==
  ASSUME NEW j \in Int, NEW k \in Int, NEW b \in Nat \ {0}, j * b < k * b + b
  PROVE  j * b <= k * b
<1>1. j < k + 1
  <2>1. SUFFICES ASSUME j >= k + 1 PROVE FALSE
    OBVIOUS
  <2>2. j * b >= (k + 1) * b
    BY <2>1
  <2> QED
    BY <2>2
<1>2. j <= k
  BY <1>1
<1> QED
  BY <1>2

LEMMA PageCeilLeast ==
  ASSUME NEW x \in Nat \ {0}
  PROVE  /\ PageCeil(x) \in Nat
         /\ PageCeil(x) >= x
         /\ \E j \in Nat : PageCeil(x) = j * Page
         /\ \A k \in Int : x <= k * Page => PageCeil(x) <= k * Page
<1> DEFINE q == (x + Page - 1) \div Page
<1>1. Page \in Nat \ {0}
  BY HeapAssumption
<1>2. /\ q \in Nat
      /\ q * Page <= x + Page - 1
      /\ x + Page - 1 < q * Page + Page
  BY <1>1, Division
<1>3. PageCeil(x) = q * Page
  BY DEF PageCeil
<1>4. PageCeil(x) \in Nat /\ PageCeil(x) >= x
  BY <1>1, <1>2, <1>3
<1>5. ASSUME NEW k \in Int, x <= k * Page
      PROVE  PageCeil(x) <= k * Page
  <2>1. q * Page < k * Page + Page
    BY <1>1, <1>2, <1>5
  <2> QED
    BY <1>1, <1>2, <1>3, <2>1, WholePages
<1> QED
  BY <1>2, <1>3, <1>4, <1>5

LEMMA WordSize ==
  /\ Word \in Nat \ {0}
  /\ InitPages * Page \in Nat \ {0}
  /\ InitPages * Page <= Word
  BY HeapAssumption DEF Word

-----------------------------------------------------------------------------
(* The allocator's operators, on any well-formed heap.                     *)

LEMMA Room ==
  ASSUME NEW h, WellFormed(h)
  PROVE  /\ Distance(h.brk, h.end) = h.mem - Top(h)
         /\ Top(h) \in Nat /\ h.mem \in Nat /\ h.mem <= Word /\ Top(h) <= h.mem
         /\ HeapBase <= Top(h) /\ Limit(h) = h.mem
         /\ \E k \in 1 .. MaxPages : h.mem = k * Page
         /\ h.brk \in Address /\ h.end \in Address /\ h.last \in Address
  BY WordSize, HeapAssumption DEF WellFormed, Heap, Address, Distance, Top, Limit

(* A round of the loop leaves the break and the last block alone and fails *)
(* only if the request does not fit in the largest memory.                 *)
LEMMA GrowHeapSound ==
  ASSUME NEW h, WellFormed(h), NEW n \in Nat \ {0}
  PROVE  /\ WellFormed(GrowHeap(h, n))
         /\ GrowHeap(h, n).brk = h.brk /\ GrowHeap(h, n).last = h.last
         /\ Fits(GrowHeap(h, n), n) <=> Top(h) + n <= Word
         /\ ~Fits(GrowHeap(h, n), n) => GrowHeap(h, n) = h
<1> DEFINE x == n - Distance(h.brk, h.end)
           more == PageCeil(x)
           full == h.mem + more
           g == GrowHeap(h, n)
<1>1. /\ Distance(h.brk, h.end) = h.mem - Top(h)
      /\ x = n - (h.mem - Top(h)) /\ x \in Int
      /\ Top(h) \in Nat /\ h.mem \in Nat /\ h.mem <= Word /\ Top(h) <= h.mem
      /\ h.brk \in Address /\ h.end \in Address /\ h.last \in Address
  BY Room
<1>2. /\ h = [brk |-> h.brk, end |-> h.end, last |-> h.last, mem |-> h.mem]
      /\ h \in Heap
  BY DEF WellFormed, Heap
<1>3. Word \in Nat \ {0} /\ Page \in Nat \ {0} /\ Word = MaxPages * Page /\ MaxPages \in Nat
  BY WordSize, HeapAssumption DEF Word
<1>4. Fits(h, n) <=> x <= 0
  BY <1>1 DEF Fits
<1>5. CASE Fits(h, n)
  <2>1. g = h
    BY <1>5 DEF GrowHeap
  <2> QED
    BY <1>1, <1>3, <1>4, <1>5, <2>1
<1>6. CASE ~Fits(h, n)
  <2>1. x \in Nat \ {0}
    BY <1>1, <1>4, <1>6
  <2>2. /\ more \in Nat /\ more >= x
        /\ \E j \in Nat : more = j * Page
        /\ \A k \in Int : x <= k * Page => more <= k * Page
    BY <2>1, PageCeilLeast
  <2>3. PICK m \in 1 .. MaxPages : h.mem = m * Page
    BY DEF WellFormed
  <2>4. PICK j \in Nat : more = j * Page
    BY <2>2
  <2>5. full > Word => Top(h) + n > Word
    <3>1. SUFFICES ASSUME Top(h) + n <= Word PROVE full <= Word
      BY <1>1, <1>3, <2>2
    <3>2. x <= (MaxPages - m) * Page
      BY <1>1, <1>3, <2>3, <3>1
    <3>3. more <= (MaxPages - m) * Page
      BY <1>3, <2>2, <2>3, <3>2
    <3>4. (MaxPages - m) * Page = MaxPages * Page - m * Page
      BY <1>3, <2>3
    <3> QED
      BY <1>1, <1>3, <2>2, <2>3, <3>3, <3>4
  <2>6. CASE full > Word
    <3>1. g = h
      BY <2>6 DEF GrowHeap
    <3> QED
      BY <1>1, <1>3, <1>6, <2>5, <2>6, <3>1
  <2>7. CASE full <= Word
    <3>1. h.end = Wrap(h.mem)
      BY <1>1, <1>3, <2>1, <2>2, <2>7 DEF WellFormed, Limit, Wrap, Address
    <3>2. g = HeapOf(h.brk, Wrap(full), h.last, full)
      BY <1>1, <1>3, <1>6, <2>2, <2>7, <3>1 DEF GrowHeap
    <3>3. full \in Nat /\ full > h.mem
      BY <1>1, <2>1, <2>2
    <3>4. /\ g.brk = h.brk /\ g.last = h.last /\ g.mem = full
          /\ g.end = Wrap(full)
      BY <3>2 DEF HeapOf
    <3>5. g \in Heap
      BY <1>1, <1>3, <2>7, <3>2, <3>3 DEF Heap, HeapOf, Address, Wrap
    <3>6. Limit(g) = g.mem
      <4>1. Wrap(full) = IF full = Word THEN 0 ELSE full
        BY <1>1, <1>3, <2>7, <3>3 DEF Wrap
      <4>2. full # 0
        BY <1>1, <3>3
      <4> QED
        BY <3>4, <4>1, <4>2 DEF Limit
    <3>7. \E k \in 1 .. MaxPages : g.mem = k * Page
      <4>1. full = (m + j) * Page
        BY <1>3, <2>3, <2>4
      <4>2. m + j <= MaxPages
        <5>1. (m + j) * Page <= MaxPages * Page
          BY <1>3, <2>7, <4>1
        <5>2. (m + j) * Page < MaxPages * Page + Page
          BY <1>3, <5>1
        <5>3. SUFFICES ASSUME m + j >= MaxPages + 1 PROVE FALSE
          BY <1>3
        <5>4. (m + j) * Page >= (MaxPages + 1) * Page
          BY <1>3, <5>3
        <5> QED
          BY <1>3, <5>2, <5>4
      <4> QED
        BY <3>4, <4>1, <4>2
    <3>8. Top(g) = Top(h)
      BY <3>4 DEF Top
    <3>9. WellFormed(g)
      BY <1>1, <3>3, <3>4, <3>5, <3>6, <3>7, <3>8 DEF WellFormed
    <3>10. Fits(g, n)
      <4>1. Distance(g.brk, g.end) = g.mem - Top(g)
        BY <3>9, Room
      <4> QED
        BY <1>1, <2>2, <3>4, <3>8, <4>1 DEF Fits
    <3>11. Top(h) + n <= Word
      BY <1>1, <1>3, <2>2, <2>7
    <3> QED
      BY <3>4, <3>9, <3>10, <3>11
  <2> QED
    BY <1>1, <1>3, <2>2, <2>6, <2>7
<1> QED
  BY <1>5, <1>6

(* Two rounds are one: the loop runs again only after a round that moved   *)
(* the heap, which a well-formed heap never does.                          *)
LEMMA ReserveSound ==
  ASSUME NEW h, WellFormed(h), NEW n \in Nat \ {0}
  PROVE  /\ WellFormed(Reserve(h, n))
         /\ Reserve(h, n).brk = h.brk /\ Reserve(h, n).last = h.last
         /\ Fits(Reserve(h, n), n) <=> Top(h) + n <= Word
         /\ ~Fits(Reserve(h, n), n) => Reserve(h, n) = h
<1> DEFINE g == GrowHeap(h, n)
<1>1. /\ WellFormed(g)
      /\ g.brk = h.brk /\ g.last = h.last
      /\ Fits(g, n) <=> Top(h) + n <= Word
      /\ ~Fits(g, n) => g = h
  BY GrowHeapSound
<1>2. Reserve(h, n) = GrowHeap(g, n)
  BY DEF Reserve
<1>3. CASE Fits(g, n)
  <2>1. GrowHeap(g, n) = g
    BY <1>3 DEF GrowHeap
  <2> HIDE DEF g
  <2> QED
    BY <1>1, <1>2, <1>3, <2>1
<1>4. CASE ~Fits(g, n)
  <2>1. g = h /\ GrowHeap(g, n) = g
    BY <1>1, <1>4
  <2> HIDE DEF g
  <2> QED
    BY <1>1, <1>2, <1>4, <2>1
<1> QED
  BY <1>3, <1>4

(* malloc refuses exactly what does not fit, changes nothing when it does, *)
(* and otherwise hands out the granules from the break on.                 *)
LEMMA MallocSound ==
  ASSUME NEW h, WellFormed(h), NEW n \in Int
  PROVE  LET r == Malloc(h, n)
         IN  /\ r.ptr = 0 <=> n <= 0 \/ Top(h) + n > Word
             /\ r.ptr = 0 => r.heap = h
             /\ r.ptr # 0 => /\ n > 0 /\ r.ptr = Top(h) /\ r.ptr = h.brk
                             /\ WellFormed(r.heap)
                             /\ r.heap.last = r.ptr
                             /\ Top(r.heap) = Top(h) + n
<1> DEFINE g == Reserve(h, n)
           r == Malloc(h, n)
<1>1. /\ Top(h) \in Nat /\ h.brk \in Address /\ Word \in Nat \ {0}
      /\ HeapBase \in Nat \ {0} /\ HeapBase <= Top(h)
  BY Room, WordSize, HeapAssumption DEF WellFormed
<1>2. CASE n <= 0
  <2>1. r = [heap |-> h, ptr |-> 0]
    BY <1>2 DEF Malloc, Result
  <2> QED
    BY <1>2, <2>1
<1>3. CASE n > 0
  <2>1. n \in Nat \ {0}
    BY <1>3
  <2>2. /\ WellFormed(g)
        /\ g.brk = h.brk /\ g.last = h.last
        /\ Fits(g, n) <=> Top(h) + n <= Word
        /\ ~Fits(g, n) => g = h
    BY <2>1, ReserveSound
  <2>3. r = Carve(g, n)
    BY <2>1 DEF Malloc
  <2>4. CASE ~Fits(g, n)
    <3>1. r = [heap |-> h, ptr |-> 0]
      BY <2>2, <2>3, <2>4 DEF Carve, Result
    <3>2. Top(h) + n > Word
      BY <1>1, <2>1, <2>2, <2>4
    <3> QED
      BY <3>1, <3>2
  <2>5. CASE Fits(g, n)
    <3> DEFINE f == HeapOf(Wrap(h.brk + n), g.end, h.brk, g.mem)
    <3>1. r = [heap |-> f, ptr |-> h.brk]
      BY <2>2, <2>3, <2>5 DEF Carve, Result
    <3>2. Top(h) + n <= Word
      BY <2>2, <2>5
    <3>3. h.brk = Top(h) /\ h.brk # 0
      BY <1>1, <1>3, <3>2 DEF Top
    <3>4. f.brk = Wrap(Top(h) + n) /\ f.end = g.end /\ f.last = h.brk /\ f.mem = g.mem
      BY <3>3 DEF HeapOf
    <3>5. Wrap(Top(h) + n) = IF Top(h) + n = Word THEN 0 ELSE Top(h) + n
      BY <1>1, <1>3, <3>2 DEF Wrap
    <3>6. Top(f) = Top(h) + n
      BY <1>1, <1>3, <3>2, <3>4, <3>5 DEF Top
    <3>7. Top(g) = Top(h) /\ Distance(g.brk, g.end) = g.mem - Top(g) /\ g.mem \in Nat
      BY <2>2, Room DEF Top
    <3>8. Top(f) <= f.mem
      BY <1>1, <1>3, <2>5, <3>4, <3>6, <3>7 DEF Fits
    <3>9. f \in Heap
      BY <1>1, <1>3, <2>2, <3>2, <3>5, <3>3 DEF WellFormed, Heap, HeapOf, Address
    <3>10. Limit(f) = f.mem /\ \E k \in 1 .. MaxPages : f.mem = k * Page
      BY <2>2, <3>4 DEF WellFormed, Limit
    <3>11. WellFormed(f)
      BY <1>1, <1>3, <3>6, <3>8, <3>9, <3>10 DEF WellFormed
    <3> HIDE DEF f
    <3> QED
      BY <1>1, <1>3, <3>1, <3>2, <3>3, <3>4, <3>6, <3>11
  <2> QED
    BY <2>4, <2>5
<1> QED
  BY <1>2, <1>3

(* realloc of the last block starts again at the block itself, of another  *)
(* block at the break; a refusal leaves the heap as it was.                *)
LEMMA ReallocSound ==
  ASSUME NEW h, WellFormed(h), NEW n \in Int \ {0}, NEW p \in Address,
         HeapBase <= p, p <= Top(h), n # 1 \/ p = h.last
  PROVE  LET r == Realloc(h, p, n)
         IN  /\ r.ptr = 0 <=> n <= 0 \/ NewStart(h, p) + n > Word
             /\ r.ptr = 0 => r.heap = h
             /\ r.ptr # 0 => /\ n > 0 /\ r.ptr = NewStart(h, p)
                             /\ WellFormed(r.heap)
                             /\ r.heap.last = r.ptr
                             /\ Top(r.heap) = NewStart(h, p) + n
<1> DEFINE g == Rewound(h, p)
           m == Malloc(g, n)
           r == Realloc(h, p, n)
<1>1. /\ Top(h) \in Nat /\ h.brk \in Address /\ Word \in Nat \ {0}
      /\ h.mem \in Nat /\ Top(h) <= h.mem /\ h.mem <= Word
      /\ HeapBase \in Nat \ {0} /\ HeapBase <= Top(h) /\ p # 0
  BY Room, WordSize, HeapAssumption DEF WellFormed
<1>2. h = HeapOf(h.brk, h.end, h.last, h.mem)
  BY DEF WellFormed, Heap, HeapOf
<1>3. /\ WellFormed(g) /\ Top(g) = NewStart(h, p)
      /\ g.end = h.end /\ g.last = h.last /\ g.mem = h.mem
  <2>1. CASE p = h.last
    <3>1. g = HeapOf(p, h.end, h.last, h.mem)
      BY <2>1 DEF Rewound, SetBreak
    <3>2. /\ g.brk = p /\ g.end = h.end /\ g.last = h.last /\ g.mem = h.mem
          /\ g \in Heap
      BY <3>1 DEF HeapOf, WellFormed, Heap
    <3>3. Top(g) = p /\ Limit(g) = Limit(h)
      BY <1>1, <3>2 DEF Top, Limit
    <3>4. Limit(h) = h.mem /\ \E k \in 1 .. MaxPages : h.mem = k * Page
      BY Room
    <3>5. HeapBase <= p /\ p <= h.mem
      BY <1>1 DEF Address
    <3>6. WellFormed(g)
      <4> HIDE DEF g
      <4> QED
        BY <3>2, <3>3, <3>4, <3>5 DEF WellFormed
    <3> QED
      BY <2>1, <3>2, <3>3, <3>6 DEF NewStart
  <2>2. CASE p # h.last
    BY <2>2 DEF Rewound, NewStart
  <2> QED
    BY <2>1, <2>2
<1>4. r = IF m.ptr = 0 THEN Result(SetBreak(m.heap, h.brk), 0) ELSE m
  BY <1>1 DEF Realloc, Moved
<1>5. /\ m.ptr = 0 <=> n <= 0 \/ NewStart(h, p) + n > Word
      /\ m.ptr = 0 => m.heap = g
      /\ m.ptr # 0 => /\ n > 0 /\ m.ptr = NewStart(h, p)
                      /\ WellFormed(m.heap)
                      /\ m.heap.last = m.ptr
                      /\ Top(m.heap) = NewStart(h, p) + n
  <2> HIDE DEF g
  <2> QED
    BY <1>3, MallocSound
<1>6. SetBreak(g, h.brk) = h
  BY <1>2, <1>3 DEF SetBreak
<1> HIDE DEF g, m, r
<1>7. CASE m.ptr = 0
  <2>1. r = [heap |-> h, ptr |-> 0]
    BY <1>4, <1>5, <1>6, <1>7 DEF Result
  <2>2. r.ptr = 0 /\ r.heap = h
    BY <2>1
  <2> QED
    BY <1>5, <1>7, <2>2 DEF r
<1>8. CASE m.ptr # 0
  <2>1. r = m
    BY <1>4, <1>8
  <2> QED
    BY <1>5, <1>8, <2>1 DEF r
<1> QED
  BY <1>7, <1>8

(* A new module's heap: what is left of its first pages, and no block.     *)
LEMMA NewHeapSound == WellFormed(NewHeap) /\ NewHeap.last = 0
<1> DEFINE h == NewHeap
<1>1. /\ Word \in Nat \ {0} /\ HeapBase \in Nat \ {0}
      /\ InitPages * Page \in Nat /\ HeapBase <= InitPages * Page
      /\ InitPages * Page <= Word
  BY WordSize, HeapAssumption
<1>2. /\ h.brk = Wrap(HeapBase) /\ h.end = Wrap(InitPages * Page)
      /\ h.last = 0 /\ h.mem = InitPages * Page
      /\ h = HeapOf(h.brk, h.end, 0, h.mem)
  BY DEF NewHeap, HeapOf
<1> HIDE DEF h
<1>3. h \in Heap
  BY <1>1, <1>2 DEF Heap, HeapOf, Address, Wrap
<1>4. Top(h) = HeapBase /\ Limit(h) = InitPages * Page
  BY <1>1, <1>2 DEF Top, Limit, Wrap
<1>5. \E k \in 1 .. MaxPages : h.mem = k * Page
  BY <1>2, HeapAssumption
<1>6. WellFormed(h)
  BY <1>1, <1>2, <1>3, <1>4, <1>5 DEF WellFormed
<1> QED
  BY <1>2, <1>6 DEF h

(* Only a product that is no positive int tells calloc from malloc.        *)
LEMMA CallocSound ==
  ASSUME NEW h, WellFormed(h), NEW n \in Int
  PROVE  LET r == Calloc(h, n)
         IN  /\ r.ptr = 0 => r.heap = h
             /\ r.ptr # 0 => /\ n > 0 /\ r.ptr = Top(h) /\ r.ptr = h.brk
                             /\ WellFormed(r.heap)
                             /\ r.heap.last = r.ptr
                             /\ Top(r.heap) = Top(h) + n
<1>1. CASE n > MaxInt
  <2>1. Calloc(h, n) = [heap |-> h, ptr |-> 0]
    BY <1>1 DEF Calloc, Result
  <2> QED
    BY <2>1
<1>2. CASE ~(n > MaxInt)
  <2>1. Calloc(h, n) = Malloc(h, n)
    BY <1>2 DEF Calloc
  <2> QED
    BY <2>1, MallocSound
<1> QED
  BY <1>1, <1>2

(* free of the last block puts the break back to where the block starts,   *)
(* and there is no last block until the next call of malloc.               *)
LEMMA FreeSound ==
  ASSUME NEW h, WellFormed(h), h.last # 0, HeapBase <= h.last, h.last <= Top(h)
  PROVE  LET f == Free(h, h.last)
         IN  WellFormed(f) /\ Top(f) = h.last /\ f.last = 0
<1> DEFINE f == Free(h, h.last)
<1>1. f = HeapOf(h.last, h.end, 0, h.mem)
  BY DEF Free
<1>2. /\ f.brk = h.last /\ f.end = h.end /\ f.last = 0 /\ f.mem = h.mem
      /\ h.last \in Address /\ Top(h) \in Nat /\ h.mem \in Nat /\ Top(h) <= h.mem
      /\ HeapBase \in Nat /\ 0 \in Address
  BY <1>1, Room, WordSize, HeapAssumption DEF HeapOf, Address
<1>3. f \in Heap
  BY <1>1, <1>2 DEF WellFormed, Heap, HeapOf
<1> HIDE DEF f
<1>4. Top(f) = h.last /\ Limit(f) = Limit(h)
  BY <1>2 DEF Top, Limit
<1>5. h.last <= h.mem
  BY <1>2 DEF Address
<1>6. WellFormed(f)
  BY <1>2, <1>3, <1>4, <1>5 DEF WellFormed
<1> QED
  BY <1>2, <1>4, <1>6 DEF f
=============================================================================
