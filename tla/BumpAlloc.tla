----------------------------- MODULE BumpAlloc -----------------------------
(***************************************************************************)
(* The allocator of the compiled WebAssembly module (malloc_bump.c, as it  *)
(* appears in internal/bpf.go): Xmalloc, Xfree, _realloc, _calloc and the  *)
(* memory_grow they call.  The module is a data structure: it declares no  *)
(* variable, and every operation maps a heap to a result.                  *)
(*                                                                         *)
(* Sizes and addresses are counted in granules of 16 bytes.  The allocator *)
(* rounds every size up to 16 bytes and the initial break is a multiple of *)
(* 16, so every address it stores is one; the test "n <= 16" of _realloc   *)
(* is "n is one granule".  A request is a C int: a number below 1 stands   *)
(* for zero and for every negative (or too large) length.                  *)
(***************************************************************************)
EXTENDS Integers

CONSTANTS
  Page,        \* granules in a WebAssembly page (4096 in the program)
  MaxPages,    \* maxMem, in pages (65536 in the program)
  InitPages,   \* pages of a new Module (2 in the program)
  HeapBase     \* the first granule of the heap (7990 in the program)

ASSUME HeapAssumption ==
  /\ Page \in Nat \ {0}
  /\ MaxPages \in Nat \ {0}
  /\ InitPages \in 1 .. MaxPages
  /\ HeapBase \in 1 .. InitPages * Page

(***************************************************************************)
(* The pointers are 32-bit words, and maxMem pages are 2^32 bytes: the     *)
(* address just past a full memory is stored as 0.                         *)
(***************************************************************************)
Word == MaxPages * Page
Address == 0 .. Word - 1
(* Mutant: the end of a full memory is not taken modulo 2^32. *)
Unwrapped(x) == x

Wrap(x) == IF x >= Word THEN x - Word ELSE x
Distance(from, to) == IF from <= to THEN to - from ELSE to - from + Word

(***************************************************************************)
(* A heap: the break (the next free granule), the end of the heap and the  *)
(* last block handed out (0 if there is none), all words in memory, and    *)
(* the length of the memory itself.                                        *)
(***************************************************************************)
Heap == [brk : Address, end : Address, last : Address, mem : 0 .. Word]

HeapOf(b, e, l, m) == [brk |-> b, end |-> e, last |-> l, mem |-> m]

NewHeap ==
  HeapOf(Wrap(HeapBase), Wrap(InitPages * Page), 0, InitPages * Page)

(* Mutant: a whole number of pages is rounded up all the same. *)
PageAbove(x) == (x \div Page + 1) * Page

PageCeil(x) == ((x + Page - 1) \div Page) * Page

(***************************************************************************)
(* One round of the loop that makes room for sz granules: memory_grow by   *)
(* whole pages, and then either extend the heap (the new pages start where *)
(* it ends) or abandon its rest and start again in the new pages.  When    *)
(* the memory cannot grow the heap is left as it was.                      *)
(***************************************************************************)
Fits(h, sz) == sz <= Distance(h.brk, h.end)

GrowHeap(h, sz) ==
  LET full == h.mem + PageCeil(sz - Distance(h.brk, h.end))
  IN  IF Fits(h, sz) \/ full > Word
      THEN h
      ELSE IF h.end = Wrap(h.mem)
           THEN HeapOf(h.brk, Wrap(full), h.last, full)
           ELSE HeapOf(Wrap(h.mem), Wrap(full), h.last, full)

(* After a round that moved the heap, the next one extends it: two rounds. *)
Reserve(h, sz) == GrowHeap(GrowHeap(h, sz), sz)

Result(h, p) == [heap |-> h, ptr |-> p]

(* Carve sz granules at the break, once there is room for them. *)
Carve(h, sz) ==
  IF Fits(h, sz)
  THEN Result(HeapOf(Wrap(h.brk + sz), h.end, h.brk, h.mem), h.brk)
  ELSE Result(h, 0)

Malloc(h, n) ==
  IF n <= 0 THEN Result(h, 0) ELSE Carve(Reserve(h, n), n)

(* calloc multiplies in 64 bits and refuses a product that is not a        *)
(* positive int, whose largest value is Word \div 2 granules.  It does not *)
(* clear the block it returns.                                             *)
MaxInt == Word \div 2

Calloc(h, n) ==
  IF n > MaxInt THEN Result(h, 0) ELSE Malloc(h, n)

(* Mutants: any block is taken back; the last one may be taken back twice. *)
FreeAny(h, p) == IF p # 0 THEN HeapOf(p, h.end, 0, h.mem) ELSE h
FreeKeeping(h, p) ==
  IF p # 0 /\ p = h.last THEN HeapOf(p, h.end, p, h.mem) ELSE h

(* Only the last block is taken back; for any other, free does nothing. *)
Free(h, p) ==
  IF p # 0 /\ p = h.last THEN HeapOf(p, h.end, 0, h.mem) ELSE h

(***************************************************************************)
(* realloc: the last block is moved to the break it starts at, any other   *)
(* is copied to a new one, unless the new length is one granule.  When     *)
(* there is no room the saved break is put back.                           *)
(***************************************************************************)
SetBreak(h, b) == HeapOf(b, h.end, h.last, h.mem)
(* Mutant: realloc moves any block back to its start. *)
RewoundAlways(h, p) == SetBreak(h, p)

Rewound(h, p) == IF p = h.last THEN SetBreak(h, p) ELSE h

(* Mutant: a refused realloc leaves the break rewound. *)
MovedAnyway(h, p, n) == Malloc(Rewound(h, p), n)

Moved(h, p, n) ==
  LET r == Malloc(Rewound(h, p), n)
  IN  IF r.ptr = 0 THEN Result(SetBreak(r.heap, h.brk), 0) ELSE r

Realloc(h, p, n) ==
  IF p = 0 THEN Malloc(h, n)
  ELSE IF n = 0 THEN Result(Free(h, p), 0)
  ELSE IF n = 1 /\ p # h.last THEN Result(h, p)
  ELSE Moved(h, p, n)

(* Mutant: realloc forgets the last granule. *)
CopiedShort(h, p, n) ==
  LET used == Distance(p, h.brk) IN (IF n <= used THEN n ELSE used) - 1

(* How many granules realloc copies from p when it returns another block. *)
Copied(h, p, n) ==
  LET used == Distance(p, h.brk) IN IF n <= used THEN n ELSE used
-----------------------------------------------------------------------------
(* The break as a number: a heap that fills the memory stores it as 0. *)
Top(h) == IF h.brk = 0 THEN Word ELSE h.brk
Limit(h) == IF h.end = 0 THEN Word ELSE h.end

(* The memory is a whole number of pages and the heap ends where it does,   *)
(* and the break lies in the heap.                                         *)
WellFormed(h) ==
  /\ h \in Heap
  /\ Limit(h) = h.mem
  /\ \E k \in 1 .. MaxPages : h.mem = k * Page
  /\ HeapBase <= Top(h) /\ Top(h) <= h.mem

(* Where realloc puts the block: the last one stays where it starts.       *)
NewStart(h, p) == IF p = h.last THEN p ELSE Top(h)
=============================================================================
