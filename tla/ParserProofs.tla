---------------------------- MODULE ParserProofs ----------------------------
(***************************************************************************)
(* What the code generator's operations make, and the inductive invariant  *)
(* of the parse: for every expression of the grammar, every packet and     *)
(* every size of words and of the scratch memory, the graph that a         *)
(* compilation hands over means what the expression means, and so does the *)
(* program it is converted to.                                             *)
(***************************************************************************)
EXTENDS GraphProofs

-----------------------------------------------------------------------------
(***************************************************************************)
(* The generator's state: scratch words and new blocks (alloc_reg,         *)
(* free_reg, new_block, gen_abs_offset_varpart).                           *)
(***************************************************************************)

(***************************************************************************)
(* What one call of the generator does to its state: blocks up to lo stay  *)
(* as they are, an error is never taken back, and the register with the    *)
(* prefix, once it is there, stays.  The registers of operands are those   *)
(* in use that do not hold the prefix.                                     *)
(***************************************************************************)
LinkOwned(gs) == gs.linkreg # NoReg => gs.prefixed /\ gs.linkreg \in gs.used
Owners(gs) == gs.used \ {gs.linkreg}

Later(old, new, lo) ==
  /\ new \in CsType /\ new.prefixed = old.prefixed
  /\ Len(new.blocks) >= Len(old.blocks)
  /\ \A c \in 1 .. lo : new.blocks[c] = old.blocks[c]
  /\ ~new.failed => ~old.failed /\ Sooner(old.linkreg, new.linkreg)
  /\ ~new.failed /\ LinkOwned(old) => LinkOwned(new)

Held(old, new) == ~new.failed /\ LinkOwned(old) => Owners(new) = Owners(old)

LEMMA LaterTwice ==
  ASSUME NEW a \in CsType, NEW b, NEW c, NEW lo \in Nat, Later(a, b, lo), Later(b, c, lo)
  PROVE  Later(a, c, lo) /\ (Held(a, b) /\ Held(b, c) => Held(a, c))
<1>1. a.blocks \in Seq(Block) /\ b.blocks \in Seq(Block) /\ c.blocks \in Seq(Block)
  BY DEF CsType, Later
<1>2. Len(a.blocks) \in Nat /\ Len(b.blocks) \in Nat /\ Len(c.blocks) \in Nat
  BY <1>1
<1>3. Len(b.blocks) >= Len(a.blocks) /\ Len(c.blocks) >= Len(b.blocks)
  BY DEF Later
<1>4. Len(c.blocks) >= Len(a.blocks)
  BY ONLY <1>2, <1>3
<1>5. ~c.failed => ~b.failed /\ ~a.failed /\ Sooner(a.linkreg, c.linkreg)
  BY DEF Later, Sooner
<1>6. Later(a, c, lo)
  BY <1>4, <1>5 DEF Later
<1>. QED  BY <1>5, <1>6 DEF Held, Later

LEMMA LaterLess ==
  ASSUME NEW a, NEW b, NEW lo \in Nat, NEW lo2 \in Nat, lo2 <= lo, Later(a, b, lo)
  PROVE  Later(a, b, lo2)
<1>1. 1 .. lo2 \subseteq 1 .. lo
  OBVIOUS
<1>. QED  BY <1>1 DEF Later

LEMMA LaterSame ==
  ASSUME NEW a \in CsType, NEW lo
  PROVE  Later(a, a, lo) /\ Held(a, a)
<1>1. Len(a.blocks) \in Nat
  BY DEF CsType
<1>. QED  BY <1>1 DEF Later, Held, Sooner

LEMMA LaterBlocks ==
  ASSUME NEW a \in CsType, NEW b, NEW A, OnlyBlocks(a, b, A), NEW lo \in Nat, lo <= Len(a.blocks),
         \A c \in A : ~(c \in 1 .. lo)
  PROVE  Later(a, b, lo) /\ Held(a, b) /\ b.failed = a.failed /\ b.linkreg = a.linkreg
<1>1. Len(a.blocks) \in Nat
  BY DEF CsType
<1>2. 1 .. lo \subseteq 1 .. Len(a.blocks)
  BY <1>1
<1>. QED  BY <1>2 DEF OnlyBlocks, Later, Held, Sooner, LinkOwned, Owners

(* alloc_reg and free_reg.                                                 *)
LEMMA AllocRight ==
  ASSUME NEW gs \in CsType, NEW lo
  PROVE  LET m == AllocReg(gs)
         IN  /\ m.cs \in CsType /\ m.reg \in Slot /\ Later(gs, m.cs, lo)
             /\ m.cs.blocks = gs.blocks /\ m.cs.linkreg = gs.linkreg
             /\ ~m.cs.failed => /\ m.reg \notin gs.used
                                /\ m.cs.used = gs.used \cup {m.reg}
<1>. DEFINE m == AllocReg(gs)
            free == {d \in Slot : (gs.cur + d) % MemSlots \notin gs.used}
            reg == (gs.cur + Min(free)) % MemSlots
<1>1. /\ gs.cur \in Slot /\ gs.used \in SUBSET Slot /\ Len(gs.blocks) \in Nat /\ MemSlots \in Nat \ {0}
      /\ 0 \in Slot
  BY Small DEF CsType, Slot
<1>2. CASE free = {}
  <2>1. m = [cs |-> [gs EXCEPT !.failed = TRUE], reg |-> 0]
    BY <1>2 DEF AllocReg
  <2>2. m.cs \in CsType /\ m.reg \in Slot /\ m.cs.failed /\ m.cs.blocks = gs.blocks /\ m.cs.linkreg = gs.linkreg
        /\ m.cs.prefixed = gs.prefixed
    <3>. DEFINE new == [gs EXCEPT !.failed = TRUE]
    <3>1. /\ new \in CsType /\ new.failed /\ new.blocks = gs.blocks
          /\ new.linkreg = gs.linkreg /\ new.prefixed = gs.prefixed
      BY DEF CsType
    <3>2. m.cs = new /\ m.reg = 0
      BY ONLY <2>1
    <3>. HIDE DEF new, m
    <3>. QED  BY ONLY <1>1, <3>1, <3>2
  <2>. HIDE DEF m
  <2>. QED  BY <1>1, <2>2 DEF Later, m
<1>3. CASE free # {}
  <2>1. m = [cs |-> [gs EXCEPT !.cur = reg, !.used = @ \cup {reg}], reg |-> reg]
    BY <1>3 DEF AllocReg
  <2>2. Min(free) \in free
    <3>1. free \in SUBSET Nat
      BY DEF Slot
    <3>2. \E d \in free : \A y \in free : d <= y
      BY <1>3, <3>1, LeastNat
    <3>. HIDE DEF free
    <3>. QED  BY <3>2 DEF Min
  <2>3. reg \notin gs.used /\ reg \in Slot
    <3>1. reg \notin gs.used /\ Min(free) \in Slot
      BY <2>2
    <3>. HIDE DEF free
    <3>2. gs.cur + Min(free) \in Int
      BY <1>1, <3>1 DEF Slot
    <3>3. reg \in Slot
      BY ONLY <1>1, <3>2, Residue DEF Slot
    <3>. QED  BY <3>1, <3>3
  <2>. HIDE DEF reg
  <2>4. /\ m.cs \in CsType /\ m.reg = reg /\ m.cs.failed = gs.failed /\ m.cs.blocks = gs.blocks
        /\ m.cs.linkreg = gs.linkreg /\ m.cs.prefixed = gs.prefixed /\ m.cs.used = gs.used \cup {reg}
    <3>. DEFINE new == [gs EXCEPT !.cur = reg, !.used = @ \cup {reg}]
    <3>1. /\ new \in CsType /\ new.failed = gs.failed /\ new.blocks = gs.blocks
          /\ new.linkreg = gs.linkreg /\ new.prefixed = gs.prefixed
          /\ new.used = gs.used \cup {reg}
      BY <2>3 DEF CsType
    <3>2. m.cs = new /\ m.reg = reg
      BY ONLY <2>1
    <3>. HIDE DEF new, m
    <3>. QED  BY ONLY <3>1, <3>2
  <2>. HIDE DEF m
  <2>5. Later(gs, m.cs, lo)
    BY ONLY <1>1, <2>4 DEF Later, Sooner, LinkOwned
  <2>. QED  BY <2>3, <2>4, <2>5 DEF m
<1>. QED  BY <1>2, <1>3

LEMMA FreeRight ==
  ASSUME NEW gs \in CsType, NEW r, NEW lo
  PROVE  LET new == FreeReg(gs, r)
         IN  /\ new \in CsType /\ new.blocks = gs.blocks /\ new.linkreg = gs.linkreg
             /\ new.failed = gs.failed /\ new.prefixed = gs.prefixed
             /\ new.used = gs.used \ {r}
             /\ r # gs.linkreg => Later(gs, new, lo) /\ Owners(new) = Owners(gs) \ {r}
<1>. DEFINE new == FreeReg(gs, r)
<1>1. /\ new \in CsType /\ new.blocks = gs.blocks /\ new.linkreg = gs.linkreg
      /\ new.failed = gs.failed /\ new.prefixed = gs.prefixed
      /\ new.used = gs.used \ {r}
  BY DEF FreeReg, CsType
<1>2. Len(gs.blocks) \in Nat
  BY DEF CsType
<1>. HIDE DEF new
<1>3. r # gs.linkreg => Later(gs, new, lo) /\ Owners(new) = Owners(gs) \ {r}
  BY ONLY <1>1, <1>2 DEF Later, Owners, LinkOwned, Sooner
<1>. QED  BY <1>1, <1>3 DEF new

(* gen_abs_offset_varpart: the statements that put the prefix's length in  *)
(* x, if it has one.                                                       *)
BehindPrefix(gs, s) ==
  IF gs.prefixed THEN gs.linkreg \in Slot /\ s = << LdxMem(gs.linkreg) >> ELSE s = << >>

LEMMA VarPartRight ==
  ASSUME NEW gs \in CsType, NEW lo
  PROVE  LET m == VarPart(gs)
         IN  /\ Later(gs, m.cs, lo) /\ Held(gs, m.cs) /\ m.cs.blocks = gs.blocks
             /\ m.stmts \in Seq(Stmt) /\ Stores(m.stmts) = {} /\ BehindPrefix(m.cs, m.stmts)
<1>. DEFINE m == VarPart(gs)
<1>0. ASSUME NEW r \in Slot
      PROVE  << LdxMem(r) >> \in Seq(Stmt) /\ Stores(<< LdxMem(r) >>) = {}
  <2>1. LdxMem(r) \in Stmt
    BY Statements1
  <2>2. << LdxMem(r) >> = Append(<< >>, LdxMem(r))
    OBVIOUS
  <2>3. Stores(Append(<< >>, LdxMem(r))) = Stores(<< >>) \cup StoresOf(LdxMem(r))
        /\ Append(<< >>, LdxMem(r)) \in Seq(Stmt)
    BY ONLY <2>1, StoresLast, StoresNone
  <2>. QED  BY ONLY <2>2, <2>3, StoresNone, StoresOfAll
<1>1. CASE ~gs.prefixed
  <2>1. m.cs = gs /\ m.stmts = << >>
    BY <1>1 DEF VarPart
  <2>. QED  BY <1>1, <2>1, LaterSame, StoresNone DEF BehindPrefix
<1>2. CASE gs.prefixed /\ gs.linkreg # NoReg
  <2>1. m.cs = gs /\ m.stmts = << LdxMem(gs.linkreg) >> /\ gs.linkreg \in Slot
    BY <1>2 DEF VarPart, CsType
  <2>. QED  BY <1>0, <1>2, <2>1, LaterSame DEF BehindPrefix
<1>3. CASE gs.prefixed /\ gs.linkreg = NoReg
  <2>. DEFINE got == AllocReg(gs)
  <2>1. /\ got.cs \in CsType /\ got.reg \in Slot /\ Later(gs, got.cs, lo)
        /\ got.cs.blocks = gs.blocks /\ got.cs.linkreg = gs.linkreg
        /\ ~got.cs.failed => /\ got.reg \notin gs.used
                             /\ got.cs.used = gs.used \cup {got.reg}
    BY AllocRight
  <2>2. m.cs = [got.cs EXCEPT !.linkreg = got.reg] /\ m.stmts = << LdxMem(got.reg) >>
    BY <1>3 DEF VarPart, VarIn
  <2>. HIDE DEF got, m
  <2>3. /\ m.cs \in CsType /\ m.cs.linkreg = got.reg /\ m.cs.failed = got.cs.failed
        /\ m.cs.blocks = got.cs.blocks /\ m.cs.prefixed = got.cs.prefixed /\ m.cs.used = got.cs.used
    BY <2>1, <2>2 DEF CsType
  <2>4. got.cs.prefixed = gs.prefixed /\ (~got.cs.failed => ~gs.failed)
    BY <2>1 DEF Later
  <2>5. Len(gs.blocks) \in Nat
    BY DEF CsType
  <2>6. Later(gs, m.cs, lo)
    BY ONLY <1>3, <2>1, <2>3, <2>4, <2>5 DEF Later, Sooner, LinkOwned
  <2>7. Held(gs, m.cs)
    <3>1. NoReg \notin gs.used
      BY Small DEF CsType, NoReg, Slot
    <3>. QED  BY ONLY <1>3, <2>1, <2>3, <3>1 DEF Held, Owners
  <2>8. BehindPrefix(m.cs, m.stmts)
    BY ONLY <1>3, <2>1, <2>2, <2>3, <2>4 DEF BehindPrefix
  <2>9. m.stmts \in Seq(Stmt) /\ Stores(m.stmts) = {}
    BY ONLY <1>0, <2>1, <2>2
  <2>. QED  BY ONLY <2>1, <2>3, <2>6, <2>7, <2>8, <2>9 DEF m
<1>4. gs.prefixed \in BOOLEAN
  BY DEF CsType
<1>. QED  BY <1>1, <1>2, <1>3, <1>4

(* A call made a block, and no block up to lo is part of it.               *)
Refs == [Meanings -> Verdict3]
Span(gs, lo) == lo + 1 .. Len(gs.blocks)
Count(gs, lo) == Len(gs.blocks) - lo

BlockIn(e, gs, lo, b, ref) ==
  BlockFor(e, gs.blocks, gs.linkreg, b, ref, Span(gs, lo), Count(gs, lo))
MadeFrom(e, gs, lo, m, ref) ==
  /\ Later(gs, m.cs, lo) /\ Held(gs, m.cs)
  /\ ~m.cs.failed => BlockIn(e, m.cs, lo, m.blk, ref)

LEMMA Sized ==
  ASSUME NEW gs \in CsType
  PROVE  gs.blocks \in Seq(Block) /\ Len(gs.blocks) \in Nat
  BY DEF CsType

LEMMA BlockInLess ==
  ASSUME NEW e, NEW gs \in CsType, NEW lo \in Nat, NEW lo2 \in Nat, lo2 <= lo, lo <= Len(gs.blocks),
         NEW b, NEW ref, BlockIn(e, gs, lo, b, ref)
  PROVE  BlockIn(e, gs, lo2, b, ref)
<1>1. gs.blocks \in Seq(Block) /\ Len(gs.blocks) \in Nat
  BY Sized
<1>2. Span(gs, lo) \subseteq Span(gs, lo2)
  BY <1>1 DEF Span
<1>3. Count(gs, lo) \in Nat /\ Count(gs, lo2) \in Nat /\ Count(gs, lo) <= Count(gs, lo2)
  BY <1>1 DEF Count
<1>4. BlockFor(e, gs.blocks, gs.linkreg, b, ref, Span(gs, lo), Count(gs, lo)) /\ Sooner(gs.linkreg, gs.linkreg)
  BY DEF BlockIn, Sooner
<1>5. Len(gs.blocks) >= Len(gs.blocks)
  BY <1>1
<1>6. BlockFor(e, gs.blocks, gs.linkreg, b, ref, Span(gs, lo2), Count(gs, lo2))
  BY ONLY <1>1, <1>2, <1>3, <1>4, <1>5, BlockKept
<1>. QED  BY <1>6 DEF BlockIn

LEMMA MadeLess ==
  ASSUME NEW e, NEW gs \in CsType, NEW lo \in Nat, NEW lo2 \in Nat, lo2 <= lo, lo <= Len(gs.blocks),
         NEW m, NEW ref, MadeFrom(e, gs, lo, m, ref)
  PROVE  MadeFrom(e, gs, lo2, m, ref)
<1>1. Later(gs, m.cs, lo) /\ m.cs \in CsType /\ Len(m.cs.blocks) >= Len(gs.blocks)
  BY DEF MadeFrom, Later
<1>2. Later(gs, m.cs, lo2)
  BY <1>1, LaterLess
<1>3. lo <= Len(m.cs.blocks)
  <2>1. Len(gs.blocks) \in Nat /\ Len(m.cs.blocks) \in Nat
    BY <1>1, Sized
  <2>. QED  BY ONLY <1>1, <2>1, lo \in Nat, lo <= Len(gs.blocks)
<1>4. BlockIn(e, m.cs, lo, m.blk, ref) => BlockIn(e, m.cs, lo2, m.blk, ref)
  BY <1>1, <1>3, BlockInLess
<1>. QED  BY <1>2, <1>4 DEF MadeFrom

LEMMA MadeLater ==
  ASSUME NEW e, NEW a \in CsType, NEW gs, NEW lo \in Nat, Later(a, gs, lo), Held(a, gs),
         NEW m, NEW ref, MadeFrom(e, gs, lo, m, ref)
  PROVE  MadeFrom(e, a, lo, m, ref)
<1>1. Later(gs, m.cs, lo) /\ Held(gs, m.cs)
  BY DEF MadeFrom
<1>2. Later(a, m.cs, lo) /\ Held(a, m.cs)
  BY <1>1, LaterTwice
<1>. QED  BY <1>2 DEF MadeFrom

LEMMA NewMade ==
  ASSUME NEW gs \in CsType, NEW stmts \in Seq(Stmt), NEW br \in Test1, NEW e, NEW ref \in Refs,
         ~gs.failed => \A p \in Meanings : ref[p] # "reject" =>
           Says([stmts |-> stmts, br |-> br], gs.linkreg, Pre(e, Packets[p]), Packets[p], ref[p] = "yes")
  PROVE  MadeFrom(e, gs, Len(gs.blocks), NewBlock(gs, stmts, br), ref)
<1>. DEFINE m == NewBlock(gs, stmts, br)
            lo == Len(gs.blocks)
<1>0. lo \in Nat /\ br \in InsnType
  BY Sized DEF Test1
<1>1. OnlyBlocks(gs, m.cs, {}) /\ Len(m.cs.blocks) = lo + 1 /\ m.blk = lo + 1
  BY <1>0, NewBlockShape
<1>. HIDE DEF m
<1>2. Later(gs, m.cs, lo) /\ Held(gs, m.cs) /\ m.cs.failed = gs.failed /\ m.cs.linkreg = gs.linkreg
  <2>1. lo <= Len(gs.blocks)
    BY <1>0
  <2>. QED  BY <1>0, <1>1, <2>1, LaterBlocks
<1>3. ASSUME ~gs.failed
      PROVE  BlockFor(e, m.cs.blocks, gs.linkreg, m.blk, ref, {m.blk}, 1)
  BY <1>3, NewBlockRight DEF m, Refs
<1>4. Span(m.cs, lo) = {m.blk} /\ Count(m.cs, lo) = 1
  BY <1>0, <1>1 DEF Span, Count
<1>5. MadeFrom(e, gs, lo, m, ref)
  BY <1>2, <1>3, <1>4 DEF MadeFrom, BlockIn
<1>. QED  BY <1>5 DEF m, lo

LEMMA NotMade ==
  ASSUME NEW e, NEW gs \in CsType, NEW lo \in Nat, lo <= Len(gs.blocks), NEW b \in Span(gs, lo),
         NEW ref \in Refs, ~gs.failed => BlockIn(e, gs, lo, b, ref),
         NEW ref2, \A p \in Meanings : ref2[p] = Not3(ref[p])
  PROVE  MadeFrom(e, gs, lo, GenNot(gs, b), ref2)
<1>. DEFINE m == GenNot(gs, b)
            new == Negated(gs.blocks, b)
<1>0. gs.blocks \in Seq(Block) /\ Len(gs.blocks) \in Nat /\ b \in 1 .. Len(gs.blocks) /\ b > lo
  BY Sized DEF Span
<1>1. m.cs = [gs EXCEPT !.blocks = new] /\ m.blk = b
  BY DEF GenNot
<1>2. /\ new \in Seq(Block) /\ Len(new) = Len(gs.blocks)
      /\ \A c \in 1 .. Len(gs.blocks) : c # b => new[c] = gs.blocks[c]
  <2>. DEFINE old == gs.blocks
  <2>1. old \in Seq(Block) /\ b \in 1 .. Len(old)
    BY <1>0
  <2>. HIDE DEF old
  <2>2. /\ Negated(old, b) \in Seq(Block) /\ Len(Negated(old, b)) = Len(old)
        /\ \A c \in 1 .. Len(old) : c # b => Negated(old, b)[c] = old[c]
    BY ONLY <2>1, NotShape
  <2>. QED  BY ONLY <2>2 DEF old
<1>. HIDE DEF m, new
<1>3. OnlyBlocks(gs, m.cs, {b}) /\ m.cs.blocks = new
  <2>1. Len(new) >= Len(gs.blocks) /\ \A c \in 1 .. Len(gs.blocks) : c \notin {b} => new[c] = gs.blocks[c]
    BY <1>0, <1>2
  <2>. QED  BY <1>1, <1>2, <2>1, WithBlocks
<1>4. Later(gs, m.cs, lo) /\ Held(gs, m.cs) /\ m.cs.linkreg = gs.linkreg /\ m.cs.failed = gs.failed
  <2>1. \A c \in {b} : ~(c \in 1 .. lo)
    BY <1>0
  <2>. QED  BY <1>3, <2>1, LaterBlocks
<1>5. ASSUME ~gs.failed
      PROVE  BlockFor(e, m.cs.blocks, gs.linkreg, m.blk, ref2, Span(gs, lo), Count(gs, lo))
  BY <1>5, NotRight DEF BlockIn, Refs, m
<1>6. Span(m.cs, lo) = Span(gs, lo) /\ Count(m.cs, lo) = Count(gs, lo)
  BY <1>2, <1>3 DEF Span, Count
<1>. QED  BY ONLY <1>4, <1>5, <1>6 DEF MadeFrom, BlockIn, m

(* The checks of block b before a block that was just made.                *)
LEMMA AndMade ==
  ASSUME NEW e, NEW a \in CsType, NEW lo \in Nat, NEW mid \in Nat, lo <= mid, mid <= Len(a.blocks),
         NEW b, NEW ref0 \in Refs, NEW A0, A0 \subseteq lo + 1 .. mid,
         NEW n0 \in Nat, n0 <= mid - lo, BlockFor(e, a.blocks, a.linkreg, b, ref0, A0, n0),
         NEW m, NEW ref1 \in Refs, MadeFrom(e, a, mid, m, ref1), ~m.cs.failed,
         NEW ref, \A p \in Meanings : ref[p] = And3(ref0[p], ref1[p])
  PROVE  MadeFrom(e, a, lo, GenAnd(m.cs, b, m.blk), ref)
<1>. DEFINE gs == m.cs
            r == GenAnd(gs, b, m.blk)
            A1 == Span(gs, mid)
            n1 == Count(gs, mid)
            B0 == lo + 1 .. mid
            k0 == mid - lo
<1>1. /\ Later(a, gs, mid) /\ gs \in CsType /\ Sooner(a.linkreg, gs.linkreg)
      /\ BlockFor(e, gs.blocks, gs.linkreg, m.blk, ref1, A1, n1) /\ Len(gs.blocks) >= Len(a.blocks)
  BY DEF MadeFrom, Later, BlockIn
<1>2. /\ gs.blocks \in Seq(Block) /\ Len(gs.blocks) \in Nat /\ a.blocks \in Seq(Block) /\ Len(a.blocks) \in Nat
  BY <1>1, Sized
<1>. HIDE DEF gs
<1>3. /\ n1 \in Nat /\ k0 \in Nat /\ k0 + n1 <= Len(gs.blocks) /\ B0 \cap A1 = {} /\ mid <= Len(gs.blocks)
      /\ k0 + n1 = Count(gs, lo) /\ B0 \cup A1 = Span(gs, lo) /\ B0 \subseteq 1 .. mid
  BY <1>1, <1>2 DEF Span, Count
<1>. HIDE DEF A1, n1, k0, B0
<1>4. BlockFor(e, gs.blocks, gs.linkreg, b, ref0, B0, k0)
  <2>1. \A c \in A0 : c \in 1 .. Len(a.blocks) => gs.blocks[c] = a.blocks[c]
    BY <1>1, <1>3 DEF Later, B0
  <2>2. A0 \subseteq B0 /\ n0 <= k0
    BY DEF B0, k0
  <2>3. \A p \in Meanings : ref0[p] # "reject" => ref0[p] = ref0[p]
    OBVIOUS
  <2>. QED  BY <1>1, <1>2, <1>3, <2>1, <2>2, <2>3, BlockKept, ZenonT(30)
<1>5. /\ OnlyBlocks(gs, r.cs, B0 \cup A1) /\ Len(r.cs.blocks) = Len(gs.blocks)
      /\ BlockFor(e, r.cs.blocks, gs.linkreg, r.blk, ref, B0 \cup A1, k0 + n1)
  BY <1>1, <1>3, <1>4, AndRight DEF Refs
<1>. HIDE DEF r
<1>6. /\ Later(gs, r.cs, lo) /\ Held(gs, r.cs) /\ r.cs.linkreg = gs.linkreg
  <2>1. \A c \in B0 \cup A1 : ~(c \in 1 .. lo)
    BY <1>3 DEF Span
  <2>2. lo <= Len(gs.blocks)
    BY <1>2, <1>3
  <2>. QED  BY <1>1, <1>5, <2>1, <2>2, LaterBlocks
<1>7. Span(r.cs, lo) = Span(gs, lo) /\ Count(r.cs, lo) = Count(gs, lo)
  BY <1>5 DEF Span, Count
<1>8. MadeFrom(e, gs, lo, r, ref)
  BY ONLY <1>3, <1>5, <1>6, <1>7 DEF MadeFrom, BlockIn
<1>9. Later(a, gs, lo) /\ Held(a, gs)
  <2>1. Later(a, gs, lo)
    BY <1>1, LaterLess
  <2>. QED  BY <2>1 DEF MadeFrom, gs
<1>10. MadeFrom(e, a, lo, r, ref)
  BY <1>8, <1>9, MadeLater
<1>. QED  BY <1>10 DEF r, gs

-----------------------------------------------------------------------------
(***************************************************************************)
(* Tests of places in a packet (gen_ncmp, gen_mcmp, gen_cmp, gen_uncond,   *)
(* gen_ipfrag and the checks of protocols).                                *)
(***************************************************************************)

(***************************************************************************)
(* Tests of a place of the packet.                                         *)
(***************************************************************************)
LEMMA PerformSingle ==
  ASSUME NEW m, NEW i \in Stmt, NEW p
  PROVE  << i >> \in Seq(Stmt) /\ PerformAll(m, << i >>, p) = Perform(m, i, p)
         /\ Stores(<< i >>) = StoresOf(i)
<1>1. << i >> = Append(<< >>, i) /\ << >> \in Seq(Stmt) /\ << i >> \in Seq(Stmt)
  OBVIOUS
<1>2. PerformAll(m, Append(<< >>, i), p) = Perform(PerformAll(m, << >>, p), i, p)
  BY ONLY <1>1, PerformLast, i \in Stmt
<1>3. Stores(Append(<< >>, i)) = Stores(<< >>) \cup StoresOf(i)
  BY ONLY <1>1, StoresLast, i \in Stmt
<1>. QED  BY ONLY <1>1, <1>2, <1>3, PerformNone, StoresNone

LEMMA Packet ==
  ASSUME NEW p \in Meanings
  PROVE  PacketType(Packets[p])
  BY ParserAssumption DEF Meanings

LEMMA LoadFromShape ==
  ASSUME NEW gs \in CsType, NEW s, BehindPrefix(gs, s), NEW size \in {1, 2, 4}, NEW k \in Word
  PROVE  /\ LoadFrom(s, size, k) \in Seq(Stmt) /\ Stores(LoadFrom(s, size, k)) = {}
         /\ ~gs.prefixed => LoadFrom(s, size, k) = << LdAbs(size, k) >>
         /\ gs.prefixed => LoadFrom(s, size, k) = Append(<< LdxMem(gs.linkreg) >>, LdInd(size, k))
                           /\ gs.linkreg \in Slot
<1>1. LdAbs(size, k) \in Stmt /\ LdInd(size, k) \in Stmt
  BY Statements1
<1>2. CASE ~gs.prefixed
  <2>1. LoadFrom(s, size, k) = << LdAbs(size, k) >>
    BY <1>2 DEF LoadFrom, BehindPrefix
  <2>2. Stores(<< LdAbs(size, k) >>) = StoresOf(LdAbs(size, k)) /\ << LdAbs(size, k) >> \in Seq(Stmt)
    BY ONLY <1>1, PerformSingle
  <2>. QED  BY ONLY <1>2, <2>1, <2>2, StoresOfAll
<1>3. CASE gs.prefixed
  <2>1. s = << LdxMem(gs.linkreg) >> /\ gs.linkreg \in Slot
    BY <1>3 DEF BehindPrefix
  <2>2. << LdxMem(gs.linkreg) >> # << >>
    OBVIOUS
  <2>3. LoadFrom(s, size, k) = Append(<< LdxMem(gs.linkreg) >>, LdInd(size, k))
    BY ONLY <2>1, <2>2 DEF LoadFrom
  <2>4. LdxMem(gs.linkreg) \in Stmt
    BY <2>1, Statements1
  <2>5. << LdxMem(gs.linkreg) >> \in Seq(Stmt) /\ Stores(<< LdxMem(gs.linkreg) >>) = StoresOf(LdxMem(gs.linkreg))
    BY ONLY <2>4, PerformSingle
  <2>6. /\ Append(<< LdxMem(gs.linkreg) >>, LdInd(size, k)) \in Seq(Stmt)
        /\ Stores(Append(<< LdxMem(gs.linkreg) >>, LdInd(size, k)))
             = Stores(<< LdxMem(gs.linkreg) >>) \cup StoresOf(LdInd(size, k))
    BY ONLY <1>1, <2>5, StoresLast
  <2>. QED  BY ONLY <1>3, <2>1, <2>3, <2>5, <2>6, StoresOfAll
<1>. QED  BY <1>2, <1>3

LEMMA LoadFromDoes ==
  ASSUME NEW gs \in CsType, NEW e, gs.prefixed <=> e \in Prefixed, NEW s, BehindPrefix(gs, s),
         NEW size \in {1, 2, 4}, NEW k \in Word, NEW q, PacketType(q), Pre(e, q) + k + size <= q.len,
         Pre(e, q) \in Word, NEW m, Ready(m, gs.linkreg, Pre(e, q))
  PROVE  \E x : Holding(PerformAll(m, LoadFrom(s, size, k), q), Fetch(q.at, Pre(e, q) + k, size), x, m.mem)
<1>. DEFINE v == Pre(e, q)
            f == Fetch(q.at, v + k, size)
<1>1. v \in Nat /\ k \in Nat /\ size \in Nat /\ q.len \in Nat
  BY Sizes DEF PacketType, Word
<1>2. Holding(m, m.a, m.x, m.mem)
  BY ReadyHolds
<1>3. /\ ~gs.prefixed => LoadFrom(s, size, k) = << LdAbs(size, k) >>
      /\ gs.prefixed => LoadFrom(s, size, k) = Append(<< LdxMem(gs.linkreg) >>, LdInd(size, k))
                        /\ gs.linkreg \in Slot
  BY LoadFromShape
<1>4. CASE ~gs.prefixed
  <2>1. v = 0
    BY <1>4 DEF Pre
  <2>2. k + size <= q.len /\ v + k = k
    BY ONLY <1>1, <2>1, Pre(e, q) + k + size <= q.len DEF v
  <2>3. PerformAll(m, << LdAbs(size, k) >>, q) = Perform(m, LdAbs(size, k), q)
    BY Statements1, PerformSingle
  <2>4. Holding(Perform(m, LdAbs(size, k), q), Fetch(q.at, k, size), m.x, m.mem)
    BY <1>2, <2>2, DoesAbs
  <2>. HIDE DEF v
  <2>. QED  BY ONLY <1>3, <1>4, <2>2, <2>3, <2>4 DEF v
<1>5. CASE gs.prefixed
  <2>. DEFINE lr == gs.linkreg
              u == Perform(m, LdxMem(lr), q)
  <2>1. lr \in Slot /\ lr # NoReg
    BY <1>3, <1>5, Small DEF Slot, NoReg
  <2>2. m.mem[lr] = v
    BY <2>1 DEF Ready
  <2>3. Holding(u, m.a, v, m.mem)
    BY <1>2, <2>1, <2>2, DoesLoad
  <2>4. PerformAll(m, << LdxMem(lr) >>, q) = u /\ << LdxMem(lr) >> \in Seq(Stmt)
    BY <2>1, Statements1, PerformSingle
  <2>5. PerformAll(m, Append(<< LdxMem(lr) >>, LdInd(size, k)), q) = Perform(u, LdInd(size, k), q)
    <3>1. LdInd(size, k) \in Stmt
      BY Statements1
    <3>. HIDE DEF u, lr
    <3>. QED  BY ONLY <2>4, <3>1, PerformLast
  <2>. HIDE DEF u, v, lr
  <2>6. k + v + size <= q.len /\ k + v = v + k
    BY ONLY <1>1, Pre(e, q) + k + size <= q.len DEF v
  <2>7. Holding(Perform(u, LdInd(size, k), q), Fetch(q.at, k + v, size), v, m.mem)
    BY <2>3, <2>6, DoesInd
  <2>. QED  BY ONLY <1>3, <1>5, <2>5, <2>6, <2>7 DEF v, lr
<1>6. gs.prefixed \in BOOLEAN
  BY DEF CsType
<1>. QED  BY <1>4, <1>5, <1>6

LEMMA PreTyped ==
  ASSUME NEW e, NEW q, PacketType(q)
  PROVE  Pre(e, q) \in Word
<1>1. CASE e \notin Prefixed \/ ~HasPrefix(q)
  BY <1>1, Small DEF Pre
<1>2. CASE ~(e \notin Prefixed \/ ~HasPrefix(q))
  <2>1. q.len \in Nat /\ q.len >= 4
    BY <1>2, Sizes DEF HasPrefix, PacketType, Word
  <2>2. q.at[2] \in Byte /\ q.at[3] \in Byte
    BY <2>1 DEF PacketType
  <2>3. ByteBase \in Nat /\ ByteBase >= 2
    BY BpfAssumption
  <2>4. ByteBase * ByteBase \in Nat
    BY <2>3
  <2>. DEFINE x == q.at[2]
              y == q.at[3]
              b == ByteBase
  <2>. HIDE DEF x, y, b
  <2>5. x \in Nat /\ y \in Nat /\ x <= b - 1 /\ y <= b - 1 /\ b \in Nat /\ b >= 2
    BY <2>2, <2>3 DEF Byte, x, y, b
  <2>6. b * y <= b * (b - 1) /\ b * y \in Nat
    BY ONLY <2>5
  <2>7. b * (b - 1) = b * b - b /\ b * b \in Nat
    BY ONLY <2>5
  <2>8. x + b * y <= b * b - 1 /\ x + b * y \in Nat
    BY ONLY <2>5, <2>6, <2>7
  <2>9. b * b <= W
    <3>1. W = (b * b) * (b * b)
      BY <2>5 DEF W, b
    <3>. DEFINE r == b * b
    <3>2. r >= 1 /\ r \in Nat
      BY ONLY <2>5, <2>7
    <3>. HIDE DEF r
    <3>3. r * r >= r
      BY ONLY <3>2
    <3>. QED  BY ONLY <3>1, <3>3 DEF r
  <2>10. x + b * y \in Word
    BY ONLY <2>7, <2>8, <2>9, Sizes DEF Word
  <2>11. Pre(e, q) = x + b * y
    BY <1>2 DEF Pre, x, y, b
  <2>. QED  BY ONLY <2>10, <2>11
<1>. QED  BY <1>1, <1>2

LEMMA Jumps1 ==
  ASSUME NEW fn \in CondFn, NEW src \in {"k", "x"}, NEW k \in Word
  PROVE  Jmp(fn, src, k) \in Test1
<1>1. 0 \in Byte /\ 4 \in Nat
  BY Small
<1>2. Jmp(fn, src, k) \in InsnType
  BY <1>1 DEF Jmp, Op, InsnType, OpClass, OpFn
<1>3. ValidInsn(Jmp(fn, src, k))
  BY DEF Jmp, Op, ValidInsn, Known, UsesSlot, Divides, CondFn
<1>. QED  BY <1>2, <1>3 DEF Test1, Jmp, Op

(* A new block whose test is turned round.                                 *)
LEMMA ReversedMade ==
  ASSUME NEW gs \in CsType, NEW stmts \in Seq(Stmt), NEW br \in Test1, NEW e, NEW ref \in Refs,
         NEW reverse \in BOOLEAN,
         ~gs.failed => \A p \in Meanings : ref[p] # "reject" =>
           Says([stmts |-> stmts, br |-> br], gs.linkreg, Pre(e, Packets[p]), Packets[p],
                IF reverse THEN ref[p] = "no" ELSE ref[p] = "yes")
  PROVE  MadeFrom(e, gs, Len(gs.blocks), Reversed(NewBlock(gs, stmts, br), reverse), ref)
<1>. DEFINE m == NewBlock(gs, stmts, br)
            lo == Len(gs.blocks)
            ref1 == [p \in Meanings |-> IF reverse THEN Not3(ref[p]) ELSE ref[p]]
<1>0. lo \in Nat /\ br \in InsnType
  BY Sized DEF Test1
<1>1. ref1 \in Refs /\ \A p \in Meanings : ref1[p] = IF reverse THEN Not3(ref[p]) ELSE ref[p]
  <2>1. \A p \in Meanings : ref[p] \in {"yes", "no", "reject"}
    BY DEF Refs, Verdict3
  <2>. QED  BY <2>1 DEF Refs, Verdict3, Not3
<1>2. \A p \in Meanings : /\ ref1[p] # "reject" => ref[p] # "reject"
                          /\ ref1[p] = "yes" <=> IF reverse THEN ref[p] = "no" ELSE ref[p] = "yes"
  <2>1. \A p \in Meanings : ref[p] \in {"yes", "no", "reject"}
    BY DEF Refs, Verdict3
  <2>. QED  BY <2>1, <1>1 DEF Not3
<1>. HIDE DEF ref1
<1>3. MadeFrom(e, gs, lo, m, ref1)
  <2>1. ~gs.failed => \A p \in Meanings : ref1[p] # "reject" =>
           Says([stmts |-> stmts, br |-> br], gs.linkreg, Pre(e, Packets[p]), Packets[p], ref1[p] = "yes")
    BY <1>2
  <2>. QED  BY <1>1, <2>1, NewMade
<1>4. OnlyBlocks(gs, m.cs, {}) /\ m.blk = lo + 1 /\ Len(m.cs.blocks) = lo + 1
  BY <1>0, NewBlockShape
<1>. HIDE DEF m
<1>5. CASE ~reverse
  <2>1. Reversed(m, reverse) = m
    BY <1>5 DEF Reversed
  <2>2. ref1 = ref
    <3>1. \A p \in Meanings : ref1[p] = ref[p]
      BY <1>1, <1>5
    <3>. QED  BY <1>1, <3>1 DEF Refs
  <2>. QED  BY <1>3, <2>1, <2>2 DEF m, lo
<1>6. CASE reverse
  <2>1. Reversed(m, reverse) = GenNot(m.cs, m.blk)
    BY <1>6 DEF Reversed
  <2>2. m.cs \in CsType /\ lo <= Len(m.cs.blocks) /\ m.blk \in Span(m.cs, lo)
    BY <1>0, <1>4 DEF OnlyBlocks, Span
  <2>3. \A p \in Meanings : ref[p] = Not3(ref1[p])
    <3>1. \A p \in Meanings : ref[p] \in {"yes", "no", "reject"}
      BY DEF Refs, Verdict3
    <3>. QED  BY <1>1, <1>6, <3>1 DEF Not3
  <2>4. ~m.cs.failed => BlockIn(e, m.cs, lo, m.blk, ref1)
    BY <1>3 DEF MadeFrom
  <2>5. MadeFrom(e, m.cs, lo, GenNot(m.cs, m.blk), ref)
    BY <1>0, <1>1, <2>2, <2>3, <2>4, NotMade
  <2>6. Later(gs, m.cs, lo) /\ Held(gs, m.cs)
    BY <1>3 DEF MadeFrom
  <2>7. MadeFrom(e, gs, lo, GenNot(m.cs, m.blk), ref)
    BY <1>0, <2>5, <2>6, MadeLater
  <2>. QED  BY <2>1, <2>7 DEF m, lo
<1>. QED  BY <1>5, <1>6

(* The statements of a comparison leave the masked field in the            *)
(* accumulator.                                                            *)
LEMMA MaskedDoes ==
  ASSUME NEW gs \in CsType, NEW e, gs.prefixed <=> e \in Prefixed, NEW s, BehindPrefix(gs, s),
         NEW size \in {1, 2, 4}, NEW k \in Word, NEW mask \in Word, NEW q, PacketType(q),
         Pre(e, q) + k + size <= q.len, NEW m, Ready(m, gs.linkreg, Pre(e, q))
  PROVE  LET t == PerformAll(m, MaskedLoad(LoadFrom(s, size, k), mask), q)
         IN  ~t.halted /\ t.a = BitAnd(Fetch(q.at, Pre(e, q) + k, size), mask)
<1>. DEFINE load == LoadFrom(s, size, k)
            v == Pre(e, q)
            f == Fetch(q.at, v + k, size)
<1>1. load \in Seq(Stmt)
  BY LoadFromShape
<1>2. v \in Word
  BY PreTyped
<1>. HIDE DEF load, v
<1>3. PICK x : Holding(PerformAll(m, load, q), f, x, m.mem)
  BY <1>2, LoadFromDoes DEF load, v
<1>4. f \in Word
  <2>1. v + k \in Nat /\ v + k + size <= q.len /\ q.len \in Word /\ q.at \in Buffer(q.len)
    BY <1>2, Sizes DEF Word, PacketType, Buffer, v
  <2>. QED  BY <2>1, FetchTyped
<1>. HIDE DEF f
<1>5. CASE mask = AllOnes
  <2>1. MaskedLoad(load, mask) = load /\ BitAnd(f, mask) = f
    BY <1>4, <1>5, ParserAssumption DEF MaskedLoad
  <2>. QED  BY <1>3, <2>1 DEF Holding, load, v, f
<1>6. CASE mask # AllOnes
  <2>1. MaskedLoad(load, mask) = Append(load, Alu("and", "k", mask)) /\ Alu("and", "k", mask) \in Stmt
    BY <1>6, Statements1 DEF MaskedLoad
  <2>2. PerformAll(m, MaskedLoad(load, mask), q) = Perform(PerformAll(m, load, q), Alu("and", "k", mask), q)
    BY <1>1, <2>1, PerformLast
  <2>3. Holding(Perform(PerformAll(m, load, q), Alu("and", "k", mask), q), BitAnd(f, mask), x, m.mem)
    BY <1>3, DoesAlu
  <2>. QED  BY <2>2, <2>3 DEF Holding, load, v, f
<1>. QED  BY <1>5, <1>6

LEMMA MaskedShape ==
  ASSUME NEW load \in Seq(Stmt), NEW mask \in Word
  PROVE  MaskedLoad(load, mask) \in Seq(Stmt)
<1>1. Alu("and", "k", mask) \in Stmt
  BY Statements1
<1>. QED  BY <1>1 DEF MaskedLoad

(* gen_ncmp.                                                               *)
LEMMA NcmpRight ==
  ASSUME NEW gs \in CsType, NEW e, gs.prefixed <=> e \in Prefixed,
         NEW k \in Word, NEW size \in {1, 2, 4}, NEW mask \in Word, NEW fn \in CondFn,
         NEW reverse \in BOOLEAN, NEW v \in Word, NEW ref \in Refs,
         \A p \in Meanings : ref[p] # "reject" =>
           /\ Pre(e, Packets[p]) + k + size <= Packets[p].len
           /\ ref[p] = Truth(Holds(fn, BitAnd(Fetch(Packets[p].at, Pre(e, Packets[p]) + k, size), mask), v)
                               # reverse)
  PROVE  MadeFrom(e, gs, Len(gs.blocks), GenNcmp(gs, k, size, mask, fn, reverse, v), ref)
<1>. DEFINE part == VarPart(gs)
            stmts == MaskedLoad(LoadFrom(part.stmts, size, k), mask)
            br == Jmp(fn, "k", v)
            lo == Len(gs.blocks)
<1>1. /\ Later(gs, part.cs, lo) /\ Held(gs, part.cs) /\ part.cs.blocks = gs.blocks
      /\ BehindPrefix(part.cs, part.stmts)
  BY VarPartRight
<1>2. part.cs \in CsType /\ part.cs.prefixed = gs.prefixed
  BY <1>1 DEF Later
<1>. HIDE DEF part
<1>3. stmts \in Seq(Stmt) /\ br \in Test1
  BY <1>1, <1>2, LoadFromShape, MaskedShape, Jumps1
<1>4. br.fn = fn /\ br.src = "k" /\ br.k = v
  BY DEF Jmp, Op
<1>5. ASSUME NEW p \in Meanings, ref[p] # "reject"
      PROVE  Says([stmts |-> stmts, br |-> br], part.cs.linkreg, Pre(e, Packets[p]), Packets[p],
                  IF reverse THEN ref[p] = "no" ELSE ref[p] = "yes")
  <2>. DEFINE q == Packets[p]
              z == BitAnd(Fetch(q.at, Pre(e, q) + k, size), mask)
  <2>1. PacketType(q) /\ Pre(e, q) + k + size <= q.len /\ ref[p] = Truth(Holds(fn, z, v) # reverse)
    BY <1>5, Packet
  <2>. HIDE DEF q, stmts
  <2>2. ASSUME NEW m, Ready(m, part.cs.linkreg, Pre(e, q))
        PROVE  LET t == PerformAll(m, stmts, q)
               IN  ~t.halted /\ t.a = z
    BY <1>1, <1>2, <2>1, <2>2, MaskedDoes DEF stmts
  <2>. HIDE DEF br, z
  <2>3. (IF reverse THEN ref[p] = "no" ELSE ref[p] = "yes") <=> Holds(fn, z, v)
    <3>1. Holds(fn, z, v) \in BOOLEAN
      BY DEF Holds
    <3>. HIDE DEF q
    <3>2. CASE reverse = TRUE
      BY ONLY <2>1, <3>1, <3>2 DEF Truth
    <3>3. CASE reverse = FALSE
      BY ONLY <2>1, <3>1, <3>3 DEF Truth
    <3>. QED  BY ONLY <3>2, <3>3, reverse \in BOOLEAN
  <2>4. ASSUME NEW m, Ready(m, part.cs.linkreg, Pre(e, q))
        PROVE  LET t == PerformAll(m, stmts, q)
               IN  ~t.halted /\ (Holds(br.fn, t.a, Operand(t, br)) <=> Holds(fn, z, v))
    BY <1>4, <2>2, <2>4 DEF Operand
  <2>. QED  BY ONLY <2>3, <2>4 DEF Says, q
<1>. HIDE DEF stmts, br
<1>6. MadeFrom(e, part.cs, lo, Reversed(NewBlock(part.cs, stmts, br), reverse), ref)
  <2>1. MadeFrom(e, part.cs, Len(part.cs.blocks), Reversed(NewBlock(part.cs, stmts, br), reverse), ref)
    BY ONLY <1>2, <1>3, <1>5, ReversedMade, ref \in Refs, reverse \in BOOLEAN
  <2>. QED  BY ONLY <1>1, <2>1
<1>7. lo \in Nat
  BY Sized
<1>8. MadeFrom(e, gs, lo, Reversed(NewBlock(part.cs, stmts, br), reverse), ref)
  BY <1>1, <1>2, <1>6, <1>7, MadeLater
<1>. QED  BY <1>8 DEF GenNcmp, NcmpOf, part, stmts, br, lo

(* gen_true and gen_false.                                                 *)
LEMMA UncondRight ==
  ASSUME NEW gs \in CsType, NEW e, NEW truth \in BOOLEAN, NEW ref \in Refs,
         \A p \in Meanings : ref[p] = Truth(truth)
  PROVE  MadeFrom(e, gs, Len(gs.blocks), GenUncond(gs, truth), ref)
<1>. DEFINE stmts == << LdImm(IF truth THEN 0 ELSE 1) >>
            br == Jmp("jeq", "k", 0)
            made == NewBlock(gs, stmts, br)
            lo == Len(gs.blocks)
            tr == IF truth THEN "true" ELSE "false"
            x == [made.cs.blocks[made.blk] EXCEPT !.means = tr]
            new == [made.cs.blocks EXCEPT ![made.blk] = x]
            m == GenUncond(gs, truth)
<1>0. lo \in Nat /\ gs.blocks \in Seq(Block)
  BY Sized
<1>1. LdImm(IF truth THEN 0 ELSE 1) \in Stmt
  <2>1. (IF truth THEN 0 ELSE 1) \in Word
    BY Small
  <2>. QED  BY <2>1, Statements1
<1>2. stmts \in Seq(Stmt) /\ Stores(stmts) = {}
  <2>1. Stores(stmts) = StoresOf(LdImm(IF truth THEN 0 ELSE 1)) /\ stmts \in Seq(Stmt)
    BY <1>1, PerformSingle
  <2>. QED  BY <2>1, StoresOfAll
<1>3. br \in Test1 /\ br \in InsnType /\ br.fn = "jeq" /\ br.src = "k" /\ br.k = 0
  <2>1. br \in Test1
    BY Small, Jumps1 DEF CondFn
  <2>. QED  BY <2>1 DEF Test1, Jmp, Op
<1>4. \A q : PacketType(q) => \A y : Ready(y, gs.linkreg, Pre(e, q)) =>
         LET t == PerformAll(y, stmts, q)
         IN  ~t.halted /\ (Holds(br.fn, t.a, Operand(t, br)) <=> truth)
  <2>. SUFFICES ASSUME NEW q, PacketType(q), NEW y, Ready(y, gs.linkreg, Pre(e, q))
                PROVE  LET t == PerformAll(y, stmts, q)
                       IN  ~t.halted /\ (Holds(br.fn, t.a, Operand(t, br)) <=> truth)
    OBVIOUS
  <2>. DEFINE w == IF truth THEN 0 ELSE 1
              t == PerformAll(y, stmts, q)
  <2>1. w \in Word /\ Holding(y, y.a, y.x, y.mem)
    BY Small, ReadyHolds
  <2>2. Holding(Perform(y, LdImm(w), q), w, y.x, y.mem)
    BY <2>1, DoesLoad
  <2>3. t = Perform(y, LdImm(w), q)
    BY <1>1, PerformSingle
  <2>. HIDE DEF t, br
  <2>4. ~t.halted /\ t.a = w
    BY <2>2, <2>3 DEF Holding
  <2>5. Operand(t, br) = 0 /\ br.fn = "jeq"
    BY <1>3 DEF Operand
  <2>6. Holds("jeq", w, 0) <=> truth
    BY DEF Holds
  <2>. QED  BY <2>4, <2>5, <2>6 DEF t
<1>. HIDE DEF stmts, br
<1>5. /\ OnlyBlocks(gs, made.cs, {}) /\ made.blk = lo + 1 /\ Len(made.cs.blocks) = lo + 1
      /\ made.cs.blocks[made.blk] = [stmts |-> stmts, br |-> br, jt |-> Nil, jf |-> Nil, sense |-> FALSE,
                                     head |-> made.blk, means |-> Uncertain]
  BY <1>2, <1>3, NewBlockShape
<1>6. made.cs \in CsType /\ made.cs.blocks \in Seq(Block) /\ made.blk \in 1 .. Len(made.cs.blocks)
  BY <1>0, <1>5 DEF OnlyBlocks, CsType
<1>7. m = [made EXCEPT !.cs.blocks[made.blk].means = tr]
  BY DEF GenUncond, stmts, br
<1>8. m.cs = [made.cs EXCEPT !.blocks = new] /\ m.blk = made.blk
  <2>1. made = [cs |-> made.cs, blk |-> made.blk]
    BY DEF NewBlock
  <2>. HIDE DEF m, made
  <2>2. m = [cs |-> [made.cs EXCEPT !.blocks[made.blk].means = tr], blk |-> made.blk]
    BY ONLY <1>7, <2>1
  <2>3. [made.cs EXCEPT !.blocks[made.blk].means = tr]
          = [made.cs EXCEPT !.blocks = [made.cs.blocks EXCEPT ![made.blk].means = tr]]
    BY <1>6 DEF CsType
  <2>4. [made.cs.blocks EXCEPT ![made.blk].means = tr] = new
    <3>. DEFINE bs == made.cs.blocks
    <3>1. [bs EXCEPT ![made.blk].means = tr] = [bs EXCEPT ![made.blk] = [bs[made.blk] EXCEPT !.means = tr]]
      OBVIOUS
    <3>. QED  BY ONLY <3>1
  <2>. QED  BY ONLY <2>2, <2>3, <2>4
<1>9. /\ x \in Block /\ x.stmts = stmts /\ x.br = br /\ x.jt = Nil /\ x.jf = Nil /\ x.sense = FALSE
      /\ x.head = made.blk /\ x.means = tr
  <2>. DEFINE y == made.cs.blocks[made.blk]
  <2>1. y \in Block
    BY <1>6
  <2>2. /\ y.stmts = stmts /\ y.br = br /\ y.jt = Nil /\ y.jf = Nil /\ y.sense = FALSE
        /\ y.head = made.blk
    BY ONLY <1>5
  <2>. HIDE DEF y, made
  <2>3. [y EXCEPT !.means = tr] \in Block /\ [y EXCEPT !.means = tr].stmts = y.stmts
        /\ [y EXCEPT !.means = tr].br = y.br /\ [y EXCEPT !.means = tr].jt = y.jt
        /\ [y EXCEPT !.means = tr].jf = y.jf /\ [y EXCEPT !.means = tr].sense = y.sense
        /\ [y EXCEPT !.means = tr].head = y.head /\ [y EXCEPT !.means = tr].means = tr
    BY ONLY <2>1 DEF Block
  <2>. QED  BY ONLY <2>2, <2>3 DEF y
<1>. HIDE DEF m, x
<1>10. /\ new \in Seq(Block) /\ Len(new) = lo + 1 /\ new[made.blk] = x
       /\ \A c \in 1 .. lo : new[c] = gs.blocks[c]
  <2>. DEFINE bs == made.cs.blocks
              id == made.blk
  <2>1. bs \in Seq(Block) /\ id \in 1 .. Len(bs) /\ Len(bs) = lo + 1 /\ id = lo + 1
    BY <1>5, <1>6
  <2>2. \A c \in 1 .. lo : bs[c] = gs.blocks[c]
    BY <1>5 DEF OnlyBlocks
  <2>. HIDE DEF bs, id, lo
  <2>3. [bs EXCEPT ![id] = x] \in Seq(Block) /\ Len([bs EXCEPT ![id] = x]) = Len(bs)
        /\ [bs EXCEPT ![id] = x][id] = x /\ \A c \in 1 .. Len(bs) : c # id => [bs EXCEPT ![id] = x][c] = bs[c]
    BY <1>9, <2>1
  <2>4. \A c \in 1 .. lo : c # id /\ c \in 1 .. Len(bs)
    BY <1>0, <2>1 DEF lo
  <2>. QED  BY ONLY <2>1, <2>2, <2>3, <2>4 DEF bs, id, lo
<1>. HIDE DEF new, made
<1>11. OnlyBlocks(gs, m.cs, {}) /\ m.cs.blocks = new
  <2>1. m.cs = [made.cs EXCEPT !.blocks = new] /\ Len(new) >= Len(made.cs.blocks)
    BY <1>0, <1>5, <1>8, <1>10
  <2>2. \A c \in 1 .. Len(made.cs.blocks) : c \notin {made.blk} => new[c] = made.cs.blocks[c]
    <3>1. \A c \in 1 .. lo : new[c] = made.cs.blocks[c]
      BY <1>5, <1>10 DEF OnlyBlocks
    <3>. QED  BY ONLY <1>0, <1>5, <3>1
  <2>. DEFINE c0 == made.cs
              A0 == {made.blk}
  <2>3. c0 \in CsType /\ new \in Seq(Block) /\ m.cs = [c0 EXCEPT !.blocks = new] /\ Len(new) >= Len(c0.blocks)
        /\ \A c \in 1 .. Len(c0.blocks) : c \notin A0 => new[c] = c0.blocks[c]
    BY ONLY <1>6, <1>10, <2>1, <2>2
  <2>. HIDE DEF c0, A0, lo, tr
  <2>4. OnlyBlocks(c0, m.cs, A0) /\ m.cs.blocks = new
    BY <2>3, WithBlocks
  <2>. QED  BY ONLY <1>0, <1>5, <1>10, <2>4 DEF OnlyBlocks, lo, c0, A0
<1>12. Later(gs, m.cs, lo) /\ Held(gs, m.cs) /\ m.cs.linkreg = gs.linkreg
  <2>1. lo <= Len(gs.blocks)
    BY <1>0
  <2>. QED  BY <1>0, <1>11, <2>1, LaterBlocks
<1>13. BlockFor(e, new, gs.linkreg, made.blk, ref, {made.blk}, 1)
  <2>1. Fresh(new, made.blk)
    BY <1>0, <1>2, <1>3, <1>5, <1>9, <1>10 DEF Fresh
  <2>2. \A p \in Meanings : ref[p] # "reject" =>
          Says(new[made.blk], gs.linkreg, Pre(e, Packets[p]), Packets[p], ref[p] = "yes")
    <3>1. new[made.blk].stmts = stmts /\ new[made.blk].br = br
      BY <1>9, <1>10
    <3>2. \A p \in Meanings : (ref[p] = "yes") <=> truth
      BY DEF Truth
    <3>. QED  BY <1>4, <3>1, <3>2, Packet DEF Says
  <2>3. PartOf(e, new, gs.linkreg, made.blk, {made.blk}, 1, ref)
    BY <2>1, <2>2, FreshPart
  <2>4. new[made.blk].means = tr
    BY <1>9, <1>10
  <2>5. /\ tr = "true" => \A p \in Meanings : ref[p] = "yes"
        /\ tr = "false" => \A p \in Meanings : ref[p] = "no"
    BY DEF Truth
  <2>. QED  BY <2>3, <2>4, <2>5 DEF BlockFor, Refs
<1>14. Span(m.cs, lo) = {made.blk} /\ Count(m.cs, lo) = 1
  BY <1>0, <1>5, <1>10, <1>11 DEF Span, Count
<1>15. MadeFrom(e, gs, lo, m, ref)
  BY ONLY <1>8, <1>11, <1>12, <1>13, <1>14 DEF MadeFrom, BlockIn
<1>. QED  BY <1>15 DEF m, lo

(* What the reference says of a place that is there.                       *)
LEMMA FieldRead ==
  ASSUME NEW q, PacketType(q), NEW check, NEW k \in Nat, NEW size \in {1, 2, 4}
  PROVE  LET f == FieldOf(q, check, k, size)
         IN  /\ f.check = check /\ f.bad \in BOOLEAN
             /\ ~f.bad => k + size <= q.len /\ f.v = Fetch(q.at, k, size) /\ f.v \in Word
<1>. DEFINE f == FieldOf(q, check, k, size)
<1>1. q.len \in Word /\ q.len \in Nat /\ q.at \in Buffer(q.len) /\ size \in Nat
  BY Sizes DEF PacketType, Word, Buffer
<1>2. CASE k + size > q.len
  BY <1>2 DEF FieldOf, BadNumber
<1>3. CASE ~(k + size > q.len)
  <2>1. k + size <= q.len
    BY ONLY <1>1, <1>3
  <2>2. Fetch(q.at, k, size) \in Word
    BY <1>1, <2>1, FetchTyped
  <2>. QED  BY <1>3, <2>1, <2>2 DEF FieldOf
<1>. QED  BY <1>2, <1>3

LEMMA CmpReads ==
  ASSUME NEW t, t.off \in Word, t.size \in {1, 2, 4}, NEW q, PacketType(q)
  PROVE  /\ PrefixOf(q) = Pre(expr, q) /\ Pre(expr, q) + t.off \in Nat
  BY PreTyped, Sizes DEF PrefixOf, Pre, Word

LEMMA TruthIs == \A c : Truth(c) \in {"yes", "no"} /\ (Truth(c) = "yes" <=> c)
  BY DEF Truth

(* gen_mcmp and gen_ncmp against what the comparisons mean.                *)
LEMMA McmpRight ==
  ASSUME NEW gs \in CsType, gs.prefixed <=> expr \in Prefixed,
         NEW t, t.off \in Word, t.size \in {1, 2, 4}, t.v \in Word, t.mask \in Word,
         NEW ref, ref = [p \in Meanings |-> CmpMeaning(t, Packets[p])]
  PROVE  ref \in Refs /\
         MadeFrom(expr, gs, Len(gs.blocks), GenMcmp(gs, t.off, t.size, t.v, t.mask), ref)
<1>1. ref \in Refs /\ \A p \in Meanings : ref[p] = CmpMeaning(t, Packets[p])
  BY TruthIs DEF Refs, Verdict3, CmpMeaning
<1>2. CASE t.mask = 0
  <2>. DEFINE truth == t.v = 0
  <2>1. \A p \in Meanings : ref[p] = Truth(truth)
    BY <1>1, <1>2 DEF CmpMeaning
  <2>2. truth \in BOOLEAN
    OBVIOUS
  <2>. HIDE DEF truth
  <2>3. MadeFrom(expr, gs, Len(gs.blocks), GenUncond(gs, truth), ref)
    BY <1>1, <2>1, <2>2, UncondRight
  <2>. QED  BY <1>1, <1>2, <2>3 DEF GenMcmp, truth
<1>3. CASE t.mask # 0
  <2>1. ASSUME NEW p \in Meanings, ref[p] # "reject"
        PROVE  /\ Pre(expr, Packets[p]) + t.off + t.size <= Packets[p].len
               /\ ref[p] = Truth(Holds("jeq", BitAnd(Fetch(Packets[p].at, Pre(expr, Packets[p]) + t.off, t.size),
                                                     t.mask), t.v) # FALSE)
    <3>. DEFINE q == Packets[p]
                k == Pre(expr, q) + t.off
                f == FieldOf(q, "yes", k, t.size)
    <3>1. PacketType(q) /\ PrefixOf(q) = Pre(expr, q) /\ k \in Nat
      BY Packet, CmpReads
    <3>2. ref[p] = IF f.bad THEN "reject" ELSE Truth(BitAnd(f.v, t.mask) = t.v)
      BY <1>1, <1>3, <3>1 DEF CmpMeaning
    <3>. HIDE DEF q, k
    <3>3. ~f.bad => k + t.size <= q.len /\ f.v = Fetch(q.at, k, t.size)
      BY <3>1, FieldRead
    <3>. HIDE DEF f
    <3>4. ~f.bad /\ ref[p] = Truth(BitAnd(f.v, t.mask) = t.v)
      BY <2>1, <3>2
    <3>5. \A x : Holds("jeq", x, t.v) # FALSE <=> x = t.v
      BY DEF Holds
    <3>6. ref[p] = Truth(Holds("jeq", BitAnd(f.v, t.mask), t.v) # FALSE)
      BY ONLY <3>4, <3>5 DEF Truth
    <3>. QED  BY ONLY <3>3, <3>4, <3>6 DEF q, k
  <2>2. "jeq" \in CondFn /\ FALSE \in BOOLEAN
    BY DEF CondFn
  <2>. DEFINE k == t.off
              size == t.size
              mask == t.mask
              v == t.v
  <2>3. k \in Word /\ size \in {1, 2, 4} /\ mask \in Word /\ v \in Word /\ (gs.prefixed <=> expr \in Prefixed)
        /\ ref \in Refs /\ gs \in CsType
    BY <1>1
  <2>4. \A p \in Meanings : ref[p] # "reject" =>
           /\ Pre(expr, Packets[p]) + k + size <= Packets[p].len
           /\ ref[p] = Truth(Holds("jeq", BitAnd(Fetch(Packets[p].at, Pre(expr, Packets[p]) + k, size), mask), v)
                               # FALSE)
    BY <2>1
  <2>. HIDE DEF k, size, mask, v
  <2>5. MadeFrom(expr, gs, Len(gs.blocks), GenNcmp(gs, k, size, mask, "jeq", FALSE, v), ref)
    BY ONLY <2>2, <2>3, <2>4, NcmpRight
  <2>. QED  BY <1>1, <1>3, <2>5 DEF GenMcmp, k, size, mask, v
<1>. QED  BY <1>2, <1>3

LEMMA RangeRight ==
  ASSUME NEW gs \in CsType, gs.prefixed <=> expr \in Prefixed,
         NEW t, t.off \in Word, t.size \in {1, 2, 4}, t.v \in Word, t.fn \in CondFn, t.reversed \in BOOLEAN,
         NEW ref, ref = [p \in Meanings |-> RangeMeaning(t, Packets[p])]
  PROVE  ref \in Refs /\
         MadeFrom(expr, gs, Len(gs.blocks), GenNcmp(gs, t.off, t.size, AllOnes, t.fn, t.reversed, t.v), ref)
<1>1. ref \in Refs /\ \A p \in Meanings : ref[p] = RangeMeaning(t, Packets[p])
  BY TruthIs DEF Refs, Verdict3, RangeMeaning
<1>2. ASSUME NEW p \in Meanings, ref[p] # "reject"
      PROVE  /\ Pre(expr, Packets[p]) + t.off + t.size <= Packets[p].len
             /\ ref[p] = Truth(Holds(t.fn, BitAnd(Fetch(Packets[p].at, Pre(expr, Packets[p]) + t.off, t.size),
                                                  AllOnes), t.v) # t.reversed)
  <2>. DEFINE q == Packets[p]
              k == Pre(expr, q) + t.off
              f == FieldOf(q, "yes", k, t.size)
  <2>1. PacketType(q) /\ PrefixOf(q) = Pre(expr, q) /\ k \in Nat
    BY Packet, CmpReads
  <2>2. ref[p] = IF f.bad THEN "reject" ELSE Truth(Holds(t.fn, f.v, t.v) # t.reversed)
    BY <1>1, <2>1 DEF RangeMeaning
  <2>. HIDE DEF q, k
  <2>3. ~f.bad => k + t.size <= q.len /\ f.v = Fetch(q.at, k, t.size) /\ f.v \in Word
    BY <2>1, FieldRead
  <2>. HIDE DEF f
  <2>4. ~f.bad /\ ref[p] = Truth(Holds(t.fn, f.v, t.v) # t.reversed)
    BY <1>2, <2>2
  <2>5. BitAnd(f.v, AllOnes) = f.v
    BY <2>3, <2>4, ParserAssumption
  <2>. QED  BY ONLY <2>3, <2>4, <2>5 DEF q, k
<1>. DEFINE k == t.off
            size == t.size
            fn == t.fn
            rev == t.reversed
            v == t.v
<1>3. /\ k \in Word /\ size \in {1, 2, 4} /\ fn \in CondFn /\ rev \in BOOLEAN /\ v \in Word
      /\ (gs.prefixed <=> expr \in Prefixed) /\ ref \in Refs /\ gs \in CsType
  BY <1>1
<1>4. \A p \in Meanings : ref[p] # "reject" =>
         /\ Pre(expr, Packets[p]) + k + size <= Packets[p].len
         /\ ref[p] = Truth(Holds(fn, BitAnd(Fetch(Packets[p].at, Pre(expr, Packets[p]) + k, size), AllOnes), v)
                             # rev)
  BY <1>2
<1>. HIDE DEF k, size, fn, rev, v
<1>5. MadeFrom(expr, gs, Len(gs.blocks), GenNcmp(gs, k, size, AllOnes, fn, rev, v), ref)
  BY ONLY <1>3, <1>4, AllOnesWord, NcmpRight
<1>. QED  BY <1>1, <1>5 DEF k, size, fn, rev, v

-----------------------------------------------------------------------------
(***************************************************************************)
(* The checks before a protocol is read: on a link layer without a prefix  *)
(* no call of the generator fails.                                         *)
(***************************************************************************)
LEMMA NotFailing ==
  ASSUME NEW gs \in CsType
  PROVE  /\ \A stmts, br : NewBlock(gs, stmts, br).cs.failed = gs.failed
         /\ \A b : GenNot(gs, b).cs.failed = gs.failed
         /\ \A b0, b1 : GenAnd(gs, b0, b1).cs.failed = gs.failed
<1>1. \A x : [gs EXCEPT !.blocks = x].failed = gs.failed
  BY DEF CsType
<1>. QED  BY <1>1 DEF NewBlock, GenNot, GenAnd

LEMMA CmpAt ==
  ASSUME NEW gs \in CsType, ~gs.failed, NEW e, e \notin Prefixed, ~gs.prefixed,
         NEW k \in Word, NEW size \in {1, 2, 4}, NEW v \in Word,
         NEW ref, ref = [p \in Meanings |-> Equals(FieldOf(Packets[p], "yes", k, size), v)]
  PROVE  LET m == GenCmp(gs, k, size, v)
         IN  ref \in Refs /\ MadeFrom(e, gs, Len(gs.blocks), m, ref) /\ ~m.cs.failed
<1>. DEFINE m == GenCmp(gs, k, size, v)
<1>1. ref \in Refs /\ \A p \in Meanings : ref[p] = Equals(FieldOf(Packets[p], "yes", k, size), v)
  BY TruthIs DEF Refs, Verdict3, Equals
<1>2. ASSUME NEW p \in Meanings, ref[p] # "reject"
      PROVE  /\ Pre(e, Packets[p]) + k + size <= Packets[p].len
             /\ ref[p] = Truth(Holds("jeq", BitAnd(Fetch(Packets[p].at, Pre(e, Packets[p]) + k, size),
                                                   AllOnes), v) # FALSE)
  <2>. DEFINE q == Packets[p]
              f == FieldOf(q, "yes", k, size)
  <2>1. PacketType(q) /\ Pre(e, q) = 0 /\ k \in Nat /\ 0 + k = k
    BY Packet, Sizes DEF Pre, Word
  <2>. HIDE DEF q
  <2>3. ~f.bad => k + size <= q.len /\ f.v = Fetch(q.at, k, size) /\ f.v \in Word
    BY <2>1, FieldRead
  <2>2. ref[p] = IF f.bad THEN "reject" ELSE Truth(f.v = v)
    BY <1>1 DEF Equals, q
  <2>. HIDE DEF f
  <2>4. ~f.bad /\ ref[p] = Truth(f.v = v)
    BY <1>2, <2>2
  <2>5. BitAnd(f.v, AllOnes) = f.v
    BY <2>3, <2>4, ParserAssumption
  <2>6. Holds("jeq", f.v, v) # FALSE <=> f.v = v
    BY DEF Holds
  <2>7. ref[p] = Truth(Holds("jeq", f.v, v) # FALSE)
    BY ONLY <2>4, <2>6 DEF Truth
  <2>. QED  BY ONLY <2>1, <2>3, <2>4, <2>5, <2>7, ZenonT(30) DEF q
<1>3. "jeq" \in CondFn /\ FALSE \in BOOLEAN
  BY DEF CondFn
<1>4. MadeFrom(e, gs, Len(gs.blocks), GenNcmp(gs, k, size, AllOnes, "jeq", FALSE, v), ref)
  BY <1>1, <1>2, <1>3, AllOnesWord, NcmpRight, ZenonT(30)
<1>5. VarPart(gs).cs = gs
  BY DEF VarPart
<1>6. ~m.cs.failed
  BY <1>5, NotFailing DEF GenCmp, GenNcmp, NcmpOf, Reversed
<1>. QED  BY <1>1, <1>4, <1>6 DEF GenCmp

LEMMA AndRefs ==
  ASSUME NEW r0 \in Refs, NEW r1 \in Refs, NEW ref, ref = [p \in Meanings |-> And3(r0[p], r1[p])]
  PROVE  ref \in Refs /\ \A p \in Meanings : ref[p] = And3(r0[p], r1[p])
<1>1. \A p \in Meanings : r0[p] \in Verdict3 /\ r1[p] \in Verdict3
  BY DEF Refs
<1>2. \A p \in Meanings : And3(r0[p], r1[p]) \in Verdict3
  BY <1>1 DEF And3
<1>. QED  BY <1>2 DEF Refs

(* A block that was made is one of those it spans.                         *)
LEMMA MadeBlock ==
  ASSUME NEW e, NEW gs \in CsType, NEW lo \in Nat, NEW b, NEW ref, BlockIn(e, gs, lo, b, ref)
  PROVE  b \in Span(gs, lo) /\ b # Nil
<1>1. b \in Span(gs, lo)
  BY DEF BlockIn, BlockFor, PartOf, PartBy, Opened
<1>2. Len(gs.blocks) \in Nat
  BY Sized
<1>. QED  BY <1>1, <1>2 DEF Span, Nil

LEMMA AfterFails ==
  ASSUME NEW b, NEW y, y.cs \in CsType
  PROVE  After(b, y).cs.failed = y.cs.failed
  BY NotFailing DEF After

(* One check behind another.                                               *)
LEMMA AfterMade ==
  ASSUME NEW e, NEW gs \in CsType, NEW x, NEW r0 \in Refs, MadeFrom(e, gs, Len(gs.blocks), x, r0),
         ~x.cs.failed, NEW y, NEW r1 \in Refs, MadeFrom(e, x.cs, Len(x.cs.blocks), y, r1), ~y.cs.failed,
         NEW ref, \A p \in Meanings : ref[p] = And3(r0[p], r1[p])
  PROVE  MadeFrom(e, gs, Len(gs.blocks), After(x.blk, y), ref)
<1>. DEFINE lo == Len(gs.blocks)
            a == x.cs
            mid == Len(a.blocks)
            b == x.blk
            m == After(b, y)
            A0 == Span(a, lo)
            n0 == Count(a, lo)
<1>1. /\ Later(gs, a, lo) /\ Held(gs, a) /\ BlockIn(e, a, lo, b, r0) /\ a \in CsType /\ mid >= lo
  BY DEF MadeFrom, Later
<1>2. lo \in Nat /\ mid \in Nat
  BY <1>1, Sized
<1>. HIDE DEF a, lo, mid, b
<1>3. b # Nil
  BY <1>1, <1>2, MadeBlock
<1>4. m = GenAnd(y.cs, b, y.blk)
  BY <1>3 DEF After
<1>. HIDE DEF m
<1>5. /\ A0 \subseteq lo + 1 .. mid /\ n0 \in Nat /\ n0 <= mid - lo
      /\ BlockFor(e, a.blocks, a.linkreg, b, r0, A0, n0)
  <2>1. A0 = lo + 1 .. mid /\ n0 = mid - lo
    BY DEF Span, Count, mid
  <2>2. BlockFor(e, a.blocks, a.linkreg, b, r0, A0, n0)
    BY <1>1 DEF BlockIn
  <2>. HIDE DEF A0, n0
  <2>. QED  BY ONLY <1>1, <1>2, <2>1, <2>2
<1>. HIDE DEF A0, n0
<1>6. MadeFrom(e, a, mid, y, r1)
  BY DEF a, mid
<1>7. MadeFrom(e, a, lo, GenAnd(y.cs, b, y.blk), ref)
  <2>1. lo <= mid /\ mid <= Len(a.blocks)
    BY <1>1, <1>2 DEF mid
  <2>. QED  BY <1>1, <1>2, <1>5, <1>6, <2>1, AndMade
<1>8. MadeFrom(e, gs, lo, m, ref)
  BY <1>1, <1>2, <1>4, <1>7, MadeLater
<1>. QED  BY <1>8 DEF m, lo, b

LEMMA FragRight ==
  ASSUME NEW gs \in CsType, ~gs.failed, NEW e, e \notin Prefixed,
         NEW ref, ref = [p \in Meanings |-> IsWhole(Packets[p])]
  PROVE  LET m == GenIPFrag(gs)
         IN  ref \in Refs /\ MadeFrom(e, gs, Len(gs.blocks), m, ref) /\ ~m.cs.failed
<1>. DEFINE m == GenIPFrag(gs)
            k == OffLinkPl + OffNl + OffFrag
            stmts == << LdAbs(2, k) >>
            br == Jmp("jset", "k", FragMask)
<1>1. ref \in Refs /\ \A p \in Meanings : ref[p] = IsWhole(Packets[p])
  BY TruthIs DEF Refs, Verdict3, IsWhole
<1>2. k \in Word /\ FragMask \in Word
  BY ParserAssumption
<1>3. stmts \in Seq(Stmt) /\ br \in Test1 /\ br.fn = "jset" /\ br.src = "k" /\ br.k = FragMask
  <2>1. LdAbs(2, k) \in Stmt /\ "jset" \in CondFn
    BY <1>2, Statements1 DEF CondFn
  <2>2. stmts \in Seq(Stmt)
    BY <2>1, PerformSingle
  <2>3. br \in Test1
    BY <1>2, <2>1, Jumps1
  <2>. QED  BY <2>2, <2>3 DEF Jmp, Op
<1>. HIDE DEF br
<1>4. ASSUME NEW p \in Meanings, ref[p] # "reject"
      PROVE  Says([stmts |-> stmts, br |-> br], gs.linkreg, Pre(e, Packets[p]), Packets[p], ref[p] = "no")
  <2>. DEFINE q == Packets[p]
              f == FieldOf(q, "yes", k, 2)
  <2>1. PacketType(q) /\ k \in Nat
    BY <1>2, Packet, Sizes DEF Word
  <2>2. ref[p] = IF f.bad THEN "reject" ELSE Truth(f.v % (FragMask + 1) = 0)
    BY <1>1 DEF IsWhole
  <2>. HIDE DEF q
  <2>3. ~f.bad => k + 2 <= q.len /\ f.v = Fetch(q.at, k, 2) /\ f.v \in Word
    BY <2>1, FieldRead
  <2>. HIDE DEF f
  <2>4. ~f.bad /\ ref[p] = Truth(f.v % (FragMask + 1) = 0)
    BY <1>4, <2>2
  <2>5. ref[p] = "no" <=> Holds("jset", f.v, FragMask)
    <3>1. BitAnd(f.v, FragMask) = 0 <=> f.v % (FragMask + 1) = 0
      BY <2>3, <2>4, ParserAssumption
    <3>. QED  BY <2>4, <3>1 DEF Truth, Holds
  <2>6. ASSUME NEW y, Ready(y, gs.linkreg, Pre(e, q))
        PROVE  LET t == PerformAll(y, stmts, q)
               IN  ~t.halted /\ (Holds(br.fn, t.a, Operand(t, br)) <=> ref[p] = "no")
    <3>. DEFINE t == PerformAll(y, stmts, q)
    <3>1. t = Perform(y, LdAbs(2, k), q)
      BY <1>2, Statements1, PerformSingle
    <3>2. Holding(y, y.a, y.x, y.mem)
      BY <2>6, ReadyHolds
    <3>3. Holding(Perform(y, LdAbs(2, k), q), Fetch(q.at, k, 2), y.x, y.mem)
      BY <1>2, <2>1, <2>3, <2>4, <3>2, DoesAbs
    <3>. HIDE DEF t
    <3>4. ~t.halted /\ t.a = f.v
      BY <2>3, <2>4, <3>1, <3>3 DEF Holding
    <3>5. Operand(t, br) = FragMask
      BY <1>3 DEF Operand
    <3>. QED  BY <1>3, <2>5, <3>4, <3>5 DEF t
  <2>. HIDE DEF stmts
  <2>. QED  BY ONLY <2>6 DEF Says, q
<1>5. MadeFrom(e, gs, Len(gs.blocks), Reversed(NewBlock(gs, stmts, br), TRUE), ref)
  <2>1. ~gs.failed => \A p \in Meanings : ref[p] # "reject" =>
           Says([stmts |-> stmts, br |-> br], gs.linkreg, Pre(e, Packets[p]), Packets[p],
                IF TRUE THEN ref[p] = "no" ELSE ref[p] = "yes")
    BY ONLY <1>4
  <2>2. TRUE \in BOOLEAN
    OBVIOUS
  <2>. HIDE DEF stmts
  <2>. QED  BY <1>1, <1>3, <2>1, <2>2, ReversedMade
<1>6. m = Reversed(NewBlock(gs, stmts, br), TRUE)
  BY DEF GenIPFrag, br
<1>7. ~m.cs.failed
  <2>1. NewBlock(gs, stmts, br).cs \in CsType
    BY <1>3, NewBlockShape DEF OnlyBlocks, Test1
  <2>. QED  BY <1>6, <2>1, NotFailing DEF Reversed
<1>. QED  BY <1>1, <1>5, <1>6, <1>7

LEMMA UnprefixedLater ==
  ASSUME NEW gs, NEW e, NEW lo, NEW x, NEW ref, MadeFrom(e, gs, lo, x, ref), ~gs.prefixed
  PROVE  x.cs \in CsType /\ ~x.cs.prefixed
  BY DEF MadeFrom, Later

(* What was checked, on a link layer without a prefix.                     *)
Checked(e, gs, x, ref) ==
  ref \in Refs /\ MadeFrom(e, gs, Len(gs.blocks), x, ref) /\ ~x.cs.failed

LEMMA CheckedAfter ==
  ASSUME NEW e, NEW gs \in CsType, NEW x, NEW r0, Checked(e, gs, x, r0),
         NEW y, NEW r1, Checked(e, x.cs, y, r1),
         NEW ref, ref = [p \in Meanings |-> And3(r0[p], r1[p])]
  PROVE  Checked(e, gs, After(x.blk, y), ref)
<1>1. ref \in Refs /\ \A p \in Meanings : ref[p] = And3(r0[p], r1[p])
  BY AndRefs DEF Checked
<1>2. /\ r0 \in Refs /\ MadeFrom(e, gs, Len(gs.blocks), x, r0) /\ ~x.cs.failed
      /\ r1 \in Refs /\ MadeFrom(e, x.cs, Len(x.cs.blocks), y, r1) /\ ~y.cs.failed
  BY DEF Checked
<1>3. MadeFrom(e, gs, Len(gs.blocks), After(x.blk, y), ref)
  BY ONLY <1>1, <1>2, gs \in CsType, AfterMade
<1>4. ~After(x.blk, y).cs.failed
  <2>1. y.cs \in CsType
    BY <1>2 DEF MadeFrom, Later
  <2>. QED  BY <1>2, <2>1, AfterFails
<1>. QED  BY <1>1, <1>3, <1>4 DEF Checked

LEMMA CheckedCmp ==
  ASSUME NEW gs \in CsType, ~gs.failed, NEW e, e \notin Prefixed, ~gs.prefixed,
         NEW k \in Word, NEW size \in {1, 2, 4}, NEW v \in Word,
         NEW ref, ref = [p \in Meanings |-> Equals(FieldOf(Packets[p], "yes", k, size), v)]
  PROVE  Checked(e, gs, GenCmp(gs, k, size, v), ref)
  BY CmpAt DEF Checked

LEMMA CheckedFrag ==
  ASSUME NEW gs \in CsType, ~gs.failed, NEW e, e \notin Prefixed,
         NEW ref, ref = [p \in Meanings |-> IsWhole(Packets[p])]
  PROVE  Checked(e, gs, GenIPFrag(gs), ref)
  BY FragRight DEF Checked

LEMMA CheckRight ==
  ASSUME NEW gs \in CsType, ~gs.failed, NEW e, e \notin Prefixed, ~gs.prefixed,
         NEW proto \in {"ip", "tcp"}, NEW ref, ref = [p \in Meanings |-> ProtoMeaning(proto, Packets[p])]
  PROVE  Checked(e, gs, GenCheck(gs, proto), ref)
<1>. DEFINE ip == GenIPType(gs)
            rip == [p \in Meanings |-> IsIP(Packets[p])]
            rtcp == [p \in Meanings |-> IsTCP(Packets[p])]
            r2 == [p \in Meanings |-> And3(rip[p], rtcp[p])]
            rfrag == [p \in Meanings |-> IsWhole(Packets[p])]
<1>0. /\ {OffLinkType, EtherIP, OffLinkPl + OffNl + OffProto, ProtoTCP} \subseteq Word
      /\ 1 \in {1, 2, 4} /\ 2 \in {1, 2, 4}
  BY ParserAssumption
<1>1. Checked(e, gs, ip, rip)
  <2>1. rip = [p \in Meanings |-> Equals(FieldOf(Packets[p], "yes", OffLinkType, 2), EtherIP)]
    BY DEF IsIP
  <2>. HIDE DEF rip
  <2>. QED  BY <1>0, <2>1, CheckedCmp DEF GenIPType
<1>2. CASE proto = "ip"
  <2>1. ref = rip
    BY <1>2 DEF ProtoMeaning
  <2>2. GenCheck(gs, proto) = ip
    BY <1>2 DEF GenCheck
  <2>. HIDE DEF ip, rip
  <2>. QED  BY ONLY <1>1, <2>1, <2>2
<1>3. CASE proto = "tcp"
  <2>1. ref = [p \in Meanings |-> And3(r2[p], rfrag[p])]
    <3>1. \A p \in Meanings : ProtoMeaning(proto, Packets[p]) = And3(r2[p], rfrag[p])
      BY <1>3 DEF ProtoMeaning
    <3>. QED  BY <3>1
  <2>2. r2 = [p \in Meanings |-> And3(rip[p], rtcp[p])]
    OBVIOUS
  <2>3. rtcp = [p \in Meanings |->
                  Equals(FieldOf(Packets[p], "yes", OffLinkPl + OffNl + OffProto, 1), ProtoTCP)]
    BY DEF IsTCP
  <2>4. rfrag = [p \in Meanings |-> IsWhole(Packets[p])]
    OBVIOUS
  <2>. HIDE DEF ip, rip, rtcp, r2, rfrag
  <2>5. ip.cs \in CsType /\ ~ip.cs.prefixed /\ ~ip.cs.failed
    BY <1>1, UnprefixedLater DEF Checked
  <2>6. Checked(e, ip.cs, GenIPProto(ip.cs), rtcp)
    BY <1>0, <2>3, <2>5, CheckedCmp DEF GenIPProto
  <2>. DEFINE tcp == TcpAfter(ip)
  <2>7. Checked(e, gs, tcp, r2)
    BY <1>1, <2>2, <2>6, CheckedAfter DEF TcpAfter
  <2>. HIDE DEF tcp
  <2>8. tcp.cs \in CsType /\ ~tcp.cs.prefixed /\ ~tcp.cs.failed
    BY <2>7, UnprefixedLater DEF Checked
  <2>9. Checked(e, tcp.cs, GenIPFrag(tcp.cs), rfrag)
    BY <2>4, <2>8, CheckedFrag
  <2>10. Checked(e, gs, FragAfter(tcp), ref)
    BY <2>1, <2>7, <2>9, CheckedAfter DEF FragAfter
  <2>. QED  BY <1>3, <2>10 DEF GenCheck, tcp, ip
<1>. QED  BY <1>2, <1>3

-----------------------------------------------------------------------------
(***************************************************************************)
(* Arithmetic (gen_loadi, gen_loadlen, gen_neg, gen_arth, gen_load).       *)
(***************************************************************************)

(***************************************************************************)
(* A number on the parser's stack: statements that leave it in a register  *)
(* of a ready machine, and a block with the checks that it needs.          *)
(***************************************************************************)
NumberRef == [check : Verdict3, bad : BOOLEAN, v : Word]
NumberRefs == [Meanings -> NumberRef]
Checks(ref) == [p \in Meanings |-> ref[p].check]

ArthType == [s : Seq(Stmt), reg : Slot, b : Nat]
Arithmetic(a) ==
  /\ a \in ArthType
  /\ IsNumber(a) => \E k \in Word : a.s = << LdImm(k), St(a.reg) >>

Leaves(s, reg, lr, v, q, x) ==
  lr \notin Stores(s) =>
    \A m : Ready(m, lr, v) =>
      LET t == PerformAll(m, s, q)
      IN  ~t.halted /\ t.mem[reg] = x

LeavesAll(e, lr, a, ref) ==
  \A p \in Meanings :
    ~ref[p].bad => ref[p].check = "yes"
                   /\ Leaves(a.s, a.reg, lr, Pre(e, Packets[p]), Packets[p], ref[p].v)

ChecksFor(e, blocks, lr, b, ref, A, n) ==
  IF b = Nil THEN \A p \in Meanings : ref[p] = "yes"
  ELSE BlockFor(e, blocks, lr, b, ref, A, n)

NumberFor(e, blocks, lr, a, ref, A, n) ==
  /\ LeavesAll(e, lr, a, ref)
  /\ ChecksFor(e, blocks, lr, a.b, Checks(ref), A, n)

NumberIn(e, gs, lo, a, ref) ==
  NumberFor(e, gs.blocks, gs.linkreg, a, ref, Span(gs, lo), Count(gs, lo))

LEMMA ChecksTyped ==
  ASSUME NEW ref \in NumberRefs
  PROVE  Checks(ref) \in Refs /\ \A p \in Meanings : Checks(ref)[p] = ref[p].check
<1>1. \A p \in Meanings : ref[p].check \in Verdict3
  BY DEF NumberRefs, NumberRef
<1>. QED  BY <1>1 DEF Checks, Refs

LEMMA LeavesLater ==
  ASSUME NEW s \in Seq(Stmt), NEW reg, NEW lr, NEW lr2, Sooner(lr, lr2), NEW v, NEW q, NEW x,
         Leaves(s, reg, lr, v, q, x)
  PROVE  Leaves(s, reg, lr2, v, q, x)
<1>1. lr2 \notin Stores(s) => lr \notin Stores(s)
  BY StoresSlots DEF Sooner
<1>2. \A m : Ready(m, lr2, v) => Ready(m, lr, v)
  BY DEF Ready, Sooner
<1>. QED  BY <1>1, <1>2 DEF Leaves

LEMMA ChecksKept ==
  ASSUME NEW e, NEW old \in Seq(Block), NEW new \in Seq(Block), NEW lr, NEW lr2, Sooner(lr, lr2),
         NEW b, NEW A, NEW B, A \subseteq B, NEW n \in Nat, NEW m \in Nat, n <= m,
         NEW ref, ChecksFor(e, old, lr, b, ref, A, n),
         Len(new) >= Len(old), \A c \in A : c \in 1 .. Len(old) => new[c] = old[c]
  PROVE  ChecksFor(e, new, lr2, b, ref, B, m)
<1>1. CASE b = Nil
  BY <1>1 DEF ChecksFor
<1>2. CASE b # Nil
  <2>1. BlockFor(e, old, lr, b, ref, A, n)
    BY <1>2 DEF ChecksFor
  <2>2. \A p \in Meanings : ref[p] # "reject" => ref[p] = ref[p]
    OBVIOUS
  <2>3. BlockFor(e, new, lr2, b, ref, B, m)
    BY <2>1, <2>2, BlockKept
  <2>. QED  BY <1>2, <2>3 DEF ChecksFor
<1>. QED  BY <1>1, <1>2

LEMMA NumberKept ==
  ASSUME NEW e, NEW old \in Seq(Block), NEW new \in Seq(Block), NEW lr, NEW lr2, Sooner(lr, lr2),
         NEW a, a.s \in Seq(Stmt), NEW A, NEW B, A \subseteq B, NEW n \in Nat, NEW m \in Nat, n <= m,
         NEW ref, NumberFor(e, old, lr, a, ref, A, n),
         Len(new) >= Len(old), \A c \in A : c \in 1 .. Len(old) => new[c] = old[c]
  PROVE  NumberFor(e, new, lr2, a, ref, B, m)
<1>1. LeavesAll(e, lr2, a, ref)
  <2>1. LeavesAll(e, lr, a, ref)
    BY DEF NumberFor
  <2>2. \A v, q, x : Leaves(a.s, a.reg, lr, v, q, x) => Leaves(a.s, a.reg, lr2, v, q, x)
    BY LeavesLater
  <2>. QED  BY ONLY <2>1, <2>2 DEF LeavesAll
<1>2. ChecksFor(e, old, lr, a.b, Checks(ref), A, n)
  BY DEF NumberFor
<1>. DEFINE b == a.b
            r == Checks(ref)
<1>. HIDE DEF b, r
<1>3. ChecksFor(e, old, lr, b, r, A, n)
  BY <1>2 DEF b, r
<1>4. ChecksFor(e, new, lr2, b, r, B, m)
  BY <1>3, ChecksKept
<1>. QED  BY <1>1, <1>4 DEF NumberFor, b, r

(* What the generator made is a number, in a register that no other        *)
(* operand has; those of the operands that it took, gone, are free.        *)
NumberMade(e, gs, lo, m, ref, gone, stored) ==
  /\ Later(gs, m.cs, lo) /\ Arithmetic(m.arth) /\ ref \in NumberRefs
  /\ NumberIn(e, m.cs, lo, m.arth, ref)
  /\ m.arth.reg \notin Owners(gs) \ gone
  /\ Owners(m.cs) = (Owners(gs) \ gone) \cup {m.arth.reg}
  /\ Stores(m.arth.s) \subseteq stored \cup {m.arth.reg}

(* The result of a call is stored in the register that it was given.       *)
LEMMA StoredLeaves ==
  ASSUME NEW s \in Seq(Stmt), NEW reg \in Slot, NEW lr, NEW v, NEW q, PacketType(q), NEW x,
         \A m : Ready(m, lr, v) /\ lr \notin Stores(s) =>
           LET t == PerformAll(m, s, q)
           IN  t \in Machine /\ ~t.halted /\ t.a = x
  PROVE  Leaves(Append(s, St(reg)), reg, lr, v, q, x)
<1>1. St(reg) \in Stmt
  BY Statements1
<1>2. Stores(Append(s, St(reg))) = Stores(s) \cup StoresOf(St(reg))
  BY <1>1, StoresLast
<1>3. ASSUME NEW m, Ready(m, lr, v), lr \notin Stores(Append(s, St(reg)))
      PROVE  LET t == PerformAll(m, Append(s, St(reg)), q)
             IN  ~t.halted /\ t.mem[reg] = x
  <2>. DEFINE t == PerformAll(m, s, q)
              u == PerformAll(m, Append(s, St(reg)), q)
  <2>1. t \in Machine /\ ~t.halted /\ t.a = x
    BY <1>2, <1>3
  <2>2. u = Perform(t, St(reg), q)
    BY <1>1, PerformLast
  <2>. HIDE DEF t, u
  <2>3. Holding(t, x, t.x, t.mem) /\ t.mem \in [Slot -> Word]
    BY <2>1 DEF Holding, Machine
  <2>4. Holding(u, x, t.x, [t.mem EXCEPT ![reg] = x])
    BY <2>2, <2>3, DoesLoad
  <2>. QED  BY <2>3, <2>4 DEF Holding, u
<1>. QED  BY <1>3 DEF Leaves

(* alloc_reg for a result.                                                 *)
ResultOf(gs, lo, s, b, m) ==
  /\ Later(gs, m.cs, lo) /\ m.cs.blocks = gs.blocks /\ m.cs.linkreg = gs.linkreg
  /\ b \in Nat => m.arth \in ArthType
  /\ m.arth.reg \in Slot /\ m.arth.reg \notin Owners(gs)
  /\ Owners(m.cs) = Owners(gs) \cup {m.arth.reg}
  /\ m.arth.s = Append(s, St(m.arth.reg)) /\ m.arth.b = b /\ m.arth.s \in Seq(Stmt)
  /\ Stores(m.arth.s) = Stores(s) \cup {m.arth.reg}

LEMMA ResultRight ==
  ASSUME NEW gs \in CsType, LinkOwned(gs), NEW lo \in Nat, NEW s \in Seq(Stmt), NEW b,
         ~ResultIn(AllocReg(gs), s, b).cs.failed
  PROVE  ResultOf(gs, lo, s, b, ResultIn(AllocReg(gs), s, b))
<1>. DEFINE m == ResultIn(AllocReg(gs), s, b)
<1>. DEFINE got == AllocReg(gs)
<1>1. /\ got.cs \in CsType /\ got.reg \in Slot /\ Later(gs, got.cs, lo)
      /\ got.cs.blocks = gs.blocks /\ got.cs.linkreg = gs.linkreg
      /\ ~got.cs.failed => /\ got.reg \notin gs.used
                           /\ got.cs.used = gs.used \cup {got.reg}
  BY AllocRight
<1>. HIDE DEF got
<1>2. m.cs = got.cs /\ m.arth.s = Append(s, St(got.reg)) /\ m.arth.reg = got.reg /\ m.arth.b = b
  BY DEF ResultIn, Arth, got
<1>3. got.reg \notin gs.used /\ got.cs.used = gs.used \cup {got.reg}
  BY <1>1, <1>2
<1>4. got.reg # gs.linkreg
  <2>1. CASE gs.linkreg = NoReg
    BY <1>1, <2>1, Small DEF NoReg, Slot
  <2>2. CASE gs.linkreg # NoReg
    BY <1>3, <2>2 DEF LinkOwned
  <2>. QED  BY <2>1, <2>2
<1>5. Owners(got.cs) = Owners(gs) \cup {got.reg} /\ got.reg \notin Owners(gs)
  BY <1>1, <1>3, <1>4 DEF Owners
<1>6. Append(s, St(got.reg)) \in Seq(Stmt) /\ Stores(Append(s, St(got.reg))) = Stores(s) \cup {got.reg}
  BY <1>1, Statements1, StoresLast, StoresOfAll
<1>7. b \in Nat => m.arth \in ArthType
  <2>1. m.arth = [s |-> Append(s, St(got.reg)), reg |-> got.reg, b |-> b]
    BY DEF ResultIn, Arth, got, m
  <2>. HIDE DEF m
  <2>. QED  BY ONLY <1>1, <1>6, <2>1 DEF ArthType
<1>. QED  BY <1>1, <1>2, <1>5, <1>6, <1>7 DEF ResultOf

LEMMA AppendOne ==
  ASSUME NEW i \in Stmt, NEW j \in Stmt
  PROVE  Append(<< i >>, j) = << i, j >>
<1>. DEFINE s == << i >>
<1>1. s \in Seq(Stmt) /\ << i, j >> = Append(s, j)
  OBVIOUS
<1>. QED  BY <1>1

(* gen_loadi and gen_loadlen.                                              *)
LEMMA Load1Right ==
  ASSUME NEW gs \in CsType, LinkOwned(gs), NEW lo \in Nat, NEW e, NEW i \in Stmt, StoresOf(i) = {},
         i.class = "ld" /\ i.fn = "imm" => \E k \in Word : i = LdImm(k),
         NEW x \in [Meanings -> Word],
         \A p \in Meanings : \A m, v : Ready(m, gs.linkreg, v) =>
           Holding(Perform(m, i, Packets[p]), x[p], m.x, m.mem),
         NEW ref, ref = [p \in Meanings |-> Number(x[p])], ~GenLoad1(gs, i).cs.failed
  PROVE  NumberMade(e, gs, lo, GenLoad1(gs, i), ref, {}, {})
<1>. DEFINE m == GenLoad1(gs, i)
            s == << i >>
            a == m.arth
<1>1. s \in Seq(Stmt) /\ Stores(s) = {} /\ Len(s) = 1 /\ s[1] = i
  <2>1. Len(s) = 1 /\ s[1] = i
    OBVIOUS
  <2>. HIDE DEF s
  <2>. QED  BY <2>1, PerformSingle DEF s
<1>2. m = ResultIn(AllocReg(gs), s, Nil)
  BY DEF GenLoad1
<1>. HIDE DEF m
<1>3. ~m.cs.failed
  BY DEF m
<1>4. /\ Later(gs, m.cs, lo) /\ m.cs.blocks = gs.blocks /\ m.cs.linkreg = gs.linkreg
      /\ Nil \in Nat => a \in ArthType
      /\ a.reg \in Slot /\ a.reg \notin Owners(gs)
      /\ Owners(m.cs) = Owners(gs) \cup {a.reg}
      /\ a.s = Append(s, St(a.reg)) /\ a.b = Nil /\ a.s \in Seq(Stmt)
      /\ Stores(a.s) = Stores(s) \cup {a.reg}
  <2>. HIDE DEF s
  <2>1. ResultOf(gs, lo, s, Nil, m)
    BY <1>1, <1>2, <1>3, ResultRight
  <2>. QED  BY ONLY <2>1 DEF ResultOf
<1>5. \A p \in Meanings : ref[p].check = "yes" /\ ref[p].bad = FALSE /\ ref[p].v = x[p] /\ ref[p] \in NumberRef
  <2>1. \A p \in Meanings : ref[p] = Number(x[p]) /\ x[p] \in Word
    OBVIOUS
  <2>. QED  BY <2>1 DEF Number, NumberRef, Verdict3
<1>6. ref \in NumberRefs
  BY <1>5 DEF NumberRefs
<1>7. Arithmetic(a)
  <2>1. ASSUME IsNumber(a) PROVE \E k \in Word : a.s = << LdImm(k), St(a.reg) >>
    <3>1. a.s = << i, St(a.reg) >>
      <4>1. St(a.reg) \in Stmt /\ a.s = Append(<< i >>, St(a.reg))
        BY <1>4, Statements1
      <4>. HIDE DEF a
      <4>. QED  BY <4>1, AppendOne
    <3>2. i.class = "ld" /\ i.fn = "imm"
      BY <2>1, <3>1 DEF IsNumber
    <3>. QED  BY <3>1, <3>2
  <2>2. a \in ArthType
    BY <1>4 DEF Nil
  <2>. HIDE DEF a
  <2>. QED  BY <2>1, <2>2 DEF Arithmetic
<1>8. ASSUME NEW p \in Meanings
      PROVE  Leaves(a.s, a.reg, gs.linkreg, Pre(e, Packets[p]), Packets[p], x[p])
  <2>. DEFINE q == Packets[p]
              v == Pre(e, q)
              lr == gs.linkreg
  <2>1. PacketType(q)
    BY Packet
  <2>2. ASSUME NEW y, Ready(y, lr, v)
        PROVE  LET t == PerformAll(y, s, q)
               IN  t \in Machine /\ ~t.halted /\ t.a = x[p]
    <3>1. Holding(Perform(y, i, q), x[p], y.x, y.mem)
      BY <2>2
    <3>2. PerformAll(y, s, q) = Perform(y, i, q)
      BY PerformSingle
    <3>. QED  BY <3>1, <3>2 DEF Holding
  <2>. HIDE DEF q, v, lr, s, a
  <2>3. Leaves(Append(s, St(a.reg)), a.reg, lr, v, q, x[p])
    BY <1>1, <1>4, <2>1, <2>2, StoredLeaves
  <2>. QED  BY <1>4, <2>3 DEF q, v, lr
<1>. HIDE DEF a, s
<1>9. LeavesAll(e, m.cs.linkreg, a, ref)
  BY <1>4, <1>5, <1>8 DEF LeavesAll
<1>10. ChecksFor(e, m.cs.blocks, m.cs.linkreg, a.b, Checks(ref), Span(m.cs, lo), Count(m.cs, lo))
  BY <1>4, <1>5, <1>6, ChecksTyped DEF ChecksFor
<1>11. NumberIn(e, m.cs, lo, a, ref)
  BY <1>9, <1>10 DEF NumberIn, NumberFor
<1>12. NumberMade(e, gs, lo, m, ref, {}, {})
  BY <1>1, <1>4, <1>6, <1>7, <1>11 DEF NumberMade, a
<1>. QED  BY <1>12 DEF m

(* A list of statements, and three more.                                   *)
LEMMA ThreeMore ==
  ASSUME NEW s \in Seq(Stmt), NEW i \in Stmt, NEW j \in Stmt, NEW k \in Stmt
  PROVE  /\ s \o << i, j, k >> = Append(Append(Append(s, i), j), k)
         /\ s \o << i, j >> = Append(Append(s, i), j)
         /\ s \o << i >> = Append(s, i)
  OBVIOUS

(* The number of "-".                                                      *)
LEMMA NegTyped ==
  ASSUME NEW x \in Word
  PROVE  (0 - x) % W \in Word
<1>1. 0 - x \in Int /\ W \in Nat \ {0}
  BY Sizes DEF Word
<1>. QED  BY ONLY <1>1, Residue DEF Word

NegRef(ref) == [p \in Meanings |-> [ref[p] EXCEPT !.v = (0 - @) % W]]

LEMMA NegRefTyped ==
  ASSUME NEW ref \in NumberRefs
  PROVE  /\ NegRef(ref) \in NumberRefs
         /\ \A p \in Meanings : /\ NegRef(ref)[p].check = ref[p].check /\ NegRef(ref)[p].bad = ref[p].bad
                                /\ NegRef(ref)[p].v = (0 - ref[p].v) % W
<1>1. ASSUME NEW x \in NumberRef
      PROVE  LET y == [x EXCEPT !.v = (0 - @) % W]
             IN  y \in NumberRef /\ y.check = x.check /\ y.bad = x.bad /\ y.v = (0 - x.v) % W
  <2>1. (0 - x.v) % W \in Word
    BY NegTyped DEF NumberRef
  <2>. QED  BY <2>1 DEF NumberRef
<1>2. \A p \in Meanings : ref[p] \in NumberRef
  BY DEF NumberRefs
<1>. QED  BY <1>1, <1>2 DEF NegRef, NumberRefs

LEMMA TwoStmts ==
  ASSUME NEW k \in Word, NEW reg \in Slot
  PROVE  LET s == << LdImm(k), St(reg) >>
         IN  /\ s \in Seq(Stmt) /\ Stores(s) = {reg}
             /\ \A y, q : PerformAll(y, s, q) = Perform(Perform(y, LdImm(k), q), St(reg), q)
<1>. DEFINE i == LdImm(k)
            j == St(reg)
            s1 == << i >>
<1>1. i \in Stmt /\ j \in Stmt
  BY Statements1
<1>2. StoresOf(i) = {} /\ StoresOf(j) = {reg}
  BY StoresOfAll
<1>. HIDE DEF i, j
<1>3. s1 \in Seq(Stmt) /\ << i, j >> = Append(s1, j)
  BY <1>1
<1>4. Stores(s1) = {} /\ \A y, q : PerformAll(y, s1, q) = Perform(y, i, q)
  BY <1>1, <1>2, PerformSingle
<1>. HIDE DEF s1
<1>5. /\ Append(s1, j) \in Seq(Stmt) /\ Stores(Append(s1, j)) = {reg}
      /\ \A y, q : PerformAll(y, Append(s1, j), q) = Perform(PerformAll(y, s1, q), j, q)
  BY <1>1, <1>2, <1>3, <1>4, StoresLast, PerformLast
<1>. QED  BY <1>3, <1>4, <1>5 DEF i, j

LEMMA ImmLeaves ==
  ASSUME NEW k \in Word, NEW reg \in Slot, NEW lr, NEW v, NEW q, PacketType(q), NEW m, Ready(m, lr, v)
  PROVE  LET t == PerformAll(m, << LdImm(k), St(reg) >>, q)
         IN  ~t.halted /\ t.mem[reg] = k
<1>. DEFINE t == PerformAll(m, << LdImm(k), St(reg) >>, q)
            u == Perform(m, LdImm(k), q)
<1>1. Holding(m, m.a, m.x, m.mem) /\ m.mem \in [Slot -> Word]
  BY ReadyHolds
<1>2. Holding(u, k, m.x, m.mem)
  BY <1>1, DoesLoad
<1>3. t = Perform(u, St(reg), q)
  BY TwoStmts
<1>. HIDE DEF t, u
<1>4. Holding(t, k, m.x, [m.mem EXCEPT ![reg] = k])
  BY <1>2, <1>3, DoesLoad
<1>. QED  BY <1>1, <1>4 DEF Holding, t

LEMMA ArthFields ==
  ASSUME NEW a, Arithmetic(a)
  PROVE  a.s \in Seq(Stmt) /\ a.reg \in Slot /\ a.b \in Nat
  BY DEF Arithmetic, ArthType

(* gen_neg of a number.                                                    *)
LEMMA NegNumber ==
  ASSUME NEW gs, NEW a, Arithmetic(a), IsNumber(a)
  PROVE  \E k \in Word :
           /\ a.s = << LdImm(k), St(a.reg) >>
           /\ GenNeg(gs, a).arth = [a EXCEPT !.s = << LdImm((0 - k) % W), St(a.reg) >>]
<1>1. PICK k \in Word : a.s = << LdImm(k), St(a.reg) >>
  BY DEF Arithmetic
<1>. DEFINE j == (0 - k) % W
            s == a.s
            r == a.reg
<1>2. GenNeg(gs, a).arth = [a EXCEPT !.s[1].k = (0 - @) % W]
  BY DEF GenNeg
<1>3. [a EXCEPT !.s[1].k = (0 - @) % W] = [a EXCEPT !.s = [s EXCEPT ![1] = [s[1] EXCEPT !.k = (0 - s[1].k) % W]]]
  OBVIOUS
<1>4. s[1] = LdImm(k) /\ LdImm(k).k = k /\ [LdImm(k) EXCEPT !.k = j] = LdImm(j)
  BY <1>1 DEF LdImm, Op
<1>. HIDE DEF j
<1>5. \A x : [<< LdImm(k), St(r) >> EXCEPT ![1] = x] = << x, St(r) >>
  OBVIOUS
<1>6. [s EXCEPT ![1] = LdImm(j)] = << LdImm(j), St(r) >>
  BY <1>1, <1>5
<1>7. [s EXCEPT ![1] = [s[1] EXCEPT !.k = (0 - s[1].k) % W]] = << LdImm(j), St(r) >>
  BY ONLY <1>4, <1>6 DEF j
<1>. QED  BY <1>1, <1>2, <1>3, <1>7 DEF j

LEMMA NegOther ==
  ASSUME NEW gs, NEW a, Arithmetic(a), ~IsNumber(a)
  PROVE  LET s == Append(Append(Append(a.s, LdMem(a.reg)), Alu("neg", "k", 0)), St(a.reg))
         IN  /\ GenNeg(gs, a).arth = [a EXCEPT !.s = s] /\ s \in Seq(Stmt)
             /\ Stores(s) = Stores(a.s) \cup {a.reg} /\ Len(s) # 2
<1>. DEFINE i == LdMem(a.reg)
            j == Alu("neg", "k", 0)
            k == St(a.reg)
            s == Append(Append(Append(a.s, i), j), k)
<1>1. a.s \in Seq(Stmt) /\ a.reg \in Slot
  BY ArthFields
<1>2. i \in Stmt /\ j \in Stmt /\ k \in Stmt
  BY <1>1, Statements1
<1>3. StoresOf(i) = {} /\ StoresOf(j) = {} /\ StoresOf(k) = {a.reg}
  BY StoresOfAll
<1>4. GenNeg(gs, a).arth = [a EXCEPT !.s = a.s \o << i, j, k >>]
  BY DEF GenNeg
<1>. HIDE DEF i, j, k
<1>5. a.s \o << i, j, k >> = s
  <2>. DEFINE s0 == a.s
  <2>1. s0 \in Seq(Stmt)
    BY <1>1
  <2>. HIDE DEF s0
  <2>2. s0 \o << i, j, k >> = Append(Append(Append(s0, i), j), k)
    BY ONLY <1>2, <2>1
  <2>. QED  BY ONLY <2>2 DEF s0, s
<1>6. Append(a.s, i) \in Seq(Stmt) /\ Stores(Append(a.s, i)) = Stores(a.s) \cup {}
  BY <1>1, <1>2, <1>3, StoresLast
<1>7. /\ Append(Append(a.s, i), j) \in Seq(Stmt)
      /\ Stores(Append(Append(a.s, i), j)) = Stores(a.s) \cup {}
  BY <1>2, <1>3, <1>6, StoresLast
<1>8. s \in Seq(Stmt) /\ Stores(s) = Stores(a.s) \cup {a.reg}
  BY <1>2, <1>3, <1>7, StoresLast
<1>9. Len(s) # 2
  <2>1. Len(a.s) \in Nat /\ Len(Append(a.s, i)) = Len(a.s) + 1
        /\ Len(Append(Append(a.s, i), j)) = Len(Append(a.s, i)) + 1
        /\ Len(s) = Len(Append(Append(a.s, i), j)) + 1
    BY <1>1, <1>2, <1>6, <1>7
  <2>. QED  BY ONLY <2>1
<1>. QED  BY <1>4, <1>5, <1>8, <1>9 DEF i, j, k

LEMMA NegLeaves ==
  ASSUME NEW gs, NEW a, Arithmetic(a), NEW n, n = GenNeg(gs, a).arth
  PROVE  /\ Arithmetic(n) /\ n.reg = a.reg /\ n.b = a.b /\ Stores(n.s) = Stores(a.s) \cup {a.reg}
         /\ \A lr \in Slot \cup {NoReg} : \A v, q : \A x \in Word :
              PacketType(q) /\ Leaves(a.s, a.reg, lr, v, q, x) => Leaves(n.s, n.reg, lr, v, q, (0 - x) % W)
<1>0. a \in ArthType /\ a.s \in Seq(Stmt) /\ a.reg \in Slot
  BY ArthFields DEF Arithmetic
<1>1. CASE IsNumber(a)
  <2>1. PICK k \in Word : /\ a.s = << LdImm(k), St(a.reg) >>
                          /\ n = [a EXCEPT !.s = << LdImm((0 - k) % W), St(a.reg) >>]
    <3>1. \E k \in Word :
           /\ a.s = << LdImm(k), St(a.reg) >>
           /\ GenNeg(gs, a).arth = [a EXCEPT !.s = << LdImm((0 - k) % W), St(a.reg) >>]
      BY ONLY <1>1, Arithmetic(a), NegNumber
    <3>. QED  BY ONLY <3>1, n = GenNeg(gs, a).arth
  <2>. DEFINE j == (0 - k) % W
              s == << LdImm(j), St(a.reg) >>
  <2>2. j \in Word
    BY NegTyped
  <2>. HIDE DEF j
  <2>3. s \in Seq(Stmt) /\ Stores(s) = {a.reg}
    BY <1>0, <2>2, TwoStmts
  <2>4. Stores(a.s) = {a.reg}
    BY <1>0, <2>1, TwoStmts
  <2>5. n = [a EXCEPT !.s = s]
    BY <2>1 DEF j
  <2>. HIDE DEF s
  <2>6. n \in ArthType /\ n.s = s /\ n.reg = a.reg /\ n.b = a.b
    BY ONLY <1>0, <2>3, <2>5 DEF ArthType
  <2>7. Arithmetic(n)
    BY <2>2, <2>6 DEF Arithmetic, s
  <2>8. ASSUME NEW lr \in Slot \cup {NoReg}, NEW v, NEW q, NEW x \in Word, PacketType(q),
               Leaves(a.s, a.reg, lr, v, q, x)
        PROVE  Leaves(n.s, n.reg, lr, v, q, (0 - x) % W)
    <3>1. ASSUME NEW m, Ready(m, lr, v), lr \notin Stores(s)
          PROVE  LET t == PerformAll(m, s, q)
                 IN  ~t.halted /\ t.mem[a.reg] = (0 - x) % W
      <4>1. PerformAll(m, a.s, q).mem[a.reg] = x
        BY <2>3, <2>4, <2>8, <3>1 DEF Leaves
      <4>2. PerformAll(m, a.s, q).mem[a.reg] = k
        BY <1>0, <2>1, <2>8, <3>1, ImmLeaves
      <4>3. LET t == PerformAll(m, s, q)
            IN  ~t.halted /\ t.mem[a.reg] = j
        BY <1>0, <2>2, <2>8, <3>1, ImmLeaves DEF s
      <4>. QED  BY ONLY <4>1, <4>2, <4>3 DEF j
    <3>. QED  BY ONLY <2>6, <3>1 DEF Leaves
  <2>. QED  BY ONLY <2>3, <2>4, <2>6, <2>7, <2>8
<1>2. CASE ~IsNumber(a)
  <2>. DEFINE i == LdMem(a.reg)
              j == Alu("neg", "k", 0)
              s1 == Append(a.s, i)
              s2 == Append(s1, j)
              s == Append(s2, St(a.reg))
  <2>1. n = [a EXCEPT !.s = s] /\ s \in Seq(Stmt) /\ Stores(s) = Stores(a.s) \cup {a.reg} /\ Len(s) # 2
    BY <1>2, NegOther
  <2>2. i \in Stmt /\ j \in Stmt /\ StoresOf(i) = {} /\ StoresOf(j) = {}
    BY <1>0, Statements1, StoresOfAll
  <2>. HIDE DEF i, j
  <2>3. s1 \in Seq(Stmt) /\ Stores(s1) = Stores(a.s) \cup {}
    BY <1>0, <2>2, StoresLast
  <2>. HIDE DEF s1
  <2>4. s2 \in Seq(Stmt) /\ Stores(s2) = Stores(a.s) \cup {}
    BY <2>2, <2>3, StoresLast
  <2>. HIDE DEF s2, s
  <2>6. n \in ArthType /\ n.s = s /\ n.reg = a.reg /\ n.b = a.b
    BY ONLY <1>0, <2>1 DEF ArthType
  <2>7. Arithmetic(n)
    BY <2>1, <2>6 DEF Arithmetic, IsNumber
  <2>8. ASSUME NEW lr \in Slot \cup {NoReg}, NEW v, NEW q, NEW x \in Word, PacketType(q),
               Leaves(a.s, a.reg, lr, v, q, x)
        PROVE  Leaves(n.s, n.reg, lr, v, q, (0 - x) % W)
    <3>1. ASSUME NEW m, Ready(m, lr, v), lr \notin Stores(s2)
          PROVE  LET t == PerformAll(m, s2, q)
                 IN  t \in Machine /\ ~t.halted /\ t.a = (0 - x) % W
      <4>. DEFINE t0 == PerformAll(m, a.s, q)
                  t1 == Perform(t0, i, q)
                  t2 == Perform(t1, j, q)
      <4>1. lr \notin Stores(a.s)
        BY <2>4, <3>1
      <4>2. ~t0.halted /\ t0.mem[a.reg] = x
        BY <2>8, <3>1, <4>1 DEF Leaves
      <4>3. t0 \in Machine
        BY <1>0, <2>8, <3>1, Untouched DEF Ready
      <4>4. PerformAll(m, s2, q) = t2
        <5>1. PerformAll(m, s1, q) = t1
          BY <1>0, <2>2, PerformLast DEF s1
        <5>2. PerformAll(m, s2, q) = Perform(PerformAll(m, s1, q), j, q)
          BY <2>2, <2>3, PerformLast DEF s2
        <5>. QED  BY ONLY <5>1, <5>2
      <4>. HIDE DEF t0
      <4>5. Holding(t0, t0.a, t0.x, t0.mem)
        BY <4>2, <4>3 DEF Holding
      <4>6. Holding(t1, x, t0.x, t0.mem)
        BY <1>0, <2>8, <4>2, <4>5, DoesLoad DEF i
      <4>. HIDE DEF t1
      <4>7. Holding(t2, (0 - x) % W, t0.x, t0.mem)
        BY <2>8, <4>6, DoesLoad DEF j
      <4>. HIDE DEF t2
      <4>. QED  BY ONLY <4>4, <4>7 DEF Holding
    <3>2. Leaves(Append(s2, St(a.reg)), a.reg, lr, v, q, (0 - x) % W)
      <4>. DEFINE y == (0 - x) % W
      <4>. HIDE DEF y
      <4>1. \A m : Ready(m, lr, v) /\ lr \notin Stores(s2) =>
              LET t == PerformAll(m, s2, q) IN t \in Machine /\ ~t.halted /\ t.a = y
        BY ONLY <3>1 DEF y
      <4>2. Leaves(Append(s2, St(a.reg)), a.reg, lr, v, q, y)
        BY <1>0, <2>4, <2>8, <4>1, StoredLeaves
      <4>. QED  BY ONLY <4>2 DEF y
    <3>. QED  BY ONLY <2>6, <3>2 DEF s
  <2>. QED  BY ONLY <2>1, <2>6, <2>7, <2>8
<1>. QED  BY <1>1, <1>2

LEMMA NegRight ==
  ASSUME NEW gs \in CsType, NEW lo \in Nat, NEW e, NEW a, Arithmetic(a), NEW ref \in NumberRefs,
         NumberIn(e, gs, lo, a, ref), a.reg \in Owners(gs)
  PROVE  NumberMade(e, gs, lo, GenNeg(gs, a), NegRef(ref), {a.reg}, Stores(a.s))
<1>. DEFINE m == GenNeg(gs, a)
            n == m.arth
            r == NegRef(ref)
<1>1. m.cs = gs /\ Later(gs, gs, lo)
  BY LaterSame DEF GenNeg
<1>2. /\ Arithmetic(n) /\ n.reg = a.reg /\ n.b = a.b /\ Stores(n.s) = Stores(a.s) \cup {a.reg}
      /\ \A lr \in Slot \cup {NoReg} : \A v, q : \A x \in Word :
           PacketType(q) /\ Leaves(a.s, a.reg, lr, v, q, x) => Leaves(n.s, n.reg, lr, v, q, (0 - x) % W)
  BY NegLeaves
<1>3. r \in NumberRefs /\ \A p \in Meanings : /\ r[p].check = ref[p].check /\ r[p].bad = ref[p].bad
                                              /\ r[p].v = (0 - ref[p].v) % W
  BY NegRefTyped
<1>. HIDE DEF m, n, r
<1>4. LeavesAll(e, gs.linkreg, n, r)
  <2>1. LeavesAll(e, gs.linkreg, a, ref)
    BY DEF NumberIn, NumberFor
  <2>2. \A p \in Meanings : ref[p].v \in Word
    BY DEF NumberRefs, NumberRef
  <2>3. gs.linkreg \in Slot \cup {NoReg}
    BY DEF CsType
  <2>. QED  BY <1>2, <1>3, <2>1, <2>2, <2>3, Packet DEF LeavesAll
<1>5. Checks(r) = Checks(ref)
  BY <1>3 DEF Checks
<1>6. NumberIn(e, gs, lo, n, r)
  BY <1>2, <1>4, <1>5 DEF NumberIn, NumberFor
<1>. QED  BY <1>1, <1>2, <1>3, <1>6 DEF NumberMade, n, r, m

(* The operands of an operation, in a and x.                               *)
TwoOperands(a0, a1) ==
  /\ Arithmetic(a0) /\ Arithmetic(a1)
  /\ a0.reg \notin Stores(a1.s)

LEMMA OperandsShape ==
  ASSUME NEW a0, NEW a1, TwoOperands(a0, a1)
  PROVE  /\ Operands(a0, a1) \in Seq(Stmt)
         /\ Stores(Operands(a0, a1)) = Stores(a0.s) \cup Stores(a1.s)
         /\ Operands(a0, a1) = Append(Append(a0.s \o a1.s, LdxMem(a1.reg)), LdMem(a0.reg))
         /\ a0.s \o a1.s \in Seq(Stmt)
<1>. DEFINE s0 == a0.s
            s1 == a1.s
            i == LdxMem(a1.reg)
            j == LdMem(a0.reg)
            s == s0 \o s1
<1>1. s0 \in Seq(Stmt) /\ s1 \in Seq(Stmt) /\ a0.reg \in Slot /\ a1.reg \in Slot
  BY ArthFields DEF TwoOperands
<1>2. i \in Stmt /\ j \in Stmt /\ StoresOf(i) = {} /\ StoresOf(j) = {}
  BY <1>1, Statements1, StoresOfAll
<1>. HIDE DEF s0, s1, i, j
<1>3. s \in Seq(Stmt) /\ Stores(s) = Stores(s0) \cup Stores(s1)
  BY <1>1, StoresJoin
<1>4. Operands(a0, a1) = s \o << i, j >>
  BY DEF Operands, s0, s1, i, j
<1>. HIDE DEF s
<1>5. s \o << i, j >> = Append(Append(s, i), j)
  BY ONLY <1>2, <1>3
<1>6. Append(s, i) \in Seq(Stmt) /\ Stores(Append(s, i)) = Stores(s) \cup {}
  BY <1>2, <1>3, StoresLast
<1>7. Append(Append(s, i), j) \in Seq(Stmt) /\ Stores(Append(Append(s, i), j)) = Stores(s) \cup {}
  BY <1>2, <1>6, StoresLast
<1>8. Operands(a0, a1) = Append(Append(s, i), j)
  BY ONLY <1>4, <1>5
<1>. QED  BY ONLY <1>3, <1>7, <1>8 DEF s, s0, s1, i, j

LEMMA OperandsDo ==
  ASSUME NEW a0, NEW a1, TwoOperands(a0, a1),
         NEW lr \in Slot \cup {NoReg}, NEW v, NEW q, PacketType(q), NEW x0, NEW x1,
         Leaves(a0.s, a0.reg, lr, v, q, x0), Leaves(a1.s, a1.reg, lr, v, q, x1),
         lr \notin Stores(Operands(a0, a1)), NEW m, Ready(m, lr, v)
  PROVE  LET t == PerformAll(m, Operands(a0, a1), q)
         IN  Holding(t, x0, x1, t.mem) /\ x0 \in Word /\ x1 \in Word
<1>. DEFINE s0 == a0.s
            s1 == a1.s
            r0 == a0.reg
            r1 == a1.reg
            s == s0 \o s1
            i == LdxMem(r1)
            j == LdMem(r0)
            t0 == PerformAll(m, s0, q)
            t1 == PerformAll(t0, s1, q)
            t2 == Perform(t1, i, q)
            t3 == Perform(t2, j, q)
<1>1. /\ s0 \in Seq(Stmt) /\ s1 \in Seq(Stmt) /\ r0 \in Slot /\ r1 \in Slot /\ r0 \notin Stores(s1)
      /\ lr \notin Stores(s0) /\ lr \notin Stores(s1)
      /\ s \in Seq(Stmt) /\ Operands(a0, a1) = Append(Append(s, i), j)
  BY ArthFields, OperandsShape DEF TwoOperands
<1>2. /\ Leaves(s0, r0, lr, v, q, x0) /\ Leaves(s1, r1, lr, v, q, x1)
      /\ i \in Stmt /\ j \in Stmt
  BY <1>1, Statements1
<1>. HIDE DEF s0, s1, r0, r1
<1>3. ~t0.halted /\ t0.mem[r0] = x0
  BY <1>1, <1>2 DEF Leaves
<1>4. Ready(t0, lr, v)
  BY <1>1, <1>3, ReadyAfter
<1>. HIDE DEF t0
<1>5. ~t1.halted /\ t1.mem[r1] = x1
  BY <1>1, <1>2, <1>4 DEF Leaves
<1>6. t1 \in Machine /\ t1.mem[r0] = x0
  BY <1>1, <1>3, <1>4, Untouched DEF Ready
<1>7. PerformAll(m, s, q) = t1
  BY <1>1, PerformBoth DEF t0
<1>. HIDE DEF t1, i, j, s
<1>8. PerformAll(m, Append(s, i), q) = t2 /\ Append(s, i) \in Seq(Stmt)
  BY <1>1, <1>2, <1>7, PerformLast
<1>9. PerformAll(m, Append(Append(s, i), j), q) = t3
  BY <1>2, <1>8, PerformLast
<1>10. Holding(t1, t1.a, t1.x, t1.mem)
  BY <1>5, <1>6 DEF Holding
<1>11. Holding(t2, t1.a, x1, t1.mem)
  BY <1>1, <1>5, <1>10, DoesLoad DEF i
<1>. HIDE DEF t2
<1>12. Holding(t3, x0, x1, t1.mem)
  BY <1>1, <1>6, <1>11, DoesLoad DEF j
<1>. HIDE DEF t3
<1>13. x0 \in Word /\ x1 \in Word
  BY ONLY <1>12 DEF Holding, Machine
<1>14. Holding(t3, x0, x1, t3.mem)
  BY ONLY <1>12 DEF Holding
<1>15. PerformAll(m, Operands(a0, a1), q) = t3
  BY ONLY <1>1, <1>9
<1>. QED  BY ONLY <1>13, <1>14, <1>15

ArthRef(fn, l, r) == [p \in Meanings |-> ArthMeaning(fn, l[p], r[p])]

LEMMA ArthRefTyped ==
  ASSUME NEW l \in NumberRefs, NEW r \in NumberRefs, NEW fn
  PROVE  /\ ArthRef(fn, l, r) \in NumberRefs
         /\ \A p \in Meanings :
              /\ ArthRef(fn, l, r)[p].check = l[p].check
              /\ ~ArthRef(fn, l, r)[p].bad =>
                   /\ ~l[p].bad /\ ~r[p].bad /\ (fn \in {"div", "mod"} => r[p].v # 0)
                   /\ ArthRef(fn, l, r)[p].v = Computed(fn, l[p].v, r[p].v)
<1>1. ASSUME NEW x \in NumberRef, NEW y \in NumberRef
      PROVE  LET z == ArthMeaning(fn, x, y)
             IN  /\ z \in NumberRef /\ z.check = x.check
                 /\ ~z.bad => /\ ~x.bad /\ ~y.bad /\ (fn \in {"div", "mod"} => y.v # 0)
                              /\ z.v = Computed(fn, x.v, y.v)
  <2>1. x.check \in Verdict3 /\ x.v \in Word /\ y.v \in Word /\ x.bad \in BOOLEAN /\ y.bad \in BOOLEAN
    BY DEF NumberRef
  <2>2. CASE x.bad \/ y.bad \/ (fn \in {"div", "mod"} /\ y.v = 0)
    <3>1. ArthMeaning(fn, x, y) = [check |-> x.check, bad |-> TRUE, v |-> 0]
      BY <2>2 DEF ArthMeaning, BadNumber
    <3>. QED  BY <2>1, <3>1, Small DEF NumberRef
  <2>3. CASE ~(x.bad \/ y.bad \/ (fn \in {"div", "mod"} /\ y.v = 0))
    <3>1. ArthMeaning(fn, x, y) = [x EXCEPT !.v = Computed(fn, x.v, y.v)]
      BY <2>3 DEF ArthMeaning
    <3>2. Computed(fn, x.v, y.v) \in Word
      BY <2>1, <2>3, ComputedTyped
    <3>. HIDE DEF Computed
    <3>. QED  BY ONLY <2>1, <2>3, <3>1, <3>2, x \in NumberRef DEF NumberRef
  <2>. QED  BY <2>2, <2>3
<1>2. \A p \in Meanings : l[p] \in NumberRef /\ r[p] \in NumberRef /\ ArthRef(fn, l, r)[p] = ArthMeaning(fn, l[p], r[p])
  BY DEF NumberRefs, ArthRef
<1>3. \A p \in Meanings : ArthMeaning(fn, l[p], r[p]) \in NumberRef
  BY <1>1, <1>2
<1>4. ArthRef(fn, l, r) \in NumberRefs
  BY <1>3 DEF NumberRefs, ArthRef
<1>. QED  BY <1>1, <1>2, <1>4

(* Both registers of an operation are free again.                          *)
Freed(gs, r0, r1) == FreeReg(FreeReg(gs, r0), r1)

LEMMA FreedRight ==
  ASSUME NEW gs \in CsType, LinkOwned(gs), ~gs.failed, NEW r0 \in Owners(gs), NEW r1 \in Owners(gs),
         NEW lo \in Nat
  PROVE  LET new == Freed(gs, r0, r1)
         IN  /\ new \in CsType /\ Later(gs, new, lo) /\ LinkOwned(new) /\ ~new.failed
             /\ new.blocks = gs.blocks /\ new.linkreg = gs.linkreg /\ new.prefixed = gs.prefixed
             /\ Owners(new) = Owners(gs) \ {r0, r1}
<1>. DEFINE mid == FreeReg(gs, r0)
            new == FreeReg(mid, r1)
<1>1. r0 # gs.linkreg /\ r1 # gs.linkreg
  BY DEF Owners
<1>2. /\ mid \in CsType /\ mid.blocks = gs.blocks /\ mid.linkreg = gs.linkreg /\ mid.failed = gs.failed
      /\ mid.prefixed = gs.prefixed /\ Later(gs, mid, lo) /\ Owners(mid) = Owners(gs) \ {r0}
  BY <1>1, FreeRight
<1>. HIDE DEF mid
<1>3. /\ new \in CsType /\ new.blocks = mid.blocks /\ new.linkreg = mid.linkreg /\ new.failed = mid.failed
      /\ new.prefixed = mid.prefixed /\ Later(mid, new, lo) /\ Owners(new) = Owners(mid) \ {r1}
  BY <1>1, <1>2, FreeRight
<1>. HIDE DEF new
<1>4. Later(gs, new, lo)
  BY <1>2, <1>3, LaterTwice
<1>5. LinkOwned(new)
  BY <1>2, <1>3, <1>4 DEF Later
<1>. QED  BY <1>2, <1>3, <1>4, <1>5 DEF new, mid, Freed

LEMMA ArthRight ==
  ASSUME NEW gs \in CsType, LinkOwned(gs), ~gs.failed, NEW lo \in Nat, NEW e, NEW fn \in AluFn,
         NEW a0, NEW a1, TwoOperands(a0, a1), a0.reg \in Owners(gs), a1.reg \in Owners(gs),
         NEW l \in NumberRefs, NEW r \in NumberRefs,
         NumberIn(e, gs, lo, a0, l), LeavesAll(e, gs.linkreg, a1, r),
         ~GenArth(gs, fn, a0, a1).cs.failed
  PROVE  NumberMade(e, gs, lo, GenArth(gs, fn, a0, a1), ArthRef(fn, l, r),
                    {a0.reg, a1.reg}, Stores(a0.s) \cup Stores(a1.s))
<1>. DEFINE m == GenArth(gs, fn, a0, a1)
            f == Freed(gs, a1.reg, a0.reg)
            i == Alu(fn, "x", 0)
            p0 == Operands(a0, a1)
            s == Append(p0, i)
            ref == ArthRef(fn, l, r)
            b == a0.b
            a == m.arth
            lr == gs.linkreg
<1>1. i \in Stmt /\ StoresOf(i) = {} /\ b \in Nat /\ a0 \in ArthType
  BY Statements1, StoresOfAll, ArthFields DEF TwoOperands, Arithmetic
<1>2. p0 \in Seq(Stmt) /\ Stores(p0) = Stores(a0.s) \cup Stores(a1.s)
  BY OperandsShape
<1>3. s \in Seq(Stmt) /\ Stores(s) = Stores(a0.s) \cup Stores(a1.s)
  <2>. HIDE DEF p0, i
  <2>1. s \in Seq(Stmt) /\ Stores(s) = Stores(p0) \cup {}
    BY <1>1, <1>2, StoresLast
  <2>. QED  BY ONLY <1>2, <2>1
<1>4. m = ResultIn(AllocReg(f), s, b)
  <2>1. ~BadOperand(fn, a1)
    BY DEF GenArth
  <2>2. m = ResultIn(AllocReg(f), a0.s \o a1.s \o << LdxMem(a1.reg), LdMem(a0.reg), i >>, b)
    BY <2>1 DEF GenArth, ReplaceReg, Freed
  <2>3. a0.s \o a1.s \o << LdxMem(a1.reg), LdMem(a0.reg), i >> = s
    <3>. DEFINE s0 == a0.s \o a1.s
                j == LdxMem(a1.reg)
                k == LdMem(a0.reg)
    <3>1. s0 \in Seq(Stmt) /\ p0 = Append(Append(s0, j), k)
      BY OperandsShape
    <3>2. j \in Stmt /\ k \in Stmt
      BY ArthFields, Statements1 DEF TwoOperands
    <3>. HIDE DEF s0, j, k, i, p0
    <3>3. s0 \o << j, k, i >> = Append(Append(Append(s0, j), k), i)
      BY ONLY <1>1, <3>1, <3>2
    <3>4. s0 \o << j, k, i >> = s
      BY ONLY <3>1, <3>3
    <3>. QED  BY ONLY <3>4 DEF s0, j, k
  <2>. QED  BY ONLY <2>2, <2>3
<1>5. /\ f \in CsType /\ Later(gs, f, lo) /\ LinkOwned(f) /\ ~f.failed
      /\ f.blocks = gs.blocks /\ f.linkreg = lr
      /\ Owners(f) = Owners(gs) \ {a0.reg, a1.reg}
  BY FreedRight
<1>6. ~m.cs.failed
  OBVIOUS
<1>. HIDE DEF m, f
<1>7. ResultOf(f, lo, s, b, m)
  <2>. HIDE DEF s, b
  <2>. QED  BY <1>3, <1>4, <1>5, <1>6, ResultRight
<1>8. /\ Later(f, m.cs, lo) /\ m.cs.blocks = gs.blocks /\ m.cs.linkreg = lr
      /\ a \in ArthType /\ a.reg \in Slot /\ a.reg \notin Owners(f)
      /\ Owners(m.cs) = Owners(f) \cup {a.reg}
      /\ a.s = Append(s, St(a.reg)) /\ a.b = b /\ Stores(a.s) = Stores(s) \cup {a.reg}
  BY ONLY <1>1, <1>5, <1>7 DEF ResultOf
<1>9. Later(gs, m.cs, lo)
  BY <1>5, <1>8, LaterTwice
<1>10. Arithmetic(a)
  <2>1. Len(a.s) # 2
    <3>. DEFINE s0 == a0.s \o a1.s
                j == LdxMem(a1.reg)
                k == LdMem(a0.reg)
                h == St(a.reg)
    <3>1. s0 \in Seq(Stmt) /\ p0 = Append(Append(s0, j), k) /\ s = Append(p0, i) /\ a.s = Append(s, h)
      BY <1>8, OperandsShape
    <3>. HIDE DEF s0, j, k, i, p0, s, a, h
    <3>2. Len(a.s) = Len(s) + 1 /\ Len(s) = Len(p0) + 1 /\ Len(p0) = Len(Append(s0, j)) + 1
          /\ Len(Append(s0, j)) = Len(s0) + 1 /\ Len(s0) \in Nat
      <4>1. Append(s0, j) \in Seq(Stmt \cup {j}) /\ p0 \in Seq(Stmt) /\ s \in Seq(Stmt)
        BY ONLY <3>1, <1>2, <1>3
      <4>. QED  BY ONLY <3>1, <4>1
    <3>. QED  BY ONLY <3>2
  <2>. QED  BY ONLY <1>8, <2>1 DEF Arithmetic, IsNumber
<1>11. /\ ref \in NumberRefs
       /\ \A p \in Meanings :
            /\ ref[p].check = l[p].check
            /\ ~ref[p].bad => /\ ~l[p].bad /\ ~r[p].bad /\ (fn \in {"div", "mod"} => r[p].v # 0)
                              /\ ref[p].v = Computed(fn, l[p].v, r[p].v)
  BY ArthRefTyped
<1>. HIDE DEF ref
<1>12. LeavesAll(e, lr, a, ref)
  <2>1. ASSUME NEW p \in Meanings, ~ref[p].bad
        PROVE  ref[p].check = "yes" /\ Leaves(a.s, a.reg, lr, Pre(e, Packets[p]), Packets[p], ref[p].v)
    <3>. DEFINE q == Packets[p]
                v == Pre(e, q)
                x0 == l[p].v
                x1 == r[p].v
                y == ref[p].v
    <3>1. LeavesAll(e, lr, a0, l) /\ LeavesAll(e, lr, a1, r)
      BY DEF NumberIn, NumberFor
    <3>2. /\ ref[p].check = "yes" /\ (fn \in {"div", "mod"} => x1 # 0) /\ y = Computed(fn, x0, x1)
          /\ Leaves(a0.s, a0.reg, lr, v, q, x0) /\ Leaves(a1.s, a1.reg, lr, v, q, x1)
      BY <1>11, <2>1, <3>1 DEF LeavesAll
    <3>3. PacketType(q) /\ lr \in Slot \cup {NoReg}
      BY Packet DEF CsType
    <3>. HIDE DEF q, v, x0, x1, y, lr
    <3>4. ASSUME NEW u, Ready(u, lr, v), lr \notin Stores(s)
          PROVE  LET t == PerformAll(u, s, q)
                 IN  t \in Machine /\ ~t.halted /\ t.a = y
      <4>. DEFINE t0 == PerformAll(u, p0, q)
                  t == Perform(t0, i, q)
      <4>1. lr \notin Stores(p0)
        BY <1>2, <1>3, <3>4
      <4>2. Holding(t0, x0, x1, t0.mem)
        BY <3>2, <3>3, <3>4, <4>1, OperandsDo
      <4>3. PerformAll(u, s, q) = t
        <5>. HIDE DEF p0, i
        <5>. QED  BY <1>1, <1>2, PerformLast
      <4>. HIDE DEF t0
      <4>4. Holding(t, y, x1, t0.mem)
        BY <3>2, <3>3, <4>2, DoesAlu
      <4>. HIDE DEF t
      <4>. QED  BY ONLY <4>3, <4>4 DEF Holding
    <3>. HIDE DEF s, a
    <3>5. Leaves(Append(s, St(a.reg)), a.reg, lr, v, q, y)
      BY <1>3, <1>8, <3>3, <3>4, StoredLeaves
    <3>. QED  BY <1>8, <3>2, <3>5 DEF q, v, y
  <2>. QED  BY ONLY <2>1 DEF LeavesAll
<1>. HIDE DEF s, p0, i, a
<1>13. ChecksFor(e, m.cs.blocks, m.cs.linkreg, a.b, Checks(ref), Span(m.cs, lo), Count(m.cs, lo))
  <2>1. Checks(ref) = Checks(l)
    BY <1>11 DEF Checks
  <2>2. Span(m.cs, lo) = Span(gs, lo) /\ Count(m.cs, lo) = Count(gs, lo)
    BY <1>8 DEF Span, Count
  <2>. QED  BY <1>8, <2>1, <2>2 DEF NumberIn, NumberFor
<1>14. NumberIn(e, m.cs, lo, a, ref)
  BY <1>8, <1>12, <1>13 DEF NumberIn, NumberFor
<1>15. NumberMade(e, gs, lo, m, ref, {a0.reg, a1.reg}, Stores(a0.s) \cup Stores(a1.s))
  BY <1>3, <1>5, <1>8, <1>9, <1>10, <1>11, <1>14 DEF NumberMade, a
<1>. QED  BY <1>15 DEF m, ref

(* Statements that leave y in x, or that are not needed because y is 0.    *)
Bases(stmts, lr, v, q, y) ==
  IF stmts = << >> THEN y = 0
  ELSE \A m : Ready(m, lr, v) => \E a : Holding(PerformAll(m, stmts, q), a, y, m.mem)

(* The statements of a load at an index.                                   *)
PlaceOf(stmts, a, size, k) == Append(a.s \o Indexed(stmts, a), LdInd(size, k))

LEMMA IndexedShape ==
  ASSUME NEW stmts \in Seq(Stmt), Stores(stmts) = {}, NEW a, Arithmetic(a)
  PROVE  /\ Indexed(stmts, a) \in Seq(Stmt) /\ Stores(Indexed(stmts, a)) = {} /\ Len(Indexed(stmts, a)) >= 1
         /\ stmts # << >> =>
              Indexed(stmts, a) = Append(Append(Append(stmts, LdMem(a.reg)), Alu("add", "x", 0)), Tax)
<1>. DEFINE i == LdMem(a.reg)
            j == Alu("add", "x", 0)
            h == LdxMem(a.reg)
            k == Tax
<1>1. /\ i \in Stmt /\ j \in Stmt /\ k \in Stmt /\ h \in Stmt
      /\ StoresOf(i) = {} /\ StoresOf(j) = {} /\ StoresOf(k) = {} /\ StoresOf(h) = {}
  <2>1. a.reg \in Slot /\ "add" \in AluFn
    BY ArthFields DEF AluFn
  <2>. QED  BY <2>1, Statements1, StoresOfAll
<1>2. CASE stmts = << >>
  <2>1. Indexed(stmts, a) = << h >>
    BY <1>2 DEF Indexed
  <2>. HIDE DEF h
  <2>2. << h >> \in Seq(Stmt) /\ Stores(<< h >>) = {} /\ Len(<< h >>) = 1
    BY <1>1, PerformSingle
  <2>3. Indexed(stmts, a) \in Seq(Stmt) /\ Stores(Indexed(stmts, a)) = {} /\ Len(Indexed(stmts, a)) >= 1
    <3>. DEFINE u == << h >>
    <3>1. Indexed(stmts, a) = u /\ u \in Seq(Stmt) /\ Stores(u) = {} /\ Len(u) = 1
      BY ONLY <2>1, <2>2
    <3>. HIDE DEF u
    <3>. QED  BY ONLY <3>1
  <2>. QED  BY ONLY <1>2, <2>3
<1>3. CASE stmts # << >>
  <2>1. Indexed(stmts, a) = stmts \o << i, j, k >>
    BY <1>3 DEF Indexed
  <2>. HIDE DEF i, j, k
  <2>2. Indexed(stmts, a) = Append(Append(Append(stmts, i), j), k)
    BY <1>1, <2>1, ThreeMore
  <2>3. Append(stmts, i) \in Seq(Stmt) /\ Stores(Append(stmts, i)) = {}
    BY <1>1, StoresLast
  <2>4. Append(Append(stmts, i), j) \in Seq(Stmt) /\ Stores(Append(Append(stmts, i), j)) = {}
    BY <1>1, <2>3, StoresLast
  <2>5. /\ Append(Append(Append(stmts, i), j), k) \in Seq(Stmt)
        /\ Stores(Append(Append(Append(stmts, i), j), k)) = {}
    BY <1>1, <2>4, StoresLast
  <2>6. Len(Append(Append(Append(stmts, i), j), k)) >= 1
    <3>. DEFINE s == Append(Append(stmts, i), j)
    <3>. HIDE DEF s
    <3>1. s \in Seq(Stmt)
      BY <2>4 DEF s
    <3>2. Len(Append(s, k)) = Len(s) + 1 /\ Len(s) \in Nat
      BY <3>1, <1>1
    <3>. QED  BY <3>2 DEF s
  <2>. QED  BY <2>2, <2>5, <2>6 DEF i, j, k
<1>. QED  BY <1>2, <1>3

LEMMA PlaceShape ==
  ASSUME NEW stmts \in Seq(Stmt), Stores(stmts) = {}, NEW a, Arithmetic(a),
         NEW size \in {1, 2, 4}, NEW k \in Word
  PROVE  LET s == PlaceOf(stmts, a, size, k)
         IN  /\ s \in Seq(Stmt) /\ Stores(s) = Stores(a.s)
             /\ \A reg \in Slot : Len(Append(s, St(reg))) # 2
             /\ a.s \o Indexed(stmts, a) \o << LdInd(size, k) >> = s
             /\ a.s \o Indexed(stmts, a) \in Seq(Stmt)
<1>. DEFINE s0 == a.s
            u == Indexed(stmts, a)
            w == s0 \o u
            i == LdInd(size, k)
            s == Append(w, i)
<1>1. i \in Stmt /\ StoresOf(i) = {} /\ s0 \in Seq(Stmt)
  BY Statements1, StoresOfAll, ArthFields
<1>2. u \in Seq(Stmt) /\ Stores(u) = {} /\ Len(u) >= 1
  BY IndexedShape
<1>. HIDE DEF s0, u, i
<1>3. w \in Seq(Stmt) /\ Stores(w) = Stores(s0) /\ Len(w) = Len(s0) + Len(u)
      /\ Len(s0) \in Nat /\ Len(u) \in Nat
  <2>1. w \in Seq(Stmt) /\ Stores(w) = Stores(s0) \cup Stores(u)
    BY <1>1, <1>2, StoresJoin
  <2>2. Len(w) = Len(s0) + Len(u) /\ Len(s0) \in Nat /\ Len(u) \in Nat
    BY ONLY <1>1, <1>2
  <2>. QED  BY ONLY <1>2, <2>1, <2>2
<1>. HIDE DEF w
<1>4. s \in Seq(Stmt) /\ Stores(s) = Stores(s0) /\ Len(s) = Len(w) + 1 /\ w \o << i >> = s
  <2>1. s \in Seq(Stmt) /\ Stores(s) = Stores(w) \cup {}
    BY <1>1, <1>3, StoresLast
  <2>2. Len(s) = Len(w) + 1 /\ w \o << i >> = s
    BY ONLY <1>1, <1>3
  <2>. QED  BY ONLY <1>3, <2>1, <2>2
<1>5. ASSUME NEW reg \in Slot
      PROVE  Len(Append(s, St(reg))) # 2
  <2>. DEFINE h == St(reg)
  <2>1. h \in Stmt
    BY Statements1
  <2>. HIDE DEF h, s
  <2>2. Len(Append(s, h)) = Len(s) + 1
    BY <1>4, <2>1
  <2>3. Len(Append(s, h)) # 2
    BY ONLY <1>2, <1>3, <1>4, <2>2
  <2>. QED  BY <2>3 DEF h
<1>6. PlaceOf(stmts, a, size, k) = s
  BY DEF PlaceOf, s, w, u, s0, i
<1>. QED  BY <1>3, <1>4, <1>5, <1>6 DEF w, u, s0, i

(* The place of a load and the load.                                       *)
LEMMA PlaceDo ==
  ASSUME NEW stmts \in Seq(Stmt), Stores(stmts) = {}, NEW a, Arithmetic(a),
         NEW size \in {1, 2, 4}, NEW k \in Word, NEW lr \in Slot \cup {NoReg}, NEW v,
         NEW q, PacketType(q), NEW y \in Word, NEW x \in Word,
         Bases(stmts, lr, v, q, y), Leaves(a.s, a.reg, lr, v, q, x), lr \notin Stores(a.s),
         NEW m, Ready(m, lr, v), k + (y + x) + size <= q.len
  PROVE  LET t == PerformAll(m, PlaceOf(stmts, a, size, k), q)
         IN  t \in Machine /\ ~t.halted /\ t.a = Fetch(q.at, k + (y + x), size)
<1>. DEFINE s0 == a.s
            r0 == a.reg
            u == Indexed(stmts, a)
            w == s0 \o u
            i == LdInd(size, k)
            z == y + x
            t0 == PerformAll(m, s0, q)
            t1 == PerformAll(t0, u, q)
            t == Perform(t1, i, q)
<1>1. i \in Stmt /\ s0 \in Seq(Stmt) /\ r0 \in Slot
  BY Statements1, ArthFields
<1>2. u \in Seq(Stmt) /\ w \in Seq(Stmt)
  BY IndexedShape, PlaceShape
<1>3. ~t0.halted /\ t0.mem[r0] = x
  BY DEF Leaves
<1>4. Ready(t0, lr, v)
  BY <1>1, <1>3, ReadyAfter
<1>5. z \in Word
  BY Sizes DEF Word, PacketType
<1>6. \E c : Holding(t1, c, z, t0.mem)
  <2>. HIDE DEF s0, z
  <2>0. Holding(t0, t0.a, t0.x, t0.mem) /\ t0.mem \in [Slot -> Word]
    BY <1>4, ReadyHolds
  <2>. HIDE DEF t0
  <2>1. CASE stmts = << >>
    <3>1. u = << LdxMem(r0) >> /\ y = 0
      BY <2>1 DEF Indexed, Bases
    <3>2. LdxMem(r0) \in Stmt
      BY <1>1, Statements1
    <3>3. t1 = Perform(t0, LdxMem(r0), q)
      BY <3>1, <3>2, PerformSingle
    <3>4. Holding(t1, t0.a, x, t0.mem)
      <4>1. Holding(Perform(t0, LdxMem(r0), q), t0.a, t0.mem[r0], t0.mem)
        BY <1>1, <2>0, DoesLoad
      <4>. QED  BY ONLY <4>1, <1>3, <3>3
    <3>5. z = x
      BY <3>1 DEF z, Word
    <3>. QED  BY <3>4, <3>5
  <2>2. CASE stmts # << >>
    <3>. DEFINE b1 == PerformAll(t0, stmts, q)
                i1 == LdMem(r0)
                i2 == Alu("add", "x", 0)
                i3 == Tax
                b2 == Perform(b1, i1, q)
                b3 == Perform(b2, i2, q)
                b4 == Perform(b3, i3, q)
    <3>1. i1 \in Stmt /\ i2 \in Stmt /\ i3 \in Stmt /\ u = Append(Append(Append(stmts, i1), i2), i3)
      <4>1. "add" \in AluFn
        BY DEF AluFn
      <4>. QED  BY <1>1, <2>2, <4>1, Statements1, IndexedShape
    <3>2. PICK c : Holding(b1, c, y, t0.mem)
      BY <1>4, <2>2 DEF Bases, t0
    <3>3. t1 = b4
      <4>. HIDE DEF i1, i2, i3, b1, u
      <4>1. PerformAll(t0, Append(stmts, i1), q) = b2 /\ Append(stmts, i1) \in Seq(Stmt)
        BY <3>1, PerformLast DEF b1
      <4>. HIDE DEF b2
      <4>. DEFINE c1 == Append(stmts, i1)
                  c2 == Append(c1, i2)
      <4>. HIDE DEF c1
      <4>2. PerformAll(t0, c2, q) = b3 /\ c2 \in Seq(Stmt)
        <5>1. PerformAll(t0, c1, q) = b2 /\ c1 \in Seq(Stmt)
          BY <4>1 DEF c1
        <5>. QED  BY <3>1, <5>1, PerformLast
      <4>. HIDE DEF b3, c2
      <4>3. PerformAll(t0, Append(c2, i3), q) = b4
        BY <3>1, <4>2, PerformLast
      <4>. QED  BY <3>1, <4>3 DEF c1, c2
    <3>. HIDE DEF b1
    <3>4. Holding(b2, x, y, t0.mem)
      BY <1>1, <1>3, <3>2, DoesLoad
    <3>. HIDE DEF b2
    <3>5. Holding(b3, (x + y) % W, y, t0.mem)
      BY <3>4, DoesLoad
    <3>. HIDE DEF b3
    <3>6. (x + y) % W = z
      <4>1. W \in Nat \ {0} /\ z \in 0 .. W - 1 /\ x + y = z
        BY <1>5, Sizes DEF Word, z
      <4>. QED  BY ONLY <4>1
    <3>7. Holding(b4, z, z, t0.mem)
      BY <3>5, <3>6, DoesLoad
    <3>. QED  BY ONLY <3>3, <3>7
  <2>. QED  BY <2>1, <2>2
<1>7. PICK c : Holding(t1, c, z, t0.mem)
  BY <1>6
<1>8. PerformAll(m, PlaceOf(stmts, a, size, k), q) = t
  <2>1. PlaceOf(stmts, a, size, k) = Append(w, i)
    BY DEF PlaceOf
  <2>. HIDE DEF s0, u, i
  <2>2. PerformAll(m, w, q) = t1
    BY <1>1, <1>2, PerformBoth
  <2>. HIDE DEF w, t1
  <2>3. PerformAll(m, Append(w, i), q) = t
    BY <1>1, <1>2, <2>2, PerformLast
  <2>. QED  BY ONLY <2>1, <2>3
<1>. HIDE DEF t1, t0
<1>9. Holding(t, Fetch(q.at, k + z, size), z, t0.mem)
  <2>. HIDE DEF z
  <2>1. k + z + size <= q.len
    BY DEF z
  <2>. QED  BY <1>5, <1>7, <2>1, DoesInd
<1>. HIDE DEF t
<1>10. t \in Machine /\ ~t.halted /\ t.a = Fetch(q.at, k + z, size)
  BY ONLY <1>9 DEF Holding
<1>. QED  BY ONLY <1>8, <1>10

(* The part of a place that is not constant.                               *)
BaseOf(e, proto, q) ==
  IF proto = "link" THEN Pre(e, q)
  ELSE IF proto = "tcp" THEN 4 * (q.at[OffLinkPl + OffNl] % 16) ELSE 0

Protos == {"link", "ip", "tcp"}

HeaderAt == OffLinkPl + OffNl
LEMMA HeaderWord == HeaderAt \in Word /\ HeaderAt \in Nat /\ OffProto \in Nat
                    /\ HeaderAt + OffProto \in Word /\ OffLinkHdr \in Word
<1>1. HeaderAt \in Word /\ OffProto \in Nat /\ OffLinkHdr \in Word /\ HeaderAt + OffProto \in Word
  BY ParserAssumption DEF HeaderAt
<1>. QED  BY <1>1, Sizes DEF Word

PartIn(e, gs, lo, proto, part) ==
  /\ Later(gs, part.cs, lo) /\ Held(gs, part.cs) /\ part.cs.blocks = gs.blocks
  /\ part.stmts \in Seq(Stmt) /\ Stores(part.stmts) = {}
  /\ proto # "link" => part.cs = gs
  /\ \A p \in Meanings : (proto = "tcp" => HeaderAt < Packets[p].len) =>
       /\ BaseOf(e, proto, Packets[p]) \in Word
       /\ Bases(part.stmts, part.cs.linkreg, Pre(e, Packets[p]), Packets[p], BaseOf(e, proto, Packets[p]))

LEMMA PartRight ==
  ASSUME NEW gs \in CsType, NEW lo \in Nat, NEW e, gs.prefixed <=> e \in Prefixed, NEW proto \in Protos
  PROVE  PartIn(e, gs, lo, proto, LoadPart(gs, proto))
<1>. DEFINE part == LoadPart(gs, proto)
<1>1. CASE proto = "link"
  <2>1. part = VarPart(gs)
    BY <1>1 DEF LoadPart
  <2>2. /\ Later(gs, part.cs, lo) /\ Held(gs, part.cs) /\ part.cs.blocks = gs.blocks
        /\ part.stmts \in Seq(Stmt) /\ Stores(part.stmts) = {} /\ BehindPrefix(part.cs, part.stmts)
    BY <2>1, VarPartRight
  <2>. HIDE DEF part
  <2>3. ASSUME NEW p \in Meanings
        PROVE  /\ Pre(e, Packets[p]) \in Word
               /\ Bases(part.stmts, part.cs.linkreg, Pre(e, Packets[p]), Packets[p], Pre(e, Packets[p]))
    <3>. DEFINE q == Packets[p]
                v == Pre(e, q)
                lr == part.cs.linkreg
    <3>1. v \in Word /\ PacketType(q)
      BY Packet, PreTyped
    <3>2. part.cs.prefixed = gs.prefixed
      BY <2>2 DEF Later
    <3>3. CASE gs.prefixed
      <4>. DEFINE i == LdxMem(lr)
      <4>1. lr \in Slot /\ part.stmts = << i >>
        BY <2>2, <3>2, <3>3 DEF BehindPrefix
      <4>2. i \in Stmt
        BY <4>1, Statements1
      <4>3. << i >> # << >>
        OBVIOUS
      <4>. HIDE DEF q, v, lr
      <4>4. ASSUME NEW m, Ready(m, lr, v)
            PROVE  \E a : Holding(PerformAll(m, << i >>, q), a, v, m.mem)
        <5>1. Holding(m, m.a, m.x, m.mem) /\ m.mem \in [Slot -> Word]
          BY <4>4, ReadyHolds
        <5>2. Holding(Perform(m, i, q), m.a, m.mem[lr], m.mem)
          BY <3>1, <4>1, <5>1, DoesLoad
        <5>3. m.mem[lr] = v
          BY <4>1, <4>4, Small DEF Ready, NoReg, Slot
        <5>4. PerformAll(m, << i >>, q) = Perform(m, i, q)
          <6>. HIDE DEF i
          <6>. QED  BY <4>2, PerformSingle
        <5>5. Holding(PerformAll(m, << i >>, q), m.a, v, m.mem)
          BY ONLY <5>2, <5>3, <5>4
        <5>. QED  BY ONLY <5>5
      <4>. HIDE DEF i
      <4>5. Bases(<< i >>, lr, v, q, v)
        BY ONLY <4>3, <4>4 DEF Bases
      <4>. QED  BY <3>1, <4>1, <4>5 DEF q, v, lr
    <3>4. CASE ~gs.prefixed
      <4>1. part.stmts = << >>
        BY <2>2, <3>2, <3>4 DEF BehindPrefix
      <4>2. v = 0
        BY <3>4 DEF Pre
      <4>. QED  BY <3>1, <4>1, <4>2 DEF Bases
    <3>. QED  BY <3>3, <3>4
  <2>. QED  BY <1>1, <2>2, <2>3 DEF PartIn, BaseOf, part
<1>2. CASE proto # "link"
  <2>1. part.cs = gs
    BY <1>2 DEF LoadPart
  <2>2. Later(gs, gs, lo) /\ Held(gs, gs)
    BY LaterSame
  <2>3. CASE proto = "ip"
    <3>1. part.stmts = << >>
      BY <2>3 DEF LoadPart
    <3>2. \A p \in Meanings : BaseOf(e, proto, Packets[p]) = 0
      BY <2>3 DEF BaseOf
    <3>. HIDE DEF part
    <3>3. \A lr, v, q : Bases(<< >>, lr, v, q, 0)
      BY DEF Bases
    <3>. QED  BY <2>1, <2>2, <3>1, <3>2, <3>3, StoresNone, Small DEF PartIn, part
  <2>4. CASE proto = "tcp"
    <3>. DEFINE i == LdxMsh(HeaderAt)
    <3>1. part.stmts = << i >> /\ i \in Stmt /\ StoresOf(i) = {}
      BY <2>4, HeaderWord, Statements1, StoresOfAll DEF LoadPart, HeaderAt
    <3>. HIDE DEF part
    <3>2. << i >> \in Seq(Stmt) /\ Stores(<< i >>) = {} /\ << i >> # << >>
      <4>. HIDE DEF i
      <4>. QED  BY <3>1, PerformSingle
    <3>3. ASSUME NEW p \in Meanings, HeaderAt < Packets[p].len
          PROVE  /\ BaseOf(e, proto, Packets[p]) \in Word
                 /\ Bases(<< i >>, gs.linkreg, Pre(e, Packets[p]), Packets[p], BaseOf(e, proto, Packets[p]))
      <4>. DEFINE q == Packets[p]
                  v == Pre(e, q)
                  y == 4 * (q.at[HeaderAt] % 16)
      <4>1. BaseOf(e, proto, q) = y
        BY <2>4 DEF BaseOf, HeaderAt
      <4>2. PacketType(q)
        BY Packet
      <4>3. y \in Word
        <5>1. q.at[HeaderAt] \in Byte
          BY <3>3, <4>2, HeaderWord, Sizes DEF PacketType, Word
        <5>. QED  BY <5>1, HeaderLength
      <4>4. ASSUME NEW m, Ready(m, gs.linkreg, v)
            PROVE  \E a : Holding(PerformAll(m, << i >>, q), a, y, m.mem)
        <5>1. Holding(m, m.a, m.x, m.mem)
          BY <4>4, ReadyHolds
        <5>2. Holding(Perform(m, i, q), m.a, y, m.mem)
          <6>. HIDE DEF q, i
          <6>1. HeaderAt < q.len /\ HeaderAt \in Word
            BY <3>3, HeaderWord DEF q
          <6>2. Holding(Perform(m, LdxMsh(HeaderAt), q), m.a, 4 * (q.at[HeaderAt] % 16), m.mem)
            BY <4>2, <5>1, <6>1, DoesMsh
          <6>. QED  BY <6>2 DEF i
        <5>3. PerformAll(m, << i >>, q) = Perform(m, i, q)
          <6>. HIDE DEF i, q, y
          <6>. QED  BY <3>1, PerformSingle
        <5>. HIDE DEF q, y, i, v
        <5>4. Holding(PerformAll(m, << i >>, q), m.a, y, m.mem)
          BY ONLY <5>2, <5>3
        <5>. QED  BY ONLY <5>4
      <4>. HIDE DEF y, i, q, v
      <4>5. Bases(<< i >>, gs.linkreg, v, q, y)
        BY ONLY <3>2, <4>4 DEF Bases
      <4>. QED  BY <4>1, <4>3, <4>5 DEF q, v
    <3>. HIDE DEF i
    <3>. QED  BY <2>1, <2>2, <2>4, <3>1, <3>2, <3>3 DEF PartIn, part
  <2>. QED  BY <1>2, <2>3, <2>4 DEF Protos
<1>. QED  BY <1>1, <1>2

ChecksIn(e, gs, lo, b, ref) ==
  ChecksFor(e, gs.blocks, gs.linkreg, b, ref, Span(gs, lo), Count(gs, lo))

(* The checks of an operand, and with them those of a protocol.            *)
ChecksMade(e, gs, lo, c, ref) ==
  /\ ref \in Refs /\ Later(gs, c.cs, lo) /\ Held(gs, c.cs) /\ ~c.cs.failed /\ c.blk \in Nat
  /\ ChecksIn(e, c.cs, lo, c.blk, ref)

LEMMA MadeChecks ==
  ASSUME NEW e, NEW gs \in CsType, NEW lo \in Nat, NEW c, NEW ref \in Refs,
         MadeFrom(e, gs, lo, c, ref), ~c.cs.failed
  PROVE  ChecksMade(e, gs, lo, c, ref)
<1>1. /\ Later(gs, c.cs, lo) /\ Held(gs, c.cs) /\ BlockIn(e, c.cs, lo, c.blk, ref)
      /\ c.cs \in CsType
  BY DEF MadeFrom, Later
<1>. DEFINE b == c.blk
            y == c.cs
<1>. HIDE DEF b, y
<1>2. b \in Span(y, lo) /\ b # Nil
  BY <1>1, MadeBlock DEF b, y
<1>3. b \in Nat
  BY <1>2 DEF Span
<1>4. ChecksIn(e, y, lo, b, ref)
  BY <1>1, <1>2 DEF ChecksIn, ChecksFor, BlockIn, y, b
<1>. QED  BY <1>1, <1>3, <1>4 DEF ChecksMade, y, b

LEMMA ChecksOfRight ==
  ASSUME NEW gs \in CsType, ~gs.failed, NEW lo \in Nat, lo <= Len(gs.blocks), NEW e,
         NEW b \in Nat, NEW ref0 \in Refs, ChecksIn(e, gs, lo, b, ref0), NEW proto \in Protos,
         proto # "link" => e \notin Prefixed /\ ~gs.prefixed,
         NEW ref, ref = [p \in Meanings |-> And3(ref0[p], ProtoMeaning(proto, Packets[p]))]
  PROVE  ChecksMade(e, gs, lo, ChecksOf(gs, proto, b), ref)
<1>. DEFINE c == ChecksOf(gs, proto, b)
<1>1. CASE proto = "link"
  <2>1. c = [cs |-> gs, blk |-> b]
    BY <1>1 DEF ChecksOf
  <2>2. c.cs = gs /\ c.blk = b
    BY ONLY <2>1
  <2>3. \A p \in Meanings : ref[p] = ref0[p]
    BY <1>1 DEF And3, ProtoMeaning, Refs, Verdict3
  <2>4. ref = ref0
    BY <2>3 DEF Refs
  <2>5. Later(gs, gs, lo) /\ Held(gs, gs)
    BY LaterSame
  <2>. HIDE DEF c
  <2>6. ChecksMade(e, gs, lo, c, ref)
    BY <2>2, <2>4, <2>5 DEF ChecksMade
  <2>. QED  BY <2>6 DEF c
<1>2. CASE proto # "link"
  <2>. DEFINE y == GenCheck(gs, proto)
              r == [p \in Meanings |-> ProtoMeaning(proto, Packets[p])]
              mid == Len(gs.blocks)
  <2>0. mid \in Nat /\ gs.blocks \in Seq(Block)
    BY Sized
  <2>1. Checked(e, gs, y, r)
    <3>1. proto \in {"ip", "tcp"} /\ e \notin Prefixed /\ ~gs.prefixed
      BY <1>2 DEF Protos
    <3>. QED  BY <3>1, CheckRight
  <2>2. c = After(b, y)
    BY <1>2 DEF ChecksOf
  <2>3. ref = [p \in Meanings |-> And3(ref0[p], r[p])]
    OBVIOUS
  <2>. HIDE DEF y, r, c
  <2>4. r \in Refs /\ MadeFrom(e, gs, mid, y, r) /\ ~y.cs.failed
    BY <2>1 DEF Checked
  <2>5. y.cs \in CsType
    BY <2>4 DEF MadeFrom, Later
  <2>6. ref \in Refs /\ \A p \in Meanings : ref[p] = And3(ref0[p], r[p])
    BY <2>3, <2>4, AndRefs
  <2>7. CASE b = Nil
    <3>1. c = y
      BY <2>2, <2>7 DEF After
    <3>2. \A p \in Meanings : ref0[p] = "yes"
      BY <2>7 DEF ChecksIn, ChecksFor
    <3>3. ref = r
      <4>1. \A p \in Meanings : ref[p] = r[p]
        BY <2>6, <3>2 DEF And3
      <4>. QED  BY <4>1, <2>4, <2>6 DEF Refs
    <3>. HIDE DEF mid
    <3>4. MadeFrom(e, gs, lo, y, r)
      BY <2>0, <2>4, MadeLess DEF mid
    <3>5. ChecksMade(e, gs, lo, y, r)
      BY <2>4, <3>4, MadeChecks
    <3>. QED  BY <3>1, <3>3, <3>5 DEF c
  <2>8. CASE b # Nil
    <3>. DEFINE A == Span(gs, lo)
                n == Count(gs, lo)
    <3>1. c = GenAnd(y.cs, b, y.blk)
      BY <2>2, <2>8 DEF After
    <3>2. BlockFor(e, gs.blocks, gs.linkreg, b, ref0, A, n)
      BY <2>8 DEF ChecksIn, ChecksFor
    <3>3. A \subseteq lo + 1 .. mid /\ n \in Nat /\ n <= mid - lo
      BY <2>0 DEF Span, Count
    <3>. HIDE DEF A, n, mid
    <3>4. lo <= mid /\ mid <= Len(gs.blocks)
      BY <2>0 DEF mid
    <3>5. MadeFrom(e, gs, lo, GenAnd(y.cs, b, y.blk), ref)
      BY ONLY gs \in CsType, lo \in Nat, ref0 \in Refs, <2>0, <2>4, <2>6, <3>2, <3>3, <3>4, AndMade, ZenonT(30)
    <3>6. ~c.cs.failed
      BY <2>4, <2>5, <3>1, NotFailing
    <3>7. MadeFrom(e, gs, lo, c, ref)
      BY <3>1, <3>5
    <3>8. ChecksMade(e, gs, lo, c, ref)
      BY <2>6, <3>6, <3>7, MadeChecks
    <3>. QED  BY <3>8 DEF c
  <2>. QED  BY <2>7, <2>8
<1>. QED  BY <1>1, <1>2

LoadRef(t, i) == [p \in Meanings |-> LoadMeaning(t, i[p], Packets[p])]
LoadType(t) == t.proto \in Protos /\ t.size \in {1, 2, 4}

(* What a load gives when it can be decided.                               *)
LoadOne(t, i, q, z) ==
  /\ z \in NumberRef /\ z.check = And3(i.check, ProtoMeaning(t.proto, q))
  /\ ~z.bad => /\ ~i.bad /\ z.check = "yes"
               /\ t.proto = "tcp" => HeaderAt < q.len
               /\ OffsetOf(t.proto) + (BaseOf(expr, t.proto, q) + i.v) + t.size <= q.len
               /\ z.v = Fetch(q.at, OffsetOf(t.proto) + (BaseOf(expr, t.proto, q) + i.v), t.size)

LEMMA TcpHeader ==
  ASSUME NEW q, PacketType(q), ProtoMeaning("tcp", q) = "yes"
  PROVE  HeaderAt < q.len
<1>1. IsTCP(q) = "yes"
  BY DEF ProtoMeaning, And3
<1>3. q.len \in Nat
  BY Sizes DEF PacketType, Word
<1>2. HeaderAt + OffProto + 1 <= q.len
  <2>. DEFINE k == OffLinkPl + OffNl + OffProto
  <2>1. k = HeaderAt + OffProto /\ k \in Nat
    BY HeaderWord DEF HeaderAt
  <2>. HIDE DEF k
  <2>2. Equals(FieldOf(q, "yes", k, 1), ProtoTCP) = "yes"
    BY <1>1 DEF IsTCP, k
  <2>3. ~(k + 1 > q.len)
    BY <2>2 DEF Equals, FieldOf, BadNumber
  <2>. QED  BY ONLY <1>3, <2>1, <2>3
<1>. QED  BY ONLY <1>2, <1>3, HeaderWord

LEMMA LoadRefOne ==
  ASSUME NEW t, LoadType(t), NEW i \in NumberRef, NEW q, PacketType(q), ProtoMeaning(t.proto, q) \in Verdict3
  PROVE  LoadOne(t, i, q, LoadMeaning(t, i, q))
<1>. DEFINE check == And3(i.check, ProtoMeaning(t.proto, q))
            z == LoadMeaning(t, i, q)
<1>1. check \in Verdict3 /\ i.v \in Word /\ i.v \in Nat /\ i.bad \in BOOLEAN
  BY Sizes DEF And3, NumberRef, Word
<1>2. CASE i.bad \/ check # "yes"
  <2>1. z = [check |-> check, bad |-> TRUE, v |-> 0]
    BY <1>2 DEF LoadMeaning, BadNumber
  <2>. HIDE DEF check, z
  <2>2. z \in NumberRef /\ z.check = check /\ z.bad
    BY <1>1, <2>1, Small DEF NumberRef
  <2>. QED  BY <2>2 DEF LoadOne, z, check
<1>3. CASE ~(i.bad \/ check # "yes")
  <2>. DEFINE k == StartOf(t.proto, q) + i.v
  <2>1. z = FieldOf(q, check, k, t.size)
    BY <1>3 DEF LoadMeaning
  <2>2. ProtoMeaning(t.proto, q) = "yes"
    BY <1>3 DEF And3, NumberRef, Verdict3
  <2>3. t.proto = "tcp" => HeaderAt < q.len
    BY <2>2, TcpHeader
  <2>4. /\ StartOf(t.proto, q) = OffsetOf(t.proto) + BaseOf(expr, t.proto, q)
        /\ OffsetOf(t.proto) \in Nat /\ BaseOf(expr, t.proto, q) \in Nat
    <3>0. Word \subseteq Nat
      BY Sizes DEF Word
    <3>1. CASE t.proto = "link"
      <4>1. PrefixOf(q) = Pre(expr, q)
        BY DEF PrefixOf, Pre
      <4>2. Pre(expr, q) \in Nat /\ OffLinkHdr \in Nat
        BY <3>0, PreTyped, HeaderWord
      <4>. QED  BY ONLY <3>1, <4>1, <4>2 DEF StartOf, OffsetOf, BaseOf
    <3>2. CASE t.proto = "tcp"
      <4>1. q.at[HeaderAt] \in Byte
        BY <2>3, <3>2, HeaderWord, Sizes DEF PacketType, Word
      <4>2. 4 * (q.at[HeaderAt] % 16) \in Nat
        BY <3>0, <4>1, HeaderLength
      <4>. QED  BY <3>2, <4>2, HeaderWord DEF StartOf, OffsetOf, BaseOf, HeaderAt
    <3>3. CASE t.proto = "ip"
      BY <3>3, HeaderWord DEF StartOf, OffsetOf, BaseOf, HeaderAt
    <3>. QED  BY <3>1, <3>2, <3>3 DEF LoadType, Protos
  <2>5. k = OffsetOf(t.proto) + (BaseOf(expr, t.proto, q) + i.v) /\ k \in Nat
    BY ONLY <1>1, <2>4
  <2>. HIDE DEF k, check, z
  <2>6. /\ z.check = check /\ z.bad \in BOOLEAN
        /\ ~z.bad => k + t.size <= q.len /\ z.v = Fetch(q.at, k, t.size) /\ z.v \in Word
    BY <2>1, <2>5, FieldRead DEF LoadType
  <2>7. z \in NumberRef
    <3>1. z = IF k + t.size > q.len THEN [check |-> check, bad |-> TRUE, v |-> 0]
              ELSE [check |-> check, bad |-> FALSE, v |-> Fetch(q.at, k, t.size)]
      BY <2>1 DEF FieldOf, BadNumber
    <3>. QED  BY <1>1, <2>6, <3>1, Small DEF NumberRef
  <2>8. check = "yes" /\ ~i.bad
    BY <1>3
  <2>. QED  BY <2>3, <2>5, <2>6, <2>7, <2>8 DEF LoadOne, z, check
<1>. QED  BY <1>2, <1>3

LEMMA ProtoTyped ==
  ASSUME NEW proto \in Protos, NEW q
  PROVE  ProtoMeaning(proto, q) \in Verdict3
<1>1. \A f, v : Equals(f, v) \in Verdict3
  BY DEF Equals, Truth, Verdict3
<1>2. IsIP(q) \in Verdict3 /\ IsTCP(q) \in Verdict3
  BY <1>1 DEF IsIP, IsTCP
<1>3. IsWhole(q) \in Verdict3
  BY DEF IsWhole, Truth, Verdict3
<1>4. \A u, v : u \in Verdict3 /\ v \in Verdict3 => And3(u, v) \in Verdict3
  BY DEF And3
<1>. HIDE DEF Verdict3
<1>5. "yes" \in Verdict3
  BY DEF Verdict3
<1>. QED  BY <1>2, <1>3, <1>4, <1>5 DEF ProtoMeaning

LEMMA BasesLater ==
  ASSUME NEW stmts, NEW lr, NEW lr2, Sooner(lr, lr2), NEW v, NEW q, NEW y, Bases(stmts, lr, v, q, y)
  PROVE  Bases(stmts, lr2, v, q, y)
<1>1. \A m : Ready(m, lr2, v) => Ready(m, lr, v)
  BY DEF Ready, Sooner
<1>. QED  BY <1>1 DEF Bases

LEMMA LoadRefTyped ==
  ASSUME NEW t, LoadType(t), NEW i \in NumberRefs
  PROVE  /\ LoadRef(t, i) \in NumberRefs
         /\ \A p \in Meanings : LoadOne(t, i[p], Packets[p], LoadRef(t, i)[p])
<1>1. ASSUME NEW p \in Meanings
      PROVE  LoadOne(t, i[p], Packets[p], LoadMeaning(t, i[p], Packets[p]))
  <2>1. i[p] \in NumberRef /\ PacketType(Packets[p])
    BY Packet DEF NumberRefs
  <2>2. ProtoMeaning(t.proto, Packets[p]) \in Verdict3
    BY ProtoTyped DEF LoadType
  <2>. QED  BY <2>1, <2>2, LoadRefOne
<1>2. \A p \in Meanings : LoadRef(t, i)[p] = LoadMeaning(t, i[p], Packets[p])
  BY DEF LoadRef
<1>3. \A p \in Meanings : LoadMeaning(t, i[p], Packets[p]) \in NumberRef
  BY <1>1 DEF LoadOne
<1>4. LoadRef(t, i) \in NumberRefs
  BY ONLY <1>3 DEF LoadRef, NumberRefs
<1>. QED  BY <1>1, <1>2, <1>4

(* A load without failure: its parts.                                      *)
LoadParts(gs, lo, t, a, i, part, c) ==
  /\ PartIn(expr, gs, lo, t.proto, part) /\ ~part.cs.failed
  /\ ChecksMade(expr, part.cs, lo, c, Checks(LoadRef(t, i)))
  /\ GenLoad(gs, t.proto, t.size, a) =
       ResultIn(AllocReg(FreeReg(c.cs, a.reg)), PlaceOf(part.stmts, a, t.size, OffsetOf(t.proto)), c.blk)

LEMMA OffsetWord ==
  ASSUME NEW proto \in Protos
  PROVE  OffsetOf(proto) \in Word
  BY HeaderWord DEF OffsetOf, HeaderAt, Protos

LEMMA LoadPartsRight ==
  ASSUME NEW gs \in CsType, ~gs.failed, NEW lo \in Nat, lo <= Len(gs.blocks),
         gs.prefixed <=> expr \in Prefixed, NEW t, LoadType(t), t.proto # "link" => ~gs.prefixed,
         NEW a, Arithmetic(a), NEW i \in NumberRefs, NumberIn(expr, gs, lo, a, i),
         ~GenLoad(gs, t.proto, t.size, a).cs.failed
  PROVE  LET part == LoadPart(gs, t.proto)
         IN  LoadParts(gs, lo, t, a, i, part, ChecksOf(part.cs, t.proto, a.b))
<1>. DEFINE m == GenLoad(gs, t.proto, t.size, a)
            part == LoadPart(gs, t.proto)
            y == part.cs
            c == ChecksOf(y, t.proto, a.b)
            s == PlaceOf(part.stmts, a, t.size, OffsetOf(t.proto))
            ref == Checks(LoadRef(t, i))
<1>1. PartIn(expr, gs, lo, t.proto, part)
  BY PartRight DEF LoadType
<1>2. m = ResultIn(AllocReg(FreeReg(c.cs, a.reg)), s, c.blk)
  <2>1. m = ResultIn(ReplaceReg(c.cs, a.reg),
                     a.s \o Indexed(part.stmts, a) \o << LdInd(t.size, OffsetOf(t.proto)) >>, c.blk)
    BY DEF GenLoad, LoadWith, LoadAfter
  <2>. HIDE DEF part
  <2>2. a.s \o Indexed(part.stmts, a) \o << LdInd(t.size, OffsetOf(t.proto)) >> = s
    BY <1>1, PlaceShape, OffsetWord, ZenonT(30) DEF PartIn, LoadType
  <2>. QED  BY ONLY <2>1, <2>2 DEF ReplaceReg
<1>. HIDE DEF part, s, m
<1>3. y \in CsType /\ y.blocks = gs.blocks /\ Later(gs, y, lo) /\ y.prefixed = gs.prefixed
      /\ (t.proto # "link" => y = gs)
  BY <1>1 DEF PartIn, Later
<1>4. ~y.failed
  <2>1. CASE t.proto # "link"
    BY <1>3, <2>1
  <2>2. CASE t.proto = "link"
    <3>. DEFINE f == FreeReg(y, a.reg)
    <3>. HIDE DEF y
    <3>1. c.cs = y
      BY <2>2 DEF ChecksOf
    <3>2. f \in CsType /\ f.failed = y.failed
      BY <1>3, FreeRight
    <3>3. m.cs = AllocReg(f).cs
      BY <1>2, <3>1 DEF ResultIn
    <3>4. Later(f, AllocReg(f).cs, lo)
      <4>. HIDE DEF f
      <4>. QED  BY <3>2, AllocRight
    <3>5. ~m.cs.failed
      BY DEF m
    <3>. QED  BY <3>2, <3>3, <3>4, <3>5 DEF Later
  <2>. QED  BY <2>1, <2>2
<1>5. Sooner(gs.linkreg, y.linkreg)
  BY <1>3, <1>4 DEF Later
<1>. DEFINE r0 == Checks(i)
            b == a.b
<1>6. r0 \in Refs /\ b \in Nat
  BY ChecksTyped, ArthFields
<1>7. ChecksIn(expr, y, lo, b, r0)
  <2>1. ChecksFor(expr, gs.blocks, gs.linkreg, b, r0, Span(gs, lo), Count(gs, lo))
    BY DEF NumberIn, NumberFor
  <2>2. Span(y, lo) = Span(gs, lo) /\ Count(y, lo) = Count(gs, lo)
    BY <1>3 DEF Span, Count
  <2>. HIDE DEF r0, b, y
  <2>. DEFINE A == Span(gs, lo)
              n == Count(gs, lo)
              w == gs.blocks
  <2>3. n \in Nat /\ w \in Seq(Block) /\ Len(w) \in Nat
    BY Sized DEF Count
  <2>4. ChecksFor(expr, w, gs.linkreg, b, r0, A, n)
    BY <2>1
  <2>. HIDE DEF A, n, w
  <2>5. ChecksFor(expr, w, y.linkreg, b, r0, A, n)
    <3>1. A \subseteq A /\ n <= n /\ Len(w) >= Len(w)
      BY <2>3
    <3>. QED  BY <1>5, <2>3, <2>4, <3>1, ChecksKept
  <2>. QED  BY <1>3, <2>2, <2>5 DEF ChecksIn, A, n, w
<1>8. ref = [p \in Meanings |-> And3(r0[p], ProtoMeaning(t.proto, Packets[p]))]
  <2>1. \A p \in Meanings : LoadRef(t, i)[p].check = And3(i[p].check, ProtoMeaning(t.proto, Packets[p]))
    BY LoadRefTyped DEF LoadOne
  <2>2. \A p \in Meanings : r0[p] = i[p].check
    BY DEF Checks
  <2>. HIDE DEF r0
  <2>. QED  BY ONLY <2>1, <2>2 DEF Checks
<1>. HIDE DEF r0, b, y, ref
<1>9. ChecksMade(expr, y, lo, ChecksOf(y, t.proto, b), ref)
  <2>1. t.proto # "link" => expr \notin Prefixed /\ ~y.prefixed
    BY <1>3
  <2>2. lo <= Len(y.blocks)
    BY <1>3
  <2>. QED  BY <1>3, <1>4, <1>6, <1>7, <1>8, <2>1, <2>2, ChecksOfRight DEF LoadType
<1>. QED  BY <1>1, <1>2, <1>4, <1>9 DEF LoadParts, m, s, y, part, b, ref

LEMMA LoadResult ==
  ASSUME NEW gs \in CsType, LinkOwned(gs), NEW lo \in Nat, NEW t, LoadType(t),
         NEW a, Arithmetic(a), a.reg \in Owners(gs), NEW i, NEW part, NEW c,
         LoadParts(gs, lo, t, a, i, part, c), ~GenLoad(gs, t.proto, t.size, a).cs.failed
  PROVE  LET m == GenLoad(gs, t.proto, t.size, a)
             s == PlaceOf(part.stmts, a, t.size, OffsetOf(t.proto))
         IN  /\ Later(gs, m.cs, lo) /\ m.arth \in ArthType
             /\ m.cs.blocks = c.cs.blocks /\ m.cs.linkreg = c.cs.linkreg /\ m.arth.b = c.blk
             /\ m.arth.reg \notin Owners(gs) \ {a.reg}
             /\ Owners(m.cs) = (Owners(gs) \ {a.reg}) \cup {m.arth.reg}
             /\ m.arth.s = Append(s, St(m.arth.reg)) /\ Stores(m.arth.s) = Stores(a.s) \cup {m.arth.reg}
             /\ Len(m.arth.s) # 2
             /\ Sooner(gs.linkreg, c.cs.linkreg) /\ Sooner(part.cs.linkreg, c.cs.linkreg)
<1>. DEFINE m == GenLoad(gs, t.proto, t.size, a)
            k == OffsetOf(t.proto)
            s == PlaceOf(part.stmts, a, t.size, k)
            y == part.cs
            x == c.cs
            b == c.blk
            f == FreeReg(x, a.reg)
<1>1. /\ Later(gs, y, lo) /\ Held(gs, y) /\ ~y.failed /\ part.stmts \in Seq(Stmt) /\ Stores(part.stmts) = {}
      /\ Later(y, x, lo) /\ Held(y, x) /\ ~x.failed /\ b \in Nat
      /\ m = ResultIn(AllocReg(f), s, b)
  BY DEF LoadParts, PartIn, ChecksMade
<1>2. ~m.cs.failed
  OBVIOUS
<1>3. /\ s \in Seq(Stmt) /\ Stores(s) = Stores(a.s)
      /\ \A reg \in Slot : Len(Append(s, St(reg))) # 2
  BY <1>1, PlaceShape, OffsetWord DEF LoadType
<1>. HIDE DEF m, s, y, x, b
<1>4. Later(gs, x, lo) /\ Held(gs, x)
  BY <1>1, LaterTwice
<1>5. x \in CsType /\ LinkOwned(x) /\ Owners(x) = Owners(gs) /\ Sooner(gs.linkreg, x.linkreg)
      /\ Sooner(y.linkreg, x.linkreg)
  BY <1>1, <1>4 DEF Later, Held
<1>6. a.reg # x.linkreg
  BY <1>5 DEF Owners
<1>7. /\ f \in CsType /\ f.blocks = x.blocks /\ f.linkreg = x.linkreg /\ f.failed = x.failed
      /\ Later(x, f, lo) /\ Owners(f) = Owners(x) \ {a.reg}
  BY <1>5, <1>6, FreeRight
<1>. HIDE DEF f
<1>8. LinkOwned(f)
  BY <1>1, <1>5, <1>7 DEF Later
<1>9. ResultOf(f, lo, s, b, m)
  BY <1>1, <1>2, <1>3, <1>7, <1>8, ResultRight
<1>10. /\ Later(f, m.cs, lo) /\ m.cs.blocks = f.blocks /\ m.cs.linkreg = f.linkreg
       /\ m.arth \in ArthType /\ m.arth.reg \in Slot /\ m.arth.reg \notin Owners(f)
       /\ Owners(m.cs) = Owners(f) \cup {m.arth.reg}
       /\ m.arth.s = Append(s, St(m.arth.reg)) /\ m.arth.b = b
       /\ Stores(m.arth.s) = Stores(s) \cup {m.arth.reg}
  BY ONLY <1>1, <1>9 DEF ResultOf
<1>11. Later(gs, m.cs, lo)
  <2>1. Later(gs, f, lo)
    BY <1>4, <1>7, LaterTwice
  <2>. QED  BY <1>10, <2>1, LaterTwice
<1>12. Len(m.arth.s) # 2
  BY <1>3, <1>10
<1>. QED  BY <1>3, <1>5, <1>7, <1>10, <1>11, <1>12 DEF m, s, y, x, b

LEMMA LoadRight ==
  ASSUME NEW gs \in CsType, LinkOwned(gs), ~gs.failed, NEW lo \in Nat, lo <= Len(gs.blocks),
         gs.prefixed <=> expr \in Prefixed, NEW t, LoadType(t), t.proto # "link" => ~gs.prefixed,
         NEW a, Arithmetic(a), a.reg \in Owners(gs), NEW i \in NumberRefs, NumberIn(expr, gs, lo, a, i),
         ~GenLoad(gs, t.proto, t.size, a).cs.failed
  PROVE  NumberMade(expr, gs, lo, GenLoad(gs, t.proto, t.size, a), LoadRef(t, i), {a.reg}, Stores(a.s))
<1>. DEFINE m == GenLoad(gs, t.proto, t.size, a)
            part == LoadPart(gs, t.proto)
            c == ChecksOf(part.cs, t.proto, a.b)
            k == OffsetOf(t.proto)
            s == PlaceOf(part.stmts, a, t.size, k)
            ref == LoadRef(t, i)
            n == m.arth
            lr == c.cs.linkreg
<1>1. LoadParts(gs, lo, t, a, i, part, c)
  BY LoadPartsRight
<1>2. ~m.cs.failed
  OBVIOUS
<1>. HIDE DEF part, c
<1>3. /\ Later(gs, m.cs, lo) /\ n \in ArthType
      /\ m.cs.blocks = c.cs.blocks /\ m.cs.linkreg = lr /\ n.b = c.blk
      /\ n.reg \notin Owners(gs) \ {a.reg}
      /\ Owners(m.cs) = (Owners(gs) \ {a.reg}) \cup {n.reg}
      /\ n.s = Append(s, St(n.reg)) /\ Stores(n.s) = Stores(a.s) \cup {n.reg}
      /\ Len(n.s) # 2
      /\ Sooner(gs.linkreg, lr) /\ Sooner(part.cs.linkreg, lr)
  BY <1>1, LoadResult
<1>. HIDE DEF m, n, lr
<1>4. ref \in NumberRefs /\ \A p \in Meanings : LoadOne(t, i[p], Packets[p], ref[p])
  BY LoadRefTyped
<1>. HIDE DEF ref
<1>5. k \in Word /\ t.size \in {1, 2, 4} /\ n.reg \in Slot /\ lr \in Slot \cup {NoReg}
  BY <1>3, OffsetWord DEF LoadType, ArthType, Later, CsType
<1>6. PartIn(expr, gs, lo, t.proto, part)
  BY <1>1 DEF LoadParts
<1>7. part.stmts \in Seq(Stmt) /\ Stores(part.stmts) = {}
  BY <1>6 DEF PartIn
<1>. HIDE DEF k
<1>8. s \in Seq(Stmt) /\ Stores(s) = Stores(a.s)
  BY <1>5, <1>7, PlaceShape
<1>9. Arithmetic(n)
  BY <1>3 DEF Arithmetic, IsNumber
<1>10. LeavesAll(expr, lr, n, ref)
  <2>1. ASSUME NEW p \in Meanings, ~ref[p].bad
        PROVE  ref[p].check = "yes"
               /\ Leaves(n.s, n.reg, lr, Pre(expr, Packets[p]), Packets[p], ref[p].v)
    <3>. DEFINE q == Packets[p]
                v == Pre(expr, q)
                y == BaseOf(expr, t.proto, q)
                x == i[p].v
                z == ref[p].v
    <3>1. /\ ref[p].check = "yes" /\ ~i[p].bad /\ (t.proto = "tcp" => HeaderAt < q.len)
          /\ k + (y + x) + t.size <= q.len /\ z = Fetch(q.at, k + (y + x), t.size)
      BY <1>4, <2>1 DEF LoadOne, k
    <3>2. y \in Word /\ Bases(part.stmts, part.cs.linkreg, v, q, y)
      BY <1>6, <3>1 DEF PartIn
    <3>3. Leaves(a.s, a.reg, gs.linkreg, v, q, x)
      BY <3>1 DEF NumberIn, NumberFor, LeavesAll
    <3>4. PacketType(q) /\ x \in Word
      BY Packet DEF NumberRefs, NumberRef
    <3>. HIDE DEF q, v, y, x, z, s
    <3>5. Bases(part.stmts, lr, v, q, y)
      BY <1>3, <3>2, BasesLater
    <3>6. Leaves(a.s, a.reg, lr, v, q, x)
      BY <1>3, <3>3, ArthFields, LeavesLater
    <3>7. ASSUME NEW u, Ready(u, lr, v), lr \notin Stores(s)
          PROVE  LET w == PerformAll(u, s, q)
                 IN  w \in Machine /\ ~w.halted /\ w.a = z
      <4>1. lr \notin Stores(a.s)
        BY <1>8, <3>7
      <4>2. LET w == PerformAll(u, PlaceOf(part.stmts, a, t.size, k), q)
            IN  w \in Machine /\ ~w.halted /\ w.a = Fetch(q.at, k + (y + x), t.size)
        BY <1>5, <1>7, <3>1, <3>2, <3>4, <3>5, <3>6, <3>7, <4>1, PlaceDo
      <4>. QED  BY <3>1, <4>2 DEF s
    <3>8. Leaves(Append(s, St(n.reg)), n.reg, lr, v, q, z)
      BY <1>5, <1>8, <3>4, <3>7, StoredLeaves
    <3>. QED  BY <1>3, <3>1, <3>8 DEF q, v, z
  <2>. QED  BY ONLY <2>1 DEF LeavesAll
<1>11. ChecksFor(expr, m.cs.blocks, m.cs.linkreg, n.b, Checks(ref), Span(m.cs, lo), Count(m.cs, lo))
  <2>1. ChecksIn(expr, c.cs, lo, c.blk, Checks(ref))
    BY <1>1 DEF LoadParts, ChecksMade, ref
  <2>2. Span(m.cs, lo) = Span(c.cs, lo) /\ Count(m.cs, lo) = Count(c.cs, lo)
    BY <1>3 DEF Span, Count
  <2>. QED  BY <1>3, <2>1, <2>2 DEF ChecksIn, lr
<1>12. NumberIn(expr, m.cs, lo, n, ref)
  BY <1>3, <1>10, <1>11 DEF NumberIn, NumberFor
<1>13. NumberMade(expr, gs, lo, m, ref, {a.reg}, Stores(a.s))
  BY <1>3, <1>4, <1>9, <1>12 DEF NumberMade, n
<1>. QED  BY <1>13 DEF m, ref

-----------------------------------------------------------------------------
(***************************************************************************)
(* Relations (gen_relation).                                               *)
(***************************************************************************)

AfterIn(e, gs, lr, m, ref, A, n) ==
  /\ OnlyBlocks(gs, m.cs, A) /\ Len(m.cs.blocks) = Len(gs.blocks)
  /\ BlockFor(e, m.cs.blocks, lr, m.blk, ref, A, n)

(* The checks of an operand before a block.                                *)
LEMMA AfterRight ==
  ASSUME NEW gs \in CsType, NEW e, NEW lr, NEW b, NEW y, y.cs = gs,
         NEW ref0 \in Refs, NEW ref1 \in Refs, NEW A0, NEW A1, NEW n0 \in Nat, NEW n1 \in Nat,
         ChecksFor(e, gs.blocks, lr, b, ref0, A0, n0), BlockFor(e, gs.blocks, lr, y.blk, ref1, A1, n1),
         A0 \cap A1 = {}, n0 + n1 <= Len(gs.blocks),
         NEW ref, \A p \in Meanings : ref[p] = And3(ref0[p], ref1[p])
  PROVE  AfterIn(e, gs, lr, After(b, y), ref, A0 \cup A1, n0 + n1)
<1>1. CASE b = Nil
  <2>1. After(b, y) = y
    BY <1>1 DEF After
  <2>2. \A p \in Meanings : ref[p] # "reject" => ref[p] = ref1[p]
    BY <1>1 DEF ChecksFor, And3
  <2>. DEFINE w == gs.blocks
              B == A0 \cup A1
              n == n0 + n1
              c == y.blk
  <2>3. w \in Seq(Block) /\ Len(w) \in Nat /\ A1 \subseteq B /\ n \in Nat /\ n1 <= n /\ Len(w) >= Len(w)
    BY Sized
  <2>4. BlockFor(e, w, lr, c, ref1, A1, n1) /\ Sooner(lr, lr)
    BY DEF Sooner
  <2>. HIDE DEF w, B, n, c
  <2>5. BlockFor(e, w, lr, c, ref, B, n)
    BY ONLY <2>2, <2>3, <2>4, BlockKept
  <2>6. OnlyBlocks(gs, gs, B)
    BY NoChange
  <2>. QED  BY <2>1, <2>5, <2>6 DEF AfterIn, w, B, n, c
<1>2. CASE b # Nil
  <2>1. After(b, y) = GenAnd(gs, b, y.blk)
    BY <1>2 DEF After
  <2>2. BlockFor(e, gs.blocks, lr, b, ref0, A0, n0)
    BY <1>2 DEF ChecksFor
  <2>. DEFINE c == y.blk
              m == GenAnd(gs, b, c)
  <2>3. BlockFor(e, gs.blocks, lr, c, ref1, A1, n1) /\ ref0 \in [Meanings -> Verdict3]
        /\ ref1 \in [Meanings -> Verdict3]
    BY DEF Refs
  <2>. HIDE DEF c
  <2>4. /\ OnlyBlocks(gs, m.cs, A0 \cup A1) /\ Len(m.cs.blocks) = Len(gs.blocks)
        /\ BlockFor(e, m.cs.blocks, lr, m.blk, ref, A0 \cup A1, n0 + n1)
    BY ONLY gs \in CsType, n0 \in Nat, n1 \in Nat, A0 \cap A1 = {}, n0 + n1 <= Len(gs.blocks),
            \A p \in Meanings : ref[p] = And3(ref0[p], ref1[p]), <2>2, <2>3, AndRight
  <2>. HIDE DEF m
  <2>5. AfterIn(e, gs, lr, m, ref, A0 \cup A1, n0 + n1)
    BY <2>4 DEF AfterIn
  <2>. QED  BY <2>1, <2>5 DEF m, c
<1>. QED  BY <1>1, <1>2

(* A block in the place of its operands.                                   *)
BlockMade(e, gs, lo, m, ref, gone) ==
  /\ ref \in Refs /\ Later(gs, m.cs, lo) /\ ~m.cs.failed
  /\ BlockIn(e, m.cs, lo, m.blk, ref)
  /\ Owners(m.cs) = Owners(gs) \ gone

TestRef(t, l, r) ==
  [p \in Meanings |-> IF l[p].bad \/ r[p].bad THEN "reject"
                      ELSE Truth(Holds(t.fn, l[p].v, r[p].v) # t.reversed)]
RelRef(t, l, r) == [p \in Meanings |-> RelMeaning(t, l[p], r[p])]
RelType(t) == t.fn \in CondFn /\ t.reversed \in BOOLEAN
TestBlock(gs, t, a0, a1) == Reversed(NewBlock(gs, Operands(a0, a1), Jmp(t.fn, "x", 0)), t.reversed)

LEMMA TestSays ==
  ASSUME NEW gs \in CsType, NEW e, NEW t, RelType(t), NEW a0, NEW a1, TwoOperands(a0, a1),
         NEW l, NEW r, LeavesAll(e, gs.linkreg, a0, l), LeavesAll(e, gs.linkreg, a1, r),
         NEW p \in Meanings, ~l[p].bad, ~r[p].bad
  PROVE  Says([stmts |-> Operands(a0, a1), br |-> Jmp(t.fn, "x", 0)], gs.linkreg, Pre(e, Packets[p]),
              Packets[p], Holds(t.fn, l[p].v, r[p].v))
<1>. DEFINE q == Packets[p]
            v == Pre(e, q)
            lr == gs.linkreg
            s == Operands(a0, a1)
            j == Jmp(t.fn, "x", 0)
            blk == [stmts |-> s, br |-> j]
            x0 == l[p].v
            x1 == r[p].v
<1>1. Leaves(a0.s, a0.reg, lr, v, q, x0) /\ Leaves(a1.s, a1.reg, lr, v, q, x1)
  BY DEF LeavesAll
<1>2. PacketType(q) /\ lr \in Slot \cup {NoReg}
  BY Packet DEF CsType
<1>3. blk.stmts = s /\ blk.br = j /\ j.fn = t.fn /\ j.src = "x"
  BY DEF Jmp, Op
<1>. HIDE DEF q, v, lr, s, j, blk, x0, x1
<1>4. ASSUME NEW m, Ready(m, lr, v), lr \notin Stores(s)
      PROVE  LET u == PerformAll(m, s, q)
             IN  ~u.halted /\ (Holds(j.fn, u.a, Operand(u, j)) <=> Holds(t.fn, x0, x1))
  <2>. DEFINE u == PerformAll(m, s, q)
  <2>1. Holding(u, x0, x1, u.mem)
    BY <1>1, <1>2, <1>4, OperandsDo DEF s
  <2>. HIDE DEF u
  <2>2. ~u.halted /\ u.a = x0 /\ u.x = x1
    BY <2>1 DEF Holding
  <2>3. Operand(u, j) = u.x
    BY <1>3 DEF Operand
  <2>. QED  BY ONLY <1>3, <2>2, <2>3 DEF u
<1>5. Says(blk, lr, v, q, Holds(t.fn, x0, x1))
  BY ONLY <1>3, <1>4 DEF Says
<1>. QED  BY <1>5 DEF q, v, lr, s, j, blk, x0, x1

LEMMA TestRight ==
  ASSUME NEW gs \in CsType, ~gs.failed, NEW e, NEW t, RelType(t), NEW a0, NEW a1, TwoOperands(a0, a1),
         NEW l \in NumberRefs, NEW r \in NumberRefs,
         LeavesAll(e, gs.linkreg, a0, l), LeavesAll(e, gs.linkreg, a1, r)
  PROVE  Checked(e, gs, TestBlock(gs, t, a0, a1), TestRef(t, l, r))
<1>. DEFINE s == Operands(a0, a1)
            j == Jmp(t.fn, "x", 0)
            ref == TestRef(t, l, r)
            m == TestBlock(gs, t, a0, a1)
<1>1. s \in Seq(Stmt) /\ j \in Test1
  BY OperandsShape, Jumps1, Small DEF RelType
<1>2. ref \in Refs
  BY DEF TestRef, Refs, Truth, Verdict3
<1>3. ASSUME NEW p \in Meanings, ref[p] # "reject"
      PROVE  Says([stmts |-> s, br |-> j], gs.linkreg, Pre(e, Packets[p]), Packets[p],
                  IF t.reversed THEN ref[p] = "no" ELSE ref[p] = "yes")
  <2>. DEFINE h == Holds(t.fn, l[p].v, r[p].v)
  <2>1. ~l[p].bad /\ ~r[p].bad /\ ref[p] = Truth(h # t.reversed)
    BY <1>3 DEF TestRef
  <2>2. Says([stmts |-> s, br |-> j], gs.linkreg, Pre(e, Packets[p]), Packets[p], h)
    BY <2>1, TestSays
  <2>3. h \in BOOLEAN
    BY DEF Holds
  <2>. HIDE DEF h, ref
  <2>4. (IF t.reversed THEN ref[p] = "no" ELSE ref[p] = "yes") = h
    BY <2>1, <2>3 DEF Truth, RelType
  <2>. QED  BY <2>2, <2>4
<1>. HIDE DEF ref
<1>4. MadeFrom(e, gs, Len(gs.blocks), Reversed(NewBlock(gs, s, j), t.reversed), ref)
  <2>. HIDE DEF s, j
  <2>. QED  BY <1>1, <1>2, <1>3, ReversedMade DEF RelType
<1>5. MadeFrom(e, gs, Len(gs.blocks), m, ref)
  BY <1>4 DEF TestBlock
<1>6. ~m.cs.failed
  <2>. DEFINE y == NewBlock(gs, s, j)
  <2>1. y.cs \in CsType /\ y.cs.failed = gs.failed
    <3>1. OnlyBlocks(gs, y.cs, {})
      BY <1>1, NewBlockShape DEF Test1
    <3>. QED  BY <3>1 DEF OnlyBlocks
  <2>2. m = Reversed(y, t.reversed)
    BY DEF TestBlock
  <2>. HIDE DEF y, m
  <2>3. \A b : GenNot(y.cs, b).cs.failed = y.cs.failed
    BY <2>1, NotFailing
  <2>. QED  BY <2>1, <2>2, <2>3 DEF Reversed
<1>. HIDE DEF m
<1>7. Checked(e, gs, m, ref)
  BY <1>2, <1>5, <1>6 DEF Checked
<1>. QED  BY <1>7 DEF m, ref

LEMMA AfterKeeps ==
  ASSUME NEW gs \in CsType, NEW lo \in Nat, lo <= Len(gs.blocks), NEW e, NEW lr, NEW m, NEW ref,
         NEW A, \A c \in A : ~(c \in 1 .. lo), NEW n, AfterIn(e, gs, lr, m, ref, A, n)
  PROVE  /\ Later(gs, m.cs, lo) /\ Held(gs, m.cs) /\ m.cs.failed = gs.failed /\ m.cs.linkreg = gs.linkreg
         /\ m.cs \in CsType
<1>. DEFINE y == m.cs
<1>. HIDE DEF y
<1>1. OnlyBlocks(gs, y, A)
  BY DEF AfterIn, y
<1>2. Later(gs, y, lo) /\ Held(gs, y) /\ y.failed = gs.failed /\ y.linkreg = gs.linkreg
  BY <1>1, LaterBlocks
<1>. QED  BY <1>2 DEF y, Later

(* The comparison, and the registers of its operands free again.           *)
TestFreed(gs, t, a0, a1) ==
  [TestBlock(gs, t, a0, a1) EXCEPT !.cs = FreeReg(FreeReg(@, a0.reg), a1.reg)]

TestMade(e, gs, N, x, ref, gone) ==
  /\ x.cs \in CsType /\ Later(gs, x.cs, N) /\ ~x.cs.failed
  /\ Owners(x.cs) = Owners(gs) \ gone
  /\ BlockFor(e, x.cs.blocks, x.cs.linkreg, x.blk, ref, Span(x.cs, N), Count(x.cs, N))

LEMMA TestFreedRight ==
  ASSUME NEW gs \in CsType, LinkOwned(gs), ~gs.failed, NEW e, NEW t, RelType(t),
         NEW a0, NEW a1, TwoOperands(a0, a1), a0.reg \in Owners(gs), a1.reg \in Owners(gs),
         NEW l \in NumberRefs, NEW r \in NumberRefs,
         LeavesAll(e, gs.linkreg, a0, l), LeavesAll(e, gs.linkreg, a1, r)
  PROVE  TestMade(e, gs, Len(gs.blocks), TestFreed(gs, t, a0, a1), TestRef(t, l, r), {a0.reg, a1.reg})
         /\ TestRef(t, l, r) \in Refs
<1>. DEFINE y == TestBlock(gs, t, a0, a1)
            z == y.cs
            b == y.blk
            N == Len(gs.blocks)
            ref == TestRef(t, l, r)
            f == Freed(z, a0.reg, a1.reg)
            x == TestFreed(gs, t, a0, a1)
<1>1. Checked(e, gs, y, ref)
  BY TestRight
<1>2. x.cs = f /\ x.blk = b
  <2>1. y = [cs |-> z, blk |-> b]
    <3>1. \A stmts, br : LET m == NewBlock(gs, stmts, br) IN m = [cs |-> m.cs, blk |-> m.blk]
      BY DEF NewBlock
    <3>2. \A m : LET k == GenNot(m.cs, m.blk) IN k = [cs |-> k.cs, blk |-> k.blk]
      BY DEF GenNot
    <3>. QED  BY <3>1, <3>2 DEF TestBlock, Reversed
  <2>2. x = [y EXCEPT !.cs = f]
    BY DEF TestFreed, Freed
  <2>. HIDE DEF x, y, f, z, b
  <2>. QED  BY ONLY <2>1, <2>2
<1>. HIDE DEF x, y, ref
<1>3. ref \in Refs /\ MadeFrom(e, gs, N, y, ref) /\ ~z.failed
  BY <1>1 DEF Checked
<1>4. Later(gs, z, N) /\ Held(gs, z) /\ BlockIn(e, z, N, b, ref) /\ z \in CsType
  BY <1>3 DEF MadeFrom, Later
<1>. HIDE DEF z, b, f
<1>5. LinkOwned(z) /\ Owners(z) = Owners(gs) /\ N \in Nat
  BY <1>3, <1>4, Sized DEF Later, Held
<1>6. /\ f \in CsType /\ Later(z, f, N) /\ LinkOwned(f) /\ ~f.failed
      /\ f.blocks = z.blocks /\ f.linkreg = z.linkreg
      /\ Owners(f) = Owners(z) \ {a0.reg, a1.reg}
  BY <1>3, <1>4, <1>5, FreedRight DEF f
<1>7. Later(gs, f, N)
  BY <1>4, <1>5, <1>6, LaterTwice
<1>8. Span(f, N) = Span(z, N) /\ Count(f, N) = Count(z, N)
  BY <1>6 DEF Span, Count
<1>9. BlockFor(e, f.blocks, f.linkreg, b, ref, Span(f, N), Count(f, N))
  BY <1>4, <1>6, <1>8 DEF BlockIn
<1>10. TestMade(e, gs, N, x, ref, {a0.reg, a1.reg})
  BY <1>2, <1>5, <1>6, <1>7, <1>9 DEF TestMade
<1>. QED  BY <1>3, <1>10 DEF x, ref

(* The two operands' checks are in different blocks.                       *)
Cut2(gs, e, lo, mid, a0, l, a1, r) ==
  /\ lo \in Nat /\ mid \in Nat /\ lo <= mid /\ mid <= Len(gs.blocks)
  /\ NumberFor(e, gs.blocks, gs.linkreg, a0, l, lo + 1 .. mid, mid - lo)
  /\ NumberFor(e, gs.blocks, gs.linkreg, a1, r, mid + 1 .. Len(gs.blocks), Len(gs.blocks) - mid)

LEMMA Intervals ==
  ASSUME NEW lo \in Nat, NEW mid \in Nat, NEW N \in Nat, NEW M \in Nat, lo <= mid, mid <= N, N <= M
  PROVE  LET A0 == lo + 1 .. mid
             A1 == mid + 1 .. N
             T == N + 1 .. M
             n0 == mid - lo
             n1 == N - mid
             nt == M - N
         IN  /\ A0 \cap T = {} /\ A1 \cap (A0 \cup T) = {} /\ n0 \in Nat /\ n1 \in Nat /\ nt \in Nat
             /\ n0 + nt \in Nat /\ n0 + nt <= M /\ n1 + (n0 + nt) <= M
             /\ n1 + (n0 + nt) = M - lo /\ A1 \cup (A0 \cup T) = lo + 1 .. M
             /\ A0 \subseteq 1 .. N /\ A1 \subseteq 1 .. N
             /\ \A c \in A0 \cup T : ~(c \in 1 .. lo)
             /\ \A c \in A1 \cup (A0 \cup T) : ~(c \in 1 .. lo)
<1>1. /\ mid - lo \in Nat /\ N - mid \in Nat /\ M - N \in Nat /\ (mid - lo) + (M - N) \in Nat
      /\ (mid - lo) + (M - N) <= M /\ (N - mid) + ((mid - lo) + (M - N)) = M - lo /\ M - lo <= M
  OBVIOUS
<1>2. (mid + 1 .. N) \cup ((lo + 1 .. mid) \cup (N + 1 .. M)) = lo + 1 .. M
  OBVIOUS
<1>3. (lo + 1 .. mid) \cap (N + 1 .. M) = {} /\ (mid + 1 .. N) \cap ((lo + 1 .. mid) \cup (N + 1 .. M)) = {}
  OBVIOUS
<1>4. lo + 1 .. mid \subseteq 1 .. N /\ mid + 1 .. N \subseteq 1 .. N
  OBVIOUS
<1>5. \A c \in lo + 1 .. M : ~(c \in 1 .. lo)
  OBVIOUS
<1>6. (lo + 1 .. mid) \cup (N + 1 .. M) \subseteq lo + 1 .. M
  OBVIOUS
<1>. QED  BY ONLY <1>1, <1>2, <1>3, <1>4, <1>5, <1>6

LEMMA RelRight ==
  ASSUME NEW gs \in CsType, LinkOwned(gs), ~gs.failed, NEW e, NEW t, RelType(t),
         NEW a0, NEW a1, TwoOperands(a0, a1), a0.reg \in Owners(gs), a1.reg \in Owners(gs),
         NEW l \in NumberRefs, NEW r \in NumberRefs, NEW lo, NEW mid, Cut2(gs, e, lo, mid, a0, l, a1, r)
  PROVE  BlockMade(e, gs, lo, GenRelation(gs, t.fn, a0, a1, t.reversed), RelRef(t, l, r),
                   {a0.reg, a1.reg})
<1>. DEFINE x == TestFreed(gs, t, a0, a1)
            f == x.cs
            w == f.blocks
            lr == f.linkreg
            N == Len(gs.blocks)
            N2 == Len(w)
            b0 == a0.b
            b1 == a1.b
            rt == TestRef(t, l, r)
            r0 == Checks(l)
            r1 == Checks(r)
            r2 == [p \in Meanings |-> And3(r0[p], rt[p])]
            y == After(b0, x)
            m == After(b1, y)
            ref == RelRef(t, l, r)
            A0 == lo + 1 .. mid
            A1 == mid + 1 .. N
            T == N + 1 .. N2
            n0 == mid - lo
            n1 == N - mid
            nt == N2 - N
            gone == {a0.reg, a1.reg}
<1>1. m = GenRelation(gs, t.fn, a0, a1, t.reversed)
  BY DEF GenRelation, TestFreed, TestBlock
<1>2. TestMade(e, gs, N, x, rt, gone) /\ rt \in Refs
  BY TestFreedRight DEF Cut2, NumberFor
<1>3. /\ r0 \in Refs /\ r1 \in Refs
      /\ ChecksFor(e, gs.blocks, gs.linkreg, b0, r0, A0, n0)
      /\ ChecksFor(e, gs.blocks, gs.linkreg, b1, r1, A1, n1)
      /\ lo \in Nat /\ mid \in Nat /\ lo <= mid /\ mid <= N
  BY ChecksTyped DEF Cut2, NumberFor
<1>4. \A p \in Meanings : ref[p] = And3(r1[p], r2[p])
  <2>1. \A p \in Meanings : r0[p] = l[p].check /\ r1[p] = r[p].check
    BY ChecksTyped
  <2>2. \A p \in Meanings : ref[p] = And3(r[p].check, And3(l[p].check, rt[p]))
    BY DEF RelRef, RelMeaning, TestRef
  <2>. HIDE DEF r0, r1, rt, ref
  <2>. QED  BY ONLY <2>1, <2>2
<1>5. ref = [p \in Meanings |-> And3(r1[p], r2[p])]
  <2>1. ref = [p \in Meanings |-> ref[p]]
    BY DEF RelRef
  <2>. HIDE DEF ref, r1, r2
  <2>. QED  BY ONLY <1>4, <2>1
<1>. HIDE DEF x, rt, r0, r1, ref, b0, b1
<1>6. r2 \in Refs /\ ref \in Refs
  <2>1. r2 \in Refs
    BY <1>2, <1>3, AndRefs
  <2>. HIDE DEF r2
  <2>. QED  BY <1>3, <1>5, <2>1, AndRefs
<1>7. \A p \in Meanings : r2[p] = And3(r0[p], rt[p])
  OBVIOUS
<1>. HIDE DEF r2
<1>8. /\ f \in CsType /\ Later(gs, f, N) /\ ~f.failed /\ Owners(f) = Owners(gs) \ gone
      /\ BlockFor(e, w, lr, x.blk, rt, T, nt)
  BY <1>2 DEF TestMade, Span, Count
<1>9. /\ gs.blocks \in Seq(Block) /\ w \in Seq(Block) /\ N \in Nat /\ N2 \in Nat /\ N2 >= N
      /\ \A c \in 1 .. N : w[c] = gs.blocks[c]
      /\ Sooner(gs.linkreg, lr) /\ lr = f.linkreg
  BY <1>8, Sized DEF Later
<1>. HIDE DEF f, y, m
<1>10. /\ A0 \cap T = {} /\ A1 \cap (A0 \cup T) = {} /\ n0 \in Nat /\ n1 \in Nat /\ nt \in Nat
       /\ n0 + nt \in Nat /\ n0 + nt <= N2 /\ n1 + (n0 + nt) <= N2
       /\ n1 + (n0 + nt) = N2 - lo /\ A1 \cup (A0 \cup T) = lo + 1 .. N2
       /\ A0 \subseteq 1 .. N /\ A1 \subseteq 1 .. N
       /\ \A c \in A0 \cup T : ~(c \in 1 .. lo)
       /\ \A c \in A1 \cup (A0 \cup T) : ~(c \in 1 .. lo)
  <2>1. lo \in Nat /\ mid \in Nat /\ N \in Nat /\ N2 \in Nat /\ lo <= mid /\ mid <= N /\ N <= N2
    BY ONLY <1>3, <1>9
  <2>. HIDE DEF N, N2
  <2>. QED  BY ONLY <2>1, Intervals
<1>11. ChecksFor(e, w, lr, b0, r0, A0, n0)
  <2>. DEFINE v == gs.blocks
              k == gs.linkreg
  <2>1. /\ v \in Seq(Block) /\ w \in Seq(Block) /\ Sooner(k, lr) /\ A0 \subseteq A0 /\ n0 <= n0 /\ n0 \in Nat
        /\ ChecksFor(e, v, k, b0, r0, A0, n0) /\ Len(w) >= Len(v)
        /\ \A c \in A0 : c \in 1 .. Len(v) => w[c] = v[c]
    BY <1>3, <1>9, <1>10
  <2>. HIDE DEF v, k, w, lr, A0, n0
  <2>. QED  BY ONLY <2>1, ChecksKept
<1>12. ChecksFor(e, w, lr, b1, r1, A1, n1)
  <2>. DEFINE v == gs.blocks
              k == gs.linkreg
  <2>1. /\ v \in Seq(Block) /\ w \in Seq(Block) /\ Sooner(k, lr) /\ A1 \subseteq A1 /\ n1 <= n1 /\ n1 \in Nat
        /\ ChecksFor(e, v, k, b1, r1, A1, n1) /\ Len(w) >= Len(v)
        /\ \A c \in A1 : c \in 1 .. Len(v) => w[c] = v[c]
    BY <1>3, <1>9, <1>10
  <2>. HIDE DEF v, k, w, lr, A1, n1
  <2>. QED  BY ONLY <2>1, ChecksKept
<1>. HIDE DEF A0, A1, T, n0, n1, nt
<1>13. AfterIn(e, f, lr, y, r2, A0 \cup T, n0 + nt)
  <2>1. x.cs = f /\ n0 + nt <= Len(f.blocks)
    BY <1>10 DEF f
  <2>2. ChecksFor(e, f.blocks, lr, b0, r0, A0, n0) /\ BlockFor(e, f.blocks, lr, x.blk, rt, T, nt)
    BY <1>8, <1>11
  <2>. HIDE DEF lr
  <2>. QED  BY ONLY <1>2, <1>3, <1>7, <1>8, <1>10, <2>1, <2>2, AfterRight DEF y
<1>14. /\ Later(f, y.cs, lo) /\ Held(f, y.cs) /\ y.cs.failed = f.failed /\ y.cs.linkreg = f.linkreg
       /\ y.cs \in CsType
  <2>. DEFINE A == A0 \cup T
              n == n0 + nt
  <2>1. lo <= Len(f.blocks) /\ \A c \in A : ~(c \in 1 .. lo)
    BY <1>3, <1>9, <1>10
  <2>2. AfterIn(e, f, lr, y, r2, A, n)
    BY <1>13
  <2>. HIDE DEF A, n, lr
  <2>. QED  BY <1>3, <1>8, <2>1, <2>2, AfterKeeps
<1>15. /\ OnlyBlocks(f, y.cs, A0 \cup T) /\ Len(y.cs.blocks) = N2
       /\ BlockFor(e, y.cs.blocks, lr, y.blk, r2, A0 \cup T, n0 + nt)
  BY <1>13 DEF AfterIn
<1>16. ChecksFor(e, y.cs.blocks, lr, b1, r1, A1, n1)
  <2>. DEFINE v == y.cs.blocks
  <2>1. /\ v \in Seq(Block) /\ Len(v) >= Len(w) /\ A1 \subseteq A1 /\ n1 <= n1 /\ n1 \in Nat
        /\ \A c \in A1 : c \in 1 .. Len(w) => v[c] = w[c]
    BY <1>9, <1>10, <1>14, <1>15, Sized DEF OnlyBlocks
  <2>. HIDE DEF v, w, lr, A1, n1
  <2>2. Sooner(lr, lr) /\ w \in Seq(Block)
    BY <1>9 DEF Sooner, w
  <2>. QED  BY ONLY <2>1, <2>2, <1>12, ChecksKept DEF v
<1>17. AfterIn(e, y.cs, lr, m, ref, A1 \cup (A0 \cup T), n1 + (n0 + nt))
  <2>. DEFINE A == A0 \cup T
              n == n0 + nt
              z == y.cs
  <2>1. /\ z \in CsType /\ y.cs = z /\ r1 \in Refs /\ r2 \in Refs /\ n1 \in Nat /\ n \in Nat
        /\ ChecksFor(e, z.blocks, lr, b1, r1, A1, n1) /\ BlockFor(e, z.blocks, lr, y.blk, r2, A, n)
        /\ A1 \cap A = {} /\ n1 + n <= Len(z.blocks)
    BY <1>3, <1>6, <1>10, <1>14, <1>15, <1>16
  <2>. HIDE DEF A, n, z, lr
  <2>2. AfterIn(e, z, lr, m, ref, A1 \cup A, n1 + n)
    BY ONLY <1>4, <2>1, AfterRight DEF m
  <2>. QED  BY <2>2 DEF A, n, z
<1>18. /\ Later(y.cs, m.cs, lo) /\ Held(y.cs, m.cs) /\ m.cs.failed = y.cs.failed
       /\ m.cs.linkreg = y.cs.linkreg
  <2>. DEFINE A == A1 \cup (A0 \cup T)
              n == n1 + (n0 + nt)
              z == y.cs
  <2>1. lo <= Len(z.blocks) /\ \A c \in A : ~(c \in 1 .. lo)
    BY <1>3, <1>9, <1>10, <1>15
  <2>2. AfterIn(e, z, lr, m, ref, A, n) /\ z \in CsType
    BY <1>14, <1>17
  <2>. HIDE DEF A, n, lr, z
  <2>3. Later(z, m.cs, lo) /\ Held(z, m.cs) /\ m.cs.failed = z.failed /\ m.cs.linkreg = z.linkreg
    BY <1>3, <2>1, <2>2, AfterKeeps
  <2>. QED  BY <2>3 DEF z
<1>19. Later(gs, m.cs, lo) /\ Owners(m.cs) = Owners(gs) \ gone
  <2>1. Later(gs, f, lo)
    BY <1>3, <1>8, <1>9, LaterLess
  <2>2. LinkOwned(f)
    BY <1>8 DEF Later
  <2>3. Later(gs, y.cs, lo)
    BY <1>3, <1>14, <2>1, LaterTwice
  <2>4. LinkOwned(y.cs) /\ Owners(y.cs) = Owners(f)
    BY <1>8, <1>14, <2>2 DEF Later, Held
  <2>5. Later(gs, m.cs, lo)
    BY <1>3, <1>18, <2>3, LaterTwice
  <2>6. Owners(m.cs) = Owners(y.cs)
    BY <1>8, <1>14, <1>18, <2>4 DEF Held
  <2>. QED  BY <1>8, <2>4, <2>5, <2>6
<1>20. BlockIn(e, m.cs, lo, m.blk, ref)
  <2>1. /\ BlockFor(e, m.cs.blocks, lr, m.blk, ref, A1 \cup (A0 \cup T), n1 + (n0 + nt))
        /\ Len(m.cs.blocks) = N2
    BY <1>15, <1>17 DEF AfterIn
  <2>2. lr = m.cs.linkreg
    BY <1>9, <1>14, <1>18
  <2>3. A1 \cup (A0 \cup T) = lo + 1 .. N2 /\ n1 + (n0 + nt) = N2 - lo
    BY <1>10
  <2>. HIDE DEF lr, N2
  <2>. QED  BY <2>1, <2>2, <2>3 DEF BlockIn, Span, Count
<1>21. BlockMade(e, gs, lo, m, ref, gone)
  BY <1>6, <1>8, <1>14, <1>18, <1>19, <1>20 DEF BlockMade
<1>. QED  BY <1>1, <1>21 DEF ref

-----------------------------------------------------------------------------
(***************************************************************************)
(* The parser's stack, and the inductive invariant of the parse.           *)
(***************************************************************************)

(***************************************************************************)
(* The parser's stack: its items have their blocks in the order in which   *)
(* they were made, and every number is in a register of its own that no    *)
(* later statement stores to.                                              *)
(***************************************************************************)
NumItem == [a : ArthType, ref : NumberRefs]
BlkItem == [b : Nat, ref : Refs]

ItemIs(e, gs, x, kind, lo, hi) ==
  \/ /\ kind = "number" /\ x \in NumItem /\ Arithmetic(x.a)
     /\ NumberFor(e, gs.blocks, gs.linkreg, x.a, x.ref, lo + 1 .. hi, hi - lo)
  \/ /\ kind = "block" /\ x \in BlkItem
     /\ BlockFor(e, gs.blocks, gs.linkreg, x.b, x.ref, lo + 1 .. hi, hi - lo)

StackIs(e, gs, s, kinds, cut) ==
  /\ s \in Seq(NumItem \cup BlkItem) /\ kinds \in Seq({"number", "block"}) /\ Len(s) = Len(kinds)
  /\ cut \in [0 .. Len(s) -> Nat] /\ \A j \in 1 .. Len(s) : cut[j - 1] <= cut[j]
  /\ cut[Len(s)] <= Len(gs.blocks)
  /\ \A j \in 1 .. Len(s) : ItemIs(e, gs, s[j], kinds[j], cut[j - 1], cut[j])

Numbers(kinds) == {j \in 1 .. Len(kinds) : kinds[j] = "number"}
RegsOf(s, J) == {s[j].a.reg : j \in J}

RegsIs(gs, s, kinds) ==
  /\ Owners(gs) = RegsOf(s, Numbers(kinds))
  /\ \A i, j \in Numbers(kinds) : i # j => s[i].a.reg # s[j].a.reg
  /\ \A i, j \in Numbers(kinds) : i < j => s[i].a.reg \notin Stores(s[j].a.s)

StateIs(e, gs) ==
  gs \in CsType /\ ~gs.failed /\ LinkOwned(gs) /\ (gs.prefixed <=> e \in Prefixed)

Taken(kinds, n) == {j \in Numbers(kinds) : j > n}
Lower(kinds, n) == {j \in Numbers(kinds) : j <= n}
Below1(s, n) == SubSeq(s, 1, n)
Pushed(s, n, x) == Append(Below1(s, n), x)

LEMMA PushedShape ==
  ASSUME NEW S, NEW s \in Seq(S), NEW n \in 0 .. Len(s), NEW x \in S
  PROVE  /\ Pushed(s, n, x) \in Seq(S) /\ Len(Pushed(s, n, x)) = n + 1 /\ n \in Nat
         /\ \A j \in 1 .. n : Pushed(s, n, x)[j] = s[j]
         /\ Pushed(s, n, x)[n + 1] = x
<1>1. n \in Nat /\ n <= Len(s)
  OBVIOUS
<1>. DEFINE r == Below1(s, n)
<1>2. r \in Seq(S) /\ Len(r) = n /\ \A j \in 1 .. n : r[j] = s[j]
  <2>1. r = [j \in 1 .. n |-> s[j]]
    BY <1>1 DEF Below1
  <2>2. \A j \in 1 .. n : s[j] \in S
    BY <1>1
  <2>. HIDE DEF r
  <2>. QED  BY ONLY <1>1, <2>1, <2>2
<1>. HIDE DEF r
<1>3. Append(r, x) \in Seq(S) /\ Len(Append(r, x)) = n + 1 /\ Append(r, x)[n + 1] = x
      /\ \A j \in 1 .. n : Append(r, x)[j] = r[j]
  BY ONLY <1>1, <1>2, x \in S
<1>. QED  BY ONLY <1>1, <1>2, <1>3 DEF Pushed, r

LEMMA PushedNumbers ==
  ASSUME NEW kinds \in Seq({"number", "block"}), NEW n \in 0 .. Len(kinds)
  PROVE  /\ Numbers(Pushed(kinds, n, "number")) = Lower(kinds, n) \cup {n + 1}
         /\ Numbers(Pushed(kinds, n, "block")) = Lower(kinds, n)
<1>1. ASSUME NEW x \in {"number", "block"}
      PROVE  /\ Len(Pushed(kinds, n, x)) = n + 1 /\ n \in Nat
             /\ \A j \in 1 .. n : Pushed(kinds, n, x)[j] = kinds[j]
             /\ Pushed(kinds, n, x)[n + 1] = x
  BY PushedShape
<1>2. Len(kinds) \in Nat /\ n <= Len(kinds)
  OBVIOUS
<1>. DEFINE k1 == Pushed(kinds, n, "number")
            k2 == Pushed(kinds, n, "block")
<1>3. /\ Len(k1) = n + 1 /\ Len(k2) = n + 1 /\ n \in Nat /\ k1[n + 1] = "number" /\ k2[n + 1] = "block"
      /\ \A j \in 1 .. n : k1[j] = kinds[j] /\ k2[j] = kinds[j]
  BY <1>1
<1>. HIDE DEF k1, k2
<1>4. \A j : j \in 1 .. n + 1 <=> j \in 1 .. n \/ j = n + 1
  BY ONLY <1>2, n \in 0 .. Len(kinds)
<1>5. \A j : j \in Lower(kinds, n) <=> j \in 1 .. n /\ kinds[j] = "number"
  BY ONLY <1>2, n \in 0 .. Len(kinds) DEF Lower, Numbers
<1>6. Numbers(k1) = Lower(kinds, n) \cup {n + 1}
  BY ONLY <1>3, <1>4, <1>5 DEF Numbers
<1>7. Numbers(k2) = Lower(kinds, n)
  BY ONLY <1>3, <1>4, <1>5 DEF Numbers
<1>. QED  BY <1>6, <1>7 DEF k1, k2

(* The items below stay what they are.                                     *)
LEMMA ItemKept ==
  ASSUME NEW e, NEW old \in CsType, NEW new \in CsType, Sooner(old.linkreg, new.linkreg),
         NEW x, NEW kind, NEW lo \in Nat, NEW hi \in Nat, lo <= hi, ItemIs(e, old, x, kind, lo, hi),
         NEW top \in Nat, hi <= top, Len(new.blocks) >= Len(old.blocks),
         \A c \in lo + 1 .. hi : c \in 1 .. Len(old.blocks) => new.blocks[c] = old.blocks[c]
  PROVE  ItemIs(e, new, x, kind, lo, top)
<1>. DEFINE A == lo + 1 .. hi
            B == lo + 1 .. top
            n == hi - lo
            m == top - lo
            w == old.blocks
            v == new.blocks
            k == old.linkreg
            l == new.linkreg
<1>1. A \subseteq B /\ n \in Nat /\ m \in Nat /\ n <= m
  OBVIOUS
<1>2. w \in Seq(Block) /\ v \in Seq(Block)
  BY Sized
<1>3. Sooner(k, l) /\ Len(v) >= Len(w) /\ \A c \in A : c \in 1 .. Len(w) => v[c] = w[c]
  OBVIOUS
<1>. HIDE DEF A, B, n, m, w, v, k, l
<1>4. CASE kind = "number"
  <2>. DEFINE a == x.a
              ref == x.ref
  <2>1. x \in NumItem /\ Arithmetic(a) /\ NumberFor(e, w, k, a, ref, A, n)
    BY <1>4 DEF ItemIs, w, k, A, n
  <2>2. a.s \in Seq(Stmt)
    BY <2>1, ArthFields
  <2>. HIDE DEF a, ref
  <2>3. NumberFor(e, v, l, a, ref, B, m)
    BY ONLY <1>1, <1>2, <1>3, <2>1, <2>2, NumberKept
  <2>. QED  BY <1>4, <2>1, <2>3 DEF ItemIs, v, l, B, m, a, ref
<1>5. CASE kind = "block"
  <2>. DEFINE b == x.b
              ref == x.ref
  <2>1. x \in BlkItem /\ BlockFor(e, w, k, b, ref, A, n)
    BY <1>5 DEF ItemIs, w, k, A, n
  <2>2. \A p \in Meanings : ref[p] # "reject" => ref[p] = ref[p]
    OBVIOUS
  <2>. HIDE DEF b, ref
  <2>3. BlockFor(e, v, l, b, ref, B, m)
    BY ONLY <1>1, <1>2, <1>3, <2>1, <2>2, BlockKept
  <2>. QED  BY <1>5, <2>1, <2>3 DEF ItemIs, v, l, B, m, b, ref
<1>. QED  BY <1>4, <1>5 DEF ItemIs

LEMMA CutOrder ==
  ASSUME NEW l \in Nat, NEW cut \in [0 .. l -> Nat], \A j \in 1 .. l : cut[j - 1] <= cut[j]
  PROVE  \A n \in 0 .. l : cut[n] <= cut[l]
<1>. DEFINE P(i) == i <= l => cut[l - i] <= cut[l]
<1>1. P(0)
  OBVIOUS
<1>2. ASSUME NEW i \in Nat, P(i) PROVE P(i + 1)
  <2>1. CASE i + 1 <= l
    <3>1. l - i \in 1 .. l /\ (l - i) - 1 = l - (i + 1) /\ l - (i + 1) \in 0 .. l /\ l - i \in 0 .. l /\ i <= l
      BY <2>1
    <3>2. cut[l - (i + 1)] <= cut[l - i]
      BY <3>1
    <3>3. cut[l - (i + 1)] \in Nat /\ cut[l - i] \in Nat /\ cut[l] \in Nat
      BY <3>1
    <3>. QED  BY ONLY <1>2, <3>1, <3>2, <3>3
  <2>. QED  BY <2>1
<1>3. \A i \in Nat : P(i)
  <2>. HIDE DEF P
  <2>1. {i \in Nat : P(i)} = Nat
    <3>. DEFINE T == {i \in Nat : P(i)}
    <3>1. 0 \in T /\ \A i \in T : i + 1 \in T
      BY <1>1, <1>2
    <3>2. Nat \subseteq T
      BY ONLY <3>1, Induct
    <3>. QED  BY <3>2
  <2>. QED  BY <2>1
<1>4. ASSUME NEW n \in 0 .. l PROVE cut[n] <= cut[l]
  <2>1. l - n \in Nat /\ l - n <= l /\ l - (l - n) = n
    OBVIOUS
  <2>. QED  BY <1>3, <2>1
<1>. QED  BY <1>4

NewCut(cut, n, top) == [j \in 0 .. n + 1 |-> IF j <= n THEN cut[j] ELSE top]

LEMMA PushedStack ==
  ASSUME NEW e, NEW gs \in CsType, NEW s, NEW kinds, NEW cut, StackIs(e, gs, s, kinds, cut),
         NEW n \in 0 .. Len(s), NEW new, Later(gs, new, cut[n]), ~new.failed,
         NEW x \in NumItem \cup BlkItem, NEW kind \in {"number", "block"},
         ItemIs(e, new, x, kind, cut[n], Len(new.blocks))
  PROVE  StackIs(e, new, Pushed(s, n, x), Pushed(kinds, n, kind), NewCut(cut, n, Len(new.blocks)))
<1>. DEFINE top == Len(new.blocks)
            r == Pushed(s, n, x)
            k2 == Pushed(kinds, n, kind)
            c2 == NewCut(cut, n, top)
            S == NumItem \cup BlkItem
<1>1. /\ s \in Seq(S) /\ kinds \in Seq({"number", "block"}) /\ Len(s) = Len(kinds) /\ Len(s) \in Nat
      /\ cut \in [0 .. Len(s) -> Nat] /\ \A j \in 1 .. Len(s) : cut[j - 1] <= cut[j]
      /\ cut[Len(s)] <= Len(gs.blocks)
      /\ \A j \in 1 .. Len(s) : ItemIs(e, gs, s[j], kinds[j], cut[j - 1], cut[j])
      /\ x \in S /\ n \in 0 .. Len(s) /\ n \in 0 .. Len(kinds)
  BY DEF StackIs
<1>2. /\ r \in Seq(S) /\ Len(r) = n + 1 /\ n \in Nat /\ \A j \in 1 .. n : r[j] = s[j]
      /\ r[n + 1] = x
  <2>. HIDE DEF S
  <2>. QED  BY ONLY <1>1, PushedShape
<1>3. /\ k2 \in Seq({"number", "block"}) /\ Len(k2) = n + 1 /\ \A j \in 1 .. n : k2[j] = kinds[j]
      /\ k2[n + 1] = kind
  <2>. DEFINE K == {"number", "block"}
  <2>1. kinds \in Seq(K) /\ kind \in K
    BY <1>1
  <2>. HIDE DEF K
  <2>2. /\ k2 \in Seq(K) /\ Len(k2) = n + 1 /\ \A j \in 1 .. n : k2[j] = kinds[j]
        /\ k2[n + 1] = kind
    BY ONLY <1>1, <2>1, PushedShape
  <2>. QED  BY <2>2 DEF K
<1>4. /\ new \in CsType /\ Len(new.blocks) >= Len(gs.blocks) /\ Sooner(gs.linkreg, new.linkreg)
      /\ \A c \in 1 .. cut[n] : new.blocks[c] = gs.blocks[c]
  BY DEF Later
<1>5. top \in Nat /\ Len(gs.blocks) \in Nat
  BY <1>4, Sized
<1>. HIDE DEF top, r, k2
<1>6. \A j \in 0 .. n : c2[j] = cut[j] /\ cut[j] \in Nat
  <2>1. ASSUME NEW j \in 0 .. n PROVE j \in 0 .. n + 1 /\ j <= n /\ j \in 0 .. Len(s)
    BY <1>1, <1>2
  <2>. QED  BY <1>1, <2>1 DEF NewCut
<1>7. c2[n + 1] = top /\ c2 \in [0 .. n + 1 -> Nat]
  BY <1>1, <1>2, <1>5 DEF NewCut
<1>. HIDE DEF c2
<1>8. \A j \in 0 .. n : cut[j] <= cut[n] /\ cut[n] <= Len(gs.blocks)
  <2>1. \A j \in 0 .. Len(s) : cut[j] <= cut[Len(s)]
    BY ONLY <1>1, CutOrder
  <2>2. \A j \in 0 .. n : cut[j] <= cut[n]
    <3>1. cut \in [0 .. Len(s) -> Nat] => [j \in 0 .. n |-> cut[j]] \in [0 .. n -> Nat]
      BY <1>1, <1>2
    <3>. DEFINE d == [j \in 0 .. n |-> cut[j]]
    <3>2. d \in [0 .. n -> Nat] /\ \A j \in 0 .. n : d[j] = cut[j]
      BY <1>1, <3>1
    <3>3. \A j \in 1 .. n : d[j - 1] <= d[j]
      BY <1>1, <3>2
    <3>. HIDE DEF d
    <3>4. \A j \in 0 .. n : d[j] <= d[n]
      BY ONLY <1>2, <3>2, <3>3, CutOrder
    <3>. QED  BY ONLY <1>2, <3>2, <3>4
  <2>3. cut[n] \in Nat /\ cut[Len(s)] \in Nat
    BY <1>1
  <2>. QED  BY ONLY <1>1, <1>5, <2>1, <2>2, <2>3, n \in 0 .. Len(s)
<1>9. ASSUME NEW j \in 1 .. n + 1
      PROVE  c2[j - 1] <= c2[j] /\ ItemIs(e, new, r[j], k2[j], c2[j - 1], c2[j])
  <2>1. CASE j = n + 1
    <3>1. c2[j - 1] = cut[n] /\ c2[j] = top /\ r[j] = x /\ k2[j] = kind
      BY <1>2, <1>3, <1>6, <1>7, <2>1
    <3>2. cut[n] <= top
      <4>1. n \in 0 .. n /\ cut[n] \in Nat
        BY <1>2, <1>6
      <4>2. cut[n] <= Len(gs.blocks)
        BY ONLY <1>8, <4>1
      <4>3. Len(gs.blocks) <= top
        BY ONLY <1>4, <1>5 DEF top
      <4>. QED  BY ONLY <1>5, <4>1, <4>2, <4>3
    <3>. QED  BY <3>1, <3>2 DEF top
  <2>2. CASE j \in 1 .. n
    <3>1. c2[j - 1] = cut[j - 1] /\ c2[j] = cut[j] /\ r[j] = s[j] /\ k2[j] = kinds[j] /\ j \in 1 .. Len(s)
          /\ cut[j] \in Nat /\ cut[j - 1] \in Nat /\ cut[j] <= cut[n] /\ cut[n] \in Nat
      <4>1. j \in 0 .. n /\ j - 1 \in 0 .. n /\ n \in 0 .. n /\ j \in 1 .. Len(s)
        BY ONLY <1>2, <2>2, n \in 0 .. Len(s)
      <4>. QED  BY <1>2, <1>3, <1>6, <1>8, <2>2, <4>1
    <3>2. cut[j - 1] <= cut[j] /\ ItemIs(e, gs, s[j], kinds[j], cut[j - 1], cut[j])
      BY <1>1, <3>1
    <3>. DEFINE lo == cut[j - 1]
                hi == cut[j]
    <3>3. \A c \in lo + 1 .. hi : c \in 1 .. Len(gs.blocks) => new.blocks[c] = gs.blocks[c]
      <4>1. lo \in Nat /\ hi \in Nat /\ cut[n] \in Nat /\ hi <= cut[n]
        BY ONLY <3>1
      <4>. HIDE DEF lo, hi
      <4>2. \A c \in lo + 1 .. hi : c \in 1 .. cut[n]
        BY ONLY <4>1
      <4>. QED  BY ONLY <1>4, <4>2
    <3>4. lo \in Nat /\ hi \in Nat /\ lo <= hi /\ hi <= hi
      BY <3>1, <3>2
    <3>. HIDE DEF lo, hi
    <3>5. ItemIs(e, new, s[j], kinds[j], lo, hi)
      BY <1>4, <3>2, <3>3, <3>4, ItemKept DEF lo, hi
    <3>. QED  BY <3>1, <3>2, <3>5 DEF lo, hi
  <2>. QED  BY <1>2, <2>1, <2>2
<1>10. c2[n + 1] <= Len(new.blocks)
  BY <1>5, <1>7 DEF top
<1>11. StackIs(e, new, r, k2, c2)
  BY <1>2, <1>3, <1>7, <1>9, <1>10 DEF StackIs
<1>. QED  BY <1>11 DEF r, k2, c2, top

StoresUpon(s, J) == UNION {Stores(s[j].a.s) : j \in J}

LEMMA RestRegs ==
  ASSUME NEW gs, NEW s, NEW kinds \in Seq({"number", "block"}), RegsIs(gs, s, kinds), NEW n \in 0 .. Len(kinds)
  PROVE  Owners(gs) \ RegsOf(s, Taken(kinds, n)) = RegsOf(s, Lower(kinds, n))
<1>1. Numbers(kinds) = Taken(kinds, n) \cup Lower(kinds, n) /\ Taken(kinds, n) \cap Lower(kinds, n) = {}
  BY DEF Taken, Lower, Numbers
<1>. QED  BY <1>1 DEF RegsIs, RegsOf

LEMMA PushedNumberRegs ==
  ASSUME NEW gs, NEW S, NEW s \in Seq(S), NEW kinds \in Seq({"number", "block"}), Len(s) = Len(kinds),
         RegsIs(gs, s, kinds), NEW n \in 0 .. Len(kinds), NEW new, NEW x \in S,
         x.a.reg \notin Owners(gs) \ RegsOf(s, Taken(kinds, n)),
         Owners(new) = (Owners(gs) \ RegsOf(s, Taken(kinds, n))) \cup {x.a.reg},
         Stores(x.a.s) \subseteq StoresUpon(s, Taken(kinds, n)) \cup {x.a.reg}
  PROVE  RegsIs(new, Pushed(s, n, x), Pushed(kinds, n, "number"))
<1>. DEFINE L == Lower(kinds, n)
            T == Taken(kinds, n)
            r == Pushed(s, n, x)
            k2 == Pushed(kinds, n, "number")
<1>1. Owners(gs) \ RegsOf(s, T) = RegsOf(s, L)
  BY RestRegs
<1>2. n \in Nat /\ r[n + 1] = x /\ \A j \in 1 .. n : r[j] = s[j]
  BY PushedShape
<1>3. Numbers(k2) = L \cup {n + 1}
  BY PushedNumbers
<1>4. L \subseteq 1 .. n /\ L \subseteq Numbers(kinds)
  BY <1>2 DEF Lower, Numbers
<1>5. \A j \in L : r[j] = s[j] /\ j < n + 1
  BY <1>2, <1>4
<1>. HIDE DEF r, k2
<1>6. RegsOf(r, L \cup {n + 1}) = RegsOf(s, L) \cup {x.a.reg}
  BY <1>2, <1>5 DEF RegsOf
<1>7. \A j \in L : s[j].a.reg # x.a.reg
  BY <1>1 DEF RegsOf
<1>8. \A i, j \in L \cup {n + 1} : i # j => r[i].a.reg # r[j].a.reg
  BY <1>2, <1>4, <1>5, <1>7 DEF RegsIs
<1>9. ASSUME NEW i \in L, NEW j \in T PROVE s[i].a.reg \notin Stores(s[j].a.s)
  <2>1. i \in Numbers(kinds) /\ j \in Numbers(kinds) /\ i < j
    BY DEF Lower, Taken, Numbers
  <2>. QED  BY <2>1 DEF RegsIs
<1>10. \A i, j \in L \cup {n + 1} : i < j => r[i].a.reg \notin Stores(r[j].a.s)
  <2>1. \A i, j \in L : i < j => r[i].a.reg \notin Stores(r[j].a.s)
    BY <1>4, <1>5 DEF RegsIs
  <2>2. \A i \in L : s[i].a.reg \notin Stores(x.a.s)
    BY <1>7, <1>9 DEF StoresUpon
  <2>3. \A i \in L : ~(n + 1 < i)
    BY <1>2, <1>4
  <2>4. ~(n + 1 < n + 1)
    BY <1>2
  <2>. QED  BY <1>2, <1>5, <2>1, <2>2, <2>3, <2>4
<1>11. RegsIs(new, r, k2)
  BY <1>1, <1>3, <1>6, <1>8, <1>10 DEF RegsIs
<1>. QED  BY <1>11 DEF r, k2

LEMMA PushedBlockRegs ==
  ASSUME NEW gs, NEW S, NEW s \in Seq(S), NEW kinds \in Seq({"number", "block"}), Len(s) = Len(kinds),
         RegsIs(gs, s, kinds), NEW n \in 0 .. Len(kinds), NEW new, NEW x \in S,
         Owners(new) = Owners(gs) \ RegsOf(s, Taken(kinds, n))
  PROVE  RegsIs(new, Pushed(s, n, x), Pushed(kinds, n, "block"))
<1>. DEFINE L == Lower(kinds, n)
            r == Pushed(s, n, x)
            k2 == Pushed(kinds, n, "block")
<1>1. Owners(new) = RegsOf(s, L)
  BY RestRegs
<1>2. n \in Nat /\ \A j \in 1 .. n : r[j] = s[j]
  BY PushedShape
<1>3. Numbers(k2) = L
  BY PushedNumbers
<1>4. L \subseteq Numbers(kinds) /\ \A j \in L : r[j] = s[j]
  BY <1>2 DEF Lower, Numbers
<1>. HIDE DEF r, k2
<1>5. RegsOf(r, L) = RegsOf(s, L)
  BY <1>4 DEF RegsOf
<1>6. RegsIs(new, r, k2)
  BY <1>1, <1>3, <1>4, <1>5 DEF RegsIs
<1>. QED  BY <1>6 DEF r, k2

Parsed(e, gs, s, kinds, cut) == StateIs(e, gs) /\ StackIs(e, gs, s, kinds, cut) /\ RegsIs(gs, s, kinds)
ParsedTo(e, gs, s, kinds) == \E cut : Parsed(e, gs, s, kinds, cut)

LEMMA ParsedFacts ==
  ASSUME NEW e, NEW gs, NEW s, NEW kinds, NEW cut, Parsed(e, gs, s, kinds, cut)
  PROVE  /\ gs \in CsType /\ ~gs.failed /\ LinkOwned(gs) /\ (gs.prefixed <=> e \in Prefixed)
         /\ gs.blocks \in Seq(Block) /\ Len(gs.blocks) \in Nat
         /\ s \in Seq(NumItem \cup BlkItem) /\ kinds \in Seq({"number", "block"}) /\ Len(s) = Len(kinds)
         /\ Len(s) \in Nat
         /\ \A n \in 0 .. Len(s) : cut[n] \in Nat /\ cut[n] <= Len(gs.blocks)
         /\ RegsIs(gs, s, kinds)
<1>1. /\ gs \in CsType /\ ~gs.failed /\ LinkOwned(gs) /\ (gs.prefixed <=> e \in Prefixed)
      /\ RegsIs(gs, s, kinds) /\ StackIs(e, gs, s, kinds, cut)
  BY DEF Parsed, StateIs
<1>2. /\ s \in Seq(NumItem \cup BlkItem) /\ kinds \in Seq({"number", "block"}) /\ Len(s) = Len(kinds)
      /\ cut \in [0 .. Len(s) -> Nat] /\ \A j \in 1 .. Len(s) : cut[j - 1] <= cut[j]
      /\ cut[Len(s)] <= Len(gs.blocks)
  BY ONLY <1>1 DEF StackIs
<1>. DEFINE l == Len(s)
            N == Len(gs.blocks)
<1>3. l \in Nat /\ N \in Nat /\ gs.blocks \in Seq(Block)
  BY <1>1, <1>2, Sized
<1>4. \A n \in 0 .. l : cut[n] <= cut[l]
  <2>. HIDE DEF l
  <2>1. cut \in [0 .. l -> Nat] /\ \A j \in 1 .. l : cut[j - 1] <= cut[j]
    BY <1>2 DEF l
  <2>. QED  BY ONLY <1>3, <2>1, CutOrder
<1>5. \A n \in 0 .. l : cut[n] \in Nat /\ cut[n] <= N
  <2>1. \A n \in 0 .. l : cut[n] \in Nat
    BY <1>2
  <2>2. cut[l] \in Nat /\ cut[l] <= N
    BY <1>2, <1>3, <2>1
  <2>. HIDE DEF l, N
  <2>. QED  BY ONLY <1>3, <1>4, <2>1, <2>2
<1>. QED  BY <1>1, <1>2, <1>3, <1>5

LEMMA PushNumberRight ==
  ASSUME NEW e, NEW gs, NEW s, NEW kinds, NEW cut, Parsed(e, gs, s, kinds, cut), NEW n \in 0 .. Len(s),
         NEW m, NEW ref, ~m.cs.failed,
         NumberMade(e, gs, cut[n], m, ref, RegsOf(s, Taken(kinds, n)), StoresUpon(s, Taken(kinds, n))),
         NEW x, x = [a |-> m.arth, ref |-> ref]
  PROVE  ParsedTo(e, m.cs, Pushed(s, n, x), Pushed(kinds, n, "number"))
<1>. DEFINE S == NumItem \cup BlkItem
            y == m.cs
            z == m.arth
            lo == cut[n]
            c2 == NewCut(cut, n, Len(y.blocks))
            r == Pushed(s, n, x)
            k2 == Pushed(kinds, n, "number")
<1>1. /\ gs \in CsType /\ ~gs.failed /\ LinkOwned(gs) /\ (gs.prefixed <=> e \in Prefixed)
      /\ s \in Seq(S) /\ kinds \in Seq({"number", "block"}) /\ Len(s) = Len(kinds)
      /\ lo \in Nat /\ lo <= Len(gs.blocks) /\ RegsIs(gs, s, kinds) /\ StackIs(e, gs, s, kinds, cut)
  BY ParsedFacts DEF Parsed
<1>2. /\ Later(gs, y, lo) /\ Arithmetic(z) /\ ref \in NumberRefs /\ NumberIn(e, y, lo, z, ref)
      /\ z.reg \notin Owners(gs) \ RegsOf(s, Taken(kinds, n))
      /\ Owners(y) = (Owners(gs) \ RegsOf(s, Taken(kinds, n))) \cup {z.reg}
      /\ Stores(z.s) \subseteq StoresUpon(s, Taken(kinds, n)) \cup {z.reg}
  BY DEF NumberMade
<1>3. x \in NumItem /\ x.a = z /\ x.ref = ref /\ x \in S
  <2>1. z \in ArthType
    BY <1>2 DEF Arithmetic
  <2>. HIDE DEF z
  <2>2. x = [a |-> z, ref |-> ref]
    BY DEF z
  <2>. QED  BY ONLY <1>2, <2>1, <2>2 DEF NumItem
<1>. HIDE DEF y, z
<1>4. ItemIs(e, y, x, "number", lo, Len(y.blocks))
  BY <1>2, <1>3 DEF ItemIs, NumberIn, NumberFor, Span, Count
<1>5. StackIs(e, y, r, k2, c2)
  <2>. HIDE DEF S
  <2>1. x \in NumItem \cup BlkItem
    BY <1>3 DEF S
  <2>. QED  BY <1>1, <1>2, <1>4, <2>1, PushedStack DEF y
<1>6. RegsIs(y, r, k2)
  <2>. HIDE DEF S
  <2>. QED  BY <1>1, <1>2, <1>3, PushedNumberRegs
<1>7. StateIs(e, y)
  BY <1>1, <1>2 DEF StateIs, Later, y
<1>. HIDE DEF r, k2, c2
<1>8. ParsedTo(e, y, r, k2)
  BY <1>5, <1>6, <1>7 DEF ParsedTo, Parsed
<1>. QED  BY <1>8 DEF y, r, k2

LEMMA PushBlockRight ==
  ASSUME NEW e, NEW gs, NEW s, NEW kinds, NEW cut, Parsed(e, gs, s, kinds, cut), NEW n \in 0 .. Len(s),
         NEW m, NEW ref, BlockMade(e, gs, cut[n], m, ref, RegsOf(s, Taken(kinds, n))),
         NEW x, x = [b |-> m.blk, ref |-> ref]
  PROVE  ParsedTo(e, m.cs, Pushed(s, n, x), Pushed(kinds, n, "block"))
<1>. DEFINE S == NumItem \cup BlkItem
            y == m.cs
            z == m.blk
            lo == cut[n]
            c2 == NewCut(cut, n, Len(y.blocks))
            r == Pushed(s, n, x)
            k2 == Pushed(kinds, n, "block")
<1>1. /\ gs \in CsType /\ ~gs.failed /\ LinkOwned(gs) /\ (gs.prefixed <=> e \in Prefixed)
      /\ s \in Seq(S) /\ kinds \in Seq({"number", "block"}) /\ Len(s) = Len(kinds)
      /\ lo \in Nat /\ lo <= Len(gs.blocks) /\ RegsIs(gs, s, kinds) /\ StackIs(e, gs, s, kinds, cut)
  BY ParsedFacts DEF Parsed
<1>2. /\ Later(gs, y, lo) /\ ref \in Refs /\ BlockIn(e, y, lo, z, ref) /\ ~y.failed
      /\ Owners(y) = Owners(gs) \ RegsOf(s, Taken(kinds, n))
  BY DEF BlockMade
<1>. HIDE DEF y, z
<1>3. z \in Nat
  <2>1. y \in CsType
    BY <1>2 DEF Later
  <2>2. z \in Span(y, lo)
    BY <1>1, <1>2, <2>1, MadeBlock
  <2>3. Len(y.blocks) \in Nat
    BY <2>1, Sized
  <2>. QED  BY <1>1, <2>2, <2>3 DEF Span
<1>4. x \in BlkItem /\ x.b = z /\ x.ref = ref /\ x \in S
  <2>1. x = [b |-> z, ref |-> ref]
    BY DEF z
  <2>. QED  BY ONLY <1>2, <1>3, <2>1 DEF BlkItem
<1>5. ItemIs(e, y, x, "block", lo, Len(y.blocks))
  BY <1>2, <1>4 DEF ItemIs, BlockIn, Span, Count
<1>6. StackIs(e, y, r, k2, c2)
  <2>. HIDE DEF S
  <2>1. x \in NumItem \cup BlkItem
    BY <1>4 DEF S
  <2>. QED  BY <1>1, <1>2, <1>5, <2>1, PushedStack
<1>7. RegsIs(y, r, k2)
  <2>. HIDE DEF S
  <2>. QED  BY <1>1, <1>2, <1>4, PushedBlockRegs
<1>8. StateIs(e, y)
  BY <1>1, <1>2 DEF StateIs, Later
<1>. HIDE DEF r, k2, c2
<1>9. ParsedTo(e, y, r, k2)
  BY <1>6, <1>7, <1>8 DEF ParsedTo, Parsed
<1>. QED  BY <1>9 DEF y, r, k2

(* What is known of an item of the stack.                                  *)
LEMMA NumberAt ==
  ASSUME NEW e, NEW gs, NEW s, NEW kinds, NEW cut, Parsed(e, gs, s, kinds, cut), NEW j \in 1 .. Len(s),
         kinds[j] = "number"
  PROVE  LET x == s[j]
         IN  /\ Arithmetic(x.a) /\ x.ref \in NumberRefs /\ x.a.reg \in Owners(gs)
             /\ cut[j - 1] \in Nat /\ cut[j] \in Nat /\ cut[j - 1] <= cut[j] /\ cut[j] <= Len(gs.blocks)
             /\ NumberFor(e, gs.blocks, gs.linkreg, x.a, x.ref, cut[j - 1] + 1 .. cut[j], cut[j] - cut[j - 1])
             /\ \A top \in Nat : cut[j] <= top =>
                  NumberFor(e, gs.blocks, gs.linkreg, x.a, x.ref, cut[j - 1] + 1 .. top, top - cut[j - 1])
             /\ NumberIn(e, gs, cut[j - 1], x.a, x.ref)
<1>. DEFINE x == s[j]
            lo == cut[j - 1]
            hi == cut[j]
<1>1. /\ gs \in CsType /\ Len(s) \in Nat /\ Len(s) = Len(kinds) /\ Len(gs.blocks) \in Nat
      /\ \A n \in 0 .. Len(s) : cut[n] \in Nat /\ cut[n] <= Len(gs.blocks)
      /\ RegsIs(gs, s, kinds)
  BY ParsedFacts
<1>2. ItemIs(e, gs, x, "number", lo, hi) /\ lo <= hi
  BY DEF Parsed, StackIs
<1>3. lo \in Nat /\ hi \in Nat /\ hi <= Len(gs.blocks)
  <2>1. j - 1 \in 0 .. Len(s) /\ j \in 0 .. Len(s)
    BY <1>1
  <2>. QED  BY <1>1, <2>1
<1>4. x.a.reg \in Owners(gs)
  BY <1>1 DEF RegsIs, RegsOf, Numbers
<1>. HIDE DEF lo, hi, x
<1>5. /\ x \in NumItem /\ Arithmetic(x.a)
      /\ NumberFor(e, gs.blocks, gs.linkreg, x.a, x.ref, lo + 1 .. hi, hi - lo)
  BY <1>2 DEF ItemIs
<1>6. ASSUME NEW top \in Nat, hi <= top
      PROVE  NumberFor(e, gs.blocks, gs.linkreg, x.a, x.ref, lo + 1 .. top, top - lo)
  <2>1. Sooner(gs.linkreg, gs.linkreg) /\ Len(gs.blocks) >= Len(gs.blocks)
    BY <1>1 DEF Sooner
  <2>2. ItemIs(e, gs, x, "number", lo, top)
    BY <1>1, <1>2, <1>3, <1>6, <2>1, ItemKept
  <2>. QED  BY <2>2 DEF ItemIs
<1>7. NumberIn(e, gs, lo, x.a, x.ref)
  BY <1>1, <1>3, <1>6 DEF NumberIn, Span, Count
<1>. QED  BY <1>2, <1>3, <1>4, <1>5, <1>6, <1>7 DEF lo, hi, x, NumItem

LEMMA BlockAt ==
  ASSUME NEW e, NEW gs, NEW s, NEW kinds, NEW cut, Parsed(e, gs, s, kinds, cut), NEW j \in 1 .. Len(s),
         kinds[j] = "block"
  PROVE  LET x == s[j]
         IN  /\ x.b \in Nat /\ x.ref \in Refs
             /\ cut[j - 1] \in Nat /\ cut[j] \in Nat /\ cut[j - 1] <= cut[j] /\ cut[j] <= Len(gs.blocks)
             /\ BlockFor(e, gs.blocks, gs.linkreg, x.b, x.ref, cut[j - 1] + 1 .. cut[j], cut[j] - cut[j - 1])
             /\ BlockIn(e, gs, cut[j - 1], x.b, x.ref)
<1>. DEFINE x == s[j]
            lo == cut[j - 1]
            hi == cut[j]
<1>1. /\ gs \in CsType /\ Len(s) \in Nat /\ Len(gs.blocks) \in Nat
      /\ \A n \in 0 .. Len(s) : cut[n] \in Nat /\ cut[n] <= Len(gs.blocks)
  BY ParsedFacts
<1>2. ItemIs(e, gs, x, "block", lo, hi) /\ lo <= hi
  BY DEF Parsed, StackIs
<1>3. lo \in Nat /\ hi \in Nat /\ hi <= Len(gs.blocks)
  <2>1. j - 1 \in 0 .. Len(s) /\ j \in 0 .. Len(s)
    BY <1>1
  <2>. QED  BY <1>1, <2>1
<1>. HIDE DEF lo, hi, x
<1>4. x \in BlkItem /\ BlockFor(e, gs.blocks, gs.linkreg, x.b, x.ref, lo + 1 .. hi, hi - lo)
  BY <1>2 DEF ItemIs
<1>5. BlockIn(e, gs, lo, x.b, x.ref)
  <2>. DEFINE top == Len(gs.blocks)
  <2>1. Sooner(gs.linkreg, gs.linkreg) /\ Len(gs.blocks) >= Len(gs.blocks) /\ top \in Nat /\ hi <= top
    BY <1>1, <1>3 DEF Sooner
  <2>. HIDE DEF top
  <2>2. ItemIs(e, gs, x, "block", lo, top)
    BY <1>1, <1>2, <1>3, <2>1, ItemKept
  <2>. QED  BY <2>2 DEF ItemIs, BlockIn, Span, Count, top
<1>. QED  BY <1>2, <1>3, <1>4, <1>5 DEF lo, hi, x, BlkItem

LEMMA TakenTop ==
  ASSUME NEW kinds \in Seq({"number", "block"}), NEW l, l = Len(kinds)
  PROVE  /\ Taken(kinds, l) = {}
         /\ l >= 1 => Taken(kinds, l - 1) = IF kinds[l] = "number" THEN {l} ELSE {}
         /\ l >= 2 /\ kinds[l] = kinds[l - 1] =>
              Taken(kinds, l - 2) = IF kinds[l] = "number" THEN {l - 1, l} ELSE {}
<1>1. l \in Nat
  OBVIOUS
<1>2. \A j : j \in 1 .. l /\ j > l <=> FALSE
  BY <1>1
<1>3. \A j : l >= 1 => (j \in 1 .. l /\ j > l - 1 <=> j = l)
  BY <1>1
<1>4. \A j : l >= 2 => (j \in 1 .. l /\ j > l - 2 <=> j = l \/ j = l - 1)
  BY <1>1
<1>5. \A n : Taken(kinds, n) = {j \in 1 .. l : kinds[j] = "number" /\ j > n}
  BY DEF Taken, Numbers
<1>6. Taken(kinds, l) = {}
  BY <1>2, <1>5
<1>7. ASSUME l >= 1
      PROVE  Taken(kinds, l - 1) = IF kinds[l] = "number" THEN {l} ELSE {}
  <2>1. Taken(kinds, l - 1) = {j \in 1 .. l : kinds[j] = "number" /\ j > l - 1}
    BY <1>5
  <2>2. \A j : j \in Taken(kinds, l - 1) <=> j = l /\ kinds[j] = "number"
    BY ONLY <1>3, <1>7, <2>1
  <2>. QED  BY ONLY <2>2
<1>8. ASSUME l >= 2, kinds[l] = kinds[l - 1]
      PROVE  Taken(kinds, l - 2) = IF kinds[l] = "number" THEN {l - 1, l} ELSE {}
  <2>1. Taken(kinds, l - 2) = {j \in 1 .. l : kinds[j] = "number" /\ j > l - 2}
    BY <1>5
  <2>2. \A j : j \in Taken(kinds, l - 2) <=> (j = l \/ j = l - 1) /\ kinds[j] = "number"
    BY ONLY <1>4, <1>8, <2>1
  <2>. QED  BY ONLY <2>2, <1>8
<1>. QED  BY <1>6, <1>7, <1>8

LEMMA TakenRegs ==
  ASSUME NEW s
  PROVE  /\ RegsOf(s, {}) = {} /\ StoresUpon(s, {}) = {}
         /\ \A j : RegsOf(s, {j}) = {s[j].a.reg} /\ StoresUpon(s, {j}) = Stores(s[j].a.s)
         /\ \A i, j : /\ RegsOf(s, {i, j}) = {s[i].a.reg, s[j].a.reg}
                      /\ StoresUpon(s, {i, j}) = Stores(s[i].a.s) \cup Stores(s[j].a.s)
  BY DEF RegsOf, StoresUpon

(* gen_loadi and gen_loadlen.                                              *)
Load1Ok(i, x) ==
  /\ i \in Stmt /\ StoresOf(i) = {} /\ x \in [Meanings -> Word]
  /\ i.class = "ld" /\ i.fn = "imm" => \E k \in Word : i = LdImm(k)
  /\ \A p \in Meanings : \A m, lr, v : Ready(m, lr, v) =>
       Holding(Perform(m, i, Packets[p]), x[p], m.x, m.mem)

LEMMA StepLoad1 ==
  ASSUME NEW gs, NEW s, NEW kinds, NEW cut, Parsed(expr, gs, s, kinds, cut), NEW i, NEW x, Load1Ok(i, x),
         ~GenLoad1(gs, i).cs.failed
  PROVE  ParsedTo(expr, GenLoad1(gs, i).cs,
                  Pushed(s, Len(s), [a |-> GenLoad1(gs, i).arth, ref |-> [p \in Meanings |-> Number(x[p])]]),
                  Pushed(kinds, Len(s), "number"))
<1>. DEFINE m == GenLoad1(gs, i)
            l == Len(s)
            lo == cut[l]
            ref == [p \in Meanings |-> Number(x[p])]
            y == [a |-> m.arth, ref |-> ref]
<1>1. /\ gs \in CsType /\ LinkOwned(gs) /\ l \in Nat /\ lo \in Nat /\ l \in 0 .. Len(s)
      /\ kinds \in Seq({"number", "block"}) /\ l = Len(kinds)
  BY ParsedFacts
<1>2. NumberMade(expr, gs, lo, m, ref, {}, {})
  <2>. HIDE DEF lo
  <2>. QED  BY <1>1, Load1Right DEF Load1Ok
<1>3. RegsOf(s, Taken(kinds, l)) = {} /\ StoresUpon(s, Taken(kinds, l)) = {}
  BY <1>1, TakenTop, TakenRegs
<1>4. ~m.cs.failed
  OBVIOUS
<1>. HIDE DEF m, ref
<1>5. NumberMade(expr, gs, cut[l], m, ref, RegsOf(s, Taken(kinds, l)), StoresUpon(s, Taken(kinds, l)))
  BY ONLY <1>2, <1>3
<1>. HIDE DEF l
<1>6. ParsedTo(expr, m.cs, Pushed(s, l, y), Pushed(kinds, l, "number"))
  <2>1. y = [a |-> m.arth, ref |-> ref]
    OBVIOUS
  <2>. HIDE DEF y
  <2>. QED  BY ONLY Parsed(expr, gs, s, kinds, cut), <1>1, <1>4, <1>5, <2>1, PushNumberRight
<1>. QED  BY <1>6 DEF m, l, ref

LEMMA Load1Num ==
  ASSUME NEW k \in Word
  PROVE  Load1Ok(LdImm(k), [p \in Meanings |-> k])
<1>. DEFINE i == LdImm(k)
            x == [p \in Meanings |-> k]
<1>1. i \in Stmt /\ StoresOf(i) = {} /\ x \in [Meanings -> Word] /\ \E j \in Word : i = LdImm(j)
  BY Statements1, StoresOfAll
<1>2. ASSUME NEW p \in Meanings, NEW m, NEW lr, NEW v, Ready(m, lr, v)
      PROVE  Holding(Perform(m, i, Packets[p]), x[p], m.x, m.mem)
  <2>1. Holding(m, m.a, m.x, m.mem) /\ PacketType(Packets[p])
    BY <1>2, ReadyHolds, Packet
  <2>. QED  BY <2>1, DoesLoad
<1>. HIDE DEF i, x
<1>3. Load1Ok(i, x)
  BY <1>1, <1>2 DEF Load1Ok
<1>. QED  BY <1>3 DEF i, x

LEMMA Load1Len ==
  Load1Ok(LdLen, [p \in Meanings |-> Packets[p].wirelen])
<1>. DEFINE i == LdLen
            x == [p \in Meanings |-> Packets[p].wirelen]
<1>1. i \in Stmt /\ StoresOf(i) = {} /\ x \in [Meanings -> Word] /\ i.fn # "imm"
  BY Statements1, StoresOfAll, Packet DEF PacketType, LdLen, Op
<1>2. ASSUME NEW p \in Meanings, NEW m, NEW lr, NEW v, Ready(m, lr, v)
      PROVE  Holding(Perform(m, i, Packets[p]), x[p], m.x, m.mem)
  <2>1. Holding(m, m.a, m.x, m.mem) /\ PacketType(Packets[p])
    BY <1>2, ReadyHolds, Packet
  <2>. QED  BY <2>1, DoesLoad
<1>. HIDE DEF i, x
<1>3. Load1Ok(i, x)
  BY <1>1, <1>2 DEF Load1Ok
<1>. QED  BY <1>3 DEF i, x

(* A number in the place of the number on top.                             *)
LEMMA StepOne ==
  ASSUME NEW gs, NEW s, NEW kinds, NEW cut, Parsed(expr, gs, s, kinds, cut),
         Len(s) >= 1, kinds[Len(s)] = "number", NEW m, NEW ref, ~m.cs.failed,
         NumberMade(expr, gs, cut[Len(s) - 1], m, ref, {s[Len(s)].a.reg}, Stores(s[Len(s)].a.s))
  PROVE  ParsedTo(expr, m.cs, Pushed(s, Len(s) - 1, [a |-> m.arth, ref |-> ref]),
                  Pushed(kinds, Len(s) - 1, "number"))
<1>. DEFINE l == Len(s)
            n == l - 1
            y == [a |-> m.arth, ref |-> ref]
<1>1. l \in Nat /\ kinds \in Seq({"number", "block"}) /\ l = Len(kinds)
  BY ParsedFacts
<1>2. n \in 0 .. Len(s)
  BY <1>1
<1>3. RegsOf(s, Taken(kinds, n)) = {s[l].a.reg} /\ StoresUpon(s, Taken(kinds, n)) = Stores(s[l].a.s)
  BY <1>1, TakenTop, TakenRegs
<1>4. NumberMade(expr, gs, cut[n], m, ref, RegsOf(s, Taken(kinds, n)), StoresUpon(s, Taken(kinds, n)))
  BY <1>3
<1>. HIDE DEF n
<1>5. ParsedTo(expr, m.cs, Pushed(s, n, y), Pushed(kinds, n, "number"))
  <2>1. y = [a |-> m.arth, ref |-> ref]
    OBVIOUS
  <2>. HIDE DEF y
  <2>. QED  BY ONLY Parsed(expr, gs, s, kinds, cut), ~m.cs.failed, <1>2, <1>4, <2>1, PushNumberRight
<1>. QED  BY <1>5 DEF n

LEMMA StepNeg ==
  ASSUME NEW gs, NEW s, NEW kinds, NEW cut, Parsed(expr, gs, s, kinds, cut),
         Len(s) >= 1, kinds[Len(s)] = "number"
  PROVE  LET m == GenNeg(gs, s[Len(s)].a)
         IN  ParsedTo(expr, m.cs, Pushed(s, Len(s) - 1, [a |-> m.arth, ref |-> NegRef(s[Len(s)].ref)]),
                      Pushed(kinds, Len(s) - 1, "number"))
<1>. DEFINE l == Len(s)
            a == s[l].a
            ref == s[l].ref
            lo == cut[l - 1]
            m == GenNeg(gs, a)
<1>1. l \in 1 .. Len(s) /\ gs \in CsType /\ ~gs.failed
  BY ParsedFacts
<1>2. /\ Arithmetic(a) /\ ref \in NumberRefs /\ a.reg \in Owners(gs) /\ lo \in Nat
      /\ NumberIn(expr, gs, lo, a, ref)
  BY <1>1, NumberAt
<1>3. ~m.cs.failed
  BY <1>1 DEF GenNeg
<1>4. NumberMade(expr, gs, lo, m, NegRef(ref), {a.reg}, Stores(a.s))
  <2>. HIDE DEF a, ref, lo, l
  <2>. QED  BY <1>1, <1>2, NegRight
<1>. HIDE DEF m
<1>. QED  BY <1>3, <1>4, StepOne DEF m

LEMMA StepLoad ==
  ASSUME NEW gs, NEW s, NEW kinds, NEW cut, Parsed(expr, gs, s, kinds, cut),
         Len(s) >= 1, kinds[Len(s)] = "number", NEW t, LoadType(t), t.proto # "link" => ~gs.prefixed,
         ~GenLoad(gs, t.proto, t.size, s[Len(s)].a).cs.failed
  PROVE  LET m == GenLoad(gs, t.proto, t.size, s[Len(s)].a)
         IN  ParsedTo(expr, m.cs, Pushed(s, Len(s) - 1, [a |-> m.arth, ref |-> LoadRef(t, s[Len(s)].ref)]),
                      Pushed(kinds, Len(s) - 1, "number"))
<1>. DEFINE l == Len(s)
            a == s[l].a
            ref == s[l].ref
            lo == cut[l - 1]
            m == GenLoad(gs, t.proto, t.size, a)
<1>1. l \in 1 .. Len(s) /\ gs \in CsType /\ ~gs.failed /\ LinkOwned(gs) /\ (gs.prefixed <=> expr \in Prefixed)
  BY ParsedFacts
<1>2. /\ Arithmetic(a) /\ ref \in NumberRefs /\ a.reg \in Owners(gs) /\ lo \in Nat
      /\ NumberIn(expr, gs, lo, a, ref) /\ lo <= Len(gs.blocks)
  <2>1. cut[l] \in Nat /\ lo <= cut[l] /\ cut[l] <= Len(gs.blocks) /\ Len(gs.blocks) \in Nat
    BY <1>1, NumberAt, ParsedFacts
  <2>2. /\ Arithmetic(a) /\ ref \in NumberRefs /\ a.reg \in Owners(gs) /\ lo \in Nat
        /\ NumberIn(expr, gs, lo, a, ref)
    BY <1>1, NumberAt
  <2>. HIDE DEF lo
  <2>3. lo <= Len(gs.blocks)
    BY ONLY <2>1, <2>2
  <2>. QED  BY <2>2, <2>3
<1>3. ~m.cs.failed
  OBVIOUS
<1>4. NumberMade(expr, gs, lo, m, LoadRef(t, ref), {a.reg}, Stores(a.s))
  <2>. HIDE DEF a, ref, lo, l
  <2>. QED  BY <1>1, <1>2, <1>3, LoadRight DEF a, l
<1>. HIDE DEF m
<1>. QED  BY <1>3, <1>4, StepOne DEF m

LEMMA StepArth ==
  ASSUME NEW gs, NEW s, NEW kinds, NEW cut, Parsed(expr, gs, s, kinds, cut),
         Len(s) >= 2, kinds[Len(s)] = "number", kinds[Len(s) - 1] = "number", NEW fn \in AluFn,
         ~GenArth(gs, fn, s[Len(s) - 1].a, s[Len(s)].a).cs.failed
  PROVE  LET m == GenArth(gs, fn, s[Len(s) - 1].a, s[Len(s)].a)
         IN  ParsedTo(expr, m.cs, Pushed(s, Len(s) - 2,
                         [a |-> m.arth, ref |-> ArthRef(fn, s[Len(s) - 1].ref, s[Len(s)].ref)]),
                      Pushed(kinds, Len(s) - 2, "number"))
<1>. DEFINE l == Len(s)
            n == l - 2
            a0 == s[l - 1].a
            a1 == s[l].a
            r0 == s[l - 1].ref
            r1 == s[l].ref
            lo == cut[n]
            m == GenArth(gs, fn, a0, a1)
            ref == ArthRef(fn, r0, r1)
            y == [a |-> m.arth, ref |-> ref]
<1>1. /\ l \in 1 .. Len(s) /\ l - 1 \in 1 .. Len(s) /\ gs \in CsType /\ ~gs.failed /\ LinkOwned(gs)
      /\ kinds \in Seq({"number", "block"}) /\ l = Len(kinds) /\ n \in 0 .. Len(s) /\ (l - 1) - 1 = n
      /\ RegsIs(gs, s, kinds) /\ l \in Nat
  BY ParsedFacts
<1>2. /\ Arithmetic(a1) /\ r1 \in NumberRefs /\ a1.reg \in Owners(gs)
      /\ NumberIn(expr, gs, cut[l - 1], a1, r1)
  BY <1>1, NumberAt
<1>3. /\ Arithmetic(a0) /\ r0 \in NumberRefs /\ a0.reg \in Owners(gs) /\ lo \in Nat
      /\ NumberIn(expr, gs, lo, a0, r0)
  BY <1>1, NumberAt
<1>4. TwoOperands(a0, a1)
  <2>1. l - 1 \in Numbers(kinds) /\ l \in Numbers(kinds) /\ l - 1 < l
    BY <1>1 DEF Numbers
  <2>2. a0.reg \notin Stores(a1.s)
    BY <1>1, <2>1 DEF RegsIs
  <2>. QED  BY <1>2, <1>3, <2>2 DEF TwoOperands
<1>5. ~m.cs.failed
  OBVIOUS
<1>6. LeavesAll(expr, gs.linkreg, a1, r1)
  BY <1>2 DEF NumberIn, NumberFor
<1>7. NumberMade(expr, gs, lo, m, ref, {a0.reg, a1.reg}, Stores(a0.s) \cup Stores(a1.s))
  <2>1. ~GenArth(gs, fn, a0, a1).cs.failed
    BY <1>5
  <2>. HIDE DEF a0, a1, r0, r1, lo, l
  <2>. QED  BY <1>1, <1>2, <1>3, <1>4, <1>6, <2>1, ArthRight
<1>8. /\ RegsOf(s, Taken(kinds, n)) = {a0.reg, a1.reg}
      /\ StoresUpon(s, Taken(kinds, n)) = Stores(a0.s) \cup Stores(a1.s)
  <2>1. Taken(kinds, n) = {l - 1, l}
    BY <1>1, TakenTop
  <2>. HIDE DEF l, n
  <2>2. /\ RegsOf(s, {l - 1, l}) = {s[l - 1].a.reg, s[l].a.reg}
        /\ StoresUpon(s, {l - 1, l}) = Stores(s[l - 1].a.s) \cup Stores(s[l].a.s)
    <3>1. \A i, j : /\ RegsOf(s, {i, j}) = {s[i].a.reg, s[j].a.reg}
                    /\ StoresUpon(s, {i, j}) = Stores(s[i].a.s) \cup Stores(s[j].a.s)
      BY TakenRegs
    <3>. QED  BY ONLY <3>1
  <2>. QED  BY ONLY <2>1, <2>2
<1>9. NumberMade(expr, gs, cut[n], m, ref, RegsOf(s, Taken(kinds, n)), StoresUpon(s, Taken(kinds, n)))
  BY <1>7, <1>8
<1>. HIDE DEF n, m, ref
<1>10. ParsedTo(expr, m.cs, Pushed(s, n, y), Pushed(kinds, n, "number"))
  <2>1. y = [a |-> m.arth, ref |-> ref]
    OBVIOUS
  <2>. HIDE DEF y
  <2>. QED  BY ONLY Parsed(expr, gs, s, kinds, cut), <1>1, <1>5, <1>9, <2>1, PushNumberRight
<1>. QED  BY <1>10 DEF n, m, ref

(* A block in the place of the items from n on, none of them a number.     *)
LEMMA StepBlock ==
  ASSUME NEW e, NEW gs, NEW s, NEW kinds, NEW cut, Parsed(e, gs, s, kinds, cut), NEW n \in 0 .. Len(s),
         Taken(kinds, n) = {}, NEW m, NEW ref \in Refs, MadeFrom(e, gs, cut[n], m, ref), ~m.cs.failed
  PROVE  ParsedTo(e, m.cs, Pushed(s, n, [b |-> m.blk, ref |-> ref]), Pushed(kinds, n, "block"))
<1>. DEFINE x == [b |-> m.blk, ref |-> ref]
<1>1. /\ Later(gs, m.cs, cut[n]) /\ Owners(m.cs) = Owners(gs) \ {}
      /\ BlockIn(e, m.cs, cut[n], m.blk, ref)
  BY ParsedFacts DEF MadeFrom, Held
<1>2. BlockMade(e, gs, cut[n], m, ref, {})
  BY <1>1 DEF BlockMade
<1>3. RegsOf(s, Taken(kinds, n)) = {}
  BY TakenRegs
<1>4. BlockMade(e, gs, cut[n], m, ref, RegsOf(s, Taken(kinds, n)))
  BY ONLY <1>2, <1>3
<1>5. x = [b |-> m.blk, ref |-> ref]
  OBVIOUS
<1>. HIDE DEF x
<1>6. ParsedTo(e, m.cs, Pushed(s, n, x), Pushed(kinds, n, "block"))
  BY ONLY Parsed(e, gs, s, kinds, cut), n \in 0 .. Len(s), <1>4, <1>5, PushBlockRight
<1>. QED  BY <1>6 DEF x

(* gen_mcmp and gen_ncmp: a test of its own.                               *)
LEMMA StepNew ==
  ASSUME NEW e, NEW gs, NEW s, NEW kinds, NEW cut, Parsed(e, gs, s, kinds, cut),
         NEW m, NEW ref \in Refs, MadeFrom(e, gs, Len(gs.blocks), m, ref), ~m.cs.failed
  PROVE  ParsedTo(e, m.cs, Pushed(s, Len(s), [b |-> m.blk, ref |-> ref]), Pushed(kinds, Len(s), "block"))
<1>. DEFINE l == Len(s)
            lo == cut[l]
            N == Len(gs.blocks)
<1>1. /\ l \in 0 .. Len(s) /\ lo \in Nat /\ lo <= N /\ N \in Nat /\ gs \in CsType
      /\ kinds \in Seq({"number", "block"}) /\ l = Len(kinds)
  BY ParsedFacts
<1>2. MadeFrom(e, gs, lo, m, ref)
  <2>1. MadeFrom(e, gs, N, m, ref) /\ N <= Len(gs.blocks)
    BY <1>1
  <2>. HIDE DEF lo, N
  <2>. QED  BY ONLY <1>1, <2>1, MadeLess
<1>3. Taken(kinds, l) = {}
  BY <1>1, TakenTop
<1>. HIDE DEF l
<1>. QED  BY ONLY Parsed(e, gs, s, kinds, cut), ref \in Refs, ~m.cs.failed, <1>1, <1>2, <1>3, StepBlock DEF l

LEMMA StepCmp ==
  ASSUME NEW gs, NEW s, NEW kinds, NEW cut, Parsed(expr, gs, s, kinds, cut),
         NEW t, t.off \in Word, t.size \in {1, 2, 4}, t.v \in Word, t.mask \in Word,
         ~GenMcmp(gs, t.off, t.size, t.v, t.mask).cs.failed
  PROVE  LET m == GenMcmp(gs, t.off, t.size, t.v, t.mask)
         IN  ParsedTo(expr, m.cs,
                      Pushed(s, Len(s), [b |-> m.blk, ref |-> [p \in Meanings |-> CmpMeaning(t, Packets[p])]]),
                      Pushed(kinds, Len(s), "block"))
<1>. DEFINE m == GenMcmp(gs, t.off, t.size, t.v, t.mask)
            ref == [p \in Meanings |-> CmpMeaning(t, Packets[p])]
<1>1. ref \in Refs /\ MadeFrom(expr, gs, Len(gs.blocks), m, ref) /\ ~m.cs.failed
  BY ParsedFacts, McmpRight
<1>. HIDE DEF m, ref
<1>2. ParsedTo(expr, m.cs, Pushed(s, Len(s), [b |-> m.blk, ref |-> ref]), Pushed(kinds, Len(s), "block"))
  BY ONLY Parsed(expr, gs, s, kinds, cut), <1>1, StepNew
<1>. QED  BY <1>2 DEF m, ref

LEMMA StepRange ==
  ASSUME NEW gs, NEW s, NEW kinds, NEW cut, Parsed(expr, gs, s, kinds, cut),
         NEW t, t.off \in Word, t.size \in {1, 2, 4}, t.v \in Word, t.fn \in CondFn, t.reversed \in BOOLEAN,
         ~GenNcmp(gs, t.off, t.size, AllOnes, t.fn, t.reversed, t.v).cs.failed
  PROVE  LET m == GenNcmp(gs, t.off, t.size, AllOnes, t.fn, t.reversed, t.v)
         IN  ParsedTo(expr, m.cs,
                      Pushed(s, Len(s), [b |-> m.blk, ref |-> [p \in Meanings |-> RangeMeaning(t, Packets[p])]]),
                      Pushed(kinds, Len(s), "block"))
<1>. DEFINE m == GenNcmp(gs, t.off, t.size, AllOnes, t.fn, t.reversed, t.v)
            ref == [p \in Meanings |-> RangeMeaning(t, Packets[p])]
<1>1. ref \in Refs /\ MadeFrom(expr, gs, Len(gs.blocks), m, ref) /\ ~m.cs.failed
  BY ParsedFacts, RangeRight
<1>. HIDE DEF m, ref
<1>2. ParsedTo(expr, m.cs, Pushed(s, Len(s), [b |-> m.blk, ref |-> ref]), Pushed(kinds, Len(s), "block"))
  BY ONLY Parsed(expr, gs, s, kinds, cut), <1>1, StepNew
<1>. QED  BY <1>2 DEF m, ref

(* gen_not: the block on top.                                              *)
LEMMA StepNot ==
  ASSUME NEW e, NEW gs, NEW s, NEW kinds, NEW cut, Parsed(e, gs, s, kinds, cut),
         Len(s) >= 1, kinds[Len(s)] = "block"
  PROVE  LET m == GenNot(gs, s[Len(s)].b)
             ref == [p \in Meanings |-> Not3(s[Len(s)].ref[p])]
         IN  ParsedTo(e, m.cs, Pushed(s, Len(s) - 1, [b |-> m.blk, ref |-> ref]),
                      Pushed(kinds, Len(s) - 1, "block"))
<1>. DEFINE l == Len(s)
            n == l - 1
            lo == cut[n]
            b == s[l].b
            r == s[l].ref
            m == GenNot(gs, b)
            ref == [p \in Meanings |-> Not3(r[p])]
<1>1. /\ gs \in CsType /\ ~gs.failed /\ l \in Nat /\ n \in 0 .. Len(s) /\ l \in 1 .. Len(s)
      /\ lo \in Nat /\ lo <= Len(gs.blocks)
      /\ kinds \in Seq({"number", "block"}) /\ l = Len(kinds)
  BY ParsedFacts
<1>2. r \in Refs /\ BlockIn(e, gs, lo, b, r)
  BY <1>1, BlockAt
<1>3. b \in Span(gs, lo)
  <2>. HIDE DEF lo, b, r
  <2>. QED  BY ONLY <1>1, <1>2, MadeBlock
<1>4. ref \in Refs /\ \A p \in Meanings : ref[p] = Not3(r[p])
  <2>1. \A p \in Meanings : r[p] \in Verdict3
    BY <1>2 DEF Refs
  <2>2. \A p \in Meanings : Not3(r[p]) \in Verdict3
    BY <2>1 DEF Not3, Verdict3
  <2>. HIDE DEF r
  <2>. QED  BY <2>2 DEF Refs
<1>5. MadeFrom(e, gs, lo, m, ref)
  <2>. HIDE DEF lo, b, r, ref, l
  <2>. QED  BY ONLY <1>1, <1>2, <1>3, <1>4, NotMade DEF m
<1>6. ~m.cs.failed
  BY <1>1, NotFailing
<1>7. Taken(kinds, n) = {}
  BY <1>1, TakenTop
<1>. HIDE DEF n, m, ref
<1>8. ParsedTo(e, m.cs, Pushed(s, n, [b |-> m.blk, ref |-> ref]), Pushed(kinds, n, "block"))
  BY ONLY Parsed(e, gs, s, kinds, cut), <1>1, <1>4, <1>5, <1>6, <1>7, StepBlock
<1>. QED  BY <1>8 DEF n, m, ref

(* What joins the blocks of two intervals.                                 *)
JoinedIn(e, gs, lo, mid, hi, m, ref) ==
  /\ OnlyBlocks(gs, m.cs, (lo + 1 .. mid) \cup (mid + 1 .. hi)) /\ Len(m.cs.blocks) = Len(gs.blocks)
  /\ BlockFor(e, m.cs.blocks, gs.linkreg, m.blk, ref, (lo + 1 .. mid) \cup (mid + 1 .. hi),
              (mid - lo) + (hi - mid))

LEMMA TwoIntervals ==
  ASSUME NEW lo \in Nat, NEW mid \in Nat, NEW hi \in Nat, NEW N \in Nat, lo <= mid, mid <= hi, hi <= N
  PROVE  /\ (lo + 1 .. mid) \cap (mid + 1 .. hi) = {}
         /\ mid - lo \in Nat /\ hi - mid \in Nat /\ (mid - lo) + (hi - mid) <= N
         /\ (mid - lo) + (hi - mid) \in Nat /\ (mid - lo) + (hi - mid) <= N - lo /\ N - lo \in Nat
         /\ (lo + 1 .. mid) \cup (mid + 1 .. hi) \subseteq lo + 1 .. N
         /\ \A c \in (lo + 1 .. mid) \cup (mid + 1 .. hi) : ~(c \in 1 .. lo)
  OBVIOUS

LEMMA JoinedMade ==
  ASSUME NEW e, NEW gs \in CsType, NEW lo \in Nat, NEW mid \in Nat, NEW hi \in Nat,
         lo <= mid, mid <= hi, hi <= Len(gs.blocks), NEW m, NEW ref, JoinedIn(e, gs, lo, mid, hi, m, ref)
  PROVE  MadeFrom(e, gs, lo, m, ref) /\ m.cs.failed = gs.failed
<1>. DEFINE A == (lo + 1 .. mid) \cup (mid + 1 .. hi)
            n == (mid - lo) + (hi - mid)
            N == Len(gs.blocks)
            S == lo + 1 .. N
            c == N - lo
            w == m.cs.blocks
            lr == gs.linkreg
            b == m.blk
<1>1. N \in Nat /\ hi <= N
  BY Sized
<1>2. n \in Nat /\ n <= c /\ c \in Nat /\ A \subseteq S /\ \A x \in A : ~(x \in 1 .. lo)
  <2>. HIDE DEF N
  <2>. QED  BY ONLY lo \in Nat, mid \in Nat, hi \in Nat, lo <= mid, mid <= hi, <1>1, TwoIntervals
<1>3. OnlyBlocks(gs, m.cs, A) /\ Len(w) = N /\ BlockFor(e, w, lr, b, ref, A, n)
  BY DEF JoinedIn
<1>4. lo <= N
  BY <1>1
<1>. HIDE DEF A, n, S, c
<1>5. Later(gs, m.cs, lo) /\ Held(gs, m.cs) /\ m.cs.failed = gs.failed /\ m.cs.linkreg = lr
  BY <1>2, <1>3, <1>4, LaterBlocks
<1>6. w \in Seq(Block) /\ Len(w) >= Len(w) /\ Sooner(lr, lr)
  BY <1>3, Sized DEF OnlyBlocks, Sooner
<1>. HIDE DEF w, lr, b
<1>7. BlockFor(e, w, lr, b, ref, S, c)
  BY ONLY <1>2, <1>3, <1>6, BlockKept
<1>. QED  BY <1>3, <1>5, <1>7 DEF MadeFrom, BlockIn, Span, Count, S, c, w, lr, b

(* The blocks on top of the stack.                                         *)
LEMMA TwoBlocks ==
  ASSUME NEW e, NEW gs, NEW s, NEW kinds, NEW cut, Parsed(e, gs, s, kinds, cut),
         Len(s) >= 2, kinds[Len(s)] = "block", kinds[Len(s) - 1] = "block"
  PROVE  LET l == Len(s)
             n == l - 2
             lo == cut[n]
             mid == cut[l - 1]
             hi == cut[l]
         IN  /\ n \in 0 .. Len(s) /\ lo \in Nat /\ mid \in Nat /\ hi \in Nat
             /\ lo <= mid /\ mid <= hi /\ hi <= Len(gs.blocks) /\ Taken(kinds, n) = {}
             /\ BlockFor(e, gs.blocks, gs.linkreg, s[l - 1].b, s[l - 1].ref, lo + 1 .. mid, mid - lo)
             /\ BlockFor(e, gs.blocks, gs.linkreg, s[l].b, s[l].ref, mid + 1 .. hi, hi - mid)
             /\ s[l - 1].ref \in Refs /\ s[l].ref \in Refs
<1>. DEFINE l == Len(s)
<1>1. /\ l \in Nat /\ l \in 1 .. Len(s) /\ l - 1 \in 1 .. Len(s) /\ (l - 1) - 1 = l - 2 /\ l - 2 \in 0 .. Len(s)
      /\ kinds \in Seq({"number", "block"}) /\ l = Len(kinds)
  BY ParsedFacts
<1>2. /\ s[l].ref \in Refs /\ cut[l - 1] \in Nat /\ cut[l] \in Nat /\ cut[l - 1] <= cut[l]
      /\ cut[l] <= Len(gs.blocks)
      /\ BlockFor(e, gs.blocks, gs.linkreg, s[l].b, s[l].ref, cut[l - 1] + 1 .. cut[l], cut[l] - cut[l - 1])
  BY <1>1, BlockAt
<1>3. /\ s[l - 1].ref \in Refs /\ cut[(l - 1) - 1] \in Nat /\ cut[(l - 1) - 1] <= cut[l - 1]
      /\ BlockFor(e, gs.blocks, gs.linkreg, s[l - 1].b, s[l - 1].ref, cut[(l - 1) - 1] + 1 .. cut[l - 1],
                  cut[l - 1] - cut[(l - 1) - 1])
  BY <1>1, BlockAt
<1>4. Taken(kinds, l - 2) = {}
  BY <1>1, TakenTop
<1>. HIDE DEF l
<1>5. /\ cut[l - 2] \in Nat /\ cut[l - 2] <= cut[l - 1]
      /\ BlockFor(e, gs.blocks, gs.linkreg, s[l - 1].b, s[l - 1].ref, cut[l - 2] + 1 .. cut[l - 1],
                  cut[l - 1] - cut[l - 2])
  BY ONLY <1>1, <1>3
<1>. QED  BY ONLY <1>1, <1>2, <1>3, <1>4, <1>5 DEF l

LEMMA StepAnd ==
  ASSUME NEW e, NEW gs, NEW s, NEW kinds, NEW cut, Parsed(e, gs, s, kinds, cut),
         Len(s) >= 2, kinds[Len(s)] = "block", kinds[Len(s) - 1] = "block"
  PROVE  LET m == GenAnd(gs, s[Len(s) - 1].b, s[Len(s)].b)
             ref == [p \in Meanings |-> And3(s[Len(s) - 1].ref[p], s[Len(s)].ref[p])]
         IN  ParsedTo(e, m.cs, Pushed(s, Len(s) - 2, [b |-> m.blk, ref |-> ref]),
                      Pushed(kinds, Len(s) - 2, "block"))
<1>. DEFINE l == Len(s)
            n == l - 2
            lo == cut[n]
            mid == cut[l - 1]
            hi == cut[l]
            b0 == s[l - 1].b
            b1 == s[l].b
            r0 == s[l - 1].ref
            r1 == s[l].ref
            m == GenAnd(gs, b0, b1)
            ref == [p \in Meanings |-> And3(r0[p], r1[p])]
            lr == gs.linkreg
            A0 == lo + 1 .. mid
            A1 == mid + 1 .. hi
            n0 == mid - lo
            n1 == hi - mid
<1>1. /\ n \in 0 .. Len(s) /\ lo \in Nat /\ mid \in Nat /\ hi \in Nat
      /\ lo <= mid /\ mid <= hi /\ hi <= Len(gs.blocks) /\ Taken(kinds, n) = {}
      /\ BlockFor(e, gs.blocks, lr, b0, r0, A0, n0)
      /\ BlockFor(e, gs.blocks, lr, b1, r1, A1, n1)
      /\ r0 \in Refs /\ r1 \in Refs
  BY TwoBlocks
<1>2. gs \in CsType /\ ~gs.failed /\ Len(gs.blocks) \in Nat
  BY ParsedFacts
<1>. HIDE DEF l, n, lo, mid, hi, b0, b1, r0, r1, lr
<1>3. ref \in Refs /\ \A p \in Meanings : ref[p] = And3(r0[p], r1[p])
  BY ONLY <1>1, AndRefs
<1>4. A0 \cap A1 = {} /\ n0 \in Nat /\ n1 \in Nat /\ n0 + n1 <= Len(gs.blocks)
  BY ONLY <1>1, <1>2, TwoIntervals
<1>. HIDE DEF ref
<1>5. JoinedIn(e, gs, lo, mid, hi, m, ref)
  <2>1. r0 \in [Meanings -> Verdict3] /\ r1 \in [Meanings -> Verdict3]
    BY <1>1 DEF Refs
  <2>. HIDE DEF A0, A1, n0, n1
  <2>2. /\ OnlyBlocks(gs, m.cs, A0 \cup A1) /\ Len(m.cs.blocks) = Len(gs.blocks)
        /\ BlockFor(e, m.cs.blocks, lr, m.blk, ref, A0 \cup A1, n0 + n1)
    BY ONLY <1>1, <1>2, <1>3, <1>4, <2>1, AndRight
  <2>. QED  BY ONLY <2>2 DEF JoinedIn, A0, A1, n0, n1, lr
<1>. HIDE DEF m, A0, A1, n0, n1
<1>6. MadeFrom(e, gs, lo, m, ref) /\ m.cs.failed = gs.failed
  BY ONLY <1>1, <1>2, <1>5, JoinedMade
<1>7. MadeFrom(e, gs, cut[n], m, ref) /\ ~m.cs.failed
  BY ONLY <1>2, <1>6 DEF lo
<1>8. ParsedTo(e, m.cs, Pushed(s, n, [b |-> m.blk, ref |-> ref]), Pushed(kinds, n, "block"))
  BY ONLY Parsed(e, gs, s, kinds, cut), <1>1, <1>3, <1>7, StepBlock
<1>. QED  BY <1>8 DEF n, m, ref, b0, b1, r0, r1, l

LEMMA OrRefs ==
  ASSUME NEW r0 \in Refs, NEW r1 \in Refs, NEW ref, ref = [p \in Meanings |-> Or3(r0[p], r1[p])]
  PROVE  ref \in Refs /\ \A p \in Meanings : ref[p] = Or3(r0[p], r1[p])
<1>1. \A p \in Meanings : r0[p] \in Verdict3 /\ r1[p] \in Verdict3
  BY DEF Refs
<1>2. \A p \in Meanings : Or3(r0[p], r1[p]) \in Verdict3
  BY <1>1 DEF Or3, Verdict3
<1>. QED  BY <1>2 DEF Refs

LEMMA StepOr ==
  ASSUME NEW e, NEW gs, NEW s, NEW kinds, NEW cut, Parsed(e, gs, s, kinds, cut),
         Len(s) >= 2, kinds[Len(s)] = "block", kinds[Len(s) - 1] = "block"
  PROVE  LET m == GenOr(gs, s[Len(s) - 1].b, s[Len(s)].b)
             ref == [p \in Meanings |-> Or3(s[Len(s) - 1].ref[p], s[Len(s)].ref[p])]
         IN  ParsedTo(e, m.cs, Pushed(s, Len(s) - 2, [b |-> m.blk, ref |-> ref]),
                      Pushed(kinds, Len(s) - 2, "block"))
<1>. DEFINE l == Len(s)
            n == l - 2
            lo == cut[n]
            mid == cut[l - 1]
            hi == cut[l]
            b0 == s[l - 1].b
            b1 == s[l].b
            r0 == s[l - 1].ref
            r1 == s[l].ref
            m == GenOr(gs, b0, b1)
            ref == [p \in Meanings |-> Or3(r0[p], r1[p])]
            lr == gs.linkreg
            A0 == lo + 1 .. mid
            A1 == mid + 1 .. hi
            n0 == mid - lo
            n1 == hi - mid
<1>1. /\ n \in 0 .. Len(s) /\ lo \in Nat /\ mid \in Nat /\ hi \in Nat
      /\ lo <= mid /\ mid <= hi /\ hi <= Len(gs.blocks) /\ Taken(kinds, n) = {}
      /\ BlockFor(e, gs.blocks, lr, b0, r0, A0, n0)
      /\ BlockFor(e, gs.blocks, lr, b1, r1, A1, n1)
      /\ r0 \in Refs /\ r1 \in Refs
  BY TwoBlocks
<1>2. gs \in CsType /\ ~gs.failed /\ Len(gs.blocks) \in Nat
  BY ParsedFacts
<1>. HIDE DEF l, n, lo, mid, hi, b0, b1, r0, r1, lr
<1>3. ref \in Refs /\ \A p \in Meanings : ref[p] = Or3(r0[p], r1[p])
  BY ONLY <1>1, OrRefs
<1>4. A0 \cap A1 = {} /\ n0 \in Nat /\ n1 \in Nat /\ n0 + n1 <= Len(gs.blocks)
  BY ONLY <1>1, <1>2, TwoIntervals
<1>. HIDE DEF ref
<1>5. JoinedIn(e, gs, lo, mid, hi, m, ref)
  <2>1. r0 \in [Meanings -> Verdict3] /\ r1 \in [Meanings -> Verdict3]
    BY <1>1 DEF Refs
  <2>. HIDE DEF A0, A1, n0, n1
  <2>2. /\ OnlyBlocks(gs, m.cs, A0 \cup A1) /\ Len(m.cs.blocks) = Len(gs.blocks)
        /\ BlockFor(e, m.cs.blocks, lr, m.blk, ref, A0 \cup A1, n0 + n1)
    BY ONLY <1>1, <1>2, <1>3, <1>4, <2>1, OrRight
  <2>. QED  BY ONLY <2>2 DEF JoinedIn, A0, A1, n0, n1, lr
<1>. HIDE DEF m, A0, A1, n0, n1
<1>6. MadeFrom(e, gs, lo, m, ref) /\ m.cs.failed = gs.failed
  BY ONLY <1>1, <1>2, <1>5, JoinedMade
<1>7. MadeFrom(e, gs, cut[n], m, ref) /\ ~m.cs.failed
  BY ONLY <1>2, <1>6 DEF lo
<1>8. ParsedTo(e, m.cs, Pushed(s, n, [b |-> m.blk, ref |-> ref]), Pushed(kinds, n, "block"))
  BY ONLY Parsed(e, gs, s, kinds, cut), <1>1, <1>3, <1>7, StepBlock
<1>. QED  BY <1>8 DEF n, m, ref, b0, b1, r0, r1, l

LEMMA StepRel ==
  ASSUME NEW e, NEW gs, NEW s, NEW kinds, NEW cut, Parsed(e, gs, s, kinds, cut),
         Len(s) >= 2, kinds[Len(s)] = "number", kinds[Len(s) - 1] = "number", NEW t, RelType(t)
  PROVE  LET m == GenRelation(gs, t.fn, s[Len(s) - 1].a, s[Len(s)].a, t.reversed)
             ref == RelRef(t, s[Len(s) - 1].ref, s[Len(s)].ref)
         IN  ParsedTo(e, m.cs, Pushed(s, Len(s) - 2, [b |-> m.blk, ref |-> ref]),
                      Pushed(kinds, Len(s) - 2, "block")) /\ ~m.cs.failed
<1>. DEFINE l == Len(s)
            n == l - 2
            a0 == s[l - 1].a
            a1 == s[l].a
            r0 == s[l - 1].ref
            r1 == s[l].ref
            lo == cut[n]
            mid == cut[l - 1]
            m == GenRelation(gs, t.fn, a0, a1, t.reversed)
            ref == RelRef(t, r0, r1)
            x == [b |-> m.blk, ref |-> ref]
            N == Len(gs.blocks)
            lr == gs.linkreg
<1>1. /\ l \in 1 .. Len(s) /\ l - 1 \in 1 .. Len(s) /\ gs \in CsType /\ ~gs.failed /\ LinkOwned(gs)
      /\ kinds \in Seq({"number", "block"}) /\ l = Len(kinds) /\ n \in 0 .. Len(s) /\ (l - 1) - 1 = n
      /\ RegsIs(gs, s, kinds) /\ l \in Nat /\ N \in Nat
  BY ParsedFacts
<1>2. /\ Arithmetic(a1) /\ r1 \in NumberRefs /\ a1.reg \in Owners(gs) /\ mid \in Nat
      /\ mid <= cut[l] /\ cut[l] <= N /\ cut[l] \in Nat
      /\ \A top \in Nat : cut[l] <= top => NumberFor(e, gs.blocks, lr, a1, r1, mid + 1 .. top, top - mid)
  BY <1>1, NumberAt
<1>3. /\ Arithmetic(a0) /\ r0 \in NumberRefs /\ a0.reg \in Owners(gs) /\ lo \in Nat /\ lo <= mid
      /\ NumberFor(e, gs.blocks, lr, a0, r0, lo + 1 .. mid, mid - lo)
  <2>1. cut[(l - 1) - 1] = lo
    BY <1>1
  <2>2. /\ Arithmetic(a0) /\ r0 \in NumberRefs /\ a0.reg \in Owners(gs)
        /\ cut[(l - 1) - 1] \in Nat /\ cut[(l - 1) - 1] <= mid
        /\ NumberFor(e, gs.blocks, lr, a0, r0, cut[(l - 1) - 1] + 1 .. mid, mid - cut[(l - 1) - 1])
    BY <1>1, NumberAt
  <2>. HIDE DEF lo, mid, a0, r0
  <2>. QED  BY ONLY <2>1, <2>2
<1>4. TwoOperands(a0, a1)
  <2>1. l - 1 \in Numbers(kinds) /\ l \in Numbers(kinds) /\ l - 1 < l
    BY <1>1 DEF Numbers
  <2>2. a0.reg \notin Stores(a1.s)
    BY <1>1, <2>1 DEF RegsIs
  <2>. QED  BY <1>2, <1>3, <2>2 DEF TwoOperands
<1>5. Cut2(gs, e, lo, mid, a0, r0, a1, r1)
  <2>. HIDE DEF lo, mid, a0, r0, a1, r1, l
  <2>1. mid <= N
    BY ONLY <1>1, <1>2
  <2>2. NumberFor(e, gs.blocks, lr, a1, r1, mid + 1 .. N, N - mid)
    BY ONLY <1>1, <1>2
  <2>. QED  BY <1>2, <1>3, <2>1, <2>2 DEF Cut2
<1>6. BlockMade(e, gs, lo, m, ref, {a0.reg, a1.reg})
  <2>. HIDE DEF lo, mid, a0, r0, a1, r1, l
  <2>. QED  BY <1>1, <1>2, <1>3, <1>4, <1>5, RelRight
<1>7. RegsOf(s, Taken(kinds, n)) = {a0.reg, a1.reg}
  <2>1. Taken(kinds, n) = {l - 1, l}
    BY <1>1, TakenTop
  <2>. HIDE DEF l, n
  <2>2. RegsOf(s, {l - 1, l}) = {s[l - 1].a.reg, s[l].a.reg}
    <3>1. \A i, j : /\ RegsOf(s, {i, j}) = {s[i].a.reg, s[j].a.reg}
                    /\ StoresUpon(s, {i, j}) = Stores(s[i].a.s) \cup Stores(s[j].a.s)
      BY TakenRegs
    <3>. QED  BY ONLY <3>1
  <2>. QED  BY ONLY <2>1, <2>2
<1>8. BlockMade(e, gs, cut[n], m, ref, RegsOf(s, Taken(kinds, n))) /\ ~m.cs.failed
  BY <1>6, <1>7 DEF BlockMade
<1>9. x = [b |-> m.blk, ref |-> ref]
  OBVIOUS
<1>. HIDE DEF n, m, ref, x
<1>10. ParsedTo(e, m.cs, Pushed(s, n, x), Pushed(kinds, n, "block"))
  BY ONLY Parsed(e, gs, s, kinds, cut), <1>1, <1>8, <1>9, PushBlockRight
<1>. QED  BY <1>8, <1>10 DEF n, m, ref, x

(***************************************************************************)
(* The invariant of the parse: the k reductions that are done have left on *)
(* the stack what they leave on a stack of kinds.                          *)
(***************************************************************************)
Done == Len(expr) - Len(todo)
ParseInv ==
  phase = "parse" =>
    /\ expr \in Exprs /\ todo \in Seq(ReductionType)
    /\ Done \in 0 .. Len(expr) /\ \A j \in 1 .. Len(todo) : todo[j] = expr[Done + j]
    /\ ParsedTo(expr, cs, stack, Kinds(expr)[Done])

LEMMA Operands2 ==
  ASSUME NEW kinds \in Seq({"number", "block"}), NEW t \in ReductionType, FindsOperands(kinds, t)
  PROVE  /\ Len(kinds) \in Nat
         /\ t.op \in {"load", "neg"} => Len(kinds) >= 1 /\ kinds[Len(kinds)] = "number"
         /\ t.op \in {"arth", "rel"} => Len(kinds) >= 2 /\ kinds[Len(kinds)] = "number"
                                        /\ kinds[Len(kinds) - 1] = "number"
         /\ t.op = "not" => Len(kinds) >= 1 /\ kinds[Len(kinds)] = "block"
         /\ t.op \in {"and", "or"} => Len(kinds) >= 2 /\ kinds[Len(kinds)] = "block"
                                      /\ kinds[Len(kinds) - 1] = "block"
<1>1. Len(kinds) \in Nat
  OBVIOUS
<1>2. CASE t.op \in {"load", "neg"}
  <2>1. Takes(t) = << "number" >> /\ Len(Takes(t)) = 1 /\ Takes(t)[1] = "number"
    BY <1>2 DEF Takes
  <2>2. 1 <= Len(kinds) /\ kinds[Len(kinds) - 1 + 1] = "number"
    BY <2>1 DEF FindsOperands
  <2>. QED  BY <1>1, <1>2, <2>2
<1>3. CASE t.op \in {"arth", "rel"}
  <2>1. Len(Takes(t)) = 2 /\ Takes(t)[1] = "number" /\ Takes(t)[2] = "number"
    BY <1>3 DEF Takes
  <2>2. 2 <= Len(kinds) /\ kinds[Len(kinds) - 2 + 1] = "number" /\ kinds[Len(kinds) - 2 + 2] = "number"
    BY <2>1 DEF FindsOperands
  <2>. QED  BY <1>1, <1>3, <2>2
<1>4. CASE t.op = "not"
  <2>1. Len(Takes(t)) = 1 /\ Takes(t)[1] = "block"
    BY <1>4 DEF Takes
  <2>2. 1 <= Len(kinds) /\ kinds[Len(kinds) - 1 + 1] = "block"
    BY <2>1 DEF FindsOperands
  <2>. QED  BY <1>1, <1>4, <2>2
<1>5. CASE t.op \in {"and", "or"}
  <2>1. Len(Takes(t)) = 2 /\ Takes(t)[1] = "block" /\ Takes(t)[2] = "block"
    BY <1>5 DEF Takes
  <2>2. 2 <= Len(kinds) /\ kinds[Len(kinds) - 2 + 1] = "block" /\ kinds[Len(kinds) - 2 + 2] = "block"
    BY <2>1 DEF FindsOperands
  <2>. QED  BY <1>1, <1>5, <2>2
<1>. QED  BY <1>1, <1>2, <1>3, <1>4, <1>5

LEMMA TakesGives ==
  ASSUME NEW t \in ReductionType
  PROVE  /\ t.op \in {"num", "len", "cmp", "range"} => Len(Takes(t)) = 0
         /\ t.op \in {"load", "neg", "not"} => Len(Takes(t)) = 1
         /\ t.op \in {"arth", "rel", "and", "or"} => Len(Takes(t)) = 2
         /\ t.op \in {"num", "len", "load", "neg", "arth"} => Gives(t) = "number"
         /\ t.op \in {"rel", "cmp", "range", "not", "and", "or"} => Gives(t) = "block"
         /\ t.op \in {"num", "len", "load", "neg", "arth", "rel", "cmp", "range", "not", "and", "or"}
<1>1. t.op \in {"num", "len", "load", "neg", "arth", "rel", "cmp", "range", "not", "and", "or"}
  BY DEF ReductionType
<1>2. t.op \in {"num", "len", "cmp", "range"} => Len(Takes(t)) = 0
  BY DEF Takes
<1>3. t.op \in {"load", "neg", "not"} => Len(Takes(t)) = 1
  BY DEF Takes
<1>4. t.op \in {"arth", "rel", "and", "or"} => Len(Takes(t)) = 2
  BY DEF Takes
<1>. QED  BY <1>1, <1>2, <1>3, <1>4 DEF Gives

LEMMA Fields ==
  ASSUME NEW t \in ReductionType
  PROVE  /\ t.op = "num" => t.k \in Word
         /\ t.op = "load" => t.proto \in {"link", "ip", "tcp"} /\ t.size \in {1, 2, 4} /\ LoadType(t)
         /\ t.op = "arth" => t.fn \in AluFn
         /\ t.op = "rel" => RelType(t)
         /\ t.op = "cmp" => t.off \in Word /\ t.size \in {1, 2, 4} /\ t.v \in Word /\ t.mask \in Word
         /\ t.op = "range" => t.off \in Word /\ t.size \in {1, 2, 4} /\ t.v \in Word /\ t.fn \in CondFn
                              /\ t.reversed \in BOOLEAN
<1>1. {"jeq", "jgt", "jge"} \subseteq CondFn
  BY DEF CondFn
<1>2. t.op = "num" => t.k \in Word
  BY DEF ReductionType
<1>3. t.op = "load" => t.proto \in {"link", "ip", "tcp"} /\ t.size \in {1, 2, 4}
  BY DEF ReductionType
<1>4. t.op = "arth" => t.fn \in AluFn
  BY DEF ReductionType
<1>5. t.op = "rel" => t.fn \in {"jeq", "jgt", "jge"} /\ t.reversed \in BOOLEAN
  BY DEF ReductionType
<1>6. t.op = "cmp" => t.off \in Word /\ t.size \in {1, 2, 4} /\ t.v \in Word /\ t.mask \in Word
  BY DEF ReductionType
<1>7. t.op = "range" => t.off \in Word /\ t.size \in {1, 2, 4} /\ t.v \in Word
                        /\ t.fn \in {"jeq", "jgt", "jge"} /\ t.reversed \in BOOLEAN
  BY DEF ReductionType
<1>. QED  BY <1>1, <1>2, <1>3, <1>4, <1>5, <1>6, <1>7 DEF RelType, LoadType, Protos

(* What a reduction puts in the place of its operands.                     *)
LEMMA PushedNumber ==
  ASSUME NEW k \in Nat, NEW m, NEW ref, PushNumber(k, m, ref)
  PROVE  /\ cs' = m.cs
         /\ stack' = Pushed(stack, Len(stack) - k, [a |-> m.arth, ref |-> [p \in Meanings |-> ref[p]]])
  BY DEF PushNumber, Push, Below, Pushed, Below1

LEMMA PushedBlock ==
  ASSUME NEW k \in Nat, NEW m, NEW ref, PushBlock(k, m, ref)
  PROVE  /\ cs' = m.cs
         /\ stack' = Pushed(stack, Len(stack) - k, [b |-> m.blk, ref |-> [p \in Meanings |-> ref[p]]])
  BY DEF PushBlock, Push, Below, Pushed, Below1

(* A stack of kinds behind the reduction t.                                *)
After1(kinds, t) == Append(Rest(kinds, t), Gives(t))
LEMMA AfterKinds ==
  ASSUME NEW kinds, NEW t
  PROVE  After1(kinds, t) = Pushed(kinds, Len(kinds) - Len(Takes(t)), Gives(t))
  BY DEF After1, Rest, Pushed, Below1

LEMMA ReduceNumbers ==
  ASSUME NEW kinds, NEW cut, Parsed(expr, cs, stack, kinds, cut), NEW t \in ReductionType,
         FindsOperands(kinds, t), expr \in Prefixed /\ t.op = "load" => t.proto = "link",
         t.op \in {"num", "len", "load", "neg", "arth"}, Reduction(t), ~cs'.failed
  PROVE  ParsedTo(expr, cs', stack', After1(kinds, t))
<1>. DEFINE l == Len(stack)
<1>1. /\ l \in Nat /\ l = Len(kinds) /\ kinds \in Seq({"number", "block"}) /\ l - 0 = l
      /\ cs.prefixed <=> expr \in Prefixed
  BY ParsedFacts
<1>2. After1(kinds, t) = Pushed(kinds, l - Len(Takes(t)), "number")
  BY <1>1, AfterKinds, TakesGives
<1>3. CASE t.op = "num"
  <2>. DEFINE i == LdImm(t.k)
              x == [p \in Meanings |-> t.k]
              m == GenLoad1(cs, i)
              ref == [p \in Meanings |-> Number(t.k)]
  <2>1. PushNumber(0, m, ref)
    BY <1>3 DEF Reduction
  <2>2. Load1Ok(i, x)
    BY <1>3, Fields, Load1Num
  <2>3. [p \in Meanings |-> Number(x[p])] = [p \in Meanings |-> ref[p]]
    OBVIOUS
  <2>. HIDE DEF ref, i, x
  <2>4. /\ cs' = m.cs
        /\ stack' = Pushed(stack, l - 0, [a |-> m.arth, ref |-> [p \in Meanings |-> ref[p]]])
    BY <2>1, PushedNumber
  <2>5. ~m.cs.failed
    BY <2>4
  <2>6. ParsedTo(expr, m.cs, Pushed(stack, l, [a |-> m.arth, ref |-> [p \in Meanings |-> Number(x[p])]]),
                 Pushed(kinds, l, "number"))
    BY <2>2, <2>5, StepLoad1
  <2>7. Len(Takes(t)) = 0
    BY <1>3, TakesGives
  <2>. HIDE DEF m, l
  <2>. QED  BY ONLY <1>1, <1>2, <2>3, <2>4, <2>6, <2>7
<1>4. CASE t.op = "len"
  <2>. DEFINE i == LdLen
              x == [p \in Meanings |-> Packets[p].wirelen]
              m == GenLoad1(cs, i)
              ref == [p \in Meanings |-> Number(Packets[p].wirelen)]
  <2>1. PushNumber(0, m, ref)
    BY <1>4 DEF Reduction
  <2>2. Load1Ok(i, x)
    BY Load1Len
  <2>3. [p \in Meanings |-> Number(x[p])] = [p \in Meanings |-> ref[p]]
    OBVIOUS
  <2>. HIDE DEF ref, i, x
  <2>4. /\ cs' = m.cs
        /\ stack' = Pushed(stack, l - 0, [a |-> m.arth, ref |-> [p \in Meanings |-> ref[p]]])
    BY <2>1, PushedNumber
  <2>5. ~m.cs.failed
    BY <2>4
  <2>6. ParsedTo(expr, m.cs, Pushed(stack, l, [a |-> m.arth, ref |-> [p \in Meanings |-> Number(x[p])]]),
                 Pushed(kinds, l, "number"))
    BY <2>2, <2>5, StepLoad1
  <2>7. Len(Takes(t)) = 0
    BY <1>4, TakesGives
  <2>. HIDE DEF m, l
  <2>. QED  BY ONLY <1>1, <1>2, <2>3, <2>4, <2>6, <2>7
<1>5. CASE t.op = "load"
  <2>. DEFINE m == GenLoad(cs, t.proto, t.size, Top.a)
              ref == [p \in Meanings |-> LoadMeaning(t, Top.ref[p], Packets[p])]
  <2>1. PushNumber(1, m, ref)
    BY <1>5 DEF Reduction
  <2>2. LoadType(t) /\ (t.proto # "link" => ~cs.prefixed) /\ l >= 1 /\ kinds[l] = "number"
    BY <1>1, <1>5, Fields, Operands2
  <2>3. [p \in Meanings |-> ref[p]] = LoadRef(t, stack[l].ref) /\ m = GenLoad(cs, t.proto, t.size, stack[l].a)
    BY DEF LoadRef, Top
  <2>. HIDE DEF ref, m
  <2>4. /\ cs' = m.cs
        /\ stack' = Pushed(stack, l - 1, [a |-> m.arth, ref |-> [p \in Meanings |-> ref[p]]])
    BY <2>1, PushedNumber
  <2>5. ~GenLoad(cs, t.proto, t.size, stack[l].a).cs.failed
    BY <2>3, <2>4
  <2>6. LET y == GenLoad(cs, t.proto, t.size, stack[l].a)
        IN  ParsedTo(expr, y.cs, Pushed(stack, l - 1, [a |-> y.arth, ref |-> LoadRef(t, stack[l].ref)]),
                     Pushed(kinds, l - 1, "number"))
    BY <2>2, <2>5, StepLoad
  <2>7. Len(Takes(t)) = 1
    BY <1>5, TakesGives
  <2>. HIDE DEF l
  <2>. QED  BY ONLY <1>1, <1>2, <2>3, <2>4, <2>6, <2>7
<1>6. CASE t.op = "neg"
  <2>. DEFINE m == GenNeg(cs, Top.a)
              ref == [p \in Meanings |-> [Top.ref[p] EXCEPT !.v = (0 - @) % W]]
  <2>1. PushNumber(1, m, ref)
    BY <1>6 DEF Reduction
  <2>2. l >= 1 /\ kinds[l] = "number"
    BY <1>1, <1>6, Operands2
  <2>3. [p \in Meanings |-> ref[p]] = NegRef(stack[l].ref) /\ m = GenNeg(cs, stack[l].a)
    BY DEF NegRef, Top
  <2>. HIDE DEF ref, m
  <2>4. /\ cs' = m.cs
        /\ stack' = Pushed(stack, l - 1, [a |-> m.arth, ref |-> [p \in Meanings |-> ref[p]]])
    BY <2>1, PushedNumber
  <2>6. LET y == GenNeg(cs, stack[l].a)
        IN  ParsedTo(expr, y.cs, Pushed(stack, l - 1, [a |-> y.arth, ref |-> NegRef(stack[l].ref)]),
                     Pushed(kinds, l - 1, "number"))
    BY <2>2, StepNeg
  <2>7. Len(Takes(t)) = 1
    BY <1>6, TakesGives
  <2>. HIDE DEF l
  <2>. QED  BY ONLY <1>1, <1>2, <2>3, <2>4, <2>6, <2>7
<1>7. CASE t.op = "arth"
  <2>. DEFINE m == GenArth(cs, t.fn, Second.a, Top.a)
              ref == [p \in Meanings |-> ArthMeaning(t.fn, Second.ref[p], Top.ref[p])]
  <2>1. PushNumber(2, m, ref)
    BY <1>7 DEF Reduction
  <2>2. l >= 2 /\ kinds[l] = "number" /\ kinds[l - 1] = "number" /\ t.fn \in AluFn
    BY <1>1, <1>7, Operands2, Fields
  <2>3. /\ [p \in Meanings |-> ref[p]] = ArthRef(t.fn, stack[l - 1].ref, stack[l].ref)
        /\ m = GenArth(cs, t.fn, stack[l - 1].a, stack[l].a)
    BY DEF ArthRef, Top, Second
  <2>. HIDE DEF ref, m
  <2>4. /\ cs' = m.cs
        /\ stack' = Pushed(stack, l - 2, [a |-> m.arth, ref |-> [p \in Meanings |-> ref[p]]])
    BY <2>1, PushedNumber
  <2>5. ~GenArth(cs, t.fn, stack[l - 1].a, stack[l].a).cs.failed
    BY <2>3, <2>4
  <2>6. LET y == GenArth(cs, t.fn, stack[l - 1].a, stack[l].a)
        IN  ParsedTo(expr, y.cs,
                     Pushed(stack, l - 2, [a |-> y.arth, ref |-> ArthRef(t.fn, stack[l - 1].ref, stack[l].ref)]),
                     Pushed(kinds, l - 2, "number"))
    BY <2>2, <2>5, StepArth
  <2>7. Len(Takes(t)) = 2
    BY <1>7, TakesGives
  <2>. HIDE DEF l
  <2>. QED  BY ONLY <1>1, <1>2, <2>3, <2>4, <2>6, <2>7
<1>. QED  BY <1>3, <1>4, <1>5, <1>6, <1>7

LEMMA ReduceBlocks ==
  ASSUME NEW kinds, NEW cut, Parsed(expr, cs, stack, kinds, cut), NEW t \in ReductionType,
         FindsOperands(kinds, t),
         t.op \in {"rel", "cmp", "range", "not", "and", "or"}, Reduction(t), ~cs'.failed
  PROVE  ParsedTo(expr, cs', stack', After1(kinds, t))
<1>. DEFINE l == Len(stack)
<1>1. /\ l \in Nat /\ l = Len(kinds) /\ kinds \in Seq({"number", "block"}) /\ l - 0 = l
  BY ParsedFacts
<1>2. After1(kinds, t) = Pushed(kinds, l - Len(Takes(t)), "block")
  BY <1>1, AfterKinds, TakesGives
<1>3. CASE t.op = "rel"
  <2>. DEFINE m == GenRelation(cs, t.fn, Second.a, Top.a, t.reversed)
              ref == [p \in Meanings |-> RelMeaning(t, Second.ref[p], Top.ref[p])]
              y == GenRelation(cs, t.fn, stack[l - 1].a, stack[l].a, t.reversed)
              z == RelRef(t, stack[l - 1].ref, stack[l].ref)
  <2>1. PushBlock(2, m, ref)
    BY <1>3 DEF Reduction
  <2>2. l >= 2 /\ kinds[l] = "number" /\ kinds[l - 1] = "number" /\ RelType(t)
    BY <1>1, <1>3, Fields, Operands2
  <2>3. [p \in Meanings |-> ref[p]] = z /\ m = y
    BY DEF RelRef, Top, Second
  <2>. HIDE DEF ref, m
  <2>4. /\ cs' = m.cs
        /\ stack' = Pushed(stack, l - 2, [b |-> m.blk, ref |-> [p \in Meanings |-> ref[p]]])
    BY <2>1, PushedBlock
  <2>5. ~y.cs.failed
    BY <2>3, <2>4
  <2>6. ParsedTo(expr, y.cs, Pushed(stack, l - 2, [b |-> y.blk, ref |-> z]), Pushed(kinds, l - 2, "block"))
    BY <1>1, <2>2, <2>5, StepRel
  <2>7. Len(Takes(t)) = 2
    BY <1>3, TakesGives
  <2>. HIDE DEF l, y, z
  <2>. QED  BY ONLY <1>1, <1>2, <2>3, <2>4, <2>6, <2>7
<1>4. CASE t.op = "cmp"
  <2>. DEFINE m == GenMcmp(cs, t.off, t.size, t.v, t.mask)
              ref == [p \in Meanings |-> CmpMeaning(t, Packets[p])]
              y == GenMcmp(cs, t.off, t.size, t.v, t.mask)
              z == [p \in Meanings |-> CmpMeaning(t, Packets[p])]
  <2>1. PushBlock(0, m, ref)
    BY <1>4 DEF Reduction
  <2>2. t.off \in Word /\ t.size \in {1, 2, 4} /\ t.v \in Word /\ t.mask \in Word
    BY <1>1, <1>4, Fields, Operands2
  <2>3. [p \in Meanings |-> ref[p]] = z /\ m = y
    OBVIOUS
  <2>. HIDE DEF ref, m
  <2>4. /\ cs' = m.cs
        /\ stack' = Pushed(stack, l - 0, [b |-> m.blk, ref |-> [p \in Meanings |-> ref[p]]])
    BY <2>1, PushedBlock
  <2>5. ~y.cs.failed
    BY <2>3, <2>4
  <2>6. ParsedTo(expr, y.cs, Pushed(stack, l, [b |-> y.blk, ref |-> z]), Pushed(kinds, l, "block"))
    BY <1>1, <2>2, <2>5, StepCmp
  <2>7. Len(Takes(t)) = 0
    BY <1>4, TakesGives
  <2>. HIDE DEF l, y, z
  <2>. QED  BY ONLY <1>1, <1>2, <2>3, <2>4, <2>6, <2>7
<1>5. CASE t.op = "range"
  <2>. DEFINE m == GenNcmp(cs, t.off, t.size, AllOnes, t.fn, t.reversed, t.v)
              ref == [p \in Meanings |-> RangeMeaning(t, Packets[p])]
              y == GenNcmp(cs, t.off, t.size, AllOnes, t.fn, t.reversed, t.v)
              z == [p \in Meanings |-> RangeMeaning(t, Packets[p])]
  <2>1. PushBlock(0, m, ref)
    BY <1>5 DEF Reduction
  <2>2. t.off \in Word /\ t.size \in {1, 2, 4} /\ t.v \in Word /\ t.fn \in CondFn /\ t.reversed \in BOOLEAN
    BY <1>1, <1>5, Fields, Operands2
  <2>3. [p \in Meanings |-> ref[p]] = z /\ m = y
    OBVIOUS
  <2>. HIDE DEF ref, m
  <2>4. /\ cs' = m.cs
        /\ stack' = Pushed(stack, l - 0, [b |-> m.blk, ref |-> [p \in Meanings |-> ref[p]]])
    BY <2>1, PushedBlock
  <2>5. ~y.cs.failed
    BY <2>3, <2>4
  <2>6. ParsedTo(expr, y.cs, Pushed(stack, l, [b |-> y.blk, ref |-> z]), Pushed(kinds, l, "block"))
    BY <1>1, <2>2, <2>5, StepRange
  <2>7. Len(Takes(t)) = 0
    BY <1>5, TakesGives
  <2>. HIDE DEF l, y, z
  <2>. QED  BY ONLY <1>1, <1>2, <2>3, <2>4, <2>6, <2>7
<1>6. CASE t.op = "not"
  <2>. DEFINE m == GenNot(cs, Top.b)
              ref == [p \in Meanings |-> Not3(Top.ref[p])]
              y == GenNot(cs, stack[l].b)
              z == [p \in Meanings |-> Not3(stack[l].ref[p])]
  <2>1. PushBlock(1, m, ref)
    BY <1>6 DEF Reduction
  <2>2. l >= 1 /\ kinds[l] = "block"
    BY <1>1, <1>6, Fields, Operands2
  <2>3. [p \in Meanings |-> ref[p]] = z /\ m = y
    BY DEF Top
  <2>. HIDE DEF ref, m
  <2>4. /\ cs' = m.cs
        /\ stack' = Pushed(stack, l - 1, [b |-> m.blk, ref |-> [p \in Meanings |-> ref[p]]])
    BY <2>1, PushedBlock
  <2>5. ~y.cs.failed
    BY <2>3, <2>4
  <2>6. ParsedTo(expr, y.cs, Pushed(stack, l - 1, [b |-> y.blk, ref |-> z]), Pushed(kinds, l - 1, "block"))
    BY <1>1, <2>2, <2>5, StepNot
  <2>7. Len(Takes(t)) = 1
    BY <1>6, TakesGives
  <2>. HIDE DEF l, y, z
  <2>. QED  BY ONLY <1>1, <1>2, <2>3, <2>4, <2>6, <2>7
<1>7. CASE t.op = "and"
  <2>. DEFINE m == GenAnd(cs, Second.b, Top.b)
              ref == [p \in Meanings |-> And3(Second.ref[p], Top.ref[p])]
              y == GenAnd(cs, stack[l - 1].b, stack[l].b)
              z == [p \in Meanings |-> And3(stack[l - 1].ref[p], stack[l].ref[p])]
  <2>1. PushBlock(2, m, ref)
    BY <1>7 DEF Reduction
  <2>2. l >= 2 /\ kinds[l] = "block" /\ kinds[l - 1] = "block"
    BY <1>1, <1>7, Fields, Operands2
  <2>3. [p \in Meanings |-> ref[p]] = z /\ m = y
    BY DEF Top, Second
  <2>. HIDE DEF ref, m
  <2>4. /\ cs' = m.cs
        /\ stack' = Pushed(stack, l - 2, [b |-> m.blk, ref |-> [p \in Meanings |-> ref[p]]])
    BY <2>1, PushedBlock
  <2>5. ~y.cs.failed
    BY <2>3, <2>4
  <2>6. ParsedTo(expr, y.cs, Pushed(stack, l - 2, [b |-> y.blk, ref |-> z]), Pushed(kinds, l - 2, "block"))
    BY <1>1, <2>2, <2>5, StepAnd
  <2>7. Len(Takes(t)) = 2
    BY <1>7, TakesGives
  <2>. HIDE DEF l, y, z
  <2>. QED  BY ONLY <1>1, <1>2, <2>3, <2>4, <2>6, <2>7
<1>8. CASE t.op = "or"
  <2>. DEFINE m == GenOr(cs, Second.b, Top.b)
              ref == [p \in Meanings |-> Or3(Second.ref[p], Top.ref[p])]
              y == GenOr(cs, stack[l - 1].b, stack[l].b)
              z == [p \in Meanings |-> Or3(stack[l - 1].ref[p], stack[l].ref[p])]
  <2>1. PushBlock(2, m, ref)
    BY <1>8 DEF Reduction
  <2>2. l >= 2 /\ kinds[l] = "block" /\ kinds[l - 1] = "block"
    BY <1>1, <1>8, Fields, Operands2
  <2>3. [p \in Meanings |-> ref[p]] = z /\ m = y
    BY DEF Top, Second
  <2>. HIDE DEF ref, m
  <2>4. /\ cs' = m.cs
        /\ stack' = Pushed(stack, l - 2, [b |-> m.blk, ref |-> [p \in Meanings |-> ref[p]]])
    BY <2>1, PushedBlock
  <2>5. ~y.cs.failed
    BY <2>3, <2>4
  <2>6. ParsedTo(expr, y.cs, Pushed(stack, l - 2, [b |-> y.blk, ref |-> z]), Pushed(kinds, l - 2, "block"))
    BY <1>1, <2>2, <2>5, StepOr
  <2>7. Len(Takes(t)) = 2
    BY <1>8, TakesGives
  <2>. HIDE DEF l, y, z
  <2>. QED  BY ONLY <1>1, <1>2, <2>3, <2>4, <2>6, <2>7
<1>. QED  BY <1>3, <1>4, <1>5, <1>6, <1>7, <1>8

(* A reduction of an expression of Exprs.                                  *)
LEMMA ReduceRight ==
  ASSUME NEW kinds, ParsedTo(expr, cs, stack, kinds), NEW t \in ReductionType,
         FindsOperands(kinds, t), expr \in Prefixed /\ t.op = "load" => t.proto = "link",
         Reduction(t), ~cs'.failed
  PROVE  ParsedTo(expr, cs', stack', After1(kinds, t))
<1>1. PICK cut : Parsed(expr, cs, stack, kinds, cut)
  BY DEF ParsedTo
<1>2. t.op \in {"num", "len", "load", "neg", "arth", "rel", "cmp", "range", "not", "and", "or"}
  BY TakesGives
<1>3. CASE t.op \in {"num", "len", "load", "neg", "arth"}
  BY <1>1, <1>3, ReduceNumbers
<1>4. CASE t.op \in {"rel", "cmp", "range", "not", "and", "or"}
  BY <1>1, <1>4, ReduceBlocks
<1>. QED  BY <1>2, <1>3, <1>4

(* The next reduction of an expression.                                    *)
NextOf(e, k) ==
  /\ e[k] \in ReductionType
  /\ FindsOperands(Kinds(e)[k - 1], e[k])
  /\ e \in Prefixed /\ e[k].op = "load" => e[k].proto = "link"
  /\ Kinds(e)[k] = After1(Kinds(e)[k - 1], e[k])

LEMMA ExprAt ==
  ASSUME NEW e \in Exprs
  PROVE  /\ e \in Seq(ReductionType) /\ Len(e) \in Nat
         /\ \A k \in 1 .. Len(e) : NextOf(e, k)
         /\ Kinds(e)[0] = << >>
         /\ Kinds(e)[Len(e)] \in {<< >>, << "block" >>}
<1>1. WellFormed(e)
  BY ParserAssumption
<1>2. e \in Seq(ReductionType) /\ Len(e) \in Nat
  BY <1>1 DEF WellFormed
<1>3. \A k \in 1 .. Len(e) : e[k] \in ReductionType
  BY <1>2
<1>4. /\ \A k \in 1 .. Len(e) : FindsOperands(Kinds(e)[k - 1], e[k])
      /\ Kinds(e)[Len(e)] \in {<< >>, << "block" >>}
  BY <1>1 DEF WellFormed
<1>5. ASSUME e \in Prefixed, NEW k \in 1 .. Len(e), e[k].op = "load"
      PROVE  e[k].proto = "link"
  BY <1>5, ParserAssumption
<1>6. /\ Kinds(e)[0] = << >>
      /\ \A k \in 1 .. Len(e) : Kinds(e)[k] = After1(Kinds(e)[k - 1], e[k])
  BY <1>2, KindsUnfolds DEF After1
<1>7. ASSUME NEW k \in 1 .. Len(e)
      PROVE  NextOf(e, k)
  BY ONLY <1>3, <1>4, <1>5, <1>6, <1>7 DEF NextOf
<1>. QED  BY ONLY <1>2, <1>4, <1>6, <1>7

LEMMA NewCsParsed ==
  ASSUME NEW e
  PROVE  ParsedTo(e, NewCs(e \in Prefixed), << >>, << >>)
<1>. DEFINE gs == NewCs(e \in Prefixed)
            cut == [j \in 0 .. 0 |-> 0]
<1>1. gs \in CsType /\ ~gs.failed /\ LinkOwned(gs) /\ (gs.prefixed <=> e \in Prefixed) /\ Owners(gs) = {}
      /\ Len(gs.blocks) = 0
  <2>1. 0 \in Slot
    BY Small DEF Slot
  <2>2. << >> \in Seq(Block) /\ {} \in SUBSET Slot /\ NoReg \in Slot \cup {NoReg} /\ Len(<< >>) = 0
    OBVIOUS
  <2>3. gs = [blocks |-> << >>, used |-> {}, cur |-> 0, failed |-> FALSE,
              prefixed |-> e \in Prefixed, linkreg |-> NoReg]
    BY DEF NewCs
  <2>. HIDE DEF gs
  <2>4. gs \in CsType
    BY ONLY <2>1, <2>2, <2>3 DEF CsType
  <2>5. ~gs.failed /\ LinkOwned(gs) /\ Owners(gs) = {} /\ Len(gs.blocks) = 0
    BY ONLY <2>2, <2>3 DEF LinkOwned, Owners
  <2>6. gs.prefixed <=> e \in Prefixed
    BY ONLY <2>3
  <2>. QED  BY <2>4, <2>5, <2>6
<1>2. StackIs(e, gs, << >>, << >>, cut)
  <2>1. << >> \in Seq(NumItem \cup BlkItem) /\ << >> \in Seq({"number", "block"}) /\ Len(<< >>) = 0
    OBVIOUS
  <2>2. cut \in [0 .. 0 -> Nat] /\ cut[0] = 0 /\ 1 .. 0 = {}
    OBVIOUS
  <2>. HIDE DEF gs, cut
  <2>. QED  BY <1>1, <2>1, <2>2 DEF StackIs
<1>3. RegsIs(gs, << >>, << >>)
  <2>1. Numbers(<< >>) = {}
    BY DEF Numbers
  <2>. HIDE DEF gs
  <2>. QED  BY <1>1, <2>1, TakenRegs DEF RegsIs
<1>4. Parsed(e, gs, << >>, << >>, cut)
  <2>. HIDE DEF gs, cut
  <2>. QED  BY <1>1, <1>2, <1>3 DEF Parsed, StateIs
<1>. HIDE DEF gs, cut
<1>5. ParsedTo(e, gs, << >>, << >>)
  BY <1>4 DEF ParsedTo
<1>. QED  BY <1>5 DEF gs

LEMMA ParseInit == ParserInit => ParseInv
<1>. SUFFICES ASSUME ParserInit PROVE ParseInv
  OBVIOUS
<1>1. /\ expr \in Exprs /\ todo = expr /\ stack = << >> /\ cs = NewCs(expr \in Prefixed)
  BY DEF ParserInit
<1>2. expr \in Seq(ReductionType) /\ Len(expr) \in Nat /\ Kinds(expr)[0] = << >>
  BY <1>1, ExprAt
<1>3. Done = 0
  BY <1>1, <1>2 DEF Done
<1>4. todo \in Seq(ReductionType) /\ Done \in 0 .. Len(expr) /\ \A j \in 1 .. Len(todo) : todo[j] = expr[Done + j]
  BY <1>1, <1>2, <1>3
<1>5. ParsedTo(expr, cs, stack, Kinds(expr)[Done])
  BY <1>1, <1>2, <1>3, NewCsParsed
<1>. QED  BY <1>1, <1>4, <1>5 DEF ParseInv

LEMMA ReduceInv ==
  ASSUME ParseInv, Reduce
  PROVE  ParseInv'
<1>. SUFFICES ASSUME phase' = "parse"
             PROVE  /\ expr' \in Exprs /\ todo' \in Seq(ReductionType)
                    /\ Done' \in 0 .. Len(expr') /\ \A j \in 1 .. Len(todo') : todo'[j] = expr'[Done' + j]
                    /\ ParsedTo(expr', cs', stack', Kinds(expr')[Done'])
  BY DEF ParseInv
<1>. DEFINE k == Done
            t == Head(todo)
<1>1. phase = "parse" /\ todo # << >> /\ Reduction(t) /\ todo' = Tail(todo) /\ expr' = expr /\ ~cs'.failed
  BY DEF Reduce
<1>2. /\ expr \in Exprs /\ todo \in Seq(ReductionType) /\ k \in 0 .. Len(expr)
      /\ \A j \in 1 .. Len(todo) : todo[j] = expr[k + j]
      /\ ParsedTo(expr, cs, stack, Kinds(expr)[k])
  BY <1>1 DEF ParseInv
<1>3. /\ Len(todo) \in Nat \ {0} /\ t = todo[1] /\ todo' \in Seq(ReductionType) /\ Len(todo') = Len(todo) - 1
      /\ \A j \in 1 .. Len(todo') : todo'[j] = todo[j + 1]
  BY <1>1, <1>2, TailOf
<1>4. Len(expr) \in Nat /\ k = Len(expr) - Len(todo) /\ k \in Nat
  BY <1>2, ExprAt DEF Done
<1>5. Done' = k + 1 /\ k + 1 \in 1 .. Len(expr)
  BY <1>1, <1>3, <1>4 DEF Done
<1>6. t = expr[k + 1] /\ (k + 1) - 1 = k
  BY <1>2, <1>3, <1>4
<1>7. /\ t \in ReductionType /\ FindsOperands(Kinds(expr)[k], t)
      /\ expr \in Prefixed /\ t.op = "load" => t.proto = "link"
      /\ Kinds(expr)[k + 1] = After1(Kinds(expr)[k], t)
  <2>. HIDE DEF k, t
  <2>1. NextOf(expr, k + 1)
    BY <1>2, <1>5, ExprAt
  <2>. QED  BY ONLY <1>6, <2>1 DEF NextOf
<1>8. ParsedTo(expr, cs', stack', Kinds(expr)[k + 1])
  <2>. HIDE DEF k, t
  <2>1. ParsedTo(expr, cs', stack', After1(Kinds(expr)[k], t))
    BY <1>1, <1>2, <1>7, ReduceRight
  <2>. QED  BY ONLY <1>7, <2>1
<1>9. \A j \in 1 .. Len(todo') : todo'[j] = expr[(k + 1) + j]
  <2>. HIDE DEF k
  <2>1. ASSUME NEW j \in 1 .. Len(todo')
        PROVE  todo'[j] = expr[(k + 1) + j]
    <3>1. j + 1 \in 1 .. Len(todo) /\ k + (j + 1) = (k + 1) + j
      BY <1>3, <1>4
    <3>2. todo'[j] = todo[j + 1] /\ todo[j + 1] = expr[k + (j + 1)]
      BY <1>2, <1>3, <3>1
    <3>. QED  BY ONLY <3>1, <3>2
  <2>. QED  BY ONLY <2>1
<1>10. k + 1 \in 0 .. Len(expr)
  BY <1>4, <1>5
<1>. HIDE DEF k
<1>. QED  BY <1>1, <1>2, <1>3, <1>5, <1>8, <1>9, <1>10

LEMMA ParseStep == ParseInv /\ [ParserNext]_parserVars => ParseInv'
<1>. SUFFICES ASSUME ParseInv, [ParserNext]_parserVars PROVE ParseInv'
  OBVIOUS
<1>1. CASE Reduce
  BY <1>1, ReduceInv
<1>2. CASE Finish
  <2>1. phase' # "parse"
    BY <1>2 DEF Finish
  <2>. QED  BY <2>1 DEF ParseInv
<1>3. CASE Convert
  <2>1. phase' # "parse"
    BY <1>3 DEF Convert, LayoutNext, BeginConvert, Enter, Restart, ConvertBlock, Check
  <2>. QED  BY <2>1 DEF ParseInv
<1>4. CASE UNCHANGED parserVars
  <2>1. /\ expr' = expr /\ todo' = todo /\ stack' = stack /\ cs' = cs /\ phase' = phase /\ Done' = Done
    BY <1>4 DEF parserVars, Done
  <2>. QED  BY <2>1 DEF ParseInv
<1>. QED  BY <1>1, <1>2, <1>3, <1>4 DEF ParserNext

(* ParseInv: the blocks and the arithmetic that a reduction leaves         *)
(* (gen_and, gen_relation, gen_arth and the others in internal/bpf.go)     *)
(* decide, and compute, what their part of the expression means, for every *)
(* packet that decides it.                                                 *)
THEOREM OperandsMeanTheirParts == ParserSpec => []ParseInv
<1>. QED  BY ParseInit, ParseStep, PTL DEF ParserSpec

(* RegistersHaveOneOwner: whatever the expression, at every reduction the  *)
(* scratch words in use (alloc_reg, free_reg) are those of the operands    *)
(* still on the parser's stack, one each, and the prefix's: none is lost   *)
(* and none is shared.                                                     *)
THEOREM RegistersAreOwned == ParserSpec => []RegistersHaveOneOwner
<1>1. ParseInv => RegistersHaveOneOwner
  <2>. SUFFICES ASSUME ParseInv, phase = "parse"
               PROVE  RegistersHaveOneOwner
    BY DEF RegistersHaveOneOwner
  <2>. DEFINE kinds == Kinds(expr)[Done]
              operands == {j \in DOMAIN stack : "a" \in DOMAIN stack[j]}
              regs == {stack[j].a.reg : j \in operands}
  <2>1. PICK cut : Parsed(expr, cs, stack, kinds, cut)
    BY DEF ParseInv, ParsedTo
  <2>. HIDE DEF kinds
  <2>2. /\ Len(stack) \in Nat /\ stack \in Seq(NumItem \cup BlkItem) /\ Len(stack) = Len(kinds)
        /\ kinds \in Seq({"number", "block"}) /\ RegsIs(cs, stack, kinds) /\ cs \in CsType /\ LinkOwned(cs)
        /\ \A j \in 1 .. Len(stack) : ItemIs(expr, cs, stack[j], kinds[j], cut[j - 1], cut[j])
    BY <2>1, ParsedFacts DEF Parsed, StackIs
  <2>3. operands = Numbers(kinds)
    <3>1. \A x \in NumItem : "a" \in DOMAIN x
      BY DEF NumItem
    <3>2. \A x \in BlkItem : "a" \notin DOMAIN x
      BY DEF BlkItem
    <3>3. \A j \in 1 .. Len(stack) : "a" \in DOMAIN stack[j] <=> kinds[j] = "number"
      BY ONLY <2>2, <3>1, <3>2 DEF ItemIs
    <3>4. DOMAIN stack = 1 .. Len(stack)
      BY <2>2
    <3>. QED  BY ONLY <2>2, <3>3, <3>4 DEF Numbers
  <2>4. regs = Owners(cs)
    BY ONLY <2>2, <2>3 DEF RegsIs, RegsOf
  <2>5. cs.used = regs \cup (IF cs.linkreg = NoReg THEN {} ELSE {cs.linkreg}) /\ cs.linkreg \notin regs
    <3>1. NoReg \notin cs.used
      <4>1. cs.used \subseteq Slot
        BY <2>2 DEF CsType
      <4>2. NoReg \notin Slot
        BY DEF NoReg, Slot
      <4>. QED  BY <4>1, <4>2
    <3>. QED  BY ONLY <2>2, <2>4, <3>1 DEF Owners, LinkOwned
  <2>6. IsFiniteSet(operands) /\ Cardinality(regs) = Cardinality(operands)
    <3>. DEFINE f == [j \in operands |-> stack[j].a.reg]
    <3>1. IsFiniteSet(operands)
      <4>1. operands \subseteq 1 .. Len(stack)
        BY <2>2
      <4>2. IsFiniteSet(1 .. Len(stack))
        BY <2>2, FS_Interval
      <4>. HIDE DEF operands
      <4>. QED  BY ONLY <4>1, <4>2, FS_Subset
    <3>2. \A i, j \in operands : stack[i].a.reg = stack[j].a.reg => i = j
      BY <2>2, <2>3 DEF RegsIs
    <3>. HIDE DEF operands
    <3>3. f \in Bijection(operands, regs)
      BY ONLY <3>2 DEF Bijection, Injection, Surjection, IsInjective
    <3>4. ExistsBijection(operands, regs)
      BY <3>3 DEF ExistsBijection
    <3>. HIDE DEF f, regs
    <3>. QED  BY ONLY <3>1, <3>4, FS_Bijection
  <2>. HIDE DEF regs, operands
  <2>7. /\ cs.used = regs \cup (IF cs.linkreg = NoReg THEN {} ELSE {cs.linkreg})
        /\ cs.linkreg \notin regs
        /\ Cardinality(regs) = Cardinality(operands)
    BY <2>5, <2>6
  <2>. QED  BY <2>7 DEF RegistersHaveOneOwner, regs, operands
<1>. QED  BY <1>1, OperandsMeanTheirParts, PTL

-----------------------------------------------------------------------------
(***************************************************************************)
(* The end of the parse, and the program.                                  *)
(***************************************************************************)

Outermost(e, gs, b, g, d, ref) ==
  /\ Opened(gs.blocks, b, g) /\ g.N <= Len(gs.blocks)
  /\ \A p \in Meanings :
       /\ ref[p] # "reject" => d[p] = ref[p]
       /\ d[p] \in Verdict3
       /\ Decides(gs.blocks, gs.linkreg, Pre(e, Packets[p]), Packets[p], b, g.K, g.T, g.F, "yes", d[p])

(* In the end the stack has one block, or nothing.                         *)
LEMMA ParsedWhole ==
  ASSUME ParseInv, phase = "parse", todo = << >>
  PROVE  /\ cs \in CsType /\ LinkOwned(cs) /\ (cs.prefixed <=> expr \in Prefixed)
         /\ stack # << >> => /\ Len(stack) = 1
                             /\ \E g, d : Outermost(expr, cs, Top.b, g, d, Top.ref)
<1>1. expr \in Exprs /\ ParsedTo(expr, cs, stack, Kinds(expr)[Done]) /\ Done = Len(expr)
  <2>1. Len(todo) = 0
    OBVIOUS
  <2>2. expr \in Exprs /\ Len(expr) \in Nat
    BY ExprAt DEF ParseInv
  <2>. QED  BY <2>1, <2>2 DEF ParseInv, Done
<1>. DEFINE kinds == Kinds(expr)[Len(expr)]
<1>2. kinds \in {<< >>, << "block" >>}
  BY <1>1, ExprAt
<1>3. PICK cut : Parsed(expr, cs, stack, kinds, cut)
  BY <1>1 DEF ParsedTo
<1>. HIDE DEF kinds
<1>4. /\ cs \in CsType /\ LinkOwned(cs) /\ (cs.prefixed <=> expr \in Prefixed)
      /\ Len(stack) = Len(kinds) /\ Len(cs.blocks) \in Nat
  BY <1>3, ParsedFacts
<1>5. ASSUME stack # << >>
      PROVE  Len(stack) = 1 /\ \E g, d : Outermost(expr, cs, Top.b, g, d, Top.ref)
  <2>1. stack \in Seq(NumItem \cup BlkItem)
    BY <1>3, ParsedFacts
  <2>2. Len(stack) # 0
    BY <1>5, <2>1
  <2>3. Len(stack) = 1 /\ kinds[1] = "block"
    BY <1>2, <1>4, <2>2
  <2>. DEFINE x == stack[1]
              ref == x.ref
  <2>4. x.ref \in Refs /\ cut[0] \in Nat /\ cut[1] \in Nat /\ cut[0] <= cut[1] /\ cut[1] <= Len(cs.blocks)
        /\ BlockFor(expr, cs.blocks, cs.linkreg, x.b, x.ref, cut[0] + 1 .. cut[1], cut[1] - cut[0])
    BY <1>3, <2>3, BlockAt
  <2>5. PICK d, g :
          /\ d \in [Meanings -> Verdict3]
          /\ PartBy(expr, cs.blocks, cs.linkreg, x.b, g, cut[0] + 1 .. cut[1], cut[1] - cut[0], d)
          /\ \A p \in Meanings : x.ref[p] # "reject" => d[p] = x.ref[p]
    BY <2>4, BlockPicked
  <2>6. Outermost(expr, cs, x.b, g, d, x.ref)
    <3>. HIDE DEF x
    <3>1. g.N \in Nat
      BY <2>5 DEF PartBy, Opened
    <3>. QED  BY <1>4, <2>4, <2>5, <3>1 DEF PartBy, Outermost
  <2>7. Top = x
    BY <2>3 DEF Top
  <2>. QED  BY <2>3, <2>6, <2>7
<1>. QED  BY <1>4, <1>5

(* What finish_parse hands over is a sound graph.                          *)
LEMMA FinishSound ==
  ASSUME ParseInv, Finish
  PROVE  Sound(o')
<1>1. phase = "parse" /\ todo = << >>
  BY DEF Finish
<1>2. CASE stack = << >>
  <2>. DEFINE all == NewBlock(cs, << >>, Ret(Snaplen))
  <2>1. o' = FlowGraph(all.cs.blocks, all.blk)
    BY <1>2 DEF Finish
  <2>2. /\ all.cs.blocks \in Seq(Block)
        /\ Finished(all.cs.blocks, {all.blk}, [c \in {all.blk} |-> 0], 0)
    BY <1>1, ParsedWhole, EmptyShape
  <2>. HIDE DEF all
  <2>. QED  BY <2>1, <2>2, GraphDrawn
<1>3. CASE stack # << >>
  <2>. DEFINE new == FinishParse(cs, Top.b).blocks
              n == Len(cs.blocks)
  <2>1. cs \in CsType
    BY <1>1, ParsedWhole
  <2>2. PICK g, d : Outermost(expr, cs, Top.b, g, d, Top.ref)
    BY <1>1, <1>3, ParsedWhole
  <2>3. Opened(cs.blocks, Top.b, g) /\ g.N <= Len(cs.blocks)
    BY <2>2 DEF Outermost
  <2>4. ClosedFrom(cs, Top.b, g, new)
    BY <2>1, <2>3, ClosedFromParts
  <2>5. o' = FlowGraph(new, new[Top.b].head)
    BY <1>3 DEF Finish
  <2>. DEFINE K == g.K \cup {n + 1, n + 2}
  <2>. HIDE DEF new
  <2>6. Finished(new, K, RankedTo(g.K, g.r, g.N, n), g.N)
    BY <2>1, <2>3, <2>4, FinishedRight
  <2>7. new \in Seq(Block) /\ new[Top.b].head \in K
    <3>1. Top.b \in 1 .. Len(cs.blocks) /\ cs.blocks[Top.b].head \in g.K
      BY <2>3 DEF Opened
    <3>2. new \in Seq(Block) /\ new[Top.b].head = cs.blocks[Top.b].head
      BY <2>4, <3>1 DEF ClosedFrom
    <3>. QED  BY <3>1, <3>2
  <2>. HIDE DEF K
  <2>. QED  BY <2>5, <2>6, <2>7, GraphDrawn
<1>. QED  BY <1>2, <1>3

(* The word for the prefix's length is handed out by alloc_reg when a      *)
(* place behind the prefix is first asked for; statements that were        *)
(* generated before may have used the same word and given it back.  The    *)
(* length is stored in front of everything (finish_parse), so such a       *)
(* statement would spoil it.                                               *)
LinkRegisterIsKept ==
  phase = "parse" /\ cs.linkreg # NoReg =>
    \A c \in 1 .. Len(cs.blocks) : cs.linkreg \notin Stores(cs.blocks[c].stmts)

(* What finish_parse hands over means what the expression means.           *)
LEMMA FinishMeans ==
  ASSUME ParseInv, LinkRegisterIsKept, Finish, NEW p \in Meanings
  PROVE  Agrees(Meaning(o', Packets[p]), Meant'[p])
<1>. DEFINE q == Packets[p]
<1>1. phase = "parse" /\ todo = << >> /\ stack' = stack /\ expr' = expr
  BY DEF Finish
<1>2. PacketType(q)
  BY ParserAssumption DEF Meanings
<1>3. /\ cs \in CsType /\ LinkOwned(cs) /\ (cs.prefixed <=> expr \in Prefixed)
      /\ stack # << >> => \E g, d : Outermost(expr, cs, Top.b, g, d, Top.ref)
  BY <1>1, ParsedWhole
<1>4. CASE stack = << >>
  <2>. DEFINE all == NewBlock(cs, << >>, Ret(Snaplen))
              blocks == all.cs.blocks
              r == all.blk
              ids == Reach(blocks, r)
              f == FlowGraph(blocks, r)
  <2>1. o' = f
    BY <1>4 DEF Finish
  <2>2. /\ blocks \in Seq(Block)
        /\ blocks[r].stmts = << >> /\ blocks[r].br.k = Snaplen /\ EndBlock(blocks[r])
        /\ Finished(blocks, {r}, [c \in {r} |-> 0], 0)
    BY <1>3, EmptyShape
  <2>. HIDE DEF blocks, r
  <2>3. Numbering(blocks, {r}, r, ids) /\ Drawn(blocks, ids, f) /\ Sound(f)
    BY <2>2, GraphDrawn
  <2>. HIDE DEF ids, f
  <2>. DEFINE B == Blocks(f)
  <2>4. f.root \in B
    BY <2>3 DEF Sound
  <2>5. ASSUME NEW i \in B
        PROVE  EndsRun(f, i) /\ f.stmts[i] = << >> /\ f.br[i].k = Snaplen
    <3>1. EdgesOf(blocks, {r}, ids, f, i)
      BY <2>3, DrawnEdges
    <3>2. ids[i + 1] = r /\ blocks[r].jt = Nil
      BY <2>2, <3>1 DEF EdgesOf, EndBlock
    <3>3. f.stmts[i] = blocks[r].stmts /\ f.br[i] = blocks[r].br
      BY <2>3, <3>2 DEF Drawn
    <3>4. EndsRun(f, i)
      BY <3>1, <3>2 DEF EdgesOf, EndsRun
    <3>. QED  BY <2>2, <3>3, <3>4
  <2>6. Guides(f, q, B, NoReg, 0, Snaplen)
    BY <2>4, <2>5 DEF Guides
  <2>7. Meaning(f, q) = Verdict(Snaplen)
    <3>. HIDE DEF B, q
    <3>. QED  BY <2>3, <2>6, GuidedMeans
  <2>8. Meant'[p] = "yes"
    BY <1>1, <1>4 DEF Meant
  <2>. HIDE DEF q
  <2>. QED  BY <2>1, <2>7, <2>8 DEF Agrees, q
<1>5. CASE stack # << >>
  <2>. DEFINE b == Top.b
              ref == Top.ref
              new == FinishParse(cs, b).blocks
              h == cs.blocks[b].head
              ids == Reach(new, h)
              f == FlowGraph(new, h)
              n == Len(cs.blocks)
              v == Pre(expr, q)
  <2>1. PICK g, d : Outermost(expr, cs, b, g, d, ref)
    BY <1>3, <1>5
  <2>2. Opened(cs.blocks, b, g) /\ g.N <= Len(cs.blocks)
    BY <2>1 DEF Outermost
  <2>3. ClosedFrom(cs, b, g, new)
    BY <1>3, <2>2, ClosedFromParts
  <2>4. cs' = FinishParse(cs, b) /\ o' = FlowGraph(new, new[b].head)
    BY <1>5 DEF Finish
  <2>5. cs'.linkreg = cs.linkreg
    BY <1>3, <2>4, FinishShape
  <2>. HIDE DEF new
  <2>. DEFINE K == g.K \cup {n + 1, n + 2}
  <2>6. Finished(new, K, RankedTo(g.K, g.r, g.N, n), g.N)
    BY <1>3, <2>2, <2>3, FinishedRight
  <2>7. new \in Seq(Block) /\ h \in K /\ new[b].head = h
    BY <2>2, <2>3 DEF ClosedFrom, Opened
  <2>8. DrawnFrom(cs, b, g, new, ids, f)
    <3>1. Numbering(new, K, h, ids) /\ Drawn(new, ids, f) /\ Sound(f)
      <4>. HIDE DEF K, h
      <4>. QED  BY <2>6, <2>7, GraphDrawn
    <3>. HIDE DEF f, ids
    <3>. QED  BY <2>2, <2>3, <2>6, <3>1 DEF DrawnFrom
  <2>9. o' = f
    BY <2>4, <2>7
  <2>10. Meant'[p] = IF cs.linkreg # NoReg /\ ~HasPrefix(q) THEN "reject" ELSE ref[p]
    BY <1>1, <1>5, <2>5 DEF Meant, Top
  <2>. HIDE DEF f, ids, ref, b
  <2>11. SUFFICES ASSUME Meant'[p] # "reject"
                  PROVE  Meaning(f, q) = Verdict(IF ref[p] = "yes" THEN Snaplen ELSE 0)
    BY <2>9, <2>10 DEF Agrees
  <2>. DEFINE u == d[p]
  <2>12. u = ref[p] /\ u \in {"yes", "no"} /\ (cs.linkreg # NoReg => HasPrefix(q))
         /\ Decides(cs.blocks, cs.linkreg, v, q, b, g.K, g.T, g.F, "yes", u)
    <3>. HIDE DEF q, v
    <3>1. cs.linkreg # NoReg => HasPrefix(q)
      BY <2>10, <2>11
    <3>2. ref[p] # "reject"
      BY <2>10, <2>11
    <3>. QED  BY <2>1, <3>1, <3>2 DEF Outermost, Verdict3, q, v
  <2>13. cs.linkreg # NoReg => v = q.at[2] + ByteBase * q.at[3]
    BY <1>3, <2>12 DEF LinkOwned, Pre
  <2>. HIDE DEF q, v, u, h
  <2>14. PICK L \in SUBSET g.K :
           /\ cs.blocks[b].head \in L
           /\ \A c \in L : \E out \in BOOLEAN :
                Says(cs.blocks[c], cs.linkreg, v, q, out) /\ LeadsOn(cs.blocks, << c, out >>, L, g.T, g.F, "yes", u)
    BY <2>12 DEF Decides
  <2>15. \A c \in L : cs.linkreg \notin Stores(cs.blocks[c].stmts)
    <3>. SUFFICES ASSUME NEW c \in L PROVE cs.linkreg \notin Stores(cs.blocks[c].stmts)
      OBVIOUS
    <3>1. c \in 1 .. Len(cs.blocks) /\ cs.blocks[c].stmts \in Seq(Stmt)
      BY <2>2 DEF Opened
    <3>. QED  BY <1>1, <3>1, StoresSlots DEF LinkRegisterIsKept
  <2>16. Path(cs, b, g, v, q, u, L)
    BY <1>2, <2>12, <2>13, <2>14, <2>15 DEF Path
  <2>. QED  BY <1>3, <2>8, <2>12, <2>16, PathGuides
<1>. QED  BY <1>4, <1>5

(* The parse up to its end, and the conversion behind it.                  *)
GraphInv ==
  /\ ParseInv
  /\ phase = "optimize" => Sound(o)
  /\ phase \notin {"parse", "error", "optimize"} => LayoutInv

LEMMA GraphInit == ParserInit => GraphInv
  BY ParseInit DEF GraphInv, ParserInit

LEMMA ConvertPhase ==
  ASSUME LayoutNext
  PROVE  /\ phase \in {"graph", "convert"} /\ phase' \in {"convert", "done", "invalid"} /\ o' = o
  BY DEF LayoutNext, BeginConvert, Enter, Restart, ConvertBlock, Check

LEMMA GraphStep == GraphInv /\ [ParserNext]_parserVars => GraphInv'
<1>. SUFFICES ASSUME GraphInv, [ParserNext]_parserVars PROVE GraphInv'
  OBVIOUS
<1>1. ParseInv'
  BY ParseStep DEF GraphInv
<1>2. CASE Reduce
  <2>1. phase' \in {"parse", "error"}
    BY <1>2 DEF Reduce
  <2>. QED  BY <1>1, <2>1 DEF GraphInv
<1>3. CASE Finish
  <2>1. Sound(o')
    BY <1>3, FinishSound DEF GraphInv
  <2>2. phase' \in {"optimize", "graph"}
    BY <1>3 DEF Finish
  <2>. QED  BY <1>1, <2>1, <2>2 DEF GraphInv, LayoutInv
<1>4. CASE Convert
  <2>1. LayoutNext
    BY <1>4 DEF Convert
  <2>2. phase \in {"graph", "convert"} /\ phase' \in {"convert", "done", "invalid"}
    BY <2>1, ConvertPhase
  <2>3. LayoutInv'
    BY <2>1, <2>2, LayoutStep DEF GraphInv
  <2>. QED  BY <1>1, <2>2, <2>3 DEF GraphInv
<1>5. CASE UNCHANGED parserVars
  <2>1. UNCHANGED layoutVars /\ phase' = phase
    BY <1>5 DEF parserVars, layoutVars
  <2>2. phase \notin {"parse", "error", "optimize"} => LayoutInv'
    BY <2>1, LayoutStep DEF GraphInv
  <2>3. o' = o
    BY <1>5 DEF parserVars
  <2>. QED  BY <1>1, <2>1, <2>2, <2>3 DEF GraphInv
<1>. QED  BY <1>2, <1>3, <1>4, <1>5 DEF ParserNext

(* The first part of ProgramIsWhole, and more: whatever the expression,    *)
(* the flow graph that finish_parse leaves has no cycle, every block of it *)
(* ends in a test with two successors or in a "ret" with none, and it      *)
(* stays so while icode_to_fcode converts it.                              *)
THEOREM GraphsAreSound == ParserSpec => [](HasGraph => Sound(o))
<1>1. GraphInv => (HasGraph => Sound(o))
  BY DEF GraphInv, HasGraph, LayoutInv
<1>. QED  BY <1>1, GraphInit, GraphStep, PTL DEF ParserSpec

(* InstructionsMeanGraph without the assumption that the graph is sound:   *)
(* the program compiled from an expression without the optimizer does what *)
(* the expression's flow graph does.                                       *)
THEOREM ProgramMeansGraph == ParserSpec => []InstructionsMeanGraph
<1>1. GraphInv => InstructionsMeanGraph
  <2>. SUFFICES ASSUME GraphInv, phase = "done", NEW p \in Meanings
               PROVE  SameOutcome(Outcome(conv.code, conv.n, Packets[p]), Meaning(o, Packets[p]))
    BY DEF InstructionsMeanGraph
  <2>1. LayoutInv
    BY DEF GraphInv
  <2>2. /\ Sound(o) /\ conv.n \in 0 .. MaxInsns
        /\ LaidOut(o, conv.at, conv.code, conv.n, conv.dirt)
    BY <2>1, DoneIsLaidOut
  <2>. QED  BY <2>2, LaidOutMeans
<1>. QED  BY <1>1, GraphInit, GraphStep, PTL DEF ParserSpec

LEMMA MeansInit == ParserInit => GraphMeansExpression
  BY DEF ParserInit, GraphMeansExpression, HasGraph

LEMMA MeansStep ==
  ASSUME GraphInv, GraphMeansExpression, [ParserNext]_parserVars, Finish => LinkRegisterIsKept
  PROVE  GraphMeansExpression'
<1>1. CASE Reduce
  <2>1. phase' \in {"parse", "error"}
    BY <1>1 DEF Reduce
  <2>. QED  BY <2>1 DEF GraphMeansExpression, HasGraph
<1>2. CASE Finish
  <2>1. \A p \in Meanings : Agrees(Meaning(o', Packets[p]), Meant'[p])
    BY <1>2, FinishMeans DEF GraphInv
  <2>. QED  BY <2>1 DEF GraphMeansExpression
<1>3. CASE Convert
  <2>1. LayoutNext /\ UNCHANGED << expr, todo, stack, cs, optimize >>
    BY <1>3 DEF Convert
  <2>2. HasGraph /\ o' = o
    BY <2>1, ConvertPhase DEF HasGraph
  <2>3. Meant' = Meant
    BY <2>1 DEF Meant, Top
  <2>. QED  BY <2>2, <2>3 DEF GraphMeansExpression
<1>4. CASE UNCHANGED parserVars
  <2>1. o' = o /\ phase' = phase /\ stack' = stack /\ cs' = cs
    BY <1>4 DEF parserVars
  <2>2. Meant' = Meant
    BY <2>1 DEF Meant, Top
  <2>. QED  BY <2>1, <2>2 DEF GraphMeansExpression, HasGraph
<1>. QED  BY <1>1, <1>2, <1>3, <1>4 DEF ParserNext

(* GraphMeansExpression for every expression of the grammar, every packet, *)
(* every size of a word and number of scratch words: the flow graph that   *)
(* the reductions and finish_parse put together (gen_and, gen_relation,    *)
(* gen_load, gen_ncmp, backpatch, merge and the rest in internal/bpf.go)   *)
(* says of the packet what the expression says, as long as no statement    *)
(* stores to the word that holds the length of a prefix.                   *)
THEOREM ParserKeepsMeaning == ParserSpec /\ []LinkRegisterIsKept => []GraphMeansExpression
<1>1. GraphInv /\ GraphMeansExpression /\ LinkRegisterIsKept /\ [ParserNext]_parserVars
        => GraphMeansExpression'
  BY MeansStep
<1>. QED  BY <1>1, GraphInit, GraphStep, MeansInit, PTL DEF ParserSpec

(* The same without a condition for the link types that have no prefix of  *)
(* variable length: there gen_abs_offset_varpart hands out no word.        *)
THEOREM ParserKeepsMeaningWithoutPrefix == ParserSpec => [](expr \notin Prefixed => GraphMeansExpression)
<1>. DEFINE Inv == expr \notin Prefixed => GraphMeansExpression
<1>1. GraphInv /\ Inv /\ [ParserNext]_parserVars => Inv'
  <2>. SUFFICES ASSUME GraphInv, Inv, [ParserNext]_parserVars, expr' \notin Prefixed
               PROVE  GraphMeansExpression'
    OBVIOUS
  <2>1. expr' = expr
    BY DEF ParserNext, Reduce, Finish, Convert, parserVars
  <2>2. Finish => LinkRegisterIsKept
    <3>. SUFFICES ASSUME Finish PROVE cs.linkreg = NoReg
      BY DEF LinkRegisterIsKept
    <3>1. phase = "parse" /\ todo = << >>
      BY DEF Finish
    <3>2. LinkOwned(cs) /\ (cs.prefixed <=> expr \in Prefixed)
      BY <3>1, ParsedWhole DEF GraphInv
    <3>. QED  BY <2>1, <3>2 DEF LinkOwned
  <2>3. GraphMeansExpression
    BY <2>1
  <2>. QED  BY <2>2, <2>3, MeansStep
<1>2. ParserInit => Inv
  BY MeansInit
<1>. HIDE DEF Inv
<1>3. ParserSpec => []Inv
  BY <1>1, <1>2, GraphInit, GraphStep, PTL DEF ParserSpec
<1>. QED  BY <1>3, PTL DEF Inv

(* From the expression to the instructions: the program returns Snaplen    *)
(* for a packet the expression accepts and 0 for one it does not.          *)
ProgramMeansExpression ==
  phase = "done" =>
    \A p \in Meanings :
      LET t == Outcome(conv.code, conv.n, Packets[p])
      IN  Meant[p] # "reject" => t.halted /\ t.ret = (IF Meant[p] = "yes" THEN Snaplen ELSE 0)

(* The program that a compilation without the optimizer returns (parser,   *)
(* code generator, finish_parse, icode_to_fcode, validation) does with     *)
(* every packet that decides the expression what the expression says.      *)
THEOREM ProgramKeepsMeaning == ParserSpec /\ []LinkRegisterIsKept => []ProgramMeansExpression
<1>1. GraphMeansExpression /\ InstructionsMeanGraph => ProgramMeansExpression
  <2>. SUFFICES ASSUME GraphMeansExpression, InstructionsMeanGraph, phase = "done",
                       NEW p \in Meanings, Meant[p] # "reject"
               PROVE  LET t == Outcome(conv.code, conv.n, Packets[p])
                      IN  t.halted /\ t.ret = (IF Meant[p] = "yes" THEN Snaplen ELSE 0)
    BY DEF ProgramMeansExpression
  <2>. DEFINE t == Outcome(conv.code, conv.n, Packets[p])
              g == Meaning(o, Packets[p])
              k == IF Meant[p] = "yes" THEN Snaplen ELSE 0
  <2>1. Agrees(g, Meant[p])
    BY DEF GraphMeansExpression, HasGraph
  <2>2. g = Verdict(k)
    <3>. HIDE DEF g
    <3>. QED  BY <2>1 DEF Agrees
  <2>3. SameOutcome(t, g)
    BY DEF InstructionsMeanGraph
  <2>. HIDE DEF t, g, k
  <2>4. t.halted /\ t.ret = k
    BY <2>2, <2>3 DEF SameOutcome, Verdict
  <2>. QED  BY <2>4 DEF t, k
<1>. QED  BY <1>1, ParserKeepsMeaning, ProgramMeansGraph, PTL
=============================================================================
