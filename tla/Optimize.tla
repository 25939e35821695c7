------------------------------ MODULE Optimize ------------------------------
(***************************************************************************)
(* The optimizer (optimize.c: _bpf_optimize and what it calls), pass by    *)
(* pass: the data flow analyses of opt_loop, value numbering and constant  *)
(* folding in the blocks, jump threading along dominating edges, pulling   *)
(* up alternatives, and interning equal blocks.  A pass maps an optimizer  *)
(* state o to the next: o is a graph (Icode) with the results of the       *)
(* analyses, which stay as they were computed while the graph changes.     *)
(*                                                                         *)
(* A value number stands for the term that was hashed for it, so the terms *)
(* themselves are the numbers; Unknown is VAL_UNKNOWN.                     *)
(***************************************************************************)
EXTENDS Icode, FiniteSets

Unknown == << >>
F(i, k, u, v) == << i.class, i.fn, i.src, i.size, k, u, v >>
Const(k) == F(LdImm(0), k, Unknown, Unknown)
IsConst(v) == v # Unknown /\ v[1] = "ld" /\ v[2] = "imm"
ConstVal(v) == v[5]

(* Atoms: the scratch words, a and x. *)
A == MemSlots
X == MemSlots + 1
Atom == 0 .. X

AtomUse(i) ==
  IF IsNop(i) THEN {}
  ELSE IF i.class = "ret" THEN IF i.src = "a" THEN {A} ELSE {}
  ELSE IF i.class \in {"ld", "ldx"}
       THEN IF i.fn = "ind" THEN {X} ELSE IF i.fn = "mem" THEN {i.k} ELSE {}
  ELSE IF i.class = "st" THEN {A}
  ELSE IF i.class = "stx" \/ (i.class = "misc" /\ i.fn = "txa") THEN {X}
  ELSE IF i.src = "x" THEN {A, X} ELSE {A}

AtomDef(i) ==
  IF i.class \in {"ld", "alu"} \/ (i.class = "misc" /\ i.fn = "txa") THEN {A}
  ELSE IF i.class = "ldx" \/ (i.class = "misc" /\ i.fn = "tax") THEN {X}
  ELSE IF i.class \in {"st", "stx"} THEN {i.k} ELSE {}

-----------------------------------------------------------------------------
(* find_levels: a block is above its successors; levels[1] is the list of  *)
(* the "ret" blocks.  A list has the block that was met last in front.     *)
RECURSIVE LevelsR(_, _, _)
LevelsR(o, b, t) ==
  IF b \in DOMAIN t.level THEN t
  ELSE LET below == IF EndsRun(o, b) THEN t ELSE LevelsR(o, JF(o, b), LevelsR(o, JT(o, b), t))
           level == IF EndsRun(o, b) THEN 1
                    ELSE 1 + Max({below.level[JT(o, b)], below.level[JF(o, b)]})
       IN  [level |-> (b :> level) @@ below.level,
            lists |-> IF level > Len(below.lists) THEN Append(below.lists, << b >>)
                      ELSE ReplaceAt(below.lists, level, << b >> \o below.lists[level])]

FindLevels(o) ==
  [o EXCEPT !.levels = LevelsR(o, o.root, [level |-> << >>, lists |-> << >>]).lists]

(* The blocks from the root's level down, and the ones above the leaves    *)
(* from the bottom up.                                                     *)
Downward(o) == FlattenSeq(Reverse(o.levels))
Upward(o)   == FlattenSeq(Tail(o.levels))

(* find_dom: the blocks on every path from the root to a block. *)
FindDom(o) ==
  LET narrow(d, s, by) == IF s = None THEN d ELSE [d EXCEPT ![s] = @ \cap by]
      visit(d, b) == LET own == [d EXCEPT ![b] = @ \cup {b}]
                     IN  narrow(narrow(own, JT(o, b), own[b]), JF(o, b), own[b])
      first == [b \in Blocks(o) |-> IF b = o.root THEN {} ELSE Blocks(o)]
  IN  [o EXCEPT !.dom = FoldLeft(visit, first, Downward(o))]

(* find_edom: the same for edges. *)
FindEdom(o) ==
  LET prop(d, e) ==
        LET own == [d EXCEPT ![e] = @ \cup {e}]
            s == o.succ[e]
        IN  IF s = None THEN own
            ELSE [own EXCEPT ![s] = @ \cap own[e], ![s + o.n] = @ \cap own[e]]
      visit(d, b) == prop(prop(d, b), b + o.n)
      first == [e \in Edges(o) |-> IF Pred(o, e) = o.root THEN {} ELSE Edges(o)]
  IN  [o EXCEPT !.edom = FoldLeft(visit, first, Downward(o))]

(* find_ud: the atoms used before they are set, those set, and what is     *)
(* used behind a block.                                                    *)
LocalUse(o, b) ==
  LET step(t, i) == [use |-> t.use \cup (AtomUse(i) \ t.def), def |-> t.def \cup AtomDef(i)]
      t == FoldLeft(step, [use |-> {}, def |-> {}], Kept(o.stmts[b]))
  IN  [use |-> t.use \cup (AtomUse(o.br[b]) \ t.def), def |-> t.def]

FindUd(o) ==
  LET local == [b \in Blocks(o) |-> LocalUse(o, b)]
      visit(t, b) ==
        LET out == t.in[JT(o, b)] \cup t.in[JF(o, b)]
        IN  [out |-> [t.out EXCEPT ![b] = out],
             in  |-> [t.in EXCEPT ![b] = @ \cup (out \ local[b].def)]]
      t == FoldLeft(visit, [out |-> [b \in Blocks(o) |-> {}],
                            in |-> [b \in Blocks(o) |-> local[b].use]], Upward(o))
  IN  [o EXCEPT !.outuse = t.out]

(* find_inedges: the edge found last is in front. *)
FindInedges(o) ==
  LET link(d, e) == [d EXCEPT ![o.succ[e]] = << e >> \o @]
      visit(d, b) == link(link(d, b), b + o.n)
  IN  [o EXCEPT !.inedges = FoldLeft(visit, [b \in Blocks(o) |-> << >>], Upward(o))]

Analyse(o) == FindEdom(FindUd(FindDom(FindLevels(o))))

-----------------------------------------------------------------------------
(***************************************************************************)
(* opt_stmt, with alter: values are recorded in t.val, the statement is    *)
(* appended to t.out as it is or as what it was simplified to.             *)
(***************************************************************************)
Emit(t, i) == [t EXCEPT !.out = Append(@, i)]
Sets(t, i, atom, v) == Emit([t EXCEPT !.val[atom] = v], i)
Touched(t) == [t EXCEPT !.done = FALSE, !.moved = TRUE]

(* vstore: storing a value that is there already is nothing. *)
VStore(t, i, atom, v, alter) ==
  IF alter /\ v # Unknown /\ t.val[atom] = v THEN Emit(t, Erased(i)) ELSE Sets(t, i, atom, v)

(* Mutant: a shift by the width of a word or more is one by the rest. *)
FoldOpRest(fn, a, v) ==
  IF fn \in {"lsh", "rsh"} THEN Shifted(fn, a, v % WordBits) ELSE Computed(fn, a, v)

FoldOp(fn, a, v) == Computed(fn, a, v)

Fold(t, i, v) ==
  LET a == ConstVal(t.val[A])
      folded == LdImm(FoldOp(i.fn, a, v))
  IN  IF i.fn \in {"div", "mod"} /\ v = 0 THEN [t EXCEPT !.failed = TRUE]
      ELSE Sets(Touched(t), folded, A, Const(folded.k))

OptAluK(t, i, alter) ==
  IF alter /\ i.k = 0 /\ i.fn \in {"add", "lsh", "rsh", "or", "xor"} THEN Emit(t, Erased(i))
  ELSE IF alter /\ i.k = 0 /\ i.fn \in {"mul", "and"} THEN Sets(t, LdImm(0), A, Const(0))
  ELSE IF alter /\ i.k = 0 /\ i.fn \in {"div", "mod"} THEN [t EXCEPT !.failed = TRUE]
  ELSE IF alter /\ IsConst(t.val[A]) THEN Fold(t, i, i.k)
  ELSE Sets(t, i, A, F(i, 0, t.val[A], Const(i.k)))

OptAluX(t, i, alter) ==
  LET x == t.val[X]
      k == Alu(i.fn, "k", ConstVal(x))
  IN  IF alter /\ IsConst(x) /\ IsConst(t.val[A]) THEN Fold(t, i, ConstVal(x))
      ELSE IF alter /\ IsConst(x)
           THEN IF i.fn \in {"lsh", "rsh"} /\ k.k >= WordBits THEN [t EXCEPT !.failed = TRUE]
                ELSE Sets(Touched(t), k, A, F(k, 0, t.val[A], Const(k.k)))
      ELSE IF alter /\ t.val[A] = Const(0)
           THEN IF i.fn \in {"add", "or", "xor"} THEN VStore(t, Txa, A, x, alter)
                ELSE IF i.fn # "sub" THEN VStore(t, LdImm(0), A, Const(0), alter)
                ELSE Sets(t, i, A, F(i, 0, t.val[A], x))
      ELSE Sets(t, i, A, F(i, 0, t.val[A], x))

Register(i) == IF i.class = "ld" THEN A ELSE X

OptImm(t, i, alter) == VStore(t, i, Register(i), Const(i.k), alter)

(* A word of scratch memory that is known is an immediate. *)
OptMem(t, i, alter) ==
  LET v == t.val[i.k]
  IN  IF alter /\ IsConst(v)
      THEN VStore(Touched(t), Op(i.class, "imm", "k", 4, ConstVal(v)), Register(i), v, alter)
      ELSE VStore(t, i, Register(i), v, alter)

(* A load at an index that is known is one at a place. *)
OptInd(t, i, alter) ==
  LET abs == LdAbs(i.size, (i.k + ConstVal(t.val[X])) % W)
  IN  IF alter /\ IsConst(t.val[X])
      THEN VStore(Touched(t), abs, A, F(abs, abs.k, Unknown, Unknown), alter)
      ELSE VStore(t, i, A, F(i, i.k, t.val[X], Unknown), alter)

(* At a place of the packet: abs, len, msh. *)
OptPlace(t, i, alter) == VStore(t, i, Register(i), F(i, i.k, Unknown, Unknown), alter)

OptNeg(t, i, alter) ==
  LET k == (0 - ConstVal(t.val[A])) % W
  IN  IF alter /\ IsConst(t.val[A]) THEN Sets(t, LdImm(k), A, Const(k))
      ELSE Sets(t, i, A, F(i, 0, t.val[A], Unknown))

OptTransfer(t, i, alter) ==
  IF i.fn = "txa" THEN VStore(t, i, A, t.val[X], alter) ELSE VStore(t, i, X, t.val[A], alter)

OptStore(t, i, alter) == VStore(t, i, i.k, t.val[IF i.class = "st" THEN A ELSE X], alter)

OptStmt(t, i, alter) ==
  IF t.failed \/ IsNop(i) THEN Emit(t, i)
  ELSE CASE i.fn = "imm"                   -> OptImm(t, i, alter)
         [] i.fn = "mem"                   -> OptMem(t, i, alter)
         [] i.fn = "ind"                   -> OptInd(t, i, alter)
         [] i.fn \in {"abs", "len", "msh"} -> OptPlace(t, i, alter)
         [] i.fn = "neg"                   -> OptNeg(t, i, alter)
         [] i.class = "misc"               -> OptTransfer(t, i, alter)
         [] i.class \in {"st", "stx"}      -> OptStore(t, i, alter)
         [] OTHER -> IF i.src = "k" THEN OptAluK(t, i, alter) ELSE OptAluX(t, i, alter)

-----------------------------------------------------------------------------
(***************************************************************************)
(* opt_peep: pairs and fours of neighbouring statements.  s[j] is the      *)
(* first that is left at or behind a place, Len(s) + 1 if there is none.   *)
(***************************************************************************)
NextKept(s, j) == Min({k \in j .. Len(s) : ~IsNop(s[k])} \cup {Len(s) + 1})

(* "ld imm; (ldx msh;) add x; tax; ld ind": the immediate is added to the  *)
(* offset.  The places of the four, or none.                               *)
IndexPlaces(s, j, next) ==
  LET add == IF s[next].class = "ldx" /\ s[next].fn = "msh" THEN NextKept(s, next + 1) ELSE next
      tax == NextKept(s, add + 1)
      ind == NextKept(s, tax + 1)
  IN  IF /\ ind <= Len(s)
         /\ SameCode(s[add], Alu("add", "x", 0))
         /\ SameCode(s[tax], Tax)
         /\ s[ind].class = "ld" /\ s[ind].fn = "ind"
      THEN {<< add, tax, ind >>} ELSE {}

(* One pair: t has the statements, the flags and what may be read of x.    *)
PeepIndexed(t, j, at) ==
  Touched([t EXCEPT !.out[j] = Erased(@), !.out[at[1]] = Erased(@), !.out[at[2]] = Erased(@),
                    !.out[at[3]].k = (@ + t.out[j].k) % W])
PeepIndex(t, j, places) == IF places = {} THEN t ELSE PeepIndexed(t, j, CHOOSE q \in places : TRUE)
PeepPair(t, j, next, xused) ==
  IF t.out[j].class = "st" /\ SameCode(t.out[next], LdxMem(0)) /\ t.out[j].k = t.out[next].k
  THEN Touched([t EXCEPT !.out[next] = Tax])
  ELSE IF ~SameCode(t.out[j], LdImm(0)) THEN t
  ELSE IF SameCode(t.out[next], Tax)
  THEN Touched([t EXCEPT !.out[j] = LdxImm(t.out[j].k), !.out[next] = Txa])
  ELSE IF xused THEN t ELSE PeepIndex(t, j, IndexPlaces(t.out, j, next))

RECURSIVE Peep(_, _, _, _)
Peep(t, j, last, xused) ==
  LET first == NextKept(t.out, j)
      next  == NextKept(t.out, first + 1)
  IN  IF next > Len(t.out) THEN [t |-> t, last |-> last]
      ELSE Peep(PeepPair(t, first, next, xused), next, next, xused)

(* The branch behind the statements.  Where the condition is turned round  *)
(* the two edges change places.                                            *)
Br(o, b) == o.br[b]
Swap(o, b) == [o EXCEPT !.succ[b] = o.succ[b + o.n], !.succ[b + o.n] = o.succ[b]]
DropLast(o, b, last) == Touched([o EXCEPT !.stmts[b][last] = Erased(@)])

(* "jset 0" never holds, "jset" of all ones holds unless a is 0. *)
PeepJset(o, b) ==
  IF ~SameCode(Br(o, b), Jmp("jset", "k", 0)) THEN o
  ELSE IF Br(o, b).k = 0 THEN [o EXCEPT !.succ[b] = o.succ[b + o.n]]
  ELSE IF Br(o, b).k = W - 1 THEN Touched(Swap([o EXCEPT !.br[b] = Jmp("jeq", "k", 0)], b))
  ELSE o

(* A comparison for equality takes up the statement before it, if a is not *)
(* read behind the block.                                                  *)
PeepJeq(o, b, last) ==
  LET s == o.stmts[b][last]
      br == Br(o, b)
      x == o.val[b][X]
      plus(k) == DropLast([o EXCEPT !.br[b].k = (@ + k) % W], b, last)
  IN  IF ~SameCode(br, Jmp("jeq", "k", 0)) \/ A \in o.outuse[b] THEN PeepJset(o, b)
      ELSE IF SameCode(s, Alu("sub", "x", 0)) /\ IsConst(x) THEN plus(ConstVal(x))
      ELSE IF SameCode(s, Alu("sub", "x", 0)) /\ br.k = 0
           THEN DropLast([o EXCEPT !.br[b] = Jmp("jeq", "x", 0)], b, last)
      ELSE IF SameCode(s, Alu("sub", "k", 0)) THEN plus(s.k)
      ELSE IF SameCode(s, Alu("and", "k", 0)) /\ br.k = 0
           THEN PeepJset(Swap(DropLast([o EXCEPT !.br[b] = Jmp("jset", "k", s.k)], b, last), b), b)
      ELSE o

(* A comparison with an x that is known is one with a constant; one whose  *)
(* both sides are known is decided.                                        *)
PeepKnown(o, b) ==
  LET x == o.val[b][X]
      a == o.val[b][A]
      k == IF Br(o, b).src = "x" /\ IsConst(x)
           THEN [o EXCEPT !.br[b] = Jmp(Br(o, b).fn, "k", ConstVal(x))] ELSE o
      taken == IF Holds(Br(k, b).fn, ConstVal(a), Br(k, b).k) THEN JT(o, b) ELSE JF(o, b)
  IN  IF Br(k, b).src # "k" \/ ~IsConst(a) THEN k
      ELSE IF JT(o, b) = JF(o, b) THEN k
      ELSE Touched([k EXCEPT !.succ[b] = taken, !.succ[b + o.n] = taken])

PeepEnd(o, b, t, last) ==
  PeepKnown(PeepJeq([o EXCEPT !.stmts[b] = t.out, !.done = t.done, !.moved = t.moved], b, last), b)
PeepWith(o, b, r) == PeepEnd(o, b, r.t, r.last)
OptPeep(o, b) ==
  IF o.stmts[b] = << >> THEN o
  ELSE PeepWith(o, b, Peep([out |-> o.stmts[b], done |-> o.done, moved |-> o.moved], 1, 1,
                           X \in o.outuse[b]))

(* opt_deadstores: a store that is overwritten before it is read, and at   *)
(* the end one that nobody reads behind the block.                         *)
Uses(t, i) == [t EXCEPT !.last = [a \in Atom |-> IF a \in AtomUse(i) THEN 0 ELSE @[a]]]
DeadBefore(t, a) ==
  IF t.last[a] = 0 THEN t ELSE Touched([t EXCEPT !.out[t.last[a]] = Erased(@)])
DeadDef(t, j, defs) ==
  IF defs = {} THEN t
  ELSE LET a == CHOOSE d \in defs : TRUE IN [DeadBefore(t, a) EXCEPT !.last[a] = j]
DeadStep(t, j, i) == IF IsNop(i) THEN t ELSE DeadDef(Uses(t, i), j, AtomDef(i))

DeadScan(o, b) ==
  FoldLeft(LAMBDA t, j : DeadStep(t, j, o.stmts[b][j]),
           [out |-> o.stmts[b], last |-> [a \in Atom |-> 0], done |-> o.done, moved |-> o.moved],
           [j \in 1 .. Len(o.stmts[b]) |-> j])
DeadEnd(o, b, t, dead) ==
  [o EXCEPT !.stmts[b] = [j \in DOMAIN t.out |-> IF \E a \in dead : t.last[a] = j
                                                 THEN Erased(t.out[j]) ELSE t.out[j]],
            !.done = t.done /\ dead = {}, !.moved = t.moved \/ dead # {},
            !.val[b] = [a \in Atom |-> IF a \in dead THEN Unknown ELSE @[a]]]
DeadWith(o, b, t) ==
  DeadEnd(o, b, t, {a \in Atom : t.last[a] # 0 /\ a \notin o.outuse[b]})
OptDeadStores(o, b) == DeadWith(o, b, Uses(DeadScan(o, b), Br(o, b)))

-----------------------------------------------------------------------------
(* The values a block begins with: those its predecessors agree on. *)
EntryVal(o, b) ==
  LET preds == {Pred(o, o.inedges[b][j]) : j \in DOMAIN o.inedges[b]}
  IN  IF preds = {} THEN [a \in Atom |-> Unknown]
      ELSE [a \in Atom |-> LET vals == {o.val[q][a] : q \in preds}
                           IN  IF Cardinality(vals) = 1 THEN CHOOSE v \in vals : TRUE
                               ELSE Unknown]

(* Nothing of the block is used behind it. *)
Useless(o, b, before, val) ==
  /\ o.outuse[b] = {}
  /\ before[A] # Unknown /\ val[A] = before[A]
  /\ before[X] # Unknown /\ val[X] = before[X]

(* opt_blk: the statements, then the block as a whole, then what is kept   *)
(* of its branch for jump threading.                                       *)
OptStmts(o, b, val, alter) ==
  FoldLeft(LAMBDA t, i : OptStmt(t, i, alter),
           [val |-> val, out |-> << >>, done |-> o.done, moved |-> o.moved, failed |-> o.failed],
           o.stmts[b])
Rewritten(o, b, t) ==
  [o EXCEPT !.val[b] = t.val, !.stmts[b] = t.out, !.done = t.done, !.moved = t.moved,
            !.failed = t.failed]
Emptied(o, b) == IF o.stmts[b] = << >> THEN o ELSE Touched([o EXCEPT !.stmts[b] = << >>])
KeepBranch(o, b) ==
  [o EXCEPT !.oval[b] = IF Br(o, b).src = "k" THEN Const(Br(o, b).k) ELSE o.val[b][X],
            !.code[b] = Br(o, b)]
OptBlkEnd(o, b, drop) ==
  IF o.failed THEN o
  ELSE KeepBranch(IF drop THEN Emptied(o, b) ELSE OptDeadStores(OptPeep(o, b), b), b)
OptBlkWith(o, b, before, t, alter) ==
  OptBlkEnd(Rewritten(o, b, t), b, alter /\ (Useless(o, b, before, t.val) \/ EndsRun(o, b)))
OptBlkFrom(o, b, before, alter) == OptBlkWith(o, b, before, OptStmts(o, b, before, alter), alter)
OptBlk(o, b, alter) == OptBlkFrom(o, b, EntryVal(o, b), alter)

OptBlks(o, alter) ==
  FoldLeft(LAMBDA u, b : OptBlk(u, b, alter), FindInedges(o), Downward(o))

-----------------------------------------------------------------------------
(* Jump threading.  An edge may skip the block it leads to when that block *)
(* leaves nothing for the one behind it that the edge's own does not have. *)
UseConflict(o, b, s) == \E a \in o.outuse[s] : o.val[b][a] # o.val[s][a]

(* Mutant: a condition that failed decides like one that held. *)
FoldEdgeAny(o, child, e) ==
  LET p == Pred(o, e)
  IN  IF ~SameCode(o.br[child], o.code[p]) \/ o.val[child][A] # o.val[p][A] THEN None
      ELSE IF o.oval[child] = o.oval[p] THEN IF Sense(o, e) THEN JT(o, child) ELSE JF(o, child)
      ELSE IF SameCode(o.code[p], Jmp("jeq", "k", 0)) THEN JF(o, child)
      ELSE None

(* Where the condition of block child goes, once edge e was taken. *)
FoldEdge(o, child, e) ==
  LET p == Pred(o, e)
  IN  IF ~SameCode(o.br[child], o.code[p]) \/ o.val[child][A] # o.val[p][A] THEN None
      ELSE IF o.oval[child] = o.oval[p] THEN IF Sense(o, e) THEN JT(o, child) ELSE JF(o, child)
      ELSE IF Sense(o, e) /\ SameCode(o.code[p], Jmp("jeq", "k", 0)) THEN JF(o, child)
      ELSE None

RECURSIVE Thread(_, _)
Thread(o, e) ==
  LET child == o.succ[e]
      target(k) == FoldEdge(o, child, k)
      ways == {k \in o.edom[e] : /\ target(k) # None
                                 /\ ~UseConflict(o, Pred(o, e), target(k))}
      moved == [o EXCEPT !.done = FALSE, !.succ[e] = target(Min(ways))]
  IN  IF ways = {} THEN o
      ELSE IF EndsRun(o, target(Min(ways))) THEN moved ELSE Thread(moved, e)

OptJ(o, e) ==
  LET s == o.succ[e]
  IN  IF EndsRun(o, s) THEN o
      ELSE IF JT(o, s) = JF(o, s) /\ ~UseConflict(o, Pred(o, e), JT(o, s))
           THEN Thread(Touched([o EXCEPT !.succ[e] = JT(o, s)]), e)
           ELSE Thread(o, e)

OptJs(o) == FoldLeft(LAMBDA u, b : OptJ(OptJ(u, b), b + o.n), o, Upward(o))

-----------------------------------------------------------------------------
(***************************************************************************)
(* or_pullup and and_pullup: of a chain of alternatives on different       *)
(* values, the one on the value that is loaded already comes first.  The   *)
(* alternatives of an "or" share the successor on side 0 (jt) and follow   *)
(* each other along side 1 (jf); those of an "and" the other way round.    *)
(***************************************************************************)
Along(o, b, side) == o.succ[b + side * o.n]

(* The block an edge leads to can be part of b's chain. *)
InChain(o, b, common, e) ==
  LET q == o.succ[e]
  IN  q # None /\ Along(o, q, common) = Along(o, b, common) /\ b \in o.dom[q]

(* Follows the chain from edge e to the first block of the kind wanted. *)
RECURSIVE Search(_, _, _, _, _, _)
Search(o, b, common, e, v, same) ==
  LET q == o.succ[e]
  IN  IF ~InChain(o, b, common, e) THEN None
      ELSE IF (o.val[q][A] = v) = same THEN e
      ELSE Search(o, b, common, q + (1 - common) * o.n, v, same)

(* The edges of b's predecessors that lead to b.  The lists of incoming    *)
(* edges are the ones from before the first pull: a predecessor that does  *)
(* not take jt to b is taken to have jf there.                             *)
Entries(o, b) ==
  LET preds == {Pred(o, o.inedges[b][j]) : j \in DOMAIN o.inedges[b]}
  IN  {IF JT(o, q) = b THEN q ELSE q + o.n : q \in preds}
        \cup {q + o.n : q \in {r \in preds : {r, r + o.n} \subseteq ToSet(o.inedges[b])}}

PullUp(o, b, common) ==
  LET next(q) == q + (1 - common) * o.n
      first == Pred(o, Head(o.inedges[b]))
      v == o.val[first][A]
      top == IF JT(o, first) = b THEN first ELSE first + o.n
      diff == Search(o, b, common, top, v, FALSE)
      same == IF diff = None THEN None ELSE Search(o, b, common, next(o.succ[diff]), v, TRUE)
      pull == o.succ[same]
      cut == [o EXCEPT !.succ[same] = Along(o, pull, 1 - common),
                       !.succ[next(pull)] = o.succ[diff], !.done = FALSE]
      ends == IF diff = top THEN Entries(cut, b) ELSE {diff}
  IN  IF \/ o.inedges[b] = << >>
         \/ \E j \in DOMAIN o.inedges[b] : o.val[Pred(o, o.inedges[b][j])][A] # v
         \/ same = None
      THEN o
      ELSE FindDom([cut EXCEPT !.succ = [e \in Edges(o) |-> IF e \in ends THEN pull ELSE @[e]]])

PullUps(o) ==
  FoldLeft(LAMBDA u, b : PullUp(PullUp(u, b, 0), b, 1), FindInedges(o), Upward(o))

-----------------------------------------------------------------------------
(***************************************************************************)
(* opt_loop and bpf_optimize: rounds of the passes until one changes       *)
(* nothing, first with the statements left alone and then with the edges   *)
(* left alone.  A hundred rounds in a row that only move branches are the  *)
(* end as well.                                                            *)
(***************************************************************************)
MaxRounds == 100

InitOpt(g) ==
  LET none == [b \in Blocks(g) |-> {}]
  IN  [n |-> g.n, root |-> g.root, stmts |-> g.stmts, br |-> g.br, succ |-> g.succ,
       levels |-> << >>, dom |-> none, outuse |-> none, edom |-> [e \in Edges(g) |-> {}],
       inedges |-> [b \in Blocks(g) |-> << >>],
       val |-> [b \in Blocks(g) |-> [a \in Atom |-> Unknown]],
       oval |-> [b \in Blocks(g) |-> Unknown], code |-> g.br,
       done |-> FALSE, moved |-> FALSE, failed |-> FALSE, count |-> 0]

BeginRound(o) == Analyse([o EXCEPT !.done = TRUE, !.moved = FALSE])

EndRound(o) ==
  LET count == IF o.moved THEN 0 ELSE o.count + 1
  IN  IF o.done THEN o
      ELSE [o EXCEPT !.count = count, !.done = count >= MaxRounds]

(* intern_blocks.  A block is linked to the first equal one behind it. *)
RECURSIVE Marked(_, _, _)
Marked(o, b, seen) ==
  IF b \in seen THEN seen
  ELSE IF EndsRun(o, b) THEN seen \cup {b}
  ELSE Marked(o, JF(o, b), Marked(o, JT(o, b), seen \cup {b}))

EqualBlocks(o, b, c) ==
  /\ o.br[b] = o.br[c]
  /\ JT(o, b) = JT(o, c) /\ JF(o, b) = JF(o, c)
  /\ Kept(o.stmts[b]) = Kept(o.stmts[c])

InternLinks(o) ==
  LET live == Marked(o, o.root, {})
      equals(b) == {c \in live : c > b /\ EqualBlocks(o, b, c)}
      link(t, b) == IF b \notin live \/ equals(b) = {} THEN t
                    ELSE LET c == Min(equals(b))
                         IN  [t EXCEPT ![b] = IF t[c] = None THEN c ELSE t[c]]
  IN  FoldLeft(link, [b \in Blocks(o) |-> None],
               [j \in 1 .. o.n |-> o.n - j])

RECURSIVE Intern(_)
Intern(o) ==
  LET link == InternLinks(o)
      to(e) == IF o.succ[e] = None \/ link[o.succ[e]] = None THEN o.succ[e] ELSE link[o.succ[e]]
      joined == [o EXCEPT !.succ = [e \in Edges(o) |-> to(e)]]
  IN  IF joined.succ = o.succ THEN o ELSE Intern(joined)

(* opt_root: a root whose test decides nothing is skipped, but not what it *)
(* computes.                                                               *)
KeepStmts(o, saved, root) ==
  [o EXCEPT !.root = root,
            !.stmts[root] = IF EndsRun(o, root) THEN << >> ELSE saved \o @]

RECURSIVE SkipRoots(_, _)
SkipRoots(o, b) == IF ~EndsRun(o, b) /\ JT(o, b) = JF(o, b) THEN SkipRoots(o, JT(o, b)) ELSE b

OptRoot(o) ==
  LET cleared == [o EXCEPT !.stmts[o.root] = << >>]
  IN  KeepStmts(cleared, o.stmts[o.root], SkipRoots(o, o.root))
=============================================================================
