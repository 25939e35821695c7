------------------------------- MODULE Icode -------------------------------
(***************************************************************************)
(* The intermediate code of a compilation: flow graphs of basic blocks     *)
(* (struct block, struct edge and struct slist of gencode.h in             *)
(* internal/bpf.go), as the code generator makes them, the optimizer       *)
(* changes them and icode_to_fcode turns them into instructions; and what  *)
(* such a graph means: what it makes of a packet.                          *)
(*                                                                         *)
(* A graph has the blocks 0 .. n - 1.  Edge b leaves block b when its      *)
(* condition holds, edge n + b when it does not; a block that ends in a    *)
(* "ret" has no successors.                                                *)
(***************************************************************************)
EXTENDS Bpf, Sequences, SequencesExt

None == -1                       \* no block

(* An instruction of a block; jumps have their targets in the edges. *)
Op(class, fn, src, size, k) ==
  [class |-> class, fn |-> fn, src |-> src, size |-> size, jt |-> 0, jf |-> 0, k |-> k]

LdAbs(size, k) == Op("ld", "abs", "k", size, k)
LdInd(size, k) == Op("ld", "ind", "k", size, k)
LdImm(k)       == Op("ld", "imm", "k", 4, k)
LdLen          == Op("ld", "len", "k", 4, 0)
LdMem(k)       == Op("ld", "mem", "k", 4, k)
LdxImm(k)      == Op("ldx", "imm", "k", 4, k)
LdxMem(k)      == Op("ldx", "mem", "k", 4, k)
LdxMsh(k)      == Op("ldx", "msh", "k", 1, k)
St(k)          == Op("st", "st", "k", 4, k)
Alu(fn, src, k) == Op("alu", fn, src, 4, k)
Jmp(fn, src, k) == Op("jmp", fn, src, 4, k)
Ret(k)         == Op("ret", "ret", "k", 4, k)
Tax            == Op("misc", "tax", "k", 4, 0)
Txa            == Op("misc", "txa", "k", 4, 0)

(* A statement that was removed stays in its list as a NOP. *)
Erased(i) == [i EXCEPT !.class = "nop"]
IsNop(i)  == i.class = "nop"
Kept(stmts) ==
  IF \A j \in 1 .. Len(stmts) : ~IsNop(stmts[j]) THEN stmts
  ELSE SelectSeq(stmts, LAMBDA i : ~IsNop(i))

SameCode(i, j) ==
  i.class = j.class /\ i.fn = j.fn /\ i.src = j.src /\ i.size = j.size

Blocks(g) == 0 .. g.n - 1
Edges(g)  == 0 .. 2 * g.n - 1
Pred(g, e)  == e % g.n
Sense(g, e) == e < g.n
JT(g, b) == g.succ[b]
JF(g, b) == g.succ[b + g.n]
EndsRun(g, b) == JT(g, b) = None

-----------------------------------------------------------------------------
(***************************************************************************)
(* The meaning of a graph.  A packet is its length on the wire, the bytes  *)
(* captured, and how many these are.                                       *)
(***************************************************************************)
Verdict(v)  == [rejected |-> FALSE, ret |-> v]
Rejection   == [rejected |-> TRUE, ret |-> 0]

(* One statement: the machine of Bpf, without jumps. *)
Perform(t, i, p) ==
  IF t.halted THEN t
  ELSE IF Faults(t, i, MaxInsns, p.len) THEN Stop(t, 0)
  ELSE At(0, NewA(t, i, p.at, p.wirelen), NewX(t, i, p.at, p.wirelen), NewMem(t, i), 0)

(* The statements of a block, one after the other. *)
Performed(t, kept, p) ==
  LET Upto[j \in 0 .. Len(kept)] ==
        IF j = 0 THEN t ELSE Perform(Upto[j - 1], kept[j], p)
  IN  Upto
PerformAll(t, stmts, p) == Performed(t, Kept(stmts), p)[Len(Kept(stmts))]

Next1(g, b, t) ==
  IF Holds(g.br[b].fn, t.a, Operand(t, g.br[b])) THEN JT(g, b) ELSE JF(g, b)

(* What graph g makes of packet p: no path is longer than the graph. *)
Leave(g, b, t) == [at |-> IF t.halted THEN b ELSE Next1(g, b, t), vm |-> t]
Follow(g, w, p) ==
  IF w.vm.halted \/ EndsRun(g, w.at) THEN w
  ELSE Leave(g, w.at, PerformAll(w.vm, g.stmts[w.at], p))
Return(g, w, p) ==
  IF PerformAll(w.vm, g.stmts[w.at], p).halted THEN Rejection ELSE Verdict(g.br[w.at].k)
Walk(g, p) ==
  LET Upto[k \in 0 .. g.n] ==
        IF k = 0 THEN [at |-> g.root, vm |-> Start] ELSE Follow(g, Upto[k - 1], p)
  IN  Upto
Meaning(g, p) == Return(g, Walk(g, p)[g.n], p)

(* The same for the instructions of a program. *)
Go(t, code, n, p) == IF t.halted THEN t ELSE Step(t, code, n, p.at, p.wirelen, p.len)
RunOf(code, n, p) ==
  LET Upto[k \in 0 .. n] ==
        IF k = 0 THEN Start ELSE Go(Upto[k - 1], code, n, p)
  IN  Upto
Outcome(code, n, p) == RunOf(code, n, p)[n]
=============================================================================
