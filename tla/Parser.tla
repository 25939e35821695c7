------------------------------- MODULE Parser -------------------------------
(***************************************************************************)
(* The parse of one expression and the conversion of its graph to          *)
(* instructions (_pcap_parse, finish_parse and _icode_to_fcode in          *)
(* internal/bpf.go): a compilation without the optimizer.                  *)
(*                                                                         *)
(* An expression is given as the sequence of its reductions, operands      *)
(* before operators.  Each reduction calls the code generator (Gencode) on *)
(* the results of earlier ones.  Then the flow graph's blocks are written  *)
(* as instructions (Layout).                                               *)
(*                                                                         *)
(* Beside every result the stack holds what the expression means for each  *)
(* of some packets: the reference the code is compared with.               *)
(***************************************************************************)
EXTENDS Gencode, Layout, Verdicts

CONSTANTS
  Exprs,          \* the expressions: sequences of reductions
  Prefixed        \* those compiled for a link type with a prefix

-----------------------------------------------------------------------------
(***************************************************************************)
(* The reductions that the grammar has, and the expressions it makes of    *)
(* them: every operator finds operands of its kind on the stack, and a     *)
(* block is left in the end, or nothing of an expression that is empty.    *)
(***************************************************************************)
ReductionType ==
  [op : {"num"}, k : Word] \cup [op : {"len", "neg", "not", "and", "or"}]
    \cup [op : {"load"}, proto : {"link", "ip", "tcp"}, size : {1, 2, 4}]
    \cup [op : {"arth"}, fn : AluFn]
    \cup [op : {"rel"}, fn : {"jeq", "jgt", "jge"}, reversed : BOOLEAN]
    \cup [op : {"cmp"}, off : Word, size : {1, 2, 4}, v : Word, mask : Word]
    \cup [op : {"range"}, off : Word, size : {1, 2, 4}, fn : {"jeq", "jgt", "jge"},
          reversed : BOOLEAN, v : Word]

Takes(t) ==
  CASE t.op \in {"num", "len", "cmp", "range"} -> << >>
    [] t.op \in {"load", "neg"} -> << "number" >>
    [] t.op \in {"arth", "rel"} -> << "number", "number" >>
    [] t.op = "not"             -> << "block" >>
    [] t.op \in {"and", "or"}   -> << "block", "block" >>
Gives(t) == IF t.op \in {"num", "len", "load", "neg", "arth"} THEN "number" ELSE "block"

Rest(s, t) == SubSeq(s, 1, Len(s) - Len(Takes(t)))
Kinds(e) ==
  LET Upto[k \in 0 .. Len(e)] ==
        IF k = 0 THEN << >> ELSE Append(Rest(Upto[k - 1], e[k]), Gives(e[k]))
  IN  Upto

FindsOperands(kinds, t) ==
  /\ Len(Takes(t)) <= Len(kinds)
  /\ \A j \in 1 .. Len(Takes(t)) : kinds[Len(kinds) - Len(Takes(t)) + j] = Takes(t)[j]

WellFormed(e) ==
  /\ e \in Seq(ReductionType)
  /\ \A k \in 1 .. Len(e) : FindsOperands(Kinds(e)[k - 1], e[k])
  /\ Kinds(e)[Len(e)] \in {<< >>, << "block" >>}

(* The packets, and what the machine's operations on bits do to words.     *)
PacketType(p) ==
  /\ p.len \in Word /\ p.wirelen \in Word
  /\ p.at \in [0 .. p.len - 1 -> Byte]

(* Masks of low bits, shifts by a byte and the joining of bytes are what   *)
(* they are in binary; every place the generator itself computes fits its  *)
(* word; and behind a prefix only the link layer is looked at.             *)
ASSUME ParserAssumption ==
  /\ MemSlots <= W
  /\ {WordBits, Snaplen, EtherIP, ProtoTCP, FragMask, OffLinkHdr, OffLinkType, OffLinkPl + OffNl,
      OffLinkPl + OffNl + OffProto, OffLinkPl + OffNl + OffFrag} \subseteq Word
  /\ OffProto \in Nat
  /\ \A a \in Word : /\ BitAnd(a, AllOnes) = a
                     /\ BitAnd(a, FragMask) = 0 <=> a % (FragMask + 1) = 0
  /\ \A a, b \in Byte : /\ Shl(a, WordBits \div 4) = ByteBase * a
                        /\ BitOr(a, ByteBase * b) = a + ByteBase * b
  /\ \A p \in DOMAIN Packets : PacketType(Packets[p])
  /\ \A e \in Exprs : WellFormed(e)
  /\ \A e \in Exprs \cap Prefixed : \A k \in 1 .. Len(e) : e[k].op = "load" => e[k].proto = "link"

VARIABLES
  expr, todo,     \* the expression, and its reductions that are left
  stack,          \* semantic values: results of reductions, and their meaning
  cs,             \* the code generator's state
  optimize        \* the caller wants the program optimized

parserVars == << expr, todo, stack, cs, optimize, o, conv, phase >>

Top    == stack[Len(stack)]
Second == stack[Len(stack) - 1]
Below(k) == SubSeq(stack, 1, Len(stack) - k)

-----------------------------------------------------------------------------
(***************************************************************************)
(* What an expression means for a packet: "yes", "no", or "reject" when    *)
(* deciding it takes bytes the packet does not have or a division by zero. *)
(* A number is known, or bad in the same sense, once its checks are passed.*)
(***************************************************************************)
Number(v) == [check |-> "yes", bad |-> FALSE, v |-> v]
BadNumber(check) == [check |-> check, bad |-> TRUE, v |-> 0]

(* The number at a place of a packet. *)
FieldOf(p, check, off, size) ==
  IF off + size > p.len THEN BadNumber(check)
  ELSE [check |-> check, bad |-> FALSE, v |-> Fetch(p.at, off, size)]

(* The length of what is before the link-layer header. *)
HasPrefix(p) == p.len >= 4
PrefixOf(p) ==
  IF expr \notin Prefixed \/ ~HasPrefix(p) THEN 0 ELSE p.at[2] + ByteBase * p.at[3]

Equals(n, v) == IF n.bad THEN "reject" ELSE Truth(n.v = v)
IsIP(p)  == Equals(FieldOf(p, "yes", OffLinkType, 2), EtherIP)
IsTCP(p) == Equals(FieldOf(p, "yes", OffLinkPl + OffNl + OffProto, 1), ProtoTCP)
IsWhole(p) ==
  LET f == FieldOf(p, "yes", OffLinkPl + OffNl + OffFrag, 2)
  IN  IF f.bad THEN "reject" ELSE Truth(f.v % (FragMask + 1) = 0)

ProtoMeaning(proto, p) ==
  IF proto = "link" THEN "yes"
  ELSE IF proto = "ip" THEN IsIP(p)
  ELSE And3(And3(IsIP(p), IsTCP(p)), IsWhole(p))

StartOf(proto, p) ==
  IF proto = "link" THEN PrefixOf(p) + OffLinkHdr
  ELSE OffLinkPl + OffNl + (IF proto = "tcp" THEN 4 * (p.at[OffLinkPl + OffNl] % 16) ELSE 0)

LoadMeaning(t, i, p) ==
  LET check == And3(i.check, ProtoMeaning(t.proto, p))
  IN  IF i.bad \/ check # "yes" THEN BadNumber(check)
      ELSE FieldOf(p, check, StartOf(t.proto, p) + i.v, t.size)

ArthMeaning(fn, l, r) ==
  IF l.bad \/ r.bad \/ (fn \in {"div", "mod"} /\ r.v = 0) THEN BadNumber(l.check)
  ELSE [l EXCEPT !.v = Computed(fn, @, r.v)]

RelMeaning(t, l, r) ==
  And3(r.check, And3(l.check, IF l.bad \/ r.bad THEN "reject"
                              ELSE Truth(Holds(t.fn, l.v, r.v) # t.reversed)))

CmpMeaning(t, p) ==
  LET f == FieldOf(p, "yes", PrefixOf(p) + t.off, t.size)
  IN  IF t.mask = 0 THEN Truth(t.v = 0)
      ELSE IF f.bad THEN "reject" ELSE Truth(BitAnd(f.v, t.mask) = t.v)

RangeMeaning(t, p) ==
  LET f == FieldOf(p, "yes", PrefixOf(p) + t.off, t.size)
  IN  IF f.bad THEN "reject" ELSE Truth(Holds(t.fn, f.v, t.v) # t.reversed)

-----------------------------------------------------------------------------
(* The reductions. *)
Push(k, made, item) == cs' = made.cs /\ stack' = Append(Below(k), item)

PushNumber(k, made, ref) ==
  Push(k, made, [a |-> made.arth, ref |-> [p \in Meanings |-> ref[p]]])
PushBlock(k, made, ref) ==
  Push(k, made, [b |-> made.blk, ref |-> [p \in Meanings |-> ref[p]]])

Reduction(t) ==
  \/ /\ t.op = "num"
     /\ PushNumber(0, GenLoad1(cs, LdImm(t.k)), [p \in Meanings |-> Number(t.k)])
  \/ /\ t.op = "len"
     /\ PushNumber(0, GenLoad1(cs, LdLen), [p \in Meanings |-> Number(Packets[p].wirelen)])
  \/ /\ t.op = "load"
     /\ PushNumber(1, GenLoad(cs, t.proto, t.size, Top.a),
                   [p \in Meanings |-> LoadMeaning(t, Top.ref[p], Packets[p])])
  \/ /\ t.op = "neg"
     /\ PushNumber(1, GenNeg(cs, Top.a),
                   [p \in Meanings |-> [Top.ref[p] EXCEPT !.v = (0 - @) % W]])
  \/ /\ t.op = "arth"
     /\ PushNumber(2, GenArth(cs, t.fn, Second.a, Top.a),
                   [p \in Meanings |-> ArthMeaning(t.fn, Second.ref[p], Top.ref[p])])
  \/ /\ t.op = "rel"
     /\ PushBlock(2, GenRelation(cs, t.fn, Second.a, Top.a, t.reversed),
                  [p \in Meanings |-> RelMeaning(t, Second.ref[p], Top.ref[p])])
  \/ /\ t.op = "cmp"
     /\ PushBlock(0, GenMcmp(cs, t.off, t.size, t.v, t.mask),
                  [p \in Meanings |-> CmpMeaning(t, Packets[p])])
  \/ /\ t.op = "range"
     /\ PushBlock(0, GenNcmp(cs, t.off, t.size, AllOnes, t.fn, t.reversed, t.v),
                  [p \in Meanings |-> RangeMeaning(t, Packets[p])])
  \/ /\ t.op = "not"
     /\ PushBlock(1, GenNot(cs, Top.b), [p \in Meanings |-> Not3(Top.ref[p])])
  \/ /\ t.op = "and"
     /\ PushBlock(2, GenAnd(cs, Second.b, Top.b),
                  [p \in Meanings |-> And3(Second.ref[p], Top.ref[p])])
  \/ /\ t.op = "or"
     /\ PushBlock(2, GenOr(cs, Second.b, Top.b),
                  [p \in Meanings |-> Or3(Second.ref[p], Top.ref[p])])

(* An error leaves the parser by a long jump. *)
Reduce ==
  /\ phase = "parse" /\ todo # << >>
  /\ Reduction(Head(todo))
  /\ todo' = Tail(todo)
  /\ phase' = IF cs'.failed THEN "error" ELSE "parse"
  /\ UNCHANGED << expr, optimize, o, conv >>

(* finish_parse; an expression that is empty is one "ret". *)
Finish ==
  /\ phase = "parse" /\ todo = << >>
  /\ IF stack = << >>
     THEN LET all == NewBlock(cs, << >>, Ret(Snaplen))
          IN  cs' = all.cs /\ o' = FlowGraph(all.cs.blocks, all.blk)
     ELSE /\ cs' = FinishParse(cs, Top.b)
          /\ o' = FlowGraph(cs'.blocks, cs'.blocks[Top.b].head)
  /\ phase' = IF optimize THEN "optimize" ELSE "graph"
  /\ UNCHANGED << expr, todo, stack, optimize, conv >>

(* The rest is up to Layout. *)
Convert == LayoutNext /\ UNCHANGED << expr, todo, stack, cs, optimize >>

ParserInit ==
  /\ expr \in Exprs
  /\ todo = expr
  /\ stack = << >>
  /\ cs = NewCs(expr \in Prefixed)
  /\ optimize \in BOOLEAN
  /\ o = << >> /\ conv = << >>
  /\ phase = "parse"

ParserNext == Reduce \/ Finish \/ Convert

(* A compilation up to the optimizer, or to its end without it. *)
ParserSpec == ParserInit /\ [][ParserNext]_parserVars

-----------------------------------------------------------------------------
HasGraph == phase \notin {"parse", "error"}

(* What the expression means; if a place behind the prefix was read, the   *)
(* packet must have the prefix's length.                                   *)
Meant ==
  IF stack = << >> THEN [p \in Meanings |-> "yes"]
  ELSE [p \in Meanings |-> IF cs.linkreg # NoReg /\ ~HasPrefix(Packets[p]) THEN "reject"
                           ELSE Top.ref[p]]

Agrees(result, ref) ==
  ref # "reject" => result = Verdict(IF ref = "yes" THEN Snaplen ELSE 0)

(* The flow graph says of a packet what the expression says, behind the    *)
(* parser and behind every pass of the optimizer, unless the expression    *)
(* itself cannot be decided.                                               *)
GraphMeansExpression ==
  HasGraph => \A p \in Meanings : Agrees(Meaning(o, Packets[p]), Meant[p])

(* What the code generator and the optimizer hand over is a sound graph    *)
(* (no cycle, and each block with statements and a branch of its kind),    *)
(* every slot of the array is written in the last attempt, and what the    *)
(* conversion makes of the graph passes validation.                        *)
ProgramIsWhole ==
  /\ phase = "graph" => Sound(o)
  /\ phase # "invalid"
  /\ phase = "done" => \A j \in 0 .. conv.n - 1 : conv.code[j] # Unwritten

(* While an expression is put together every scratch word in use belongs   *)
(* to one operand, or to the prefix: words are neither shared nor lost.    *)
RegistersHaveOneOwner ==
  LET operands == {j \in DOMAIN stack : "a" \in DOMAIN stack[j]}
      regs == {stack[j].a.reg : j \in operands}
  IN  phase = "parse" =>
        /\ cs.used = regs \cup (IF cs.linkreg = NoReg THEN {} ELSE {cs.linkreg})
        /\ cs.linkreg \notin regs
        /\ Cardinality(regs) = Cardinality(operands)
=============================================================================
