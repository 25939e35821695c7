------------------------------- MODULE Layout -------------------------------
(***************************************************************************)
(* The conversion of a flow graph to instructions (_icode_to_fcode,        *)
(* _count_stmts and _convert_code_r in internal/bpf.go).                   *)
(*                                                                         *)
(* The blocks that can be reached are visited from the root, the side of   *)
(* jf first, and a block is written when those it leads to have been, from *)
(* the end of the array to its beginning.  A test whose jump does not fit  *)
(* its byte jumps to an unconditional jump behind it.  There is room for   *)
(* these only when they are known, so each time another one is found the   *)
(* conversion starts over.                                                 *)
(***************************************************************************)
EXTENDS Icode

CONSTANTS
  Packets,        \* a sequence of packets
  Garbage         \* bytes that memory from calloc may have

VARIABLES
  o,              \* the flow graph
  conv,           \* the attempt to write it as instructions
  phase

layoutVars == << o, conv, phase >>

-----------------------------------------------------------------------------
(***************************************************************************)
(* The graphs the code generator and the optimizer hand over.              *)
(***************************************************************************)
Successors(g, b) == {JT(g, b), JF(g, b)} \ {None}

(* The blocks all of whose paths end within k more blocks. *)
Before(g, later) == {b \in Blocks(g) : Successors(g, b) \subseteq later}
Within(g) ==
  LET Upto[k \in 0 .. g.n] == IF k = 0 THEN Before(g, {}) ELSE Before(g, Upto[k - 1])
  IN  Upto

SoundBlock(g, b) ==
  /\ Kept(g.stmts[b]) \in Seq(InsnType)
  /\ \A j \in 1 .. Len(Kept(g.stmts[b])) : Kept(g.stmts[b])[j].class \notin {"jmp", "ret"}
  /\ g.br[b] \in InsnType /\ Known(g.br[b])
  /\ JT(g, b) = None <=> JF(g, b) = None
  /\ IF EndsRun(g, b) THEN g.br[b].class = "ret" /\ g.br[b].src = "k"
                      ELSE g.br[b].class = "jmp" /\ g.br[b].fn \in CondFn

Sound(g) ==
  /\ g.n \in Nat \ {0} /\ g.root \in Blocks(g)
  /\ g.succ \in [Edges(g) -> Blocks(g) \cup {None}]
  /\ \A b \in Blocks(g) : SoundBlock(g, b)
  /\ g.root \in Within(g)[g.n]

-----------------------------------------------------------------------------
(* Mutant: a long jump has room for two instructions. *)
RoomTwice(g, b, long) ==
  Len(Kept(g.stmts[b])) + 1 + 2 * Cardinality({b, b + g.n} \cap long)

(* The instructions of a block: the kept statements, the branch, and the   *)
(* jumps that were found to be long.                                       *)
Extra(e, long) == IF e \in long THEN 1 ELSE 0
Room(g, b, long) == Len(Kept(g.stmts[b])) + 1 + Extra(b, long) + Extra(b + g.n, long)

(* count_stmts marks the blocks it reaches and counts each of them once. *)
Spread(g, bs) == bs \cup UNION {Successors(g, b) : b \in bs}
Counting(g) ==
  LET Upto[k \in 0 .. g.n] == IF k = 0 THEN {g.root} ELSE Spread(g, Upto[k - 1])
  IN  Upto
Reached(g) == Counting(g)[g.n]

Rooms(g, bs, long) ==
  LET Sum[k \in 0 .. g.n] ==
        IF k = 0 THEN 0
        ELSE Sum[k - 1] + (IF k - 1 \in bs THEN Room(g, k - 1, long) ELSE 0)
  IN  Sum
Total(g, bs, long) == Rooms(g, bs, long)[g.n]

(* Memory from calloc is not cleared: what is not written is dirt. *)
Unwritten == Op("none", "none", "k", 0, 0)

Attempt(g, long, dirt) ==
  LET n == Total(g, Reached(g), long)
  IN  [n |-> n, long |-> long, path |-> << g.root >>, marked |-> {g.root},
       tail |-> n, dirt |-> dirt,
       at |-> [b \in Blocks(g) |-> 0], code |-> [j \in 0 .. n - 1 |-> Unwritten]]

(* The calls of convert_code_r under way are for the blocks on a path from *)
(* the root; the innermost one goes to jf and to jt, unless marked, before *)
(* it writes its own block.                                                *)
Current == conv.path[Len(conv.path)]
Unmarked(b) == b # None /\ b \notin conv.marked
Onward ==
  IF Unmarked(JF(o, Current)) THEN JF(o, Current)
  ELSE IF Unmarked(JT(o, Current)) THEN JT(o, Current) ELSE None

Place == conv.tail - Room(o, Current, conv.long)
Offsets == [conv.at EXCEPT ![Current] = Place]

(* From behind the branch of block b to block c. *)
Distance(g, at, b, c) == at[c] - (at[b] + Len(Kept(g.stmts[b]))) - 1
Far(g, at, b, c) == Distance(g, at, b, c) >= ByteBase

TooLong ==
  {e \in {Current, Current + o.n} :
     /\ o.succ[e] # None
     /\ Far(o, Offsets, Current, o.succ[e])
     /\ e \notin conv.long}

(* Only the code and k of an instruction are written, jt and jf for tests. *)
Written(i, dirt) == [i EXCEPT !.jt = dirt, !.jf = dirt]

(* Mutant: the second of two long jumps counts from the first. *)
LongJumpShort(extra, distance) == Jmp("ja", "k", distance - extra)

LongJump(extra, distance) == Jmp("ja", "k", distance - extra - 1)

Lines(g, b, dirt) ==
  [j \in 1 .. Len(Kept(g.stmts[b])) |-> Written(Kept(g.stmts[b])[j], dirt)]

(* The branch of block b, with the long jumps behind it. *)
Branch(g, at, b, dirt) ==
  LET jt == Distance(g, at, b, JT(g, b))
      jf == Distance(g, at, b, JF(g, b))
      extra == IF jt >= ByteBase THEN 1 ELSE 0
      test == [g.br[b] EXCEPT !.jt = IF jt >= ByteBase THEN 0 ELSE jt,
                              !.jf = IF jf >= ByteBase THEN extra ELSE jf]
      behind(far, before, distance) ==
        IF far THEN << Written(LongJump(before, distance), dirt) >> ELSE << >>
  IN  IF EndsRun(g, b) THEN << Written(g.br[b], dirt) >>
      ELSE << test >> \o behind(jt >= ByteBase, 0, jt) \o behind(jf >= ByteBase, extra, jf)

BlockCode(g, at, b, dirt) == Lines(g, b, dirt) \o Branch(g, at, b, dirt)

BeginConvert ==
  /\ phase = "graph"
  /\ \E dirt \in Garbage : conv' = Attempt(o, {}, dirt)
  /\ phase' = "convert"
  /\ o' = o

Enter ==
  /\ phase = "convert" /\ conv.path # << >> /\ Onward # None
  /\ conv' = [conv EXCEPT !.path = Append(@, Onward), !.marked = @ \cup {Onward}]
  /\ UNCHANGED << o, phase >>

(* Mutant: a long jump for jf is noted as one for jt. *)
WidenWrong(long) == Current

(* The jump found to be too long: jt is looked at before jf. *)
Widen(long) == IF Current \in long THEN Current ELSE Current + o.n

Restart ==
  /\ phase = "convert" /\ conv.path # << >> /\ Onward = None /\ TooLong # {}
  /\ \E dirt \in Garbage : conv' = Attempt(o, conv.long \cup {Widen(TooLong)}, dirt)
  /\ UNCHANGED << o, phase >>

ConvertBlock ==
  /\ phase = "convert" /\ conv.path # << >> /\ Onward = None /\ TooLong = {}
  /\ LET block == BlockCode(o, Offsets, Current, conv.dirt)
     IN  conv' = [conv EXCEPT
           !.path = SubSeq(@, 1, Len(@) - 1), !.tail = Place, !.at = Offsets,
           !.code = [j \in DOMAIN @ |-> IF j \in Place .. Place + Len(block) - 1
                                        THEN block[j - Place + 1] ELSE @[j]]]
  /\ UNCHANGED << o, phase >>

(* pcapint_validate_filter has the last word. *)
Check ==
  /\ phase = "convert" /\ conv.path = << >>
  /\ phase' = IF Validate(conv.code, conv.n) THEN "done" ELSE "invalid"
  /\ UNCHANGED << o, conv >>

LayoutInit == phase = "graph" /\ Sound(o) /\ conv = << >>
LayoutNext == BeginConvert \/ Enter \/ Restart \/ ConvertBlock \/ Check
LayoutSpec == LayoutInit /\ [][LayoutNext]_layoutVars

-----------------------------------------------------------------------------
Meanings == DOMAIN Packets

SameOutcome(t, g) == t.halted /\ t.ret = (IF g.rejected THEN 0 ELSE g.ret)

(* The instructions do with every packet, decided or not, what the flow    *)
(* graph does, whatever the memory held that calloc handed out             *)
(* (convert_code_r: the long jumps and the order of the blocks).           *)
InstructionsMeanGraph ==
  phase = "done" =>
    \A p \in Meanings :
      SameOutcome(Outcome(conv.code, conv.n, Packets[p]), Meaning(o, Packets[p]))
=============================================================================
