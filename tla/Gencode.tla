------------------------------ MODULE Gencode ------------------------------
(***************************************************************************)
(* The code generator (the gen_... functions that the parser's reductions  *)
(* call): blocks with open exits are joined by gen_and, gen_or and         *)
(* gen_not; arithmetic goes through scratch memory that alloc_reg hands    *)
(* out; finish_parse closes the exits with the two "ret" blocks.           *)
(*                                                                         *)
(* A compiler state cs has the blocks made so far (a block is its place in *)
(* the sequence), the registers in use, and whether an error was raised.   *)
(* An operator named after a function returns the state and, as blk or     *)
(* arth, its result.                                                       *)
(***************************************************************************)
EXTENDS Icode

CONSTANTS
  Snaplen,        \* what the program returns for a packet it accepts
  OffLinkHdr, OffLinkType, OffLinkPl, OffNl,   \* constant parts of the offsets
  OffProto, OffFrag, FragMask,   \* protocol and fragment offset of an IPv4 header
  EtherIP, ProtoTCP              \* the numbers of IPv4 and TCP

Nil == 0                         \* no block yet: an open exit ends its list here
NoReg == -1

(* What is known of a block whatever the packet (enum in struct block). *)
Uncertain == "uncertain"

NewCs(prefixed) ==
  [blocks |-> << >>, used |-> {}, cur |-> 0, failed |-> FALSE,
   prefixed |-> prefixed, linkreg |-> NoReg]

-----------------------------------------------------------------------------
(* Blocks. *)
NewBlock(cs, stmts, br) ==
  LET id == Len(cs.blocks) + 1
  IN  [cs |-> [cs EXCEPT !.blocks = Append(@, [stmts |-> stmts, br |-> br, jt |-> Nil,
                                               jf |-> Nil, sense |-> FALSE,
                                               head |-> id, means |-> Uncertain])],
       blk |-> id]

(* The open exits of a block are a list through its own jt or jf, whichever *)
(* its sense says.                                                         *)
Link(blk) == IF blk.sense THEN blk.jf ELSE blk.jt
Linked(blk, target) ==
  IF blk.sense THEN [blk EXCEPT !.jf = target] ELSE [blk EXCEPT !.jt = target]

(* Every exit of a list is closed.  The list is not longer than there are  *)
(* blocks.                                                                 *)
Patch(w, target) ==
  IF w.at = Nil THEN w
  ELSE [blocks |-> [w.blocks EXCEPT ![w.at] = Linked(@, target)],
        at     |-> Link(w.blocks[w.at])]
Patching(blocks, list, target) ==
  LET Upto[k \in 0 .. Len(blocks)] ==
        IF k = 0 THEN [blocks |-> blocks, at |-> list] ELSE Patch(Upto[k - 1], target)
  IN  Upto
Backpatch(blocks, list, target) == Patching(blocks, list, target)[Len(blocks)].blocks

(* The list of b1 is put behind the end of that of b0. *)
Onto(blocks, b) == IF Link(blocks[b]) = Nil THEN b ELSE Link(blocks[b])
Seeking(blocks, b0) ==
  LET Upto[k \in 0 .. Len(blocks)] == IF k = 0 THEN b0 ELSE Onto(blocks, Upto[k - 1])
  IN  Upto
EndOf(blocks, b0) == Seeking(blocks, b0)[Len(blocks)]
Merge(blocks, b0, b1) == [blocks EXCEPT ![EndOf(blocks, b0)] = Linked(@, b1)]

Flip(blocks, b) == [blocks EXCEPT ![b].sense = ~@]

Opposite(means) ==
  IF means = "true" THEN "false" ELSE IF means = "false" THEN "true" ELSE means

Negated(blocks, b) == [Flip(blocks, b) EXCEPT ![b].means = Opposite(@)]
GenNot(cs, b) == [cs |-> [cs EXCEPT !.blocks = Negated(@, b)], blk |-> b]

(* b0 and then b1: b0's exits of one kind go to b1, the others join b1's.  *)
Join(blocks, b0, b1) ==
  LET flipped == Flip(Flip(Backpatch(blocks, b0, blocks[b1].head), b0), b1)
      merged  == Merge(flipped, b1, b0)
  IN  [Flip(merged, b1) EXCEPT ![b1].head = merged[b0].head]

GenAnd(cs, b0, b1) ==
  LET m0 == cs.blocks[b0].means
      m1 == cs.blocks[b1].means
  IN  IF m0 = "false" THEN [cs |-> cs, blk |-> b0]
      ELSE IF m0 = "true" \/ m1 = "false" THEN [cs |-> cs, blk |-> b1]
      ELSE IF m1 = "true" THEN [cs |-> cs, blk |-> b0]
      ELSE [cs |-> [cs EXCEPT !.blocks = Join(@, b0, b1)], blk |-> b1]

(* The same with the other exits, for gen_or. *)
JoinOr(blocks, b0, b1) ==
  LET patched == Flip(Backpatch(Flip(blocks, b0), b0, blocks[b1].head), b0)
      merged  == Merge(patched, b1, b0)
  IN  [merged EXCEPT ![b1].head = merged[b0].head]

GenOr(cs, b0, b1) ==
  LET m0 == cs.blocks[b0].means
      m1 == cs.blocks[b1].means
  IN  IF m0 = "false" THEN [cs |-> cs, blk |-> b1]
      ELSE IF m0 = "true" \/ m1 = "false" THEN [cs |-> cs, blk |-> b0]
      ELSE IF m1 = "true" THEN [cs |-> cs, blk |-> b1]
      ELSE [cs |-> [cs EXCEPT !.blocks = JoinOr(@, b0, b1)], blk |-> b1]

(* gen_true and gen_false: a block that compares an immediate with 0. *)
GenUncond(cs, truth) ==
  LET made == NewBlock(cs, << LdImm(IF truth THEN 0 ELSE 1) >>, Jmp("jeq", "k", 0))
  IN  [made EXCEPT !.cs.blocks[made.blk].means = IF truth THEN "true" ELSE "false"]
-----------------------------------------------------------------------------
(* Scratch memory: the first free word from the current one on. *)
AllocReg(cs) ==
  LET free == {d \in Slot : (cs.cur + d) % MemSlots \notin cs.used}
      reg  == (cs.cur + Min(free)) % MemSlots
  IN  IF free = {} THEN [cs |-> [cs EXCEPT !.failed = TRUE], reg |-> 0]
      ELSE [cs |-> [cs EXCEPT !.cur = reg, !.used = @ \cup {reg}], reg |-> reg]

FreeReg(cs, reg) == [cs EXCEPT !.used = @ \ {reg}]

(* Mutant: the old register stays in use. *)
ReplaceRegLeaking(cs, reg) == AllocReg(cs)

ReplaceReg(cs, reg) == AllocReg(FreeReg(cs, reg))

(* The part of a link-layer offset that is not constant is kept in a       *)
(* register, which finish_parse fills (gen_abs_offset_varpart).            *)
VarIn(got) == [cs |-> [got.cs EXCEPT !.linkreg = got.reg], stmts |-> << LdxMem(got.reg) >>]
VarPart(cs) ==
  IF ~cs.prefixed THEN [cs |-> cs, stmts |-> << >>]
  ELSE IF cs.linkreg # NoReg THEN [cs |-> cs, stmts |-> << LdxMem(cs.linkreg) >>]
  ELSE VarIn(AllocReg(cs))

LoadFrom(stmts, size, k) ==
  IF stmts = << >> THEN << LdAbs(size, k) >> ELSE Append(stmts, LdInd(size, k))

(* gen_ncmp, and with the mask of all ones gen_cmp. *)
AllOnes == W - 1
MaskedLoad(load, mask) ==
  IF mask = AllOnes THEN load ELSE Append(load, Alu("and", "k", mask))
Reversed(made, reverse) == IF reverse THEN GenNot(made.cs, made.blk) ELSE made
NcmpOf(part, offset, size, mask, br) ==
  NewBlock(part.cs, MaskedLoad(LoadFrom(part.stmts, size, offset), mask), br)
GenNcmp(cs, offset, size, mask, fn, reverse, v) ==
  Reversed(NcmpOf(VarPart(cs), offset, size, mask, Jmp(fn, "k", v)), reverse)

GenCmp(cs, offset, size, v) == GenNcmp(cs, offset, size, AllOnes, "jeq", FALSE, v)

(* A masked comparison; nothing is read through an empty mask. *)
GenMcmp(cs, offset, size, v, mask) ==
  IF mask = 0 THEN GenUncond(cs, v = 0)
  ELSE GenNcmp(cs, offset, size, mask, "jeq", FALSE, v)

(* On a link layer without a prefix. *)
GenIPType(cs)  == GenCmp(cs, OffLinkType, 2, EtherIP)
GenIPProto(cs) == GenCmp(cs, OffLinkPl + OffNl + OffProto, 1, ProtoTCP)
GenIPFrag(cs) ==
  Reversed(NewBlock(cs, << LdAbs(2, OffLinkPl + OffNl + OffFrag) >>,
                    Jmp("jset", "k", FragMask)), TRUE)

(* What was made, after the checks of block b if there are any. *)
After(b, made) == IF b = Nil THEN made ELSE GenAnd(made.cs, b, made.blk)
-----------------------------------------------------------------------------
(* Arithmetic: statements that leave a value in register reg, after the    *)
(* checks of block b.                                                      *)
Arth(s, reg, b) == [s |-> s, reg |-> reg, b |-> b]

(* gen_loadi and gen_loadlen. *)
ResultIn(got, s, b) == [cs |-> got.cs, arth |-> Arth(Append(s, St(got.reg)), got.reg, b)]
GenLoad1(cs, i) == ResultIn(AllocReg(cs), << i >>, Nil)

IsNumber(a) == Len(a.s) = 2 /\ a.s[1].class = "ld" /\ a.s[1].fn = "imm" /\ a.s[2].class = "st"

GenNeg(cs, a) ==
  [cs |-> cs,
   arth |-> IF IsNumber(a) THEN [a EXCEPT !.s[1].k = (0 - @) % W]
            ELSE [a EXCEPT !.s = @ \o << LdMem(a.reg), Alu("neg", "k", 0), St(a.reg) >>]]

(* A number that may not be the right operand. *)
BadOperand(fn, a) ==
  IsNumber(a) /\ \/ fn \in {"div", "mod"} /\ a.s[1].k = 0
                 \/ fn \in {"lsh", "rsh"} /\ a.s[1].k >= WordBits

GenArth(cs, fn, a0, a1) ==
  IF BadOperand(fn, a1) THEN [cs |-> [cs EXCEPT !.failed = TRUE], arth |-> a0]
  ELSE ResultIn(ReplaceReg(FreeReg(cs, a1.reg), a0.reg),
                a0.s \o a1.s \o << LdxMem(a1.reg), LdMem(a0.reg), Alu(fn, "x", 0) >>, a0.b)

(* What to check before the packet is read as a protocol, and where that   *)
(* protocol begins.                                                        *)
TcpAfter(ip) == After(ip.blk, GenIPProto(ip.cs))
FragAfter(tcp) == After(tcp.blk, GenIPFrag(tcp.cs))
GenCheck(cs, proto) ==
  IF proto = "ip" THEN GenIPType(cs) ELSE FragAfter(TcpAfter(GenIPType(cs)))

OffsetOf(proto) == IF proto = "link" THEN OffLinkHdr ELSE OffLinkPl + OffNl

(* The load at index a into protocol proto: x holds the part of its place  *)
(* that is not constant, the register of the index is added to it.         *)
LoadPart(cs, proto) ==
  IF proto = "link" THEN VarPart(cs)
  ELSE [cs |-> cs, stmts |-> IF proto = "tcp" THEN << LdxMsh(OffLinkPl + OffNl) >> ELSE << >>]
Indexed(stmts, a) ==
  IF stmts = << >> THEN << LdxMem(a.reg) >>
  ELSE stmts \o << LdMem(a.reg), Alu("add", "x", 0), Tax >>
ChecksOf(cs, proto, b) ==
  IF proto = "link" THEN [cs |-> cs, blk |-> b] ELSE After(b, GenCheck(cs, proto))
LoadAfter(check, s, reg) == ResultIn(ReplaceReg(check.cs, reg), s, check.blk)
LoadWith(part, proto, size, a) ==
  LoadAfter(ChecksOf(part.cs, proto, a.b),
            a.s \o Indexed(part.stmts, a) \o << LdInd(size, OffsetOf(proto)) >>, a.reg)
GenLoad(cs, proto, size, a) == LoadWith(LoadPart(cs, proto), proto, size, a)

Operands(a0, a1) == a0.s \o a1.s \o << LdxMem(a1.reg), LdMem(a0.reg) >>

(* a0 relop a1: the checks of a1, then those of a0, then the comparison. *)
GenRelation(cs, fn, a0, a1, reversed) ==
  LET test == Reversed(NewBlock(cs, Operands(a0, a1), Jmp(fn, "x", 0)), reversed)
  IN  After(a1.b, After(a0.b, [test EXCEPT !.cs = FreeReg(FreeReg(@, a0.reg), a1.reg)]))
-----------------------------------------------------------------------------
(* finish_parse.  The length of the prefix is put together from two bytes, *)
(* if anything was read behind it, before the first block's own code.      *)
PrefixLength(reg) ==
  << LdAbs(1, 3), Alu("lsh", "k", WordBits \div 4), Tax, LdAbs(1, 2), Alu("or", "x", 0),
     St(reg), Tax >>

FinishParse(cs, p) ==
  LET head == cs.blocks[p].head
      prefixed == IF cs.linkreg = NoReg THEN cs.blocks
                  ELSE [cs.blocks EXCEPT ![head].stmts = PrefixLength(cs.linkreg) \o @,
                                         ![head].means = Uncertain]
      yes  == NewBlock([cs EXCEPT !.blocks = prefixed], << >>, Ret(Snaplen))
      no   == NewBlock([yes.cs EXCEPT !.blocks = Flip(Backpatch(@, p, yes.blk), p)],
                       << >>, Ret(0))
  IN  [no.cs EXCEPT !.blocks = Backpatch(@, p, no.blk)]

(* number_blks_r: the blocks that can be reached, in the order a depth     *)
(* first search along jt and then jf meets them.                           *)
Visit(blocks, w) ==
  LET b == Head(w.todo)
  IN  IF w.todo = << >> THEN w
      ELSE IF b = Nil \/ Contains(w.seen, b) THEN [w EXCEPT !.todo = Tail(@)]
      ELSE [seen |-> Append(w.seen, b),
            todo |-> << blocks[b].jt, blocks[b].jf >> \o Tail(w.todo)]
Visiting(blocks, root) ==
  LET Upto[k \in 0 .. 2 * Len(blocks) + 1] ==
        IF k = 0 THEN [seen |-> << >>, todo |-> << root >>] ELSE Visit(blocks, Upto[k - 1])
  IN  Upto
Reach(blocks, root) == Visiting(blocks, root)[2 * Len(blocks) + 1].seen

(* The graph that bpf_optimize and icode_to_fcode are given. *)
FlowGraph(blocks, root) ==
  LET ids == Reach(blocks, root)
      n == Len(ids)
      at(b) == IF b = Nil THEN None ELSE CHOOSE i \in 0 .. n - 1 : ids[i + 1] = b
  IN  [n |-> n, root |-> 0,
       stmts |-> [b \in 0 .. n - 1 |-> blocks[ids[b + 1]].stmts],
       br |-> [b \in 0 .. n - 1 |-> blocks[ids[b + 1]].br],
       succ |-> [e \in 0 .. 2 * n - 1 |->
                   at(IF e < n THEN blocks[ids[e + 1]].jt ELSE blocks[ids[e - n + 1]].jf)]]
=============================================================================
