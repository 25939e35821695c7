----------------------------- MODULE MCCompiler -----------------------------
EXTENDS Compiler, Bitwise

(* With bytes of two bits a word has eight, and a jump is long from four   *)
(* instructions on.                                                        *)
MCAnd(a, b) == a & b
MCOr(a, b)  == a | b
MCXor(a, b) == a ^^ b
MCShl(a, v) == (a * 2 ^ v) % 256
MCShr(a, v) == a \div 2 ^ v

Pkt(wirelen, s) ==
  [wirelen |-> wirelen, len |-> Len(s), at |-> [j \in 0 .. Len(s) - 1 |-> s[j + 1]]]

(* Two bytes of link header, the type (8 is IPv4), the header's length, two *)
(* bytes of fragment offset, the protocol (2 is TCP) and four bytes behind. *)
MCPackets ==
  << Pkt(12, << 0, 1, 2, 0, 1, 0, 0, 2, 1, 2, 3, 0 >>),
     Pkt(14, << 1, 1, 2, 0, 1, 2, 0, 2, 1, 0, 2, 1 >>),
     Pkt(12, << 3, 0, 2, 0, 1, 1, 1, 2, 2, 1, 0, 0 >>),
     Pkt(11, << 0, 2, 2, 0, 1, 0, 0, 1, 2, 1, 1 >>),
     Pkt(9,  << 1, 0, 1, 0, 3, 0, 0, 0, 1 >>),
     Pkt(5,  << 2, 1, 2, 0, 1 >>) >>

Num(v) == << [op |-> "num", k |-> v] >>
Length == << [op |-> "len"] >>
Load(proto, size, i) == i \o << [op |-> "load", proto |-> proto, size |-> size] >>
Neg(a) == a \o << [op |-> "neg"] >>
Arith(fn, l, r) == l \o r \o << [op |-> "arth", fn |-> fn] >>
Rel(fn, reversed, l, r) == l \o r \o << [op |-> "rel", fn |-> fn, reversed |-> reversed] >>
Cmp(off, size, val, mask) ==
  << [op |-> "cmp", off |-> off, size |-> size, v |-> val, mask |-> mask] >>
InRange(fn, reversed, off, val) ==
  << [op |-> "range", off |-> off, size |-> 1, fn |-> fn, v |-> val, reversed |-> reversed] >>
Nay(e) == e \o << [op |-> "not"] >>
Conj(l, r) == l \o r \o << [op |-> "and"] >>
Disj(l, r)  == l \o r \o << [op |-> "or"] >>

Byte7(val) == Cmp(7, 1, val, 255)
Byte8(val) == Cmp(8, 1, val, 255)
IPType == Cmp(2, 2, 8, 255)
Always == Cmp(0, 1, 0, 0)
Never  == Cmp(0, 1, 1, 0)
Between(off, lo, hi) == Conj(InRange("jge", FALSE, off, lo), InRange("jgt", TRUE, off, hi))
Odd(off) == Cmp(off, 1, 1, 1)

LinkAt(j) == Load("link", 1, Num(j))

(* Two tests and the constant ones. *)
Pairs ==
  LET tests == {Byte7(1), Byte8(1), Odd(8), Always, Never}
      both == {Conj(l, r) : l, r \in tests} \cup {Disj(l, r) : l, r \in tests}
  IN  both \cup {Nay(e) : e \in both}

(* Three and four on two bytes: what pulling up and threading work on. *)
Chains ==
  LET tests == {Byte7(1), Byte7(2), Byte8(1)}
      threes == {Disj(Disj(l, m), r) : l, m, r \in tests}
                  \cup {Conj(Conj(Nay(l), Nay(m)), Nay(r)) : l, m, r \in tests}
                  \cup {Disj(Conj(l, m), r) : l, m, r \in tests}
                  \cup {Conj(l, Disj(m, r)) : l, m, r \in tests}
      entered == {Conj(l, Conj(Byte8(1), InRange("jge", FALSE, 7, 2))) : l \in threes}
                   \cup {Disj(Nay(l), Disj(Byte8(1), InRange("jge", FALSE, 7, 2))) : l \in threes}
  IN  threes \cup {Conj(Nay(Byte7(0)), e) : e \in threes} \cup {Disj(Byte7(0), e) : e \in threes}
        \cup entered

One == Num(1)
Three == Arith("add", One, Num(2))      \* known, but not as one number

(* Numbers of all kinds, also such as cannot be computed or compiled. *)
Terms ==
  { One, Length, LinkAt(8), Load("ip", 1, Num(3)), Load("tcp", 1, One),
    Load("link", 2, Num(8)), Load("link", 1, LinkAt(8)), Neg(LinkAt(9)), Neg(One), Neg(Three),
    Arith("sub", LinkAt(9), LinkAt(8)), Arith("and", LinkAt(9), Num(3)),
    Arith("and", LinkAt(9), Num(255)), Arith("sub", LinkAt(9), One),
    Arith("div", Length, LinkAt(7)), Arith("mul", LinkAt(8), Num(0)),
    Arith("add", Arith("mul", LinkAt(8), Num(0)), Num(2)),
    Arith("add", LinkAt(8), Num(0)), Arith("mul", Num(0), LinkAt(8)),
    Arith("sub", Num(0), LinkAt(8)), Arith("or", Num(0), LinkAt(9)),
    Arith("lsh", One, Num(7)), Arith("lsh", LinkAt(9), Three), Arith("rsh", Num(200), Num(9)),
    Arith("rsh", Num(4), Arith("add", Num(4), Num(4))),
    Arith("lsh", LinkAt(9), Arith("add", Num(4), Num(4))),
    Arith("div", Length, Num(0)), Arith("div", Length, Arith("sub", One, One)),
    Arith("mod", One, Arith("sub", One, One)), Arith("mod", LinkAt(9), Three),
    Arith("xor", Arith("add", LinkAt(8), LinkAt(9)), Arith("mul", LinkAt(10), Num(2))),
    Arith("add", LinkAt(7), Arith("add", LinkAt(8), Arith("add", LinkAt(9), One))),
    Arith("add", LinkAt(7), Arith("add", LinkAt(8), Arith("add", LinkAt(9), Arith("add", One, One)))),
    Load("tcp", 1, Arith("sub", Load("ip", 1, Num(4)), One)) }

Relations ==
  {Rel(fn, rev, l, r) : fn \in {"jeq", "jgt"}, rev \in BOOLEAN, l \in Terms,
                        r \in {Num(0), Num(2), LinkAt(8)}}
    \cup {Rel("jeq", FALSE, Num(0), r) : r \in Terms}

Mixed ==
  LET tcp(j) == Load("tcp", 1, Num(j))
      rels == {Rel("jeq", FALSE, LinkAt(8), One), Rel("jgt", FALSE, tcp(0), One),
               Rel("jgt", FALSE, tcp(0), Num(2)),
               Rel("jeq", TRUE, Arith("sub", LinkAt(9), LinkAt(8)), One),
               Rel("jeq", FALSE, Arith("and", LinkAt(8), One), Num(0)),
               Rel("jge", FALSE, Length, Num(11))}
      tests == rels \cup {Byte8(1), IPType, Between(8, 1, 2)}
      pairs == {Conj(Byte7(j), e) : j \in 0 .. 2, e \in {Byte8(1), Rel("jeq", FALSE, LinkAt(9), One)}}
  IN  {Conj(l, r) : l \in rels, r \in tests} \cup {Disj(Nay(l), r) : l \in rels, r \in tests}
        \cup {Disj(l, r) : l \in rels, r \in rels}
        \cup {Disj(Disj(l, m), r) : l, m, r \in pairs}

MCPrefixed ==
  {Rel("jeq", FALSE, LinkAt(j), Num(1)) : j \in {6, 9}}
    \cup {Disj(Rel("jgt", FALSE, LinkAt(6), LinkAt(7)), Byte8(1)),
          Conj(Nay(Byte8(3)), Rel("jeq", TRUE, Arith("add", LinkAt(6), Num(1)), Load("link", 1, LinkAt(5))))}

MCExprs == { << >> } \cup Pairs \cup Chains \cup Relations \cup Mixed \cup MCPrefixed
=============================================================================
