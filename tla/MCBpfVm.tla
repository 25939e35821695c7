------------------------------ MODULE MCBpfVm ------------------------------
EXTENDS BpfVm, Bitwise

MCAnd(a, b) == a & b
MCOr(a, b)  == a | b
MCXor(a, b) == a ^^ b
MCShl(a, v) == (a * 2 ^ v) % 16
MCShr(a, v) == a \div 2 ^ v

Op(c, f, r, w, t, e, v) ==
  [class |-> c, fn |-> f, src |-> r, size |-> w, jt |-> t, jf |-> e, k |-> v]

(* With bytes of one bit a word has four: W = 16, and -2 is 14. *)
MCInstruction ==
  { Op("ld",  "abs", "k", 1, 0, 0, 1),  Op("ld", "abs", "k", 2, 0, 0, 0),
    Op("ld",  "abs", "k", 4, 0, 0, 0),  Op("ld", "ind", "k", 1, 0, 0, 2),
    Op("ld",  "ind", "k", 2, 0, 0, 15), Op("ldx", "msh", "k", 1, 0, 0, 1),
    Op("ldx", "mem", "k", 4, 0, 0, 0),
    Op("st",  "st",  "k", 4, 0, 0, 0),  Op("st", "st", "k", 4, 0, 0, 1),
    Op("alu", "sub", "x", 4, 0, 0, 0),  Op("alu", "div", "x", 4, 0, 0, 0),
    Op("alu", "div", "k", 4, 0, 0, 0),
    Op("jmp", "ja",  "k", 4, 0, 0, 14), Op("jmp", "ja", "k", 4, 0, 0, 13),
    Op("jmp", "ja",  "k", 4, 0, 0, 1),
    Op("jmp", "jeq", "k", 4, 0, 1, 0),  Op("jmp", "jgt", "x", 4, 1, 0, 0),
    Op("misc", "tax", "k", 4, 0, 0, 0),
    Op("ret", "ret", "k", 4, 0, 0, 1),  Op("ret", "ret", "a", 4, 0, 0, 0) }

(* Buffers that agree on their first byte, two of them on two bytes. *)
MCContent ==
  { [j \in 0 .. BufSize - 1 |-> 0],
    [j \in 0 .. BufSize - 1 |-> IF j = 1 THEN 1 ELSE 0],
    [j \in 0 .. BufSize - 1 |-> IF j = 0 THEN 0 ELSE 1] }

(* Packets shorter than the buffer and longer than it. *)
MCWireLength == {0, 1, 2, BufSize + 1}
=============================================================================
