----------------------------- MODULE MCProgram -----------------------------
EXTENDS Program, Bitwise

MCAnd(a, b) == a & b
MCOr(a, b)  == a | b
MCXor(a, b) == a ^^ b
MCShl(a, v) == (a * 2 ^ v) % 16
MCShr(a, v) == a \div 2 ^ v

Op(c, f, r, w, t, e, v) ==
  [class |-> c, fn |-> f, src |-> r, size |-> w, jt |-> t, jf |-> e, k |-> v]

Prog(s) == [n |-> Len(s), code |-> [j \in 0 .. Len(s) - 1 |-> s[j + 1]]]

(* The second byte of the packet; the last byte of a packet that may be    *)
(* shorter; a loop that stores and loads scratch memory.                   *)
MCFilter ==
  { Prog(<< Op("ld", "abs", "k", 1, 0, 0, 1), Op("ret", "ret", "a", 4, 0, 0, 0) >>),
    Prog(<< Op("ld", "len", "k", 4, 0, 0, 0), Op("misc", "tax", "k", 4, 0, 0, 0),
            Op("ld", "ind", "k", 1, 0, 0, 0), Op("ret", "ret", "k", 4, 0, 0, 1) >>),
    Prog(<< Op("ld", "mem", "k", 4, 0, 0, 0), Op("alu", "add", "k", 4, 0, 0, 1),
            Op("st", "st", "k", 4, 0, 0, 0), Op("jmp", "jgt", "k", 4, 1, 0, 1),
            Op("jmp", "ja", "k", 4, 0, 0, 11), Op("ret", "ret", "a", 4, 0, 0, 0) >>) }

Pkt(s) == [len |-> Len(s), at |-> [j \in 0 .. Len(s) - 1 |-> s[j + 1]]]

(* A short packet, one that fills the buffer, and one longer than it. *)
MCPacket == { Pkt(<< 1 >>), Pkt(<< 0, 1 >>), Pkt(<< 1, 0, 1 >>) }
=============================================================================
