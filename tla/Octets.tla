------------------------------- MODULE Octets -------------------------------
(***************************************************************************)
(* Bytes of packets, and masks.                                            *)
(***************************************************************************)
EXTENDS Integers, Sequences
LOCAL INSTANCE Bitwise

Octet == 0 .. 255

CONSTANT BitAnd                  \* bitwise and of two bytes, a table

ASSUME BitAndIsBitwise ==
  DOMAIN BitAnd = Octet /\ \A a \in Octet : BitAnd[a] = [m \in Octet |-> a & m]

Half(v) == << v \div 256, v % 256 >>
Three(v) == << v \div 65536 >> \o Half(v % 65536)
Zeros(n) == [i \in 1 .. n |-> 0]
=============================================================================
