----------------------------- MODULE MCCommand -----------------------------
(* Command with words of four bits: 16 is the 2^32 of the code, 0 is       *)
(* DLT_NULL and 1 DLT_EN10MB. One name is asked for, one is not.           *)
EXTENDS Command, Bitwise

MCAnd(a, b) == a & b

MCTypes == {-1, 0, 1, 16}
MCSupported == {0, 1}
MCSnaplens == {3, 16}
MCNames == {"host", "other"}

MCMaskFlags ==
  {[form |-> "none", v4 |-> TRUE, value |-> 0],
   [form |-> "bad", v4 |-> TRUE, value |-> 0],
   [form |-> "prefix", v4 |-> FALSE, value |-> 2]}
    \cup {[form |-> "prefix", v4 |-> TRUE, value |-> b] : b \in {0, 3, 4}}
    \cup {[form |-> "addr", v4 |-> TRUE, value |-> w] : w \in 0 .. 15}
    \cup {[form |-> "length", v4 |-> TRUE, value |-> b] : b \in {-1, 2, 5}}

Mac6 == [octets |-> 6, id |-> 1]
Mac6Other == [octets |-> 6, id |-> 2]
Mac8 == [octets |-> 8, id |-> 1]
On(name, mac) == [name |-> name, mac |-> mac]
Skipped == [name |-> Skip]

MCFiles ==
  {<< >>,
   <<On("host", Mac6), Skipped>>,
   <<On("host", Mac6), On("host", Mac6Other)>>,
   <<On("host", Mac6), On("other", Mac6Other), On("host", Mac8)>>,
   <<On("other", Mac6)>>}
=============================================================================
