------------------------------ MODULE Verdicts ------------------------------
(***************************************************************************)
(* What a test makes of a packet: "yes", "no", or "reject" when deciding   *)
(* it reads a byte the packet does not have.  The machine rejects a packet *)
(* at once when a load is outside it (pcapint_filter in internal/bpf.go),  *)
(* so a test that is not reached does no harm: the connectives are those   *)
(* of the blocks that gen_and, gen_or and gen_not join, left to right.     *)
(***************************************************************************)
EXTENDS Integers, Sequences

And3(u, v) == IF u = "yes" THEN v ELSE u
Or3(u, v)  == IF u = "no" THEN v ELSE u
Not3(u) == IF u = "yes" THEN "no" ELSE IF u = "no" THEN "yes" ELSE u
Truth(c) == IF c THEN "yes" ELSE "no"

(* A sequence of tests: the first that decides. *)
First(s, decides, otherwise) ==
  LET deciding == {i \in DOMAIN s : decides[s[i]]}
  IN  IF deciding = {} THEN otherwise ELSE s[CHOOSE i \in deciding : \A j \in deciding : i <= j]
All3(s) == First(s, [yes |-> FALSE, no |-> TRUE, reject |-> TRUE], "yes")
Any3(s) == First(s, [yes |-> TRUE, no |-> FALSE, reject |-> TRUE], "no")

(* The qualifiers src, dst, src and dst, src or dst; the source is looked  *)
(* at first.                                                               *)
Direction(dir, src, dst) ==
  CASE dir = "src" -> src [] dir = "dst" -> dst
    [] dir = "and" -> And3(src, dst) [] dir = "or" -> Or3(src, dst)
=============================================================================
