----------------------------- MODULE MCCompile -----------------------------
(* A module of a few pages in which any of the allocations of a call may   *)
(* be the one that fails.                                                  *)
EXTENDS Compile

MCSnaplens == {-1, 0, 1, 3}
=============================================================================
