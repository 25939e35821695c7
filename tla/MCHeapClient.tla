---------------------------- MODULE MCHeapClient ----------------------------
EXTENDS HeapClient

(* Lengths below, at and above a page, an impossible one, and one that     *)
(* calloc refuses and malloc does not.                                     *)
MCRequest == {-1, 0, 1, 2, 3, 5, 7}
=============================================================================
