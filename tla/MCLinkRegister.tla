--------------------------- MODULE MCLinkRegister ---------------------------
EXTENDS MCCompiler

(* A relation, whose words are free again, before the first test behind    *)
(* the prefix, which takes the word of its right operand.                  *)
MCLate == {Conj(Rel("jeq", FALSE, Length, Num(11)), Cmp(0, 1, 2, 255))}
=============================================================================
