----------------------------- MODULE MCMessages -----------------------------
(* Instances of Messages for TLC. *)
EXTENDS Messages, TLC

CONSTANTS m1, m2

Texts == {m1, m2}
Symmetry == Permutations(Texts)

=============================================================================
