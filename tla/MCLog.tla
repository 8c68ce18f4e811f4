------------------------------- MODULE MCLog -------------------------------
(* Instances of Log for TLC. *)
EXTENDS Log, TLC

CONSTANTS p1, p2, a, b, c

Two == {p1, p2}
Blocks3 == {a, b, c}
Symmetry == Permutations(Two) \cup Permutations(Blocks3)

=============================================================================
