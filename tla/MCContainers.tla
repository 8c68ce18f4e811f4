---------------------------- MODULE MCContainers ----------------------------
(* Instances of Containers for TLC. *)
EXTENDS Containers, TLC

CONSTANTS p1, p2, nobody

Callers == {p1, p2}
Symmetry == Permutations(Callers)

=============================================================================
