-------------------------- MODULE MCGroupContract --------------------------
(* GroupContract for TLC: members are interchangeable. *)
EXTENDS GroupContract, TLC

Symmetry == Permutations(Members)
=============================================================================
