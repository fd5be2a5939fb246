----------------------------- MODULE MCRotation -----------------------------
(* Rotation for TLC: members and requests are interchangeable. *)
EXTENDS Rotation, TLC

Symmetry == Permutations(Members) \cup Permutations(Threads)
=============================================================================
