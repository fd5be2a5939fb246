----------------------------- MODULE MCGateway ------------------------------
(* Gateway for TLC: the requests' goroutines are interchangeable. *)
EXTENDS Gateway, TLC

Symmetry == Permutations(Threads)
=============================================================================
