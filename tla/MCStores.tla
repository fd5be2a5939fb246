------------------------------ MODULE MCStores ------------------------------
(* Stores for TLC: page sizes and offsets at and around the edges. *)
EXTENDS Stores

MCLimits == {0, 1, 2}
MCOffsets == {-1, 0, 1}
=============================================================================
