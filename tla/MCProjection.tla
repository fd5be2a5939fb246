---------------------------- MODULE MCProjection ----------------------------
(* Projection for TLC. *)
EXTENDS Projection
=============================================================================
