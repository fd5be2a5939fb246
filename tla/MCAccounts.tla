----------------------------- MODULE MCAccounts -----------------------------
(* Accounts for TLC: IDs and requests are interchangeable. *)
EXTENDS Accounts, TLC

Symmetry == Permutations(Ids) \cup Permutations(Threads)
=============================================================================
