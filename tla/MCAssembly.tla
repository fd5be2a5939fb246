----------------------------- MODULE MCAssembly -----------------------------
(* Assembly for TLC: IDs are interchangeable, and so are requests in flight. *)
EXTENDS Assembly, TLC

Symmetry ==
    Permutations(Requests) \cup Permutations(Invitations) \cup Permutations(Threads)
      \cup Permutations(Users \ {Organizer})
=============================================================================
