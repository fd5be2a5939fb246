------------------------------- MODULE Rosca -------------------------------
(***************************************************************************)
(* What a rotating savings group promises, whoever keeps its books: the    *)
(* service (Rotation) and the contract on the chain (GroupContract) are    *)
(* both shown to implement it.  A member pays into an open cycle at most   *)
(* once, a default is recorded only in an open cycle and only for a member *)
(* who has not paid by then, a cycle that is settled stays as it is, and   *)
(* the group closes no earlier than its last cycle is settled.             *)
(***************************************************************************)
EXTENDS Integers

CONSTANTS
    Members,       \* who pays into a cycle
    Cycles,        \* the cycles, 0 .. Final
    Final          \* the cycle whose settlement closes the group

VARIABLES
    state,         \* CREATED, ACTIVE or CLOSED
    paid,          \* per cycle, the members who have paid
    missed,        \* per cycle, the members with a recorded default
    settled        \* the settled cycles

vars == <<state, paid, missed, settled>>

Init ==
    /\ state \in {"CREATED", "ACTIVE"}
    /\ paid = [c \in Cycles |-> {}]
    /\ missed = [c \in Cycles |-> {}]
    /\ settled = {}

Activate ==
    /\ state = "CREATED" /\ state' = "ACTIVE"
    /\ UNCHANGED <<paid, missed, settled>>

Contribute(u, c) ==
    /\ state = "ACTIVE" /\ c \notin settled /\ u \notin paid[c]
    /\ paid' = [paid EXCEPT ![c] = @ \cup {u}]
    /\ UNCHANGED <<state, missed, settled>>

Default(u, c) ==
    /\ state = "ACTIVE" /\ c \notin settled /\ u \notin paid[c]
    /\ missed' = [missed EXCEPT ![c] = @ \cup {u}]
    /\ UNCHANGED <<state, paid, settled>>

\* Those who have not paid may get their defaults with the settlement, and the
\* last settlement may close the group with it or leave that to Close.
Settle(c, M) ==
    /\ state # "CREATED" /\ c \notin settled
    /\ M \cap paid[c] = {}
    /\ missed' = [missed EXCEPT ![c] = @ \cup M]
    /\ settled' = settled \cup {c}
    /\ state' = state \/ (c = Final /\ state' = "CLOSED")
    /\ UNCHANGED paid

Close ==
    /\ state = "ACTIVE" /\ Final \in settled /\ state' = "CLOSED"
    /\ UNCHANGED <<paid, missed, settled>>

Next ==
    \/ Activate \/ Close
    \/ \E c \in Cycles :
         \/ \E u \in Members : Contribute(u, c) \/ Default(u, c)
         \/ \E M \in SUBSET Members : Settle(c, M)

Spec == Init /\ [][Next]_vars
=============================================================================
