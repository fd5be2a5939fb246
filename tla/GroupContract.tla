--------------------------- MODULE GroupContract ---------------------------
(***************************************************************************)
(* One group on the chain: RotasavingsGroup and the ReputationLedger it    *)
(* reports to (contracts/src).  A call is one transaction: it takes effect *)
(* as a whole or reverts as a whole, the ledger's refusal included.        *)
(*                                                                         *)
(* The commitment is a hash of values the contract knows; a caller who     *)
(* sends another one is refused, and it is left out.  Amounts are counted  *)
(* in contributions, and the ledger is the number of its events of each    *)
(* kind, by cycle and member.                                              *)
(***************************************************************************)
EXTENDS Integers, Sequences, FiniteSets

CONSTANTS
    Members,       \* the addresses given to the constructor
    CycleLength,   \* cycleLength, in units of the clock
    MaxTime        \* bound on block.timestamp

ASSUME MembersAssumption == IsFiniteSet(Members) /\ Members # {}
ASSUME CycleLengthAssumption == CycleLength \in Nat
ASSUME MaxTimeAssumption == MaxTime \in Nat

VARIABLES
    now,           \* block.timestamp
    state,         \* CREATED, ACTIVE or CLOSED
    activatedAt,
    payoutOrder,   \* one payee per cycle
    contributions, \* per cycle, the members whose commitment was revealed
    settled,       \* settled cycles
    authorized,    \* ledger: this group may record
    made,          \* ledger: ContributionMade events, by cycle and member
    missed,        \* ledger: ContributionMissed events, by cycle and member
    received,      \* ledger: PayoutReceived events, by cycle: payee and amount
    inTime         \* per cycle, the members who revealed before its deadline

group  == <<state, activatedAt, payoutOrder, contributions, settled>>
ledger == <<made, missed, received>>
vars   == <<now, group, authorized, ledger, inTime>>

TotalCycles == Cardinality(Members)
Cycles == 0 .. TotalCycles - 1
\* contribute takes any cycle number: one past the end stands for all of those.
Numbers == 0 .. TotalCycles

-----------------------------------------------------------------------------
(* ReputationLedger *)

setAuthorized(allowed) ==
    /\ authorized' = allowed
    /\ UNCHANGED <<now, group, ledger, inTime>>

Add(f, c, S) == [f EXCEPT ![c] = [u \in Members |-> IF u \in S THEN f[c][u] + 1 ELSE f[c][u]]]

\* Mutant: a writer without authorisation is ignored instead of refused.
recordQuietly(c, contributors, defaulters, payouts) ==
    /\ IF authorized
         THEN /\ made' = Add(made, c, contributors)
              /\ missed' = Add(missed, c, defaulters)
              /\ received' = [received EXCEPT ![c] = @ \o payouts]
         ELSE UNCHANGED ledger
    /\ UNCHANGED authorized

\* record, for each event of a transaction: it reverts when the group is not authorized.
record(c, contributors, defaulters, payouts) ==
    /\ authorized
    /\ made' = Add(made, c, contributors)
    /\ missed' = Add(missed, c, defaulters)
    /\ received' = [received EXCEPT ![c] = @ \o payouts]
    /\ UNCHANGED authorized

-----------------------------------------------------------------------------
(* RotasavingsGroup *)

Init ==
    /\ now = 0
    /\ state = "CREATED" /\ activatedAt = 0
    /\ payoutOrder = <<>>
    /\ contributions = [c \in Numbers |-> {}]
    /\ settled = {}
    /\ authorized = FALSE
    /\ made = [c \in Numbers |-> [u \in Members |-> 0]] /\ missed = made
    /\ received = [c \in Numbers |-> <<>>]
    /\ inTime = contributions

\* Only the length of the payout order is checked.
activate(order) ==
    /\ state = "CREATED"
    /\ payoutOrder' = order
    /\ activatedAt' = now
    /\ state' = "ACTIVE"
    /\ UNCHANGED <<now, contributions, settled, authorized, ledger, inTime>>

cycleDeadline(c) == activatedAt + (c + 1) * CycleLength

Reveal(u, c) ==
    /\ u \notin contributions[c]
    /\ contributions' = [contributions EXCEPT ![c] = @ \cup {u}]
    /\ record(c, {u}, {}, <<>>)
    /\ inTime' = IF now < cycleDeadline(c) THEN [inTime EXCEPT ![c] = @ \cup {u}] ELSE inTime
    /\ UNCHANGED <<now, state, activatedAt, payoutOrder, settled>>

\* Mutant: a settled cycle still takes contributions.
contributeAfter(u, c) == state = "ACTIVE" /\ Reveal(u, c)

\* Neither the deadline nor the number of cycles is checked.
contribute(u, c) == state = "ACTIVE" /\ c \notin settled /\ Reveal(u, c)

\* The rest of settle, once the deadline has been checked.  payoutOrder[c] reverts for
\* a cycle past the end, so c is in Cycles.  The last cycle, settled in any order,
\* takes the group to SETTLEMENT and on to CLOSED.
PayOut(c) ==
    /\ state = "ACTIVE"
    /\ c \notin settled
    /\ record(c, {}, Members \ contributions[c],
              <<[payee |-> payoutOrder[c + 1], amount |-> Cardinality(contributions[c])]>>)
    /\ settled' = settled \cup {c}
    /\ state' = IF c + 1 = Len(payoutOrder) THEN "CLOSED" ELSE state
    /\ UNCHANGED <<now, activatedAt, payoutOrder, contributions, inTime>>

\* Mutant: the deadline is the start of the cycle.
settleEarly(c) == now >= activatedAt + c * CycleLength /\ PayOut(c)

settle(c) == now >= cycleDeadline(c) /\ PayOut(c)

Tick ==
    /\ now < MaxTime
    /\ now' = now + 1
    /\ UNCHANGED <<group, authorized, ledger, inTime>>

Next ==
    \/ \E allowed \in BOOLEAN : setAuthorized(allowed)
    \/ \E order \in [1 .. TotalCycles -> Members] : activate(order)
    \/ \E u \in Members, c \in Numbers : contribute(u, c)
    \/ \E c \in Cycles : settle(c)
    \/ Tick

Spec == Init /\ [][Next]_vars

-----------------------------------------------------------------------------
(* Properties *)

\* Whenever the ledger's admin authorises or revokes the group, and in whatever order
\* the cycles are settled, the ledger tells the group's own story: one ContributionMade
\* for each contribution, in a settled cycle one ContributionMissed for every other
\* member and one payout of what was collected, and in an open cycle neither.
LedgerAgrees ==
    \A c \in Numbers :
        /\ \A u \in Members :
              /\ made[c][u] = (IF u \in contributions[c] THEN 1 ELSE 0)
              /\ missed[c][u] = (IF c \in settled /\ u \notin contributions[c] THEN 1 ELSE 0)
        /\ IF c \in settled
             THEN Len(received[c]) = 1 /\ received[c][1].amount = Cardinality(contributions[c])
             ELSE received[c] = <<>>

Missed(c) == {u \in Members : missed[c][u] > 0}

\* Nobody who revealed before a cycle's deadline is recorded as a defaulter in it, and
\* nobody is recorded while there is still time.
NobodyTooEarly ==
    \A c \in Cycles : Missed(c) # {} => Missed(c) \cap inTime[c] = {} /\ now >= cycleDeadline(c)

\* The group on the chain, as the books of a savings group.
Books == INSTANCE Rosca WITH
    Final <- TotalCycles - 1,
    paid <- [c \in Cycles |-> contributions[c]],
    missed <- [c \in Cycles |-> Missed(c)]

\* The contract implements the abstract group: what is paid and missed in a settled
\* cycle stays as it is, and a closed group stays closed.
ImplementsRosca == Books!Spec
=============================================================================
