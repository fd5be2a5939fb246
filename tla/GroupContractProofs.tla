------------------------- MODULE GroupContractProofs -------------------------
(***************************************************************************)
(* Theorems about GroupContract, for any members, cycle length and bound   *)
(* on time: the ledger agrees with the group, nobody is recorded too       *)
(* early, and the contract implements the abstract savings group.          *)
(***************************************************************************)
EXTENDS GroupContract, TLAPS, FiniteSetTheorems, SequenceTheorems

-----------------------------------------------------------------------------
(* The inductive invariant *)

Payment == [payee : Members, amount : Nat]

Types ==
    /\ now \in Nat /\ activatedAt \in Nat
    /\ state \in {"CREATED", "ACTIVE", "CLOSED"}
    /\ contributions \in [Numbers -> SUBSET Members]
    /\ settled \in SUBSET Cycles
    /\ made \in [Numbers -> [Members -> Nat]]
    /\ missed \in [Numbers -> [Members -> Nat]]
    /\ received \in [Numbers -> Seq(Payment)]
    /\ inTime \in [Numbers -> SUBSET Members]

\* Nothing happens before the activation, which fixes one payee per cycle.
Started ==
    IF state = "CREATED"
      THEN settled = {} /\ contributions = [c \in Numbers |-> {}]
      ELSE payoutOrder \in [1 .. TotalCycles -> Members]

\* A settled cycle is due, and who was in time has contributed.
Due ==
    /\ \A c \in settled : now >= cycleDeadline(c)
    /\ \A c \in Numbers : inTime[c] \subseteq contributions[c]

Inv == Types /\ Started /\ Due /\ LedgerAgrees

-----------------------------------------------------------------------------
(* Numbers and cycles *)

\* There is at least one cycle, and the cycles are among the numbers that
\* contribute takes.
LEMMA Counting ==
    /\ TotalCycles \in Nat \ {0}
    /\ Cycles \subseteq Numbers
    /\ Numbers \subseteq Nat
    /\ Cycles = {c \in Numbers : c < TotalCycles}
<1>1. Cardinality(Members) \in Nat
  BY FS_CardinalityType, MembersAssumption
<1>2. Cardinality(Members) # 0
  BY FS_EmptySet, MembersAssumption
<1> QED
  BY <1>1, <1>2 DEF TotalCycles, Cycles, Numbers

\* What is collected in a cycle is a number of contributions.
LEMMA Collected ==
    ASSUME NEW S \in SUBSET Members
    PROVE  Cardinality(S) \in Nat
BY FS_Subset, FS_CardinalityType, MembersAssumption

\* A deadline is an instant.
LEMMA DeadlineType ==
    ASSUME activatedAt \in Nat, NEW c \in Numbers
    PROVE  cycleDeadline(c) \in Int
<1>1. c \in Nat /\ CycleLength \in Nat
  BY Counting, CycleLengthAssumption
<1>2. (c + 1) * CycleLength \in Int
  BY <1>1
<1> QED
  BY <1>2 DEF cycleDeadline

\* Add counts up for the members of S in cycle c and for nobody else.
LEMMA AddCounts ==
    ASSUME NEW f \in [Numbers -> [Members -> Nat]], NEW c \in Numbers, NEW S
    PROVE  /\ Add(f, c, S) \in [Numbers -> [Members -> Nat]]
           /\ \A d \in Numbers, u \in Members :
                 Add(f, c, S)[d][u] = IF d = c /\ u \in S THEN f[d][u] + 1 ELSE f[d][u]
BY DEF Add

\* To count nobody up changes nothing.
LEMMA AddNobody ==
    ASSUME NEW f \in [Numbers -> [Members -> Nat]], NEW c \in Numbers
    PROVE  Add(f, c, {}) = f
<1>1. [u \in Members |-> IF u \in {} THEN f[c][u] + 1 ELSE f[c][u]] = f[c]
  OBVIOUS
<1> QED
  BY <1>1 DEF Add

-----------------------------------------------------------------------------
(* The invariant holds initially and is kept by every transaction *)

\* A group that was just deployed, with an empty ledger.
LEMMA InitInv == Init => Inv
<1> SUFFICES ASSUME Init PROVE Inv
  OBVIOUS
<1>1. Types
  BY Counting DEF Init, Types, Payment
<1>2. Started
  BY DEF Init, Started
<1>3. Due
  BY DEF Init, Due
<1>4. LedgerAgrees
  BY DEF Init, LedgerAgrees
<1> QED
  BY <1>1, <1>2, <1>3, <1>4 DEF Inv

\* Authorisation and time touch neither the group nor the ledger.
LEMMA QuietInv ==
    ASSUME Inv, UNCHANGED <<group, ledger, inTime>>, now' \in Nat, now' >= now
    PROVE  Inv'
<1>1. Types' /\ Started'
  BY DEF Inv, Types, Started, group, ledger, Payment, Numbers, Cycles, TotalCycles
<1>2. Due'
  <2>1. \A c \in settled : cycleDeadline(c) \in Int /\ cycleDeadline(c)' = cycleDeadline(c)
    BY Counting, DeadlineType DEF Inv, Types, cycleDeadline, group
  <2> QED
    BY <2>1 DEF Inv, Types, Due, group
<1>3. LedgerAgrees'
  BY DEF Inv, LedgerAgrees, group, ledger
<1> QED
  BY <1>1, <1>2, <1>3 DEF Inv

\* activate: nothing was contributed or settled before it, so the deadlines may move.
LEMMA ActivateInv ==
    ASSUME Inv, NEW order \in [1 .. TotalCycles -> Members], activate(order)
    PROVE  Inv'
<1>1. Types'
  BY DEF Inv, Types, activate, ledger, Payment, Numbers, Cycles, TotalCycles
<1>2. Started'
  BY DEF Started, activate, TotalCycles
<1>3. settled = {} /\ settled' = {}
  BY DEF Inv, Started, activate
<1>4. Due'
  BY <1>3 DEF Inv, Due, activate
<1>5. LedgerAgrees'
  BY DEF Inv, LedgerAgrees, activate, ledger
<1> QED
  BY <1>1, <1>2, <1>4, <1>5 DEF Inv

\* contribute: one more event for a member who had none, in an open cycle.
LEMMA ContributeInv ==
    ASSUME Inv, NEW u \in Members, NEW c \in Numbers, contribute(u, c)
    PROVE  Inv'
<1> USE DEF Inv, contribute, Reveal, record
<1>1. /\ received' = received
      /\ missed' = missed
  <2>1. received[c] \o <<>> = received[c]
    BY ConcatEmptySeq DEF Types
  <2>2. received' = received
    BY <2>1 DEF Types
  <2>3. missed' = Add(missed, c, {}) /\ missed \in [Numbers -> [Members -> Nat]]
    BY DEF Types
  <2> QED
    BY <2>2, <2>3, AddNobody
<1>2. /\ made' \in [Numbers -> [Members -> Nat]]
      /\ \A d \in Numbers, m \in Members :
            made'[d][m] = IF d = c /\ m \in {u} THEN made[d][m] + 1 ELSE made[d][m]
  <2>1. made' = Add(made, c, {u}) /\ made \in [Numbers -> [Members -> Nat]]
    BY DEF Types
  <2> HIDE DEF Inv, contribute, Reveal, record
  <2> QED
    BY <2>1, AddCounts
<1>3. Types'
  BY <1>1, <1>2, ZenonT(60) DEF Types, Payment, Numbers, Cycles, TotalCycles
<1>4. Started'
  BY DEF Started, TotalCycles
<1>5. Due'
  BY DEF Due, Types, cycleDeadline
<1>6. LedgerAgrees'
  <2> SUFFICES ASSUME NEW d \in Numbers
               PROVE  /\ \A m \in Members :
                            /\ made'[d][m] = (IF m \in contributions'[d] THEN 1 ELSE 0)
                            /\ missed'[d][m] = (IF d \in settled' /\ m \notin contributions'[d] THEN 1 ELSE 0)
                      /\ IF d \in settled'
                           THEN /\ Len(received'[d]) = 1
                                /\ received'[d][1].amount = Cardinality(contributions'[d])
                           ELSE received'[d] = <<>>
    BY DEF LedgerAgrees
  <2>1. \A m \in Members : made'[d][m] = (IF m \in contributions'[d] THEN 1 ELSE 0)
    <3>1. \A m \in Members : m \in contributions'[d] <=> (m \in contributions[d] \/ (d = c /\ m = u))
      BY DEF Types
    <3>2. u \notin contributions[c]
      OBVIOUS
    <3>3. \A m \in Members : made[d][m] = (IF m \in contributions[d] THEN 1 ELSE 0)
      BY DEF LedgerAgrees
    <3> HIDE DEF Inv, contribute, Reveal, record
    <3> QED
      BY <1>2, <3>1, <3>2, <3>3
  <2>2. d \in settled => contributions'[d] = contributions[d]
    BY DEF Types
  <2>3. \A m \in Members : missed'[d][m] = (IF d \in settled' /\ m \notin contributions'[d] THEN 1 ELSE 0)
    BY <1>1, <2>2 DEF LedgerAgrees
  <2>4. IF d \in settled'
          THEN /\ Len(received'[d]) = 1
               /\ received'[d][1].amount = Cardinality(contributions'[d])
          ELSE received'[d] = <<>>
    BY <1>1, <2>2 DEF LedgerAgrees
  <2> QED
    BY <2>1, <2>3, <2>4
<1> QED
  BY <1>3, <1>4, <1>5, <1>6

\* settle: one missed event for everyone who has no contribution, and the first payout.
LEMMA SettleInv ==
    ASSUME Inv, NEW c \in Cycles, settle(c)
    PROVE  Inv'
<1> DEFINE M == Members \ contributions[c]
           pay == [payee |-> payoutOrder[c + 1], amount |-> Cardinality(contributions[c])]
<1>a. c \in Numbers /\ c + 1 \in 1 .. TotalCycles
  BY Counting DEF Cycles
<1>b. contributions[c] \in SUBSET Members
  BY <1>a DEF Inv, Types
<1>1. pay \in Payment
  <2>1. payoutOrder[c + 1] \in Members
    BY <1>a DEF Inv, Started, settle, PayOut
  <2>2. Cardinality(contributions[c]) \in Nat
    BY <1>b, Collected
  <2> QED
    BY <2>1, <2>2 DEF Payment
<1>2. made' = made
  <2>1. made' = Add(made, c, {})
    BY DEF settle, PayOut, record
  <2>2. made \in [Numbers -> [Members -> Nat]]
    BY DEF Inv, Types
  <2> QED
    BY <1>a, <2>1, <2>2, AddNobody
<1>3. /\ missed' \in [Numbers -> [Members -> Nat]]
      /\ \A d \in Numbers, m \in Members :
            missed'[d][m] = IF d = c /\ m \in M THEN missed[d][m] + 1 ELSE missed[d][m]
  <2>1. missed' = Add(missed, c, M)
    BY DEF settle, PayOut, record
  <2>2. missed \in [Numbers -> [Members -> Nat]]
    BY DEF Inv, Types
  <2> HIDE DEF M
  <2> QED
    BY <1>a, <2>1, <2>2, AddCounts
<1>4. received' = [received EXCEPT ![c] = <<pay>>]
  <2>1. received[c] = <<>>
    BY <1>a DEF Inv, LedgerAgrees, settle, PayOut
  <2>2. received' = [received EXCEPT ![c] = @ \o <<pay>>]
    BY DEF settle, PayOut, record
  <2>3. <<>> \o <<pay>> = <<pay>>
    BY ConcatEmptySeq, <1>1
  <2> QED
    BY <2>1, <2>2, <2>3
<1>5. Types'
  <2>1. received' \in [Numbers -> Seq(Payment)]
    <3>1. <<pay>> \in Seq(Payment)
      BY <1>1
    <3>2. received \in [Numbers -> Seq(Payment)]
      BY DEF Inv, Types
    <3> HIDE DEF pay
    <3> QED
      BY <1>4, <3>1, <3>2
  <2> QED
    BY <1>2, <1>3, <2>1 DEF Inv, Types, settle, PayOut, Payment, Numbers, Cycles, TotalCycles
<1>6. Started'
  BY DEF Inv, Started, settle, PayOut, TotalCycles
<1>7. Due'
  BY DEF Inv, Due, settle, PayOut, cycleDeadline
<1>8. LedgerAgrees'
  <2> SUFFICES ASSUME NEW d \in Numbers
               PROVE  /\ \A m \in Members :
                            /\ made'[d][m] = (IF m \in contributions'[d] THEN 1 ELSE 0)
                            /\ missed'[d][m] = (IF d \in settled' /\ m \notin contributions'[d] THEN 1 ELSE 0)
                      /\ IF d \in settled'
                           THEN /\ Len(received'[d]) = 1
                                /\ received'[d][1].amount = Cardinality(contributions'[d])
                           ELSE received'[d] = <<>>
    BY DEF LedgerAgrees
  <2>1. contributions' = contributions /\ settled' = settled \cup {c} /\ c \notin settled
    BY DEF settle, PayOut
  <2>2. \A m \in Members : made'[d][m] = (IF m \in contributions'[d] THEN 1 ELSE 0)
    BY <1>2, <2>1 DEF Inv, LedgerAgrees
  <2>3. \A m \in Members : missed'[d][m] = (IF d \in settled' /\ m \notin contributions'[d] THEN 1 ELSE 0)
    BY <1>3, <2>1 DEF Inv, LedgerAgrees
  <2>4. CASE d = c
    <3>1. received'[d] = <<pay>>
      BY <1>4, <2>4 DEF Inv, Types
    <3>2. Len(<<pay>>) = 1 /\ <<pay>>[1].amount = Cardinality(contributions[c])
      OBVIOUS
    <3> QED
      BY <2>1, <2>2, <2>3, <2>4, <3>1, <3>2
  <2>5. CASE d # c
    <3>1. received'[d] = received[d]
      BY <1>4, <2>5 DEF Inv, Types
    <3> QED
      BY <2>1, <2>2, <2>3, <2>5, <3>1 DEF Inv, LedgerAgrees
  <2> QED
    BY <2>4, <2>5
<1> QED
  BY <1>5, <1>6, <1>7, <1>8 DEF Inv

\* Every transaction keeps the invariant; a reverted one is no step.
LEMMA StepInv == Inv /\ [Next]_vars => Inv'
<1> SUFFICES ASSUME Inv, [Next]_vars PROVE Inv'
  OBVIOUS
<1>1. CASE \E allowed \in BOOLEAN : setAuthorized(allowed)
  BY <1>1, QuietInv DEF setAuthorized, Inv, Types
<1>2. CASE \E order \in [1 .. TotalCycles -> Members] : activate(order)
  BY <1>2, ActivateInv
<1>3. CASE \E u \in Members, c \in Numbers : contribute(u, c)
  BY <1>3, ContributeInv
<1>4. CASE \E c \in Cycles : settle(c)
  BY <1>4, SettleInv
<1>5. CASE Tick
  BY <1>5, QuietInv DEF Tick, Inv, Types
<1>6. CASE UNCHANGED vars
  BY <1>6, QuietInv DEF vars, Inv, Types
<1> QED
  BY <1>1, <1>2, <1>3, <1>4, <1>5, <1>6 DEF Next

\* The invariant holds in every state of the contract.
THEOREM Invariance == Spec => []Inv
BY InitInv, StepInv, PTL DEF Spec

-----------------------------------------------------------------------------
(* What follows *)

\* For any members and any order of authorisations, revocations, contributions and
\* settlements, the ledger tells the group's own story.
THEOREM LedgerIsFaithful == Spec => []LedgerAgrees
<1>1. Inv => LedgerAgrees
  BY DEF Inv
<1> QED
  BY <1>1, Invariance, PTL

\* Nobody who revealed in time is recorded as a defaulter, and nobody before the
\* deadline.
THEOREM DefaultsAreDue == Spec => []NobodyTooEarly
<1>1. Inv => NobodyTooEarly
  <2> SUFFICES ASSUME Inv, NEW c \in Cycles, Missed(c) # {}
               PROVE  Missed(c) \cap inTime[c] = {} /\ now >= cycleDeadline(c)
    BY DEF NobodyTooEarly
  <2>1. c \in Numbers
    BY Counting
  <2>2. \A u \in Missed(c) : c \in settled /\ u \notin contributions[c]
    BY <2>1 DEF Inv, LedgerAgrees, Missed
  <2> QED
    BY <2>1, <2>2 DEF Inv, Due
<1> QED
  BY <1>1, Invariance, PTL

-----------------------------------------------------------------------------
(* The refinement *)

\* The ledger's defaulters of a settled cycle are those who did not contribute, and
\* an open cycle has none.
LEMMA MissedIs ==
    ASSUME Inv, NEW c \in Numbers
    PROVE  Missed(c) = IF c \in settled THEN Members \ contributions[c] ELSE {}
BY DEF Inv, LedgerAgrees, Missed

\* Every transaction is a step of the abstract group or changes nothing in it.
LEMMA StepImplements == Inv /\ Inv' /\ [Next]_vars => [Books!Next]_(Books!vars)
<1> SUFFICES ASSUME Inv, Inv', [Next]_vars PROVE [Books!Next]_(Books!vars)
  OBVIOUS
<1> DEFINE paid == [c \in Cycles |-> contributions[c]]
           out == [c \in Cycles |-> Missed(c)]
<1>a. Cycles \subseteq Numbers
  BY Counting
<1>1. ASSUME UNCHANGED <<state, contributions, settled, missed>>
      PROVE  UNCHANGED Books!vars
  BY <1>1 DEF Books!vars, Missed
<1>2. CASE \E allowed \in BOOLEAN : setAuthorized(allowed)
  BY <1>1, <1>2 DEF setAuthorized, group, ledger
<1>3. CASE \E order \in [1 .. TotalCycles -> Members] : activate(order)
  <2>1. Books!Activate
    BY <1>3 DEF activate, Books!Activate, ledger, Missed
  <2> QED
    BY <2>1 DEF Books!Next
<1>4. CASE \E u \in Members, c \in Numbers : contribute(u, c)
  <2> PICK u \in Members, c \in Numbers : contribute(u, c)
    BY <1>4
  <2>1. /\ state = "ACTIVE" /\ c \notin settled /\ u \notin contributions[c]
        /\ contributions' = [contributions EXCEPT ![c] = @ \cup {u}]
        /\ UNCHANGED <<state, settled>>
    BY DEF contribute, Reveal
  <2>2. \A d \in Cycles : Missed(d)' = Missed(d)
    <3> TAKE d \in Cycles
    <3>1. Missed(d)' = IF d \in settled' THEN Members \ contributions'[d] ELSE {}
      BY <1>a DEF Inv, LedgerAgrees, Missed
    <3>2. d \in settled => contributions'[d] = contributions[d]
      BY <1>a, <2>1 DEF Inv, Types
    <3> QED
      BY <1>a, <2>1, <3>1, <3>2, MissedIs
  <2>3. out' = out
    BY <2>2
  <2>4. CASE c \in Cycles
    <3>1. paid' = [paid EXCEPT ![c] = @ \cup {u}]
      BY <1>a, <2>1, <2>4 DEF Inv, Types
    <3>2. Books!Contribute(u, c)
      BY <2>1, <2>3, <2>4, <3>1 DEF Books!Contribute
    <3> QED
      BY <2>4, <3>2 DEF Books!Next
  <2>5. CASE c \notin Cycles
    <3>1. paid' = paid
      BY <1>a, <2>1, <2>5 DEF Inv, Types
    <3> QED
      BY <2>1, <2>3, <3>1 DEF Books!vars
  <2> QED
    BY <2>4, <2>5
<1>5. CASE \E c \in Cycles : settle(c)
  <2> PICK c \in Cycles : settle(c)
    BY <1>5
  <2> DEFINE M == Members \ contributions[c]
  <2>1. /\ state = "ACTIVE" /\ c \notin settled
        /\ settled' = settled \cup {c}
        /\ state' = IF c + 1 = Len(payoutOrder) THEN "CLOSED" ELSE state
        /\ contributions' = contributions
    BY DEF settle, PayOut
  <2>2. Len(payoutOrder) = TotalCycles
    BY <2>1, Counting DEF Inv, Started
  <2>3. \A d \in Cycles : Missed(d)' = IF d = c THEN Missed(d) \cup M ELSE Missed(d)
    <3> TAKE d \in Cycles
    <3>1. Missed(d)' = IF d \in settled' THEN Members \ contributions'[d] ELSE {}
      BY <1>a DEF Inv, LedgerAgrees, Missed
    <3> QED
      BY <1>a, <2>1, <3>1, MissedIs
  <2>4. out' = [out EXCEPT ![c] = @ \cup M]
    BY <2>3
  <2>5. state' = state \/ (c = TotalCycles - 1 /\ state' = "CLOSED")
    BY <2>1, <2>2, Counting DEF Cycles
  <2>6. Books!Settle(c, M)
    BY <2>1, <2>4, <2>5 DEF Books!Settle
  <2> QED
    BY <2>6 DEF Books!Next
<1>6. CASE Tick
  BY <1>1, <1>6 DEF Tick, group, ledger
<1>7. CASE UNCHANGED vars
  BY <1>1, <1>7 DEF vars, group, ledger
<1> QED
  BY <1>2, <1>3, <1>4, <1>5, <1>6, <1>7 DEF Next

\* The contract implements the abstract savings group: what is paid and missed in a
\* settled cycle stays as it is, and a closed group stays closed.
THEOREM ContractImplementsRosca == Spec => ImplementsRosca
<1>1. Init => Books!Init
  BY Counting DEF Init, Books!Init, Missed
<1>2. Inv /\ Inv' /\ [Next]_vars => [Books!Next]_(Books!vars)
  BY StepImplements
<1> QED
  BY <1>1, <1>2, Invariance, PTL DEF Spec, ImplementsRosca, Books!Spec
=============================================================================
