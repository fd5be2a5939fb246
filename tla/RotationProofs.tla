--------------------------- MODULE RotationProofs ---------------------------
(***************************************************************************)
(* Theorems about Rotation, for every set of members, every number of      *)
(* requests and every number of failures and crashes.                      *)
(***************************************************************************)
EXTENDS Rotation, FiniteSetTheorems, TLAPS

-----------------------------------------------------------------------------
(* The constants *)

\* There are two cycles at least, and cycles are numbers.
LEMMA CyclesAreNaturals == TotalCycles \in Nat /\ TotalCycles >= 2 /\ Cycles \subseteq Nat
  BY MembersAssumption, FS_CardinalityType DEF TotalCycles, Cycles

\* A process at rest has locals of the right type.
LEMMA IdleIsLocals == Idle \in Locals
  BY CyclesAreNaturals, NoMemberAssumption DEF Idle, Locals, Labels, States, Cycles

-----------------------------------------------------------------------------
(* The counters *)

\* A counter that moves stays a counter.
LEMMA CountType ==
  ASSUME NEW f \in PerMember, NEW c \in Cycles, NEW u \in Members
  PROVE  Count(f, c, u) \in PerMember
  BY DEF Count, PerMember

\* Counters that move together stay counters.
LEMMA CountAllType ==
  ASSUME NEW f \in PerMember, NEW c \in Cycles, NEW S
  PROVE  CountAll(f, c, S) \in PerMember
  BY DEF CountAll, PerMember

-----------------------------------------------------------------------------
(* Type correctness *)

\* The initial state is well typed.
LEMMA TypeInit == Init => TypeOK
<1> SUFFICES ASSUME Init PROVE TypeOK
  OBVIOUS
<1>1. ProcOK
  BY IdleIsLocals DEF Init, ProcOK, Idle, ContributionLabels
<1>2. WorldOK
  BY DEF Init, WorldOK, States, PerMember, PerCycle
<1> QED
  BY <1>1, <1>2 DEF Init, TypeOK

\* A step that leaves the store, the provider and the chain alone keeps their types.
LEMMA WorldUnchanged == WorldOK /\ UNCHANGED world => WorldOK'
  BY DEF WorldOK, world, rows, escrow, rail, chain

\* What the calls do keeps every table well-formed.
LEMMA EffectType ==
  ASSUME TypeOK, NEW p \in Procs,
         \/ At(p, "charge") /\ ChargeEffect(p)
         \/ At(p, "reveal") /\ RevealEffect(p)
         \/ At(p, "saveContribution") /\ SaveContributionEffect(p)
         \/ At(p, "credit") /\ CreditEffect(p)
         \/ At(p, "disburse") /\ DisburseEffect(p)
         \/ At(p, "recordPayout") /\ RecordPayoutEffect(p)
         \/ At(p, "debit") /\ DebitEffect(p)
         \/ At(p, "savePayout") /\ SavePayoutEffect(p)
         \/ At(p, "saveCycle") /\ SaveCycleEffect(p)
         \/ At(p, "saveGroup") /\ SaveGroupEffect(p)
         \/ \E u \in Members : RecordDefaultEffect(p, u)
  PROVE  WorldOK'
<1> USE DEF rows, escrow, rail, chain
<1>0. /\ proc[p] \in Locals /\ proc[p].cycle \in Cycles /\ proc[p].g \in States
      /\ proc[p].pc \in ContributionLabels => proc[p].user \in Members
      /\ WorldOK
  BY DEF TypeOK, ProcOK, Locals
<1>1. CASE At(p, "charge") /\ ChargeEffect(p)
  BY <1>0, <1>1, CountType DEF ChargeEffect, WorldOK, At, ContributionLabels
<1>2. CASE At(p, "reveal") /\ RevealEffect(p)
  BY <1>0, <1>2, CountType DEF RevealEffect, WorldOK, At, ContributionLabels
<1>3. CASE At(p, "saveContribution") /\ SaveContributionEffect(p)
  BY <1>0, <1>3 DEF SaveContributionEffect, WorldOK, At, ContributionLabels
<1>4. CASE At(p, "credit") /\ CreditEffect(p)
  BY <1>0, <1>4, CountType DEF CreditEffect, WorldOK, At, ContributionLabels
<1>5. CASE At(p, "disburse") /\ DisburseEffect(p)
  <2>1. outflow' \in PerMember
    BY <1>0, <1>5, CountAllType DEF DisburseEffect, WorldOK
  <2> QED
    BY <1>0, <1>5, <2>1 DEF DisburseEffect, WorldOK, PerCycle
<1>6. CASE At(p, "recordPayout") /\ RecordPayoutEffect(p)
  BY <1>0, <1>6 DEF RecordPayoutEffect, WorldOK, PerCycle
<1>7. CASE At(p, "debit") /\ DebitEffect(p)
  BY <1>0, <1>7, CountAllType DEF DebitEffect, WorldOK
<1>8. CASE At(p, "savePayout") /\ SavePayoutEffect(p)
  BY <1>0, <1>8 DEF SavePayoutEffect, WorldOK, PerCycle
<1>9. CASE At(p, "saveCycle") /\ SaveCycleEffect(p)
  BY <1>0, <1>9 DEF SaveCycleEffect, WorldOK
<1>10. CASE At(p, "saveGroup") /\ SaveGroupEffect(p)
  <2>1. group' \in States
    BY <1>0, <1>10 DEF SaveGroupEffect, Transition, allowedTransitions, States
  <2> QED
    BY <1>0, <1>10, <2>1 DEF SaveGroupEffect, WorldOK
<1>11. CASE \E u \in Members : RecordDefaultEffect(p, u)
  BY <1>0, <1>11, CountType DEF RecordDefaultEffect, WorldOK
<1> QED
  BY <1>1, <1>2, <1>3, <1>4, <1>5, <1>6, <1>7, <1>8, <1>9, <1>10, <1>11

\* A step of one process that leaves it with well-formed locals.
LEMMA ProcUpdate ==
  ASSUME ProcOK, NEW p \in Procs, NEW r \in Locals,
         r.pc \in ContributionLabels => r.user \in Members,
         proc' = [proc EXCEPT ![p] = r]
  PROVE  ProcOK'
  BY DEF ProcOK

\* A handler that ends leaves its process well typed.
LEMMA ReturnType ==
  ASSUME ProcOK, NEW p \in Procs, Return(p)
  PROVE  ProcOK'
<1>1. Idle.pc \notin ContributionLabels
  BY DEF Idle, ContributionLabels
<1> QED
  BY <1>1, IdleIsLocals, ProcUpdate DEF Return

\* A handler that goes on leaves its process well typed.
LEMMA GotoType ==
  ASSUME ProcOK, NEW p \in Procs, NEW l \in Labels, Goto(p, l),
         l \in ContributionLabels => proc[p].pc \in ContributionLabels
  PROVE  ProcOK'
<1> DEFINE r == [proc[p] EXCEPT !.pc = l]
<1>1. proc[p] \in Locals /\ (proc[p].pc \in ContributionLabels => proc[p].user \in Members)
  BY DEF ProcOK
<1>2. r \in Locals /\ r.pc = l /\ r.user = proc[p].user
  BY <1>1 DEF Locals
<1>3. proc' = [proc EXCEPT ![p] = r]
  BY DEF Goto
<1> QED
  BY <1>1, <1>2, <1>3, ProcUpdate

\* So does a settlement that returns to its caller.
LEMMA SettleReturnType ==
  ASSUME ProcOK, NEW p \in Procs, SettleReturn(p)
  PROVE  ProcOK'
  BY ReturnType, GotoType DEF SettleReturn, Labels, ContributionLabels

\* The steps of SubmitContribution keep the types.
LEMMA TypeContribution ==
  ASSUME TypeOK, NEW p \in Procs, ContributionStep(p)
  PROVE  TypeOK'
<1> USE DEF TypeOK, At
<1>1. CASE Charge(p)
  BY <1>1, EffectType, GotoType DEF Charge, Labels, ContributionLabels
<1>2. CASE Reveal(p)
  BY <1>2, EffectType, GotoType DEF Reveal, Labels, ContributionLabels
<1>3. CASE SaveContribution(p)
  BY <1>3, EffectType, GotoType DEF SaveContribution, Labels, ContributionLabels
<1>4. CASE Credit(p)
  BY <1>4, EffectType, GotoType DEF Credit, Labels, ContributionLabels
<1>5. CASE allContributed(p)
  BY <1>5, WorldUnchanged, GotoType, ReturnType DEF allContributed, Labels, ContributionLabels
<1> QED
  BY <1>1, <1>2, <1>3, <1>4, <1>5 DEF ContributionStep

\* The steps of settleCycle keep the types.
LEMMA TypeSettle ==
  ASSUME TypeOK, NEW p \in Procs, SettleStep(p)
  PROVE  TypeOK'
<1> USE DEF TypeOK, At
<1>1. CASE List(p)
  <2> DEFINE r == [proc[p] EXCEPT !.pc = "disburse", !.contribs = contributed[proc[p].cycle]]
  <2>1. proc[p] \in Locals /\ contributed[proc[p].cycle] \in SUBSET Members
    BY DEF ProcOK, WorldOK, Locals
  <2>2. r \in Locals /\ r.pc \notin ContributionLabels
    BY <2>1 DEF Locals, Labels, ContributionLabels
  <2>3. proc' = [proc EXCEPT ![p] = r]
    BY <1>1 DEF List
  <2> QED
    BY <1>1, <2>2, <2>3, WorldUnchanged, ProcUpdate DEF List
<1>2. CASE Disburse(p)
  BY <1>2, EffectType, GotoType DEF Disburse, Labels, ContributionLabels
<1>3. CASE RecordPayout(p)
  BY <1>3, EffectType, GotoType DEF RecordPayout, Labels, ContributionLabels
<1>4. CASE Debit(p)
  BY <1>4, EffectType, GotoType DEF Debit, Labels, ContributionLabels
<1>5. CASE SavePayout(p)
  BY <1>5, EffectType, GotoType DEF SavePayout, Labels, ContributionLabels
<1>6. CASE SaveCycle(p)
  BY <1>6, EffectType, GotoType, SettleReturnType DEF SaveCycle, Labels, ContributionLabels
<1>7. CASE SaveGroup(p)
  BY <1>7, EffectType, SettleReturnType DEF SaveGroup
<1> QED
  BY <1>1, <1>2, <1>3, <1>4, <1>5, <1>6, <1>7 DEF SettleStep

\* A contribution starts well typed.
LEMMA TypeSubmit ==
  ASSUME TypeOK, NEW p \in Procs, NEW u \in Members, NEW c \in Cycles, SubmitContribution(p, u, c)
  PROVE  TypeOK'
<1> DEFINE r == [Idle EXCEPT !.pc = "charge", !.cycle = c, !.user = u, !.g = group]
<1>1. r \in Locals /\ r.user \in Members
  BY IdleIsLocals DEF Idle, Locals, Labels, TypeOK, WorldOK
<1>2. proc' = [proc EXCEPT ![p] = r]
  BY DEF SubmitContribution
<1>3. failures' \in Nat
  BY DEF SubmitContribution, Fail, TypeOK
<1> QED
  BY <1>1, <1>2, <1>3, ProcUpdate, WorldUnchanged DEF SubmitContribution, TypeOK

\* A settlement starts well typed.
LEMMA TypeSettleCycle ==
  ASSUME TypeOK, NEW p \in Procs, NEW c \in Cycles, SettleCycle(p, c)
  PROVE  TypeOK'
<1> DEFINE r == [Idle EXCEPT !.pc = "list", !.cycle = c, !.g = group]
<1>1. r \in Locals /\ r.pc \notin ContributionLabels
  BY IdleIsLocals DEF Idle, Locals, Labels, ContributionLabels, TypeOK, WorldOK
<1>2. proc' = [proc EXCEPT ![p] = r]
  BY DEF SettleCycle
<1> QED
  BY <1>1, <1>2, ProcUpdate, WorldUnchanged DEF SettleCycle, TypeOK

\* The steps of ProcessDeadlines keep the types.
LEMMA TypeDeadline ==
  ASSUME TypeOK, NEW p \in Procs, DeadlineStep(p)
  PROVE  TypeOK'
<1> USE DEF TypeOK
<1>0. proc[p] \in Locals /\ group \in States
  BY DEF ProcOK, WorldOK
<1>1. CASE ProcessDeadlines(p)
  <2> DEFINE r == [Idle EXCEPT !.pc = "current", !.g = group, !.now = clock]
  <2>1. r \in Locals /\ r.pc \notin ContributionLabels
    BY <1>0, IdleIsLocals DEF Idle, Locals, Labels, ContributionLabels
  <2>2. Return(p) \/ proc' = [proc EXCEPT ![p] = r]
    BY <1>1 DEF ProcessDeadlines
  <2> QED
    BY <1>1, <2>1, <2>2, ProcUpdate, ReturnType, WorldUnchanged DEF ProcessDeadlines
<1>2. CASE CurrentCycle(p)
  <2>1. CASE Return(p)
    BY <1>2, <2>1, ReturnType, WorldUnchanged DEF CurrentCycle
  <2>2. ASSUME NEW c \in Cycles, proc' = [proc EXCEPT ![p].pc = "unpaid", ![p].cycle = c]
        PROVE  TypeOK'
    <3> DEFINE r == [proc[p] EXCEPT !.pc = "unpaid", !.cycle = c]
    <3>1. r \in Locals /\ r.pc \notin ContributionLabels
      BY <1>0 DEF Locals, Labels, ContributionLabels
    <3>2. proc' = [proc EXCEPT ![p] = r]
      BY <2>2
    <3> QED
      BY <1>2, <3>1, <3>2, ProcUpdate, WorldUnchanged DEF CurrentCycle
  <2> QED
    BY <1>2, <2>1, <2>2 DEF CurrentCycle
<1>3. CASE ListUnpaid(p)
  <2> DEFINE S == Members \ contributed[proc[p].cycle]
             r == [proc[p] EXCEPT !.unpaid = S, !.pc = IF S = {} THEN "list" ELSE "default"]
  <2>1. r \in Locals /\ r.pc \notin ContributionLabels
    BY <1>0 DEF Locals, Labels, ContributionLabels
  <2>2. proc' = [proc EXCEPT ![p] = r]
    BY <1>3 DEF ListUnpaid
  <2> QED
    BY <1>3, <2>1, <2>2, ProcUpdate, WorldUnchanged DEF ListUnpaid
<1>4. CASE Reload(p)
  <2> DEFINE r == [Idle EXCEPT !.pc = "current", !.g = group, !.now = proc[p].now]
  <2>1. r \in Locals /\ r.pc \notin ContributionLabels
    BY <1>0, IdleIsLocals DEF Idle, Locals, Labels, ContributionLabels
  <2>2. Return(p) \/ proc' = [proc EXCEPT ![p] = r]
    BY <1>4 DEF Reload
  <2> QED
    BY <1>4, <2>1, <2>2, ProcUpdate, ReturnType, WorldUnchanged DEF Reload
<1>5. ASSUME NEW u \in Members, RecordDefault(p, u) PROVE TypeOK'
  <2> DEFINE S == proc[p].unpaid \ {u}
             r == [proc[p] EXCEPT !.unpaid = S, !.pc = IF S = {} THEN "list" ELSE "default"]
  <2>1. r \in Locals /\ r.pc \notin ContributionLabels
    BY <1>0 DEF Locals, Labels, ContributionLabels
  <2>2. proc' = [proc EXCEPT ![p] = r]
    BY <1>5 DEF RecordDefault
  <2>3. WorldOK'
    BY <1>5, EffectType DEF RecordDefault
  <2> QED
    BY <1>5, <2>1, <2>2, <2>3, ProcUpdate DEF RecordDefault
<1> QED
  BY <1>1, <1>2, <1>3, <1>4, <1>5 DEF DeadlineStep

\* A failed call keeps the types.
LEMMA TypeCallError ==
  ASSUME TypeOK, NEW p \in Procs, CallError(p)
  PROVE  TypeOK'
<1>1. ProcOK'
  BY ReturnType DEF CallError, TypeOK
<1>2. WorldOK'
  <2>1. proc[p].unpaid \subseteq Members
    BY DEF TypeOK, ProcOK, Locals
  <2> QED
    BY <2>1, EffectType, WorldUnchanged DEF CallError, Effect, TypeOK
<1> QED
  BY <1>1, <1>2 DEF CallError, Fail, TypeOK

\* A discarded error keeps the types.
LEMMA TypeEscrowError ==
  ASSUME TypeOK, NEW p \in Procs, EscrowError(p)
  PROVE  TypeOK'
<1>1. ProcOK'
  BY GotoType DEF EscrowError, TypeOK, Labels, ContributionLabels, At
<1> QED
  BY <1>1, WorldUnchanged DEF EscrowError, Fail, TypeOK

\* A crash keeps the types.
LEMMA TypeCrash ==
  ASSUME TypeOK, Crash
  PROVE  TypeOK'
<1>1. ProcOK'
  BY IdleIsLocals DEF Crash, ProcOK, Idle, ContributionLabels
<1> QED
  BY <1>1, WorldUnchanged DEF Crash, Fail, TypeOK

\* Every step keeps the types.
LEMMA TypeStep == TypeOK /\ [Next]_vars => TypeOK'
<1> SUFFICES ASSUME TypeOK, [Next]_vars PROVE TypeOK'
  OBVIOUS
<1>1. ASSUME NEW p \in Threads, ThreadStep(p) PROVE TypeOK'
  BY <1>1, TypeSubmit, TypeSettleCycle, TypeContribution, TypeSettle
     DEF ThreadStep, AdminSettleCycle, Procs
<1>2. CASE SchedulerStep
  BY <1>2, TypeDeadline, TypeSettle DEF SchedulerStep, Procs
<1>3. ASSUME NEW p \in Procs, CallError(p) \/ EscrowError(p) PROVE TypeOK'
  BY <1>3, TypeCallError, TypeEscrowError
<1>4. CASE Crash
  BY <1>4, TypeCrash
<1>5. CASE Tick
  BY <1>5, WorldUnchanged DEF Tick, TypeOK, ProcOK
<1>6. CASE UNCHANGED vars
  BY <1>6, WorldUnchanged DEF vars, TypeOK, ProcOK
<1> QED
  BY <1>1, <1>2, <1>3, <1>4, <1>5, <1>6 DEF Next

\* Every table and every handler keeps its shape, whatever overlaps or fails.
THEOREM TypeCorrect == Spec => []TypeOK
<1>1. Init => TypeOK
  BY TypeInit
<1>2. TypeOK /\ [Next]_vars => TypeOK'
  BY TypeStep
<1> QED
  BY <1>1, <1>2, PTL DEF Spec

-----------------------------------------------------------------------------
(* The steps of one process, by the call they make *)

Others(p) == \A q \in Procs \ {p} : proc'[q] = proc[q]

\* Process p leaves a call for one of the labels in to, or its handler ends.
Moves(p, from, to) ==
    /\ At(p, from) /\ Others(p)
    /\ \/ proc'[p] = Idle
       \/ \E l \in to : proc'[p] = [proc[p] EXCEPT !.pc = l]

\* A call that takes effect, whether it then returns an error or not.
CallKind(p) ==
    \/ Moves(p, "charge", {"reveal"}) /\ ChargeEffect(p)
    \/ Moves(p, "reveal", {"saveContribution"}) /\ RevealEffect(p)
    \/ Moves(p, "saveContribution", {"credit"}) /\ SaveContributionEffect(p)
    \/ Moves(p, "credit", {"allContributed"}) /\ CreditEffect(p)
    \/ Moves(p, "disburse", {"recordPayout"}) /\ DisburseEffect(p)
    \/ Moves(p, "recordPayout", {"debit"}) /\ RecordPayoutEffect(p)
    \/ Moves(p, "debit", {"savePayout"}) /\ DebitEffect(p)
    \/ Moves(p, "savePayout", {"saveCycle"}) /\ SavePayoutEffect(p)
    \/ /\ Moves(p, "saveCycle", IF proc[p].cycle = TotalCycles - 1 THEN {"saveGroup"} ELSE {"reload"})
       /\ SaveCycleEffect(p)
    \/ Moves(p, "saveGroup", {"reload"}) /\ SaveGroupEffect(p)

DefaultKind(p) ==
    /\ At(p, "default") /\ Others(p)
    /\ \E u \in proc[p].unpaid :
         /\ RecordDefaultEffect(p, u)
         /\ \/ proc'[p] = Idle
            \/ \E l \in {"default", "list"} :
                 proc'[p] = [proc[p] EXCEPT !.unpaid = proc[p].unpaid \ {u}, !.pc = l]

\* A step that only reads the store, or a call that fails without effect.
QuietKind(p) ==
    /\ UNCHANGED world /\ Others(p)
    /\ \/ proc'[p] = Idle
       \/ \E u \in Members, c \in Cycles : SubmitContribution(p, u, c)
       \/ \E c \in Cycles : SettleCycle(p, c)
       \/ At(p, "allContributed") /\ proc'[p] = [proc[p] EXCEPT !.pc = "list"]
       \/ At(p, "credit") /\ proc'[p] = [proc[p] EXCEPT !.pc = "allContributed"]
       \/ At(p, "debit") /\ proc'[p] = [proc[p] EXCEPT !.pc = "savePayout"]
       \/ List(p)
       \/ ProcessDeadlines(p) \/ CurrentCycle(p) \/ ListUnpaid(p) \/ Reload(p)

Kind(p) == CallKind(p) \/ DefaultKind(p) \/ QuietKind(p)

\* Going on to a label is a move to it.
LEMMA GotoMoves ==
  ASSUME TypeOK, NEW p \in Procs, NEW from, NEW l, At(p, from), Goto(p, l)
  PROVE  Moves(p, from, {l})
  BY DEF TypeOK, ProcOK, Goto, Moves, Others

\* The end of a handler is a move.
LEMMA ReturnMoves ==
  ASSUME TypeOK, NEW p \in Procs, NEW from, NEW to, At(p, from), Return(p)
  PROVE  Moves(p, from, to)
  BY DEF TypeOK, ProcOK, Return, Moves, Others

\* A handler that ends without a call is quiet.
LEMMA ReturnQuiet ==
  ASSUME TypeOK, NEW p \in Procs, Return(p), UNCHANGED world
  PROVE  QuietKind(p)
  BY DEF TypeOK, ProcOK, Return, QuietKind, Others

\* The steps of SubmitContribution, by the call they make.
LEMMA ContributionKind ==
  ASSUME TypeOK, NEW p \in Procs, ContributionStep(p)
  PROVE  Kind(p)
<1>1. CASE Charge(p)
  BY <1>1, GotoMoves DEF Charge, Kind, CallKind
<1>2. CASE Reveal(p)
  BY <1>2, GotoMoves DEF Reveal, Kind, CallKind
<1>3. CASE SaveContribution(p)
  BY <1>3, GotoMoves DEF SaveContribution, Kind, CallKind
<1>4. CASE Credit(p)
  BY <1>4, GotoMoves DEF Credit, Kind, CallKind
<1>5. CASE allContributed(p)
  <2>1. CASE Goto(p, "list")
    BY <1>5, <2>1 DEF allContributed, Kind, QuietKind, Goto, Others, TypeOK, ProcOK
  <2> QED
    BY <1>5, <2>1, ReturnQuiet DEF allContributed, Kind
<1> QED
  BY <1>1, <1>2, <1>3, <1>4, <1>5 DEF ContributionStep

\* The steps of settleCycle, by the call they make.
LEMMA SettleKind ==
  ASSUME TypeOK, NEW p \in Procs, SettleStep(p)
  PROVE  Kind(p)
<1>1. CASE List(p)
  BY <1>1 DEF List, Kind, QuietKind, Others, TypeOK, ProcOK
<1>2. CASE Disburse(p)
  BY <1>2, GotoMoves DEF Disburse, Kind, CallKind
<1>3. CASE RecordPayout(p)
  BY <1>3, GotoMoves DEF RecordPayout, Kind, CallKind
<1>4. CASE Debit(p)
  BY <1>4, GotoMoves DEF Debit, Kind, CallKind
<1>5. CASE SavePayout(p)
  BY <1>5, GotoMoves DEF SavePayout, Kind, CallKind
<1>6. CASE SaveCycle(p)
  BY <1>6, GotoMoves, ReturnMoves DEF SaveCycle, SettleReturn, Kind, CallKind
<1>7. CASE SaveGroup(p)
  BY <1>7, GotoMoves, ReturnMoves DEF SaveGroup, SettleReturn, Kind, CallKind
<1> QED
  BY <1>1, <1>2, <1>3, <1>4, <1>5, <1>6, <1>7 DEF SettleStep

\* The steps of ProcessDeadlines, by the call they make.
LEMMA DeadlineKind ==
  ASSUME TypeOK, NEW p \in Procs, DeadlineStep(p)
  PROVE  Kind(p)
<1> USE DEF TypeOK, ProcOK
<1>1. CASE ProcessDeadlines(p)
  BY <1>1 DEF ProcessDeadlines, Return, Kind, QuietKind, Others
<1>2. CASE CurrentCycle(p)
  BY <1>2 DEF CurrentCycle, Return, Kind, QuietKind, Others
<1>3. CASE ListUnpaid(p)
  BY <1>3 DEF ListUnpaid, Kind, QuietKind, Others
<1>4. CASE Reload(p)
  BY <1>4 DEF Reload, Return, Kind, QuietKind, Others
<1>5. ASSUME NEW u \in Members, RecordDefault(p, u) PROVE Kind(p)
  <2>1. PICK l \in {"default", "list"} :
          proc' = [proc EXCEPT ![p].unpaid = proc[p].unpaid \ {u}, ![p].pc = l]
    BY <1>5 DEF RecordDefault
  <2>2. Others(p) /\ proc'[p] = [proc[p] EXCEPT !.unpaid = proc[p].unpaid \ {u}, !.pc = l]
    BY <2>1 DEF Others
  <2> QED
    BY <1>5, <2>2 DEF RecordDefault, Kind, DefaultKind
<1> QED
  BY <1>1, <1>2, <1>3, <1>4, <1>5 DEF DeadlineStep

\* A failed call took effect or did not.
LEMMA ErrorKind ==
  ASSUME TypeOK, NEW p \in Procs, CallError(p) \/ EscrowError(p)
  PROVE  Kind(p)
<1>1. CASE CallError(p) /\ UNCHANGED world
  BY <1>1, ReturnQuiet DEF CallError, Kind
<1>2. CASE CallError(p) /\ Effect(p)
  <2>1. CASE At(p, "default")
    <3>1. PICK u \in proc[p].unpaid : RecordDefaultEffect(p, u)
      BY <1>2, <2>1 DEF Effect, At
    <3>2. Others(p) /\ proc'[p] = Idle
      BY <1>2 DEF CallError, Return, Others, TypeOK, ProcOK
    <3> QED
      BY <2>1, <3>1, <3>2 DEF Kind, DefaultKind
  <2>2. CASE ~ At(p, "default")
    <3> SUFFICES CallKind(p)
      BY DEF Kind
    <3> QED
      BY <1>2, <2>2, ReturnMoves DEF CallError, Effect, CallKind
  <2> QED
    BY <2>1, <2>2
<1>3. CASE EscrowError(p)
  BY <1>3 DEF EscrowError, Goto, Kind, QuietKind, Others, TypeOK, ProcOK
<1> QED
  BY <1>1, <1>2, <1>3 DEF CallError

\* Every step is a step of one process, a crash, or leaves all of them alone.
LEMMA NextKinds ==
  ASSUME TypeOK, [Next]_vars
  PROVE  \/ \E p \in Procs : Kind(p) /\ clock' = clock
         \/ UNCHANGED world /\ clock' = clock /\ proc' = [p \in Procs |-> Idle]
         \/ UNCHANGED <<world, proc>> /\ clock' >= clock
<1> DEFINE ByProc == \E p \in Procs : Kind(p) /\ clock' = clock
<1>1. ASSUME NEW p \in Threads, ThreadStep(p) PROVE ByProc
  <2>1. p \in Procs
    BY DEF Procs
  <2>2. CASE ContributionStep(p)
    BY <2>1, <2>2, ContributionKind
       DEF ContributionStep, Charge, Reveal, SaveContribution, Credit, allContributed
  <2>3. CASE SettleStep(p)
    BY <2>1, <2>3, SettleKind
       DEF SettleStep, List, Disburse, RecordPayout, Debit, SavePayout, SaveCycle, SaveGroup
  <2>4. ASSUME NEW c \in Cycles, SettleCycle(p, c) PROVE ByProc
    BY <2>1, <2>4 DEF SettleCycle, Kind, QuietKind, Others, TypeOK, ProcOK
  <2>5. ASSUME NEW c \in Cycles, NEW u \in Members, SubmitContribution(p, u, c) PROVE ByProc
    BY <2>1, <2>5 DEF SubmitContribution, Kind, QuietKind, Others, TypeOK, ProcOK
  <2> QED
    BY <1>1, <2>2, <2>3, <2>4, <2>5 DEF ThreadStep, AdminSettleCycle
<1>2. CASE SchedulerStep
  <2>1. Scheduler \in Procs
    BY DEF Procs
  <2>2. CASE DeadlineStep(Scheduler)
    BY <2>1, <2>2, DeadlineKind
       DEF DeadlineStep, ProcessDeadlines, CurrentCycle, ListUnpaid, Reload, RecordDefault
  <2>3. CASE SettleStep(Scheduler)
    BY <2>1, <2>3, SettleKind
       DEF SettleStep, List, Disburse, RecordPayout, Debit, SavePayout, SaveCycle, SaveGroup
  <2> QED
    BY <1>2, <2>2, <2>3 DEF SchedulerStep
<1>3. ASSUME NEW p \in Procs, CallError(p) \/ EscrowError(p) PROVE ByProc
  BY <1>3, ErrorKind DEF CallError, EscrowError
<1>4. CASE Crash
  BY <1>4 DEF Crash
<1>5. CASE Tick
  BY <1>5 DEF Tick, TypeOK
<1>6. CASE UNCHANGED vars
  BY <1>6 DEF vars, TypeOK
<1> QED
  BY <1>1, <1>2, <1>3, <1>4, <1>5, <1>6 DEF Next

-----------------------------------------------------------------------------
(* What is paid out was collected, and no default comes early *)

\* Deadlines are numbers.
LEMMA DeadlineType == \A c \in Cycles : Deadline(c) \in Nat
  BY CyclesAreNaturals, CycleLengthAssumption DEF Deadline

\* What a handler remembers still holds when it is used: contribution rows are
\* never deleted and time does not run backwards.
LocalsFollow ==
    \A p \in Procs :
        /\ proc[p].contribs \subseteq contributed[proc[p].cycle]
        /\ proc[p].pc = "current" => proc[p].contribs = {}
        /\ proc[p].now <= clock
        /\ proc[p].pc \in {"unpaid", "default"} => IsOverdue(proc[p].cycle, proc[p].now)

PaidOutInv == LocalsFollow /\ OnlyCollectedIsPaidOut /\ NoEarlyDefault

\* Initially nothing was paid out and no default recorded.
LEMMA PaidOutInit == Init => PaidOutInv
<1> SUFFICES ASSUME Init PROVE PaidOutInv
  OBVIOUS
<1>1. LocalsFollow
  BY CyclesAreNaturals DEF Init, LocalsFollow, Idle
<1>2. OnlyCollectedIsPaidOut /\ NoEarlyDefault
  BY DEF Init, OnlyCollectedIsPaidOut, NoEarlyDefault
<1> QED
  BY <1>1, <1>2 DEF PaidOutInv

\* Contribution rows are never removed.
LEMMA RowsGrow ==
  ASSUME TypeOK, NEW p \in Procs, Kind(p)
  PROVE  \A c \in Cycles : contributed[c] \subseteq contributed'[c]
<1> USE DEF rows, world
<1>1. CASE Moves(p, "saveContribution", {"credit"}) /\ SaveContributionEffect(p)
  BY <1>1 DEF SaveContributionEffect, TypeOK, WorldOK
<1> QED
  BY <1>1 DEF Kind, CallKind, DefaultKind, QuietKind, ChargeEffect, RevealEffect, CreditEffect,
     DisburseEffect, RecordPayoutEffect, DebitEffect, SavePayoutEffect, SaveCycleEffect,
     SaveGroupEffect, RecordDefaultEffect

\* LocalsFollow for one process, after the step.
FollowsNext(q) ==
    /\ proc'[q].contribs \subseteq contributed'[proc'[q].cycle]
    /\ proc'[q].pc = "current" => proc'[q].contribs = {}
    /\ proc'[q].now <= clock'
    /\ proc'[q].pc \in {"unpaid", "default"} => IsOverdue(proc'[q].cycle, proc'[q].now)

\* A step keeps the locals of every process behind the store.
LEMMA LocalsFollowStep ==
  ASSUME TypeOK, LocalsFollow, NEW p \in Procs, Kind(p), clock' = clock
  PROVE  LocalsFollow'
<1>0. /\ proc[p] \in Locals /\ proc[p].cycle \in Cycles /\ clock \in Nat
      /\ \A q \in Procs : proc[q].cycle \in Cycles
  BY DEF TypeOK, ProcOK, Locals
<1>1. ASSUME NEW q \in Procs \ {p} PROVE FollowsNext(q)
  <2>1. proc'[q] = proc[q]
    BY DEF Kind, CallKind, DefaultKind, QuietKind, Moves, Others
  <2> QED
    BY <1>0, <2>1, RowsGrow DEF LocalsFollow, FollowsNext
<1>2. FollowsNext(p)
  <2>1. CASE proc'[p] = Idle
    BY <1>0, <2>1 DEF Idle, FollowsNext
  <2>2. ASSUME NEW l \in Labels \ {"current", "unpaid", "default"},
               proc'[p] = [proc[p] EXCEPT !.pc = l]
        PROVE  FollowsNext(p)
    BY <1>0, <2>2, RowsGrow DEF LocalsFollow, FollowsNext, Locals
  <2>3. CASE CallKind(p)
    BY <2>1, <2>2, <2>3 DEF CallKind, Moves, Labels
  <2>4. CASE DefaultKind(p)
    <3>1. PICK u \in proc[p].unpaid, l \in {"default", "list"} :
            \/ proc'[p] = Idle
            \/ proc'[p] = [proc[p] EXCEPT !.unpaid = proc[p].unpaid \ {u}, !.pc = l]
      BY <2>4 DEF DefaultKind
    <3> QED
      BY <1>0, <2>1, <2>4, <3>1, RowsGrow DEF LocalsFollow, FollowsNext, Locals, DefaultKind, At
  <2>5. CASE QuietKind(p)
    <3>0. UNCHANGED <<contributed, group>> /\ proc \in [Procs -> Locals]
      BY <2>5 DEF QuietKind, world, rows, TypeOK, ProcOK
    <3>1. ASSUME NEW u \in Members, NEW c \in Cycles, SubmitContribution(p, u, c)
          PROVE  FollowsNext(p)
      BY <1>0, <3>0, <3>1 DEF SubmitContribution, FollowsNext, Idle
    <3>2. ASSUME NEW c \in Cycles, SettleCycle(p, c) PROVE FollowsNext(p)
      BY <1>0, <3>0, <3>2 DEF SettleCycle, FollowsNext, Idle
    <3>3. CASE List(p)
      BY <1>0, <3>0, <3>3 DEF List, FollowsNext, LocalsFollow, Locals
    <3>4. CASE ProcessDeadlines(p)
      <4>1. CASE Return(p)
        BY <2>1, <3>0, <4>1 DEF Return
      <4>2. CASE proc' = [proc EXCEPT ![p] = [Idle EXCEPT !.pc = "current", !.g = group, !.now = clock]]
        <5>1. /\ proc'[p].contribs = {} /\ proc'[p].now = clock
              /\ proc'[p].pc = "current"
          BY <3>0, <4>2 DEF Idle
        <5> QED
          BY <1>0, <5>1 DEF FollowsNext
      <4> QED
        BY <3>4, <4>1, <4>2 DEF ProcessDeadlines
    <3>5. CASE CurrentCycle(p)
      BY <1>0, <2>1, <3>0, <3>5 DEF CurrentCycle, Return, FollowsNext, LocalsFollow, At, Locals
    <3>6. CASE ListUnpaid(p)
      BY <1>0, <3>0, <3>6 DEF ListUnpaid, FollowsNext, LocalsFollow, At, Locals
    <3>7. CASE Reload(p)
      BY <1>0, <2>1, <3>0, <3>7, ZenonT(60) DEF Reload, Return, FollowsNext, LocalsFollow, Idle
    <3> QED
      BY <2>1, <2>2, <2>5, <3>1, <3>2, <3>3, <3>4, <3>5, <3>6, <3>7 DEF QuietKind, Labels
  <2> QED
    BY <2>3, <2>4, <2>5 DEF Kind
<1>3. \A q \in Procs : FollowsNext(q)
  BY <1>1, <1>2
<1> QED
  BY <1>3 DEF LocalsFollow, FollowsNext, IsOverdue, Deadline

\* Every step pays out only what was collected and records only late defaults.
LEMMA PaidOutStep == TypeOK /\ PaidOutInv /\ [Next]_vars => PaidOutInv'
<1> SUFFICES ASSUME TypeOK, PaidOutInv, [Next]_vars PROVE PaidOutInv'
  OBVIOUS
<1> USE DEF world, rows, escrow, rail, chain
<1>1. ASSUME NEW p \in Procs, Kind(p), clock' = clock PROVE PaidOutInv'
  <2>0. /\ proc[p].cycle \in Cycles /\ proc[p].contribs \subseteq contributed[proc[p].cycle]
        /\ proc[p].unpaid \subseteq Members
    BY DEF TypeOK, ProcOK, Locals, PaidOutInv, LocalsFollow
  <2>1. LocalsFollow'
    BY <1>1, LocalsFollowStep DEF PaidOutInv
  <2>2. OnlyCollectedIsPaidOut'
    <3>1. CASE DisburseEffect(p)
      BY <2>0, <3>1 DEF DisburseEffect, CountAll, PaidOutInv, OnlyCollectedIsPaidOut, TypeOK,
         WorldOK, PerMember, PerCycle
    <3>2. CASE UNCHANGED <<outflow, disbursed>>
      BY <1>1, <3>2, RowsGrow DEF PaidOutInv, OnlyCollectedIsPaidOut
    <3> QED
      BY <1>1, <3>1, <3>2 DEF Kind, CallKind, DefaultKind, QuietKind, ChargeEffect, RevealEffect,
         SaveContributionEffect, CreditEffect, RecordPayoutEffect, DebitEffect, SavePayoutEffect,
         SaveCycleEffect, SaveGroupEffect, RecordDefaultEffect
  <2>3. NoEarlyDefault'
    <3>1. CASE DefaultKind(p)
      <4>1. clock > Deadline(proc[p].cycle)
        BY <2>0, <3>1, DeadlineType DEF DefaultKind, At, PaidOutInv, LocalsFollow, IsOverdue,
           TypeOK, ProcOK, Locals
      <4>2. PICK u \in Members : missed' = Count(missed, proc[p].cycle, u)
        BY <2>0, <3>1 DEF DefaultKind, RecordDefaultEffect
      <4> QED
        BY <1>1, <2>0, <4>1, <4>2 DEF Count, PaidOutInv, NoEarlyDefault, TypeOK, WorldOK, PerMember, Deadline
    <3>2. CASE UNCHANGED missed
      BY <1>1, <3>2 DEF PaidOutInv, NoEarlyDefault, Deadline
    <3> QED
      BY <1>1, <3>1, <3>2 DEF Kind, CallKind, QuietKind, ChargeEffect, RevealEffect,
         SaveContributionEffect, CreditEffect, DisburseEffect, RecordPayoutEffect, DebitEffect,
         SavePayoutEffect, SaveCycleEffect, SaveGroupEffect
  <2> QED
    BY <2>1, <2>2, <2>3 DEF PaidOutInv
<1>2. CASE UNCHANGED world /\ clock' = clock /\ proc' = [p \in Procs |-> Idle]
  BY <1>2, CyclesAreNaturals DEF PaidOutInv, LocalsFollow, OnlyCollectedIsPaidOut, NoEarlyDefault,
     Idle, TypeOK, Deadline
<1>3. CASE UNCHANGED <<world, proc>> /\ clock' >= clock
  <2>1. clock' \in Nat /\ clock \in Nat
    BY TypeStep DEF TypeOK
  <2>2. LocalsFollow'
    BY <1>3, <2>1 DEF PaidOutInv, LocalsFollow, IsOverdue, Deadline, TypeOK, ProcOK, Locals
  <2>3. NoEarlyDefault'
    <3> SUFFICES ASSUME NEW c \in Cycles, NEW u \in Members, missed[c][u] > 0
                 PROVE  clock' > Deadline(c)
      BY <1>3 DEF NoEarlyDefault, Deadline
    <3>1. clock > Deadline(c) /\ Deadline(c) \in Nat
      BY DeadlineType DEF PaidOutInv, NoEarlyDefault
    <3> QED
      BY <1>3, <2>1, <3>1
  <2> QED
    BY <1>3, <2>2, <2>3 DEF PaidOutInv, OnlyCollectedIsPaidOut
<1> QED
  BY <1>1, <1>2, <1>3, NextKinds

\* Whatever overlaps, fails or crashes, settleCycle pays out only contributions
\* that have a row, none of them twice in one disbursement.
THEOREM PaidOutWasCollected == Spec => []OnlyCollectedIsPaidOut
<1>1. Init => PaidOutInv
  BY PaidOutInit
<1>2. TypeOK /\ PaidOutInv /\ [Next]_vars => PaidOutInv'
  BY PaidOutStep
<1>3. PaidOutInv => OnlyCollectedIsPaidOut
  BY DEF PaidOutInv
<1> QED
  BY <1>1, <1>2, <1>3, TypeCorrect, PTL DEF Spec

\* The scheduler records no default before the cycle's deadline, although a pass
\* works with the time at which it began.
THEOREM DefaultsAreLate == Spec => []NoEarlyDefault
<1>1. Init => PaidOutInv
  BY PaidOutInit
<1>2. TypeOK /\ PaidOutInv /\ [Next]_vars => PaidOutInv'
  BY PaidOutStep
<1>3. PaidOutInv => NoEarlyDefault
  BY DEF PaidOutInv
<1> QED
  BY <1>1, <1>2, <1>3, TypeCorrect, PTL DEF Spec

-----------------------------------------------------------------------------
(* The ladders: every record is backed by the one made before it *)

\* Requests that have made one record of a contribution or payout and not yet
\* the next: a record may exceed the next one by those in flight only.
Unrevealed(c, u) ==
    {p \in Procs : At(p, "reveal") /\ proc[p].cycle = c /\ proc[p].user = u}
Uncredited(c, u) ==
    {p \in Procs : /\ proc[p].pc \in {"saveContribution", "credit"}
                   /\ proc[p].cycle = c /\ proc[p].user = u}
Unrecorded(c) == {p \in Procs : At(p, "recordPayout") /\ proc[p].cycle = c}
Unsaved(c) == {p \in Procs : proc[p].pc \in {"debit", "savePayout"} /\ proc[p].cycle = c}
Undebited(c, u) ==
    {p \in Procs : /\ proc[p].pc \in {"recordPayout", "debit"}
                   /\ proc[p].cycle = c /\ u \in proc[p].contribs}

\* There are finitely many processes.
LEMMA ProcsFinite == IsFiniteSet(Procs)
  BY ProcsAssumption, FS_AddElement DEF Procs

\* A part of what is in flight is no more than the whole.
LEMMA CardStays ==
  ASSUME NEW S \in SUBSET Procs, NEW T \in SUBSET S
  PROVE  Cardinality(S) \in Nat /\ Cardinality(T) \in Nat /\ Cardinality(T) <= Cardinality(S)
  BY ProcsFinite, FS_Subset, FS_CardinalityType

\* A process that comes to count adds one.
LEMMA CardJoins ==
  ASSUME NEW S \in SUBSET Procs, NEW p \in Procs, NEW T \in SUBSET (S \cup {p})
  PROVE  Cardinality(S) \in Nat /\ Cardinality(T) \in Nat /\ Cardinality(T) <= Cardinality(S) + 1
<1>1. IsFiniteSet(S) /\ IsFiniteSet(S \cup {p}) /\ S \cup {p} \in SUBSET Procs
  BY ProcsFinite, FS_Subset, FS_AddElement
<1>2. Cardinality(S \cup {p}) <= Cardinality(S) + 1 /\ Cardinality(S) \in Nat
  BY <1>1, FS_AddElement, FS_CardinalityType
<1>3. Cardinality(T) <= Cardinality(S \cup {p}) /\ Cardinality(T) \in Nat /\ Cardinality(S \cup {p}) \in Nat
  BY <1>1, CardStays
<1> QED
  BY <1>2, <1>3

\* A process that ceases to count takes one away.
LEMMA CardLeaves ==
  ASSUME NEW S \in SUBSET Procs, NEW p \in S, NEW T \in SUBSET (S \ {p})
  PROVE  Cardinality(S) \in Nat /\ Cardinality(T) \in Nat /\ Cardinality(T) + 1 <= Cardinality(S)
<1>1. IsFiniteSet(S) /\ S \ {p} \in SUBSET Procs
  BY ProcsFinite, FS_Subset
<1>2. Cardinality(S \ {p}) = Cardinality(S) - 1 /\ Cardinality(S) \in Nat
  BY <1>1, FS_RemoveElement, FS_CardinalityType
<1>3. Cardinality(T) <= Cardinality(S \ {p}) /\ Cardinality(T) \in Nat
  BY <1>1, CardStays
<1> QED
  BY <1>2, <1>3

\* What counts a process is not empty.
LEMMA CardPositive ==
  ASSUME NEW S \in SUBSET Procs, NEW p \in S
  PROVE  Cardinality(S) >= 1
<1> DEFINE T == S \ {p}
<1>1. T \in SUBSET (S \ {p})
  OBVIOUS
<1> HIDE DEF T
<1>2. Cardinality(S) \in Nat /\ Cardinality(T) \in Nat /\ Cardinality(T) + 1 <= Cardinality(S)
  BY <1>1, CardLeaves
<1> QED
  BY <1>2

\* A move keeps the handler's locals, unless the handler ends.
LEMMA MovesFields ==
  ASSUME TypeOK, NEW p \in Procs, NEW from, NEW to, Moves(p, from, to)
  PROVE  /\ Others(p) /\ At(p, from)
         /\ \/ proc'[p].pc = "idle"
            \/ /\ proc'[p].pc \in to
               /\ proc'[p].cycle = proc[p].cycle /\ proc'[p].user = proc[p].user
               /\ proc'[p].contribs = proc[p].contribs
<1>1. proc[p] \in Locals
  BY DEF TypeOK, ProcOK
<1>2. ASSUME NEW l \in to, proc'[p] = [proc[p] EXCEPT !.pc = l]
      PROVE  /\ proc'[p].pc \in to
             /\ proc'[p].cycle = proc[p].cycle /\ proc'[p].user = proc[p].user
             /\ proc'[p].contribs = proc[p].contribs
  BY <1>1, <1>2 DEF Locals
<1>3. CASE proc'[p] = Idle
  BY <1>3 DEF Moves, Idle
<1> QED
  BY <1>2, <1>3 DEF Moves

\* A process reaches the calls that count as in flight only from the call before.
LEMMA Arrivals ==
  ASSUME TypeOK, NEW p \in Procs, Kind(p)
  PROVE  /\ Others(p)
         /\ proc'[p].pc = "reveal" =>
              /\ At(p, "charge") /\ ChargeEffect(p)
              /\ proc'[p].cycle = proc[p].cycle /\ proc'[p].user = proc[p].user
         /\ proc'[p].pc = "saveContribution" =>
              /\ At(p, "reveal") /\ RevealEffect(p)
              /\ proc'[p].cycle = proc[p].cycle /\ proc'[p].user = proc[p].user
         /\ proc'[p].pc = "credit" =>
              /\ At(p, "saveContribution")
              /\ proc'[p].cycle = proc[p].cycle /\ proc'[p].user = proc[p].user
         /\ proc'[p].pc = "recordPayout" =>
              /\ At(p, "disburse") /\ DisburseEffect(p)
              /\ proc'[p].cycle = proc[p].cycle /\ proc'[p].contribs = proc[p].contribs
         /\ proc'[p].pc = "debit" =>
              /\ At(p, "recordPayout") /\ RecordPayoutEffect(p)
              /\ proc'[p].cycle = proc[p].cycle /\ proc'[p].contribs = proc[p].contribs
         /\ proc'[p].pc = "savePayout" =>
              At(p, "debit") /\ proc'[p].cycle = proc[p].cycle
         /\ proc'[p].pc = "saveCycle" =>
              /\ At(p, "savePayout") /\ SavePayoutEffect(p)
              /\ proc'[p].cycle = proc[p].cycle
         /\ proc'[p].pc = "saveGroup" =>
              /\ At(p, "saveCycle") /\ SaveCycleEffect(p)
              /\ proc'[p].cycle = proc[p].cycle /\ proc[p].cycle = TotalCycles - 1
<1>0. proc \in [Procs -> Locals]
  BY DEF TypeOK, ProcOK
<1>1. CASE CallKind(p)
  BY <1>1, MovesFields DEF CallKind
<1>2. CASE DefaultKind(p)
  <2>1. Others(p) /\ proc[p] \in Locals
    BY <1>0, <1>2 DEF DefaultKind
  <2>2. CASE proc'[p] = Idle
    BY <2>1, <2>2 DEF Idle
  <2>3. ASSUME NEW u, NEW l \in {"default", "list"},
               proc'[p] = [proc[p] EXCEPT !.unpaid = proc[p].unpaid \ {u}, !.pc = l]
        PROVE  proc'[p].pc \in {"default", "list"}
    BY <2>1, <2>3 DEF Locals
  <2> QED
    BY <1>2, <2>1, <2>2, <2>3 DEF DefaultKind
<1>3. CASE QuietKind(p)
  <2>1. Others(p)
    BY <1>3 DEF QuietKind
  <2>2. CASE proc'[p] = Idle
    BY <2>1, <2>2 DEF Idle
  <2>3. ASSUME NEW u \in Members, NEW c \in Cycles, SubmitContribution(p, u, c)
        PROVE  proc'[p].pc = "charge"
    BY <1>0, <2>3 DEF SubmitContribution, Idle
  <2>4. ASSUME NEW c \in Cycles, SettleCycle(p, c) PROVE proc'[p].pc = "list"
    BY <1>0, <2>4 DEF SettleCycle, Idle
  <2>5. CASE List(p)
    BY <1>0, <2>1, <2>5 DEF List, Locals
  <2>6. CASE ProcessDeadlines(p) \/ Reload(p)
    <3>1. ASSUME NEW n, proc' = [proc EXCEPT ![p] = [Idle EXCEPT !.pc = "current", !.g = group, !.now = n]]
          PROVE  proc'[p].pc = "current"
      BY <1>0, <3>1 DEF Idle
    <3>2. ASSUME Return(p) PROVE proc'[p].pc = "idle"
      BY <1>0, <3>2 DEF Return, Idle
    <3>3. proc'[p].pc \in {"current", "idle"}
      BY <2>6, <3>1, <3>2 DEF ProcessDeadlines, Reload
    <3> QED
      BY <2>1, <3>3
  <2>7. CASE CurrentCycle(p)
    BY <1>0, <2>1, <2>7 DEF CurrentCycle, Return, Idle, Locals
  <2>8. CASE ListUnpaid(p)
    BY <1>0, <2>1, <2>8 DEF ListUnpaid, Locals
  <2>9. CASE \/ At(p, "allContributed") /\ proc'[p] = [proc[p] EXCEPT !.pc = "list"]
             \/ At(p, "credit") /\ proc'[p] = [proc[p] EXCEPT !.pc = "allContributed"]
             \/ At(p, "debit") /\ proc'[p] = [proc[p] EXCEPT !.pc = "savePayout"]
    BY <1>0, <2>1, <2>9 DEF Locals
  <2> QED
    BY <1>3, <2>1, <2>2, <2>3, <2>4, <2>5, <2>6, <2>7, <2>8, <2>9 DEF QuietKind
<1> QED
  BY <1>1, <1>2, <1>3 DEF Kind

ContributionInv ==
    \A c \in Cycles, u \in Members :
        /\ made[c][u] + Cardinality(Unrevealed(c, u)) <= charged[c][u]
        /\ credits[c][u] + Cardinality(Uncredited(c, u)) <= made[c][u]
        /\ u \in contributed[c] => made[c][u] >= 1

\* What is in flight is a set of processes.
LEMMA InFlightTypes ==
  \A c, u : /\ Unrevealed(c, u) \in SUBSET Procs /\ Uncredited(c, u) \in SUBSET Procs
            /\ Unrecorded(c) \in SUBSET Procs /\ Unsaved(c) \in SUBSET Procs
            /\ Undebited(c, u) \in SUBSET Procs
  BY DEF Unrevealed, Uncredited, Unrecorded, Unsaved, Undebited

\* Every counter is a number.
LEMMA CounterTypes ==
  ASSUME TypeOK, NEW c \in Cycles, NEW u \in Members
  PROVE  /\ charged[c][u] \in Nat /\ made[c][u] \in Nat /\ credits[c][u] \in Nat
         /\ debits[c][u] \in Nat /\ outflow[c][u] \in Nat
         /\ payouts[c] \in Nat /\ received[c] \in Nat /\ disbursed[c] \in Nat
  BY DEF TypeOK, WorldOK, PerMember, PerCycle

\* Charges, reveals and credits move only by the calls named after them.
LEMMA ContributionFrame ==
  ASSUME NEW p \in Procs, Kind(p)
  PROVE  \/ At(p, "charge") /\ ChargeEffect(p)
         \/ At(p, "reveal") /\ RevealEffect(p)
         \/ At(p, "saveContribution") /\ SaveContributionEffect(p)
         \/ At(p, "credit") /\ CreditEffect(p)
         \/ UNCHANGED <<charged, made, credits, contributed>>
  BY DEF Kind, CallKind, DefaultKind, QuietKind, Moves, DisburseEffect, RecordPayoutEffect,
     DebitEffect, SavePayoutEffect, SaveCycleEffect, SaveGroupEffect, RecordDefaultEffect,
     world, rows, escrow, rail, chain

\* A step keeps the account of one member's contribution to one cycle.
LEMMA ContributionStepInv ==
  ASSUME TypeOK, ContributionInv, NEW p \in Procs, Kind(p)
  PROVE  ContributionInv'
<1> USE DEF rows, escrow, rail, chain, At
<1> SUFFICES ASSUME NEW c \in Cycles, NEW u \in Members
             PROVE  /\ made'[c][u] + Cardinality(Unrevealed(c, u)') <= charged'[c][u]
                    /\ credits'[c][u] + Cardinality(Uncredited(c, u)') <= made'[c][u]
                    /\ u \in contributed'[c] => made'[c][u] >= 1
  BY DEF ContributionInv, Unrevealed, Uncredited
<1> DEFINE R == Unrevealed(c, u)
           S == Uncredited(c, u)
           Mine == proc[p].cycle = c /\ proc[p].user = u
<1>0. /\ R \in SUBSET Procs /\ S \in SUBSET Procs
      /\ Cardinality(R) \in Nat /\ Cardinality(S) \in Nat
      /\ charged[c][u] \in Nat /\ made[c][u] \in Nat /\ credits[c][u] \in Nat
      /\ made[c][u] + Cardinality(R) <= charged[c][u]
      /\ credits[c][u] + Cardinality(S) <= made[c][u]
      /\ u \in contributed[c] => made[c][u] >= 1
      /\ proc[p].cycle \in Cycles
      /\ charged \in PerMember /\ made \in PerMember /\ credits \in PerMember
      /\ contributed \in [Cycles -> SUBSET Members]
  <2>1. R \in SUBSET Procs /\ S \in SUBSET Procs
    BY InFlightTypes
  <2>2. Cardinality(R) \in Nat /\ Cardinality(S) \in Nat
    BY <2>1, CardStays
  <2> QED
    BY <2>1, <2>2, CounterTypes DEF ContributionInv, TypeOK, ProcOK, Locals, WorldOK
<1>1. R' \in SUBSET (R \cup (IF At(p, "charge") /\ ChargeEffect(p) /\ Mine THEN {p} ELSE {}))
  BY Arrivals DEF Others, Unrevealed
<1>2. S' \in SUBSET (S \cup (IF At(p, "reveal") /\ RevealEffect(p) /\ Mine THEN {p} ELSE {}))
  BY Arrivals DEF Others, Uncredited
<1> HIDE DEF R, S
<1>3. CASE At(p, "charge") /\ ChargeEffect(p)
  <2>1. Cardinality(S') <= Cardinality(S) /\ Cardinality(S') \in Nat
    BY <1>0, <1>2, <1>3, CardStays
  <2>2. made'[c][u] = made[c][u] /\ credits' = credits /\ contributed' = contributed
    BY <1>3 DEF ChargeEffect
  <2>3. CASE Mine
    <3>1. Cardinality(R') <= Cardinality(R) + 1 /\ Cardinality(R') \in Nat
      BY <1>0, <1>1, <1>3, <2>3, CardJoins
    <3>2. charged'[c][u] = charged[c][u] + 1
      BY <1>0, <1>3, <2>3 DEF ChargeEffect, Count, PerMember
    <3> QED
      BY <1>0, <2>1, <2>2, <3>1, <3>2 DEF R, S
  <2>4. CASE ~ Mine
    <3>1. Cardinality(R') <= Cardinality(R) /\ Cardinality(R') \in Nat
      BY <1>0, <1>1, <2>4, CardStays
    <3>2. charged'[c][u] = charged[c][u]
      BY <1>0, <1>3, <2>4 DEF ChargeEffect, Count, PerMember
    <3> QED
      BY <1>0, <2>1, <2>2, <3>1, <3>2 DEF R, S
  <2> QED
    BY <2>3, <2>4
<1>4. CASE At(p, "reveal") /\ RevealEffect(p)
  <2>1. charged' = charged /\ credits' = credits /\ contributed' = contributed
    BY <1>4 DEF RevealEffect
  <2>2. CASE Mine
    <3>1. p \in R /\ R' \in SUBSET (R \ {p})
      BY <1>1, <1>4, <2>2, Arrivals DEF R, Unrevealed
    <3>2. Cardinality(R') + 1 <= Cardinality(R) /\ Cardinality(R') \in Nat
      BY <1>0, <3>1, CardLeaves
    <3>3. Cardinality(S') <= Cardinality(S) + 1 /\ Cardinality(S') \in Nat
      BY <1>0, <1>2, <1>4, <2>2, CardJoins
    <3>4. made'[c][u] = made[c][u] + 1
      BY <1>0, <1>4, <2>2 DEF RevealEffect, Count, PerMember
    <3> QED
      BY <1>0, <2>1, <3>2, <3>3, <3>4 DEF R, S
  <2>3. CASE ~ Mine
    <3>1. Cardinality(R') <= Cardinality(R) /\ Cardinality(R') \in Nat
      BY <1>0, <1>1, <2>3, CardStays
    <3>2. Cardinality(S') <= Cardinality(S) /\ Cardinality(S') \in Nat
      BY <1>0, <1>2, <2>3, CardStays
    <3>3. made'[c][u] = made[c][u]
      BY <1>0, <1>4, <2>3 DEF RevealEffect, Count, PerMember
    <3> QED
      BY <1>0, <2>1, <3>1, <3>2, <3>3 DEF R, S
  <2> QED
    BY <2>2, <2>3
<1>5. CASE ~ (At(p, "charge") /\ ChargeEffect(p)) /\ ~ (At(p, "reveal") /\ RevealEffect(p))
  <2>1. /\ Cardinality(R') <= Cardinality(R) /\ Cardinality(R') \in Nat
        /\ Cardinality(S') <= Cardinality(S) /\ Cardinality(S') \in Nat
    BY <1>0, <1>1, <1>2, <1>5, CardStays
  <2>2. CASE UNCHANGED <<charged, made, credits, contributed>>
    BY <1>0, <2>1, <2>2 DEF R, S
  <2>3. CASE At(p, "saveContribution") /\ SaveContributionEffect(p)
    <3>1. UNCHANGED <<charged, made, credits>>
      BY <2>3 DEF SaveContributionEffect
    <3>2. u \in contributed'[c] => u \in contributed[c] \/ Mine
      BY <1>0, <2>3 DEF SaveContributionEffect
    <3>3. Mine => p \in S
      BY <2>3 DEF S, Uncredited
    <3>4. p \in S => Cardinality(S) >= 1
      BY <1>0, CardPositive
    <3> QED
      BY <1>0, <2>1, <3>1, <3>2, <3>3, <3>4 DEF R, S
  <2>4. CASE At(p, "credit") /\ CreditEffect(p)
    <3>1. UNCHANGED <<charged, made, contributed>>
      BY <2>4 DEF CreditEffect
    <3>2. CASE Mine
      <4>1. p \in S /\ S' \in SUBSET (S \ {p})
        BY <1>2, <1>5, <2>4, <3>2, Arrivals DEF S, Uncredited
      <4>2. Cardinality(S') + 1 <= Cardinality(S)
        BY <1>0, <4>1, CardLeaves
      <4>3. credits'[c][u] = credits[c][u] + 1
        BY <1>0, <2>4, <3>2 DEF CreditEffect, Count, PerMember
      <4> QED
        BY <1>0, <2>1, <3>1, <4>2, <4>3 DEF R, S
    <3>3. CASE ~ Mine
      <4>1. credits'[c][u] = credits[c][u]
        BY <1>0, <2>4, <3>3 DEF CreditEffect, Count, PerMember
      <4> QED
        BY <1>0, <2>1, <3>1, <4>1 DEF R, S
    <3> QED
      BY <3>2, <3>3
  <2> QED
    BY <1>5, <2>2, <2>3, <2>4, ContributionFrame
<1> QED
  BY <1>3, <1>4, <1>5

\* For the crash: nothing is in flight.
LEMMA NothingInFlight ==
  ASSUME proc' = [p \in Procs |-> Idle]
  PROVE  \A c, u : /\ Unrevealed(c, u)' = {} /\ Uncredited(c, u)' = {}
                   /\ Unrecorded(c)' = {} /\ Unsaved(c)' = {} /\ Undebited(c, u)' = {}
  BY DEF Unrevealed, Uncredited, Unrecorded, Unsaved, Undebited, Idle, At

\* Every step keeps the account of contributions.
LEMMA ContributionInvStep == TypeOK /\ ContributionInv /\ [Next]_vars => ContributionInv'
<1> SUFFICES ASSUME TypeOK, ContributionInv, [Next]_vars PROVE ContributionInv'
  OBVIOUS
<1> USE DEF world, rows, escrow, rail, chain
<1>1. CASE UNCHANGED world /\ proc' = [p \in Procs |-> Idle]
  <2> SUFFICES ASSUME NEW c \in Cycles, NEW u \in Members
               PROVE  /\ made[c][u] + Cardinality({}) <= charged[c][u]
                      /\ credits[c][u] + Cardinality({}) <= made[c][u]
                      /\ u \in contributed[c] => made[c][u] >= 1
    BY <1>1, NothingInFlight DEF ContributionInv
  <2>1. /\ charged[c][u] \in Nat /\ made[c][u] \in Nat /\ credits[c][u] \in Nat
        /\ Cardinality(Unrevealed(c, u)) \in Nat /\ Cardinality(Uncredited(c, u)) \in Nat
    BY CounterTypes, InFlightTypes, CardStays
  <2> QED
    BY <2>1, FS_EmptySet DEF ContributionInv
<1>2. CASE UNCHANGED <<world, proc>>
  BY <1>2 DEF ContributionInv, Unrevealed, Uncredited, At
<1> QED
  BY <1>1, <1>2, NextKinds, ContributionStepInv

\* Initially the account of contributions is empty.
LEMMA ContributionInvInit == Init => ContributionInv
<1> SUFFICES ASSUME Init, NEW c \in Cycles, NEW u \in Members
             PROVE  /\ made[c][u] + Cardinality(Unrevealed(c, u)) <= charged[c][u]
                    /\ credits[c][u] + Cardinality(Uncredited(c, u)) <= made[c][u]
                    /\ u \in contributed[c] => made[c][u] >= 1
  BY DEF ContributionInv
<1>1. Unrevealed(c, u) = {} /\ Uncredited(c, u) = {}
  BY DEF Init, Unrevealed, Uncredited, Idle, At
<1> QED
  BY <1>1, FS_EmptySet DEF Init

\* Whatever overlaps, fails or crashes, every escrow credit is backed by a reveal
\* on the chain, every reveal by a charge and every contribution row by both.
THEOREM ContributionsAreBacked == Spec => []ContributionLadder
<1>1. Init => ContributionInv
  BY ContributionInvInit
<1>2. TypeOK /\ ContributionInv /\ [Next]_vars => ContributionInv'
  BY ContributionInvStep
<1>3. TypeOK /\ ContributionInv => ContributionLadder
  <2> SUFFICES ASSUME TypeOK, ContributionInv, NEW c \in Cycles, NEW u \in Members
               PROVE  /\ credits[c][u] <= made[c][u]
                      /\ made[c][u] <= charged[c][u]
                      /\ u \in contributed[c] => made[c][u] >= 1
    BY DEF ContributionLadder
  <2>1. /\ charged[c][u] \in Nat /\ made[c][u] \in Nat /\ credits[c][u] \in Nat
        /\ Cardinality(Unrevealed(c, u)) \in Nat /\ Cardinality(Uncredited(c, u)) \in Nat
    BY CounterTypes, InFlightTypes, CardStays
  <2> QED
    BY <2>1 DEF ContributionInv
<1> QED
  BY <1>1, <1>2, <1>3, TypeCorrect, PTL DEF Spec

-----------------------------------------------------------------------------
(* The payout's ladder *)

PayoutInv ==
    \A c \in Cycles :
        /\ received[c] + Cardinality(Unrecorded(c)) <= disbursed[c]
        /\ payouts[c] + Cardinality(Unsaved(c)) <= received[c]

DebitInv ==
    \A c \in Cycles, u \in Members :
        debits[c][u] + Cardinality(Undebited(c, u)) <= outflow[c][u]

SettledInv ==
    /\ \A c \in settled : payouts[c] >= 1
    /\ \A p \in Procs :
        /\ At(p, "saveCycle") => payouts[proc[p].cycle] >= 1
        /\ At(p, "saveGroup") => proc[p].cycle = TotalCycles - 1 /\ proc[p].cycle \in settled
    /\ group = "CLOSED" => TotalCycles - 1 \in settled

\* Disbursements, events and payout rows move only by the calls named after them.
LEMMA PayoutFrame ==
  ASSUME NEW p \in Procs, Kind(p)
  PROVE  \/ At(p, "disburse") /\ DisburseEffect(p)
         \/ At(p, "recordPayout") /\ RecordPayoutEffect(p)
         \/ At(p, "debit") /\ DebitEffect(p)
         \/ At(p, "savePayout") /\ SavePayoutEffect(p)
         \/ UNCHANGED <<disbursed, outflow, received, debits, payouts>>
  BY DEF Kind, CallKind, DefaultKind, QuietKind, Moves, ChargeEffect, RevealEffect,
     SaveContributionEffect, CreditEffect, SaveCycleEffect, SaveGroupEffect, RecordDefaultEffect,
     world, rows, escrow, rail, chain

\* A step keeps the account of one cycle's payouts.
LEMMA PayoutStepInv ==
  ASSUME TypeOK, PayoutInv, NEW p \in Procs, Kind(p)
  PROVE  PayoutInv'
<1> USE DEF rows, escrow, rail, chain, At
<1> SUFFICES ASSUME NEW c \in Cycles
             PROVE  /\ received'[c] + Cardinality(Unrecorded(c)') <= disbursed'[c]
                    /\ payouts'[c] + Cardinality(Unsaved(c)') <= received'[c]
  BY DEF PayoutInv, Unrecorded, Unsaved
<1> DEFINE R == Unrecorded(c)
           S == Unsaved(c)
           Mine == proc[p].cycle = c
<1>0. /\ R \in SUBSET Procs /\ S \in SUBSET Procs
      /\ Cardinality(R) \in Nat /\ Cardinality(S) \in Nat
      /\ received[c] \in Nat /\ payouts[c] \in Nat /\ disbursed[c] \in Nat
      /\ received[c] + Cardinality(R) <= disbursed[c]
      /\ payouts[c] + Cardinality(S) <= received[c]
      /\ received \in PerCycle /\ payouts \in PerCycle /\ disbursed \in PerCycle
  <2>1. R \in SUBSET Procs /\ S \in SUBSET Procs
    BY InFlightTypes
  <2>2. Cardinality(R) \in Nat /\ Cardinality(S) \in Nat
    BY <2>1, CardStays
  <2> QED
    BY <2>1, <2>2 DEF PayoutInv, TypeOK, WorldOK, PerCycle
<1>1. R' \in SUBSET (R \cup (IF At(p, "disburse") /\ DisburseEffect(p) /\ Mine THEN {p} ELSE {}))
  BY Arrivals DEF Others, Unrecorded
<1>2. S' \in SUBSET (S \cup (IF At(p, "recordPayout") /\ RecordPayoutEffect(p) /\ Mine THEN {p} ELSE {}))
  BY Arrivals DEF Others, Unsaved
<1> HIDE DEF R, S
<1>3. CASE At(p, "disburse") /\ DisburseEffect(p)
  <2>1. Cardinality(S') <= Cardinality(S) /\ Cardinality(S') \in Nat
    BY <1>0, <1>2, <1>3, CardStays
  <2>2. UNCHANGED <<received, payouts>>
    BY <1>3 DEF DisburseEffect
  <2>3. CASE Mine
    <3>1. Cardinality(R') <= Cardinality(R) + 1 /\ Cardinality(R') \in Nat
      BY <1>0, <1>1, <1>3, <2>3, CardJoins
    <3>2. disbursed'[c] = disbursed[c] + 1
      BY <1>0, <1>3, <2>3 DEF DisburseEffect, PerCycle
    <3> QED
      BY <1>0, <2>1, <2>2, <3>1, <3>2 DEF R, S
  <2>4. CASE ~ Mine
    <3>1. Cardinality(R') <= Cardinality(R) /\ Cardinality(R') \in Nat
      BY <1>0, <1>1, <2>4, CardStays
    <3>2. disbursed'[c] = disbursed[c]
      BY <1>0, <1>3, <2>4 DEF DisburseEffect, PerCycle
    <3> QED
      BY <1>0, <2>1, <2>2, <3>1, <3>2 DEF R, S
  <2> QED
    BY <2>3, <2>4
<1>4. CASE At(p, "recordPayout") /\ RecordPayoutEffect(p)
  <2>1. UNCHANGED <<disbursed, payouts>>
    BY <1>4 DEF RecordPayoutEffect
  <2>2. CASE Mine
    <3>1. p \in R /\ R' \in SUBSET (R \ {p})
      BY <1>1, <1>4, <2>2, Arrivals DEF R, Unrecorded
    <3>2. Cardinality(R') + 1 <= Cardinality(R) /\ Cardinality(R') \in Nat
      BY <1>0, <3>1, CardLeaves
    <3>3. Cardinality(S') <= Cardinality(S) + 1 /\ Cardinality(S') \in Nat
      BY <1>0, <1>2, <1>4, <2>2, CardJoins
    <3>4. received'[c] = received[c] + 1
      BY <1>0, <1>4, <2>2 DEF RecordPayoutEffect, PerCycle
    <3> QED
      BY <1>0, <2>1, <3>2, <3>3, <3>4 DEF R, S
  <2>3. CASE ~ Mine
    <3>1. /\ Cardinality(R') <= Cardinality(R) /\ Cardinality(R') \in Nat
          /\ Cardinality(S') <= Cardinality(S) /\ Cardinality(S') \in Nat
      BY <1>0, <1>1, <1>2, <2>3, CardStays
    <3>2. received'[c] = received[c]
      BY <1>0, <1>4, <2>3 DEF RecordPayoutEffect, PerCycle
    <3> QED
      BY <1>0, <2>1, <3>1, <3>2 DEF R, S
  <2> QED
    BY <2>2, <2>3
<1>5. CASE ~ (At(p, "disburse") /\ DisburseEffect(p)) /\ ~ (At(p, "recordPayout") /\ RecordPayoutEffect(p))
  <2>1. /\ Cardinality(R') <= Cardinality(R) /\ Cardinality(R') \in Nat
        /\ Cardinality(S') <= Cardinality(S) /\ Cardinality(S') \in Nat
    BY <1>0, <1>1, <1>2, <1>5, CardStays
  <2>2. CASE UNCHANGED <<disbursed, received, payouts>>
    BY <1>0, <2>1, <2>2 DEF R, S
  <2>3. CASE At(p, "savePayout") /\ SavePayoutEffect(p)
    <3>1. UNCHANGED <<disbursed, received>>
      BY <2>3 DEF SavePayoutEffect
    <3>2. CASE Mine
      <4>1. p \in S /\ S' \in SUBSET (S \ {p})
        BY <1>2, <1>5, <2>3, <3>2, Arrivals DEF S, Unsaved
      <4>2. Cardinality(S') + 1 <= Cardinality(S)
        BY <1>0, <4>1, CardLeaves
      <4>3. payouts'[c] = payouts[c] + 1
        BY <1>0, <2>3, <3>2 DEF SavePayoutEffect, PerCycle
      <4> QED
        BY <1>0, <2>1, <3>1, <4>2, <4>3 DEF R, S
    <3>3. CASE ~ Mine
      <4>1. payouts'[c] = payouts[c]
        BY <1>0, <2>3, <3>3 DEF SavePayoutEffect, PerCycle
      <4> QED
        BY <1>0, <2>1, <3>1, <4>1 DEF R, S
    <3> QED
      BY <3>2, <3>3
  <2>4. CASE DebitEffect(p)
    BY <2>2, <2>4 DEF DebitEffect
  <2> QED
    BY <1>5, <2>2, <2>3, <2>4, PayoutFrame
<1> QED
  BY <1>3, <1>4, <1>5

\* A step keeps the account of the debits.
LEMMA DebitStepInv ==
  ASSUME TypeOK, DebitInv, NEW p \in Procs, Kind(p)
  PROVE  DebitInv'
<1> USE DEF rows, escrow, rail, chain, At
<1> SUFFICES ASSUME NEW c \in Cycles, NEW u \in Members
             PROVE  debits'[c][u] + Cardinality(Undebited(c, u)') <= outflow'[c][u]
  BY DEF DebitInv, Undebited
<1> DEFINE R == Undebited(c, u)
           Mine == proc[p].cycle = c /\ u \in proc[p].contribs
<1>0. /\ R \in SUBSET Procs /\ Cardinality(R) \in Nat
      /\ debits[c][u] \in Nat /\ outflow[c][u] \in Nat
      /\ debits[c][u] + Cardinality(R) <= outflow[c][u]
      /\ debits \in PerMember /\ outflow \in PerMember /\ proc[p].cycle \in Cycles
  <2>1. R \in SUBSET Procs
    BY InFlightTypes
  <2>2. Cardinality(R) \in Nat
    BY <2>1, CardStays
  <2> QED
    BY <2>1, <2>2 DEF DebitInv, TypeOK, ProcOK, Locals, WorldOK, PerMember
<1>1. R' \in SUBSET (R \cup (IF At(p, "disburse") /\ DisburseEffect(p) /\ Mine THEN {p} ELSE {}))
  BY Arrivals DEF Others, Undebited
<1> HIDE DEF R
<1>2. CASE At(p, "disburse") /\ DisburseEffect(p)
  <2>1. UNCHANGED debits
    BY <1>2 DEF DisburseEffect
  <2>2. CASE Mine
    <3>1. Cardinality(R') <= Cardinality(R) + 1 /\ Cardinality(R') \in Nat
      BY <1>0, <1>1, <1>2, <2>2, CardJoins
    <3>2. outflow'[c][u] = outflow[c][u] + 1
      BY <1>0, <1>2, <2>2 DEF DisburseEffect, CountAll, PerMember
    <3> QED
      BY <1>0, <2>1, <3>1, <3>2 DEF R
  <2>3. CASE ~ Mine
    <3>1. Cardinality(R') <= Cardinality(R) /\ Cardinality(R') \in Nat
      BY <1>0, <1>1, <2>3, CardStays
    <3>2. outflow'[c][u] = outflow[c][u]
      BY <1>0, <1>2, <2>3 DEF DisburseEffect, CountAll, PerMember
    <3> QED
      BY <1>0, <2>1, <3>1, <3>2 DEF R
  <2> QED
    BY <2>2, <2>3
<1>3. CASE ~ (At(p, "disburse") /\ DisburseEffect(p))
  <2>1. Cardinality(R') <= Cardinality(R) /\ Cardinality(R') \in Nat
    BY <1>0, <1>1, <1>3, CardStays
  <2>2. CASE UNCHANGED <<outflow, debits>>
    BY <1>0, <2>1, <2>2 DEF R
  <2>3. CASE At(p, "debit") /\ DebitEffect(p)
    <3>1. UNCHANGED outflow
      BY <2>3 DEF DebitEffect
    <3>2. CASE Mine
      <4>1. p \in R /\ R' \in SUBSET (R \ {p})
        BY <1>1, <1>3, <2>3, <3>2, Arrivals DEF R, Undebited
      <4>2. Cardinality(R') + 1 <= Cardinality(R)
        BY <1>0, <4>1, CardLeaves
      <4>3. debits'[c][u] = debits[c][u] + 1
        BY <1>0, <2>3, <3>2 DEF DebitEffect, CountAll, PerMember
      <4> QED
        BY <1>0, <2>1, <3>1, <4>2, <4>3 DEF R
    <3>3. CASE ~ Mine
      <4>1. debits'[c][u] = debits[c][u]
        BY <1>0, <2>3, <3>3 DEF DebitEffect, CountAll, PerMember
      <4> QED
        BY <1>0, <2>1, <3>1, <4>1 DEF R
    <3> QED
      BY <3>2, <3>3
  <2>4. CASE RecordPayoutEffect(p) \/ SavePayoutEffect(p)
    BY <2>2, <2>4 DEF RecordPayoutEffect, SavePayoutEffect
  <2> QED
    BY <1>3, <2>2, <2>3, <2>4, PayoutFrame
<1> QED
  BY <1>2, <1>3

\* A cycle is marked settled only after its payout row was saved.
LEMMA SettledStepInv ==
  ASSUME TypeOK, SettledInv, NEW p \in Procs, Kind(p)
  PROVE  SettledInv'
<1> USE DEF rows, escrow, rail, chain, world
<1>0. /\ proc \in [Procs -> Locals] /\ \A q \in Procs : proc[q].cycle \in Cycles
      /\ payouts \in PerCycle /\ settled \in SUBSET Cycles
  BY DEF TypeOK, ProcOK, WorldOK, Locals
<1>1. \A c \in Cycles : payouts'[c] >= payouts[c] /\ payouts'[c] \in Nat
  <2>1. CASE SavePayoutEffect(p)
    BY <1>0, <2>1 DEF SavePayoutEffect, PerCycle
  <2>2. CASE UNCHANGED payouts
    BY <1>0, <2>2 DEF PerCycle
  <2> QED
    BY <2>1, <2>2, PayoutFrame DEF DisburseEffect, RecordPayoutEffect, DebitEffect
<1>2. \/ At(p, "saveCycle") /\ settled' = settled \cup {proc[p].cycle} /\ group' = group
      \/ At(p, "saveGroup") /\ settled' = settled
      \/ settled' = settled /\ group' = group
  BY DEF Kind, CallKind, DefaultKind, QuietKind, Moves, ChargeEffect, RevealEffect,
     SaveContributionEffect, CreditEffect, DisburseEffect, RecordPayoutEffect, DebitEffect,
     SavePayoutEffect, SaveCycleEffect, SaveGroupEffect, RecordDefaultEffect
<1>3. \A c \in settled' : payouts'[c] >= 1
  BY <1>0, <1>1, <1>2 DEF SettledInv, PerCycle
<1>4. group' = "CLOSED" => TotalCycles - 1 \in settled'
  BY <1>2 DEF SettledInv
<1>5. ASSUME NEW q \in Procs
      PROVE  /\ proc'[q].pc = "saveCycle" => payouts'[proc'[q].cycle] >= 1
             /\ proc'[q].pc = "saveGroup" =>
                  proc'[q].cycle = TotalCycles - 1 /\ proc'[q].cycle \in settled'
  <2>1. CASE q # p
    <3>1. proc'[q] = proc[q]
      BY <2>1, Arrivals DEF Others
    <3> QED
      BY <1>0, <1>1, <1>2, <3>1 DEF SettledInv, At, PerCycle
  <2>2. CASE q = p
    <3>1. ASSUME proc'[p].pc = "saveCycle" PROVE payouts'[proc'[p].cycle] >= 1
      <4>1. SavePayoutEffect(p) /\ proc'[p].cycle = proc[p].cycle
        BY <3>1, Arrivals
      <4> QED
        BY <1>0, <4>1 DEF SavePayoutEffect, PerCycle
    <3>2. ASSUME proc'[p].pc = "saveGroup"
          PROVE  proc'[p].cycle = TotalCycles - 1 /\ proc'[p].cycle \in settled'
      BY <3>2, Arrivals DEF SaveCycleEffect
    <3> QED
      BY <2>2, <3>1, <3>2
  <2> QED
    BY <2>1, <2>2
<1> QED
  BY <1>3, <1>4, <1>5 DEF SettledInv, At

LadderInv == PayoutInv /\ DebitInv /\ SettledInv

\* Initially the account of payouts is empty.
LEMMA LadderInit == Init => LadderInv
<1> SUFFICES ASSUME Init PROVE LadderInv
  OBVIOUS
<1>1. \A c, u : Unrecorded(c) = {} /\ Unsaved(c) = {} /\ Undebited(c, u) = {}
  BY DEF Init, Unrecorded, Unsaved, Undebited, Idle, At
<1>2. PayoutInv /\ DebitInv
  <2>1. Cardinality({}) = 0
    BY FS_EmptySet
  <2>2. \A c \in Cycles : received[c] = 0 /\ disbursed[c] = 0 /\ payouts[c] = 0
    BY DEF Init
  <2>3. \A c \in Cycles, u \in Members : debits[c][u] = 0 /\ outflow[c][u] = 0
    BY DEF Init
  <2> QED
    BY <1>1, <2>1, <2>2, <2>3 DEF PayoutInv, DebitInv
<1>3. SettledInv
  BY DEF Init, SettledInv, Idle, At
<1> QED
  BY <1>2, <1>3 DEF LadderInv

\* Every step keeps the account of payouts.
LEMMA LadderStep == TypeOK /\ LadderInv /\ [Next]_vars => LadderInv'
<1> SUFFICES ASSUME TypeOK, LadderInv, [Next]_vars PROVE LadderInv'
  OBVIOUS
<1> USE DEF world, rows, escrow, rail, chain
<1>1. CASE UNCHANGED world /\ proc' = [p \in Procs |-> Idle]
  <2>1. ASSUME NEW c \in Cycles, NEW u \in Members
        PROVE  /\ Cardinality(Unrecorded(c)) \in Nat /\ Cardinality(Unsaved(c)) \in Nat
               /\ Cardinality(Undebited(c, u)) \in Nat
    BY InFlightTypes, CardStays
  <2>2. PayoutInv'
    <3> SUFFICES ASSUME NEW c \in Cycles
                 PROVE  received[c] + Cardinality({}) <= disbursed[c] /\ payouts[c] + Cardinality({}) <= received[c]
      BY <1>1, NothingInFlight DEF PayoutInv
    <3>1. received[c] \in Nat /\ payouts[c] \in Nat /\ disbursed[c] \in Nat
      BY DEF TypeOK, WorldOK, PerCycle
    <3>2. Cardinality(Unrecorded(c)) \in Nat /\ Cardinality(Unsaved(c)) \in Nat
      BY InFlightTypes, CardStays
    <3> QED
      BY <3>1, <3>2, FS_EmptySet DEF LadderInv, PayoutInv
  <2>3. DebitInv'
    <3> SUFFICES ASSUME NEW c \in Cycles, NEW u \in Members
                 PROVE  debits[c][u] + Cardinality({}) <= outflow[c][u]
      BY <1>1, NothingInFlight DEF DebitInv
    <3> QED
      BY <2>1, CounterTypes, FS_EmptySet DEF LadderInv, DebitInv
  <2>4. SettledInv'
    BY <1>1 DEF LadderInv, SettledInv, At, Idle
  <2> QED
    BY <2>2, <2>3, <2>4 DEF LadderInv
<1>2. CASE UNCHANGED <<world, proc>>
  BY <1>2 DEF LadderInv, PayoutInv, DebitInv, SettledInv, Unrecorded, Unsaved, Undebited, At
<1>3. ASSUME NEW p \in Procs, Kind(p) PROVE LadderInv'
  BY <1>3, PayoutStepInv, DebitStepInv, SettledStepInv DEF LadderInv
<1> QED
  BY <1>1, <1>2, <1>3, NextKinds

\* Whatever overlaps, fails or crashes, every payout row is backed by an event on
\* the chain and a disbursement, every escrow debit by money paid out, every
\* settled cycle by a payout row, and a closed group by its last cycle.
THEOREM PayoutsAreBacked == Spec => []PayoutLadder
<1>1. Init => LadderInv
  BY LadderInit
<1>2. TypeOK /\ LadderInv /\ [Next]_vars => LadderInv'
  BY LadderStep
<1>3. TypeOK /\ LadderInv => PayoutLadder
  <2> SUFFICES ASSUME TypeOK, LadderInv PROVE PayoutLadder
    OBVIOUS
  <2>1. ASSUME NEW c \in Cycles
        PROVE  payouts[c] <= received[c] /\ received[c] <= disbursed[c]
    <3>1. received[c] \in Nat /\ payouts[c] \in Nat /\ disbursed[c] \in Nat
      BY DEF TypeOK, WorldOK, PerCycle
    <3>2. Cardinality(Unrecorded(c)) \in Nat /\ Cardinality(Unsaved(c)) \in Nat
      BY InFlightTypes, CardStays
    <3> QED
      BY <3>1, <3>2 DEF LadderInv, PayoutInv
  <2>2. ASSUME NEW c \in Cycles, NEW u \in Members
        PROVE  debits[c][u] <= outflow[c][u]
    <3>1. Cardinality(Undebited(c, u)) \in Nat
      BY InFlightTypes, CardStays
    <3> QED
      BY <3>1, CounterTypes DEF LadderInv, DebitInv
  <2> QED
    BY <2>1, <2>2 DEF PayoutLadder, LadderInv, SettledInv
<1> QED
  BY <1>1, <1>2, <1>3, TypeCorrect, PTL DEF Spec

-----------------------------------------------------------------------------
(* While nothing overlaps, a settled cycle is final *)

OpenLabels == Labels \ {"idle", "saveGroup", "current", "reload"}

SerialInv ==
    /\ \A p, q \in Procs : p # q => At(p, "idle") \/ At(q, "idle")
    /\ \A p \in Procs : proc[p].pc \in OpenLabels => proc[p].cycle \notin settled

\* While nothing overlaps, one process at most is under way, on a cycle that is open.
LEMMA SerialStep ==
  ASSUME ~ Overlap, TypeOK, SerialInv, NEW p \in Procs, Kind(p)
  PROVE  SerialInv'
<1> USE DEF world, rows, escrow, rail, chain
<1>0. proc \in [Procs -> Locals] /\ Others(p)
  BY Arrivals DEF TypeOK, ProcOK
<1>1. proc'[p].pc # "idle" => \A q \in Procs \ {p} : At(q, "idle")
  <2>1. CASE ~ At(p, "idle")
    BY <2>1 DEF SerialInv
  <2>2. CASE At(p, "idle")
    <3>1. QuietKind(p)
      BY <2>2 DEF Kind, CallKind, DefaultKind, Moves, At
    <3>2. proc'[p] = Idle \/ AllIdle
      BY <2>2, <3>1 DEF QuietKind, At, List, CurrentCycle, ListUnpaid, Reload,
         SubmitContribution, SettleCycle, ProcessDeadlines, CanStart
    <3> QED
      BY <3>2 DEF AllIdle, Idle
  <2> QED
    BY <2>1, <2>2
<1>2. ASSUME proc'[p].pc \in OpenLabels PROVE proc'[p].cycle \notin settled'
  <2>0. proc'[p].pc \notin {"idle", "saveGroup", "current", "reload"}
    BY <1>2 DEF OpenLabels
  <2>1. CASE CallKind(p)
    <3>1. proc[p].pc \in OpenLabels \ {"saveCycle"} /\ proc'[p].cycle = proc[p].cycle /\ settled' = settled
      BY <2>0, <2>1, MovesFields DEF CallKind, At, OpenLabels, Labels, ChargeEffect, RevealEffect,
         SaveContributionEffect, CreditEffect, DisburseEffect, RecordPayoutEffect, DebitEffect,
         SavePayoutEffect
    <3> QED
      BY <3>1 DEF SerialInv
  <2>2. CASE DefaultKind(p)
    <3>1. proc[p].pc \in OpenLabels /\ settled' = settled
      BY <2>2 DEF DefaultKind, At, OpenLabels, Labels, RecordDefaultEffect
    <3>2. ASSUME NEW u, NEW l, proc'[p] = [proc[p] EXCEPT !.unpaid = proc[p].unpaid \ {u}, !.pc = l]
          PROVE  proc'[p].cycle = proc[p].cycle
      BY <1>0, <3>2 DEF Locals
    <3>3. proc'[p] # Idle
      BY <2>0 DEF Idle
    <3>4. proc'[p].cycle = proc[p].cycle
      <4>1. PICK u \in proc[p].unpaid, l \in {"default", "list"} :
              proc'[p] = [proc[p] EXCEPT !.unpaid = proc[p].unpaid \ {u}, !.pc = l]
        BY <2>2, <3>3 DEF DefaultKind
      <4> QED
        BY <3>2, <4>1
    <3> QED
      BY <3>1, <3>4 DEF SerialInv
  <2>3. CASE QuietKind(p)
    <3>0. settled' = settled
      BY <2>3 DEF QuietKind
    <3>1. ASSUME NEW u \in Members, NEW c \in Cycles, SubmitContribution(p, u, c)
          PROVE  proc'[p].cycle \notin settled
      BY <1>0, <3>1 DEF SubmitContribution, Idle
    <3>2. ASSUME NEW c \in Cycles, SettleCycle(p, c)
          PROVE  proc'[p].cycle \notin settled
      BY <1>0, <3>2 DEF SettleCycle, Idle
    <3>3. ASSUME NEW l, proc[p].pc \in OpenLabels, proc'[p] = [proc[p] EXCEPT !.pc = l]
          PROVE  proc'[p].cycle \notin settled
      BY <1>0, <3>3 DEF SerialInv, Locals
    <3>4. CASE List(p)
      BY <1>0, <3>4 DEF List, SerialInv, Locals, At, OpenLabels, Labels
    <3>5. CASE CurrentCycle(p)
      <4>1. proc'[p].cycle \notin settled \/ proc'[p] = Idle
        BY <1>0, <3>5 DEF CurrentCycle, IsCurrent, Return, Locals
      <4> QED
        BY <2>0, <3>0, <4>1 DEF Idle
    <3>6. CASE ListUnpaid(p)
      BY <1>0, <3>6 DEF ListUnpaid, SerialInv, Locals, At, OpenLabels, Labels
    <3>7. CASE ProcessDeadlines(p) \/ Reload(p)
      <4>1. ASSUME NEW n, proc' = [proc EXCEPT ![p] = [Idle EXCEPT !.pc = "current", !.g = group, !.now = n]]
            PROVE  proc'[p].pc = "current"
        BY <1>0, <4>1 DEF Idle
      <4>2. ASSUME Return(p) PROVE proc'[p].pc = "idle"
        BY <1>0, <4>2 DEF Return, Idle
      <4> QED
        BY <2>0, <3>7, <4>1, <4>2 DEF ProcessDeadlines, Reload
    <3>8. CASE proc'[p] = Idle
      BY <2>0, <3>8 DEF Idle
    <3> QED
      BY <2>3, <3>0, <3>1, <3>2, <3>3, <3>4, <3>5, <3>6, <3>7, <3>8
         DEF QuietKind, At, OpenLabels, Labels
  <2> QED
    BY <2>1, <2>2, <2>3 DEF Kind
<1>3. ASSUME NEW q \in Procs, proc'[q].pc \in OpenLabels PROVE proc'[q].cycle \notin settled'
  <2>1. CASE q = p
    BY <1>2, <1>3, <2>1
  <2>2. CASE q # p
    <3>1. proc'[q] = proc[q] /\ proc[q].pc # "idle" /\ proc[q].cycle \notin settled
      BY <1>0, <1>3, <2>2 DEF Others, OpenLabels, SerialInv
    <3>2. At(p, "idle")
      BY <2>2, <3>1 DEF SerialInv, At
    <3>3. settled' = settled
      BY <3>2 DEF At, Kind, CallKind, DefaultKind, QuietKind, Moves
    <3> QED
      BY <3>1, <3>3
  <2> QED
    BY <2>1, <2>2
<1> QED
  BY <1>0, <1>1, <1>3 DEF SerialInv, Others, At

\* What the step of one process may change belongs to its own cycle.
LEMMA OpenMoney ==
  ASSUME TypeOK, SerialInv, NEW p \in Procs, Kind(p), NEW c \in settled
  PROVE  /\ charged'[c] = charged[c] /\ disbursed'[c] = disbursed[c]
         /\ outflow'[c] = outflow[c] /\ missed'[c] = missed[c]
<1> USE DEF world, rows, escrow, rail, chain
<1>0. /\ proc[p].cycle \in Cycles /\ c \in Cycles
      /\ charged \in PerMember /\ outflow \in PerMember /\ missed \in PerMember /\ disbursed \in PerCycle
  BY DEF TypeOK, ProcOK, Locals, WorldOK
<1>1. CASE At(p, "charge") /\ ChargeEffect(p)
  BY <1>0, <1>1 DEF SerialInv, At, OpenLabels, Labels, ChargeEffect, Count, PerMember
<1>2. CASE At(p, "disburse") /\ DisburseEffect(p)
  BY <1>0, <1>2 DEF SerialInv, At, OpenLabels, Labels, DisburseEffect, CountAll, PerMember, PerCycle
<1>3. CASE DefaultKind(p)
  BY <1>0, <1>3 DEF SerialInv, DefaultKind, At, OpenLabels, Labels, RecordDefaultEffect, Count, PerMember
<1>4. CASE UNCHANGED <<charged, disbursed, outflow, missed>>
  BY <1>4
<1> QED
  BY <1>1, <1>2, <1>3, <1>4 DEF Kind, CallKind, QuietKind, Moves, RevealEffect,
     SaveContributionEffect, CreditEffect, RecordPayoutEffect, DebitEffect, SavePayoutEffect,
     SaveCycleEffect, SaveGroupEffect

\* While nothing overlaps, at most one process is under way and its cycle is open.
LEMMA SerialInvariant ==
  ASSUME ~ Overlap
  PROVE  Spec => []SerialInv
<1>1. Init => SerialInv
  BY DEF Init, SerialInv, Idle, At, OpenLabels
<1>2. TypeOK /\ SerialInv /\ [Next]_vars => SerialInv'
  <2> SUFFICES ASSUME TypeOK, SerialInv, [Next]_vars PROVE SerialInv'
    OBVIOUS
  <2>1. CASE UNCHANGED world /\ proc' = [p \in Procs |-> Idle]
    BY <2>1 DEF SerialInv, At, Idle, OpenLabels
  <2>2. CASE UNCHANGED <<world, proc>>
    BY <2>2 DEF SerialInv, At, world, rows
  <2> QED
    BY <2>1, <2>2, NextKinds, SerialStep
<1> QED
  BY <1>1, <1>2, TypeCorrect, PTL DEF Spec

\* While requests and the scheduler do not overlap, and however many calls fail,
\* no money moves and no default is recorded for a settled cycle.
THEOREM SettledStaysFinal ==
  ASSUME ~ Overlap
  PROVE  Spec => SettledIsFinal
<1>1. TypeOK /\ SerialInv /\ [Next]_vars =>
        [\A c \in settled :
            /\ charged'[c] = charged[c] /\ disbursed'[c] = disbursed[c]
            /\ outflow'[c] = outflow[c] /\ missed'[c] = missed[c]]_vars
  BY NextKinds, OpenMoney DEF world, rail, chain
<1> QED
  BY <1>1, SerialInvariant, TypeCorrect, PTL DEF Spec, SettledIsFinal

-----------------------------------------------------------------------------
(* The service implements the abstract group while nothing overlaps *)

\* The group a handler works with is the one in the store, it is ACTIVE while members
\* pay or defaults are recorded, and nobody about to get a default has a row.
CopyOf(j) ==
    /\ j.pc \notin {"idle", "reload"} => j.g = group
    /\ j.pc \in ContributionLabels \cup {"current", "unpaid", "default"} => group = "ACTIVE"
    /\ j.pc = "default" => j.unpaid \cap contributed[j.cycle] = {}

CopyInv == group \in {"ACTIVE", "CLOSED"} /\ \A p \in Procs : CopyOf(proc[p])

\* Serially, a step of one process finds every other process idle, or is its start.
LEMMA OthersRest ==
  ASSUME TypeOK, SerialInv, NEW p \in Procs, Kind(p), NEW q \in Procs \ {p}
  PROVE  proc'[q] = proc[q] /\ (At(q, "idle") \/ UNCHANGED world)
<1>1. proc'[q] = proc[q]
  BY Arrivals DEF Others
<1>2. At(q, "idle") \/ At(p, "idle")
  BY DEF SerialInv
<1>3. At(p, "idle") => UNCHANGED world
  BY DEF At, Kind, CallKind, DefaultKind, QuietKind, Moves
<1> QED
  BY <1>1, <1>2, <1>3

\* A call keeps the copy of its process.
LEMMA CallCopy ==
  ASSUME TypeOK, CopyInv, NEW p \in Procs, CallKind(p)
  PROVE  group' \in {"ACTIVE", "CLOSED"} /\ CopyOf(proc[p])' 
<1> USE DEF rows, escrow, rail, chain
<1>0. proc[p] \in Locals /\ CopyOf(proc[p])
  BY DEF TypeOK, ProcOK, CopyInv
<1>1. CASE At(p, "saveGroup") /\ SaveGroupEffect(p)
  <2>1. group' \in {"ACTIVE", "CLOSED"}
    BY <1>0, <1>1 DEF SaveGroupEffect, Transition, allowedTransitions, CopyInv, CopyOf, At
  <2>2. proc'[p].pc \in {"idle", "reload"}
    BY <1>1, MovesFields DEF CallKind, At
  <2> QED
    BY <2>1, <2>2 DEF CopyOf, ContributionLabels
<1>2. CASE ~ At(p, "saveGroup")
  <2>1. group' = group
    BY <1>2 DEF CallKind, Moves, ChargeEffect, RevealEffect, SaveContributionEffect, CreditEffect,
       DisburseEffect, RecordPayoutEffect, DebitEffect, SavePayoutEffect, SaveCycleEffect
  <2>2. \/ proc'[p].pc = "idle"
        \/ /\ proc[p].pc \notin {"idle", "reload"} /\ proc'[p].pc \notin {"default", "current", "unpaid"}
           /\ proc'[p].pc \in ContributionLabels => proc[p].pc \in ContributionLabels
           /\ \E l : proc'[p] = [proc[p] EXCEPT !.pc = l]
    <3>1. Idle.pc = "idle"
      BY DEF Idle
    <3>2. ASSUME NEW l, proc'[p] = [proc[p] EXCEPT !.pc = l] PROVE proc'[p].pc = l
      BY <1>0, <3>2 DEF Locals
    <3> QED
      BY <1>2, <3>1, <3>2 DEF CallKind, Moves, At, ContributionLabels
  <2>3. CASE proc'[p].pc = "idle"
    BY <2>1, <2>3 DEF CopyInv, CopyOf, ContributionLabels
  <2>4. ASSUME NEW l, proc'[p] = [proc[p] EXCEPT !.pc = l] PROVE proc'[p].g = proc[p].g
    BY <1>0, <2>4 DEF Locals
  <2> QED
    BY <1>0, <2>1, <2>2, <2>3, <2>4 DEF CopyInv, CopyOf
<1> QED
  BY <1>1, <1>2 DEF CallKind, Moves, At

\* A default keeps the copy of its process.
LEMMA DefaultCopy ==
  ASSUME TypeOK, CopyInv, NEW p \in Procs, DefaultKind(p)
  PROVE  group' \in {"ACTIVE", "CLOSED"} /\ CopyOf(proc[p])'
<1> USE DEF rows, escrow, rail, chain
<1>0. proc[p] \in Locals /\ CopyOf(proc[p]) /\ At(p, "default")
  BY DEF TypeOK, ProcOK, CopyInv, DefaultKind
<1>1. group' = group /\ contributed' = contributed
  BY DEF DefaultKind, RecordDefaultEffect
<1>2. CASE proc'[p] = Idle
  BY <1>1, <1>2 DEF CopyInv, CopyOf, Idle, ContributionLabels
<1>3. ASSUME NEW u, NEW l \in {"default", "list"},
             proc'[p] = [proc[p] EXCEPT !.unpaid = proc[p].unpaid \ {u}, !.pc = l]
      PROVE  CopyOf(proc[p])'
  <2>1. /\ proc'[p].pc \in {"default", "list"} /\ proc'[p].g = proc[p].g /\ proc'[p].cycle = proc[p].cycle
        /\ proc'[p].unpaid \subseteq proc[p].unpaid
    BY <1>0, <1>3 DEF Locals
  <2> QED
    BY <1>0, <1>1, <2>1 DEF CopyOf, At, ContributionLabels
<1> QED
  BY <1>1, <1>2, <1>3 DEF DefaultKind, CopyInv

\* A step that reads only takes a fresh copy or keeps the one it has.
LEMMA QuietCopy ==
  ASSUME TypeOK, CopyInv, NEW p \in Procs, QuietKind(p)
  PROVE  group' \in {"ACTIVE", "CLOSED"} /\ CopyOf(proc[p])'
<1>0. /\ proc \in [Procs -> Locals] /\ proc[p] \in Locals /\ CopyOf(proc[p])
      /\ UNCHANGED <<group, contributed>> /\ contributed \in [Cycles -> SUBSET Members]
  BY DEF TypeOK, ProcOK, WorldOK, CopyInv, QuietKind, world, rows
<1> SUFFICES CopyOf(proc[p])'
  BY <1>0 DEF CopyInv
<1>1. CASE proc'[p] = Idle
  BY <1>1 DEF CopyOf, Idle, ContributionLabels
<1>2. ASSUME NEW u \in Members, NEW c \in Cycles, SubmitContribution(p, u, c) PROVE CopyOf(proc[p])'
  <2>1. group = "ACTIVE" /\ proc'[p].pc = "charge" /\ proc'[p].g = group
    BY <1>0, <1>2 DEF SubmitContribution, Idle
  <2> QED
    BY <1>0, <2>1 DEF CopyOf
<1>3. ASSUME NEW c \in Cycles, SettleCycle(p, c) PROVE CopyOf(proc[p])'
  <2>1. proc'[p].pc = "list" /\ proc'[p].g = group
    BY <1>0, <1>3 DEF SettleCycle, Idle
  <2> QED
    BY <1>0, <2>1 DEF CopyOf, ContributionLabels
<1>4. ASSUME NEW l, \/ At(p, "allContributed") /\ l = "list"
                    \/ At(p, "credit") /\ l = "allContributed"
                    \/ At(p, "debit") /\ l = "savePayout",
             proc'[p] = [proc[p] EXCEPT !.pc = l]
      PROVE  CopyOf(proc[p])'
  <2>1. proc'[p].pc = l /\ proc'[p].g = proc[p].g
    BY <1>0, <1>4 DEF Locals
  <2> QED
    BY <1>0, <1>4, <2>1 DEF CopyOf, At, ContributionLabels
<1>5. CASE List(p)
  <2>1. At(p, "list") /\ proc'[p].pc = "disburse" /\ proc'[p].g = proc[p].g
    BY <1>0, <1>5 DEF List, Locals
  <2> QED
    BY <1>0, <2>1 DEF CopyOf, At, ContributionLabels
<1>6. CASE ProcessDeadlines(p) \/ Reload(p)
  <2>1. ASSUME NEW n, proc' = [proc EXCEPT ![p] = [Idle EXCEPT !.pc = "current", !.g = group, !.now = n]],
               group = "ACTIVE"
        PROVE  CopyOf(proc[p])'
    <3>1. proc'[p].pc = "current" /\ proc'[p].g = group
      BY <1>0, <2>1 DEF Idle
    <3> QED
      BY <1>0, <2>1, <3>1 DEF CopyOf
  <2>2. ASSUME Return(p) PROVE proc'[p] = Idle
    BY <1>0, <2>2 DEF Return
  <2>3. CASE group = "ACTIVE"
    BY <1>6, <2>1, <2>3 DEF ProcessDeadlines, Reload
  <2>4. CASE group # "ACTIVE"
    BY <1>1, <1>6, <2>2, <2>4 DEF ProcessDeadlines, Reload
  <2> QED
    BY <2>3, <2>4
<1>7. CASE CurrentCycle(p)
  <2>1. \/ proc'[p] = Idle
        \/ At(p, "current") /\ proc'[p].pc = "unpaid" /\ proc'[p].g = proc[p].g
    BY <1>0, <1>7 DEF CurrentCycle, Return, Locals
  <2> QED
    BY <1>0, <1>1, <2>1 DEF CopyOf, At
<1>8. CASE ListUnpaid(p)
  <2>1. /\ At(p, "unpaid") /\ proc'[p].pc \in {"list", "default"} /\ proc'[p].g = proc[p].g
        /\ proc'[p].cycle = proc[p].cycle /\ proc'[p].unpaid = Members \ contributed[proc[p].cycle]
    BY <1>0, <1>8 DEF ListUnpaid, Locals
  <2> QED
    BY <1>0, <2>1 DEF CopyOf, At, ContributionLabels
<1> QED
  BY <1>0, <1>1, <1>2, <1>3, <1>4, <1>5, <1>6, <1>7, <1>8 DEF QuietKind, CopyInv

\* Every step keeps the copies true while nothing overlaps.
LEMMA CopyStep == TypeOK /\ SerialInv /\ CopyInv /\ [Next]_vars => CopyInv'
<1> SUFFICES ASSUME TypeOK, SerialInv, CopyInv, [Next]_vars PROVE CopyInv'
  OBVIOUS
<1>1. ASSUME NEW p \in Procs, Kind(p) PROVE CopyInv'
  <2>1. group' \in {"ACTIVE", "CLOSED"} /\ CopyOf(proc[p])'
    BY <1>1, CallCopy, DefaultCopy, QuietCopy DEF Kind
  <2>2. ASSUME NEW q \in Procs \ {p} PROVE CopyOf(proc[q])'
    <3>1. proc'[q] = proc[q] /\ (At(q, "idle") \/ UNCHANGED world) /\ CopyOf(proc[q])
      BY <1>1, OthersRest DEF CopyInv
    <3> QED
      BY <3>1 DEF CopyOf, At, ContributionLabels, world, rows
  <2> QED
    BY <2>1, <2>2 DEF CopyInv
<1>2. CASE UNCHANGED world /\ proc' = [p \in Procs |-> Idle]
  BY <1>2 DEF CopyInv, CopyOf, Idle, ContributionLabels, world, rows
<1>3. CASE UNCHANGED <<world, proc>>
  BY <1>3 DEF CopyInv, CopyOf, world, rows
<1> QED
  BY <1>1, <1>2, <1>3, NextKinds

\* Initially the group is ACTIVE and every process is at rest.
LEMMA CopyInit == Init => CopyInv
  BY DEF Init, CopyInv, CopyOf, Idle, ContributionLabels

\* The members with a default on the chain.
Missed == [c \in Cycles |-> {u \in Members : missed[c][u] > 0}]

\* A row is a payment into an open cycle, or the one that was there.
LEMMA RowImplements ==
  ASSUME TypeOK, SerialInv, CopyInv, NEW p \in Procs, At(p, "saveContribution"), SaveContributionEffect(p)
  PROVE  [Books!Next]_(Books!vars)
<1>1. PICK c \in Cycles, u \in Members : c = proc[p].cycle /\ u = proc[p].user
  BY DEF TypeOK, ProcOK, Locals, At, ContributionLabels
<1>2. group = "ACTIVE" /\ c \notin settled
  BY <1>1 DEF CopyInv, CopyOf, SerialInv, At, ContributionLabels, OpenLabels, Labels
<1>3. /\ contributed' = [contributed EXCEPT ![c] = @ \cup {u}] /\ UNCHANGED <<group, settled, missed>>
      /\ contributed \in [Cycles -> SUBSET Members]
  BY <1>1 DEF SaveContributionEffect, chain, TypeOK, WorldOK
<1>4. CASE u \notin contributed[c]
  <2>1. Books!Contribute(u, c)
    BY <1>2, <1>3, <1>4 DEF Books!Contribute
  <2> QED
    BY <2>1 DEF Books!Next
<1>5. CASE u \in contributed[c]
  <2>1. contributed' = contributed
    BY <1>3, <1>5
  <2> QED
    BY <1>3, <2>1 DEF Books!vars
<1> QED
  BY <1>4, <1>5

\* A default on the chain is one of a member who has not paid.
LEMMA DefaultImplements ==
  ASSUME TypeOK, SerialInv, CopyInv, NEW p \in Procs, DefaultKind(p)
  PROVE  [Books!Next]_(Books!vars)
<1>1. PICK u \in proc[p].unpaid : RecordDefaultEffect(p, u)
  BY DEF DefaultKind
<1>2. PICK c \in Cycles : c = proc[p].cycle
  BY DEF TypeOK, ProcOK, Locals
<1>3. u \in Members /\ u \notin contributed[c] /\ group = "ACTIVE" /\ c \notin settled
  BY <1>2 DEF TypeOK, ProcOK, Locals, CopyInv, CopyOf, SerialInv, DefaultKind, At, OpenLabels, Labels
<1>4. missed' = Count(missed, c, u) /\ UNCHANGED <<group, contributed, settled>> /\ missed \in PerMember
  BY <1>1, <1>2 DEF RecordDefaultEffect, rows, TypeOK, WorldOK
<1>5. Missed' = [Missed EXCEPT ![c] = @ \cup {u}]
  <2>1. ASSUME NEW d \in Cycles, NEW v \in Members
        PROVE  /\ missed[d][v] \in Nat
               /\ missed'[d][v] = IF d = c /\ v = u THEN missed[d][v] + 1 ELSE missed[d][v]
    BY <1>3, <1>4 DEF Count, PerMember
  <2>2. ASSUME NEW d \in Cycles
        PROVE  {v \in Members : missed'[d][v] > 0} =
                 IF d = c THEN {v \in Members : missed[d][v] > 0} \cup {u} ELSE {v \in Members : missed[d][v] > 0}
    BY <1>3, <2>1
  <2> QED
    BY <2>2 DEF Missed
<1>6. Books!Default(u, c)
  BY <1>3, <1>4, <1>5 DEF Books!Default, Missed
<1> QED
  BY <1>3, <1>6 DEF Books!Next

\* A settlement and the closing of the group.
LEMMA SettleImplements ==
  ASSUME TypeOK, SerialInv, CopyInv, SettledInv, NEW p \in Procs,
         (At(p, "saveCycle") /\ SaveCycleEffect(p)) \/ (At(p, "saveGroup") /\ SaveGroupEffect(p))
  PROVE  [Books!Next]_(Books!vars)
<1>1. CASE At(p, "saveCycle") /\ SaveCycleEffect(p)
  <2>1. PICK c \in Cycles : c = proc[p].cycle
    BY DEF TypeOK, ProcOK, Locals
  <2>2. c \notin settled /\ group # "CREATED"
    BY <1>1, <2>1 DEF SerialInv, At, OpenLabels, Labels, CopyInv
  <2>3. settled' = settled \cup {c} /\ UNCHANGED <<group, contributed, missed>>
    BY <1>1, <2>1 DEF SaveCycleEffect, chain
  <2>4. Missed' = Missed /\ Missed = [Missed EXCEPT ![c] = @ \cup {}]
    BY <2>3 DEF Missed
  <2>5. {} \in SUBSET Members /\ {} \cap contributed[c] = {}
    OBVIOUS
  <2>6. Books!Settle(c, {})
    BY <2>2, <2>3, <2>4, <2>5 DEF Books!Settle, Missed
  <2> QED
    BY <2>5, <2>6 DEF Books!Next
<1>2. CASE At(p, "saveGroup") /\ SaveGroupEffect(p)
  <2>1. proc[p].g = group /\ group \in {"ACTIVE", "CLOSED"} /\ TotalCycles - 1 \in settled
    BY <1>2 DEF CopyInv, CopyOf, SettledInv, At
  <2>2. group' = "CLOSED" /\ UNCHANGED <<contributed, settled, missed>>
    BY <1>2, <2>1 DEF SaveGroupEffect, Transition, allowedTransitions, chain
  <2>3. Missed' = Missed
    BY <2>2 DEF Missed
  <2>4. CASE group = "ACTIVE"
    <3>1. Books!Close
      BY <2>1, <2>2, <2>3, <2>4 DEF Books!Close, Missed
    <3> QED
      BY <3>1 DEF Books!Next
  <2>5. CASE group = "CLOSED"
    BY <2>2, <2>3, <2>5 DEF Books!vars, Missed
  <2> QED
    BY <2>1, <2>4, <2>5
<1> QED
  BY <1>1, <1>2

\* Every step is a step of the abstract group or changes none of its books.
LEMMA StepImplements ==
  TypeOK /\ SerialInv /\ CopyInv /\ SettledInv /\ [Next]_vars => [Books!Next]_(Books!vars)
<1> SUFFICES ASSUME TypeOK, SerialInv, CopyInv, SettledInv, [Next]_vars PROVE [Books!Next]_(Books!vars)
  OBVIOUS
<1>1. ASSUME UNCHANGED <<group, contributed, settled, missed>> PROVE UNCHANGED Books!vars
  BY <1>1 DEF Books!vars
<1>2. CASE UNCHANGED world
  BY <1>1, <1>2 DEF world, rows, chain
<1>3. ASSUME NEW p \in Procs, CallKind(p) PROVE [Books!Next]_(Books!vars)
  <2>1. \/ At(p, "saveContribution") /\ SaveContributionEffect(p)
        \/ At(p, "saveCycle") /\ SaveCycleEffect(p)
        \/ At(p, "saveGroup") /\ SaveGroupEffect(p)
        \/ UNCHANGED <<group, contributed, settled, missed>>
    BY <1>3 DEF CallKind, Moves, ChargeEffect, RevealEffect, CreditEffect, DisburseEffect,
       RecordPayoutEffect, DebitEffect, SavePayoutEffect, rows, chain
  <2> QED
    BY <1>1, <2>1, RowImplements, SettleImplements
<1>4. ASSUME NEW p \in Procs, DefaultKind(p) PROVE [Books!Next]_(Books!vars)
  BY <1>4, DefaultImplements
<1>5. ASSUME NEW p \in Procs, QuietKind(p) PROVE UNCHANGED world
  BY <1>5 DEF QuietKind
<1> QED
  BY <1>2, <1>3, <1>4, <1>5, NextKinds DEF Kind

\* While requests and the scheduler do not overlap, the service implements the abstract
\* savings group, for every group, whatever call fails and wherever it crashes.
THEOREM ServiceImplementsRosca ==
  ASSUME ~ Overlap
  PROVE  Spec => ImplementsRosca
<1>1. Init => Books!Init
  BY DEF Init, Books!Init
<1>2. Spec => [](TypeOK /\ SerialInv)
  BY SerialInvariant, TypeCorrect, PTL
<1>3. TypeOK /\ LadderInv /\ [Next]_vars => LadderInv'
  BY LadderStep
<1>4. LadderInv => SettledInv
  BY DEF LadderInv
<1> QED
  BY <1>1, <1>2, <1>3, <1>4, LadderInit, CopyInit, CopyStep, StepImplements, PTL
     DEF Spec, ImplementsRosca, Books!Spec

-----------------------------------------------------------------------------
(* The steps by whether a call failed in them *)

\* A step in which no call fails: the handler goes on to its next call.
Smooth(p) ==
    \/ ContributionStep(p) \/ SettleStep(p) \/ DeadlineStep(p)
    \/ \E c \in Cycles : SettleCycle(p, c)
    \/ \E c \in Cycles, u \in Members : SubmitContribution(p, u, c) /\ u \notin contributed[c]

\* Every step counts the call that failed in it, if one did.
LEMMA NextFates ==
  ASSUME TypeOK, [Next]_vars
  PROVE  \/ \E p \in Procs : Kind(p) /\ Smooth(p) /\ failures' = failures
         \/ \E p \in Procs : Kind(p) /\ failures' = failures + 1
         \/ UNCHANGED world /\ failures' = failures + 1 /\ proc' = [p \in Procs |-> Idle]
         \/ UNCHANGED <<world, proc, failures>>
<1> DEFINE Fine == \E p \in Procs : Kind(p) /\ Smooth(p) /\ failures' = failures
           Bad == \E p \in Procs : Kind(p) /\ failures' = failures + 1
<1>1. ASSUME NEW p \in Procs, ContributionStep(p) PROVE Fine
  BY <1>1, ContributionKind
     DEF Smooth, ContributionStep, Charge, Reveal, SaveContribution, Credit, allContributed
<1>2. ASSUME NEW p \in Procs, SettleStep(p) PROVE Fine
  BY <1>2, SettleKind
     DEF Smooth, SettleStep, List, Disburse, RecordPayout, Debit, SavePayout, SaveCycle, SaveGroup
<1>3. ASSUME NEW p \in Procs, DeadlineStep(p) PROVE Fine
  BY <1>3, DeadlineKind
     DEF Smooth, DeadlineStep, ProcessDeadlines, CurrentCycle, ListUnpaid, Reload, RecordDefault
<1>4. ASSUME NEW p \in Procs, NEW c \in Cycles, SettleCycle(p, c) PROVE Fine
  <2>1. Kind(p)
    BY <1>4 DEF SettleCycle, Kind, QuietKind, Others, TypeOK, ProcOK
  <2> QED
    BY <1>4, <2>1 DEF Smooth, SettleCycle
<1>5. ASSUME NEW p \in Procs, NEW c \in Cycles, NEW u \in Members, SubmitContribution(p, u, c) PROVE Fine \/ Bad
  <2>1. Kind(p)
    BY <1>5 DEF SubmitContribution, Kind, QuietKind, Others, TypeOK, ProcOK
  <2> QED
    BY <1>5, <2>1 DEF Smooth, SubmitContribution, Fail
<1>6. ASSUME NEW p \in Procs, CallError(p) \/ EscrowError(p) PROVE Bad
  BY <1>6, ErrorKind DEF CallError, EscrowError, Fail
<1>7. CASE Crash
  BY <1>7 DEF Crash, Fail
<1>8. CASE Tick \/ UNCHANGED vars
  BY <1>8 DEF Tick, vars
<1> QED
  BY <1>1, <1>2, <1>3, <1>4, <1>5, <1>6, <1>7, <1>8
     DEF Next, ThreadStep, SchedulerStep, AdminSettleCycle, Procs

\* The handler goes on to the call named.
Went(p, l) ==
    /\ proc'[p].pc = l /\ proc'[p].cycle = proc[p].cycle /\ proc'[p].user = proc[p].user
    /\ proc'[p].contribs = proc[p].contribs

\* A handler that goes on keeps what it knows.
LEMMA GotoWent ==
  ASSUME TypeOK, NEW p \in Procs, NEW l, Goto(p, l)
  PROVE  Went(p, l)
<1>1. proc \in [Procs -> Locals]
  BY DEF TypeOK, ProcOK
<1> QED
  BY <1>1 DEF Goto, Went, Locals

\* Where no call fails, each call takes effect once and the next one follows.
LEMMA SmoothCalls ==
  ASSUME TypeOK, NEW p \in Procs, Smooth(p)
  PROVE  /\ At(p, "charge") => ChargeEffect(p) /\ Went(p, "reveal")
         /\ At(p, "reveal") => RevealEffect(p) /\ Went(p, "saveContribution")
         /\ At(p, "saveContribution") => SaveContributionEffect(p) /\ Went(p, "credit")
         /\ At(p, "credit") => CreditEffect(p) /\ Went(p, "allContributed")
         /\ At(p, "disburse") => DisburseEffect(p) /\ Went(p, "recordPayout")
         /\ At(p, "recordPayout") => RecordPayoutEffect(p) /\ Went(p, "debit")
         /\ At(p, "debit") => DebitEffect(p) /\ Went(p, "savePayout")
         /\ At(p, "savePayout") => SavePayoutEffect(p) /\ Went(p, "saveCycle")
         /\ At(p, "saveCycle") => SaveCycleEffect(p)
         /\ At(p, "list") => List(p)
<1> SUFFICES ASSUME proc[p].pc \notin {"idle", "current", "unpaid", "default", "reload", "allContributed", "saveGroup"}
             PROVE  \/ At(p, "charge") /\ ChargeEffect(p) /\ Went(p, "reveal")
                    \/ At(p, "reveal") /\ RevealEffect(p) /\ Went(p, "saveContribution")
                    \/ At(p, "saveContribution") /\ SaveContributionEffect(p) /\ Went(p, "credit")
                    \/ At(p, "credit") /\ CreditEffect(p) /\ Went(p, "allContributed")
                    \/ At(p, "disburse") /\ DisburseEffect(p) /\ Went(p, "recordPayout")
                    \/ At(p, "recordPayout") /\ RecordPayoutEffect(p) /\ Went(p, "debit")
                    \/ At(p, "debit") /\ DebitEffect(p) /\ Went(p, "savePayout")
                    \/ At(p, "savePayout") /\ SavePayoutEffect(p) /\ Went(p, "saveCycle")
                    \/ At(p, "saveCycle") /\ SaveCycleEffect(p)
                    \/ At(p, "list") /\ List(p)
  BY DEF At
<1>1. CASE ContributionStep(p)
  BY <1>1, GotoWent DEF ContributionStep, Charge, Reveal, SaveContribution, Credit, allContributed, At
<1>2. CASE SettleStep(p)
  BY <1>2, GotoWent DEF SettleStep, List, Disburse, RecordPayout, Debit, SavePayout, SaveCycle, SaveGroup, At
<1>3. ~ DeadlineStep(p) /\ ~ (\E c \in Cycles : SettleCycle(p, c))
      /\ ~ (\E c \in Cycles, u \in Members : SubmitContribution(p, u, c))
  BY DEF DeadlineStep, ProcessDeadlines, CurrentCycle, ListUnpaid, Reload, RecordDefault,
     SettleCycle, SubmitContribution, CanStart, At
<1> QED
  BY <1>1, <1>2, <1>3 DEF Smooth

-----------------------------------------------------------------------------
(* Without a failure the records agree, whatever overlaps *)

\* Each record is ahead of the next one by what is in flight between the two.
AgreeInv ==
    failures = 0 =>
        /\ \A c \in Cycles, u \in Members :
             /\ charged[c][u] = made[c][u] + Cardinality(Unrevealed(c, u))
             /\ made[c][u] = credits[c][u] + Cardinality(Uncredited(c, u))
             /\ outflow[c][u] = debits[c][u] + Cardinality(Undebited(c, u))
        /\ \A c \in Cycles :
             /\ disbursed[c] = received[c] + Cardinality(Unrecorded(c))
             /\ received[c] = payouts[c] + Cardinality(Unsaved(c))

\* A step of one process adds it to what is in flight, takes it out, or neither.
LEMMA CardMoves ==
  ASSUME NEW S \in SUBSET Procs, NEW T \in SUBSET Procs, NEW p \in Procs, T \ {p} = S \ {p}
  PROVE  /\ Cardinality(S) \in Nat /\ Cardinality(T) \in Nat
         /\ p \notin S /\ p \in T => Cardinality(T) = Cardinality(S) + 1
         /\ p \in S /\ p \notin T => Cardinality(S) = Cardinality(T) + 1
         /\ (p \in S <=> p \in T) => Cardinality(T) = Cardinality(S)
<1>1. IsFiniteSet(S) /\ IsFiniteSet(T) /\ Cardinality(S) \in Nat /\ Cardinality(T) \in Nat
  BY ProcsFinite, FS_Subset, FS_CardinalityType
<1>2. ASSUME p \notin S, p \in T PROVE Cardinality(T) = Cardinality(S) + 1
  <2>1. T = S \cup {p}
    BY <1>2
  <2> QED
    BY <1>1, <1>2, <2>1, FS_AddElement
<1>3. ASSUME p \in S, p \notin T PROVE Cardinality(S) = Cardinality(T) + 1
  <2>1. S = T \cup {p}
    BY <1>3
  <2> QED
    BY <1>1, <1>3, <2>1, FS_AddElement
<1>4. ASSUME p \in S <=> p \in T PROVE T = S
  BY <1>4
<1> QED
  BY <1>1, <1>2, <1>3, <1>4

\* The counters move by one for the process's own cycle and member.
LEMMA CountIs ==
  ASSUME NEW f \in PerMember, NEW d \in Cycles, NEW v \in Members, NEW c \in Cycles, NEW u \in Members
  PROVE  Count(f, d, v)[c][u] = IF c = d /\ u = v THEN f[c][u] + 1 ELSE f[c][u]
  BY DEF Count, PerMember

\* Counters that move together move by one for the cycle and the members named.
LEMMA CountAllIs ==
  ASSUME NEW f \in PerMember, NEW d \in Cycles, NEW S, NEW c \in Cycles, NEW u \in Members
  PROVE  CountAll(f, d, S)[c][u] = IF c = d /\ u \in S THEN f[c][u] + 1 ELSE f[c][u]
  BY DEF CountAll, PerMember

\* Charges, reveals and credits, for one cycle and one member.
LEMMA ContributionAgrees ==
  ASSUME TypeOK, NEW p \in Procs, Kind(p), Smooth(p), NEW c \in Cycles, NEW u \in Members,
         charged[c][u] = made[c][u] + Cardinality(Unrevealed(c, u)),
         made[c][u] = credits[c][u] + Cardinality(Uncredited(c, u))
  PROVE  /\ charged'[c][u] = made'[c][u] + Cardinality(Unrevealed(c, u)')
         /\ made'[c][u] = credits'[c][u] + Cardinality(Uncredited(c, u)')
<1> DEFINE R == Unrevealed(c, u)
           S == Uncredited(c, u)
           Mine == proc[p].cycle = c /\ proc[p].user = u
<1>0. /\ R \in SUBSET Procs /\ S \in SUBSET Procs /\ R' \in SUBSET Procs /\ S' \in SUBSET Procs
      /\ R' \ {p} = R \ {p} /\ S' \ {p} = S \ {p}
  BY Arrivals DEF Unrevealed, Uncredited, Others, At
<1>1. /\ charged[c][u] \in Nat /\ made[c][u] \in Nat /\ credits[c][u] \in Nat /\ proc[p].cycle \in Cycles
      /\ charged \in PerMember /\ made \in PerMember /\ credits \in PerMember
      /\ proc[p].pc \in ContributionLabels => proc[p].user \in Members
  BY CounterTypes DEF TypeOK, ProcOK, Locals, WorldOK
<1>2. /\ p \in R <=> At(p, "reveal") /\ Mine
      /\ p \in S <=> proc[p].pc \in {"saveContribution", "credit"} /\ Mine
  BY DEF Unrevealed, Uncredited
<1>3. /\ p \in R' <=> At(p, "charge") /\ Mine
      /\ p \in S' <=> proc[p].pc \in {"reveal", "saveContribution"} /\ Mine
  BY Arrivals, SmoothCalls DEF Unrevealed, Uncredited, At, Went
<1>4. /\ charged'[c][u] = IF At(p, "charge") /\ Mine THEN charged[c][u] + 1 ELSE charged[c][u]
      /\ made'[c][u] = IF At(p, "reveal") /\ Mine THEN made[c][u] + 1 ELSE made[c][u]
      /\ credits'[c][u] = IF At(p, "credit") /\ Mine THEN credits[c][u] + 1 ELSE credits[c][u]
  <2>1. CASE At(p, "charge") /\ ChargeEffect(p)
    BY <1>1, <2>1, CountIs DEF ChargeEffect, chain, escrow, At, ContributionLabels
  <2>2. CASE At(p, "reveal") /\ RevealEffect(p)
    BY <1>1, <2>2, CountIs DEF RevealEffect, rail, escrow, At, ContributionLabels
  <2>3. CASE At(p, "credit") /\ CreditEffect(p)
    BY <1>1, <2>3, CountIs DEF CreditEffect, rail, chain, At, ContributionLabels
  <2>4. CASE proc[p].pc \notin {"charge", "reveal", "credit"}
    BY <2>4, ContributionFrame DEF At, SaveContributionEffect, rail, chain, escrow
  <2> QED
    BY <2>1, <2>2, <2>3, <2>4, SmoothCalls DEF At
<1> HIDE DEF R, S, Mine
<1>5. /\ Cardinality(R) \in Nat /\ Cardinality(R') \in Nat /\ Cardinality(S) \in Nat /\ Cardinality(S') \in Nat
      /\ p \notin R /\ p \in R' => Cardinality(R') = Cardinality(R) + 1
      /\ p \in R /\ p \notin R' => Cardinality(R) = Cardinality(R') + 1
      /\ (p \in R <=> p \in R') => Cardinality(R') = Cardinality(R)
      /\ p \notin S /\ p \in S' => Cardinality(S') = Cardinality(S) + 1
      /\ p \in S /\ p \notin S' => Cardinality(S) = Cardinality(S') + 1
      /\ (p \in S <=> p \in S') => Cardinality(S') = Cardinality(S)
  BY <1>0, CardMoves
<1>6. charged[c][u] = made[c][u] + Cardinality(R) /\ made[c][u] = credits[c][u] + Cardinality(S)
  BY DEF R, S
<1>7. charged'[c][u] = made'[c][u] + Cardinality(R') /\ made'[c][u] = credits'[c][u] + Cardinality(S')
  BY <1>1, <1>2, <1>3, <1>4, <1>5, <1>6 DEF At
<1> QED
  BY <1>7 DEF R, S

\* Disbursements, events on the chain and payout rows, for one cycle.
LEMMA PayoutAgrees ==
  ASSUME TypeOK, NEW p \in Procs, Kind(p), Smooth(p), NEW c \in Cycles,
         disbursed[c] = received[c] + Cardinality(Unrecorded(c)),
         received[c] = payouts[c] + Cardinality(Unsaved(c))
  PROVE  /\ disbursed'[c] = received'[c] + Cardinality(Unrecorded(c)')
         /\ received'[c] = payouts'[c] + Cardinality(Unsaved(c)')
<1> DEFINE R == Unrecorded(c)
           S == Unsaved(c)
           Mine == proc[p].cycle = c
<1>0. /\ R \in SUBSET Procs /\ S \in SUBSET Procs /\ R' \in SUBSET Procs /\ S' \in SUBSET Procs
      /\ R' \ {p} = R \ {p} /\ S' \ {p} = S \ {p}
  BY Arrivals DEF Unrecorded, Unsaved, Others, At
<1>1. /\ disbursed[c] \in Nat /\ received[c] \in Nat /\ payouts[c] \in Nat /\ proc[p].cycle \in Cycles
      /\ disbursed \in PerCycle /\ received \in PerCycle /\ payouts \in PerCycle
  BY DEF TypeOK, ProcOK, Locals, WorldOK, PerCycle
<1>2. /\ p \in R <=> At(p, "recordPayout") /\ Mine
      /\ p \in S <=> proc[p].pc \in {"debit", "savePayout"} /\ Mine
  BY DEF Unrecorded, Unsaved
<1>3. /\ p \in R' <=> At(p, "disburse") /\ Mine
      /\ p \in S' <=> proc[p].pc \in {"recordPayout", "debit"} /\ Mine
  BY Arrivals, SmoothCalls DEF Unrecorded, Unsaved, At, Went
<1>4. /\ disbursed'[c] = IF At(p, "disburse") /\ Mine THEN disbursed[c] + 1 ELSE disbursed[c]
      /\ received'[c] = IF At(p, "recordPayout") /\ Mine THEN received[c] + 1 ELSE received[c]
      /\ payouts'[c] = IF At(p, "savePayout") /\ Mine THEN payouts[c] + 1 ELSE payouts[c]
  <2>1. CASE At(p, "disburse") /\ DisburseEffect(p)
    BY <1>1, <2>1 DEF DisburseEffect, chain, rows, At, PerCycle
  <2>2. CASE At(p, "recordPayout") /\ RecordPayoutEffect(p)
    BY <1>1, <2>2 DEF RecordPayoutEffect, rail, rows, At, PerCycle
  <2>3. CASE At(p, "savePayout") /\ SavePayoutEffect(p)
    BY <1>1, <2>3 DEF SavePayoutEffect, rail, chain, At, PerCycle
  <2>4. CASE proc[p].pc \notin {"disburse", "recordPayout", "savePayout"}
    BY <2>4, PayoutFrame DEF At, DebitEffect, rail, chain, rows
  <2> QED
    BY <2>1, <2>2, <2>3, <2>4, SmoothCalls DEF At
<1> HIDE DEF R, S, Mine
<1>5. /\ Cardinality(R) \in Nat /\ Cardinality(R') \in Nat /\ Cardinality(S) \in Nat /\ Cardinality(S') \in Nat
      /\ p \notin R /\ p \in R' => Cardinality(R') = Cardinality(R) + 1
      /\ p \in R /\ p \notin R' => Cardinality(R) = Cardinality(R') + 1
      /\ (p \in R <=> p \in R') => Cardinality(R') = Cardinality(R)
      /\ p \notin S /\ p \in S' => Cardinality(S') = Cardinality(S) + 1
      /\ p \in S /\ p \notin S' => Cardinality(S) = Cardinality(S') + 1
      /\ (p \in S <=> p \in S') => Cardinality(S') = Cardinality(S)
  BY <1>0, CardMoves
<1>6. disbursed[c] = received[c] + Cardinality(R) /\ received[c] = payouts[c] + Cardinality(S)
  BY DEF R, S
<1>7. disbursed'[c] = received'[c] + Cardinality(R') /\ received'[c] = payouts'[c] + Cardinality(S')
  BY <1>1, <1>2, <1>3, <1>4, <1>5, <1>6 DEF At
<1> QED
  BY <1>7 DEF R, S

\* Money paid out and escrow debits, for one cycle and one member.
LEMMA DebitAgrees ==
  ASSUME TypeOK, NEW p \in Procs, Kind(p), Smooth(p), NEW c \in Cycles, NEW u \in Members,
         outflow[c][u] = debits[c][u] + Cardinality(Undebited(c, u))
  PROVE  outflow'[c][u] = debits'[c][u] + Cardinality(Undebited(c, u)')
<1> DEFINE R == Undebited(c, u)
           Mine == proc[p].cycle = c /\ u \in proc[p].contribs
<1>0. R \in SUBSET Procs /\ R' \in SUBSET Procs /\ R' \ {p} = R \ {p}
  BY Arrivals DEF Undebited, Others, At
<1>1. /\ outflow[c][u] \in Nat /\ debits[c][u] \in Nat /\ proc[p].cycle \in Cycles
      /\ outflow \in PerMember /\ debits \in PerMember
  BY CounterTypes DEF TypeOK, ProcOK, Locals, WorldOK
<1>2. p \in R <=> proc[p].pc \in {"recordPayout", "debit"} /\ Mine
  BY DEF Undebited
<1>3. p \in R' <=> proc[p].pc \in {"disburse", "recordPayout"} /\ Mine
  BY Arrivals, SmoothCalls DEF Undebited, At, Went
<1>4. /\ outflow'[c][u] = IF At(p, "disburse") /\ Mine THEN outflow[c][u] + 1 ELSE outflow[c][u]
      /\ debits'[c][u] = IF At(p, "debit") /\ Mine THEN debits[c][u] + 1 ELSE debits[c][u]
  <2>1. CASE At(p, "disburse") /\ DisburseEffect(p)
    BY <1>1, <2>1, CountAllIs DEF DisburseEffect, escrow, At
  <2>2. CASE At(p, "debit") /\ DebitEffect(p)
    BY <1>1, <2>2, CountAllIs DEF DebitEffect, rail, At
  <2>3. CASE proc[p].pc \notin {"disburse", "debit"}
    BY <2>3, PayoutFrame DEF At, RecordPayoutEffect, SavePayoutEffect, rail, escrow
  <2> QED
    BY <2>1, <2>2, <2>3, SmoothCalls DEF At
<1> HIDE DEF R, Mine
<1>5. /\ Cardinality(R) \in Nat /\ Cardinality(R') \in Nat
      /\ p \notin R /\ p \in R' => Cardinality(R') = Cardinality(R) + 1
      /\ p \in R /\ p \notin R' => Cardinality(R) = Cardinality(R') + 1
      /\ (p \in R <=> p \in R') => Cardinality(R') = Cardinality(R)
  BY <1>0, CardMoves
<1>6. outflow[c][u] = debits[c][u] + Cardinality(R)
  BY DEF R
<1>7. outflow'[c][u] = debits'[c][u] + Cardinality(R')
  BY <1>1, <1>2, <1>3, <1>4, <1>5, <1>6 DEF At
<1> QED
  BY <1>7 DEF R

\* Initially every count is zero and nothing is in flight.
LEMMA AgreeInit == Init => AgreeInv
<1> SUFFICES ASSUME Init PROVE AgreeInv
  OBVIOUS
<1>1. \A c, u : /\ Unrevealed(c, u) = {} /\ Uncredited(c, u) = {} /\ Unrecorded(c) = {}
                /\ Unsaved(c) = {} /\ Undebited(c, u) = {}
  BY DEF Init, Unrevealed, Uncredited, Unrecorded, Unsaved, Undebited, Idle, At
<1>2. Cardinality({}) = 0
  BY FS_EmptySet
<1>3. \A c \in Cycles : received[c] = 0 /\ disbursed[c] = 0 /\ payouts[c] = 0
  BY DEF Init
<1>4. \A c \in Cycles, u \in Members :
        /\ charged[c][u] = 0 /\ made[c][u] = 0 /\ credits[c][u] = 0 /\ debits[c][u] = 0 /\ outflow[c][u] = 0
  BY DEF Init
<1>5. ASSUME NEW c \in Cycles, NEW u \in Members
      PROVE  /\ charged[c][u] = made[c][u] + Cardinality(Unrevealed(c, u))
             /\ made[c][u] = credits[c][u] + Cardinality(Uncredited(c, u))
             /\ outflow[c][u] = debits[c][u] + Cardinality(Undebited(c, u))
  <2>1. Unrevealed(c, u) = {} /\ Uncredited(c, u) = {} /\ Undebited(c, u) = {}
    BY <1>1
  <2>2. 0 = 0 + Cardinality({})
    BY <1>2
  <2> QED
    BY <1>4, <2>1, <2>2
<1>6. ASSUME NEW c \in Cycles
      PROVE  /\ disbursed[c] = received[c] + Cardinality(Unrecorded(c))
             /\ received[c] = payouts[c] + Cardinality(Unsaved(c))
  BY <1>1, <1>2, <1>3
<1> QED
  BY <1>5, <1>6 DEF AgreeInv

\* Every step in which no call fails keeps the records that far apart.
LEMMA AgreeStep == TypeOK /\ AgreeInv /\ [Next]_vars => AgreeInv'
<1> SUFFICES ASSUME TypeOK, AgreeInv, [Next]_vars, failures' = 0 PROVE AgreeInv'
  BY DEF AgreeInv
<1>0. failures' # failures + 1
  BY DEF TypeOK
<1>1. ASSUME NEW p \in Procs, Kind(p), Smooth(p), failures' = failures PROVE AgreeInv'
  <2>1. failures = 0
    BY <1>1
  <2>2. ASSUME NEW c \in Cycles, NEW u \in Members
        PROVE  /\ charged'[c][u] = made'[c][u] + Cardinality(Unrevealed(c, u)')
               /\ made'[c][u] = credits'[c][u] + Cardinality(Uncredited(c, u)')
               /\ outflow'[c][u] = debits'[c][u] + Cardinality(Undebited(c, u)')
    BY <1>1, <2>1, ContributionAgrees, DebitAgrees DEF AgreeInv
  <2>3. ASSUME NEW c \in Cycles
        PROVE  /\ disbursed'[c] = received'[c] + Cardinality(Unrecorded(c)')
               /\ received'[c] = payouts'[c] + Cardinality(Unsaved(c)')
    BY <1>1, <2>1, PayoutAgrees DEF AgreeInv
  <2> QED
    BY <2>2, <2>3 DEF AgreeInv
<1>2. CASE UNCHANGED <<world, proc, failures>>
  <2>1. \A c, u : /\ Unrevealed(c, u)' = Unrevealed(c, u) /\ Uncredited(c, u)' = Uncredited(c, u)
                  /\ Unrecorded(c)' = Unrecorded(c) /\ Unsaved(c)' = Unsaved(c)
                  /\ Undebited(c, u)' = Undebited(c, u)
    BY <1>2 DEF Unrevealed, Uncredited, Unrecorded, Unsaved, Undebited, At
  <2>2. UNCHANGED <<charged, made, credits, outflow, debits, disbursed, received, payouts>> /\ failures = 0
    BY <1>2 DEF world, rows, escrow, rail, chain
  <2> QED
    BY <2>1, <2>2 DEF AgreeInv
<1> QED
  BY <1>0, <1>1, <1>2, NextFates

\* Without a failed call or a crash, provider, chain and escrow ledger agree once
\* nothing is in flight, however requests and the scheduler overlapped.
THEOREM RecordsAlwaysAgree == Spec => []RecordsAgree
<1>1. TypeOK /\ AgreeInv => RecordsAgree
  <2> SUFFICES ASSUME TypeOK, AgreeInv, AllIdle, failures = 0
               PROVE  /\ charged = made /\ made = credits
                      /\ disbursed = received /\ received = payouts /\ outflow = debits
    BY DEF RecordsAgree
  <2>1. \A c, u : /\ Unrevealed(c, u) = {} /\ Uncredited(c, u) = {} /\ Unrecorded(c) = {}
                  /\ Unsaved(c) = {} /\ Undebited(c, u) = {}
    BY DEF AllIdle, At, Unrevealed, Uncredited, Unrecorded, Unsaved, Undebited
  <2>2. \A c \in Cycles, u \in Members :
          charged[c][u] = made[c][u] /\ made[c][u] = credits[c][u] /\ outflow[c][u] = debits[c][u]
    <3> SUFFICES ASSUME NEW c \in Cycles, NEW u \in Members
                 PROVE  charged[c][u] = made[c][u] /\ made[c][u] = credits[c][u] /\ outflow[c][u] = debits[c][u]
      OBVIOUS
    <3> QED
      BY <2>1, FS_EmptySet, CounterTypes DEF AgreeInv
  <2>3. \A c \in Cycles : disbursed[c] = received[c] /\ received[c] = payouts[c]
    <3> SUFFICES ASSUME NEW c \in Cycles PROVE disbursed[c] = received[c] /\ received[c] = payouts[c]
      OBVIOUS
    <3>1. disbursed[c] \in Nat /\ received[c] \in Nat /\ payouts[c] \in Nat
      BY DEF TypeOK, WorldOK, PerCycle
    <3> QED
      BY <2>1, <3>1, FS_EmptySet DEF AgreeInv
  <2>4. /\ charged \in PerMember /\ made \in PerMember /\ credits \in PerMember /\ debits \in PerMember
        /\ outflow \in PerMember /\ disbursed \in PerCycle /\ received \in PerCycle /\ payouts \in PerCycle
    BY DEF TypeOK, WorldOK
  <2>5. ASSUME NEW f \in PerMember, NEW g \in PerMember, \A c \in Cycles, u \in Members : f[c][u] = g[c][u]
        PROVE  f = g
    <3>1. ASSUME NEW c \in Cycles PROVE f[c] = g[c]
      BY <2>5 DEF PerMember
    <3> QED
      BY <3>1 DEF PerMember
  <2>6. charged = made /\ made = credits /\ outflow = debits
    BY <2>2, <2>4, <2>5
  <2>7. disbursed = received /\ received = payouts
    BY <2>3, <2>4 DEF PerCycle
  <2> QED
    BY <2>6, <2>7
<1> QED
  BY <1>1, AgreeInit, AgreeStep, TypeCorrect, PTL DEF Spec

-----------------------------------------------------------------------------
(* Without a failure and while nothing overlaps, escrow nets out *)

Crediting(c, u) == \E p \in Procs : At(p, "credit") /\ proc[p].cycle = c /\ proc[p].user = u
Debited(c) == c \in settled \/ \E p \in Procs : proc[p].pc \in {"savePayout", "saveCycle"} /\ proc[p].cycle = c

\* What a handler knows of the rows of its cycle is still so.
RowsKnown(j) ==
    /\ j.pc \in {"charge", "reveal", "saveContribution"} => j.user \notin contributed[j.cycle]
    /\ j.pc = "credit" => j.user \in contributed[j.cycle]
    /\ j.pc \in {"disburse", "recordPayout", "debit"} => j.contribs = contributed[j.cycle]

\* A row is credited once, unless that is the next call, and debited once, from the
\* debit of its cycle on.
EscrowInv ==
    failures = 0 =>
        /\ \A c \in Cycles, u \in Members :
             /\ credits[c][u] = IF u \in contributed[c] /\ ~ Crediting(c, u) THEN 1 ELSE 0
             /\ debits[c][u] = IF u \in contributed[c] /\ Debited(c) THEN 1 ELSE 0
        /\ \A p \in Procs : RowsKnown(proc[p])

\* Initially there are no rows and no entries.
LEMMA EscrowInit == Init => EscrowInv
  BY DEF Init, EscrowInv, RowsKnown, Idle

\* A handler that starts without a failed call charges a member who has no row.
LEMMA SmoothStarts ==
  ASSUME TypeOK, NEW p \in Procs, Smooth(p), proc'[p].pc = "charge"
  PROVE  proc'[p].user \notin contributed[proc'[p].cycle] /\ UNCHANGED world
<1>0. proc \in [Procs -> Locals]
  BY DEF TypeOK, ProcOK
<1>1. ASSUME NEW c \in Cycles, NEW u \in Members, SubmitContribution(p, u, c), u \notin contributed[c]
      PROVE  proc'[p].user \notin contributed[proc'[p].cycle] /\ UNCHANGED world
  BY <1>0, <1>1 DEF SubmitContribution, Idle
<1>2. ASSUME NEW l, Goto(p, l) PROVE proc'[p].pc = l
  BY <1>2, GotoWent DEF Went
<1>3. ASSUME Return(p) PROVE proc'[p].pc = "idle"
  BY <1>0, <1>3 DEF Return, Idle
<1>4. ~ ContributionStep(p)
  BY <1>2, <1>3 DEF ContributionStep, Charge, Reveal, SaveContribution, Credit, allContributed
<1>5. ASSUME List(p) PROVE FALSE
  BY <1>0, <1>5 DEF List, Locals
<1>6. ~ SettleStep(p)
  BY <1>2, <1>3, <1>5 DEF SettleStep, Disburse, RecordPayout, Debit, SavePayout, SaveCycle, SaveGroup, SettleReturn
<1>7. ~ DeadlineStep(p)
  <2>1. ASSUME NEW n, proc' = [proc EXCEPT ![p] = [Idle EXCEPT !.pc = "current", !.g = group, !.now = n]]
        PROVE  FALSE
    BY <1>0, <2>1 DEF Idle
  <2>2. ~ CurrentCycle(p)
    BY <1>0, <1>3 DEF CurrentCycle, Locals
  <2>3. ~ ListUnpaid(p)
    BY <1>0 DEF ListUnpaid, Locals
  <2>4. ASSUME NEW u \in Members, RecordDefault(p, u) PROVE FALSE
    BY <1>0, <2>4 DEF RecordDefault, Locals
  <2>5. ~ ProcessDeadlines(p) /\ ~ Reload(p)
    BY <1>3, <2>1 DEF ProcessDeadlines, Reload
  <2> QED
    BY <2>2, <2>3, <2>4, <2>5 DEF DeadlineStep
<1>8. ASSUME NEW c \in Cycles, SettleCycle(p, c) PROVE FALSE
  BY <1>0, <1>8 DEF SettleCycle, Idle
<1> QED
  BY <1>1, <1>4, <1>6, <1>7, <1>8 DEF Smooth

\* A settlement lists the rows of its cycle.
LEMMA SmoothLists ==
  ASSUME TypeOK, NEW p \in Procs, Kind(p), proc'[p].pc = "disburse"
  PROVE  List(p)
<1>0. proc \in [Procs -> Locals]
  BY DEF TypeOK, ProcOK
<1>1. ~ CallKind(p)
  BY MovesFields DEF CallKind
<1>2. ~ DefaultKind(p)
  <2>1. ASSUME NEW u, NEW l \in {"default", "list"},
               proc'[p] = [proc[p] EXCEPT !.unpaid = proc[p].unpaid \ {u}, !.pc = l]
        PROVE  FALSE
    BY <1>0, <2>1 DEF Locals
  <2>2. proc'[p] # Idle
    BY DEF Idle
  <2> QED
    BY <2>1, <2>2 DEF DefaultKind
<1>3. QuietKind(p)
  BY <1>1, <1>2 DEF Kind
<1>4. proc'[p] # Idle
  BY DEF Idle
<1>5. ASSUME NEW l, proc'[p] = [proc[p] EXCEPT !.pc = l] PROVE l = "disburse"
  BY <1>0, <1>5 DEF Locals
<1>6. ASSUME NEW n, proc' = [proc EXCEPT ![p] = [Idle EXCEPT !.pc = "current", !.g = group, !.now = n]]
      PROVE  FALSE
  BY <1>0, <1>6 DEF Idle
<1>7. ASSUME Return(p) PROVE FALSE
  BY <1>0, <1>7 DEF Return, Idle
<1>8. ~ CurrentCycle(p) /\ ~ ListUnpaid(p)
  BY <1>0, <1>7 DEF CurrentCycle, ListUnpaid, Locals
<1>9. ~ ProcessDeadlines(p) /\ ~ Reload(p)
  BY <1>6, <1>7 DEF ProcessDeadlines, Reload
<1>10. ASSUME NEW c \in Cycles, SettleCycle(p, c) PROVE FALSE
  BY <1>0, <1>10 DEF SettleCycle, Idle
<1>11. ASSUME NEW c \in Cycles, NEW u \in Members, SubmitContribution(p, u, c) PROVE FALSE
  BY <1>0, <1>11 DEF SubmitContribution, Idle
<1> QED
  BY <1>3, <1>4, <1>5, <1>8, <1>9, <1>10, <1>11 DEF QuietKind

\* A step of one process changes the rows of its own cycle, and none but by a save.
LEMMA RowsMove ==
  ASSUME TypeOK, NEW p \in Procs, Kind(p), Smooth(p), NEW c \in Cycles, NEW u \in Members
  PROVE  u \in contributed'[c] <=>
           u \in contributed[c] \/ (At(p, "saveContribution") /\ proc[p].cycle = c /\ proc[p].user = u)
<1>1. contributed \in [Cycles -> SUBSET Members]
  BY DEF TypeOK, WorldOK
<1>2. CASE At(p, "saveContribution")
  BY <1>1, <1>2, SmoothCalls DEF SaveContributionEffect
<1>3. CASE ~ At(p, "saveContribution")
  BY <1>3, ContributionFrame DEF ChargeEffect, RevealEffect, CreditEffect, rows
<1> QED
  BY <1>2, <1>3

\* A process that goes on knows the rows as they are.
LEMMA KnownStep ==
  ASSUME TypeOK, SerialInv, NEW p \in Procs, Kind(p), Smooth(p), \A q \in Procs : RowsKnown(proc[q]),
         NEW q \in Procs
  PROVE  RowsKnown(proc[q])'
<1>0. proc \in [Procs -> Locals] /\ contributed \in [Cycles -> SUBSET Members] /\ proc[p].cycle \in Cycles
  BY DEF TypeOK, ProcOK, WorldOK, Locals
<1>1. CASE q # p
  <2>1. proc'[q] = proc[q] /\ (At(q, "idle") \/ UNCHANGED world) /\ RowsKnown(proc[q])
    BY <1>1, OthersRest
  <2> QED
    BY <2>1 DEF RowsKnown, At, world, rows
<1>2. CASE q = p
  <2>0. RowsKnown(proc[p])
    OBVIOUS
  <2>1. proc'[p].pc = "charge" => proc'[p].user \notin contributed'[proc'[p].cycle]
    BY SmoothStarts DEF world, rows
  <2>2. proc'[p].pc = "reveal" => proc'[p].user \notin contributed'[proc'[p].cycle]
    BY <2>0, Arrivals DEF RowsKnown, At, ChargeEffect, rows
  <2>3. proc'[p].pc = "saveContribution" => proc'[p].user \notin contributed'[proc'[p].cycle]
    BY <2>0, Arrivals DEF RowsKnown, At, RevealEffect, rows
  <2>4. proc'[p].pc = "credit" => proc'[p].user \in contributed'[proc'[p].cycle]
    BY <1>0, Arrivals, SmoothCalls DEF SaveContributionEffect
  <2>5. proc'[p].pc = "disburse" => proc'[p].contribs = contributed'[proc'[p].cycle]
    <3> SUFFICES ASSUME proc'[p].pc = "disburse" PROVE proc'[p].contribs = contributed'[proc'[p].cycle]
      OBVIOUS
    <3>1. List(p)
      BY SmoothLists
    <3>2. contributed' = contributed
      BY <3>1 DEF List, world, rows
    <3>3. proc'[p].cycle = proc[p].cycle /\ proc'[p].contribs = contributed[proc[p].cycle]
      BY <1>0, <3>1 DEF List, Locals
    <3> QED
      BY <3>2, <3>3
  <2>6. proc'[p].pc = "recordPayout" => proc'[p].contribs = contributed'[proc'[p].cycle]
    BY <2>0, Arrivals DEF RowsKnown, At, DisburseEffect, rows
  <2>7. proc'[p].pc = "debit" => proc'[p].contribs = contributed'[proc'[p].cycle]
    BY <2>0, Arrivals DEF RowsKnown, At, RecordPayoutEffect, rows
  <2> QED
    BY <1>2, <2>1, <2>2, <2>3, <2>4, <2>5, <2>6, <2>7 DEF RowsKnown
<1> QED
  BY <1>1, <1>2

\* Who credits and what is debited, after a step.
LEMMA EntriesMove ==
  ASSUME TypeOK, SerialInv, NEW p \in Procs, Kind(p), Smooth(p), NEW c \in Cycles, NEW u \in Members
  PROVE  /\ Crediting(c, u)' <=> \/ At(p, "saveContribution") /\ proc[p].cycle = c /\ proc[p].user = u
                                 \/ Crediting(c, u) /\ ~ At(p, "credit")
         /\ Debited(c)' <=> Debited(c) \/ (At(p, "debit") /\ proc[p].cycle = c)
<1>0. \A q \in Procs \ {p} : proc'[q] = proc[q] /\ (At(q, "idle") \/ At(p, "idle"))
  BY OthersRest DEF SerialInv
<1>1. Crediting(c, u)' <=> \/ At(p, "saveContribution") /\ proc[p].cycle = c /\ proc[p].user = u
                           \/ Crediting(c, u) /\ ~ At(p, "credit")
  <2>1. proc'[p].pc = "credit" <=> At(p, "saveContribution")
    BY Arrivals, SmoothCalls DEF Went
  <2>2. At(p, "saveContribution") => proc'[p].cycle = proc[p].cycle /\ proc'[p].user = proc[p].user
    BY SmoothCalls DEF Went
  <2>3. Crediting(c, u)' <=>
          \/ proc'[p].pc = "credit" /\ proc'[p].cycle = c /\ proc'[p].user = u
          \/ \E q \in Procs \ {p} : At(q, "credit") /\ proc[q].cycle = c /\ proc[q].user = u
    BY <1>0 DEF Crediting, At
  <2>4. (\E q \in Procs \ {p} : At(q, "credit") /\ proc[q].cycle = c /\ proc[q].user = u) <=>
          Crediting(c, u) /\ ~ At(p, "credit")
    BY <1>0 DEF Crediting, At
  <2> QED
    BY <2>1, <2>2, <2>3, <2>4
<1>2. Debited(c)' <=> Debited(c) \/ (At(p, "debit") /\ proc[p].cycle = c)
  <2>1. /\ proc'[p].pc = "savePayout" <=> At(p, "debit")
        /\ proc'[p].pc = "saveCycle" <=> At(p, "savePayout")
        /\ proc[p].pc \in {"debit", "savePayout"} => proc'[p].cycle = proc[p].cycle
    BY Arrivals, SmoothCalls DEF Went, At
  <2>2. c \in settled' <=> c \in settled \/ (At(p, "saveCycle") /\ proc[p].cycle = c)
    <3>1. CASE At(p, "saveCycle")
      BY <3>1, SmoothCalls DEF SaveCycleEffect
    <3>2. CASE ~ At(p, "saveCycle")
      BY <3>2 DEF Kind, CallKind, DefaultKind, QuietKind, Moves, ChargeEffect, RevealEffect,
         SaveContributionEffect, CreditEffect, DisburseEffect, RecordPayoutEffect, DebitEffect,
         SavePayoutEffect, SaveGroupEffect, RecordDefaultEffect, world, rows
    <3> QED
      BY <3>1, <3>2
  <2>3. Debited(c)' <=>
          \/ c \in settled' \/ (proc'[p].pc \in {"savePayout", "saveCycle"} /\ proc'[p].cycle = c)
          \/ \E q \in Procs \ {p} : proc[q].pc \in {"savePayout", "saveCycle"} /\ proc[q].cycle = c
    BY <1>0 DEF Debited
  <2>4. Debited(c) <=>
          \/ c \in settled \/ (proc[p].pc \in {"savePayout", "saveCycle"} /\ proc[p].cycle = c)
          \/ \E q \in Procs \ {p} : proc[q].pc \in {"savePayout", "saveCycle"} /\ proc[q].cycle = c
    BY DEF Debited
  <2> QED
    BY <2>1, <2>2, <2>3, <2>4 DEF At
<1> QED
  BY <1>1, <1>2

\* A step in which no call fails keeps the entries of one row.
LEMMA EntriesStep ==
  ASSUME TypeOK, SerialInv, NEW p \in Procs, Kind(p), Smooth(p), RowsKnown(proc[p]),
         NEW c \in Cycles, NEW u \in Members,
         credits[c][u] = IF u \in contributed[c] /\ ~ Crediting(c, u) THEN 1 ELSE 0,
         debits[c][u] = IF u \in contributed[c] /\ Debited(c) THEN 1 ELSE 0
  PROVE  /\ credits'[c][u] = IF u \in contributed'[c] /\ ~ Crediting(c, u)' THEN 1 ELSE 0
         /\ debits'[c][u] = IF u \in contributed'[c] /\ Debited(c)' THEN 1 ELSE 0
<1> DEFINE Mine == proc[p].cycle = c /\ proc[p].user = u
<1>0. /\ proc[p].cycle \in Cycles /\ credits \in PerMember /\ debits \in PerMember
      /\ proc[p].pc \in ContributionLabels => proc[p].user \in Members
  BY DEF TypeOK, ProcOK, Locals, WorldOK
<1>1. /\ credits'[c][u] = IF At(p, "credit") /\ Mine THEN credits[c][u] + 1 ELSE credits[c][u]
      /\ debits'[c][u] = IF At(p, "debit") /\ proc[p].cycle = c /\ u \in proc[p].contribs
                           THEN debits[c][u] + 1 ELSE debits[c][u]
  <2>1. CASE At(p, "credit")
    BY <1>0, <2>1, SmoothCalls, CountIs DEF CreditEffect, At, ContributionLabels
  <2>2. CASE At(p, "debit")
    BY <1>0, <2>2, SmoothCalls, CountAllIs DEF DebitEffect, At
  <2>3. CASE ~ At(p, "credit") /\ ~ At(p, "debit")
    BY <2>3, ContributionFrame, PayoutFrame DEF ChargeEffect, RevealEffect, SaveContributionEffect,
       DisburseEffect, RecordPayoutEffect, SavePayoutEffect, escrow
  <2> QED
    BY <2>1, <2>2, <2>3
<1>2. /\ At(p, "credit") /\ Mine => Crediting(c, u) /\ u \in contributed[c]
      /\ At(p, "saveContribution") /\ Mine => u \notin contributed[c]
      /\ At(p, "debit") /\ proc[p].cycle = c => (u \in proc[p].contribs <=> u \in contributed[c])
  BY DEF Crediting, RowsKnown, At
<1>3. proc[p].pc \in {"saveContribution", "debit"} /\ proc[p].cycle = c => ~ Debited(c)
  <2> SUFFICES ASSUME proc[p].pc \in {"saveContribution", "debit"}, proc[p].cycle = c PROVE ~ Debited(c)
    OBVIOUS
  <2>1. c \notin settled
    BY DEF SerialInv, OpenLabels, Labels
  <2>2. \A q \in Procs \ {p} : At(q, "idle")
    BY DEF SerialInv, At
  <2> QED
    BY <2>1, <2>2 DEF Debited, At
<1>4. At(p, "credit") /\ Crediting(c, u) => Mine
  <2>1. At(p, "credit") => \A q \in Procs \ {p} : At(q, "idle")
    BY DEF SerialInv, At
  <2> QED
    BY <2>1 DEF Crediting, At
<1>5. u \in contributed'[c] <=> u \in contributed[c] \/ (At(p, "saveContribution") /\ Mine)
  BY RowsMove
<1>6. /\ Crediting(c, u)' <=> (At(p, "saveContribution") /\ Mine) \/ (Crediting(c, u) /\ ~ At(p, "credit"))
      /\ Debited(c)' <=> Debited(c) \/ (At(p, "debit") /\ proc[p].cycle = c)
  BY EntriesMove
<1>7. credits'[c][u] = IF u \in contributed'[c] /\ ~ Crediting(c, u)' THEN 1 ELSE 0
  BY <1>1, <1>2, <1>4, <1>5, <1>6 DEF At
<1>8. debits'[c][u] = IF u \in contributed'[c] /\ Debited(c)' THEN 1 ELSE 0
  BY <1>1, <1>2, <1>3, <1>5, <1>6 DEF At
<1> QED
  BY <1>7, <1>8

\* Every step keeps the ledger in step with the rows.
LEMMA EscrowStep == TypeOK /\ SerialInv /\ EscrowInv /\ [Next]_vars => EscrowInv'
<1> SUFFICES ASSUME TypeOK, SerialInv, EscrowInv, [Next]_vars, failures' = 0 PROVE EscrowInv'
  BY DEF EscrowInv
<1>0. failures' # failures + 1
  BY DEF TypeOK
<1>1. ASSUME NEW p \in Procs, Kind(p), Smooth(p), failures' = failures PROVE EscrowInv'
  <2>1. failures = 0 /\ \A q \in Procs : RowsKnown(proc[q])
    BY <1>1 DEF EscrowInv
  <2>2. \A q \in Procs : RowsKnown(proc[q])'
    BY <1>1, <2>1, KnownStep
  <2>3. ASSUME NEW c \in Cycles, NEW u \in Members
        PROVE  /\ credits'[c][u] = IF u \in contributed'[c] /\ ~ Crediting(c, u)' THEN 1 ELSE 0
               /\ debits'[c][u] = IF u \in contributed'[c] /\ Debited(c)' THEN 1 ELSE 0
    BY <1>1, <2>1, EntriesStep DEF EscrowInv
  <2> QED
    BY <2>2, <2>3 DEF EscrowInv
<1>2. CASE UNCHANGED <<world, proc, failures>>
  BY <1>2 DEF EscrowInv, RowsKnown, Crediting, Debited, At, world, rows, escrow
<1> QED
  BY <1>0, <1>1, <1>2, NextFates

\* While nothing overlaps or fails, escrow holds for each member exactly the
\* contributions to the cycles that are not settled yet.
THEOREM EscrowBalances ==
  ASSUME ~ Overlap
  PROVE  Spec => []EscrowNetsOut
<1>1. TypeOK /\ EscrowInv => EscrowNetsOut
  <2> SUFFICES ASSUME EscrowInv, AllIdle, failures = 0, NEW c \in Cycles, NEW u \in Members
               PROVE  credits[c][u] - debits[c][u] = IF u \in contributed[c] /\ c \notin settled THEN 1 ELSE 0
    BY DEF EscrowNetsOut
  <2>1. ~ Crediting(c, u) /\ (Debited(c) <=> c \in settled)
    BY DEF AllIdle, At, Crediting, Debited
  <2> QED
    BY <2>1 DEF EscrowInv
<1> QED
  BY <1>1, SerialInvariant, EscrowInit, EscrowStep, TypeCorrect, PTL DEF Spec

-----------------------------------------------------------------------------
(* While nothing overlaps, what is done again was preceded by a failure *)

PaidOut == {"recordPayout", "debit", "savePayout", "saveCycle"}

\* A member is about to be charged, or has been and has no row yet.
Charging(c, u) == \E p \in Procs : At(p, "charge") /\ proc[p].cycle = c /\ proc[p].user = u
Paying(c, u) ==
    \E p \in Procs : proc[p].pc \in {"reveal", "saveContribution"} /\ proc[p].cycle = c /\ proc[p].user = u

\* A cycle has been disbursed, or a member's default recorded, by a settlement that
\* is still under way.
PayingOut(c) == \E p \in Procs : proc[p].pc \in PaidOut /\ proc[p].cycle = c
Reported(c, u) ==
    \E p \in Procs : /\ proc[p].cycle = c
                     /\ \/ proc[p].pc \in PaidOut \cup {"list", "disburse"}
                        \/ At(p, "default") /\ u \notin proc[p].unpaid

\* What is done is done once more than calls have failed; what is yet to be done has
\* been done no more often than that.
Within(n, done) == n <= failures + 1 /\ (~ done => n <= failures)
Disbursed(c) == c \in settled \/ PayingOut(c)
Charged(c, u) == (u \in contributed[c] /\ ~ Charging(c, u)) \/ Paying(c, u)
Defaulted(c, u) == c \in settled \/ Reported(c, u)

RepeatInv ==
    \A c \in Cycles :
        /\ Within(disbursed[c], Disbursed(c))
        /\ \A u \in Members : Within(charged[c][u], Charged(c, u)) /\ Within(missed[c][u], Defaulted(c, u))

\* Initially nothing has been done.
LEMMA RepeatInit == Init => RepeatInv
<1> SUFFICES ASSUME Init PROVE RepeatInv
  OBVIOUS
<1>1. failures = 0 /\ \A c \in Cycles : disbursed[c] = 0
  BY DEF Init
<1>2. \A c \in Cycles, u \in Members : charged[c][u] = 0 /\ missed[c][u] = 0
  BY DEF Init
<1> QED
  BY <1>1, <1>2 DEF RepeatInv, Within

\* Serially, a process under way is the only one.
LEMMA Alone ==
  ASSUME SerialInv, NEW p \in Procs, ~ At(p, "idle"), NEW q \in Procs, ~ At(q, "idle")
  PROVE  q = p
  BY DEF SerialInv

\* A step does one thing at most, and one that is yet to be done.
LEMMA RepeatMoves ==
  ASSUME TypeOK, SerialInv, RepeatInv, NEW p \in Procs, Kind(p), NEW c \in Cycles, NEW u \in Members
  PROVE  /\ \/ disbursed'[c] = disbursed[c]
            \/ At(p, "disburse") /\ proc[p].cycle = c /\ disbursed'[c] = disbursed[c] + 1 /\ disbursed[c] <= failures
         /\ \/ charged'[c][u] = charged[c][u]
            \/ /\ At(p, "charge") /\ proc[p].cycle = c /\ proc[p].user = u
               /\ charged'[c][u] = charged[c][u] + 1 /\ charged[c][u] <= failures
         /\ \/ missed'[c][u] = missed[c][u]
            \/ /\ At(p, "default") /\ proc[p].cycle = c /\ RecordDefaultEffect(p, u)
               /\ missed'[c][u] = missed[c][u] + 1 /\ missed[c][u] <= failures
<1>0. /\ proc[p].cycle \in Cycles /\ charged \in PerMember /\ missed \in PerMember /\ disbursed \in PerCycle
      /\ proc[p].pc \in ContributionLabels => proc[p].user \in Members
      /\ proc[p].unpaid \subseteq Members
  BY DEF TypeOK, ProcOK, Locals, WorldOK
<1>1. CASE At(p, "disburse") /\ DisburseEffect(p)
  <2>1. charged' = charged /\ missed' = missed
    BY <1>1 DEF DisburseEffect, chain
  <2>2. CASE proc[p].cycle = c
    <3>1. disbursed'[c] = disbursed[c] + 1
      BY <1>0, <1>1, <2>2 DEF DisburseEffect, PerCycle
    <3>2. c \notin settled
      BY <1>1, <2>2 DEF SerialInv, At, OpenLabels, Labels
    <3>3. ~ PayingOut(c)
      BY <1>1, Alone DEF PayingOut, PaidOut, At
    <3>4. disbursed[c] <= failures
      BY <3>2, <3>3 DEF RepeatInv, Within, Disbursed
    <3> QED
      BY <1>1, <2>1, <2>2, <3>1, <3>4
  <2>3. CASE proc[p].cycle # c
    BY <1>0, <1>1, <2>1, <2>3 DEF DisburseEffect, PerCycle
  <2> QED
    BY <2>2, <2>3
<1>2. CASE At(p, "charge") /\ ChargeEffect(p)
  <2>1. disbursed' = disbursed /\ missed' = missed
    BY <1>2 DEF ChargeEffect, chain
  <2>2. charged'[c][u] = IF c = proc[p].cycle /\ u = proc[p].user THEN charged[c][u] + 1 ELSE charged[c][u]
    BY <1>0, <1>2, CountIs DEF ChargeEffect, At, ContributionLabels
  <2>3. CASE c = proc[p].cycle /\ u = proc[p].user
    <3>1. Charging(c, u)
      BY <1>2, <2>3 DEF Charging
    <3>2. ~ Paying(c, u)
      BY <1>2, Alone DEF Paying, At
    <3>3. charged[c][u] <= failures
      BY <3>1, <3>2 DEF RepeatInv, Within, Charged
    <3> QED
      BY <1>2, <2>1, <2>2, <2>3, <3>3
  <2> QED
    BY <2>1, <2>2, <2>3
<1>3. CASE DefaultKind(p)
  <2>1. PICK v \in proc[p].unpaid : RecordDefaultEffect(p, v)
    BY <1>3 DEF DefaultKind
  <2>2. disbursed' = disbursed /\ charged' = charged /\ At(p, "default")
    BY <1>3, <2>1 DEF DefaultKind, RecordDefaultEffect, rail
  <2>3. missed'[c][u] = IF c = proc[p].cycle /\ u = v THEN missed[c][u] + 1 ELSE missed[c][u]
    BY <1>0, <2>1, CountIs DEF RecordDefaultEffect
  <2>4. CASE c = proc[p].cycle /\ u = v
    <3>1. c \notin settled
      BY <2>2, <2>4 DEF SerialInv, At, OpenLabels, Labels
    <3>2. ~ Reported(c, u)
      BY <2>2, <2>4, Alone DEF Reported, PaidOut, At
    <3>3. missed[c][u] <= failures
      BY <3>1, <3>2 DEF RepeatInv, Within, Defaulted
    <3> QED
      BY <2>1, <2>2, <2>3, <2>4, <3>3
  <2> QED
    BY <2>2, <2>3, <2>4
<1>4. CASE UNCHANGED <<disbursed, charged, missed>>
  BY <1>4
<1> QED
  BY <1>1, <1>2, <1>3, <1>4 DEF Kind, CallKind, QuietKind, Moves, RevealEffect, SaveContributionEffect,
     CreditEffect, RecordPayoutEffect, DebitEffect, SavePayoutEffect, SaveCycleEffect, SaveGroupEffect,
     world, rail, chain

\* A failed call allows one repetition more.
LEMMA FailureAllows ==
  ASSUME TypeOK, TypeOK', SerialInv, RepeatInv, NEW p \in Procs, Kind(p), failures' = failures + 1
  PROVE  RepeatInv'
<1>1. ASSUME NEW c \in Cycles, NEW u \in Members
      PROVE  disbursed'[c] <= failures + 1 /\ charged'[c][u] <= failures + 1 /\ missed'[c][u] <= failures + 1
  <2>1. disbursed[c] \in Nat /\ charged[c][u] \in Nat /\ missed[c][u] \in Nat /\ failures \in Nat
    BY DEF TypeOK, WorldOK, PerCycle, PerMember
  <2>2. disbursed[c] <= failures + 1 /\ charged[c][u] <= failures + 1 /\ missed[c][u] <= failures + 1
    BY DEF RepeatInv, Within
  <2> QED
    BY <2>1, <2>2, RepeatMoves
<1>2. ASSUME NEW c \in Cycles PROVE disbursed'[c] <= failures + 1
  <2>1. PICK u : u \in Members
    BY MembersAssumption, FS_EmptySet
  <2> QED
    BY <1>1, <2>1
<1>3. failures \in Nat /\ disbursed' \in PerCycle /\ charged' \in PerMember /\ missed' \in PerMember
  BY DEF TypeOK, WorldOK
<1>4. ASSUME NEW n \in Nat, n <= failures + 1, NEW done PROVE n <= failures' + 1 /\ (~ done => n <= failures')
  BY <1>3, <1>4
<1>5. ASSUME NEW c \in Cycles PROVE Within(disbursed[c], Disbursed(c))'
  <2>1. disbursed'[c] \in Nat
    BY <1>3 DEF PerCycle
  <2> QED
    BY <1>2, <1>4, <2>1 DEF Within
<1>6. ASSUME NEW c \in Cycles, NEW u \in Members
      PROVE  Within(charged[c][u], Charged(c, u))' /\ Within(missed[c][u], Defaulted(c, u))'
  <2>1. charged'[c][u] \in Nat /\ missed'[c][u] \in Nat
    BY <1>3 DEF PerMember
  <2> QED
    BY <1>1, <1>4, <2>1 DEF Within
<1> QED
  BY <1>5, <1>6 DEF RepeatInv

\* A settled cycle stays settled.
LEMMA SettledGrows ==
  ASSUME NEW p \in Procs, Kind(p)
  PROVE  settled \subseteq settled'
  BY DEF Kind, CallKind, DefaultKind, QuietKind, ChargeEffect, RevealEffect, SaveContributionEffect, CreditEffect,
     DisburseEffect, RecordPayoutEffect, DebitEffect, SavePayoutEffect, SaveCycleEffect, SaveGroupEffect,
     RecordDefaultEffect, rows, world

\* Where no call fails, a disbursed cycle is on the way to its settled row.
LEMMA DisbursedStays ==
  ASSUME TypeOK, NEW p \in Procs, Kind(p), Smooth(p), NEW c \in Cycles,
         Disbursed(c) \/ (At(p, "disburse") /\ proc[p].cycle = c)
  PROVE  Disbursed(c)'
<1>0. settled \subseteq settled'
  BY SettledGrows
<1>1. CASE c \in settled
  BY <1>0, <1>1 DEF Disbursed
<1>2. CASE proc[p].cycle = c /\ proc[p].pc \in {"disburse", "recordPayout", "debit", "savePayout"}
  <2>1. proc'[p].pc \in PaidOut /\ proc'[p].cycle = c
    BY <1>2, SmoothCalls DEF At, Went, PaidOut
  <2> QED
    BY <2>1 DEF Disbursed, PayingOut
<1>3. CASE proc[p].cycle = c /\ At(p, "saveCycle")
  <2>1. c \in settled'
    BY <1>3, SmoothCalls DEF SaveCycleEffect
  <2> QED
    BY <2>1 DEF Disbursed
<1>4. ASSUME NEW q \in Procs, q # p, proc[q].pc \in PaidOut, proc[q].cycle = c PROVE PayingOut(c)'
  <2>1. proc'[q] = proc[q]
    BY <1>4, Arrivals DEF Others
  <2> QED
    BY <1>4, <2>1 DEF PayingOut
<1> QED
  BY <1>1, <1>2, <1>3, <1>4 DEF Disbursed, PayingOut, PaidOut, At

\* Where no call fails, a member who was charged gets a row and is not charged again.
LEMMA ChargedStays ==
  ASSUME TypeOK, SerialInv, NEW p \in Procs, Kind(p), Smooth(p), NEW c \in Cycles, NEW u \in Members,
         Charged(c, u) \/ (At(p, "charge") /\ proc[p].cycle = c /\ proc[p].user = u)
  PROVE  Charged(c, u)'
<1> DEFINE Mine == proc[p].cycle = c /\ proc[p].user = u
<1>1. CASE Mine /\ proc[p].pc \in {"charge", "reveal"}
  <2>1. proc'[p].pc \in {"reveal", "saveContribution"} /\ proc'[p].cycle = c /\ proc'[p].user = u
    BY <1>1, SmoothCalls DEF At, Went
  <2> QED
    BY <2>1 DEF Charged, Paying
<1>2. ASSUME NEW q \in Procs, q # p, proc[q].pc \in {"reveal", "saveContribution"}, proc[q].cycle = c, proc[q].user = u
      PROVE  Paying(c, u)'
  <2>1. proc'[q] = proc[q]
    BY <1>2, Arrivals DEF Others
  <2> QED
    BY <1>2, <2>1 DEF Paying
<1>3. ASSUME NEW q \in Procs, At(q, "charge")', proc'[q].cycle = c, proc'[q].user = u
      PROVE  Charging(c, u) \/ u \notin contributed[c]
  <2>1. CASE q = p
    BY <1>3, <2>1, SmoothStarts DEF At
  <2>2. CASE q # p
    <3>1. proc'[q] = proc[q]
      BY <2>2, Arrivals DEF Others
    <3> QED
      BY <1>3, <2>2, <3>1 DEF Charging, At
  <2> QED
    BY <2>1, <2>2
<1>4. CASE Mine /\ At(p, "saveContribution")
  <2>1. u \in contributed'[c]
    BY <1>4, RowsMove
  <2>2. ASSUME NEW q \in Procs, At(q, "charge")' PROVE FALSE
    <3>1. CASE q = p
      BY <1>4, <2>2, <3>1, SmoothCalls DEF Went, At
    <3>2. CASE q # p
      <4>1. proc'[q] = proc[q]
        BY <3>2, Arrivals DEF Others
      <4> QED
        BY <1>4, <2>2, <3>2, <4>1, Alone DEF At
    <3> QED
      BY <3>1, <3>2
  <2> QED
    BY <2>1, <2>2 DEF Charged, Charging
<1>5. CASE u \in contributed[c] /\ ~ Charging(c, u)
  <2>1. u \in contributed'[c]
    BY <1>5, RowsMove
  <2> QED
    BY <1>3, <1>5, <2>1 DEF Charged, Charging
<1> QED
  BY <1>1, <1>2, <1>4, <1>5 DEF Charged, Paying, At

\* The scheduler goes through its list of members who have not paid.
LEMMA SmoothDefaults ==
  ASSUME TypeOK, NEW p \in Procs, Smooth(p), At(p, "default")
  PROVE  \E v \in proc[p].unpaid : RecordDefault(p, v)
<1>1. ~ ContributionStep(p) /\ ~ SettleStep(p)
  BY DEF ContributionStep, Charge, Reveal, SaveContribution, Credit, allContributed,
     SettleStep, List, Disburse, RecordPayout, Debit, SavePayout, SaveCycle, SaveGroup, At
<1>2. /\ ~ (\E c \in Cycles : SettleCycle(p, c))
      /\ ~ (\E c \in Cycles, u \in Members : SubmitContribution(p, u, c))
  BY DEF SettleCycle, SubmitContribution, CanStart, At
<1> QED
  BY <1>1, <1>2 DEF Smooth, DeadlineStep, ProcessDeadlines, CurrentCycle, ListUnpaid, Reload, RecordDefault,
     CanStart, At

\* Where no call fails, a default that was recorded is followed by the settlement.
LEMMA DefaultedStays ==
  ASSUME TypeOK, NEW p \in Procs, Kind(p), Smooth(p), NEW c \in Cycles, NEW u \in Members,
         Defaulted(c, u) \/ (At(p, "default") /\ proc[p].cycle = c /\ RecordDefaultEffect(p, u) /\ missed'[c][u] = missed[c][u] + 1)
  PROVE  Defaulted(c, u)'
<1>0. settled \subseteq settled' /\ proc \in [Procs -> Locals]
  BY SettledGrows DEF TypeOK, ProcOK
<1>1. CASE c \in settled
  BY <1>0, <1>1 DEF Defaulted
<1>2. CASE proc[p].cycle = c /\ proc[p].pc \in {"disburse", "recordPayout", "debit", "savePayout"}
  <2>1. proc'[p].pc \in PaidOut /\ proc'[p].cycle = c
    BY <1>2, SmoothCalls DEF At, Went, PaidOut
  <2> QED
    BY <2>1 DEF Defaulted, Reported
<1>3. CASE proc[p].cycle = c /\ At(p, "saveCycle")
  <2>1. c \in settled'
    BY <1>3, SmoothCalls DEF SaveCycleEffect
  <2> QED
    BY <2>1 DEF Defaulted
<1>4. CASE proc[p].cycle = c /\ At(p, "list")
  <2>1. List(p)
    BY <1>4, SmoothCalls
  <2>2. proc'[p].pc = "disburse" /\ proc'[p].cycle = c
    BY <1>0, <1>4, <2>1 DEF List, Locals
  <2> QED
    BY <2>2 DEF Defaulted, Reported
<1>5. ASSUME NEW q \in Procs, q # p, proc[q].cycle = c,
             proc[q].pc \in PaidOut \cup {"list", "disburse"} \/ (At(q, "default") /\ u \notin proc[q].unpaid)
      PROVE  Reported(c, u)'
  <2>1. proc'[q] = proc[q]
    BY <1>5, Arrivals DEF Others
  <2> QED
    BY <1>5, <2>1 DEF Reported, At
<1>6. CASE proc[p].cycle = c /\ At(p, "default")
  <2>1. PICK v \in proc[p].unpaid : RecordDefault(p, v)
    BY <1>6, SmoothDefaults
  <2>2. proc'[p].pc \in {"list", "default"} /\ proc'[p].cycle = c /\ proc'[p].unpaid = proc[p].unpaid \ {v}
    BY <1>0, <1>6, <2>1 DEF RecordDefault, Locals
  <2>3. CASE u = v \/ u \notin proc[p].unpaid
    BY <2>2, <2>3 DEF Defaulted, Reported, At
  <2>4. CASE u # v /\ u \in proc[p].unpaid
    <3>1. missed \in PerMember /\ c \in Cycles /\ v \in Members /\ missed[c][u] \in Nat
      BY <1>0, <2>1 DEF TypeOK, WorldOK, PerMember, Locals
    <3>2. missed'[c][u] = missed[c][u]
      BY <1>6, <2>1, <2>4, <3>1, CountIs DEF RecordDefault, RecordDefaultEffect
    <3>3. Defaulted(c, u)
      BY <3>1, <3>2
    <3>4. c \in settled \/ \E q \in Procs : q # p /\ proc[q].cycle = c /\ (proc[q].pc \in PaidOut \cup {"list", "disburse"} \/ (At(q, "default") /\ u \notin proc[q].unpaid))
      BY <1>6, <2>4, <3>3 DEF Defaulted, Reported, PaidOut, At
    <3> QED
      BY <1>1, <1>5, <3>4 DEF Defaulted
  <2> QED
    BY <2>3, <2>4
<1> QED
  BY <1>1, <1>2, <1>3, <1>4, <1>5, <1>6 DEF Defaulted, Reported, PaidOut, At

\* Where no call fails, nothing is done again.
LEMMA RepeatSmooth ==
  ASSUME TypeOK, SerialInv, RepeatInv, NEW p \in Procs, Kind(p), Smooth(p), failures' = failures
  PROVE  RepeatInv'
<1>0. failures \in Nat /\ disbursed \in PerCycle /\ charged \in PerMember /\ missed \in PerMember
  BY DEF TypeOK, WorldOK
<1>2. ASSUME NEW c \in Cycles PROVE Within(disbursed[c], Disbursed(c))'
  <2>1. PICK u : u \in Members
    BY MembersAssumption, FS_EmptySet
  <2>2. Within(disbursed[c], Disbursed(c)) /\ disbursed[c] \in Nat
    BY <1>0 DEF RepeatInv, PerCycle
  <2>3. \/ disbursed'[c] = disbursed[c]
        \/ At(p, "disburse") /\ proc[p].cycle = c /\ disbursed'[c] = disbursed[c] + 1 /\ disbursed[c] <= failures
    BY <2>1, RepeatMoves
  <2>4. (Disbursed(c) => Disbursed(c)') /\ (At(p, "disburse") /\ proc[p].cycle = c => Disbursed(c)')
    BY DisbursedStays
  <2>5. disbursed'[c] <= failures + 1 /\ (~ Disbursed(c)' => disbursed'[c] <= failures)
    BY <1>0, <2>2, <2>3, <2>4 DEF Within
  <2> QED
    BY <2>5 DEF Within
<1>3. ASSUME NEW c \in Cycles, NEW u \in Members PROVE Within(charged[c][u], Charged(c, u))'
  <2>2. Within(charged[c][u], Charged(c, u)) /\ charged[c][u] \in Nat
    BY <1>0 DEF RepeatInv, PerMember
  <2>3. \/ charged'[c][u] = charged[c][u]
        \/ /\ At(p, "charge") /\ proc[p].cycle = c /\ proc[p].user = u
           /\ charged'[c][u] = charged[c][u] + 1 /\ charged[c][u] <= failures
    BY RepeatMoves
  <2>4. (Charged(c, u) => Charged(c, u)') /\ (At(p, "charge") /\ proc[p].cycle = c /\ proc[p].user = u => Charged(c, u)')
    BY ChargedStays
  <2>5. charged'[c][u] <= failures + 1 /\ (~ Charged(c, u)' => charged'[c][u] <= failures)
    BY <1>0, <2>2, <2>3, <2>4 DEF Within
  <2> QED
    BY <2>5 DEF Within
<1>4. ASSUME NEW c \in Cycles, NEW u \in Members PROVE Within(missed[c][u], Defaulted(c, u))'
  <2>2. Within(missed[c][u], Defaulted(c, u)) /\ missed[c][u] \in Nat
    BY <1>0 DEF RepeatInv, PerMember
  <2> DEFINE Now == /\ At(p, "default") /\ proc[p].cycle = c /\ RecordDefaultEffect(p, u)
                    /\ missed'[c][u] = missed[c][u] + 1
  <2>3. missed'[c][u] = missed[c][u] \/ (Now /\ missed[c][u] <= failures)
    BY RepeatMoves
  <2>4. (Defaulted(c, u) => Defaulted(c, u)') /\ (Now => Defaulted(c, u)')
    BY DefaultedStays
  <2>5. missed'[c][u] <= failures + 1 /\ (~ Defaulted(c, u)' => missed'[c][u] <= failures)
    BY <1>0, <2>2, <2>3, <2>4 DEF Within
  <2> QED
    BY <2>5 DEF Within
<1> QED
  BY <1>2, <1>3, <1>4 DEF RepeatInv

\* A crash is a failure too, and does nothing.
LEMMA RepeatCrash ==
  ASSUME TypeOK, RepeatInv, UNCHANGED world, failures' = failures + 1
  PROVE  RepeatInv'
<1>0. failures \in Nat /\ disbursed \in PerCycle /\ charged \in PerMember /\ missed \in PerMember
      /\ disbursed' = disbursed /\ charged' = charged /\ missed' = missed
  BY DEF TypeOK, WorldOK, world, rail, chain
<1>1. ASSUME NEW c \in Cycles PROVE Within(disbursed[c], Disbursed(c))'
  <2>1. disbursed[c] \in Nat /\ disbursed[c] <= failures + 1
    BY <1>0 DEF RepeatInv, Within, PerCycle
  <2> QED
    BY <1>0, <2>1 DEF Within
<1>2. ASSUME NEW c \in Cycles, NEW u \in Members
      PROVE  Within(charged[c][u], Charged(c, u))' /\ Within(missed[c][u], Defaulted(c, u))'
  <2>1. /\ charged[c][u] \in Nat /\ charged[c][u] <= failures + 1
        /\ missed[c][u] \in Nat /\ missed[c][u] <= failures + 1
    BY <1>0 DEF RepeatInv, Within, PerMember
  <2> QED
    BY <1>0, <2>1 DEF Within
<1> QED
  BY <1>1, <1>2 DEF RepeatInv

\* Every step keeps the account of repetitions.
LEMMA RepeatStep == TypeOK /\ TypeOK' /\ SerialInv /\ RepeatInv /\ [Next]_vars => RepeatInv'
<1> SUFFICES ASSUME TypeOK, TypeOK', SerialInv, RepeatInv, [Next]_vars PROVE RepeatInv'
  OBVIOUS
<1>1. CASE UNCHANGED <<world, proc, failures>>
  BY <1>1 DEF RepeatInv, Within, Disbursed, Charged, Defaulted, PayingOut, Charging, Paying, Reported, At,
     world, rows, rail, chain
<1> QED
  BY <1>1, NextFates, RepeatSmooth, FailureAllows, RepeatCrash

\* While nothing overlaps, a charge, a disbursement or a default is repeated at most
\* once for each failed call or crash: whatever the handlers do again, they do
\* because an earlier call did not tell them that it had taken effect.
THEOREM DuplicatesAreRetries ==
  ASSUME ~ Overlap
  PROVE  Spec => []DuplicatesNeedFailures
<1>1. RepeatInv => DuplicatesNeedFailures
  BY DEF RepeatInv, Within, DuplicatesNeedFailures
<1> QED
  BY <1>1, SerialInvariant, RepeatInit, RepeatStep, TypeCorrect, PTL DEF Spec
=============================================================================
