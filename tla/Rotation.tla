------------------------------ MODULE Rotation ------------------------------
(***************************************************************************)
(* The rotation of one activated savings group: SubmitContribution         *)
(* (internal/app/cycles.go), settleCycle and its four callers              *)
(* (settlement.go, admin.go, cycles.go, deadlines.go), ProcessDeadlines    *)
(* and the calls they make to the store, the payment provider and the      *)
(* chain.                                                                  *)
(*                                                                         *)
(* No lock or transaction spans a handler: each store, provider or chain   *)
(* call is one step here, and what a handler read earlier is kept in its   *)
(* own record (proc) and may be stale when it is used.  Any call may       *)
(* return an error, with or without having taken effect; the process may   *)
(* crash between any two calls.                                            *)
(*                                                                         *)
(* Money is counted in contributions: every contribution has the same      *)
(* amount, and a payout is the set of contributions it pays out, so the    *)
(* escrow balance of a cycle is the sum over the members of                *)
(* credits - debits.                                                       *)
(***************************************************************************)
EXTENDS Integers, FiniteSets

CONSTANTS
    Members,       \* Group.Members: fixed once the group is ACTIVE
    Threads,       \* HTTP requests that may be in flight at once
    Scheduler,     \* the scheduler's goroutine
    NoMember,      \* no value in a request's user field
    Overlap,       \* TRUE: requests and the scheduler interleave
    CycleLength,   \* Group.CycleLength, in units of the clock
    MaxTime,       \* bound on the clock
    MaxFailures    \* bound on failed calls and crashes

ASSUME MembersAssumption == IsFiniteSet(Members) /\ Cardinality(Members) >= 2
ASSUME ProcsAssumption == IsFiniteSet(Threads) /\ Scheduler \notin Threads
ASSUME NoMemberAssumption == NoMember \notin Members
ASSUME OverlapAssumption == Overlap \in BOOLEAN
ASSUME CycleLengthAssumption == CycleLength \in Nat \ {0}
ASSUME BoundsAssumption == MaxTime \in Nat /\ MaxFailures \in Nat

Procs == Threads \cup {Scheduler}

\* Validate accepts a payout order only if it is as long as the member list.
TotalCycles == Cardinality(Members)
Cycles == 0 .. TotalCycles - 1
States == {"CREATED", "ACTIVE", "SETTLEMENT", "CLOSED"}

VARIABLES
    clock,         \* s.now()
    failures,      \* failed calls and crashes so far
    proc,          \* each process: the next call and the handler's locals
    group,         \* store: Group.State
    settled,       \* store: cycles whose row has Settled = true
    contributed,   \* store: per cycle, the members with a contribution row
    payouts,       \* store: per cycle, the number of payout rows
    credits,       \* store: per cycle and member, escrow credits
    debits,        \* store: per cycle and member, escrow debits
    charged,       \* provider: per cycle and member, successful charges
    disbursed,     \* provider: per cycle, the number of disbursements
    outflow,       \* provider: per cycle, how often a contribution was paid out
    made,          \* chain: ContributionMade events
    missed,        \* chain: ContributionMissed events
    received       \* chain: PayoutReceived events

rows   == <<group, settled, contributed, payouts>>
escrow == <<credits, debits>>
rail   == <<charged, disbursed, outflow>>
chain  == <<made, missed, received>>
world  == <<rows, escrow, rail, chain>>
vars   == <<clock, failures, proc, world>>

-----------------------------------------------------------------------------
(* Domain rules *)

Deadline(c) == (c + 1) * CycleLength
\* Mutant: the deadline itself already counts as overdue.
IsOverdueAtDeadline(c, now) == now >= Deadline(c)
\* Mutant: a cycle is overdue only at the next cycle's deadline.
IsOverdueOneLate(c, now) == now > Deadline(c + 1)

IsOverdue(c, now) == now > Deadline(c)

allowedTransitions ==
    {<<"CREATED", "ACTIVE">>, <<"ACTIVE", "SETTLEMENT">>, <<"SETTLEMENT", "CLOSED">>}

\* Transition leaves the state alone when the move is not allowed; settleCycle
\* ignores that error.
Transition(s, next) == IF <<s, next>> \in allowedTransitions THEN next ELSE s

\* The rows found by CurrentCycle: the first cycle that is not settled.
IsCurrent(c) == c \notin settled /\ \A d \in Cycles : d < c => d \in settled

-----------------------------------------------------------------------------
(* Processes *)

Labels == {"idle",
           "charge", "reveal", "saveContribution", "credit", "allContributed",
           "list", "disburse", "recordPayout", "debit", "savePayout",
           "saveCycle", "saveGroup",
           "current", "unpaid", "default", "reload"}

Idle == [pc |-> "idle", cycle |-> 0, user |-> NoMember, g |-> "CREATED",
         contribs |-> {}, unpaid |-> {}, now |-> 0]

At(p, label) == proc[p].pc = label
AllIdle == \A p \in Procs : At(p, "idle")

\* A handler or a scheduler pass starts only when its process is free and, when
\* nothing overlaps, only when no other one is under way.
CanStart(p) == At(p, "idle") /\ (Overlap \/ AllIdle)

Goto(p, label) == proc' = [proc EXCEPT ![p].pc = label]
Return(p) == proc' = [proc EXCEPT ![p] = Idle]

Fail == failures < MaxFailures /\ failures' = failures + 1

Count(f, c, u) == [f EXCEPT ![c][u] = @ + 1]
CountAll(f, c, S) == [f EXCEPT ![c] = [u \in Members |-> IF u \in S THEN f[c][u] + 1 ELSE f[c][u]]]

Init ==
    /\ clock = 0 /\ failures = 0
    /\ proc = [p \in Procs |-> Idle]
    /\ group = "ACTIVE"
    /\ settled = {}
    /\ contributed = [c \in Cycles |-> {}]
    /\ payouts = [c \in Cycles |-> 0]
    /\ credits = [c \in Cycles |-> [u \in Members |-> 0]]
    /\ debits = credits
    /\ charged = credits
    /\ disbursed = payouts
    /\ outflow = credits
    /\ made = credits
    /\ missed = credits
    /\ received = payouts

-----------------------------------------------------------------------------
(* What each call does when it takes effect *)

ChargeEffect(p) ==
    /\ charged' = Count(charged, proc[p].cycle, proc[p].user)
    /\ UNCHANGED <<rows, escrow, chain, disbursed, outflow>>

RevealEffect(p) ==
    /\ made' = Count(made, proc[p].cycle, proc[p].user)
    /\ UNCHANGED <<rows, escrow, rail, missed, received>>

\* An upsert keyed by group, user and cycle: a second save overwrites the row.
SaveContributionEffect(p) ==
    /\ contributed' = [contributed EXCEPT ![proc[p].cycle] = @ \cup {proc[p].user}]
    /\ UNCHANGED <<escrow, rail, chain, group, settled, payouts>>

\* Mutant: escrow credits are keyed like contributions, so the second overwrites.
CreditUpsert(p) ==
    /\ credits' = [credits EXCEPT ![proc[p].cycle][proc[p].user] = 1]
    /\ UNCHANGED <<rows, rail, chain, debits>>

CreditEffect(p) ==
    /\ credits' = Count(credits, proc[p].cycle, proc[p].user)
    /\ UNCHANGED <<rows, rail, chain, debits>>

DisburseEffect(p) ==
    /\ disbursed' = [disbursed EXCEPT ![proc[p].cycle] = @ + 1]
    /\ outflow' = CountAll(outflow, proc[p].cycle, proc[p].contribs)
    /\ UNCHANGED <<rows, escrow, chain, charged>>

RecordPayoutEffect(p) ==
    /\ received' = [received EXCEPT ![proc[p].cycle] = @ + 1]
    /\ UNCHANGED <<rows, escrow, rail, made, missed>>

\* Mutant: a debit takes back the credits instead of adding an entry.
DebitTakesCredit(p) ==
    /\ credits' = [credits EXCEPT ![proc[p].cycle] =
                     [u \in Members |-> credits[proc[p].cycle][u] - IF u \in proc[p].contribs THEN 1 ELSE 0]]
    /\ UNCHANGED <<rows, rail, chain, debits>>

DebitEffect(p) ==
    /\ debits' = CountAll(debits, proc[p].cycle, proc[p].contribs)
    /\ UNCHANGED <<rows, rail, chain, credits>>

\* Payouts are appended under a fresh ID: nothing keeps them unique per cycle.
SavePayoutEffect(p) ==
    /\ payouts' = [payouts EXCEPT ![proc[p].cycle] = @ + 1]
    /\ UNCHANGED <<escrow, rail, chain, group, settled, contributed>>

SaveCycleEffect(p) ==
    /\ settled' = settled \cup {proc[p].cycle}
    /\ UNCHANGED <<escrow, rail, chain, group, contributed, payouts>>

\* Mutant: the transition to SETTLEMENT is forgotten.
SaveGroupSkips(p) ==
    /\ group' = Transition(proc[p].g, "CLOSED")
    /\ UNCHANGED <<escrow, rail, chain, settled, contributed, payouts>>

\* The group saved is the copy the handler loaded when it started.
SaveGroupEffect(p) ==
    /\ group' = Transition(Transition(proc[p].g, "SETTLEMENT"), "CLOSED")
    /\ UNCHANGED <<escrow, rail, chain, settled, contributed, payouts>>

RecordDefaultEffect(p, u) ==
    /\ missed' = Count(missed, proc[p].cycle, u)
    /\ UNCHANGED <<rows, escrow, rail, made, received>>

-----------------------------------------------------------------------------
(* SubmitContribution *)

\* Mutant: the check for an earlier contribution is missing.
SubmitAgain(p, u, c) ==
    /\ CanStart(p)
    /\ group = "ACTIVE" /\ c \notin settled
    /\ proc' = [proc EXCEPT ![p] =
                  [Idle EXCEPT !.pc = "charge", !.cycle = c, !.user = u, !.g = group]]
    /\ UNCHANGED <<clock, failures, world>>

\* The three reads that guard the handler are one step: each of them, once it
\* passes, would have passed at the time of the first.  GetContribution passes
\* when it returns an error, whether that is ErrNotFound or a failed read.
SubmitContribution(p, u, c) ==
    /\ CanStart(p)
    /\ group = "ACTIVE"
    /\ c \notin settled
    /\ \/ u \notin contributed[c] /\ UNCHANGED failures
       \/ Fail
    /\ proc' = [proc EXCEPT ![p] =
                  [Idle EXCEPT !.pc = "charge", !.cycle = c, !.user = u, !.g = group]]
    /\ UNCHANGED <<clock, world>>

\* Mutant: the commitment is never revealed.
ChargeNoReveal(p) ==
    /\ At(p, "charge") /\ ChargeEffect(p) /\ Goto(p, "saveContribution")
    /\ UNCHANGED <<clock, failures>>

Charge(p) ==
    /\ At(p, "charge") /\ ChargeEffect(p) /\ Goto(p, "reveal")
    /\ UNCHANGED <<clock, failures>>

Reveal(p) ==
    /\ At(p, "reveal") /\ RevealEffect(p) /\ Goto(p, "saveContribution")
    /\ UNCHANGED <<clock, failures>>

SaveContribution(p) ==
    /\ At(p, "saveContribution") /\ SaveContributionEffect(p) /\ Goto(p, "credit")
    /\ UNCHANGED <<clock, failures>>

Credit(p) ==
    /\ At(p, "credit") /\ CreditEffect(p) /\ Goto(p, "allContributed")
    /\ UNCHANGED <<clock, failures>>

\* The last contribution settles the cycle with the cycle and the group that
\* the handler read before it charged.
allContributed(p) ==
    /\ At(p, "allContributed")
    /\ IF Cardinality(contributed[proc[p].cycle]) >= Cardinality(Members)
         THEN Goto(p, "list")
         ELSE Return(p)
    /\ UNCHANGED <<clock, failures, world>>

-----------------------------------------------------------------------------
(* settleCycle *)

\* Mutant: the expected pool is paid out instead of the collected one.
ListExpected(p) ==
    /\ At(p, "list")
    /\ proc' = [proc EXCEPT ![p].pc = "disburse", ![p].contribs = Members]
    /\ UNCHANGED <<clock, failures, world>>

List(p) ==
    /\ At(p, "list")
    /\ proc' = [proc EXCEPT ![p].pc = "disburse",
                            ![p].contribs = contributed[proc[p].cycle]]
    /\ UNCHANGED <<clock, failures, world>>

\* Mutant: the payout is not recorded on the chain.
DisburseUnrecorded(p) ==
    /\ At(p, "disburse") /\ DisburseEffect(p) /\ Goto(p, "debit")
    /\ UNCHANGED <<clock, failures>>

Disburse(p) ==
    /\ At(p, "disburse") /\ DisburseEffect(p) /\ Goto(p, "recordPayout")
    /\ UNCHANGED <<clock, failures>>

RecordPayout(p) ==
    /\ At(p, "recordPayout") /\ RecordPayoutEffect(p) /\ Goto(p, "debit")
    /\ UNCHANGED <<clock, failures>>

Debit(p) ==
    /\ At(p, "debit") /\ DebitEffect(p) /\ Goto(p, "savePayout")
    /\ UNCHANGED <<clock, failures>>

SavePayout(p) ==
    /\ At(p, "savePayout") /\ SavePayoutEffect(p) /\ Goto(p, "saveCycle")
    /\ UNCHANGED <<clock, failures>>

\* Where settleCycle returns to: the scheduler reloads the group, a request ends.
SettleReturn(p) == IF p = Scheduler THEN Goto(p, "reload") ELSE Return(p)

SaveCycle(p) ==
    /\ At(p, "saveCycle") /\ SaveCycleEffect(p)
    /\ IF proc[p].cycle = TotalCycles - 1 THEN Goto(p, "saveGroup") ELSE SettleReturn(p)
    /\ UNCHANGED <<clock, failures>>

SaveGroup(p) ==
    /\ At(p, "saveGroup") /\ SaveGroupEffect(p) /\ SettleReturn(p)
    /\ UNCHANGED <<clock, failures>>

\* Mutant: a settled cycle may be settled again.
SettleAgain(p, c) ==
    /\ CanStart(p)
    /\ proc' = [proc EXCEPT ![p] = [Idle EXCEPT !.pc = "list", !.cycle = c, !.g = group]]
    /\ UNCHANGED <<clock, failures, world>>

\* The organizer's request: any cycle, in any group state, at any time; only a
\* settled cycle is refused.
SettleCycle(p, c) ==
    /\ CanStart(p)
    /\ c \notin settled
    /\ proc' = [proc EXCEPT ![p] = [Idle EXCEPT !.pc = "list", !.cycle = c, !.g = group]]
    /\ UNCHANGED <<clock, failures, world>>

\* The operator's request differs by who may send it and by its audit entry.
AdminSettleCycle(p, c) == SettleCycle(p, c)

-----------------------------------------------------------------------------
(* ProcessDeadlines, on the scheduler's goroutine *)

ProcessDeadlines(p) ==
    /\ CanStart(p)
    /\ IF group = "ACTIVE"
         THEN proc' = [proc EXCEPT ![p] = [Idle EXCEPT !.pc = "current", !.g = group, !.now = clock]]
         ELSE Return(p)
    /\ UNCHANGED <<clock, failures, world>>

\* The loop's guard is left out: every turn settles another cycle, so it never
\* stops the loop before CurrentCycle does.
CurrentCycle(p) ==
    /\ At(p, "current")
    /\ \/ \E c \in Cycles :
            /\ IsCurrent(c) /\ IsOverdue(c, proc[p].now)
            /\ proc' = [proc EXCEPT ![p].pc = "unpaid", ![p].cycle = c]
       \/ /\ ~ \E c \in Cycles : IsCurrent(c) /\ IsOverdue(c, proc[p].now)
          /\ Return(p)
    /\ UNCHANGED <<clock, failures, world>>

\* Mutant: those who paid are not taken out of the list.
ListEveryone(p) ==
    /\ At(p, "unpaid")
    /\ proc' = [proc EXCEPT ![p].unpaid = Members, ![p].pc = "default"]
    /\ UNCHANGED <<clock, failures, world>>

ListUnpaid(p) ==
    /\ At(p, "unpaid")
    /\ LET unpaid == Members \ contributed[proc[p].cycle]
       IN  proc' = [proc EXCEPT ![p].unpaid = unpaid,
                                ![p].pc = IF unpaid = {} THEN "list" ELSE "default"]
    /\ UNCHANGED <<clock, failures, world>>

\* Members are taken in the order of the member list; any order stands for it.
RecordDefault(p, u) ==
    /\ At(p, "default")
    /\ u \in proc[p].unpaid
    /\ RecordDefaultEffect(p, u)
    /\ LET rest == proc[p].unpaid \ {u}
       IN  proc' = [proc EXCEPT ![p].unpaid = rest,
                                ![p].pc = IF rest = {} THEN "list" ELSE "default"]
    /\ UNCHANGED <<clock, failures>>

Reload(p) ==
    /\ At(p, "reload")
    /\ IF group = "ACTIVE"
         THEN proc' = [proc EXCEPT ![p] = [Idle EXCEPT !.pc = "current", !.g = group, !.now = proc[p].now]]
         ELSE Return(p)
    /\ UNCHANGED <<clock, failures, world>>

-----------------------------------------------------------------------------
(* Failures and time *)

Effect(p) ==
    \/ At(p, "charge") /\ ChargeEffect(p)
    \/ At(p, "reveal") /\ RevealEffect(p)
    \/ At(p, "saveContribution") /\ SaveContributionEffect(p)
    \/ At(p, "disburse") /\ DisburseEffect(p)
    \/ At(p, "recordPayout") /\ RecordPayoutEffect(p)
    \/ At(p, "savePayout") /\ SavePayoutEffect(p)
    \/ At(p, "saveCycle") /\ SaveCycleEffect(p)
    \/ At(p, "saveGroup") /\ SaveGroupEffect(p)
    \/ At(p, "default") /\ \E u \in proc[p].unpaid : RecordDefaultEffect(p, u)

\* Mutant: errors of the reveal and of SavePayout are discarded like those of the
\* escrow ledger.
CallErrorDiscarded(p) ==
    /\ proc[p].pc \notin {"idle", "credit", "debit"}
    /\ Fail
    /\ UNCHANGED <<clock, world>>
    /\ CASE At(p, "reveal") -> Goto(p, "saveContribution")
         [] At(p, "savePayout") -> Goto(p, "saveCycle")
         [] OTHER -> Return(p)

\* A call returns an error, although it may have taken effect: the handler ends
\* there, or the scheduler leaves the group to its next tick.  Nothing is undone.
CallError(p) ==
    /\ proc[p].pc \notin {"idle", "credit", "debit"}
    /\ Fail
    /\ Effect(p) \/ UNCHANGED world
    /\ Return(p)
    /\ UNCHANGED clock

\* An error from AppendEscrowEntry is discarded and the handler goes on.
EscrowError(p) ==
    /\ Fail
    /\ \/ At(p, "credit") /\ Goto(p, "allContributed")
       \/ At(p, "debit") /\ Goto(p, "savePayout")
    /\ UNCHANGED <<clock, world>>

\* The process dies and restarts: what was in flight is gone, the store, the
\* provider and the chain keep what they have.
Crash ==
    /\ ~ AllIdle
    /\ Fail
    /\ proc' = [p \in Procs |-> Idle]
    /\ UNCHANGED <<clock, world>>

Tick ==
    /\ clock < MaxTime
    /\ clock' = clock + 1
    /\ UNCHANGED <<failures, proc, world>>

-----------------------------------------------------------------------------
ContributionStep(p) ==
    \/ Charge(p) \/ Reveal(p) \/ SaveContribution(p) \/ Credit(p) \/ allContributed(p)

SettleStep(p) ==
    \/ List(p) \/ Disburse(p) \/ RecordPayout(p) \/ Debit(p) \/ SavePayout(p)
    \/ SaveCycle(p) \/ SaveGroup(p)

DeadlineStep(p) ==
    \/ ProcessDeadlines(p) \/ CurrentCycle(p) \/ ListUnpaid(p) \/ Reload(p)
    \/ \E u \in Members : RecordDefault(p, u)

ThreadStep(p) ==
    \/ \E c \in Cycles :
         \/ SettleCycle(p, c) \/ AdminSettleCycle(p, c)
         \/ \E u \in Members : SubmitContribution(p, u, c)
    \/ ContributionStep(p)
    \/ SettleStep(p)

SchedulerStep == DeadlineStep(Scheduler) \/ SettleStep(Scheduler)

Next ==
    \/ \E p \in Threads : ThreadStep(p)
    \/ SchedulerStep
    \/ \E p \in Procs : CallError(p) \/ EscrowError(p)
    \/ Crash
    \/ Tick

Spec == Init /\ [][Next]_vars

\* The scheduler's goroutine runs for as long as the server does and its ticker
\* keeps firing; a call that a request has made returns.  That a client sends a
\* request is never assumed.
FairSpec ==
    /\ Spec
    /\ WF_vars(SchedulerStep)
    /\ \A p \in Threads : WF_vars(ContributionStep(p) \/ SettleStep(p))

-----------------------------------------------------------------------------
(* Properties *)

PerMember == [Cycles -> [Members -> Nat]]
PerCycle == [Cycles -> Nat]

Locals == [pc : Labels, cycle : Cycles, user : Members \cup {NoMember}, g : States,
           contribs : SUBSET Members, unpaid : SUBSET Members, now : Nat]

ContributionLabels == {"charge", "reveal", "saveContribution", "credit", "allContributed"}

ProcOK ==
    /\ proc \in [Procs -> Locals]
    /\ \A p \in Procs : proc[p].pc \in ContributionLabels => proc[p].user \in Members

WorldOK ==
    /\ group \in States
    /\ settled \in SUBSET Cycles
    /\ contributed \in [Cycles -> SUBSET Members]
    /\ payouts \in PerCycle /\ disbursed \in PerCycle /\ received \in PerCycle
    /\ credits \in PerMember /\ debits \in PerMember
    /\ charged \in PerMember /\ outflow \in PerMember
    /\ made \in PerMember /\ missed \in PerMember

\* Every table, ledger and event count has the shape the code gives it, every
\* handler is at one of its calls, and one that contributes has its member.
TypeOK == clock \in Nat /\ failures \in Nat /\ ProcOK /\ WorldOK

\* SubmitContribution's ladder: whatever overlaps, fails or crashes, an escrow
\* credit is backed by a reveal on the chain and a reveal by a charge, and a
\* contribution row exists only for a member who was charged and revealed.
ContributionLadder ==
    \A c \in Cycles, u \in Members :
        /\ credits[c][u] <= made[c][u]
        /\ made[c][u] <= charged[c][u]
        /\ u \in contributed[c] => made[c][u] >= 1

\* settleCycle's ladder: a payout row is backed by a PayoutReceived event and the
\* event by a disbursement; an escrow debit is backed by money paid out; a cycle
\* is marked settled only after its payout row exists; the group is CLOSED only
\* after its last cycle is settled.
PayoutLadder ==
    /\ \A c \in Cycles :
        /\ payouts[c] <= received[c]
        /\ received[c] <= disbursed[c]
        /\ c \in settled => payouts[c] >= 1
        /\ \A u \in Members : debits[c][u] <= outflow[c][u]
    /\ group = "CLOSED" => TotalCycles - 1 \in settled

\* settleCycle pays out what ListContributionsByCycle returned: no disbursement
\* contains the money of a member who has no contribution row, and none contains
\* a member's contribution twice.
OnlyCollectedIsPaidOut ==
    \A c \in Cycles, u \in Members :
        /\ outflow[c][u] > 0 => u \in contributed[c]
        /\ outflow[c][u] <= disbursed[c]

\* ProcessDeadlines records a default only for a cycle whose deadline has passed,
\* even when it works with the time at which its pass began.
NoEarlyDefault ==
    \A c \in Cycles, u \in Members : missed[c][u] > 0 => clock > Deadline(c)

\* Without a failed call or a crash, and with nothing in flight, provider, chain
\* and escrow ledger agree on what was charged and on what was paid out, even if
\* requests and the scheduler overlapped and did something twice.
RecordsAgree ==
    AllIdle /\ failures = 0 =>
        /\ charged = made /\ made = credits
        /\ disbursed = received /\ received = payouts
        /\ outflow = debits

\* While nothing overlaps, every charge, disbursement or default beyond the first
\* takes a failed call or a crash of its own: a retry repeats one step, never more.
DuplicatesNeedFailures ==
    \A c \in Cycles :
        /\ disbursed[c] <= failures + 1
        /\ \A u \in Members : charged[c][u] <= failures + 1 /\ missed[c][u] <= failures + 1

\* While nothing overlaps or fails, escrow holds for each member exactly the
\* contributions to cycles that are not settled yet, so it nets to zero once all
\* the cycles have paid out.
EscrowNetsOut ==
    AllIdle /\ failures = 0 =>
        \A c \in Cycles, u \in Members :
            credits[c][u] - debits[c][u] = IF u \in contributed[c] /\ c \notin settled THEN 1 ELSE 0

\* Once a cycle is settled no money moves for it and no default is recorded for
\* it: the guards "already settled" of SubmitContribution and settleCycle.
SettledIsFinal ==
    [][\A c \in settled :
          /\ charged'[c] = charged[c] /\ disbursed'[c] = disbursed[c]
          /\ outflow'[c] = outflow[c] /\ missed'[c] = missed[c]]_vars

\* The rows and the defaults on the chain, as the books of a savings group.
Books == INSTANCE Rosca WITH
    state <- group, paid <- contributed, Final <- TotalCycles - 1,
    missed <- [c \in Cycles |-> {u \in Members : missed[c][u] > 0}]

\* While nothing overlaps, the service implements the abstract group whatever call
\* fails and wherever it crashes: no row is added to a settled cycle, a default is
\* recorded for nobody who has a row by then, and a closed group stays closed.
ImplementsRosca == Books!Spec

\* A cycle whose deadline has passed in an ACTIVE group does not stay open: the
\* scheduler settles it, unless settling the last cycle closed the group first.
OverdueIsSettled ==
    \A c \in Cycles :
        clock > Deadline(c) /\ group = "ACTIVE" ~> c \in settled \/ group = "CLOSED"

\* A group whose cycles have all been settled is closed, unless a call fails or the
\* process crashes: the last settleCycle saves the group, and nothing else ever does.
LastSettlementCloses == settled = Cycles ~> group = "CLOSED" \/ failures > 0

-----------------------------------------------------------------------------
(* What a comment says, and the code does not keep *)

\* deadlines.go:16: "already-settled cycles are skipped": the scheduler disburses
\* no cycle that is settled by the time it does so.
SettledIsSkipped ==
    [][At(Scheduler, "disburse") /\ proc'[Scheduler].pc = "recordPayout"
         => proc[Scheduler].cycle \notin settled]_vars
=============================================================================
