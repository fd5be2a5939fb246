---------------------------- MODULE Projection ----------------------------
(***************************************************************************)
(* How reputation gets from the chain into the store: the subscriptions of *)
(* MemChain (internal/chain/memchain.go) and of the EVM adapter            *)
(* (chain/evm/evm.go), the indexer (indexer/indexer.go), the append and    *)
(* the read of reputation events, and what is computed from them           *)
(* (domain/reputation.go, intelligence/behavioral.go).                     *)
(*                                                                         *)
(* The chain is a log of events; an event's ID is its place in it.  The    *)
(* EVM chain keeps its log, in blocks whose events have one timestamp.     *)
(* MemChain hands an event to its subscriber and keeps nothing; it reads   *)
(* the clock before it takes the lock under which it hands the event over, *)
(* so the timestamps of overlapping calls come in any order.  Which chain  *)
(* and which store the server runs with is chosen at the start.            *)
(***************************************************************************)
EXTENDS Integers, Sequences, FiniteSets, SequencesExt, Ordering

CONSTANTS
    Users,
    Capacity,      \* size of the subscriber's buffer, 64 in the code
    MaxEvents,     \* bound on the events of the EVM chain
    MaxEmissions,  \* bound on the events of MemChain
    MaxTime,       \* bound on MemChain's clock, in half seconds
    MaxFailures,   \* bound on failed appends
    MaxStops       \* bound on crashes and shutdowns

ASSUME CapacityAssumption == Capacity \in Nat \ {0}
ASSUME BoundsAssumption ==
    /\ MaxEvents \in Nat /\ MaxEmissions \in Nat /\ MaxTime \in Nat
    /\ MaxFailures \in Nat /\ MaxStops \in Nat

VARIABLES
    chain,         \* "mem" or "evm"
    store,         \* "memory", "sqlite" or "postgres"
    log,           \* the events of the chain
    head,          \* the number of the last block
    phase,         \* of the process: down, up, or stopping (its context is done)
    subscribed,    \* Subscribe has returned to the indexer
    from,          \* EVM poller: the next block to ask for
    batch,         \* EVM poller: logs fetched and not sent yet
    upto,          \* EVM poller: the last block of the batch
    buffer,        \* the subscriber's channel
    rows,          \* the store's reputation events, in the order they were appended
    excused,       \* events whose loss has a reason, see LossesHaveReasons
    failures,      \* failed appends so far
    stops          \* crashes and shutdowns so far

process == <<phase, subscribed>>
poller  == <<from, batch, upto>>
vars    == <<chain, store, log, head, process, poller, buffer, rows, excused, failures, stops>>

\* openChain leaves evm.Config.StartBlock at its zero value.
StartBlock == 0

Types == {"ContributionMade", "ContributionMissed", "PayoutReceived"}
Event(u, type, time) == [user |-> u, type |-> type, time |-> time]

Stored == ToSet(rows)

-----------------------------------------------------------------------------
(* MemChain *)

\* SubmitContribution, RecordDefault and RecordPayout, at the time they have read from
\* the clock.  emit hands the event to the subscriber; with nobody subscribed or with
\* a full buffer it is gone.
emit(u, type, time) ==
    /\ chain = "mem" /\ phase # "down" /\ Len(log) < MaxEmissions
    /\ log' = Append(log, Event(u, type, time))
    /\ IF subscribed /\ Len(buffer) < Capacity
         THEN buffer' = Append(buffer, Len(log')) /\ UNCHANGED excused
         ELSE excused' = excused \cup {Len(log')} /\ UNCHANGED buffer
    /\ UNCHANGED <<chain, store, head, process, poller, rows, failures, stops>>

\* The goroutine that Subscribe left behind: the channel is closed, what it holds
\* can still be received.
Unsubscribe ==
    /\ chain = "mem" /\ phase = "stopping" /\ subscribed
    /\ subscribed' = FALSE
    /\ UNCHANGED <<chain, store, log, head, phase, poller, buffer, rows, excused, failures, stops>>

-----------------------------------------------------------------------------
(* The EVM chain and its poller *)

\* A block with the given events is mined, whatever the server does.
Mine(events) ==
    /\ chain = "evm" /\ Len(log) + Len(events) <= MaxEvents
    /\ head' = head + 1
    /\ log' = log \o [i \in DOMAIN events |-> Event(events[i].user, events[i].type, head + 1)]
    /\ UNCHANGED <<chain, store, process, poller, buffer, rows, excused, failures, stops>>

Logs(first, last) == Ascending({i \in DOMAIN log : log[i].time >= first /\ log[i].time <= last})

\* Mutant: the next poll asks for the last block of this one again.
PollAgain ==
    /\ chain = "evm" /\ phase = "up" /\ subscribed
    /\ batch = <<>> /\ head >= from
    /\ batch' = Logs(from, head) /\ upto' = head - 1
    /\ from' = IF batch' = <<>> THEN head ELSE from
    /\ UNCHANGED <<chain, store, log, head, process, buffer, rows, excused, failures, stops>>

\* A tick of the poller: BlockNumber and FilterLogs.  A poll that fails changes nothing.
Poll ==
    /\ chain = "evm" /\ phase = "up" /\ subscribed
    /\ batch = <<>> /\ head >= from
    /\ batch' = Logs(from, head) /\ upto' = head
    /\ from' = IF batch' = <<>> THEN head + 1 ELSE from
    /\ UNCHANGED <<chain, store, log, head, process, buffer, rows, excused, failures, stops>>

\* Mutant: the event is dropped when the buffer is full, as MemChain does.
SendOrDrop ==
    /\ batch # <<>> /\ phase # "down"
    /\ buffer' = IF Len(buffer) < Capacity THEN Append(buffer, Head(batch)) ELSE buffer
    /\ batch' = Tail(batch)
    /\ from' = IF batch' = <<>> THEN upto + 1 ELSE from
    /\ UNCHANGED <<chain, store, log, head, process, upto, rows, excused, failures, stops>>

\* The poller waits while the buffer is full; the block number moves on once the
\* whole batch has been sent.
Send ==
    /\ batch # <<>> /\ phase # "down"
    /\ Len(buffer) < Capacity
    /\ buffer' = Append(buffer, Head(batch))
    /\ batch' = Tail(batch)
    /\ from' = IF batch' = <<>> THEN upto + 1 ELSE from
    /\ UNCHANGED <<chain, store, log, head, process, upto, rows, excused, failures, stops>>

-----------------------------------------------------------------------------
(* The indexer and the store *)

\* Run, on its own goroutine, calls Subscribe some time after the boot.
Subscribe ==
    /\ phase = "up" /\ ~ subscribed
    /\ subscribed' = TRUE
    /\ UNCHANGED <<chain, store, log, head, phase, poller, buffer, rows, excused, failures, stops>>

\* Mutant: the table has no primary key.
RefusesNothing(id) == FALSE

\* The SQL tables have the ID as primary key; memory appends whatever it is given.
Refuses(id) == store # "memory" /\ id \in Stored

\* The indexer takes the next event and appends it.
Index ==
    /\ phase # "down" /\ buffer # <<>>
    /\ phase = "up" \/ store = "memory"
    /\ buffer' = Tail(buffer)
    /\ rows' = IF Refuses(Head(buffer)) THEN rows ELSE Append(rows, Head(buffer))
    /\ UNCHANGED <<chain, store, log, head, process, poller, excused, failures, stops>>

\* The append fails, or the context of the SQL call is done: the error is logged
\* and the event is not taken again.
IndexError ==
    /\ phase # "down" /\ buffer # <<>> /\ store # "memory"
    /\ \/ phase = "up" /\ failures < MaxFailures /\ failures' = failures + 1
       \/ phase = "stopping" /\ UNCHANGED failures
    /\ buffer' = Tail(buffer)
    /\ excused' = excused \cup {Head(buffer)}
    /\ UNCHANGED <<chain, store, log, head, process, poller, rows, stops>>

\* Mutant: without the ORDER BY, rows come in the order they were appended.
ReputationEventsAppended(u) ==
    LET order == Ascending({n \in DOMAIN rows : log[rows[n]].user = u})
    IN  [k \in DOMAIN order |-> rows[order[k]]]

\* The timestamp of an event in half seconds; blocks have theirs in whole seconds.
Timestamp(i) == IF chain = "evm" THEN 2 * log[i].time ELSE log[i].time

\* ORDER BY timestamp: SQLite compares the text of times, Postgres the times.
Sooner(i, j) ==
    IF store = "sqlite" THEN SortsBefore(tstr(Timestamp(i)), tstr(Timestamp(j)))
    ELSE Timestamp(i) < Timestamp(j)

\* Memory keeps a user's events as they were appended; SQL orders them by timestamp.
\* Those with the same timestamp stay as they were appended here; SQL promises no
\* order, and WarningsAgree leaves them out.
ReputationEvents(u) ==
    LET mine == {n \in DOMAIN rows : log[rows[n]].user = u}
        Before(m, n) == IF store = "memory" THEN m < n
                        ELSE Sooner(rows[m], rows[n]) \/ (~ Sooner(rows[n], rows[m]) /\ m < n)
        order == InOrder(mine, [n \in mine |-> {m \in mine : Before(m, n)}])
    IN  [k \in DOMAIN order |-> rows[order[k]]]

-----------------------------------------------------------------------------
(* What is computed from a user's events *)

CountOf(ids, u, type) == Cardinality({k \in DOMAIN ids : log[ids[k]].user = u /\ log[ids[k]].type = type})

\* The totals are the counts times the amount; the ratio follows from the counts.
SummariseReputation(u, ids) == [type \in Types |-> CountOf(ids, u, type)]

\* Consecutive misses at the end: those after the last contribution.
trailingMissStreak(ids) ==
    LET made == {i \in DOMAIN ids : log[ids[i]].type = "ContributionMade"}
    IN  Cardinality({i \in DOMAIN ids : log[ids[i]].type = "ContributionMissed" /\ \A m \in made : m < i})

\* The levels that the history alone gives; the one for an unpaid cycle near its
\* deadline is not modelled.  Reliability below 60 %: made / (made + missed) < 6/10.
MonitorMember(u, ids) ==
    LET s == SummariseReputation(u, ids)
        made == s["ContributionMade"]
        missed == s["ContributionMissed"]
    IN  IF trailingMissStreak(ids) >= 2 THEN "at_risk"
        ELSE IF trailingMissStreak(ids) = 1 THEN "watch"
        ELSE IF made + missed >= 3 /\ 10 * made < 6 * (made + missed) THEN "watch"
        ELSE "none"

-----------------------------------------------------------------------------
(* The process *)

Boot ==
    /\ phase = "down"
    /\ phase' = "up"
    /\ UNCHANGED <<chain, store, log, head, subscribed, poller, buffer, rows, excused, failures, stops>>

\* SIGTERM: the context is done; requests in flight are still served.
Shutdown ==
    /\ phase = "up" /\ stops < MaxStops
    /\ phase' = "stopping" /\ stops' = stops + 1
    /\ UNCHANGED <<chain, store, log, head, subscribed, poller, buffer, rows, excused, failures>>

\* The process ends, and with it the buffer, the poller's place, MemChain's events
\* and the memory store.  The EVM chain is asked again from StartBlock.
Ended ==
    /\ phase' = "down" /\ subscribed' = FALSE
    /\ from' = StartBlock /\ batch' = <<>> /\ upto' = 0
    /\ buffer' = <<>>
    /\ rows' = IF store = "memory" THEN <<>> ELSE rows
    /\ excused' = IF chain = "mem" THEN DOMAIN log ELSE {}
    /\ UNCHANGED <<chain, store, log, head, failures>>

Exit == phase = "stopping" /\ Ended /\ UNCHANGED stops
Crash == phase # "down" /\ stops < MaxStops /\ Ended /\ stops' = stops + 1

-----------------------------------------------------------------------------
Init ==
    /\ chain \in {"mem", "evm"} /\ store \in {"memory", "sqlite", "postgres"}
    /\ log = <<>> /\ head = 0
    /\ phase = "down" /\ subscribed = FALSE
    /\ from = StartBlock /\ batch = <<>> /\ upto = 0
    /\ buffer = <<>> /\ rows = <<>> /\ excused = {}
    /\ failures = 0 /\ stops = 0

Blocks ==
    LET events == [user : Users, type : Types]
    IN  {<<e>> : e \in events} \cup {<<e, f>> : e \in events, f \in events}

Emission ==
    \/ \E u \in Users, type \in Types, time \in 1 .. MaxTime : emit(u, type, time)
    \/ \E events \in Blocks : Mine(events)

Next ==
    \/ Emission
    \/ Unsubscribe \/ Poll \/ Send
    \/ Subscribe \/ Index \/ IndexError
    \/ Boot \/ Shutdown \/ Exit \/ Crash

Spec == Init /\ [][Next]_vars

\* The server is started again after it ended; its goroutines run, the poller's
\* ticker keeps firing and in the end a poll succeeds.
FairSpec ==
    /\ Spec
    /\ WF_vars(Boot) /\ WF_vars(Exit)
    /\ WF_vars(Subscribe) /\ WF_vars(Poll) /\ WF_vars(Send)
    /\ WF_vars(Index \/ IndexError)

-----------------------------------------------------------------------------
(* Properties *)

\* What the poller has not asked for yet; the events of its batch are between.
Ahead == IF batch = <<>> THEN from ELSE upto + 1
Pending(i) ==
    \/ i \in ToSet(buffer) \cup ToSet(batch)
    \/ chain = "evm" /\ log[i].time >= Ahead

Complete(u) == \A i \in DOMAIN log : log[i].user = u => i \in Stored

\* An event of the chain is in the store or on its way unless its loss has a reason:
\* on the EVM chain an append that failed since the last boot, and nothing else; on
\* MemChain also a full buffer, no subscriber at the time, or the end of the process.
LossesHaveReasons ==
    \A i \in DOMAIN log : i \in Stored \/ Pending(i) \/ i \in excused

\* However often the chain is read again, the reputation summary of a user never
\* counts more than the chain holds, and it is the chain's own as soon as no event
\* of the user is missing.
SummaryAgrees ==
    LET all == [i \in DOMAIN log |-> i]
    IN  \A u \in Users :
          LET cached == SummariseReputation(u, ReputationEvents(u))
          IN  /\ \A type \in Types : cached[type] <= SummariseReputation(u, all)[type]
              /\ Complete(u) => cached = SummariseReputation(u, all)

\* A user's events on the chain, in the order of their times.
EventsOf(u) == {i \in DOMAIN log : log[i].user = u}
ByTime(u) == InOrder(EventsOf(u), [i \in EventsOf(u) |-> {j \in EventsOf(u) : log[j].time < log[i].time}])

\* No two of a user's events have one time; they were handed over in the order of
\* their times; and their times are printed at one length.
TimesDiffer(u) == \A i, j \in EventsOf(u) : log[i].time = log[j].time => i = j
InTime(u) == \A i, j \in EventsOf(u) : i < j => log[i].time < log[j].time
OneLength(u) == \E p \in 0 .. 1 : \A i \in EventsOf(u) : Timestamp(i) % 2 = p

\* Events that arrived late, because an append failed and a restart read the chain
\* again, or because another emission overtook them, take their place in time: once
\* no event of a user is missing, and no two have one time, the early-warning level
\* is the one of the chain's events in the order of their times.  Memory keeps the
\* order in which events were handed over, and SQLite sorts the text of their times:
\* there it is so if those agree with the order of the times, which they always do
\* on the EVM chain.
WarningsAgree ==
    \A u \in Users :
        /\ Complete(u) /\ TimesDiffer(u)
        /\ chain = "mem" /\ store = "memory" => InTime(u)
        /\ chain = "mem" /\ store = "sqlite" => OneLength(u)
        => MonitorMember(u, ReputationEvents(u)) = MonitorMember(u, ByTime(u))

\* On the EVM chain no event is lost for good: it reaches the store, or its append
\* has failed since the last boot and the next boot will read it again.
EventuallyProjected ==
    \A i \in 1 .. MaxEvents :
        chain = "evm" /\ i \in DOMAIN log ~> i \in Stored \/ i \in excused
=============================================================================
