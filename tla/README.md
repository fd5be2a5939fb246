# Rotasavings: a TLA+ verification project

Rotasavings runs rotating savings groups (ROSCAs). Members join a group, the
organizer activates it with a payout order, every cycle each member contributes
the same amount and one member receives the pool. Money moves through a payment
provider, facts are recorded on a chain (the "truth layer"), and a database
caches both for the HTTP API. A scheduler enforces deadlines.

No lock and no transaction spans a handler: an operation is a sequence of
separate calls to the store, the provider and the chain, each of which may fail,
with handlers and the scheduler interleaving between the calls. That is where
this project looks.

## 1. Inventory

Sources are under `src/`; `app/` etc. stand for `src/internal/app/` etc.

| Component | State | Operations | Talks to |
|---|---|---|---|
| Rotation (`app/cycles.go`, `app/settlement.go`, `app/deadlines.go`, `app/admin.go`) | none of its own; cycle, contribution, payout, escrow rows, group state | `SubmitContribution`, `settleCycle`, `SettleCycle`, `AdminSettleCycle`, `ProcessDeadlines`, `settleOverdueCycle` | store, payments, chain, notifications |
| Group assembly (`app/groups.go`, `ActivateGroup` in `app/cycles.go`) | group row (with member list and order), memberships, join requests, invitations | `CreateGroup`, `RequestToJoin`, `DecideJoinRequest`, `Invite`, `RespondInvitation`, `LeaveGroup`, `RemoveMember`, `ActivateGroup` | store, chain |
| Domain rules (`domain/`) | none | lifecycle, `Validate`, `Cycles`, `IsOverdue`, `EscrowBalance`, `SummariseReputation` | called by the app |
| Store (`store/memory.go`, `sqlitestore`, `pgstore`) | all tables | whole-row upserts, appends, reads; atomic one by one | database |
| Chain (`chain/memchain.go`, `chain/evm`) | events, subscribers with a buffer of 64 | deploy, activate, reveal, record payout and default, subscribe | indexer |
| Payments (`payments/`) | outside the program | `Charge`, `Disburse` | provider |
| Scheduler (`scheduler/`) | ticker | one pass at a time, for ever | `ProcessDeadlines` |
| Indexer (`indexer/`) | a channel, reputation events | append each event of the subscription | chain, store |
| Accounts and operators (`app/auth.go`, `app/admin.go`, `auth/`) | users, tokens, audit | register, login, refresh, KYC, roles, suspension, `SeedAdmin` | store, chain |
| HTTP layer (`httpapi/`) | idempotency entries, token buckets, metrics | routing, replay, rate limit | app |
| Intelligence (`intelligence/`) | none | risk, optimizer, behaviour, liquidity | store |
| Webhooks, notifications | hooks, notification rows | one attempt, outcome ignored | remote |
| Contracts (`contracts/src`) | on-chain groups and ledger | activate, contribute, default, settle | not wired yet |

What is hard: state read at the start of a handler and used after several calls
(the cycle's `Settled`, the whole group row); a call that fails after it took
effect and is then retried; a crash between two calls that belong together;
settlement by a contributor, the organizer, the operator and the scheduler at
once; discarded errors; deadlines; liveness of the scheduler across failures.
`PROJECT.json` lists each hazard with its line and its properties.

What makes the parts correct: each recorded fact is backed by the step that
precedes it; only collected money is paid out, and once; defaults are for those
who did not pay, after the deadline; a settled cycle is final; overdue cycles
get settled and a finished group closed; a group never exceeds its size, is
frozen when it is activated and follows its payout order; member list and
memberships say the same; the three stores cannot be told apart; an email has
one account and a token lapses; a key runs a handler once unless there is a
reason; an event of the chain reaches the reputation or its loss has a reason.

## 2. Modules

| Module | Models |
|---|---|
| `Rosca` | abstract: what a savings group promises, whoever keeps its books |
| `Rotation` | the service: one activated group through its cycles; implements `Rosca` |
| `GroupContract` | the Solidity group and its ledger; implements `Rosca` |
| `Assembly` | one group from its creation to its activation |
| `Tables`, `Stores` | the three implementations of `store.Store`, side by side |
| `Ordering` | lists made from sets: `ORDER BY` and the sorts of slices, used by `Stores` and `Projection` |
| `Projection` | chain events to reputation: subscriptions, indexer, store, early warnings |
| `Accounts` | registration, tokens, operator decisions, `SeedAdmin` |
| `Gateway` | the middleware chain: rate limit, access log, idempotency, authentication |
| `RotationProofs`, `GroupContractProofs`, `AssemblyProofs`, `StoresProofs`, `ProjectionProofs`, `AccountsProofs`, `GatewayProofs` | theorems about the module of that name |
| `ListLemmas` | induction over numbers and sorted lists, for those that need it |
| `MC...` | the module of that name, with symmetry or small sets, for TLC |

Every handler of the service follows one pattern, and so do the modules that
model them: a process record holds the next call and the handler's locals, and
each call to the store, the chain or the provider is one action named after the
call. `CallError` lets the call fail with or without its effect; `Crash` empties
the process records and keeps what is outside the process. All bounds
(`MaxTime`, `MaxRequests`, `MaxFailures`, ...) are constants that occur in guards.

### Rosca, Rotation and GroupContract

`Rosca` has four variables: the group's state, who has paid into each cycle, who
has a recorded default in it, and the settled cycles. A settled cycle stays as it
is, a default is recorded only in an open cycle for a member who has not paid by
then, and the group closes no earlier than its last cycle is settled. It says
nothing about time, money or retries.

`Rotation`: the variables are the tables (`group`, `settled`, `contributed`,
`payouts`, `credits`, `debits`), what the provider did (`charged`, `disbursed`,
`outflow`), what the chain holds (`made`, `missed`, `received`), the clock, and
`proc[p]` for each request in flight and the scheduler's goroutine. Errors end
the handler, as every `return err` does; the two `AppendEscrowEntry` errors are
discarded and the handler goes on (`EscrowError`). `GetContribution` is
different: any error of it, a failed read too, lets the contribution through.

Money is counted in contributions. All contributions of a group have one amount
and a payout is the sum of the rows the settlement listed, so a payout is a set
of members, and "escrow balance" is the sum over members of credits minus debits.
Payees are not modelled: cycle `i` pays entry `i` of an order that is fixed
before. A group closes through SETTLEMENT and CLOSED in one save, as in the code.

Abstractions. The first reads of a handler are one step (each of the checked
facts is stable, so what passes at a later read has passed at the first). The
order in which defaults are recorded is any order. `Overlap = FALSE` is a
deployment in which handlers and passes run one after the other; it separates
what retries can do from what interleaving can do. The refinement mapping takes
rows for payments and default events for defaults; it holds when nothing
overlaps, whatever fails. With overlapping handlers it does not: a row may be
added to a cycle that is settled in between (section 5).

`GroupContract`: a transaction is one step and reverts as a whole, so
`ReputationLedger.record` refusing an unauthorised writer disables the action.
`contribute` takes any cycle number (one past the end stands for all of them) and
ignores the deadline, `settle` may be called in any order, `activate` checks only
the length of the order: all of this is in the model.

### Assembly

The variables are the group row, the memberships, the join requests and
invitations (`item`), the cycle rows, the contract's state and a record `job[t]`
for each request in flight. `SaveGroup` writes the row the handler holds, all of
it, as the upsert of the SQL stores does. All users may participate; who sends a
request is fixed by the operation (the organizer, the invitee, the member). A
request that is refused changes nothing and is not a step. The SQL stores are
the reference; the in-memory store also shares the array behind `Members`
between copies, which is not modelled.

### Tables and Stores

`Tables` is data read off the code: for each of the thirteen tables and each
store the key, the columns of the INSERT, the columns after DO UPDATE SET, the
unique columns of the schema, and for each read method the columns it selects by
and the column it sorts by. `Stores` gives it a meaning (`Save`, `Read`,
`limitOffset`, `paginate`) and makes every write of the service, with fresh IDs,
to all three stores at once. A handler reads the clock and makes other calls
before it writes (`cycles.go:172` and `:180`), and handlers overlap; the events of
one block have one timestamp. So the time of a write is any instant, in half
seconds: successive writes may carry times in the opposite order, or the same.
SQLite compares times as RFC3339Nano text (`tstr`, in `Ordering`), which is not
the order of time when fractions have different lengths. A SQL store that has
refused a write is not compared further: its caller has returned an error and the
histories differ from there on. The columns of a new row vary where some store
looks at them (`LookedAt`: a key, a unique column, a read); the others are payload
under a fresh ID.

### Projection

The chain is a log; an event's ID is its place in it. `MemChain` hands an event
to the subscriber's buffer or drops it; it reads the clock before it queues for
the lock of `emit` (`memchain.go:46`, `:61`, `:97`), so an event carries any time
and overlapping calls hand theirs over in any order. The EVM poller asks for
blocks, waits for room in the buffer and moves on after the whole batch. The
indexer appends, or fails and goes on. Shutdown cancels the context: the subscription closes, SQL
appends fail, requests in flight still emit. A restart reads the EVM chain again
from `StartBlock`. A store returns the events of a user as they were appended
(memory), by the text of their times (SQLite) or by their times (Postgres). The
module runs with both chains and the three stores.

### Accounts

Every change of an account is a read, a change of one field and a save of the
whole row. The history variables are what each field was last set to
(`expected`), the accounts on which two writers overlapped (`crossed`) and when
an account was last active in a role (`lastHeld`). Tokens are held by clients,
survive a crash and are dropped when they expire. The unit of the clock is long
compared with a handler.

A registration hands its identity to the chain (`submitted`) before it saves the
row. On the EVM chain that is a transaction that was accepted, not one that was
mined: it may be dropped or revert, and no handler asks. `SeedAdmin` runs on
`Main` before the server listens. It may be refused by `Register`'s validation,
fail in a call, or be cut off by a crash, and the server listens all the same;
`seedFailed` remembers it. A request that validation refuses changes nothing and
is not a step.

### Gateway

Every request passes the limiter (one critical section), the idempotency lookup
(one), the handler, and the store of the reply (one). Tokens of a bucket are
counted in units of `1/Scale`, so the refill may be fractional. A panic unwinds
to `recoverPanic` past the access log. `reasons` counts, per key, the events that
allow the handler to run again.

## 3. Runs

| Run | Instance | Shows |
|---|---|---|
| `rotation_serial` | 2 members, 1 request, serial, clock to 3, 2 failures | the service implements `Rosca`; a settled cycle is final; a retry repeats one step; escrow nets out |
| `rotation_overlap` | 2 members, 2 requests and the scheduler overlapping, clock to 2 | every record is backed, only collected money is paid out, no default is early, the books agree |
| `rotation_live` | 1 request and the scheduler overlapping, fair, clock to 3 | overdue cycles are settled, finished groups closed |
| `rotation_retry` | scheduler alone, fair, 3 failures | the next tick makes up for failures |
| `assembly_serial` | 3 users, up to 3 members, 2 requests and 1 invitation, serial, 1 failure | an active group is frozen, follows its order, and its members have memberships |
| `assembly_overlap` | 2 users, room for 3, 2 join requests and 1 invitation, 2 requests overlapping, 1 failure | never more than `MaxMembers`; an ACTIVE row is valid; every write is backed |
| `stores` | any table, 3 writes at any of 3 times, 3 stores | same rows, when in the same order, pages, totals, append-only ledgers |
| `gateway` | 2 threads, 1 client, 1 key, 4 requests, clock to 5, 1 panic or crash | when a key runs a handler again; the rate bound from above and below; the gauge |
| `accounts` | 2 threads and boot, 2 emails, 3 IDs, 4 requests, 2 boots, 1 failure | one account per email, tokens lapse, which updates can be lost, audit, why a server may be unseeded |
| `projection` | 2 users, 3 stores, buffer of 1, 3 events of the EVM chain or 2 of MemChain at any of 3 times, 1 failed append, 1 crash or shutdown, fair | why an event can be missing; summary and warnings; the EVM chain heals |
| `contract` | 2 members, cycles of 2, clock to 6 | ledger and group agree, no early default, the contract implements `Rosca` |
| `rotation_settled_again` | 1 request and the scheduler | violated: "already-settled cycles are skipped" (deadlines.go:16), the cycle is settled from a stale copy |

The combination of overlapping requests with failures in `Rotation` is what the
theorems of section 4 cover for the ladders; it is beyond TLC at two requests.

Why the bounds are enough. Two members give a first and a last cycle, a partly
paid and a fully paid cycle, and a settlement with and without defaulters. With
`CycleLength = 1` a clock that goes to 2 lets the first cycle be overdue while
the second is open and the deadline itself (equality) occurs for both; a clock
that goes to 3 lets both be overdue in one pass. One failure distinguishes an
error with effect from one without; two show a retry that fails again. Two
overlapping requests and the scheduler are two contributors, or two settlers, or
one of each, against the third. In `Assembly` room for three with two users lets
a user be on the list twice and the activation be refused for it. In `Stores`
three writes are two rows and a change of one, or three rows to page and sort;
the instants 0 to 2 are two full seconds and the half one between them, so that
text and time disagree, and three writes can be in order, out of order and tied.
In `Gateway` a rate of 2/3 token per instant with a burst of 1 leaves fractions
behind, `Idle` and `TTL` end within the clock, and four requests are a run, an
overlapping retry, a late retry and one more. In
`Accounts` three IDs are the seed account and two registrations of one email,
and four requests are a login of the operator, a decision and a refresh around
it. In `Projection` a buffer of one is full after one event, and three events
make a streak, a late event and an event after a restart; two of MemChain's,
at the instants 1 to 3, overtake one another, tie, and are printed at different
lengths in either order. `GroupContract` with cycles of 2 has instants before, at
and after each deadline.

`CHECK_DEADLOCK FALSE`: the runs of `Assembly`, `Stores`, `Gateway`, `Accounts`
and `GroupContract` really end, with every ID or request used up or the group
closed. Interchangeable members, requests, threads and IDs are symmetric in the
safety runs; the liveness runs use no symmetry.

Fairness. `Rotation`: the scheduler's goroutine is started once and runs until
the process ends, its ticker keeps firing and it goes on after an error
(`scheduler.go:36-50`): weak fairness of `SchedulerStep`. A call that a request
has made returns: weak fairness of each request's steps. That a client sends a
request, or that a failed call succeeds when it is repeated without bound, is
not assumed; `MaxFailures` makes failures finite. `Projection`: the server is
started again after it ended, the goroutines of indexer and poller run, the
poller's ticker fires and polls succeed in the end (`Poll` has weak fairness; a
poll that fails changes nothing and is a stutter). No fairness of emissions,
shutdowns or crashes.

Every property has a mutant, a definition named after a plausible bug and marked
`Mutant:` in the module, which breaks it.

## 4. Proofs

Every invariant and every action property that a passing run checks, and both
refinements of `Rosca`, are theorems of the module's `Spec`: TLC shows them on the instance
of the run, the theorem for every value of the constants that satisfies the module's named
assumptions. The assumptions say that sets of processes, clients and members are
finite, that the names for "nobody" are no one's name, that bounds, lifetimes and
lengths are numbers, and where the code validates a configuration what it
validates (`MaxMembers >= 2`). `IdleAssumption` is about the defaults in the code: a bucket
that is collected as idle would be full. Theorems about a deployment in which
nothing overlaps say so: `ASSUME ~ Overlap`; the runs of those properties set
`Overlap = FALSE` too. When handlers overlap TLC finds each of them violated, but for
`ScheduleMatches`, which it cannot evaluate: it reaches a state in which a join has put
the row back to CREATED, and there is no order to compare the cycles with. Induction is over steps
throughout; where a definition is itself recursive it is a recursive function,
and `SetInduction` of `ListLemmas` says what it computes.

### RotationProofs

For any finite set of at least two members and of requests, and any cycle length:

- `TypeCorrect`: `[]TypeOK`. One lemma per group of actions; the effects
  are typed by one lemma and the process record by another.
- `PaidOutWasCollected`: `[]OnlyCollectedIsPaidOut`. The list a settlement holds
  is a subset of the contribution rows, and rows are never removed.
- `DefaultsAreLate`: `[]NoEarlyDefault`. A pass that works on a cycle has it
  overdue at the time it began, and the clock does not go back.
- `ContributionsAreBacked`: `[]ContributionLadder`. `credits <= made` is not
  inductive when requests overlap, since several may stand between the reveal and
  the credit. `ContributionInv` counts them: charges cover reveals plus the
  requests that have charged and not revealed, reveals cover credits plus the
  requests that have revealed and not credited. The lemmas `CardStays`,
  `CardJoins` and `CardLeaves` say how a step of one process changes the count.
- `PayoutsAreBacked`: `[]PayoutLadder`, by the same counting for disbursements,
  events and payout rows (`PayoutInv`), per member for debits (`DebitInv`), and
  for settled cycles and the closed group (`SettledInv`).
- `RecordsAlwaysAgree`: `[]RecordsAgree`, overlap included. `AgreeInv` turns each
  inequality of the ladders into an equation: as long as nothing has failed, one record
  is ahead of the next by exactly the processes between the two.
- `SettledStaysFinal`: `SettledIsFinal` if nothing overlaps.
  `SerialInv` says that at most one process is busy and that the cycle it works
  on is not settled before its `SaveCycle`.
- `ServiceImplementsRosca`: `ImplementsRosca` if nothing overlaps. The steps that
  map to a step of `Rosca` are those that save a contribution row, emit the default
  event, save the settled cycle and save the group; each needs that the copy its handler holds
  is still what the tables say (`CopyInv`). Every other call is a stutter.
- `EscrowBalances`: `[]EscrowNetsOut` if nothing overlaps. `EscrowInv` gives the
  number of credits and debits of each member and cycle as a function of the rows
  and of the one call that may be next.
- `DuplicatesAreRetries`: `[]DuplicatesNeedFailures` if nothing overlaps.
  `RepeatInv` strengthens "at most one more than failures" by "no more than
  failures while it is yet to be done".

The steps share one case split: `NextKinds` reduces `Next` to a call of one
process, a recorded default, or a step that leaves the world alone.

### GroupContractProofs

For any finite non-empty set of members and any cycle length:

- `LedgerIsFaithful`: `[]LedgerAgrees`, which is inductive with three more parts.
  `Types`; `Started`, nothing is contributed or settled before the activation and
  there is one payee per cycle after it; `Due`, a settled cycle is past its
  deadline and who was in time has contributed. `AddCounts` says what the ledger's
  events of one transaction change.
- `DefaultsAreDue`: `[]NobodyTooEarly`, from `LedgerAgrees` and `Due`.
- `ContractImplementsRosca`: `Spec => ImplementsRosca`. By `LedgerAgrees` the
  defaulters of a cycle are a function of `settled` and `contributions`
  (`MissedIs`), so `settle` maps to `Settle`, `contribute` to `Contribute` or, past
  the last cycle, to a stutter.

### AssemblyProofs

For any set of users, any requests in flight, failures and crashes:

- `CapacityHolds`, `RowsAreValid`, `LadderHolds`: `[]Capacity`, `[]RowIsValid`,
  `[]AssemblyLadder`. They hold although updates are lost, because every row a handler
  may save is good by itself: `LocalOK` says so of the copy at each call, `Fits`
  how far chain and tables are by then, and `OneCreator` that the row is created once.
  `WithoutFacts` says what the loop of `dropMember` leaves, by induction.
- `MembersAgree`, `ScheduleIsTheOrder`, `ActivatedIsFrozen`: `[]SameMembers`,
  `[]ScheduleMatches` and `ActiveIsFrozen` if nothing overlaps. `SerialInv` adds that the
  copy is current and, as long as nothing has failed, which user the list is ahead or behind by
  (`Agreed`). These do not follow from the ladder, which holds when handlers overlap.

### StoresProofs

For any number of writes and any limits and offsets, on each of the thirteen tables.
The inductive invariant: row by row, a SQL store that has refused nothing holds what memory
holds, `joined_at` excepted (`Aligned`); the columns declared unique are
(`Unique`); no ID in a row is yet to be drawn (`IdsKnown`); a count taken is no more than
the rows (`PageInv`).
`SchemasFit` reads off `Tables` what a table must fulfil for that (`TableOK`): conflicts are
found by the key of memory, and an upsert leaves no column as it was that a handler changes.

- `RowsAgree`: `[]SameRows`. Reads select by columns that `Aligned` covers.
- `OrdersAgree`: `[]SameOrder`. Reads sort by a number (`Rank`); among times of one
  parity the number of SQLite's text is in the order of time (`WeightKeeps`). Where
  memory keeps a list as it was appended, the two lists are the same if and only if the
  rows were appended in ascending order of the column by which SQL sorts: handlers that
  overlap may append against it, and cycles may be settled against it.
- `PagesAreTheList`: `[]PagesCover`, by induction over the pages (`PagesAre`).
- `TotalsHold`: `[]TotalIsNotAhead`; tables with pages lose no rows.
- `LedgersGrow`: `AppendOnly`. The key of a ledger is a fresh ID or none.

### ProjectionProofs

For any users, any capacity of the buffer and any number of stops:

- `NothingElseIsLost`: `[]LossesHaveReasons`.
- `SummariesAgree`: `[]SummaryAgrees`. Rows are distinct events of the log, so a count of
  rows is at most a count of events. For the memory store that is not inductive by
  itself: it has no unique column, and what keeps it from storing an event twice is that
  buffer and batch are in the order of the log, behind everything stored
  (`LineInv`, `MemInv`).
- `WarningsAreTheChains`: `[]WarningsAgree`. The rows of a user come back in the order
  of their times (`EarlierIsSooner`), and there is one list of its events in that order.
  On the EVM chain the log is in the order of its blocks (`LogInv`), memory holds rows in
  the order of the log (`MemInv`), and seconds are printed at one length: there the
  theorem has no condition but that no event is missing and no two share a block. With
  MemChain, memory needs that events were handed over in the order of their times and
  SQLite that these are printed at one length; TLC refutes the property without either
  condition. Postgres needs neither.

### AccountsProofs

For any emails, IDs, threads, boots, failures and lifetimes:

- `EmailsAreUnique`: `[]OneAccountPerEmail`. `Standing`: the ID of an account yet to be saved
  is no other process's and no account's, and it has been handed to the chain. What the
  chain made of it is not part of the theorem: the code does not know.
- `UpdatesAreKept`: `[]NoLostUpdate`. `Current`: the copy of a handler that nobody has
  crossed differs from the row in the one field it changes.
- `TokensLapse`: `[]AuthorityLapses`. `HeldNow`: an active account is seen in its role now, and so is
  one for which tokens are about to be minted.
- `ChangesAreAudited`: `[]AuditTrail`, by counting the handlers between change and
  entry; a crash loses at most one entry for each thread.
- `ServesSeeded`: `[]SeededBeforeServing`. A promoted account is there, or `SeedAdmin` was
  refused, failed in a call or was cut off; failures of requests do not count.

### GatewayProofs

For any finite sets of clients and threads, and any keys, rate, burst and lifetimes:

- `EffectsAreAccounted`: `[]RepeatsHaveReasons`. `KeyInv` counts the effects
  that handlers let through may still have.
- `RateIsBounded` and `RefusalsAreJustified`: `[]RateBound` and `[]RefusalsAreDue`. The
  bound on a stretch of requests is not inductive: `ClientInv` adds the tokens that are
  left. From above, no client has spent more since any request than a burst and the
  rate; from below, unless its bucket is full there is a request since which it has
  spent all of that.
- `GaugeIsExact`: `[]Gauge`.

### Only model-checked

Liveness under fairness is out of the prover's reach: `OverdueIsSettled` and
`LastSettlementCloses` of `Rotation`, `EventuallyProjected` of `Projection`.
`SettledIsSkipped` is the property that `rotation_settled_again` refutes. The
theorems with `ASSUME ~ Overlap` say nothing of overlapping handlers; for those,
section 5 says what goes wrong.

## 5. Where code and comments disagree

One disagreement has a run (`rotation_settled_again`) and a finding. The others
were met while modelling and can be read off the modules; the properties above
are stated so as to hold with them.

- deadlines.go:16 "safe to call repeatedly": a pass that fails after
  `recordDefault` records the default again on the next tick
  (`DuplicatesNeedFailures` bounds it).
- group.go:105, one payout each: settling the last cycle by hand closes the group
  with earlier cycles unpaid, in the service and on the chain.
- deadlines.go:37 "retry next tick": the save that closes the group is not
  retried once its cycle is settled (`LastSettlementCloses` excludes failures).
- group.go:20 "can never move backwards": a join that read the row before the
  activation writes CREATED back.
- group.go:40, members "kept in sync": a user with two pending items is on the
  list twice; group.go:108 "exactly once": `Validate` accepts an order that names
  one member twice and another not at all.
- cycle.go:6 calls a default deterministic: a cycle settled by hand never has its
  defaults recorded. On the chain, RotasavingsGroup.sol:10-11 ("failure to reveal
  it before the cycle deadline"): a late reveal before `settle` counts as paid.
- A contribution saved while its cycle is being settled stays in escrow; a
  failure between the saves of `ActivateGroup` leaves part of a schedule.
- memory.go:521 and store.go:12: `for i := range paginate(...)` runs over positions
  and not over the indices, so the in-memory store answers every page with rows
  from the start of the list (`memoryPage`; `PagesCover` states what is left).
- store.go:70 "newest first": SQLite sorts RFC3339Nano text, in which a full
  second comes after its fractions (`SameOrder` excludes that case). The
  early-warning level depends on that order: with MemChain and SQLite, the default,
  it need not be that of the events in their order (`WarningsAgree`).
- cycles.go:172, :175 and :180: `now` is read, the contribution saved and the escrow
  entry appended; MemChain reads the clock before it takes its lock. Requests that
  overlap append against their times, and a list is then in one order in memory
  and in another in SQL (`SameOrder` says exactly when).
- idempotency.go:17-19 "a client retry never double-charges": a retry that
  overlaps, or follows a 5xx, a panic or a restart, runs the handler again
  (`RepeatsHaveReasons` lists the reasons). idempotency.go:78 "Only cache
  successful, deterministic outcomes": a 401 is cached and replayed.
- admin.go:225 "ensures an admin account exists": after a crash between the two
  saves of `SeedAdmin` the account exists and is never promoted; a seed password of
  fewer than 8 characters is refused by `Register`, which main.go:121-123 logs before
  the server listens.
- auth.go:22-23 "anchors the identity commitment on-chain, and caches the user": on
  the EVM chain (evm.go:128-132) the transaction is only handed over when the user
  is saved (`OneAccountPerEmail` promises no more).

## 6. Not modelled

HTTP decoding and encoding, CORS and OpenAPI (no state); delivery of webhooks and
notifications (one attempt, outcome ignored); foreign keys and CHECKs, and the
rounding of Postgres timestamps to microseconds; hashing and signatures; risk
scores, liquidity and the optimizer (floating-point scoring without state, out of
TLC's reach); chain reorganisations, which the poller does not handle; the array
that copies of a group share in the in-memory store; the frontend, scripts and
build files.

## 7. Plan

1. `Lifecycle`: `Assembly` and `Rotation` on one group, where a second activation
   saves the cycles of a running rotation again; its invariants and their proofs.
2. An abstract specification of `Gateway` and of `Accounts` (a key's effect, an account's
   authority), and the modules shown to implement it.
3. What overlapping handlers may still do to a settled cycle, as a theorem without
   `~ Overlap` in place of `SettledIsFinal`.
