------------------------------- MODULE Stores -------------------------------
(***************************************************************************)
(* The three implementations of store.Store side by side: every write the  *)
(* service makes to one table is made to all of them, and what they return *)
(* afterwards is compared.  Which table it is is chosen at the start.      *)
(*                                                                         *)
(* A row is a function from its columns to numbers.  An ID is the number   *)
(* of the write that drew it, a time is a number of half seconds, and any  *)
(* other column starts at 0 and is counted up when the service changes it. *)
(* A handler reads the clock one or more calls before it writes, and       *)
(* handlers overlap: the times of successive writes are in any order.      *)
(* Foreign keys are left out: the service saves the rows they refer to     *)
(* first.                                                                  *)
(***************************************************************************)
EXTENDS Integers, Sequences, FiniteSets, SequencesExt, Ordering, Tables

CONSTANTS
    MaxWrites,     \* bound on the service's writes
    MaxTime,       \* bound on the clock, in half seconds
    Limits,        \* page sizes asked for
    Offsets        \* page offsets asked for, negative ones included

ASSUME StoresAssumption ==
    MaxWrites \in Nat /\ MaxTime \in Nat /\ Limits \subseteq Int /\ Offsets \subseteq Int

VARIABLES
    table,         \* the table that is written and read
    writes,        \* writes so far
    rows,          \* per store, the rows, in the order they were added
    refused,       \* SQL stores that have refused a write
    page           \* a page listing of a SQL store: COUNT, then SELECT

vars == <<table, writes, rows, refused, page>>

SQL == {"sqlite", "postgres"}
Databases == SQL \cup {"memory"}
T(db) == CASE db = "memory" -> memory[table]
           [] db = "sqlite" -> sqlite[table]
           [] db = "postgres" -> postgres[table]
Columns == sqlite[table].cols

-----------------------------------------------------------------------------
(* Writes *)

Match(r, s, columns) == \A c \in columns : r[c] = s[c]

\* The positions of the rows that a save of r replaces.
Existing(db, r) == {i \in DOMAIN rows[db] : T(db).key # {} /\ Match(rows[db][i], r, T(db).key)}

\* A SQL store refuses a row that is not an update and repeats a unique column.
Refuses(db, r) ==
    /\ db \in SQL
    /\ \E i \in DOMAIN rows[db] \ Existing(db, r) :
          \E u \in T(db).unique : Match(rows[db][i], r, u)

\* Memory replaces the whole row; SQL the columns named after DO UPDATE SET.
Merge(db, old, r) ==
    IF db = "memory" THEN r
    ELSE [c \in Columns |-> IF c \in T(db).update THEN r[c] ELSE old[c]]

Save(db, r) ==
    IF Refuses(db, r) THEN rows[db]
    ELSE IF Existing(db, r) = {} THEN Append(rows[db], r)
    ELSE [i \in DOMAIN rows[db] |->
             IF i \in Existing(db, r) THEN Merge(db, rows[db][i], r) ELSE rows[db][i]]

\* The rows at the given positions.
Rows(db, positions) == [k \in DOMAIN positions |-> rows[db][positions[k]]]

Delete(db, id) == Rows(db, Ascending({i \in DOMAIN rows[db] : rows[db][i]["id"] # id}))

-----------------------------------------------------------------------------
(* Reads *)

Times == {"created_at", "updated_at", "joined_at", "activated_at", "decided_at", "deadline",
          "paid_at", "settled_at", "timestamp"}

Less(db, column, a, b) ==
    IF db = "sqlite" /\ column \in Times THEN SortsBefore(tstr(a[column]), tstr(b[column]))
    ELSE a[column] < b[column]

\* The rows a read finds for the columns of arg.
Found(db, method, arg) == {i \in DOMAIN rows[db] : Match(rows[db][i], arg, T(db).reads[method].by)}

\* Row i comes before row j.  Rows that are equal in the column stay as they were
\* added here; neither sort.Slice nor ORDER BY promises it, and SameOrder leaves
\* them out.
Earlier(db, q, i, j) ==
    LET a == IF q.desc THEN rows[db][j] ELSE rows[db][i]
        b == IF q.desc THEN rows[db][i] ELSE rows[db][j]
    IN  IF q.order \in {"none", "appended"} THEN i < j
        ELSE Less(db, q.order, a, b) \/ (~ Less(db, q.order, b, a) /\ i < j)

\* What a read returns, in the order it promises.
Read(db, method, arg) ==
    LET found == Found(db, method, arg)
    IN  Rows(db, InOrder(found, [j \in found |-> {i \in found : Earlier(db, T(db).reads[method], i, j)}]))

Smaller(a, b) == IF a < b THEN a ELSE b

\* Mutant: the end of a page is one short.
paginateShort(total, offset, limit) ==
    LET start == Smaller(IF offset < 0 THEN 0 ELSE offset, total)
        size == IF limit <= 0 THEN 50 ELSE limit
    IN  [k \in 1 .. Smaller(start + size - 1, total) - start |-> start + k]

\* paginate, in memory.go: the indices of a page.
paginate(total, offset, limit) ==
    LET start == Smaller(IF offset < 0 THEN 0 ELSE offset, total)
        size == IF limit <= 0 THEN 50 ELSE limit
    IN  [k \in 1 .. Smaller(start + size, total) - start |-> start + k]

\* What memory returns: "range paginate(...)" runs over the positions in that slice
\* and not over the indices in it, so every page is cut from the start of the list.
memoryPage(s, offset, limit) == [k \in DOMAIN paginate(Len(s), offset, limit) |-> s[k]]

\* LIMIT and OFFSET, with the limit of sqlitestore.go and pgstore.go.  SQLite
\* takes a negative OFFSET for 0, Postgres reports an error: no page.
limitOffset(db, s, offset, limit) ==
    LET size == IF limit <= 0 THEN 50 ELSE limit
        from == IF offset < 0 THEN 0 ELSE offset
    IN  IF db = "postgres" /\ offset < 0 THEN {}
        ELSE {[i \in 1 .. Smaller(size, IF from >= Len(s) THEN 0 ELSE Len(s) - from) |-> s[from + i]]}

PagedReads == {"ListUsers", "ListGroups", "AllReputationEvents", "ListAudit"}
Paged == DOMAIN memory[table].reads \cap PagedReads

-----------------------------------------------------------------------------
(* The service's writes *)

\* The columns of a new row that are not fresh: an account's email and wallet,
\* the group, member and cycle a row belongs to.
Inputs == [email |-> 1 .. 2, wallet_address |-> 1 .. 2, group_id |-> 1 .. 2,
            user_id |-> 1 .. 2, cycle_index |-> 0 .. 1, idx |-> 0 .. 1]
\* Those that some store looks at: in a key, a unique column or a read.  The others
\* are payload of a row with a fresh ID and stay 0: no write or read depends on them.
LookedAt ==
    UNION ({T(db).key : db \in Databases} \cup UNION {T(db).unique : db \in SQL}
            \cup {T(db).reads[m].by \cup {T(db).reads[m].order} :
                     db \in Databases, m \in DOMAIN memory[table].reads})
Chosen == DOMAIN Inputs \cap Columns \cap LookedAt
Fresh == {"id", "identity_commitment", "commitment"}

NewRow(chosen, now) ==
    [c \in Columns |-> CASE c \in Chosen -> chosen[c]
                         [] c \in Fresh -> writes + 1
                         [] c \in Times -> now
                         [] OTHER -> 0]

\* The columns each handler changes on a row it has read.
Changes ==
    CASE table = "users" -> {{"display_name", "updated_at"}, {"kyc_status", "updated_at"},
                             {"role", "updated_at"}, {"status", "updated_at"}}
      [] table = "groups" -> {{"members"}, {"state"},
                              {"payout_order", "total_cycles", "state", "activated_at"}}
      [] table = "memberships" -> {{"status"}}
      [] table = "join_requests" -> {{"status", "decided_at", "decided_by"}}
      [] table = "invitations" -> {{"status"}}
      [] table = "cycles" -> {{"settled"}}
      [] OTHER -> {}

\* A write at the time that its handler has read from the clock.
Write(now) == writes < MaxWrites /\ writes' = writes + 1 /\ now \in 0 .. MaxTime

\* Register, CreateGroup, addMember, SubmitContribution, settleCycle, ...: a row
\* with a fresh ID.  One for a key that exists overwrites it: a member who comes
\* back, a contribution or an activation that is tried again.  Events of the chain
\* bring their time with them: those of one block have the same, and MemChain reads
\* the clock before it queues for its lock.
Create(chosen, now) ==
    /\ Write(now)
    /\ LET r == NewRow(chosen, now)
       IN  /\ refused' = refused \cup {db \in SQL : Refuses(db, r)}
           /\ rows' = [db \in Databases |-> IF db \in refused THEN rows[db] ELSE Save(db, r)]
    /\ UNCHANGED <<table, page>>

\* DecideKYC, SetUserRole, Activate, dropMember, ...: the handler reads the row
\* from its store, changes some columns and saves it.
Change(i, columns, now) ==
    /\ Write(now)
    /\ i \in DOMAIN rows["memory"]
    /\ LET Changed(r) == [c \in Columns |-> IF c \notin columns THEN r[c]
                                            ELSE IF c \in Times THEN now ELSE r[c] + 1]
           At(db) == CHOOSE j \in DOMAIN rows[db] :
                         Match(rows[db][j], rows["memory"][i], T("memory").key)
       IN  rows' = [db \in Databases |->
                      IF db \in refused THEN rows[db] ELSE Save(db, Changed(rows[db][At(db)]))]
    /\ UNCHANGED <<table, refused, page>>

\* An operator deletes a webhook.
DeleteWebhook(i) ==
    /\ table = "webhooks"
    /\ Write(0)
    /\ i \in DOMAIN rows["memory"]
    /\ rows' = [db \in Databases |-> Delete(db, rows["memory"][i]["id"])]
    /\ UNCHANGED <<table, refused, page>>

\* A replay of the chain's log hands the indexer an event it has stored.
Redeliver(i) ==
    /\ table = "reputation_events"
    /\ Write(0)
    /\ i \in DOMAIN rows["memory"]
    /\ LET r == rows["memory"][i]
       IN  /\ refused' = refused \cup {db \in SQL : Refuses(db, r)}
           /\ rows' = [db \in Databases |-> IF db \in refused THEN rows[db] ELSE Save(db, r)]
    /\ UNCHANGED <<table, page>>

-----------------------------------------------------------------------------
(* A page listing of a SQL store: two statements, no transaction *)

NoPage == [pc |-> "idle", db |-> "sqlite", total |-> 0]

\* Mutant: the total is a counter that every save increments.
CountSaves(db) ==
    /\ page.pc = "idle" /\ Paged # {}
    /\ page' = [pc |-> "select", db |-> db, total |-> writes]
    /\ UNCHANGED <<table, writes, rows, refused>>

Count(db) ==
    /\ page.pc = "idle" /\ Paged # {}
    /\ page' = [pc |-> "select", db |-> db, total |-> Len(rows[db])]
    /\ UNCHANGED <<table, writes, rows, refused>>

\* What the second statement returns if it runs now.
Selected(offset, limit) ==
    UNION {limitOffset(page.db, Read(page.db, m, <<>>), offset, limit) : m \in Paged}

Select ==
    /\ page.pc = "select"
    /\ page' = NoPage
    /\ UNCHANGED <<table, writes, rows, refused>>

-----------------------------------------------------------------------------
Init ==
    /\ table \in DOMAIN memory
    /\ writes = 0
    /\ rows = [db \in Databases |-> <<>>]
    /\ refused = {}
    /\ page = NoPage

Next ==
    \/ \E now \in 0 .. MaxTime :
          \E chosen \in {f \in [Chosen -> 0 .. 2] : \A c \in Chosen : f[c] \in Inputs[c]} : Create(chosen, now)
    \/ \E now \in 0 .. MaxTime, i \in 1 .. MaxWrites, columns \in Changes : Change(i, columns, now)
    \/ \E i \in 1 .. MaxWrites : DeleteWebhook(i) \/ Redeliver(i)
    \/ \E db \in SQL : Count(db)
    \/ Select

Spec == Init /\ [][Next]_vars

-----------------------------------------------------------------------------
(* Properties *)

\* SaveMembership keeps joined_at of the first row in SQL and not in memory.
Comparable(r) == [c \in Columns \ {"joined_at"} |-> r[c]]

\* Whatever the service writes, a SQL store that has refused no write returns the
\* rows that memory returns, for every method and every argument: the columns
\* named in each DO UPDATE SET are all those that some handler changes.
SameRows ==
    \A db \in SQL \ refused : \A m \in DOMAIN memory[table].reads :
        \A arg \in ToSet(rows["memory"]) \cup ToSet(rows[db]) :
            {Comparable(r) : r \in ToSet(Read(db, m, arg))}
                = {Comparable(r) : r \in ToSet(Read("memory", m, arg))}

\* RFC3339Nano sorts like time if all the fractions are of one length.
OneLength(s) == \E p \in 0 .. 1 : \A r \in ToSet(s) : \A c \in Columns \cap Times : r[c] % 2 = p

\* No two rows of a list are equal in the column by which it is sorted.
NoTies(s, c) == \A i, j \in DOMAIN s : s[i][c] = s[j][c] => i = j

Grows(s, c) == \A i, j \in DOMAIN s : i < j => s[i][c] < s[j][c]

\* Rows that are the same come in the same order wherever both stores sort them, from
\* SQLite as long as no time was printed shorter than another.  Where memory keeps the
\* order of appending (the ledgers), the order is the same if and only if the rows were
\* appended in the order by which SQL sorts: by time, and payouts by cycle.
SameOrder ==
    \A db \in SQL \ refused : \A m \in DOMAIN memory[table].reads : \A arg \in ToSet(rows["memory"]) :
        LET here == Read(db, m, arg)
            there == Read("memory", m, arg)
            kept == memory[table].reads[m].order
            by == T(db).reads[m].order
        IN  /\ kept # "none"
            /\ ToSet(here) = ToSet(there)
            /\ db = "sqlite" => OneLength(here)
            /\ NoTies(here, by)
            => (here = there <=> (kept = "appended" => Grows(there, by)))

Ledgers == {"payouts", "escrow_entries", "reputation_events", "notifications", "audit"}

\* The tables the schema calls append-only never lose or change a row, in any store.
AppendOnly ==
    [][(table \in Ledgers)
         => \A db \in Databases : IsPrefix(rows[db], rows'[db])]_vars

\* The k-th page of one size, from 0, and the first n pages put together.
Page(db, s, limit, k) == CHOOSE p \in limitOffset(db, s, k * limit, limit) : TRUE
Pages(db, s, limit) ==
    LET pages[n \in 0 .. Len(s) + 1] == IF n = 0 THEN <<>> ELSE pages[n - 1] \o Page(db, s, limit, n - 1)
    IN  pages

\* The pages of one size, one after the other, are the whole list in a SQL store.
\* Memory returns as many rows for a page, but the right ones only for the first.
PagesCover ==
    \A limit \in Limits : limit > 0 => \A db \in SQL :
        LET s == rows[db]
        IN  /\ Pages(db, s, limit)[Len(s) + 1] = s
            /\ \A k \in 0 .. Len(s) : Len(memoryPage(s, k * limit, limit)) = Len(Page(db, s, limit, k))
            /\ memoryPage(s, 0, limit) = Page(db, s, limit, 0)

\* The total that comes with a page of a SQL store is never ahead of it: a row it
\* counted is on the page or beyond it, although rows were added between the two
\* statements.
TotalIsNotAhead ==
    page.pc = "select" =>
        \A offset \in Offsets, limit \in Limits : \A s \in Selected(offset, limit) :
            LET from == IF offset < 0 THEN 0 ELSE offset
                size == IF limit <= 0 THEN 50 ELSE limit
            IN  Len(s) >= Smaller(size, page.total - from)
=============================================================================
