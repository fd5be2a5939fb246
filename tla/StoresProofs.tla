---------------------------- MODULE StoresProofs ----------------------------
(***************************************************************************)
(* Proofs about Stores, for any number of writes and any pages.            *)
(***************************************************************************)
EXTENDS Stores, ListLemmas, FiniteSetTheorems, SequenceTheorems, TLAPS

-----------------------------------------------------------------------------
(* The inductive invariant *)

\* Every step keeps to these types.
TypeOK ==
    /\ table \in DOMAIN memory /\ writes \in Nat
    /\ rows \in [Databases -> Seq([Columns -> Nat])]
    /\ refused \in SUBSET SQL
    /\ page \in [pc : {"idle", "select"}, db : SQL, total : Nat]

\* No ID is drawn twice: those in the rows are of earlier writes.
IdsKnown ==
    "id" \in Columns => \A db \in Databases : \A i \in DOMAIN rows[db] : rows[db][i]["id"] <= writes

\* The unique columns of the schema are unique.
UniqueIn(s, unique) == \A u \in unique : \A i, j \in DOMAIN s : Match(s[i], s[j], u) => i = j
Unique(db) == UniqueIn(rows[db], T(db).unique)

\* Position by position, a SQL store holds what memory holds.
Alike(r, s, columns) == \A c \in columns \ {"joined_at"} : r[c] = s[c]
AlignedTo(s, m, columns) == DOMAIN s = DOMAIN m /\ \A i \in DOMAIN s : Alike(s[i], m[i], columns)
Aligned(db) == AlignedTo(rows[db], rows["memory"], Columns)

\* What was counted is still there.
PageInv == page.pc = "select" => Paged # {} /\ page.total <= Len(rows[page.db])

Inv ==
    /\ TypeOK /\ IdsKnown /\ PageInv
    /\ \A db \in SQL \ refused : Unique(db) /\ Aligned(db)

-----------------------------------------------------------------------------
(* What the tables have in common *)

\* How a SQL table s reads in comparison with the table m of memory.
SameReads(m, s) ==
    /\ DOMAIN s.reads = DOMAIN m.reads
    /\ \A r \in DOMAIN m.reads :
          /\ s.reads[r].by = m.reads[r].by
          /\ m.reads[r].by \subseteq s.cols /\ "joined_at" \notin m.reads[r].by

\* A conflict is found by the same columns, and leaves no other column as it was than
\* the time of a first joining; a new ID makes no conflict.
SameKeys(m, s) ==
    /\ s.key \subseteq s.cols /\ "joined_at" \notin s.key
    /\ m.key # {} => s.key = m.key
    /\ m.key = {} => s.key \subseteq {"id"}
    /\ s.key # {} => /\ s.key \in s.unique
                     /\ s.key = {"id"} \/ s.cols \ (s.key \cup s.update) \subseteq {"joined_at"}
                     /\ \A u \in s.unique : u \subseteq s.key \cup s.update
    /\ \A u \in s.unique : u \subseteq s.cols /\ "joined_at" \notin u

\* Both sort by one column, or memory keeps the order of appending and the SQL store
\* sorts upwards.
SameSort(m, s) ==
    \A r \in DOMAIN m.reads :
        LET q == s.reads[r]
        IN  \/ m.reads[r].order = "none"
            \/ q = m.reads[r] /\ q.order \in s.cols \ {"none", "appended"}
            \/ m.reads[r].order = "appended" /\ q.desc = FALSE /\ q.order \in s.cols \ {"none", "appended"}

\* A list is sorted by a column.
SortsKnown(m, s) ==
    \A r \in DOMAIN m.reads :
        m.reads[r].order \in s.cols \cup {"none", "appended"} /\ s.reads[r].order \in s.cols \cup {"none", "appended"}

\* Rows that are the same in every column are one row.
RowsDiffer(s) == s.key # {} \/ {"id"} \in s.unique

TableOK(m, s, cols) ==
    /\ s.cols = cols /\ SameReads(m, s) /\ SortsKnown(m, s)
    /\ SameKeys(m, s) /\ RowsDiffer(s) /\ SameSort(m, s)

\* SQLite's tables, and the one that Postgres keeps differently.
LEMMA SchemasFit ==
  /\ TableOK(memUsers, sqliteUsers, sqliteUsers.cols)
  /\ TableOK(memGroups, sqliteGroups, sqliteGroups.cols)
  /\ TableOK(memMemberships, sqliteMemberships, sqliteMemberships.cols)
  /\ TableOK(memJoinRequests, sqliteJoinRequests, sqliteJoinRequests.cols)
  /\ TableOK(memInvitations, sqliteInvitations, sqliteInvitations.cols)
  /\ TableOK(memCycles, sqliteCycles, sqliteCycles.cols)
  /\ TableOK(memContributions, sqliteContributions, sqliteContributions.cols)
  /\ TableOK(memPayouts, sqlitePayouts, sqlitePayouts.cols)
  /\ TableOK(memEscrow, sqliteEscrow, sqliteEscrow.cols)
  /\ TableOK(memReputation, sqliteReputation, sqliteReputation.cols)
  /\ TableOK(memWebhooks, sqliteWebhooks, sqliteWebhooks.cols)
  /\ TableOK(memNotifications, sqliteNotifications, sqliteNotifications.cols)
  /\ TableOK(memAudit, sqliteAudit, sqliteAudit.cols)
  /\ TableOK(memUsers, pgUsers, pgUsers.cols)
<1> USE DEF Map, Slice, Upsert, Insert, Asc, Newest, Appended, Unordered,
            SameReads, SortsKnown, SameKeys, SameSort
<1>1. TableOK(memUsers, sqliteUsers, sqliteUsers.cols)
  <2>1. SameReads(memUsers, sqliteUsers)
    BY DEF memUsers, sqliteUsers
  <2>2. SameKeys(memUsers, sqliteUsers)
    BY DEF memUsers, sqliteUsers
  <2>3. RowsDiffer(sqliteUsers)
    BY DEF sqliteUsers, RowsDiffer
  <2>4. SortsKnown(memUsers, sqliteUsers)
    BY DEF memUsers, sqliteUsers
  <2>5. SameSort(memUsers, sqliteUsers)
    BY DEF memUsers, sqliteUsers
  <2> QED
    BY <2>1, <2>2, <2>3, <2>4, <2>5 DEF TableOK
<1>2. TableOK(memGroups, sqliteGroups, sqliteGroups.cols)
  <2>1. SameReads(memGroups, sqliteGroups)
    BY DEF memGroups, sqliteGroups
  <2>2. SameKeys(memGroups, sqliteGroups)
    BY DEF memGroups, sqliteGroups
  <2>3. RowsDiffer(sqliteGroups)
    BY DEF sqliteGroups, RowsDiffer
  <2>4. SortsKnown(memGroups, sqliteGroups)
    BY DEF memGroups, sqliteGroups
  <2>5. SameSort(memGroups, sqliteGroups)
    BY DEF memGroups, sqliteGroups
  <2> QED
    BY <2>1, <2>2, <2>3, <2>4, <2>5 DEF TableOK
<1>3. TableOK(memMemberships, sqliteMemberships, sqliteMemberships.cols)
  <2>1. SameReads(memMemberships, sqliteMemberships)
    BY DEF memMemberships, sqliteMemberships
  <2>2. SameKeys(memMemberships, sqliteMemberships)
    BY DEF memMemberships, sqliteMemberships
  <2>3. RowsDiffer(sqliteMemberships)
    BY DEF sqliteMemberships, RowsDiffer
  <2>4. SortsKnown(memMemberships, sqliteMemberships)
    BY DEF memMemberships, sqliteMemberships
  <2>5. SameSort(memMemberships, sqliteMemberships)
    BY DEF memMemberships, sqliteMemberships
  <2> QED
    BY <2>1, <2>2, <2>3, <2>4, <2>5 DEF TableOK
<1>4. TableOK(memJoinRequests, sqliteJoinRequests, sqliteJoinRequests.cols)
  <2>1. SameReads(memJoinRequests, sqliteJoinRequests)
    BY DEF memJoinRequests, sqliteJoinRequests
  <2>2. SameKeys(memJoinRequests, sqliteJoinRequests)
    BY DEF memJoinRequests, sqliteJoinRequests
  <2>3. RowsDiffer(sqliteJoinRequests)
    BY DEF sqliteJoinRequests, RowsDiffer
  <2>4. SortsKnown(memJoinRequests, sqliteJoinRequests)
    BY DEF memJoinRequests, sqliteJoinRequests
  <2>5. SameSort(memJoinRequests, sqliteJoinRequests)
    BY DEF memJoinRequests, sqliteJoinRequests
  <2> QED
    BY <2>1, <2>2, <2>3, <2>4, <2>5 DEF TableOK
<1>5. TableOK(memInvitations, sqliteInvitations, sqliteInvitations.cols)
  <2>1. SameReads(memInvitations, sqliteInvitations)
    BY SMTT(30) DEF memInvitations, sqliteInvitations
  <2>2. SameKeys(memInvitations, sqliteInvitations)
    BY DEF memInvitations, sqliteInvitations
  <2>3. RowsDiffer(sqliteInvitations)
    BY DEF sqliteInvitations, RowsDiffer
  <2>4. SortsKnown(memInvitations, sqliteInvitations)
    BY DEF memInvitations, sqliteInvitations
  <2>5. SameSort(memInvitations, sqliteInvitations)
    BY DEF memInvitations, sqliteInvitations
  <2> QED
    BY <2>1, <2>2, <2>3, <2>4, <2>5 DEF TableOK
<1>6. TableOK(memCycles, sqliteCycles, sqliteCycles.cols)
  <2>1. SameReads(memCycles, sqliteCycles)
    BY DEF memCycles, sqliteCycles
  <2>2. SameKeys(memCycles, sqliteCycles)
    BY DEF memCycles, sqliteCycles
  <2>3. RowsDiffer(sqliteCycles)
    BY DEF sqliteCycles, RowsDiffer
  <2>4. SortsKnown(memCycles, sqliteCycles)
    BY DEF memCycles, sqliteCycles
  <2>5. SameSort(memCycles, sqliteCycles)
    BY DEF memCycles, sqliteCycles
  <2> QED
    BY <2>1, <2>2, <2>3, <2>4, <2>5 DEF TableOK
<1>7. TableOK(memContributions, sqliteContributions, sqliteContributions.cols)
  <2>1. SameReads(memContributions, sqliteContributions)
    BY DEF memContributions, sqliteContributions
  <2>2. SameKeys(memContributions, sqliteContributions)
    BY DEF memContributions, sqliteContributions
  <2>3. RowsDiffer(sqliteContributions)
    BY DEF sqliteContributions, RowsDiffer
  <2>4. SortsKnown(memContributions, sqliteContributions)
    BY DEF memContributions, sqliteContributions
  <2>5. SameSort(memContributions, sqliteContributions)
    BY DEF memContributions, sqliteContributions
  <2> QED
    BY <2>1, <2>2, <2>3, <2>4, <2>5 DEF TableOK
<1>8. TableOK(memPayouts, sqlitePayouts, sqlitePayouts.cols)
  <2>1. SameReads(memPayouts, sqlitePayouts)
    BY DEF memPayouts, sqlitePayouts
  <2>2. SameKeys(memPayouts, sqlitePayouts)
    BY DEF memPayouts, sqlitePayouts
  <2>3. RowsDiffer(sqlitePayouts)
    BY DEF sqlitePayouts, RowsDiffer
  <2>4. SortsKnown(memPayouts, sqlitePayouts)
    BY DEF memPayouts, sqlitePayouts
  <2>5. SameSort(memPayouts, sqlitePayouts)
    BY DEF memPayouts, sqlitePayouts
  <2> QED
    BY <2>1, <2>2, <2>3, <2>4, <2>5 DEF TableOK
<1>9. TableOK(memEscrow, sqliteEscrow, sqliteEscrow.cols)
  <2>1. SameReads(memEscrow, sqliteEscrow)
    BY DEF memEscrow, sqliteEscrow
  <2>2. SameKeys(memEscrow, sqliteEscrow)
    BY DEF memEscrow, sqliteEscrow
  <2>3. RowsDiffer(sqliteEscrow)
    BY DEF sqliteEscrow, RowsDiffer
  <2>4. SortsKnown(memEscrow, sqliteEscrow)
    BY DEF memEscrow, sqliteEscrow
  <2>5. SameSort(memEscrow, sqliteEscrow)
    BY DEF memEscrow, sqliteEscrow
  <2> QED
    BY <2>1, <2>2, <2>3, <2>4, <2>5 DEF TableOK
<1>10. TableOK(memReputation, sqliteReputation, sqliteReputation.cols)
  <2>1. SameReads(memReputation, sqliteReputation)
    BY DEF memReputation, sqliteReputation
  <2>2. SameKeys(memReputation, sqliteReputation)
    BY DEF memReputation, sqliteReputation
  <2>3. RowsDiffer(sqliteReputation)
    BY DEF sqliteReputation, RowsDiffer
  <2>4. /\ DOMAIN memReputation.reads = {"ReputationEvents", "AllReputationEvents"}
        /\ memReputation.reads["ReputationEvents"] = Appended({"user_id"})
        /\ memReputation.reads["AllReputationEvents"] = Newest({}, "timestamp")
        /\ sqliteReputation.reads["ReputationEvents"] = Asc({"user_id"}, "timestamp")
        /\ sqliteReputation.reads["AllReputationEvents"] = Newest({}, "timestamp")
        /\ "timestamp" \in sqliteReputation.cols
    BY DEF memReputation, sqliteReputation
  <2>5. SameSort(memReputation, sqliteReputation) /\ SortsKnown(memReputation, sqliteReputation)
    BY <2>4
  <2> QED
    BY <2>1, <2>2, <2>3, <2>5 DEF TableOK
<1>11. TableOK(memWebhooks, sqliteWebhooks, sqliteWebhooks.cols)
  <2>1. SameReads(memWebhooks, sqliteWebhooks)
    BY DEF memWebhooks, sqliteWebhooks
  <2>2. SameKeys(memWebhooks, sqliteWebhooks)
    BY DEF memWebhooks, sqliteWebhooks
  <2>3. RowsDiffer(sqliteWebhooks)
    BY DEF sqliteWebhooks, RowsDiffer
  <2>4. SortsKnown(memWebhooks, sqliteWebhooks)
    BY DEF memWebhooks, sqliteWebhooks
  <2>5. SameSort(memWebhooks, sqliteWebhooks)
    BY DEF memWebhooks, sqliteWebhooks
  <2> QED
    BY <2>1, <2>2, <2>3, <2>4, <2>5 DEF TableOK
<1>12. TableOK(memNotifications, sqliteNotifications, sqliteNotifications.cols)
  <2>1. SameReads(memNotifications, sqliteNotifications)
    BY DEF memNotifications, sqliteNotifications
  <2>2. SameKeys(memNotifications, sqliteNotifications)
    BY DEF memNotifications, sqliteNotifications
  <2>3. RowsDiffer(sqliteNotifications)
    BY DEF sqliteNotifications, RowsDiffer
  <2>4. SortsKnown(memNotifications, sqliteNotifications)
    BY DEF memNotifications, sqliteNotifications
  <2>5. SameSort(memNotifications, sqliteNotifications)
    BY DEF memNotifications, sqliteNotifications
  <2> QED
    BY <2>1, <2>2, <2>3, <2>4, <2>5 DEF TableOK
<1>13. TableOK(memAudit, sqliteAudit, sqliteAudit.cols)
  <2>1. SameReads(memAudit, sqliteAudit)
    BY DEF memAudit, sqliteAudit
  <2>2. SameKeys(memAudit, sqliteAudit)
    BY DEF memAudit, sqliteAudit
  <2>3. RowsDiffer(sqliteAudit)
    BY DEF sqliteAudit, RowsDiffer
  <2>4. SortsKnown(memAudit, sqliteAudit)
    BY DEF memAudit, sqliteAudit
  <2>5. SameSort(memAudit, sqliteAudit)
    BY DEF memAudit, sqliteAudit
  <2> QED
    BY <2>1, <2>2, <2>3, <2>4, <2>5 DEF TableOK
<1>14. TableOK(memUsers, pgUsers, pgUsers.cols)
  <2>1. SameReads(memUsers, pgUsers)
    BY DEF memUsers, pgUsers
  <2>2. SameKeys(memUsers, pgUsers)
    BY DEF memUsers, pgUsers
  <2>3. RowsDiffer(pgUsers)
    BY DEF pgUsers, RowsDiffer
  <2>4. SortsKnown(memUsers, pgUsers)
    BY DEF memUsers, pgUsers
  <2>5. SameSort(memUsers, pgUsers)
    BY DEF memUsers, pgUsers
  <2> QED
    BY <2>1, <2>2, <2>3, <2>4, <2>5 DEF TableOK
<1> HIDE DEF SameReads, SortsKnown, SameKeys, SameSort, Map, Slice, Upsert, Insert, Asc, Newest, Appended, Unordered
<1> QED
  BY <1>1, <1>2, <1>3, <1>4, <1>5, <1>6, <1>7, <1>8, <1>9, <1>10, <1>11, <1>12, <1>13, <1>14

\* Postgres' other tables are those of SQLite.
LEMMA SchemasAgree ==
  /\ pgUsers.cols = sqliteUsers.cols
  /\ pgGroups = sqliteGroups
  /\ pgMemberships = sqliteMemberships
  /\ pgJoinRequests = sqliteJoinRequests
  /\ pgInvitations = sqliteInvitations
  /\ pgCycles = sqliteCycles
  /\ pgContributions = sqliteContributions
  /\ pgPayouts = sqlitePayouts
  /\ pgEscrow = sqliteEscrow
  /\ pgReputation = sqliteReputation
  /\ pgWebhooks = sqliteWebhooks
  /\ pgNotifications = sqliteNotifications
  /\ pgAudit = sqliteAudit
<1>0. pgUsers.cols = sqliteUsers.cols
  BY DEF pgUsers, sqliteUsers, Upsert
<1>1. pgGroups = sqliteGroups
  BY DEF pgGroups, sqliteGroups, Upsert, Insert, Asc, Newest, Unordered
<1>2. pgMemberships = sqliteMemberships
  BY DEF pgMemberships, sqliteMemberships, Upsert, Insert, Asc, Newest, Unordered
<1>3. pgJoinRequests = sqliteJoinRequests
  BY DEF pgJoinRequests, sqliteJoinRequests, Upsert, Insert, Asc, Newest, Unordered
<1>4. pgInvitations = sqliteInvitations
  BY DEF pgInvitations, sqliteInvitations, Upsert, Insert, Asc, Newest, Unordered
<1>5. pgCycles = sqliteCycles
  BY DEF pgCycles, sqliteCycles, Upsert, Insert, Asc, Newest, Unordered
<1>6. pgContributions = sqliteContributions
  BY DEF pgContributions, sqliteContributions, Upsert, Insert, Asc, Newest, Unordered
<1>7. pgPayouts = sqlitePayouts
  BY DEF pgPayouts, sqlitePayouts, Upsert, Insert, Asc, Newest, Unordered
<1>8. pgEscrow = sqliteEscrow
  BY DEF pgEscrow, sqliteEscrow, Upsert, Insert, Asc, Newest, Unordered
<1>9. pgReputation = sqliteReputation
  BY DEF pgReputation, sqliteReputation, Upsert, Insert, Asc, Newest, Unordered
<1>10. pgWebhooks = sqliteWebhooks
  BY DEF pgWebhooks, sqliteWebhooks, Upsert, Insert, Asc, Newest, Unordered
<1>11. pgNotifications = sqliteNotifications
  BY DEF pgNotifications, sqliteNotifications, Upsert, Insert, Asc, Newest, Unordered
<1>12. pgAudit = sqliteAudit
  BY DEF pgAudit, sqliteAudit, Upsert, Insert, Asc, Newest, Unordered
<1> QED
  BY <1>0, <1>1, <1>2, <1>3, <1>4, <1>5, <1>6, <1>7, <1>8, <1>9, <1>10, <1>11, <1>12

\* Every table of a SQL store fits the one of memory.
LEMMA TablesFit ==
  ASSUME TypeOK, NEW db \in SQL
  PROVE  TableOK(T("memory"), T(db), Columns)
<1>0. /\ T("memory") = memory[table] /\ T("sqlite") = sqlite[table] /\ T("postgres") = postgres[table]
      /\ Columns = sqlite[table].cols /\ table \in DOMAIN memory /\ db \in {"sqlite", "postgres"}
  BY DEF T, Columns, TypeOK, SQL
<1>1. CASE table = "users"
  <2>1. memory[table] = memUsers /\ sqlite[table] = sqliteUsers /\ postgres[table] = pgUsers
    BY <1>1 DEF memory, sqlite, postgres
  <2> QED
    BY <1>0, <1>1, <2>1, SchemasFit, SchemasAgree
<1>2. CASE table = "groups"
  <2>1. memory[table] = memGroups /\ sqlite[table] = sqliteGroups /\ postgres[table] = pgGroups
    BY <1>2 DEF memory, sqlite, postgres
  <2> QED
    BY <1>0, <1>2, <2>1, SchemasFit, SchemasAgree
<1>3. CASE table = "memberships"
  <2>1. memory[table] = memMemberships /\ sqlite[table] = sqliteMemberships /\ postgres[table] = pgMemberships
    BY <1>3 DEF memory, sqlite, postgres
  <2> QED
    BY <1>0, <1>3, <2>1, SchemasFit, SchemasAgree
<1>4. CASE table = "join_requests"
  <2>1. memory[table] = memJoinRequests /\ sqlite[table] = sqliteJoinRequests /\ postgres[table] = pgJoinRequests
    BY <1>4 DEF memory, sqlite, postgres
  <2> QED
    BY <1>0, <1>4, <2>1, SchemasFit, SchemasAgree
<1>5. CASE table = "invitations"
  <2>1. memory[table] = memInvitations /\ sqlite[table] = sqliteInvitations /\ postgres[table] = pgInvitations
    BY <1>5 DEF memory, sqlite, postgres
  <2> QED
    BY <1>0, <1>5, <2>1, SchemasFit, SchemasAgree
<1>6. CASE table = "cycles"
  <2>1. memory[table] = memCycles /\ sqlite[table] = sqliteCycles /\ postgres[table] = pgCycles
    BY <1>6 DEF memory, sqlite, postgres
  <2> QED
    BY <1>0, <1>6, <2>1, SchemasFit, SchemasAgree
<1>7. CASE table = "contributions"
  <2>1. memory[table] = memContributions /\ sqlite[table] = sqliteContributions /\ postgres[table] = pgContributions
    BY <1>7 DEF memory, sqlite, postgres
  <2> QED
    BY <1>0, <1>7, <2>1, SchemasFit, SchemasAgree
<1>8. CASE table = "payouts"
  <2>1. memory[table] = memPayouts /\ sqlite[table] = sqlitePayouts /\ postgres[table] = pgPayouts
    BY <1>8 DEF memory, sqlite, postgres
  <2> QED
    BY <1>0, <1>8, <2>1, SchemasFit, SchemasAgree
<1>9. CASE table = "escrow_entries"
  <2>1. memory[table] = memEscrow /\ sqlite[table] = sqliteEscrow /\ postgres[table] = pgEscrow
    BY <1>9 DEF memory, sqlite, postgres
  <2> QED
    BY <1>0, <1>9, <2>1, SchemasFit, SchemasAgree
<1>10. CASE table = "reputation_events"
  <2>1. memory[table] = memReputation /\ sqlite[table] = sqliteReputation /\ postgres[table] = pgReputation
    BY <1>10 DEF memory, sqlite, postgres
  <2> QED
    BY <1>0, <1>10, <2>1, SchemasFit, SchemasAgree
<1>11. CASE table = "webhooks"
  <2>1. memory[table] = memWebhooks /\ sqlite[table] = sqliteWebhooks /\ postgres[table] = pgWebhooks
    BY <1>11 DEF memory, sqlite, postgres
  <2> QED
    BY <1>0, <1>11, <2>1, SchemasFit, SchemasAgree
<1>12. CASE table = "notifications"
  <2>1. memory[table] = memNotifications /\ sqlite[table] = sqliteNotifications /\ postgres[table] = pgNotifications
    BY <1>12 DEF memory, sqlite, postgres
  <2> QED
    BY <1>0, <1>12, <2>1, SchemasFit, SchemasAgree
<1>13. CASE table = "audit"
  <2>1. memory[table] = memAudit /\ sqlite[table] = sqliteAudit /\ postgres[table] = pgAudit
    BY <1>13 DEF memory, sqlite, postgres
  <2> QED
    BY <1>0, <1>13, <2>1, SchemasFit, SchemasAgree
<1> QED
  BY <1>0, <1>1, <1>2, <1>3, <1>4, <1>5, <1>6, <1>7, <1>8, <1>9, <1>10, <1>11, <1>12, <1>13 DEF memory

\* The columns of SaveX's conflict clause hold every column that a handler changes, and
\* none of these is unique or part of a key.
ChangeOK(m, s, columns) ==
    /\ m.key # {} /\ columns \subseteq s.update /\ columns \cap s.key = {}
    /\ "joined_at" \notin columns /\ "id" \notin columns /\ \A u \in s.unique : u \cap columns = {}

\* Every change of the service fits the tables.
LEMMA ChangesFit ==
  ASSUME TypeOK, NEW db \in SQL, NEW columns \in Changes
  PROVE  ChangeOK(T("memory"), T(db), columns) /\ table \notin Ledgers
<1>0. /\ T("memory") = memory[table] /\ T("sqlite") = sqlite[table] /\ T("postgres") = postgres[table]
      /\ db \in {"sqlite", "postgres"}
  BY DEF T, SQL
<1> USE DEF Map, Upsert, ChangeOK
<1>1. CASE table = "users"
  <2>1. memory[table] = memUsers /\ sqlite[table] = sqliteUsers /\ postgres[table] = pgUsers
    BY <1>1 DEF memory, sqlite, postgres
  <2>2. ChangeOK(memUsers, sqliteUsers, columns) /\ ChangeOK(memUsers, pgUsers, columns)
    BY <1>1 DEF Changes, memUsers, sqliteUsers, pgUsers
  <2> QED
    BY <1>0, <1>1, <2>1, <2>2 DEF Ledgers
<1>2. CASE table = "groups"
  <2>1. memory[table] = memGroups /\ sqlite[table] = sqliteGroups /\ postgres[table] = pgGroups
    BY <1>2 DEF memory, sqlite, postgres
  <2>2. ChangeOK(memGroups, sqliteGroups, columns) /\ ChangeOK(memGroups, pgGroups, columns)
    BY <1>2 DEF Changes, memGroups, sqliteGroups, pgGroups
  <2> QED
    BY <1>0, <1>2, <2>1, <2>2 DEF Ledgers
<1>3. CASE table = "memberships"
  <2>1. memory[table] = memMemberships /\ sqlite[table] = sqliteMemberships /\ postgres[table] = pgMemberships
    BY <1>3 DEF memory, sqlite, postgres
  <2>2. ChangeOK(memMemberships, sqliteMemberships, columns) /\ ChangeOK(memMemberships, pgMemberships, columns)
    BY <1>3 DEF Changes, memMemberships, sqliteMemberships, pgMemberships
  <2> QED
    BY <1>0, <1>3, <2>1, <2>2 DEF Ledgers
<1>4. CASE table = "join_requests"
  <2>1. memory[table] = memJoinRequests /\ sqlite[table] = sqliteJoinRequests /\ postgres[table] = pgJoinRequests
    BY <1>4 DEF memory, sqlite, postgres
  <2>2. ChangeOK(memJoinRequests, sqliteJoinRequests, columns) /\ ChangeOK(memJoinRequests, pgJoinRequests, columns)
    BY <1>4 DEF Changes, memJoinRequests, sqliteJoinRequests, pgJoinRequests
  <2> QED
    BY <1>0, <1>4, <2>1, <2>2 DEF Ledgers
<1>5. CASE table = "invitations"
  <2>1. memory[table] = memInvitations /\ sqlite[table] = sqliteInvitations /\ postgres[table] = pgInvitations
    BY <1>5 DEF memory, sqlite, postgres
  <2>2. ChangeOK(memInvitations, sqliteInvitations, columns) /\ ChangeOK(memInvitations, pgInvitations, columns)
    BY <1>5 DEF Changes, memInvitations, sqliteInvitations, pgInvitations
  <2> QED
    BY <1>0, <1>5, <2>1, <2>2 DEF Ledgers
<1>6. CASE table = "cycles"
  <2>1. memory[table] = memCycles /\ sqlite[table] = sqliteCycles /\ postgres[table] = pgCycles
    BY <1>6 DEF memory, sqlite, postgres
  <2>2. ChangeOK(memCycles, sqliteCycles, columns) /\ ChangeOK(memCycles, pgCycles, columns)
    BY <1>6 DEF Changes, memCycles, sqliteCycles, pgCycles
  <2> QED
    BY <1>0, <1>6, <2>1, <2>2 DEF Ledgers
<1> QED
  BY <1>1, <1>2, <1>3, <1>4, <1>5, <1>6 DEF Changes

\* A ledger has no key in memory.
LEMMA LedgersFit == TypeOK /\ table \in Ledgers => T("memory").key = {}
BY DEF Ledgers, T, memory, memPayouts, memEscrow, memReputation, memNotifications, memAudit, Slice

\* The pages are of all rows, and of tables no row of which is deleted.
LEMMA PagedFit ==
  ASSUME TypeOK, NEW m \in Paged
  PROVE  m \in DOMAIN T("memory").reads /\ table # "webhooks" /\ T("memory").reads[m].by = {}
<1>0. T("memory") = memory[table] /\ m \in DOMAIN memory[table].reads /\ m \in PagedReads /\ table \in DOMAIN memory
  BY DEF T, Paged, TypeOK
<1> USE DEF PagedReads, Map, Slice, Asc, Newest, Appended, Unordered
<1>1. CASE table = "users"
  <2>1. memory[table] = memUsers
    BY <1>1 DEF memory
  <2> QED
    BY <1>0, <1>1, <2>1 DEF memUsers
<1>2. CASE table = "groups"
  <2>1. memory[table] = memGroups
    BY <1>2 DEF memory
  <2> QED
    BY <1>0, <1>2, <2>1 DEF memGroups
<1>3. CASE table = "memberships"
  <2>1. memory[table] = memMemberships
    BY <1>3 DEF memory
  <2> QED
    BY <1>0, <1>3, <2>1 DEF memMemberships
<1>4. CASE table = "join_requests"
  <2>1. memory[table] = memJoinRequests
    BY <1>4 DEF memory
  <2> QED
    BY <1>0, <1>4, <2>1 DEF memJoinRequests
<1>5. CASE table = "invitations"
  <2>1. memory[table] = memInvitations
    BY <1>5 DEF memory
  <2> QED
    BY <1>0, <1>5, <2>1 DEF memInvitations
<1>6. CASE table = "cycles"
  <2>1. memory[table] = memCycles
    BY <1>6 DEF memory
  <2> QED
    BY <1>0, <1>6, <2>1 DEF memCycles
<1>7. CASE table = "contributions"
  <2>1. memory[table] = memContributions
    BY <1>7 DEF memory
  <2> QED
    BY <1>0, <1>7, <2>1 DEF memContributions
<1>8. CASE table = "payouts"
  <2>1. memory[table] = memPayouts
    BY <1>8 DEF memory
  <2> QED
    BY <1>0, <1>8, <2>1 DEF memPayouts
<1>9. CASE table = "escrow_entries"
  <2>1. memory[table] = memEscrow
    BY <1>9 DEF memory
  <2> QED
    BY <1>0, <1>9, <2>1 DEF memEscrow
<1>10. CASE table = "reputation_events"
  <2>1. memory[table] = memReputation
    BY <1>10 DEF memory
  <2> QED
    BY <1>0, <1>10, <2>1 DEF memReputation
<1>11. CASE table = "webhooks"
  <2>1. memory[table] = memWebhooks
    BY <1>11 DEF memory
  <2> QED
    BY <1>0, <1>11, <2>1 DEF memWebhooks
<1>12. CASE table = "notifications"
  <2>1. memory[table] = memNotifications
    BY <1>12 DEF memory
  <2> QED
    BY <1>0, <1>12, <2>1 DEF memNotifications
<1>13. CASE table = "audit"
  <2>1. memory[table] = memAudit
    BY <1>13 DEF memory
  <2> QED
    BY <1>0, <1>13, <2>1 DEF memAudit
<1> QED
  BY <1>0, <1>1, <1>2, <1>3, <1>4, <1>5, <1>6, <1>7, <1>8, <1>9, <1>10, <1>11, <1>12, <1>13 DEF memory

\* What a new row has in a column.
LEMMA NewColumn ==
  ASSUME NEW chosen, NEW now, NEW c \in Columns
  PROVE  /\ c \in Chosen => NewRow(chosen, now)[c] = chosen[c]
         /\ c \in Fresh => NewRow(chosen, now)[c] = writes + 1
         /\ NewRow(chosen, now)[c] \in {chosen[c], writes + 1, now, 0}
         /\ c \notin Chosen => NewRow(chosen, now)[c] \in {writes + 1, now, 0}
<1>1. /\ c \in Chosen => c \notin Fresh /\ c \notin Times
      /\ c \in Fresh => c \notin Chosen /\ c \notin Times
      /\ c \in Times => c \notin Fresh /\ c \notin Chosen
  BY DEF Chosen, Inputs, Fresh, Times
<1>2. NewRow(chosen, now)[c] = CASE c \in Chosen -> chosen[c]
                         [] c \in Fresh -> writes + 1
                         [] c \in Times -> now
                         [] OTHER -> 0
  BY DEF NewRow
<1>3. CASE c \in Chosen
  BY <1>1, <1>2, <1>3
<1>4. CASE c \in Fresh
  BY <1>1, <1>2, <1>4
<1>5. CASE c \in Times
  BY <1>1, <1>2, <1>5
<1>6. CASE c \notin Chosen /\ c \notin Fresh /\ c \notin Times
  BY <1>1, <1>2, <1>6
<1> QED
  BY <1>3, <1>4, <1>5, <1>6

\* A new row has a number in each column, and a fresh ID.
LEMMA NewRowIs ==
  ASSUME TypeOK, NEW chosen \in [Chosen -> 0 .. 2], NEW now \in Nat, NEW r, r = NewRow(chosen, now)
  PROVE  /\ r \in [Columns -> Nat]
         /\ "id" \in Columns => r["id"] = writes + 1
<1>1. r = [c \in Columns |-> r[c]]
  BY DEF NewRow
<1>2. ASSUME NEW c \in Columns PROVE r[c] \in Nat
  <2>1. writes + 1 \in Nat /\ (c \in Chosen => chosen[c] \in Nat)
    BY DEF TypeOK
  <2> QED
    BY <2>1, NewColumn
<1>3. "id" \in Fresh
  BY DEF Fresh
<1>4. "id" \in Columns => r["id"] = writes + 1
  BY <1>3, NewColumn
<1> QED
  BY <1>1, <1>2, <1>4

-----------------------------------------------------------------------------
(* Saves *)

\* The names of the stores.
LEMMA Names == /\ Databases = {"sqlite", "postgres", "memory"} /\ SQL = {"sqlite", "postgres"}
               /\ \A db \in SQL : db \in Databases /\ db # "memory"
BY DEF Databases, SQL

\* The rows of a store.
LEMMA RowsAre ==
  ASSUME TypeOK, NEW db \in Databases
  PROVE  /\ rows[db] \in Seq([Columns -> Nat]) /\ Len(rows[db]) \in Nat /\ DOMAIN rows[db] = 1 .. Len(rows[db])
         /\ \A i \in DOMAIN rows[db] : rows[db][i] \in [Columns -> Nat]
BY DEF TypeOK

\* There are as many rows as before or more, and a column of a row is what it was or what
\* is saved.
SaveResult(s, old, r) ==
    /\ s \in Seq([Columns -> Nat]) /\ Len(s) \in Nat /\ Len(s) >= Len(old)
    /\ \A i \in DOMAIN s, c \in Columns :
          s[i][c] = r[c] \/ (i \in DOMAIN old /\ s[i][c] = old[i][c])

\* That is what a save leaves.
LEMMA SaveIs ==
  ASSUME TypeOK, NEW db \in Databases, NEW r \in [Columns -> Nat]
  PROVE  SaveResult(Save(db, r), rows[db], r)
<1> SUFFICES ASSUME NEW s, s = Save(db, r)
             PROVE  SaveResult(s, rows[db], r)
  OBVIOUS
<1> USE DEF SaveResult
<1>0. PICK old, R : old = rows[db] /\ R = [Columns -> Nat]
  OBVIOUS
<1>1. /\ old \in Seq(R) /\ Len(old) \in Nat /\ DOMAIN old = 1 .. Len(old) /\ r \in R
      /\ \A i \in DOMAIN old : old[i] \in R
  BY <1>0, RowsAre
<1>2. CASE Refuses(db, r)
  <2>1. s = old
    BY <1>0, <1>2 DEF Save
  <2> QED
    BY <1>0, <1>1, <2>1
<1>3. CASE ~ Refuses(db, r) /\ Existing(db, r) = {}
  <2>1. s = Append(old, r)
    BY <1>0, <1>3 DEF Save
  <2>2. s \in Seq(R) /\ Len(s) = Len(old) + 1 /\ DOMAIN s = 1 .. Len(old) + 1
    BY <1>1, <2>1, AppendProperties
  <2>3. \A i \in DOMAIN s : s[i] = r \/ (i \in DOMAIN old /\ s[i] = old[i])
    BY <1>1, <2>1, <2>2, AppendProperties
  <2>4. \A i \in DOMAIN s, c \in Columns : s[i][c] = r[c] \/ (i \in DOMAIN old /\ s[i][c] = old[i][c])
    BY <2>3
  <2> QED
    BY <1>0, <1>1, <2>2, <2>4
<1>4. CASE ~ Refuses(db, r) /\ Existing(db, r) # {}
  <2>1. s = [i \in DOMAIN old |-> IF i \in Existing(db, r) THEN Merge(db, old[i], r) ELSE old[i]]
    BY <1>0, <1>4 DEF Save
  <2>2. ASSUME NEW i \in DOMAIN old
        PROVE  /\ Merge(db, old[i], r) \in R
               /\ \A c \in Columns : Merge(db, old[i], r)[c] \in {r[c], old[i][c]}
    BY <1>0, <1>1 DEF Merge
  <2>3. s \in [1 .. Len(old) -> R]
    BY <1>1, <2>1, <2>2
  <2>4. s \in Seq(R) /\ Len(s) = Len(old) /\ DOMAIN s = DOMAIN old
    BY <1>1, <2>3, FunctionIsSeq
  <2>5. \A i \in DOMAIN old : s[i] = old[i] \/ s[i] = Merge(db, old[i], r)
    BY <2>1
  <2>6. \A i \in DOMAIN s, c \in Columns : s[i][c] = r[c] \/ (i \in DOMAIN old /\ s[i][c] = old[i][c])
    BY <2>2, <2>4, <2>5
  <2> QED
    BY <1>0, <1>1, <2>4, <2>6
<1> QED
  BY <1>2, <1>3, <1>4

\* Lists with the same positions have the same length.
LEMMA SameLength ==
  ASSUME NEW n \in Nat, NEW k \in Nat, 1 .. n = 1 .. k
  PROVE  n = k
<1>1. CASE n < k
  <2>1. k \in 1 .. k /\ k \notin 1 .. n
    BY <1>1
  <2> QED
    BY <2>1
<1>2. CASE k < n
  <2>1. n \in 1 .. n /\ n \notin 1 .. k
    BY <1>2
  <2> QED
    BY <2>1
<1> QED
  BY <1>1, <1>2

\* No row that is not replaced has the unique columns of r.
Clear(s, E, r, unique) == \A i \in DOMAIN s \ E, u \in unique : ~ Match(s[i], r, u)

\* s2 is s with rd added to it, and m2 is m with rm.
Added(s, m, s2, m2, R, rd, rm) ==
    /\ s \in Seq(R) /\ m \in Seq(R) /\ rd \in R /\ rm \in R
    /\ s2 = Append(s, rd) /\ m2 = Append(m, rm)

\* Two stores that hold the same hold the same when a row that neither has is added.
LEMMA AppendBoth ==
  ASSUME NEW R, NEW cols, NEW unique, NEW s, NEW m, NEW rd, NEW rm, NEW s2, NEW m2,
         Added(s, m, s2, m2, R, rd, rm), AlignedTo(s, m, cols), Alike(rd, rm, cols),
         UniqueIn(s, unique), Clear(s, {}, rd, unique)
  PROVE  AlignedTo(s2, m2, cols) /\ UniqueIn(s2, unique)
<1> USE DEF Added
<1>0. PICK n : n = Len(s)
  OBVIOUS
<1>1. n \in Nat /\ DOMAIN s = 1 .. n /\ DOMAIN m = 1 .. n /\ Len(m) = n
  <2>1. n \in Nat /\ DOMAIN s = 1 .. n /\ Len(m) \in Nat /\ DOMAIN m = 1 .. Len(m)
    BY <1>0, LenProperties DEF AlignedTo
  <2>2. Len(m) = n
    BY <2>1, SameLength DEF AlignedTo
  <2> QED
    BY <2>1, <2>2
<1>2. /\ DOMAIN s2 = 1 .. n + 1 /\ s2[n + 1] = rd /\ \A i \in 1 .. n : s2[i] = s[i]
      /\ DOMAIN m2 = 1 .. n + 1 /\ m2[n + 1] = rm /\ \A i \in 1 .. n : m2[i] = m[i]
  BY <1>0, <1>1, AppendProperties
<1>3. \A i \in 1 .. n + 1 : i = n + 1 \/ i \in 1 .. n
  BY <1>1
<1>4. \A i \in DOMAIN s2 : Alike(s2[i], m2[i], cols)
  BY <1>1, <1>2, <1>3 DEF AlignedTo
<1>5. ASSUME NEW u \in unique, NEW i \in DOMAIN s2, NEW j \in DOMAIN s2, Match(s2[i], s2[j], u)
      PROVE  i = j
  <2>1. Match(s2[j], s2[i], u)
    BY <1>5 DEF Match
  <2>2. CASE i \in 1 .. n /\ j \in 1 .. n
    BY <1>1, <1>2, <1>5, <2>2 DEF UniqueIn
  <2>3. CASE i \in 1 .. n /\ j = n + 1
    BY <1>1, <1>2, <1>5, <2>3 DEF Clear
  <2>4. CASE j \in 1 .. n /\ i = n + 1
    BY <1>1, <1>2, <2>1, <2>4 DEF Clear
  <2> QED
    BY <1>2, <1>3, <2>2, <2>3, <2>4
<1> QED
  BY <1>2, <1>4, <1>5 DEF UniqueIn, AlignedTo

\* s2 is s and m2 is m, but for the rows at E.
Replaced(s, m, s2, m2, E, rd, rm, cols) ==
    /\ DOMAIN s2 = DOMAIN s /\ DOMAIN m2 = DOMAIN m
    /\ \A i \in DOMAIN s : IF i \in E THEN Alike(s2[i], rd, cols) /\ m2[i] = rm
                                     ELSE s2[i] = s[i] /\ m2[i] = m[i]

\* They do when what they hold at some positions is replaced, if no other row has its
\* unique columns.
LEMMA ReplaceBoth ==
  ASSUME NEW cols, NEW unique, NEW s, NEW m, NEW rd, NEW rm, NEW E,
         AlignedTo(s, m, cols), Alike(rd, rm, cols),
         \A u \in unique : u \subseteq cols /\ "joined_at" \notin u,
         UniqueIn(s, unique), Clear(s, E, rd, unique), \A i, j \in E : i = j,
         NEW s2, NEW m2, Replaced(s, m, s2, m2, E, rd, rm, cols)
  PROVE  AlignedTo(s2, m2, cols) /\ UniqueIn(s2, unique)
<1> USE DEF AlignedTo, Clear, Replaced
<1>1. ASSUME NEW i \in DOMAIN s2 PROVE Alike(s2[i], m2[i], cols)
  <2>1. CASE i \in E
    BY <2>1 DEF Alike
  <2>2. CASE i \notin E
    BY <2>2
  <2> QED
    BY <2>1, <2>2
<1>2. ASSUME NEW u \in unique, NEW i \in DOMAIN s \ E, NEW j \in DOMAIN s \cap E
      PROVE  ~ Match(s2[i], s2[j], u)
  <2>1. s2[i] = s[i] /\ Alike(s2[j], rd, cols)
    OBVIOUS
  <2>2. \A c \in u : s2[j][c] = rd[c]
    BY <2>1 DEF Alike
  <2>3. Match(s2[i], s2[j], u) => Match(s[i], rd, u)
    BY <2>1, <2>2 DEF Match
  <2> QED
    BY <2>3
<1>3. ASSUME NEW u \in unique, NEW i \in DOMAIN s2, NEW j \in DOMAIN s2, Match(s2[i], s2[j], u)
      PROVE  i = j
  <2>1. Match(s2[j], s2[i], u)
    BY <1>3 DEF Match
  <2>2. CASE i \in E /\ j \in E
    BY <2>2
  <2>3. CASE i \notin E /\ j \in E
    BY <1>2, <1>3, <2>3
  <2>4. CASE i \in E /\ j \notin E
    BY <1>2, <2>1, <2>4
  <2>5. CASE i \notin E /\ j \notin E
    BY <1>3, <2>5 DEF UniqueIn
  <2> QED
    BY <2>2, <2>3, <2>4, <2>5
<1> QED
  BY <1>1, <1>3 DEF UniqueIn

\* What a save finds is found in memory too, if the keys are the same.
LEMMA SameExisting ==
  ASSUME TypeOK, NEW db \in SQL, Aligned(db), T("memory").key # {},
         NEW rd, NEW rm, Alike(rd, rm, Columns)
  PROVE  /\ Existing(db, rd) = Existing("memory", rm)
         /\ Existing(db, rd) = {i \in DOMAIN rows[db] : Match(rows[db][i], rd, T(db).key)}
<1>0. PICK K : K = T(db).key
  OBVIOUS
<1>1. T("memory").key = K /\ K \subseteq Columns /\ "joined_at" \notin K /\ K # {}
  BY <1>0, TablesFit DEF TableOK, SameKeys
<1>2. ASSUME NEW i \in DOMAIN rows[db]
      PROVE  Match(rows[db][i], rd, K) <=> Match(rows["memory"][i], rm, K)
  <2>1. Alike(rows[db][i], rows["memory"][i], Columns)
    BY DEF Aligned, AlignedTo
  <2>2. \A c \in K : rows[db][i][c] = rows["memory"][i][c] /\ rd[c] = rm[c]
    BY <1>1, <2>1 DEF Alike
  <2> QED
    BY <2>2 DEF Match
<1>3. Existing(db, rd) = {i \in DOMAIN rows[db] : Match(rows[db][i], rd, K)}
  BY <1>0, <1>1 DEF Existing
<1>4. Existing("memory", rm) = {i \in DOMAIN rows["memory"] : Match(rows["memory"][i], rm, K)}
  BY <1>1 DEF Existing
<1> QED
  BY <1>0, <1>2, <1>3, <1>4 DEF Aligned, AlignedTo

\* A row saved to both leaves both holding the same.
LEMMA SaveBoth ==
  ASSUME Inv, NEW db \in SQL \ refused, NEW rd \in [Columns -> Nat], NEW rm \in [Columns -> Nat],
         Alike(rd, rm, Columns), ~ Refuses(db, rd), Existing(db, rd) = Existing("memory", rm),
         \A i \in Existing(db, rd) : Alike(Merge(db, rows[db][i], rd), rd, Columns),
         table' = table, rows'[db] = Save(db, rd), rows'["memory"] = Save("memory", rm)
  PROVE  Unique(db)' /\ Aligned(db)'
<1>0. PICK s, m, s2, m2, E, unique, cols, R :
         /\ s = rows[db] /\ m = rows["memory"] /\ s2 = Save(db, rd) /\ m2 = Save("memory", rm)
         /\ E = Existing(db, rd) /\ unique = T(db).unique /\ cols = Columns /\ R = [Columns -> Nat]
  OBVIOUS
<1>1. /\ TypeOK /\ Unique(db) /\ Aligned(db) /\ db \in Databases /\ "memory" \in Databases /\ db # "memory"
  BY Names DEF Inv
<1>2. /\ s \in Seq(R) /\ m \in Seq(R) /\ rd \in R /\ rm \in R
      /\ AlignedTo(s, m, cols)
      /\ Alike(rd, rm, cols) /\ UniqueIn(s, unique)
  BY <1>0, <1>1, RowsAre DEF Unique, Aligned
<1>3. Clear(s, E, rd, unique)
  BY <1>0 DEF Refuses, Clear
<1>4. \A u \in unique : u \subseteq cols /\ "joined_at" \notin u
  BY <1>0, <1>1, TablesFit DEF TableOK, SameKeys
<1>5. ~ Refuses("memory", rm)
  BY <1>1, Names DEF Refuses
<1>6. AlignedTo(s2, m2, cols) /\ UniqueIn(s2, unique)
  <2>1. CASE E = {}
    <3>1. s2 = Append(s, rd) /\ m2 = Append(m, rm)
      BY <1>0, <1>5, <2>1 DEF Save
    <3>2. Clear(s, {}, rd, unique)
      BY <1>3, <2>1
    <3> QED
      <4>1. Added(s, m, s2, m2, R, rd, rm)
        BY <1>2, <3>1 DEF Added
      <4> QED
        BY <1>2, <3>2, <4>1, AppendBoth
  <2>2. CASE E # {}
    <3>1. /\ s2 = [i \in DOMAIN s |-> IF i \in E THEN Merge(db, s[i], rd) ELSE s[i]]
          /\ m2 = [i \in DOMAIN m |-> IF i \in E THEN Merge("memory", m[i], rm) ELSE m[i]]
      BY <1>0, <1>5, <2>2 DEF Save
    <3>2. \A i \in E : i \in DOMAIN s /\ Alike(Merge(db, s[i], rd), rd, cols) /\ Match(s[i], rd, T(db).key) /\ T(db).key # {}
      BY <1>0 DEF Existing
    <3>3. \A i : Merge("memory", m[i], rm) = rm
      BY DEF Merge
    <3>4. T(db).key \in unique
      BY <1>0, <1>1, <2>2, <3>2, TablesFit DEF TableOK, SameKeys
    <3>5. ASSUME NEW i \in E, NEW j \in E PROVE i = j
      <4>1. Match(s[i], s[j], T(db).key)
        BY <3>2 DEF Match
      <4> QED
        BY <1>2, <3>2, <3>4, <4>1 DEF UniqueIn
    <3>6. Replaced(s, m, s2, m2, E, rd, rm, cols)
      <4>1. DOMAIN s2 = DOMAIN s /\ DOMAIN m2 = DOMAIN m /\ DOMAIN s = DOMAIN m
        BY <1>2, <3>1 DEF AlignedTo
      <4>2. \A i \in DOMAIN s : IF i \in E THEN Alike(s2[i], rd, cols) /\ m2[i] = rm
                                            ELSE s2[i] = s[i] /\ m2[i] = m[i]
        BY <3>1, <3>2, <3>3, <4>1
      <4> QED
        BY <4>1, <4>2 DEF Replaced
    <3> QED
      BY <1>2, <1>3, <1>4, <3>5, <3>6, ReplaceBoth
  <2> QED
    BY <2>1, <2>2
<1>7. T(db)' = T(db) /\ Columns' = Columns
  BY DEF T, Columns
<1> QED
  BY <1>0, <1>6, <1>7 DEF Unique, Aligned

-----------------------------------------------------------------------------
(* The invariant, step by step *)

\* A store is left as it was, or a row is saved to it, with an ID that has been drawn.
Saved(db) ==
    \/ rows'[db] = rows[db]
    \/ \E r \in [Columns -> Nat] :
          /\ "id" \in Columns => r["id"] <= writes'
          /\ rows'[db] = Save(db, r)

\* Saves keep the types, the IDs and what a page listing has counted.
LEMMA SavesKeep ==
  ASSUME Inv, DOMAIN rows' = Databases, \A db \in Databases : Saved(db),
         rows' = [db \in Databases |-> rows'[db]],
         writes' \in Nat, writes <= writes', refused' \in SUBSET SQL, UNCHANGED <<table, page>>
  PROVE  TypeOK' /\ IdsKnown' /\ PageInv'
<1>0. TypeOK /\ IdsKnown /\ PageInv /\ Columns' = Columns /\ Paged' = Paged
  BY DEF Inv, Columns, Paged
<1>1. ASSUME NEW db \in Databases
      PROVE  /\ rows'[db] \in Seq([Columns -> Nat]) /\ Len(rows'[db]) \in Nat /\ Len(rows'[db]) >= Len(rows[db])
             /\ "id" \in Columns => \A i \in DOMAIN rows'[db] : rows'[db][i]["id"] <= writes'
  <2>1. /\ rows[db] \in Seq([Columns -> Nat]) /\ Len(rows[db]) \in Nat
        /\ "id" \in Columns => \A i \in DOMAIN rows[db] : rows[db][i]["id"] <= writes /\ rows[db][i]["id"] \in Nat
    BY <1>0, RowsAre DEF IdsKnown
  <2>2. CASE rows'[db] = rows[db]
    BY <1>0, <2>1, <2>2 DEF TypeOK
  <2>3. CASE rows'[db] # rows[db]
    <3>1. PICK r \in [Columns -> Nat] : ("id" \in Columns => r["id"] <= writes') /\ rows'[db] = Save(db, r)
      BY <2>3 DEF Saved
    <3>2. /\ rows'[db] \in Seq([Columns -> Nat]) /\ Len(rows'[db]) \in Nat /\ Len(rows'[db]) >= Len(rows[db])
          /\ \A i \in DOMAIN rows'[db], c \in Columns :
               rows'[db][i][c] = r[c] \/ (i \in DOMAIN rows[db] /\ rows'[db][i][c] = rows[db][i][c])
      <4>1. SaveResult(rows'[db], rows[db], r)
        BY <1>0, <3>1, SaveIs
      <4> QED
        BY <4>1 DEF SaveResult
    <3>3. ASSUME "id" \in Columns, NEW i \in DOMAIN rows'[db] PROVE rows'[db][i]["id"] <= writes'
      <4>1. rows'[db][i]["id"] = r["id"] \/ (i \in DOMAIN rows[db] /\ rows'[db][i]["id"] = rows[db][i]["id"])
        BY <3>2, <3>3
      <4>2. CASE rows'[db][i]["id"] = r["id"]
        BY <3>1, <3>3, <4>2
      <4>3. CASE i \in DOMAIN rows[db] /\ rows'[db][i]["id"] = rows[db][i]["id"]
        <5>1. rows[db][i]["id"] <= writes /\ rows[db][i]["id"] \in Nat /\ writes \in Nat
          BY <1>0, <2>1, <3>3, <4>3 DEF TypeOK
        <5> QED
          BY <4>3, <5>1
      <4> QED
        BY <4>1, <4>2, <4>3
    <3> QED
      BY <3>2, <3>3
  <2> QED
    BY <2>2, <2>3
<1>2. TypeOK'
  BY <1>0, <1>1 DEF TypeOK
<1>3. IdsKnown'
  BY <1>0, <1>1 DEF IdsKnown
<1>4. PageInv'
  <2>1. page \in [pc : {"idle", "select"}, db : SQL, total : Nat]
    BY <1>0 DEF TypeOK
  <2>2. page.db \in Databases /\ page.total \in Nat
    BY <2>1, Names
  <2>3. Len(rows'[page.db]) >= Len(rows[page.db]) /\ Len(rows'[page.db]) \in Nat /\ Len(rows[page.db]) \in Nat
    BY <1>0, <1>1, <2>2, RowsAre
  <2> QED
    BY <1>0, <2>2, <2>3 DEF PageInv
<1> QED
  BY <1>2, <1>3, <1>4

\* A fresh ID is in no row, so what has no other key is added.
LEMMA FreshIsNew ==
  ASSUME TypeOK, IdsKnown, NEW db \in Databases, T(db).key \subseteq {"id"},
         NEW r, "id" \in Columns => r["id"] = writes + 1, "id" \in T(db).key => "id" \in Columns
  PROVE  Existing(db, r) = {}
<1>1. CASE T(db).key = {}
  BY <1>1 DEF Existing
<1>2. CASE "id" \in T(db).key
  <2>1. ASSUME NEW i \in DOMAIN rows[db] PROVE ~ Match(rows[db][i], r, T(db).key)
    <3>1. rows[db][i]["id"] <= writes /\ rows[db][i]["id"] \in Nat /\ writes \in Nat /\ r["id"] = writes + 1
      BY <1>2, RowsAre DEF IdsKnown, TypeOK
    <3>2. rows[db][i]["id"] # r["id"]
      BY <3>1
    <3> QED
      BY <1>2, <3>2 DEF Match
  <2> QED
    BY <2>1 DEF Existing
<1> QED
  BY <1>1, <1>2

\* Create.
LEMMA CreateInv ==
  ASSUME Inv, NEW chosen \in [Chosen -> 0 .. 2], NEW now, Create(chosen, now)
  PROVE  Inv'
<1>0. TypeOK /\ IdsKnown /\ PageInv
  BY DEF Inv
<1>1. /\ writes' = writes + 1 /\ UNCHANGED <<table, page>>
      /\ writes \in Nat /\ writes' \in Nat /\ now \in Nat
  BY <1>0, StoresAssumption DEF Create, Write, TypeOK
<1>2. PICK r : r = NewRow(chosen, now)
  OBVIOUS
<1>3. /\ r \in [Columns -> Nat]
      /\ "id" \in Columns => r["id"] = writes + 1
  BY <1>0, <1>1, <1>2, NewRowIs
<1>4. /\ refused' = refused \cup {db \in SQL : Refuses(db, r)}
      /\ rows' = [db \in Databases |-> IF db \in refused THEN rows[db] ELSE Save(db, r)]
  BY <1>2 DEF Create
<1>5. \A db \in Databases : rows'[db] = IF db \in refused THEN rows[db] ELSE Save(db, r)
  BY <1>4
<1>6. TypeOK' /\ IdsKnown' /\ PageInv'
  <2>1. DOMAIN rows' = Databases /\ rows' = [db \in Databases |-> rows'[db]]
    BY <1>4
  <2>2. \A db \in Databases : Saved(db)
    BY <1>1, <1>3, <1>5 DEF Saved
  <2>3. refused' \in SUBSET SQL
    BY <1>0, <1>4 DEF TypeOK
  <2>4. writes <= writes'
    BY <1>1
  <2> QED
    BY <1>1, <2>1, <2>2, <2>3, <2>4, SavesKeep
<1>7. ASSUME NEW db \in SQL \ refused' PROVE Unique(db)' /\ Aligned(db)'
  <2>1. /\ db \notin refused /\ ~ Refuses(db, r) /\ "memory" \notin refused /\ db \in SQL
        /\ rows'[db] = Save(db, r) /\ rows'["memory"] = Save("memory", r)
        /\ Unique(db) /\ Aligned(db) /\ db \in Databases /\ "memory" \in Databases
    BY <1>0, <1>4, <1>5, Names DEF Inv, TypeOK
  <2>2. TableOK(T("memory"), T(db), Columns)
    BY <1>0, TablesFit
  <2>3. Alike(r, r, Columns)
    BY DEF Alike
  <2>4. CASE T(db).key \subseteq {"id"}
    <3>1. T("memory").key \subseteq {"id"} /\ ("id" \in T("memory").key => "id" \in Columns) /\ ("id" \in T(db).key => "id" \in Columns)
      BY <2>2, <2>4 DEF TableOK, SameKeys
    <3>2. Existing(db, r) = {}
      BY <1>0, <1>3, <2>1, <2>4, <3>1, FreshIsNew
    <3>3. Existing("memory", r) = {}
      BY <1>0, <1>3, <2>1, <3>1, FreshIsNew
    <3>4. Unique(db)' /\ Aligned(db)'
      BY <1>1, <1>3, <2>1, <2>3, <3>2, <3>3, SaveBoth
    <3> QED
      BY <3>4
  <2>5. CASE ~ (T(db).key \subseteq {"id"})
    <3>1. /\ T("memory").key = T(db).key /\ T("memory").key # {}
          /\ Columns \ (T(db).key \cup T(db).update) \subseteq {"joined_at"}
      BY <2>2, <2>5 DEF TableOK, SameKeys
    <3>2. Existing(db, r) = Existing("memory", r)
      BY <1>0, <2>1, <2>3, <3>1, SameExisting
    <3>3. ASSUME NEW i \in Existing(db, r) PROVE Alike(Merge(db, rows[db][i], r), r, Columns)
      <4>1. \A c \in T(db).key : rows[db][i][c] = r[c]
        BY DEF Existing, Match
      <4> QED
        BY <2>1, <3>1, <4>1, Names DEF Alike, Merge
    <3>4. Unique(db)' /\ Aligned(db)'
      BY <1>1, <1>3, <2>1, <2>3, <3>2, <3>3, SaveBoth
    <3> QED
      BY <3>4
  <2> QED
    BY <2>4, <2>5
<1> QED
  BY <1>6, <1>7 DEF Inv

\* The row that Change(i, columns, now) saves to a store.
ChangedRow(r, columns, now) ==
    [c \in Columns |-> IF c \notin columns THEN r[c] ELSE IF c \in Times THEN now ELSE r[c] + 1]

\* The position of the row with the key of the i-th row of memory.
Place(db, i) ==
    CHOOSE j \in DOMAIN rows[db] : Match(rows[db][j], rows["memory"][i], T("memory").key)

\* In a store that holds what memory holds that is position i, and in memory too.
LEMMA PlaceIs ==
  ASSUME Inv, NEW db \in SQL \ refused, NEW i \in DOMAIN rows["memory"], T("memory").key # {}
  PROVE  /\ i \in DOMAIN rows[db] /\ Alike(rows[db][i], rows["memory"][i], Columns)
         /\ Place(db, i) = i /\ Place("memory", i) = i
<1>0. TypeOK /\ Unique(db) /\ Aligned(db)
  BY DEF Inv
<1>1. PICK K, s, m : K = T("memory").key /\ s = rows[db] /\ m = rows["memory"]
  OBVIOUS
<1>2. K = T(db).key /\ K \subseteq Columns /\ "joined_at" \notin K /\ K \in T(db).unique
  BY <1>0, <1>1, TablesFit DEF TableOK, SameKeys
<1>3. DOMAIN s = DOMAIN m /\ \A j \in DOMAIN s : Alike(s[j], m[j], Columns)
  BY <1>0, <1>1 DEF Aligned, AlignedTo
<1>4. \A j \in DOMAIN s : \A c \in K : s[j][c] = m[j][c]
  BY <1>2, <1>3 DEF Alike
<1>5. ASSUME NEW j \in DOMAIN s, Match(s[j], m[i], K) \/ Match(m[j], m[i], K) PROVE j = i
  <2>1. i \in DOMAIN s /\ Match(s[j], s[i], K)
    BY <1>1, <1>3, <1>4, <1>5 DEF Match
  <2> QED
    BY <1>0, <1>1, <1>2, <2>1 DEF Unique, UniqueIn
<1>6. Match(s[i], m[i], K) /\ Match(m[i], m[i], K) /\ i \in DOMAIN s
  BY <1>1, <1>3, <1>4 DEF Match
<1>7. Place(db, i) = i
  BY <1>1, <1>5, <1>6 DEF Place
<1>8. Place("memory", i) = i
  BY <1>1, <1>3, <1>5, <1>6 DEF Place
<1> QED
  BY <1>1, <1>3, <1>6, <1>7, <1>8

\* Change: no unique column is touched, so no store refuses it, and the columns named
\* after DO UPDATE SET are enough.
LEMMA ChangeInv ==
  ASSUME Inv, NEW columns \in Changes, NEW i \in 1 .. MaxWrites, NEW now, Change(i, columns, now)
  PROVE  Inv'
<1>0. TypeOK /\ IdsKnown /\ PageInv
  BY DEF Inv
<1>1. /\ writes' = writes + 1 /\ UNCHANGED <<table, page, refused>>
      /\ writes \in Nat /\ writes' \in Nat /\ now \in Nat
      /\ i \in DOMAIN rows["memory"]
  BY <1>0, StoresAssumption DEF Change, Write, TypeOK
<1>2. rows' = [db \in Databases |->
                 IF db \in refused THEN rows[db] ELSE Save(db, ChangedRow(rows[db][Place(db, i)], columns, now))]
  BY DEF Change, ChangedRow, Place
<1>3. \A db \in Databases : rows'[db] = IF db \in refused THEN rows[db] ELSE Save(db, ChangedRow(rows[db][Place(db, i)], columns, now))
  BY <1>2
<1>4. /\ T("memory").key # {} /\ "joined_at" \notin columns /\ "id" \notin columns /\ table \notin Ledgers
      /\ \A db \in SQL : ChangeOK(T("memory"), T(db), columns)
  BY <1>0, ChangesFit, Names DEF ChangeOK
<1>5. ASSUME NEW r \in [Columns -> Nat]
      PROVE  /\ ChangedRow(r, columns, now) \in [Columns -> Nat]
             /\ \A c \in Columns : c \notin columns => ChangedRow(r, columns, now)[c] = r[c]
  BY <1>1 DEF ChangedRow
<1>6. ASSUME NEW db \in Databases \ refused
      PROVE  Place(db, i) \in DOMAIN rows[db]
  <2>1. CASE db = "memory"
    <3>1. Match(rows["memory"][i], rows["memory"][i], T("memory").key)
      BY DEF Match
    <3> QED
      BY <1>1, <2>1, <3>1 DEF Place
  <2>2. CASE db \in SQL
    BY <1>1, <1>4, <2>2, PlaceIs
  <2> QED
    BY <2>1, <2>2, Names
<1>7. ASSUME NEW db \in Databases \ refused
      PROVE  ChangedRow(rows[db][Place(db, i)], columns, now) \in [Columns -> Nat]
  BY <1>0, <1>5, <1>6, RowsAre
<1>8. TypeOK' /\ IdsKnown' /\ PageInv'
  <2>1. DOMAIN rows' = Databases /\ rows' = [db \in Databases |-> rows'[db]]
    BY <1>2
  <2>2. ASSUME NEW db \in Databases PROVE Saved(db)
    <3>1. CASE db \in refused
      BY <1>3, <3>1 DEF Saved
    <3>2. CASE db \notin refused
      <4>1. PICK r : r = ChangedRow(rows[db][Place(db, i)], columns, now)
        OBVIOUS
      <4>2. r \in [Columns -> Nat] /\ rows'[db] = Save(db, r)
        BY <1>3, <1>7, <3>2, <4>1
      <4>3. ASSUME "id" \in Columns PROVE r["id"] <= writes'
        <5>1. r["id"] = rows[db][Place(db, i)]["id"] /\ rows[db][Place(db, i)]["id"] \in Nat
          BY <1>0, <1>4, <1>5, <1>6, <3>2, <4>1, <4>3, RowsAre
        <5>2. rows[db][Place(db, i)]["id"] <= writes
          BY <1>0, <1>6, <3>2, <4>3 DEF IdsKnown
        <5> QED
          BY <1>1, <5>1, <5>2
      <4> QED
        BY <4>2, <4>3 DEF Saved
    <3> QED
      BY <3>1, <3>2
  <2>3. refused' \in SUBSET SQL /\ writes <= writes'
    BY <1>0, <1>1 DEF TypeOK
  <2> QED
    BY <1>1, <2>1, <2>2, <2>3, SavesKeep
<1>9. ASSUME NEW db \in SQL \ refused PROVE Unique(db)' /\ Aligned(db)'
  <2>0. "memory" \notin refused /\ db \in SQL /\ db # "memory" /\ db \in Databases /\ "memory" \in Databases
        /\ Unique(db) /\ Aligned(db)
    BY <1>0, Names DEF Inv, TypeOK
  <2>1. /\ i \in DOMAIN rows[db] /\ Alike(rows[db][i], rows["memory"][i], Columns)
        /\ Place(db, i) = i /\ Place("memory", i) = i
    BY <1>1, <1>4, PlaceIs
  <2>2. PICK rd, rm : rd = ChangedRow(rows[db][i], columns, now) /\ rm = ChangedRow(rows["memory"][i], columns, now)
    OBVIOUS
  <2>3. /\ rd \in [Columns -> Nat] /\ rm \in [Columns -> Nat]
        /\ rows'[db] = Save(db, rd) /\ rows'["memory"] = Save("memory", rm)
        /\ \A c \in Columns : c \notin columns => rd[c] = rows[db][i][c]
    BY <1>0, <1>1, <1>3, <1>5, <2>0, <2>1, <2>2, RowsAre
  <2>4. Alike(rd, rm, Columns)
    BY <2>1, <2>2 DEF Alike, ChangedRow
  <2>5. /\ T(db).key # {} /\ T(db).key \subseteq Columns /\ T(db).key \in T(db).unique
        /\ columns \subseteq T(db).update /\ columns \cap T(db).key = {}
        /\ \A u \in T(db).unique : u \subseteq Columns /\ u \cap columns = {}
    BY <1>0, <1>4, <2>0, TablesFit DEF TableOK, SameKeys, ChangeOK
  <2>6. /\ Existing(db, rd) = Existing("memory", rm)
        /\ Existing(db, rd) = {j \in DOMAIN rows[db] : Match(rows[db][j], rd, T(db).key)}
    BY <1>0, <1>4, <2>0, <2>4, SameExisting
  <2>7. ASSUME NEW u \in T(db).unique, NEW j \in DOMAIN rows[db], Match(rows[db][j], rd, u) PROVE j = i
    <3>1. \A c \in u : rd[c] = rows[db][i][c]
      BY <2>3, <2>5
    <3>2. Match(rows[db][j], rows[db][i], u)
      BY <2>7, <3>1 DEF Match
    <3> QED
      BY <2>0, <2>1, <3>2 DEF Unique, UniqueIn
  <2>8. Existing(db, rd) = {i}
    <3>1. Match(rows[db][i], rd, T(db).key)
      BY <2>3, <2>5 DEF Match
    <3> QED
      BY <2>1, <2>5, <2>6, <2>7, <3>1
  <2>9. ~ Refuses(db, rd)
    BY <2>7, <2>8 DEF Refuses
  <2>10. ASSUME NEW j \in Existing(db, rd) PROVE Alike(Merge(db, rows[db][j], rd), rd, Columns)
    <3>1. j = i /\ \A c \in Columns : c \notin T(db).update => rd[c] = rows[db][i][c]
      BY <2>3, <2>5, <2>8
    <3> QED
      BY <2>0, <3>1 DEF Alike, Merge
  <2>11. Unique(db)' /\ Aligned(db)'
    BY <1>1, <2>3, <2>4, <2>6, <2>9, <2>10, SaveBoth
  <2> QED
    BY <2>11
<1> QED
  BY <1>1, <1>8, <1>9 DEF Inv

\* A webhook is deleted.
LEMMA DeleteInv ==
  ASSUME Inv, NEW i \in 1 .. MaxWrites, DeleteWebhook(i)
  PROVE  Inv'
<1>0. TypeOK /\ IdsKnown /\ PageInv
  BY DEF Inv
<1>1. /\ writes' = writes + 1 /\ UNCHANGED <<table, page, refused>>
      /\ writes \in Nat /\ writes' \in Nat
      /\ i \in DOMAIN rows["memory"] /\ table = "webhooks" /\ Columns' = Columns
  BY <1>0 DEF DeleteWebhook, Write, TypeOK, Columns
<1>2. PICK id : id = rows["memory"][i]["id"]
  OBVIOUS
<1>3. rows' = [db \in Databases |-> Delete(db, id)]
  BY <1>2 DEF DeleteWebhook
<1>4. PICK kept : kept = [db \in Databases |-> Ascending({j \in DOMAIN rows[db] : rows[db][j]["id"] # id})]
  OBVIOUS
<1>5. ASSUME NEW db \in Databases
      PROVE  /\ rows'[db] \in Seq([Columns -> Nat]) /\ DOMAIN rows'[db] = DOMAIN kept[db]
             /\ \A k \in DOMAIN kept[db] : rows'[db][k] = rows[db][kept[db][k]] /\ kept[db][k] \in DOMAIN rows[db]
             /\ \A j, k \in DOMAIN kept[db] : kept[db][j] = kept[db][k] => j = k
  <2>1. PICK s, S, a : s = rows[db] /\ S = {j \in DOMAIN rows[db] : rows[db][j]["id"] # id} /\ a = kept[db]
    OBVIOUS
  <2>2. s \in Seq([Columns -> Nat]) /\ Len(s) \in Nat /\ DOMAIN s = 1 .. Len(s) /\ S \in SUBSET (1 .. Len(s))
        /\ \A j \in 1 .. Len(s) : s[j] \in [Columns -> Nat]
    BY <1>0, <2>1, RowsAre
  <2>3. IsFiniteSet(S) /\ S \in SUBSET Nat
    <3>1. IsFiniteSet(1 .. Len(s))
      BY <2>2, FS_Interval
    <3>2. S \subseteq Nat
      BY <2>2
    <3>3. IsFiniteSet(S)
      BY <2>2, <3>1, FS_Subset
    <3> QED
      BY <3>2, <3>3
  <2>4. a = Ascending(S)
    BY <1>4, <2>1
  <2>5. PICK n : n = Cardinality(S)
    OBVIOUS
  <2>6. /\ a \in Seq(Nat) /\ Len(a) = n /\ n \in Nat
        /\ \A k \in 1 .. n : a[k] \in S
        /\ \A j, k \in 1 .. n : j < k => a[j] < a[k]
    BY <2>3, <2>4, <2>5, AscendingLists
  <2>7. DOMAIN a = 1 .. n /\ \A k \in 1 .. n : a[k] \in Nat /\ a[k] \in DOMAIN s
    BY <2>2, <2>3, <2>6
  <2>8. rows'[db] = [k \in 1 .. n |-> s[a[k]]]
    BY <1>3, <2>1, <2>4, <2>7 DEF Delete, Rows
  <2>9. rows'[db] \in [1 .. n -> [Columns -> Nat]]
    BY <2>2, <2>7, <2>8
  <2>10. rows'[db] \in Seq([Columns -> Nat])
    BY <2>6, <2>9, FunctionIsSeq
  <2>11. \A j, k \in 1 .. n : a[j] = a[k] => j = k
    <3>1. ASSUME NEW j \in 1 .. n, NEW k \in 1 .. n, a[j] = a[k] PROVE j = k
      <4>1. ~ (j < k) /\ ~ (k < j)
        BY <2>6, <2>7, <3>1
      <4> QED
        BY <2>6, <4>1
    <3> QED
      BY <3>1
  <2> QED
    BY <2>1, <2>7, <2>8, <2>10, <2>11
<1>6. TypeOK'
  BY <1>0, <1>1, <1>3, <1>5 DEF TypeOK
<1>7. IdsKnown'
  <2>1. ASSUME "id" \in Columns, NEW db \in Databases, NEW k \in DOMAIN rows'[db]
        PROVE  rows'[db][k]["id"] <= writes'
    <3>1. PICK j \in DOMAIN rows[db] : rows'[db][k] = rows[db][j]
      BY <1>5
    <3>2. rows[db][j]["id"] <= writes /\ rows[db][j]["id"] \in Nat
      BY <1>0, <2>1, RowsAre DEF IdsKnown
    <3> QED
      BY <1>1, <3>1, <3>2
  <2> QED
    BY <1>1, <2>1 DEF IdsKnown
<1>8. PageInv'
  <2>1. page.pc # "select"
    BY <1>0, <1>1, PagedFit DEF PageInv
  <2> QED
    BY <1>1, <2>1 DEF PageInv
<1>9. ASSUME NEW db \in SQL \ refused PROVE Unique(db)' /\ Aligned(db)'
  <2>1. Unique(db) /\ Aligned(db) /\ db \in Databases /\ "memory" \in Databases /\ db \in SQL
    BY Names DEF Inv
  <2>2. T(db)' = T(db)
    BY <1>1 DEF T
  <2>3. "id" \in Columns
    BY <1>1 DEF Columns, sqlite, sqliteWebhooks, Upsert
  <2>4. DOMAIN rows[db] = DOMAIN rows["memory"] /\ \A j \in DOMAIN rows[db] : Alike(rows[db][j], rows["memory"][j], Columns)
    BY <2>1 DEF Aligned, AlignedTo
  <2>5. \A j \in DOMAIN rows[db] : rows[db][j]["id"] = rows["memory"][j]["id"]
    BY <2>3, <2>4 DEF Alike
  <2>6. kept[db] = kept["memory"]
    <3>1. {j \in DOMAIN rows[db] : rows[db][j]["id"] # id} = {j \in DOMAIN rows["memory"] : rows["memory"][j]["id"] # id}
      BY <2>4, <2>5
    <3> QED
      BY <1>4, <2>1, <3>1
  <2>7. Aligned(db)'
    BY <1>1, <1>5, <2>1, <2>4, <2>6 DEF Aligned, AlignedTo
  <2>8. Unique(db)'
    BY <1>5, <2>1, <2>2 DEF Unique, UniqueIn
  <2> QED
    BY <2>7, <2>8
<1> QED
  BY <1>1, <1>6, <1>7, <1>8, <1>9 DEF Inv

\* An event that was stored is delivered again: the SQL stores refuse it.
LEMMA RedeliverInv ==
  ASSUME Inv, NEW i \in 1 .. MaxWrites, Redeliver(i)
  PROVE  Inv'
<1>0. TypeOK /\ IdsKnown /\ PageInv
  BY DEF Inv
<1>1. /\ writes' = writes + 1 /\ UNCHANGED <<table, page>>
      /\ writes \in Nat /\ writes' \in Nat
      /\ i \in DOMAIN rows["memory"] /\ table = "reputation_events"
  BY <1>0 DEF Redeliver, Write, TypeOK
<1>2. PICK r : r = rows["memory"][i]
  OBVIOUS
<1>3. /\ refused' = refused \cup {db \in SQL : Refuses(db, r)}
      /\ rows' = [db \in Databases |-> IF db \in refused THEN rows[db] ELSE Save(db, r)]
  BY <1>2 DEF Redeliver
<1>4. r \in [Columns -> Nat] /\ ("id" \in Columns => r["id"] <= writes')
  <2>1. r \in [Columns -> Nat]
    BY <1>0, <1>1, <1>2, RowsAre, Names
  <2>2. "id" \in Columns => r["id"] <= writes /\ r["id"] \in Nat
    BY <1>0, <1>1, <1>2, <2>1, Names DEF IdsKnown
  <2> QED
    BY <1>1, <2>1, <2>2
<1>5. TypeOK' /\ IdsKnown' /\ PageInv'
  <2>1. DOMAIN rows' = Databases /\ rows' = [db \in Databases |-> rows'[db]]
        /\ \A db \in Databases : rows'[db] = IF db \in refused THEN rows[db] ELSE Save(db, r)
    BY <1>3
  <2>2. \A db \in Databases : Saved(db)
    BY <1>4, <2>1 DEF Saved
  <2>3. refused' \in SUBSET SQL /\ writes <= writes'
    BY <1>0, <1>1, <1>3 DEF TypeOK
  <2> QED
    BY <1>1, <2>1, <2>2, <2>3, SavesKeep
<1>6. ASSUME NEW db \in SQL \ refused PROVE db \in refused'
  <2>1. Aligned(db) /\ T(db).key = {} /\ {"id"} \in T(db).unique /\ "id" \in Columns
    BY <1>1, Names DEF Inv, T, Columns, sqlite, postgres, sqliteReputation, pgReputation, Insert
  <2>2. i \in DOMAIN rows[db] /\ rows[db][i]["id"] = r["id"]
    BY <1>1, <1>2, <2>1 DEF Aligned, AlignedTo, Alike
  <2>3. i \in DOMAIN rows[db] \ Existing(db, r) /\ Match(rows[db][i], r, {"id"})
    BY <2>1, <2>2 DEF Existing, Match
  <2> QED
    BY <1>3, <2>1, <2>3 DEF Refuses
<1>7. SQL \ refused' = {}
  BY <1>3, <1>6
<1> QED
  BY <1>5, <1>7 DEF Inv

\* A page listing writes nothing.
LEMMA PageStep ==
  ASSUME Inv, UNCHANGED <<table, writes, rows, refused>>,
         page' = NoPage \/ \E db \in SQL : Paged # {} /\ page' = [pc |-> "select", db |-> db, total |-> Len(rows[db])]
  PROVE  Inv'
<1>0. TypeOK /\ IdsKnown /\ PageInv /\ Columns' = Columns /\ Paged' = Paged
  BY DEF Inv, Columns, Paged
<1>1. \A db \in SQL : Len(rows[db]) \in Nat
  BY <1>0, RowsAre, Names
<1>2. page' \in [pc : {"idle", "select"}, db : SQL, total : Nat] /\ PageInv'
  <2>1. CASE page' = NoPage
    BY <1>0, <2>1, Names DEF NoPage, PageInv
  <2>2. CASE page' # NoPage
    <3>1. PICK db \in SQL : Paged # {} /\ page' = [pc |-> "select", db |-> db, total |-> Len(rows[db])]
      BY <2>2
    <3> QED
      BY <1>0, <1>1, <3>1 DEF PageInv
  <2> QED
    BY <2>1, <2>2
<1>3. TypeOK'
  BY <1>0, <1>2 DEF TypeOK
<1>4. IdsKnown'
  BY <1>0 DEF IdsKnown
<1>5. ASSUME NEW db \in SQL \ refused PROVE Unique(db)' /\ Aligned(db)'
  <2>1. Unique(db) /\ Aligned(db)
    BY DEF Inv
  <2>2. T(db)' = T(db)
    BY DEF T
  <2> QED
    BY <1>0, <2>1, <2>2 DEF Unique, Aligned
<1> QED
  BY <1>2, <1>3, <1>4, <1>5 DEF Inv

\* At the start all is empty.
LEMMA InvInit == Init => Inv
<1> SUFFICES ASSUME Init PROVE Inv
  OBVIOUS
<1>1. /\ table \in DOMAIN memory /\ writes = 0 /\ refused = {} /\ page = NoPage
      /\ rows = [db \in Databases |-> <<>>]
  BY DEF Init
<1>2. \A db \in Databases : rows[db] = <<>> /\ DOMAIN rows[db] = {}
  BY <1>1
<1>3. <<>> \in Seq([Columns -> Nat])
  BY EmptySeq
<1>4. TypeOK
  BY <1>1, <1>3, Names DEF TypeOK, NoPage
<1>5. IdsKnown /\ PageInv
  BY <1>1, <1>2 DEF IdsKnown, PageInv, NoPage
<1>6. ASSUME NEW db \in SQL PROVE Unique(db) /\ Aligned(db)
  BY <1>2, Names DEF Unique, UniqueIn, Aligned, AlignedTo
<1> QED
  BY <1>4, <1>5, <1>6 DEF Inv

\* The choices of Create.
LEMMA ChosenType ==
  ASSUME NEW chosen \in {f \in [Chosen -> 0 .. 2] : \A c \in Chosen : f[c] \in Inputs[c]}
  PROVE  chosen \in [Chosen -> 0 .. 2]
OBVIOUS

\* No step breaks the invariant.
LEMMA InvNext == Inv /\ [Next]_vars => Inv'
<1> SUFFICES ASSUME Inv, [Next]_vars PROVE Inv'
  OBVIOUS
<1>1. CASE \E now \in 0 .. MaxTime :
             \E chosen \in {f \in [Chosen -> 0 .. 2] : \A c \in Chosen : f[c] \in Inputs[c]} : Create(chosen, now)
  BY <1>1, ChosenType, CreateInv
<1>2. ASSUME NEW i \in 1 .. MaxWrites, DeleteWebhook(i) PROVE Inv'
  BY <1>2, DeleteInv
<1>3. ASSUME NEW i \in 1 .. MaxWrites, Redeliver(i) PROVE Inv'
  BY <1>3, RedeliverInv
<1>4. ASSUME NEW now \in 0 .. MaxTime, NEW i \in 1 .. MaxWrites, NEW columns \in Changes, Change(i, columns, now)
      PROVE  Inv'
  BY <1>4, ChangeInv
<1>5. ASSUME NEW db \in SQL, Count(db) PROVE Inv'
  BY <1>5, PageStep DEF Count
<1>6. CASE Select
  BY <1>6, PageStep DEF Select
<1>7. CASE UNCHANGED vars
  <2>1. UNCHANGED <<table, writes, rows, refused, page>>
    BY <1>7 DEF vars
  <2>2. TypeOK' /\ IdsKnown' /\ PageInv'
    BY <2>1 DEF Inv, TypeOK, IdsKnown, PageInv, Columns, Paged
  <2>3. ASSUME NEW db \in SQL \ refused PROVE Unique(db)' /\ Aligned(db)'
    <3>1. T(db)' = T(db) /\ Columns' = Columns
      BY <2>1 DEF T, Columns
    <3> QED
      BY <2>1, <3>1 DEF Inv, Unique, Aligned
  <2> QED
    BY <2>1, <2>2, <2>3 DEF Inv
<1> QED
  BY <1>1, <1>2, <1>3, <1>4, <1>5, <1>6, <1>7 DEF Next

\* The three stores hold the same rows, position by position, as long as none has refused a
\* write; no ID is drawn twice, and the unique columns are unique.
THEOREM Invariant == Spec => []Inv
<1>1. Init => Inv
  BY InvInit
<1>2. Inv /\ [Next]_vars => Inv'
  BY InvNext
<1> QED
  BY <1>1, <1>2, PTL DEF Spec

-----------------------------------------------------------------------------
(* Ledgers are append-only *)

\* A list is a prefix of itself, and of itself with an element more.
LEMMA PrefixOfLonger ==
  ASSUME NEW R, NEW s \in Seq(R), NEW r \in R
  PROVE  IsPrefix(s, s) /\ IsPrefix(s, Append(s, r))
<1>1. PICK t : t = Append(s, r)
  OBVIOUS
<1>2. Len(s) \in Nat /\ t \in Seq(R) /\ Len(t) = Len(s) + 1 /\ \A i \in 1 .. Len(s) : t[i] = s[i]
  BY <1>1, AppendProperties
<1>3. SubSeq(t, 1, Len(s)) = SubSeq(s, 1, Len(s))
  BY <1>2
<1>4. Len(s) <= Len(t) /\ Len(s) <= Len(s)
  BY <1>2
<1> QED
  BY <1>1, <1>3, <1>4 DEF IsPrefix

\* A row for which nothing is found is added or refused.
LEMMA LedgerSave ==
  ASSUME TypeOK, NEW db \in Databases, NEW r \in [Columns -> Nat], Existing(db, r) = {}
  PROVE  IsPrefix(rows[db], Save(db, r))
<1>1. rows[db] \in Seq([Columns -> Nat])
  BY RowsAre
<1>2. Save(db, r) = rows[db] \/ Save(db, r) = Append(rows[db], r)
  BY DEF Save
<1>3. IsPrefix(rows[db], rows[db]) /\ IsPrefix(rows[db], Append(rows[db], r))
  BY <1>1, PrefixOfLonger
<1> QED
  BY <1>2, <1>3

\* The key of a ledger is a fresh ID or nothing.
LEMMA LedgerKeys ==
  ASSUME TypeOK, table \in Ledgers, NEW db \in Databases
  PROVE  T(db).key \subseteq {"id"} /\ ("id" \in T(db).key => "id" \in Columns)
<1>1. T("memory").key = {}
  BY LedgersFit
<1>2. CASE db \in SQL
  BY <1>1, <1>2, TablesFit DEF TableOK, SameKeys
<1> QED
  BY <1>1, <1>2, Names

\* No step loses or changes a row of a ledger.
LEMMA LedgerStep ==
  ASSUME Inv, Next, table \in Ledgers, NEW db \in Databases
  PROVE  IsPrefix(rows[db], rows'[db])
<1>0. TypeOK /\ IdsKnown /\ writes \in Nat
  BY DEF Inv, TypeOK
<1>1. \A r \in [Columns -> Nat] : IsPrefix(rows[db], rows[db])
  BY <1>0, RowsAre, PrefixOfLonger
<1>2. IsPrefix(rows[db], rows[db])
  <2>1. [c \in Columns |-> 0] \in [Columns -> Nat]
    OBVIOUS
  <2> QED
    BY <1>1, <2>1
<1>3. ASSUME NEW now, NEW chosen \in [Chosen -> 0 .. 2], Create(chosen, now) PROVE IsPrefix(rows[db], rows'[db])
  <2>1. PICK r : r = NewRow(chosen, now)
    OBVIOUS
  <2>2. now \in Nat
    BY <1>3, StoresAssumption DEF Create, Write
  <2>3. r \in [Columns -> Nat] /\ ("id" \in Columns => r["id"] = writes + 1)
    BY <1>0, <2>1, <2>2, NewRowIs
  <2>4. Existing(db, r) = {}
    BY <1>0, <2>3, LedgerKeys, FreshIsNew
  <2>5. rows'[db] = rows[db] \/ rows'[db] = Save(db, r)
    BY <1>3, <2>1 DEF Create
  <2> QED
    BY <1>0, <1>2, <2>3, <2>4, <2>5, LedgerSave
<1>4. ASSUME NEW i \in 1 .. MaxWrites, Redeliver(i) PROVE IsPrefix(rows[db], rows'[db])
  <2>1. PICK r : r = rows["memory"][i]
    OBVIOUS
  <2>2. r \in [Columns -> Nat]
    BY <1>0, <1>4, <2>1, RowsAre, Names DEF Redeliver
  <2>3. T(db).key = {}
    BY <1>4, Names DEF Redeliver, T, memory, sqlite, postgres, memReputation, sqliteReputation, pgReputation, Slice, Insert
  <2>4. Existing(db, r) = {}
    BY <2>3 DEF Existing
  <2>5. rows'[db] = rows[db] \/ rows'[db] = Save(db, r)
    BY <1>4, <2>1 DEF Redeliver
  <2> QED
    BY <1>0, <1>2, <2>2, <2>4, <2>5, LedgerSave
<1>5. ASSUME NEW i \in 1 .. MaxWrites, DeleteWebhook(i) PROVE FALSE
  BY <1>5 DEF DeleteWebhook, Ledgers
<1>6. Changes = {}
  BY <1>0, ChangesFit, Names
<1>7. ASSUME NEW q \in SQL, Count(q) PROVE IsPrefix(rows[db], rows'[db])
  BY <1>2, <1>7 DEF Count
<1>8. CASE Select
  BY <1>2, <1>8 DEF Select
<1> QED
  BY <1>3, <1>4, <1>5, <1>6, <1>7, <1>8, ChosenType DEF Next

\* AppendOnly: in no store is a row of a ledger ever lost or changed, whatever is saved,
\* delivered again or refused.
THEOREM LedgersGrow == Spec => AppendOnly
<1>1. Inv /\ [Next]_vars => [(table \in Ledgers) => \A db \in Databases : IsPrefix(rows[db], rows'[db])]_vars
  BY LedgerStep
<1> QED
  BY <1>1, Invariant, PTL DEF Spec, AppendOnly

-----------------------------------------------------------------------------
(* Pages and their totals *)

\* A read returns as many rows as it finds.
LEMMA ReadLength ==
  ASSUME TypeOK, NEW db \in Databases, NEW m, NEW arg
  PROVE  /\ Found(db, m, arg) \subseteq DOMAIN rows[db] /\ IsFiniteSet(Found(db, m, arg))
         /\ Cardinality(Found(db, m, arg)) \in Nat
         /\ DOMAIN Read(db, m, arg) = 1 .. Cardinality(Found(db, m, arg))
         /\ Len(Read(db, m, arg)) = Cardinality(Found(db, m, arg))
<1>1. PICK F, o : /\ F = Found(db, m, arg)
                  /\ o = InOrder(F, [j \in F |-> {i \in F : Earlier(db, T(db).reads[m], i, j)}])
  OBVIOUS
<1>2. F \subseteq 1 .. Len(rows[db]) /\ Len(rows[db]) \in Nat /\ DOMAIN rows[db] = 1 .. Len(rows[db])
  BY <1>1, RowsAre DEF Found
<1>3. IsFiniteSet(F) /\ Cardinality(F) \in Nat
  <2>1. IsFiniteSet(1 .. Len(rows[db]))
    BY <1>2, FS_Interval
  <2>2. IsFiniteSet(F)
    BY <1>2, <2>1, FS_Subset
  <2> QED
    BY <2>2, FS_CardinalityType
<1>4. DOMAIN o = 1 .. Cardinality(F)
  BY <1>1 DEF InOrder
<1>5. Read(db, m, arg) = [k \in 1 .. Cardinality(F) |-> rows[db][o[k]]]
  BY <1>1, <1>4 DEF Read, Rows
<1>6. Len(Read(db, m, arg)) = Cardinality(F)
  BY <1>3, <1>5
<1> QED
  BY <1>1, <1>2, <1>3, <1>5, <1>6

\* TotalIsNotAhead: rows are never removed from a table that has pages, so the rows that
\* COUNT saw are there when SELECT runs.
LEMMA TotalHolds == Inv => TotalIsNotAhead
<1> SUFFICES ASSUME Inv, page.pc = "select", NEW offset \in Offsets, NEW limit \in Limits,
                    NEW s \in Selected(offset, limit)
             PROVE  LET from == IF offset < 0 THEN 0 ELSE offset
                        size == IF limit <= 0 THEN 50 ELSE limit
                    IN  Len(s) >= Smaller(size, page.total - from)
  BY DEF TotalIsNotAhead
<1>0. TypeOK /\ PageInv /\ page.db \in SQL /\ page.db \in Databases /\ page.total \in Nat
  BY Names DEF Inv, TypeOK
<1>1. PICK m \in Paged : s \in limitOffset(page.db, Read(page.db, m, <<>>), offset, limit)
  BY DEF Selected
<1>2. PICK N, total : N = Len(rows[page.db]) /\ total = page.total
  OBVIOUS
<1>3. N \in Nat /\ total \in Nat /\ total <= N /\ DOMAIN rows[page.db] = 1 .. N
  BY <1>0, <1>2, RowsAre DEF PageInv
<1>4. Found(page.db, m, <<>>) = 1 .. N
  <2>1. m \in DOMAIN T("memory").reads /\ T("memory").reads[m].by = {}
    BY <1>0, PagedFit
  <2>2. T(page.db).reads[m].by = {}
    BY <1>0, <2>1, TablesFit DEF TableOK, SameReads
  <2> QED
    BY <1>3, <2>2 DEF Found, Match
<1>5. Cardinality(1 .. N) = N
  BY <1>3, FS_Interval
<1>6. Len(Read(page.db, m, <<>>)) = N
  BY <1>0, <1>4, <1>5, ReadLength
<1>7. PICK from, size : from = (IF offset < 0 THEN 0 ELSE offset) /\ size = (IF limit <= 0 THEN 50 ELSE limit)
  OBVIOUS
<1>8. from \in Nat /\ size \in Nat
  BY <1>7, StoresAssumption
<1>9. PICK n : n = Smaller(size, IF from >= N THEN 0 ELSE N - from)
  OBVIOUS
<1>10. n \in Nat /\ n >= Smaller(size, total - from)
  BY <1>3, <1>8, <1>9 DEF Smaller
<1>11. s = [i \in 1 .. n |-> Read(page.db, m, <<>>)[from + i]]
  BY <1>1, <1>6, <1>7, <1>9 DEF limitOffset
<1>12. Len(s) = n
  BY <1>10, <1>11
<1> QED
  BY <1>2, <1>7, <1>10, <1>12

\* For every page asked for between two writes, and whatever was written since the count.
THEOREM TotalsHold == Spec => []TotalIsNotAhead
BY Invariant, TotalHolds, PTL

-----------------------------------------------------------------------------
(* The same rows from every store *)

\* Rows ordered by a number, and by their places where it is the same.
LEMMA RanksOrder ==
  ASSUME NEW S \in SUBSET Nat, NEW rank, \A i \in S : rank[i] \in Int, NEW before,
         \A i, j \in S : i \in before[j] <=> (rank[i] < rank[j] \/ (rank[i] = rank[j] /\ i < j)),
         \A j \in S : before[j] \subseteq S
  PROVE  LinearOrder(S, before)
<1>0. \A i \in S : i \in Nat
  OBVIOUS
<1>1. ASSUME NEW x \in S PROVE before[x] \in SUBSET S /\ x \notin before[x]
  <2>1. x \in Nat /\ rank[x] \in Int /\ (x \in before[x] <=> (rank[x] < rank[x] \/ (rank[x] = rank[x] /\ x < x)))
    BY <1>0
  <2> QED
    BY <2>1
<1>2. ASSUME NEW x \in S, NEW y \in S PROVE x = y \/ x \in before[y] \/ y \in before[x]
  <2>1. x \in Nat /\ y \in Nat /\ rank[x] \in Int /\ rank[y] \in Int
    BY <1>0
  <2>2. /\ x \in before[y] <=> (rank[x] < rank[y] \/ (rank[x] = rank[y] /\ x < y))
        /\ y \in before[x] <=> (rank[y] < rank[x] \/ (rank[y] = rank[x] /\ y < x))
    OBVIOUS
  <2> QED
    BY <2>1, <2>2
<1>3. ASSUME NEW x \in S, NEW y \in S, x \in before[y] PROVE before[x] \subseteq before[y]
  <2>1. ASSUME NEW z \in before[x] PROVE z \in before[y]
    <3>1. z \in S
      OBVIOUS
    <3>2. rank[z] < rank[x] \/ (rank[z] = rank[x] /\ z < x)
      BY <3>1
    <3>3. rank[x] < rank[y] \/ (rank[x] = rank[y] /\ x < y)
      BY <1>3
    <3>4. rank[z] < rank[y] \/ (rank[z] = rank[y] /\ z < y)
      BY <3>1, <3>2, <3>3
    <3> QED
      BY <3>1, <3>4
  <2> QED
    BY <2>1
<1> QED
  BY <1>1, <1>2, <1>3 DEF LinearOrder

\* The number by which a column sorts: a time of SQLite by its text, whose second comes
\* first and a missing fraction last.
Weight(db, column, v) ==
    IF db = "sqlite" /\ column \in Times THEN 2 * (v \div 2) + (IF v % 2 = 1 THEN 0 ELSE 1) ELSE v

\* The number by which a row is listed.
Rank(db, q, i) ==
    IF q.order \in {"none", "appended"} THEN 0
    ELSE IF q.desc THEN 0 - Weight(db, q.order, rows[db][i][q.order]) ELSE Weight(db, q.order, rows[db][i][q.order])

\* Less compares weights.
LEMMA LessIs ==
  ASSUME NEW db, NEW column, NEW a, NEW b, a[column] \in Nat, b[column] \in Nat
  PROVE  /\ Weight(db, column, a[column]) \in Int /\ Weight(db, column, b[column]) \in Int
         /\ Less(db, column, a, b) <=> Weight(db, column, a[column]) < Weight(db, column, b[column])
<1>1. PICK v, w : v = a[column] /\ w = b[column]
  OBVIOUS
<1>2. v \in Nat /\ w \in Nat /\ v % 2 \in {0, 1} /\ w % 2 \in {0, 1} /\ v \div 2 \in Nat /\ w \div 2 \in Nat
  BY <1>1
<1>3. CASE db = "sqlite" /\ column \in Times
  <2>1. Less(db, column, a, b) <=>
           \/ v \div 2 < w \div 2
           \/ v \div 2 = w \div 2 /\ (IF v % 2 = 1 THEN 0 ELSE 1) < (IF w % 2 = 1 THEN 0 ELSE 1)
    BY <1>1, <1>3 DEF Less, SortsBefore, tstr
  <2> QED
    BY <1>1, <1>2, <1>3, <2>1 DEF Weight
<1>4. CASE ~ (db = "sqlite" /\ column \in Times)
  BY <1>1, <1>2, <1>4 DEF Less, Weight
<1> QED
  BY <1>3, <1>4

\* Earlier is the order by that number.
LEMMA EarlierIs ==
  ASSUME TypeOK, NEW db \in Databases, NEW q, q.order \in Columns \cup {"none", "appended"},
         NEW i \in DOMAIN rows[db], NEW j \in DOMAIN rows[db]
  PROVE  /\ Rank(db, q, i) \in Int /\ Rank(db, q, j) \in Int
         /\ Earlier(db, q, i, j) <=>
              (Rank(db, q, i) < Rank(db, q, j) \/ (Rank(db, q, i) = Rank(db, q, j) /\ i < j))
<1>1. CASE q.order \in {"none", "appended"}
  BY <1>1 DEF Rank, Earlier
<1>2. CASE q.order \notin {"none", "appended"}
  <2>1. PICK c, a, b : c = q.order /\ a = rows[db][i] /\ b = rows[db][j]
    OBVIOUS
  <2>2. a[c] \in Nat /\ b[c] \in Nat
    BY <1>2, <2>1, RowsAre
  <2>3. PICK v, w : v = Weight(db, c, a[c]) /\ w = Weight(db, c, b[c])
    OBVIOUS
  <2>4. v \in Int /\ w \in Int /\ (Less(db, c, a, b) <=> v < w) /\ (Less(db, c, b, a) <=> w < v)
    BY <2>2, <2>3, LessIs
  <2>5. CASE q.desc
    <3>1. Rank(db, q, i) = 0 - v /\ Rank(db, q, j) = 0 - w
      BY <1>2, <2>1, <2>3, <2>5 DEF Rank
    <3>2. Earlier(db, q, i, j) <=> (Less(db, c, b, a) \/ (~ Less(db, c, a, b) /\ i < j))
      BY <1>2, <2>1, <2>5 DEF Earlier
    <3> QED
      BY <2>4, <3>1, <3>2
  <2>6. CASE ~ q.desc
    <3>1. Rank(db, q, i) = v /\ Rank(db, q, j) = w
      BY <1>2, <2>1, <2>3, <2>6 DEF Rank
    <3>2. Earlier(db, q, i, j) <=> (Less(db, c, a, b) \/ (~ Less(db, c, b, a) /\ i < j))
      BY <1>2, <2>1, <2>6 DEF Earlier
    <3> QED
      BY <2>4, <3>1, <3>2
  <2> QED
    BY <2>5, <2>6
<1> QED
  BY <1>1, <1>2

\* What comes before each row that a read finds.
Before(db, m, arg) ==
    [j \in Found(db, m, arg) |-> {i \in Found(db, m, arg) : Earlier(db, T(db).reads[m], i, j)}]

\* The methods of a SQL store are those of memory, and every one sorts by a column or not at all.
LEMMA ReadsKnown ==
  ASSUME TypeOK, NEW db \in Databases, NEW m \in DOMAIN memory[table].reads
  PROVE  T(db).reads[m].order \in Columns \cup {"none", "appended"}
<1>0. T("memory") = memory[table]
  BY DEF T
<1>1. ASSUME NEW q \in SQL PROVE /\ T("memory").reads[m].order \in Columns \cup {"none", "appended"}
                                 /\ T(q).reads[m].order \in Columns \cup {"none", "appended"}
  BY <1>0, TablesFit DEF TableOK, SortsKnown
<1> QED
  BY <1>1, Names

\* A read lists the rows it finds in a strict order.
LEMMA ReadOrders ==
  ASSUME TypeOK, NEW db \in Databases, NEW m \in DOMAIN memory[table].reads, NEW arg
  PROVE  /\ LinearOrder(Found(db, m, arg), Before(db, m, arg))
         /\ \A i, j \in Found(db, m, arg) : i \in Before(db, m, arg)[j] <=> Earlier(db, T(db).reads[m], i, j)
<1>1. PICK F, q, before, rank : /\ F = Found(db, m, arg) /\ q = T(db).reads[m] /\ before = Before(db, m, arg)
                                /\ rank = [i \in F |-> Rank(db, q, i)]
  OBVIOUS
<1>2. F \subseteq DOMAIN rows[db] /\ F \in SUBSET Nat
  BY <1>1, ReadLength, RowsAre
<1>3. q.order \in Columns \cup {"none", "appended"}
  BY <1>1, ReadsKnown
<1>4. \A i, j \in F : /\ rank[i] \in Int
                      /\ Earlier(db, q, i, j) <=> (rank[i] < rank[j] \/ (rank[i] = rank[j] /\ i < j))
  BY <1>1, <1>2, <1>3, EarlierIs
<1>5. before = [j \in F |-> {i \in F : Earlier(db, q, i, j)}]
  BY <1>1 DEF Before
<1>6. \A j \in F : before[j] = {i \in F : Earlier(db, q, i, j)}
  BY <1>5
<1>7. \A j \in F : before[j] \subseteq F
  BY <1>6
<1>8. \A i, j \in F : i \in before[j] <=> Earlier(db, q, i, j)
  BY <1>6
<1>9. LinearOrder(F, before)
  BY <1>2, <1>4, <1>7, <1>8, RanksOrder
<1> QED
  BY <1>1, <1>8, <1>9

\* The rows a read returns: o lists the places of those it finds.
ListedBy(o, n, F, before) ==
    /\ n \in Nat /\ o \in [1 .. n -> F] /\ \A x \in F : \E k \in 1 .. n : o[k] = x
    /\ \A k, l \in 1 .. n : k < l => o[k] \in before[o[l]]

\* InOrder lists so.
LEMMA OrderLists ==
  ASSUME NEW S, IsFiniteSet(S), NEW before, LinearOrder(S, before)
  PROVE  ListedBy(InOrder(S, before), Cardinality(S), S, before)
BY InOrderLists, InOrderKeeps DEF ListedBy

\* A read is the rows at the places listed.
LEMMA ReadIs ==
  ASSUME TypeOK, NEW db \in Databases, NEW m \in DOMAIN memory[table].reads, NEW arg
  PROVE  \E o, n : /\ o = InOrder(Found(db, m, arg), Before(db, m, arg)) /\ n = Cardinality(Found(db, m, arg))
                   /\ ListedBy(o, n, Found(db, m, arg), Before(db, m, arg))
                   /\ Read(db, m, arg) = [k \in 1 .. n |-> rows[db][o[k]]]
<1>1. PICK F, before, o, n : /\ F = Found(db, m, arg) /\ before = Before(db, m, arg)
                             /\ o = InOrder(F, before) /\ n = Cardinality(F)
  OBVIOUS
<1>2. IsFiniteSet(F) /\ LinearOrder(F, before)
  BY <1>1, ReadLength, ReadOrders
<1>3. ListedBy(o, n, F, before)
  BY <1>1, <1>2, OrderLists
<1>4. DOMAIN o = 1 .. n
  BY <1>3 DEF ListedBy
<1>5. Read(db, m, arg) = [k \in 1 .. n |-> rows[db][o[k]]]
  BY <1>1, <1>4 DEF Read, Rows, Before
<1> QED
  BY <1>1, <1>3, <1>5

\* So it returns the rows that it finds.
LEMMA ReadRows ==
  ASSUME TypeOK, NEW db \in Databases, NEW m \in DOMAIN memory[table].reads, NEW arg
  PROVE  \A r : r \in ToSet(Read(db, m, arg)) <=> \E i \in Found(db, m, arg) : r = rows[db][i]
<1>1. PICK F, before, o, n, s : /\ F = Found(db, m, arg) /\ before = Before(db, m, arg) /\ s = Read(db, m, arg)
                                /\ ListedBy(o, n, F, before) /\ s = [k \in 1 .. n |-> rows[db][o[k]]]
  BY ReadIs
<1>2. DOMAIN s = 1 .. n /\ \A k \in 1 .. n : s[k] = rows[db][o[k]]
  BY <1>1
<1>3. \A x : x \in ToSet(s) <=> \E k \in 1 .. n : x = rows[db][o[k]]
  BY <1>2 DEF ToSet
<1>4. \A x : x \in ToSet(s) <=> \E i \in F : x = rows[db][i]
  BY <1>1, <1>3 DEF ListedBy
<1> QED
  BY <1>1, <1>4

\* A read finds the same places in every store that has refused nothing.
LEMMA FoundAlike ==
  ASSUME TypeOK, NEW db \in SQL, Aligned(db), NEW m \in DOMAIN memory[table].reads, NEW arg
  PROVE  Found(db, m, arg) = Found("memory", m, arg)
<1>1. PICK by : by = T("memory").reads[m].by
  OBVIOUS
<1>2. T("memory") = memory[table]
  BY DEF T
<1>3. T(db).reads[m].by = by /\ by \subseteq Columns /\ "joined_at" \notin by
  BY <1>1, <1>2, TablesFit DEF TableOK, SameReads
<1>4. DOMAIN rows[db] = DOMAIN rows["memory"]
  BY DEF Aligned, AlignedTo
<1>5. ASSUME NEW i \in DOMAIN rows[db] PROVE Match(rows[db][i], arg, by) <=> Match(rows["memory"][i], arg, by)
  <2>1. \A c \in by : rows[db][i][c] = rows["memory"][i][c]
    BY <1>3 DEF Aligned, AlignedTo, Alike
  <2> QED
    BY <2>1 DEF Match
<1> QED
  BY <1>1, <1>3, <1>4, <1>5 DEF Found

\* SameRows: whatever was written, a SQL store that has refused nothing returns the rows that
\* memory returns.
LEMMA RowsHold == Inv => SameRows
<1> SUFFICES ASSUME Inv, NEW db \in SQL \ refused, NEW m \in DOMAIN memory[table].reads, NEW arg
             PROVE  {Comparable(r) : r \in ToSet(Read(db, m, arg))}
                      = {Comparable(r) : r \in ToSet(Read("memory", m, arg))}
  BY DEF SameRows
<1>0. TypeOK /\ Aligned(db) /\ db \in Databases /\ "memory" \in Databases
  BY Names DEF Inv
<1>1. PICK F : F = Found(db, m, arg) /\ F = Found("memory", m, arg)
  BY <1>0, FoundAlike
<1>2. F \subseteq DOMAIN rows[db] /\ F \subseteq DOMAIN rows["memory"]
  BY <1>0, <1>1, ReadLength
<1>3. ASSUME NEW i \in F PROVE Comparable(rows[db][i]) = Comparable(rows["memory"][i])
  <2>1. \A c \in Columns \ {"joined_at"} : rows[db][i][c] = rows["memory"][i][c]
    BY <1>0, <1>2 DEF Aligned, AlignedTo, Alike
  <2> QED
    BY <2>1 DEF Comparable
<1>4. \A r : r \in ToSet(Read(db, m, arg)) <=> \E i \in F : r = rows[db][i]
  <2>1. \A r : r \in ToSet(Read(db, m, arg)) <=> \E i \in Found(db, m, arg) : r = rows[db][i]
    BY <1>0, ReadRows
  <2> QED
    BY <1>1, <2>1, Zenon
<1>5. \A r : r \in ToSet(Read("memory", m, arg)) <=> \E i \in F : r = rows["memory"][i]
  BY <1>0, <1>1, ReadRows
<1>6. \A x : x \in {Comparable(r) : r \in ToSet(Read(db, m, arg))}
               <=> \E i \in F : x = Comparable(rows[db][i])
  BY <1>4, Zenon
<1>7. \A x : x \in {Comparable(r) : r \in ToSet(Read("memory", m, arg))}
               <=> \E i \in F : x = Comparable(rows["memory"][i])
  BY <1>5, Zenon
<1> QED
  BY <1>3, <1>6, <1>7

\* For any number of writes of any rows, in any order.
THEOREM RowsAgree == Spec => []SameRows
BY Invariant, RowsHold, PTL

-----------------------------------------------------------------------------
(* In the same order from every store *)

\* A number is twice its half, and its parity.
LEMMA Halves ==
  ASSUME NEW v \in Nat
  PROVE  v \div 2 \in Nat /\ v % 2 \in {0, 1} /\ v = 2 * (v \div 2) + (v % 2)
OBVIOUS

\* Numbers of one parity sort as their texts do.
LEMMA WeightKeeps ==
  ASSUME NEW db, NEW column, NEW v \in Nat, NEW w \in Nat,
         db = "sqlite" /\ column \in Times => v % 2 = w % 2
  PROVE  /\ Weight(db, column, v) < Weight(db, column, w) <=> v < w
         /\ Weight(db, column, v) = Weight(db, column, w) <=> v = w
<1>1. CASE db = "sqlite" /\ column \in Times
  <2>1. /\ v % 2 = w % 2 /\ v % 2 \in {0, 1} /\ v = 2 * (v \div 2) + (v % 2) /\ w = 2 * (w \div 2) + (w % 2)
        /\ v \div 2 \in Nat /\ w \div 2 \in Nat
    BY <1>1, Halves
  <2>2. PICK x : x = IF v % 2 = 1 THEN 0 ELSE 1
    OBVIOUS
  <2>3. /\ x \in {0, 1} /\ Weight(db, column, v) = 2 * (v \div 2) + x
        /\ Weight(db, column, w) = 2 * (w \div 2) + x
    BY <1>1, <2>1, <2>2 DEF Weight
  <2> QED
    BY <2>1, <2>3
<1>2. CASE ~ (db = "sqlite" /\ column \in Times)
  BY <1>2 DEF Weight
<1> QED
  BY <1>1, <1>2

\* The times of a column have fractions of one length, if SQLite sorts by them.
Even(db, column, v, w) == db = "sqlite" /\ column \in Times => v % 2 = w % 2

\* Then rows come by their numbers in that column.
LEMMA EarlierBy ==
  ASSUME TypeOK, NEW db \in Databases, NEW q, q.order \in Columns \ {"none", "appended"},
         NEW i \in DOMAIN rows[db], NEW j \in DOMAIN rows[db],
         Even(db, q.order, rows[db][i][q.order], rows[db][j][q.order])
  PROVE  LET v == rows[db][i][q.order]
             w == rows[db][j][q.order]
         IN  /\ v \in Nat /\ w \in Nat
             /\ q.desc => (Earlier(db, q, i, j) <=> (w < v \/ (v = w /\ i < j)))
             /\ ~ q.desc => (Earlier(db, q, i, j) <=> (v < w \/ (v = w /\ i < j)))
<1>1. PICK c, v, w, x, y : /\ c = q.order /\ v = rows[db][i][c] /\ w = rows[db][j][c]
                           /\ x = Weight(db, c, v) /\ y = Weight(db, c, w)
  OBVIOUS
<1>2. v \in Nat /\ w \in Nat
  BY <1>1, RowsAre
<1>3. Even(db, c, v, w)
  BY <1>1
<1>4. (x < y <=> v < w) /\ (x = y <=> v = w)
  BY <1>1, <1>2, <1>3, WeightKeeps DEF Even
<1>4a. (y < x <=> w < v)
  BY <1>1, <1>2, <1>3, WeightKeeps DEF Even
<1>5. x \in Int /\ y \in Int
  BY <1>1, <1>2 DEF Weight
<1>6. Rank(db, q, i) = (IF q.desc THEN 0 - x ELSE x) /\ Rank(db, q, j) = (IF q.desc THEN 0 - y ELSE y)
  BY <1>1 DEF Rank
<1>7. Earlier(db, q, i, j) <=>
        (Rank(db, q, i) < Rank(db, q, j) \/ (Rank(db, q, i) = Rank(db, q, j) /\ i < j))
  BY EarlierIs
<1>8. CASE q.desc
  <2>1. Earlier(db, q, i, j) <=> (y < x \/ (x = y /\ i < j))
    BY <1>5, <1>6, <1>7, <1>8
  <2> QED
    BY <1>1, <1>2, <1>4, <1>4a, <1>8, <2>1
<1>9. CASE ~ q.desc
  <2>1. Earlier(db, q, i, j) <=> (x < y \/ (x = y /\ i < j))
    BY <1>5, <1>6, <1>7, <1>9
  <2> QED
    BY <1>1, <1>2, <1>4, <1>4a, <1>9, <2>1
<1> QED
  BY <1>1, <1>2, <1>8, <1>9

\* Rows that have the same place, and are the same in a unique column, are the same: so if two
\* reads return the same rows, they found the same row at every place.
LEMMA SamePlaces ==
  ASSUME TypeOK, NEW db \in SQL, Aligned(db), Unique(db), NEW m \in DOMAIN memory[table].reads, NEW arg,
         ToSet(Read(db, m, arg)) = ToSet(Read("memory", m, arg)), NEW i \in Found(db, m, arg)
  PROVE  rows[db][i] = rows["memory"][i]
<1>1. PICK F : F = Found(db, m, arg) /\ F = Found("memory", m, arg)
  BY FoundAlike
<1>2. F \subseteq DOMAIN rows[db] /\ db \in Databases /\ "memory" \in Databases
  BY <1>1, ReadLength, Names
<1>3. rows[db][i] \in ToSet(Read(db, m, arg))
  BY <1>1, <1>2, ReadRows
<1>4. PICK j \in F : rows[db][i] = rows["memory"][j]
  BY <1>1, <1>2, <1>3, ReadRows
<1>5. PICK u : u \in T(db).unique /\ u \subseteq Columns /\ "joined_at" \notin u
  <2>1. T(db).unique # {}
    BY TablesFit DEF TableOK, SameKeys, RowsDiffer
  <2> QED
    BY <2>1, TablesFit DEF TableOK, SameKeys
<1>6. \A c \in u : rows[db][j][c] = rows["memory"][j][c]
  BY <1>2, <1>5 DEF Aligned, AlignedTo, Alike
<1>7. Match(rows[db][i], rows[db][j], u)
  BY <1>4, <1>6 DEF Match
<1>8. i = j
  BY <1>1, <1>2, <1>5, <1>7 DEF Unique, UniqueIn
<1> QED
  BY <1>4, <1>8

\* Two stores that have the same rows in the same places, and the same order of them, return
\* the same list.
LEMMA SameLists ==
  ASSUME TypeOK, NEW db \in SQL, NEW m \in DOMAIN memory[table].reads, NEW arg,
         Found(db, m, arg) = Found("memory", m, arg),
         \A i \in Found(db, m, arg) : rows[db][i] = rows["memory"][i],
         \A i, j \in Found(db, m, arg) :
             Earlier(db, T(db).reads[m], i, j) <=> Earlier("memory", T("memory").reads[m], i, j)
  PROVE  Read(db, m, arg) = Read("memory", m, arg)
<1>1. PICK F, q, p : F = Found(db, m, arg) /\ q = T(db).reads[m] /\ p = T("memory").reads[m]
  OBVIOUS
<1>2. \A i, j \in F : Earlier(db, q, i, j) <=> Earlier("memory", p, i, j)
  BY <1>1
<1>3. \A j \in F : {i \in F : Earlier(db, q, i, j)} = {i \in F : Earlier("memory", p, i, j)}
  BY <1>2
<1>4. Before(db, m, arg) = Before("memory", m, arg)
  <2>1. Before(db, m, arg) = [j \in F |-> {i \in F : Earlier(db, q, i, j)}]
    BY <1>1 DEF Before
  <2>2. Before("memory", m, arg) = [j \in F |-> {i \in F : Earlier("memory", p, i, j)}]
    BY <1>1 DEF Before
  <2> QED
    BY <1>3, <2>1, <2>2
<1>5. PICK before : before = Before(db, m, arg)
  OBVIOUS
<1>6. PICK o, n : /\ o = InOrder(F, before) /\ n = Cardinality(F)
                  /\ ListedBy(o, n, F, before) /\ Read(db, m, arg) = [k \in 1 .. n |-> rows[db][o[k]]]
  BY <1>1, <1>5, Names, ReadIs
<1>7. Read("memory", m, arg) = [k \in 1 .. n |-> rows["memory"][o[k]]]
  BY <1>1, <1>4, <1>5, <1>6, Names, ReadIs
<1>8. \A k \in 1 .. n : rows[db][o[k]] = rows["memory"][o[k]]
  BY <1>1, <1>6 DEF ListedBy
<1> QED
  BY <1>6, <1>7, <1>8

\* Rows whose numbers grow with their places come by their places.
LEMMA EarlierGrows ==
  ASSUME TypeOK, NEW db \in Databases, NEW q, q.order \in Columns \ {"none", "appended"}, q.desc = FALSE,
         NEW F \in SUBSET DOMAIN rows[db],
         \A i, j \in F : Even(db, q.order, rows[db][i][q.order], rows[db][j][q.order]),
         \A i, j \in F : i < j => rows[db][i][q.order] < rows[db][j][q.order]
  PROVE  \A i, j \in F : Earlier(db, q, i, j) <=> i < j
<1> SUFFICES ASSUME NEW i \in F, NEW j \in F PROVE Earlier(db, q, i, j) <=> i < j
  OBVIOUS
<1>1. PICK v, w : v = rows[db][i][q.order] /\ w = rows[db][j][q.order]
  OBVIOUS
<1>2. v \in Nat /\ w \in Nat /\ (Earlier(db, q, i, j) <=> (v < w \/ (v = w /\ i < j)))
  BY <1>1, EarlierBy
<1>3. i \in Nat /\ j \in Nat
  BY RowsAre
<1>4. (i < j => v < w) /\ (j < i => w < v)
  BY <1>1
<1>5. (v < w \/ (v = w /\ i < j)) <=> i < j
  <2>1. i < j \/ i = j \/ j < i
    BY <1>3
  <2>2. i = j => v = w
    BY <1>1
  <2> QED
    BY <1>2, <1>3, <1>4, <2>1, <2>2
<1> QED
  BY <1>2, <1>5, Zenon

\* A list of rows in the order of appending has them by their places: if a column grows in
\* it, it grows with the places.
LEMMA PlacesGrow ==
  ASSUME TypeOK, NEW m \in DOMAIN memory[table].reads, NEW arg, NEW c,
         T("memory").reads[m].order = "appended", Grows(Read("memory", m, arg), c),
         NEW i \in Found("memory", m, arg), NEW j \in Found("memory", m, arg), i < j
  PROVE  rows["memory"][i][c] < rows["memory"][j][c]
<1>1. PICK F, q, before, o, n, s :
          /\ F = Found("memory", m, arg) /\ q = T("memory").reads[m] /\ before = Before("memory", m, arg)
          /\ s = Read("memory", m, arg)
          /\ ListedBy(o, n, F, before) /\ s = [k \in 1 .. n |-> rows["memory"][o[k]]]
  BY Names, ReadIs
<1>2. F \in SUBSET Nat
  BY <1>1, Names, ReadLength, RowsAre
<1>3. \A x, y \in F : x \in before[y] <=> x < y
  BY <1>1, Names, ReadOrders DEF Earlier
<1>4. PICK k \in 1 .. n, l \in 1 .. n : o[k] = i /\ o[l] = j
  BY <1>1 DEF ListedBy
<1>5. ~ (l < k)
  <2>1. l < k => o[l] \in before[o[k]]
    BY <1>1 DEF ListedBy
  <2>2. ~ (j < i)
    BY <1>1, <1>2
  <2> QED
    BY <1>1, <1>3, <1>4, <2>1, <2>2
<1>6. k < l
  <2>1. n \in Nat /\ i # j
    BY <1>1, <1>2 DEF ListedBy
  <2> QED
    BY <1>4, <1>5, <2>1
<1>7. DOMAIN s = 1 .. n /\ s[k] = rows["memory"][i] /\ s[l] = rows["memory"][j]
  BY <1>1, <1>4
<1> QED
  BY <1>1, <1>6, <1>7 DEF Grows

\* A list that is sorted upwards by a column without ties grows in that column.
LEMMA SortedGrows ==
  ASSUME TypeOK, NEW db \in SQL, NEW m \in DOMAIN memory[table].reads, NEW arg, NEW q, q = T(db).reads[m],
         q.order \in Columns \ {"none", "appended"}, q.desc = FALSE,
         \A i, j \in Found(db, m, arg) : Even(db, q.order, rows[db][i][q.order], rows[db][j][q.order]),
         NoTies(Read(db, m, arg), q.order)
  PROVE  Grows(Read(db, m, arg), q.order)
<1>0. db \in Databases
  BY Names
<1>1. PICK F, before, o, n, s, c :
          /\ F = Found(db, m, arg) /\ before = Before(db, m, arg) /\ c = q.order
          /\ s = Read(db, m, arg)
          /\ ListedBy(o, n, F, before) /\ s = [k \in 1 .. n |-> rows[db][o[k]]]
  BY <1>0, ReadIs
<1>2. F \in SUBSET DOMAIN rows[db] /\ DOMAIN s = 1 .. n /\ n \in Nat
  BY <1>0, <1>1, ReadLength DEF ListedBy
<1>3. ASSUME NEW k \in 1 .. n, NEW l \in 1 .. n, k < l PROVE s[k][c] < s[l][c]
  <2>1. PICK i, j : i = o[k] /\ j = o[l]
    OBVIOUS
  <2>2. i \in F /\ j \in F /\ i \in before[j]
    BY <1>1, <1>3, <2>1 DEF ListedBy
  <2>3. Earlier(db, q, i, j)
    BY <1>0, <1>1, <2>2, ReadOrders
  <2>4. PICK v, w : v = rows[db][i][c] /\ w = rows[db][j][c]
    OBVIOUS
  <2>5. v \in Nat /\ w \in Nat /\ (v < w \/ v = w)
    BY <1>0, <1>1, <1>2, <2>2, <2>3, <2>4, EarlierBy
  <2>6. s[k][c] = v /\ s[l][c] = w
    BY <1>1, <2>1, <2>4
  <2>7. k # l
    BY <1>3
  <2>8. v # w
    BY <1>1, <1>2, <2>6, <2>7 DEF NoTies
  <2> QED
    BY <2>5, <2>6, <2>8
<1> QED
  BY <1>1, <1>2, <1>3 DEF Grows

\* Rows of a list whose times have fractions of one length.
LEMMA EvenTimes ==
  ASSUME TypeOK, NEW db \in Databases, NEW m \in DOMAIN memory[table].reads, NEW arg, NEW c \in Columns,
         db = "sqlite" => OneLength(Read(db, m, arg)), NEW i \in Found(db, m, arg), NEW j \in Found(db, m, arg)
  PROVE  Even(db, c, rows[db][i][c], rows[db][j][c])
<1> SUFFICES ASSUME db = "sqlite", c \in Times PROVE rows[db][i][c] % 2 = rows[db][j][c] % 2
  BY DEF Even
<1>1. rows[db][i] \in ToSet(Read(db, m, arg)) /\ rows[db][j] \in ToSet(Read(db, m, arg))
  BY ReadRows
<1>2. PICK p \in 0 .. 1 : \A r \in ToSet(Read(db, m, arg)) : \A d \in Columns \cap Times : r[d] % 2 = p
  BY DEF OneLength
<1>3. rows[db][i][c] % 2 = p /\ rows[db][j][c] % 2 = p
  BY <1>1, <1>2
<1> QED
  BY <1>3

\* Two reads that sort by one column list rows that are the same in the same order.
LEMMA SortedAlike ==
  ASSUME TypeOK, NEW db \in SQL, NEW q, q.order \in Columns \ {"none", "appended"},
         NEW F \in SUBSET DOMAIN rows[db], F \subseteq DOMAIN rows["memory"],
         \A i, j \in F : Even(db, q.order, rows[db][i][q.order], rows[db][j][q.order]),
         \A i \in F : rows[db][i] = rows["memory"][i]
  PROVE  \A i, j \in F : Earlier(db, q, i, j) <=> Earlier("memory", q, i, j)
<1> SUFFICES ASSUME NEW i \in F, NEW j \in F PROVE Earlier(db, q, i, j) <=> Earlier("memory", q, i, j)
  OBVIOUS
<1>0. db \in Databases /\ "memory" \in Databases
  BY Names
<1>1. PICK v, w : v = rows[db][i][q.order] /\ w = rows[db][j][q.order]
  OBVIOUS
<1>2. v = rows["memory"][i][q.order] /\ w = rows["memory"][j][q.order]
  BY <1>1
<1>3. /\ q.desc => (Earlier(db, q, i, j) <=> (w < v \/ (v = w /\ i < j)))
      /\ ~ q.desc => (Earlier(db, q, i, j) <=> (v < w \/ (v = w /\ i < j)))
  BY <1>0, <1>1, EarlierBy
<1>4. Even("memory", q.order, v, w)
  BY DEF Even
<1>5. /\ q.desc => (Earlier("memory", q, i, j) <=> (w < v \/ (v = w /\ i < j)))
      /\ ~ q.desc => (Earlier("memory", q, i, j) <=> (v < w \/ (v = w /\ i < j)))
  BY <1>0, <1>2, <1>4, EarlierBy
<1> QED
  BY <1>3, <1>5

\* SameOrder: stores that return the same rows sort them alike, but for times of several
\* lengths in SQLite; where memory keeps the order of appending, that is the order of the SQL
\* store if and only if the rows were appended in it.
LEMMA OrderHolds == Inv => SameOrder
<1> SUFFICES ASSUME Inv, NEW db \in SQL \ refused, NEW m \in DOMAIN memory[table].reads, NEW arg,
                    memory[table].reads[m].order # "none",
                    ToSet(Read(db, m, arg)) = ToSet(Read("memory", m, arg)),
                    db = "sqlite" => OneLength(Read(db, m, arg)),
                    NoTies(Read(db, m, arg), T(db).reads[m].order)
             PROVE  Read(db, m, arg) = Read("memory", m, arg)
                      <=> (memory[table].reads[m].order = "appended"
                             => Grows(Read("memory", m, arg), T(db).reads[m].order))
  BY DEF SameOrder
<1>0. TypeOK /\ Aligned(db) /\ Unique(db) /\ db \in Databases /\ "memory" \in Databases
  BY Names DEF Inv
<1>1. PICK F : F = Found(db, m, arg) /\ F = Found("memory", m, arg)
  BY <1>0, FoundAlike
<1>2. F \in SUBSET DOMAIN rows[db] /\ F \subseteq DOMAIN rows["memory"]
  BY <1>0, <1>1, ReadLength
<1>3. \A i \in F : rows[db][i] = rows["memory"][i]
  BY <1>0, <1>1, SamePlaces
<1>4. PICK q, p : q = T(db).reads[m] /\ p = T("memory").reads[m]
  OBVIOUS
<1>5. p = memory[table].reads[m] /\ p.order # "none" /\ T("memory") = memory[table]
  BY <1>4 DEF T
<1>6. \/ q = p /\ q.order \in Columns \ {"none", "appended"}
      \/ p.order = "appended" /\ q.desc = FALSE /\ q.order \in Columns \ {"none", "appended"}
  BY <1>0, <1>4, <1>5, TablesFit DEF TableOK, SameSort
<1>7. \A i, j \in F : Even(db, q.order, rows[db][i][q.order], rows[db][j][q.order])
  BY <1>0, <1>1, <1>6, EvenTimes
<1>8. ASSUME \A i, j \in F : Earlier(db, q, i, j) <=> Earlier("memory", p, i, j)
      PROVE  Read(db, m, arg) = Read("memory", m, arg)
  BY <1>0, <1>1, <1>3, <1>4, <1>8, SameLists
<1>9. CASE p.order # "appended"
  <2>1. q = p /\ q.order \in Columns \ {"none", "appended"}
    BY <1>6, <1>9
  <2>2. \A i, j \in F : Earlier(db, q, i, j) <=> Earlier("memory", p, i, j)
    BY <1>0, <1>2, <1>3, <1>7, <2>1, SortedAlike
  <2> QED
    BY <1>5, <1>8, <1>9, <2>2
<1>10. CASE p.order = "appended"
  <2>0. q.desc = FALSE /\ q.order \in Columns \ {"none", "appended"}
    BY <1>6, <1>10
  <2>1. ASSUME Grows(Read("memory", m, arg), q.order) PROVE Read(db, m, arg) = Read("memory", m, arg)
    <3>1. \A i, j \in F : Earlier("memory", p, i, j) <=> i < j
      BY <1>10 DEF Earlier
    <3>2. \A i, j \in F : i < j => rows[db][i][q.order] < rows[db][j][q.order]
      <4>1. ASSUME NEW i \in F, NEW j \in F, i < j
            PROVE  rows["memory"][i][q.order] < rows["memory"][j][q.order]
        BY <1>0, <1>1, <1>4, <1>10, <2>1, <4>1, PlacesGrow
      <4> QED
        BY <1>3, <4>1
    <3>3. \A i, j \in F : Earlier(db, q, i, j) <=> i < j
      BY <1>0, <1>2, <1>7, <2>0, <3>2, EarlierGrows
    <3> QED
      BY <1>8, <3>1, <3>3
  <2>2. Grows(Read(db, m, arg), q.order)
    BY <1>0, <1>1, <1>4, <1>7, <2>0, SortedGrows
  <2> QED
    BY <1>4, <1>5, <1>10, <2>1, <2>2
<1> QED
  BY <1>9, <1>10

\* For any number of writes of any rows, at times in any order.
THEOREM OrdersAgree == Spec => []SameOrder
BY Invariant, OrderHolds, PTL

-----------------------------------------------------------------------------
(* The pages are the list *)

\* How many rows of N are on a page after the first w.
OnPage(w, limit, N) == Smaller(limit, IF w >= N THEN 0 ELSE N - w)

\* A page starts where the ones before it end: a rows before it, b on it, c after it.
PageFits(a, b, c, w, N) ==
    a \in Nat /\ b \in Nat /\ c \in Nat /\ a + b = c /\ c <= N /\ (b = 0 \/ a = w)

LEMMA OnPageIs ==
  ASSUME NEW w \in Nat, NEW N \in Nat, NEW limit \in Nat
  PROVE  PageFits(Smaller(w, N), OnPage(w, limit, N), Smaller(w + limit, N), w, N)
<1>0. PICK a, b, c : a = Smaller(w, N) /\ b = OnPage(w, limit, N) /\ c = Smaller(w + limit, N)
  OBVIOUS
<1> SUFFICES a \in Nat /\ b \in Nat /\ c \in Nat /\ a + b = c /\ c <= N /\ (b = 0 \/ a = w)
  BY <1>0 DEF PageFits
<1>1. CASE w >= N
  <2>1. a = N /\ c = N /\ b = Smaller(limit, 0)
    BY <1>0, <1>1 DEF Smaller, OnPage
  <2>2. Smaller(limit, 0) = 0
    BY DEF Smaller
  <2> QED
    BY <2>1, <2>2
<1>2. CASE w < N
  <2>1. a = w /\ b = Smaller(limit, N - w)
    BY <1>0, <1>2 DEF Smaller, OnPage
  <2>2. CASE limit < N - w
    <3>1. b = limit /\ c = w + limit
      BY <1>0, <1>2, <2>1, <2>2 DEF Smaller
    <3> QED
      BY <1>2, <2>1, <2>2, <3>1
  <2>3. CASE ~ (limit < N - w)
    <3>1. b = N - w /\ c = N
      BY <1>0, <1>2, <2>1, <2>3 DEF Smaller
    <3> QED
      BY <1>2, <2>1, <3>1
  <2> QED
    BY <2>2, <2>3
<1> QED
  BY <1>1, <1>2

\* A page of a SQL store: at most limit rows of s, after the first w.
PageOf(p, s, w, limit) == p = [i \in 1 .. OnPage(w, limit, Len(s)) |-> s[w + i]]

LEMMA PageIs ==
  ASSUME NEW db \in SQL, NEW s, Len(s) \in Nat, NEW limit \in Nat, limit > 0, NEW k \in Nat, NEW w, w = k * limit
  PROVE  PageOf(Page(db, s, limit, k), s, w, limit)
<1>2. w \in Nat /\ ~ (w < 0) /\ ~ (limit <= 0)
  OBVIOUS
<1>3. limitOffset(db, s, w, limit) = {[i \in 1 .. OnPage(w, limit, Len(s)) |-> s[w + i]]}
  BY <1>2 DEF limitOffset, OnPage
<1>4. Page(db, s, limit, k) = CHOOSE p \in {[i \in 1 .. OnPage(w, limit, Len(s)) |-> s[w + i]]} : TRUE
  BY <1>3 DEF Page
<1> QED
  BY <1>4 DEF PageOf

\* The first rows of a list.
First(s, n) == [i \in 1 .. n |-> s[i]]

\* One page more.
LEMMA OneMore ==
  ASSUME NEW R, NEW s \in Seq(R), NEW N \in Nat, N = Len(s), NEW w \in Nat, NEW limit \in Nat, limit > 0
  PROVE  First(s, Smaller(w, N)) \o [i \in 1 .. OnPage(w, limit, N) |-> s[w + i]]
           = First(s, Smaller(w + limit, N))
<1>1. PICK a, b, c : a = Smaller(w, N) /\ b = OnPage(w, limit, N) /\ c = Smaller(w + limit, N)
  OBVIOUS
<1>2. a \in Nat /\ b \in Nat /\ c \in Nat /\ a + b = c /\ c <= N /\ (b = 0 \/ a = w)
  BY <1>1, OnPageIs DEF PageFits
<1>3. PICK x, y : x = First(s, a) /\ y = [i \in 1 .. b |-> s[w + i]]
  OBVIOUS
<1>4. x \in Seq(R) /\ Len(x) = a /\ \A i \in 1 .. a : x[i] = s[i]
  <2>1. x \in [1 .. a -> R]
    BY <1>2, <1>3 DEF First
  <2>2. \A i \in 1 .. a : x[i] = s[i]
    BY <1>3 DEF First
  <2> QED
    BY <1>2, <2>1, <2>2, FunctionIsSeq
<1>5. y \in Seq(R) /\ Len(y) = b /\ \A i \in 1 .. b : y[i] = s[w + i]
  <2>1. y \in [1 .. b -> R]
    BY <1>2, <1>3
  <2>2. \A i \in 1 .. b : y[i] = s[w + i]
    BY <1>3
  <2> QED
    BY <1>2, <2>1, <2>2, FunctionIsSeq
<1>6. PICK z : z = x \o y
  OBVIOUS
<1>7. z \in Seq(R) /\ Len(z) = c /\ \A i \in 1 .. c : z[i] = IF i <= a THEN x[i] ELSE y[i - a]
  BY <1>2, <1>4, <1>5, <1>6, ConcatProperties
<1>8. \A i \in 1 .. c : z[i] = s[i]
  <2>1. ASSUME NEW i \in 1 .. c PROVE z[i] = s[i]
    <3>1. CASE i <= a
      BY <1>2, <1>4, <1>7, <3>1
    <3>2. CASE ~ (i <= a)
      <4>1. i - a \in 1 .. b /\ w + (i - a) = i
        BY <1>2, <3>2
      <4> QED
        BY <1>5, <1>7, <3>2, <4>1
    <3> QED
      BY <3>1, <3>2
  <2> QED
    BY <2>1
<1>9. z = First(s, c)
  BY <1>2, <1>7, <1>8 DEF First
<1> QED
  BY <1>1, <1>3, <1>6, <1>9

\* The definition of Pages, of a function pages.
Paging(pages, db, s, limit) ==
    pages = [n \in 0 .. Len(s) + 1 |-> IF n = 0 THEN <<>> ELSE pages[n - 1] \o Page(db, s, limit, n - 1)]

\* The first n pages are the first n * limit rows.
LEMMA PagesAre ==
  ASSUME NEW R, NEW s \in Seq(R), NEW db \in SQL, NEW limit \in Nat, limit > 0, NEW n \in 0 .. Len(s) + 1
  PROVE  Pages(db, s, limit)[n] = First(s, Smaller(n * limit, Len(s)))
<1>1. PICK N : N = Len(s)
  OBVIOUS
<1>2. N \in Nat
  BY <1>1
<1>3. PICK f : f = [k \in 0 .. N + 1 |-> First(s, Smaller(k * limit, N))]
  OBVIOUS
<1>4. f[0] = <<>>
  <2>1. f[0] = First(s, Smaller(0 * limit, N))
    BY <1>2, <1>3
  <2>2. Smaller(0 * limit, N) = 0
    BY <1>2 DEF Smaller
  <2> QED
    BY <2>1, <2>2 DEF First
<1>5. ASSUME NEW k \in Nat, k < N + 1
      PROVE  First(s, Smaller((k + 1) * limit, N)) = First(s, Smaller(k * limit, N)) \o Page(db, s, limit, k)
  <2>1. PICK w : w = k * limit
    OBVIOUS
  <2>2. w \in Nat /\ (k + 1) * limit = w + limit
    BY <2>1
  <2>3. Page(db, s, limit, k) = [i \in 1 .. OnPage(w, limit, N) |-> s[w + i]]
    <3>1. PageOf(Page(db, s, limit, k), s, w, limit)
      BY <1>1, <1>2, <2>1, PageIs
    <3> QED
      BY <1>1, <3>1 DEF PageOf
  <2>4. First(s, Smaller(w, N)) \o [i \in 1 .. OnPage(w, limit, N) |-> s[w + i]]
           = First(s, Smaller(w + limit, N))
    BY <1>1, <1>2, <2>2, OneMore, ZenonT(60)
  <2> QED
    BY <2>1, <2>2, <2>3, <2>4
<1>6. Paging(f, db, s, limit)
  <2>1. ASSUME NEW k \in 0 .. N + 1
        PROVE  f[k] = IF k = 0 THEN <<>> ELSE f[k - 1] \o Page(db, s, limit, k - 1)
    <3>1. CASE k = 0
      BY <1>4, <3>1
    <3>2. CASE k # 0
      <4>1. k - 1 \in Nat /\ k - 1 < N + 1 /\ k - 1 \in 0 .. N + 1 /\ (k - 1) + 1 = k
        BY <1>2, <3>2
      <4>2. First(s, Smaller(k * limit, N)) = First(s, Smaller((k - 1) * limit, N)) \o Page(db, s, limit, k - 1)
        BY <1>5, <4>1
      <4> QED
        BY <1>3, <3>2, <4>1, <4>2
    <3> QED
      BY <3>1, <3>2
  <2>2. DOMAIN f = 0 .. N + 1 /\ f = [k \in 0 .. N + 1 |-> f[k]]
    BY <1>3
  <2> QED
    BY <1>1, <2>1, <2>2 DEF Paging
<1>7. Paging(Pages(db, s, limit), db, s, limit)
  <2>1. Pages(db, s, limit) = CHOOSE pages : Paging(pages, db, s, limit)
    BY DEF Pages, Paging
  <2> QED
    BY <1>6, <2>1
<1>8. PICK g : g = Pages(db, s, limit)
  OBVIOUS
<1>9. \A k \in 0 .. N + 1 : g[k] = IF k = 0 THEN <<>> ELSE g[k - 1] \o Page(db, s, limit, k - 1)
  BY <1>1, <1>7, <1>8 DEF Paging
<1>10. PICK A : A = {k \in Nat : k <= N + 1 => g[k] = f[k]}
  OBVIOUS
<1>11. 0 \in A
  BY <1>2, <1>4, <1>9, <1>10
<1>12. ASSUME NEW k \in A PROVE k + 1 \in A
  <2>1. k \in Nat
    BY <1>10
  <2>2. ASSUME k + 1 <= N + 1 PROVE g[k + 1] = f[k + 1]
    <3>1. k + 1 \in 0 .. N + 1 /\ k \in 0 .. N + 1 /\ k + 1 # 0 /\ (k + 1) - 1 = k /\ k < N + 1
      BY <1>2, <2>1, <2>2
    <3>2. g[k] = f[k]
      BY <1>10, <2>1, <3>1
    <3>3. g[k + 1] = g[k] \o Page(db, s, limit, k)
      BY <1>9, <3>1
    <3>4. f[k + 1] = f[k] \o Page(db, s, limit, k)
      BY <1>3, <1>5, <2>1, <3>1
    <3> QED
      BY <3>2, <3>3, <3>4
  <2> QED
    BY <1>10, <2>1, <2>2
<1>13. A = Nat
  BY <1>10, <1>11, <1>12, SetInduction
<1>14. g[n] = f[n]
  BY <1>1, <1>2, <1>10, <1>13
<1> QED
  BY <1>1, <1>3, <1>8, <1>14

\* Products of natural numbers.
LEMMA Products ==
  ASSUME NEW a \in Nat, NEW b \in Nat
  PROVE  a * b \in Nat /\ a * (b + 1) = a * b + a /\ (a + 1) * b = a * b + b
OBVIOUS

\* PagesCover: the pages of one size of a SQL store, one after the other, are the whole list;
\* memory returns as many rows for each, but the right ones only for the first.
LEMMA PagesHold == TypeOK => PagesCover
<1> SUFFICES ASSUME TypeOK, NEW limit \in Limits, limit > 0, NEW db \in SQL
             PROVE  LET s == rows[db]
                    IN  /\ Pages(db, s, limit)[Len(s) + 1] = s
                        /\ \A k \in 0 .. Len(s) : Len(memoryPage(s, k * limit, limit)) = Len(Page(db, s, limit, k))
                        /\ memoryPage(s, 0, limit) = Page(db, s, limit, 0)
  BY DEF PagesCover
<1>1. PICK s, N : s = rows[db] /\ N = Len(s)
  OBVIOUS
<1>2. limit \in Nat
  BY StoresAssumption
<1>3. s \in Seq([Columns -> Nat]) /\ N \in Nat /\ DOMAIN s = 1 .. N
  BY <1>1, Names, RowsAre
<1>4. Pages(db, s, limit)[N + 1] = s
  <2>1. Pages(db, s, limit)[N + 1] = First(s, Smaller((N + 1) * limit, N))
    <3>1. N + 1 \in 0 .. Len(s) + 1
      BY <1>1, <1>3
    <3>2. Pages(db, s, limit)[N + 1] = First(s, Smaller((N + 1) * limit, Len(s)))
      BY <1>2, <1>3, <3>1, PagesAre
    <3> QED
      BY <1>1, <3>2
  <2>2. PICK w : w = N * limit
    OBVIOUS
  <2>3. w \in Nat /\ w >= N /\ (N + 1) * limit = w + limit
    <3>1. PICK l \in Nat : limit = l + 1
      <4>1. limit - 1 \in Nat /\ limit = (limit - 1) + 1
        BY <1>2
      <4> QED
        BY <4>1
    <3>2. N * l \in Nat /\ N * limit = N * l + N /\ (N + 1) * limit = N * limit + limit
      BY <1>2, <1>3, <3>1, Products
    <3> QED
      BY <1>2, <1>3, <2>2, <3>2
  <2>4. Smaller((N + 1) * limit, N) = N
    BY <1>2, <1>3, <2>3 DEF Smaller
  <2>5. First(s, N) = s
    BY <1>3 DEF First
  <2> QED
    BY <2>1, <2>4, <2>5
<1>5. ASSUME NEW w \in Nat
      PROVE  memoryPage(s, w, limit) = [i \in 1 .. OnPage(w, limit, N) |-> s[i]] /\ OnPage(w, limit, N) \in Nat
  <2>1. PICK a, b : a = Smaller(w, N) /\ b = Smaller(a + limit, N) - a
    OBVIOUS
  <2>2. b = OnPage(w, limit, N) /\ b \in Nat
    BY <1>2, <1>3, <2>1 DEF Smaller, OnPage
  <2>3. ~ (w < 0) /\ ~ (limit <= 0)
    BY <1>2
  <2>4. DOMAIN paginate(N, w, limit) = 1 .. b
    BY <2>1, <2>3 DEF paginate
  <2> QED
    BY <1>1, <2>2, <2>4 DEF memoryPage
<1>6. ASSUME NEW k \in 0 .. N PROVE Len(memoryPage(s, k * limit, limit)) = Len(Page(db, s, limit, k))
  <2>1. PICK w : w = k * limit
    OBVIOUS
  <2>2. w \in Nat /\ k \in Nat
    BY <1>2, <1>3, <2>1
  <2>3. PICK b : b = OnPage(w, limit, N)
    OBVIOUS
  <2>4. b \in Nat /\ memoryPage(s, w, limit) = [i \in 1 .. b |-> s[i]]
    BY <1>5, <2>2, <2>3
  <2>5. Page(db, s, limit, k) = [i \in 1 .. b |-> s[w + i]]
    <3>1. PageOf(Page(db, s, limit, k), s, w, limit)
      BY <1>1, <1>2, <1>3, <2>1, <2>2, PageIs
    <3> QED
      BY <1>1, <2>3, <3>1 DEF PageOf
  <2>6. Len([i \in 1 .. b |-> s[i]]) = b /\ Len([i \in 1 .. b |-> s[w + i]]) = b
    BY <2>4
  <2> QED
    BY <2>1, <2>4, <2>5, <2>6
<1>7. memoryPage(s, 0, limit) = Page(db, s, limit, 0)
  <2>1. 0 * limit = 0
    BY <1>2
  <2>2. PICK b : b = OnPage(0, limit, N)
    OBVIOUS
  <2>3. Page(db, s, limit, 0) = [i \in 1 .. b |-> s[0 + i]]
    <3>1. PageOf(Page(db, s, limit, 0), s, 0, limit)
      BY <1>1, <1>2, <1>3, <2>1, PageIs
    <3> QED
      BY <1>1, <2>2, <3>1 DEF PageOf
  <2>4. memoryPage(s, 0, limit) = [i \in 1 .. b |-> s[i]]
    BY <1>5, <2>2
  <2>5. \A i \in 1 .. b : s[0 + i] = s[i]
    BY <1>5, <2>2
  <2> QED
    BY <2>3, <2>4, <2>5
<1> QED
  BY <1>1, <1>4, <1>6, <1>7

\* For lists of any length and pages of any size.
THEOREM PagesAreTheList == Spec => []PagesCover
<1>1. Inv => PagesCover
  BY PagesHold DEF Inv
<1> QED
  BY <1>1, Invariant, PTL
=============================================================================
