--------------------------- MODULE AccountsProofs ---------------------------
(***************************************************************************)
(* Theorems about Accounts, for any set of addresses and IDs, any number   *)
(* of requests in flight, of boots, of failures and of crashes, and any    *)
(* lifetimes of the tokens.                                                *)
(***************************************************************************)
EXTENDS Accounts, FiniteSetTheorems, TLAPS

-----------------------------------------------------------------------------
(* Types *)

Audited == {"kyc", "role", "status"}
Editable == Audited \cup {"name"}
Fields == Editable \cup {"none", "all", "promote"}
Labels == {"idle", "anchor", "save", "write", "audit", "issue"}
Rows == [email : Emails, name : {"first", "second"}, kyc : {"pending", "approved", "rejected"},
         role : Roles, status : {"active", "suspended"}]
Locals == [pc : Labels, id : Ids \cup {NoId}, row : Rows \cup {NoRow}, field : Fields]
Tokens == [sub : Ids, role : Roles, typ : {"access", "refresh"}, exp : Int]

\* What a process holds at each call; SeedAdmin only ever registers and promotes.
LocalOK(p, j) ==
    /\ j.pc # "idle" => j.id \in Ids /\ j.row \in Rows
    /\ j.pc \in {"anchor", "save"} => j.field = "all"
    /\ j.pc = "write" => j.field \in IF p = Main THEN {"promote"} ELSE Editable
    /\ j.pc = "audit" => j.field \in Audited
    /\ p = Main => j.pc \notin {"audit", "issue"}

TypeOK ==
    /\ clock \in Nat /\ failures \in Nat /\ phase \in {"down", "seeding", "up"}
    /\ proc \in [Procs -> Locals] /\ \A p \in Procs : LocalOK(p, proc[p])
    /\ users \in [Ids -> Rows \cup {NoRow}] /\ expected = [id \in Ids |-> expected[id]]
    /\ submitted \in SUBSET Ids /\ crossed \in SUBSET Ids /\ tokens \in SUBSET Tokens
    /\ audits \in Nat /\ changes \in Nat
    /\ lastHeld \in [Ids -> [Roles -> Int]] /\ seeded \in BOOLEAN /\ seedFailed \in BOOLEAN
    /\ phase # "seeding" => At(Main, "idle")
    /\ phase # "up" => \A t \in Threads : At(t, "idle")

\* A row is one of an account, or there is none.
LEMMA RowOrNone ==
    /\ NoRow \notin Rows
    /\ \A row \in Rows : row.email \in Emails /\ row.email # NoId /\ row # NoRow
    /\ NoRow.email = NoId
  BY EmailsAssumption DEF NoRow, Rows

-----------------------------------------------------------------------------
(* The kinds of steps *)

Moves(p, j) == proc' = [proc EXCEPT ![p] = j]
data == <<clock, users, audits, submitted, tokens, changes, expected, crossed, lastHeld, seeded>>
Fails == failures' = failures + 1
Works == failures' = failures

\* A call fails, in SeedAdmin or in a handler.
Errs(p) == Fails /\ (p = Main => seedFailed')

\* A process takes up a handler: it has read what it needs and written nothing.
Starts(p, j) ==
    /\ At(p, "idle") /\ Moves(p, j) /\ UNCHANGED data
    /\ Works \/ Fails
    /\ IF p = Main THEN phase = "down" /\ phase' = "seeding" ELSE phase = "up" /\ phase' = "up"
    /\ j \in Locals /\ LocalOK(p, j)
    /\ \/ /\ j.pc = "anchor" /\ ~ Exists(j.id) /\ j.id \notin submitted
          /\ \A q \in Procs : proc[q].id # j.id
       \/ /\ p # Main /\ j.pc = "write" /\ Exists(j.id)
          /\ j.row = [users[j.id] EXCEPT ![j.field] = j.row[j.field]]
       \/ /\ p # Main /\ j.pc = "issue" /\ Exists(j.id)
          /\ j.row = users[j.id] /\ j.row.status = "active"

\* The registration of the identity is handed to the chain.
Anchors(p, j) ==
    /\ At(p, "anchor") /\ Moves(p, j) /\ AnchorEffect(p) /\ phase' = phase
    /\ UNCHANGED <<clock, users, audits, tokens, changes, expected, crossed, lastHeld, seeded>>
    /\ \/ Works /\ j = [proc[p] EXCEPT !.pc = "save"]
       \/ Errs(p) /\ j = Idle

\* A row is written.
Saves(p, j) ==
    /\ proc[p].pc \in {"save", "write"} /\ Moves(p, j) /\ SaveUserEffect(p) /\ phase' = phase
    /\ UNCHANGED <<clock, submitted, tokens>>
    /\ \/ Errs(p) /\ j = Idle
       \/ Works /\ j = Idle /\ At(p, "save") /\ p # Main
       \/ Works /\ j = Idle /\ At(p, "write") /\ proc[p].field \notin Audited
       \/ Works /\ j = [proc[p] EXCEPT !.pc = "audit"] /\ At(p, "write") /\ proc[p].field \in Audited
       \/ /\ Works /\ p = Main /\ At(p, "save")
          /\ j = [proc[p] EXCEPT !.pc = "write", !.field = "promote",
                                 !.row = [proc[p].row EXCEPT !.role = "admin", !.kyc = "approved"]]

\* An entry is added to the audit trail.
Enters(p) ==
    /\ At(p, "audit") /\ Moves(p, Idle) /\ phase' = phase /\ Works
    /\ audits' = audits + 1
    /\ UNCHANGED <<clock, users, submitted, tokens, changes, expected, crossed, lastHeld, seeded>>

\* Tokens are minted.
Mints(p) ==
    /\ At(p, "issue") /\ Moves(p, Idle) /\ phase' = phase /\ Works
    /\ tokens' = tokens \cup {mint(proc[p].id, proc[p].row.role, "access", AccessTTL),
                              mint(proc[p].id, proc[p].row.role, "refresh", RefreshTTL)}
    /\ UNCHANGED <<clock, users, audits, submitted, changes, expected, crossed, lastHeld, seeded>>

\* A handler gives up.
Quits(p) ==
    /\ ~ At(p, "idle") /\ Moves(p, Idle) /\ phase' = phase /\ UNCHANGED data
    /\ \/ Works /\ At(p, "save") /\ Conflicts(p)
       \/ Errs(p)

\* The server listens.
Opens ==
    /\ \/ phase = "down" /\ Registered(AdminEmail)
       \/ phase = "down" /\ seedFailed'
       \/ phase = "seeding" /\ At(Main, "idle")
    /\ phase' = "up" /\ Works /\ UNCHANGED <<data, proc>>

\* The process ends.
Ends ==
    /\ phase' = "down" /\ UNCHANGED data /\ proc' = [p \in Procs |-> Idle]
    /\ \/ Works /\ AllIdle /\ phase = "up"
       \/ Fails /\ (phase = "seeding" => seedFailed')

Passes ==
    /\ Works /\ UNCHANGED <<phase, proc, users, audits, submitted, changes, expected, crossed, seeded>>
    /\ ~ \E t \in Threads : At(t, "issue")
    /\ clock' = clock + 1
    /\ tokens' \subseteq tokens
    /\ lastHeld' = Held(users, clock')

Kind ==
    \/ \E p \in Procs : \/ \E j \in Locals : Starts(p, j) \/ Anchors(p, j) \/ Saves(p, j)
                        \/ Enters(p) \/ Mints(p) \/ Quits(p)
    \/ Opens \/ Ends \/ Passes
    \/ Works /\ UNCHANGED <<data, phase, proc>>

\* A process at rest.
LEMMA IdleOK == Idle \in Locals /\ \A p \in Procs : LocalOK(p, Idle)
  BY DEF Idle, Locals, Labels, Fields, LocalOK

\* The start of Register.
LEMMA RegisterKind ==
  ASSUME TypeOK, NEW p \in Procs, NEW e \in Emails, NEW id \in Ids, At(p, "idle"),
         StartRegister(p, e, id), UNCHANGED data,
         IF p = Main THEN phase = "down" /\ phase' = "seeding" ELSE phase = "up" /\ phase' = "up"
  PROVE  \E j \in Locals : Starts(p, j)
<1>1. PICK j : j = [pc |-> "anchor", id |-> id, row |-> New(e), field |-> "all"]
  OBVIOUS
<1>2. New(e) \in Rows
  BY DEF New, Rows, Roles
<1>3. j \in Locals /\ LocalOK(p, j) /\ j.pc = "anchor" /\ j.id = id
  BY <1>1, <1>2 DEF Locals, Labels, Fields, LocalOK
<1>4. Moves(p, j) /\ (Works \/ Fails) /\ ~ Exists(id) /\ id \notin submitted /\ \A q \in Procs : proc[q].id # id
  BY <1>1 DEF StartRegister, Moves, Works, Fails, Fail
<1>5. Starts(p, j)
  BY <1>3, <1>4 DEF Starts
<1> QED
  BY <1>3, <1>5

\* The start of a handler that changes a field of a row.
LEMMA EditKind ==
  ASSUME TypeOK, NEW t \in Threads, NEW id \in Ids, NEW f \in Editable, NEW v, Edit(t, id, f, v),
         \A row \in Rows : [row EXCEPT ![f] = v] \in Rows
  PROVE  \E j \in Locals : Starts(t, j)
<1>1. PICK j : j = [pc |-> "write", id |-> id, field |-> f, row |-> [users[id] EXCEPT ![f] = v]]
  OBVIOUS
<1>2. users[id] \in Rows /\ t # Main /\ t \in Procs
  BY ProcsAssumption DEF TypeOK, Edit, Exists, Procs
<1>3. [users[id] EXCEPT ![f] = v] \in Rows
  BY <1>2
<1>4. j \in Locals /\ LocalOK(t, j) /\ j.pc = "write" /\ j.id = id /\ j.field = f
  BY <1>1, <1>2, <1>3 DEF Locals, Labels, Fields, LocalOK, Editable
<1>5. j.row = [users[id] EXCEPT ![f] = j.row[f]]
  BY <1>1, <1>2 DEF Rows, Editable, Audited
<1>6. /\ At(t, "idle") /\ Moves(t, j) /\ UNCHANGED data /\ Works /\ phase = "up" /\ phase' = "up"
      /\ Exists(id)
  BY <1>1 DEF Edit, Request, Moves, Works, data, store, history
<1>7. Starts(t, j)
  BY <1>2, <1>4, <1>5, <1>6 DEF Starts
<1> QED
  BY <1>4, <1>7

\* The start of Login and Refresh.
LEMMA IssueKind ==
  ASSUME TypeOK, NEW t \in Threads, NEW id \in Ids, Request(t), Exists(id), Issuing(t, id)
  PROVE  \E j \in Locals : Starts(t, j)
<1>1. PICK j : j = [pc |-> "issue", id |-> id, field |-> "none", row |-> users[id]]
  OBVIOUS
<1>2. users[id] \in Rows /\ t # Main /\ t \in Procs
  BY ProcsAssumption DEF TypeOK, Exists, Procs
<1>3. j \in Locals /\ LocalOK(t, j) /\ j.pc = "issue" /\ j.id = id /\ j.row = users[id]
  BY <1>1, <1>2 DEF Locals, Labels, Fields, LocalOK
<1>4. /\ At(t, "idle") /\ Moves(t, j) /\ UNCHANGED data /\ Works /\ phase = "up" /\ phase' = "up"
      /\ users[id].status = "active"
  BY <1>1 DEF Issuing, Request, Moves, Works, data, store, history
<1>5. Starts(t, j)
  BY <1>2, <1>3, <1>4 DEF Starts
<1> QED
  BY <1>3, <1>5

\* The handlers.
LEMMA HandlerKind ==
  ASSUME TypeOK, NEW t \in Threads, Handler(t)
  PROVE  Kind
<1>0. t \in Procs /\ t # Main
  BY ProcsAssumption DEF Procs
<1>1. ASSUME NEW e \in Emails, NEW id \in Ids, Register(t, e, id) PROVE Kind
  <2>1. At(t, "idle") /\ StartRegister(t, e, id) /\ UNCHANGED data /\ phase = "up" /\ phase' = "up"
    BY <1>1 DEF Register, Request, data, store, history
  <2> QED
    BY <1>0, <2>1, RegisterKind DEF Kind
<1>2. ASSUME NEW id \in Ids, Login(t, id) PROVE Kind
  BY <1>0, <1>2, IssueKind DEF Login, Kind
<1>3. ASSUME NEW id \in Ids, UpdateProfile(t, id, "second") PROVE Kind
  <2>1. \A row \in Rows : [row EXCEPT !["name"] = "second"] \in Rows
    BY DEF Rows
  <2>2. "name" \in Editable /\ Edit(t, id, "name", "second")
    BY <1>3 DEF UpdateProfile, Editable
  <2> QED
    BY <1>0, <2>1, <2>2, EditKind DEF Kind
<1>4. ASSUME NEW id \in Ids, NEW v \in {"approved", "rejected"}, DecideKYC(t, id, v) PROVE Kind
  <2>1. \A row \in Rows : [row EXCEPT !["kyc"] = v] \in Rows
    BY DEF Rows
  <2>2. "kyc" \in Editable /\ Edit(t, id, "kyc", v)
    BY <1>4 DEF DecideKYC, Editable, Audited
  <2> QED
    BY <1>0, <2>1, <2>2, EditKind DEF Kind
<1>5. ASSUME NEW id \in Ids, NEW v \in Roles, SetUserRole(t, id, v) PROVE Kind
  <2>1. \A row \in Rows : [row EXCEPT !["role"] = v] \in Rows
    BY DEF Rows
  <2>2. "role" \in Editable /\ Edit(t, id, "role", v)
    BY <1>5 DEF SetUserRole, Editable, Audited
  <2> QED
    BY <1>0, <2>1, <2>2, EditKind DEF Kind
<1>6. ASSUME NEW id \in Ids, NEW v \in {"active", "suspended"}, SetUserStatus(t, id, v) PROVE Kind
  <2>1. \A row \in Rows : [row EXCEPT !["status"] = v] \in Rows
    BY DEF Rows
  <2>2. "status" \in Editable /\ Edit(t, id, "status", v)
    BY <1>6 DEF SetUserStatus, Editable, Audited
  <2> QED
    BY <1>0, <2>1, <2>2, EditKind DEF Kind
<1>7. ASSUME NEW k \in tokens, Refresh(t, k) PROVE Kind
  <2>1. k.sub \in Ids
    BY DEF TypeOK, Tokens
  <2> QED
    BY <1>0, <1>7, <2>1, IssueKind DEF Refresh, Kind
<1>8. CASE issueTokens(t)
  <2>1. Mints(t)
    BY <1>8 DEF issueTokens, Mints, Moves, Return, Works, outside, store, history
  <2> QED
    BY <1>0, <2>1 DEF Kind
<1> QED
  BY <1>1, <1>2, <1>3, <1>4, <1>5, <1>6, <1>7, <1>8 DEF Handler

\* The calls, and their failures.
LEMMA CallKind ==
  ASSUME TypeOK, NEW p \in Procs, Call(p) \/ CallError(p)
  PROVE  Kind
<1>0. proc[p] \in Locals /\ LocalOK(p, proc[p]) /\ Idle \in Locals
  BY IdleOK DEF TypeOK
<1>1. CASE RegisterIdentity(p)
  <2>1. PICK j : j = [proc[p] EXCEPT !.pc = "save"]
    OBVIOUS
  <2>2. j \in Locals
    BY <1>0, <2>1 DEF Locals, Labels
  <2>3. Anchors(p, j)
    BY <1>1, <2>1 DEF RegisterIdentity, Anchors, Moves, Goto, Works, outside, store, history
  <2> QED
    BY <2>2, <2>3 DEF Kind
<1>2. CASE At(p, "save") /\ SaveUserEffect(p) /\ UNCHANGED <<outside, submitted, tokens>> /\ p # Main /\ Return(p)
  <2>1. Saves(p, Idle)
    BY <1>2 DEF Saves, Moves, Return, Works, At, outside
  <2> QED
    BY <1>0, <2>1 DEF Kind
<1>3. CASE /\ At(p, "save") /\ SaveUserEffect(p) /\ UNCHANGED <<outside, submitted, tokens>> /\ p = Main
           /\ proc' = [proc EXCEPT ![p].pc = "write", ![p].field = "promote",
                                   ![p].row.role = "admin", ![p].row.kyc = "approved"]
  <2>1. PICK row : row = [proc[p].row EXCEPT !.role = "admin", !.kyc = "approved"]
    OBVIOUS
  <2>2. PICK j : j = [proc[p] EXCEPT !.pc = "write", !.field = "promote", !.row = row]
    OBVIOUS
  <2>3. proc[p].row \in Rows
    BY <1>0, <1>3 DEF LocalOK, At
  <2>4. row \in Rows
    BY <2>1, <2>3 DEF Rows, Roles
  <2>5. j \in Locals
    BY <1>0, <2>2, <2>4 DEF Locals, Labels, Fields
  <2>6. proc' = [proc EXCEPT ![p] = j]
    BY <1>0, <1>3, <2>1, <2>2, <2>3, ZenonT(60) DEF Locals, Rows
  <2>7. Saves(p, j)
    BY <1>3, <2>1, <2>2, <2>6 DEF Saves, Moves, Works, At, outside
  <2> QED
    BY <2>5, <2>7 DEF Kind
<1>4. CASE At(p, "save") /\ Conflicts(p) /\ Return(p) /\ UNCHANGED <<outside, submitted, tokens, store, history>>
  <2>1. Quits(p)
    BY <1>4 DEF Quits, Moves, Return, Works, At, outside, store, history, data
  <2> QED
    BY <2>1 DEF Kind
<1>5. CASE Write(p)
  <2>1. CASE proc[p].field \in Audited
    <3>1. PICK j : j = [proc[p] EXCEPT !.pc = "audit"]
      OBVIOUS
    <3>2. j \in Locals
      BY <1>0, <3>1 DEF Locals, Labels
    <3>3. Saves(p, j)
      BY <1>5, <2>1, <3>1 DEF Write, Saves, Moves, Goto, Works, At, Audited, outside
    <3> QED
      BY <3>2, <3>3 DEF Kind
  <2>2. CASE proc[p].field \notin Audited
    <3>1. Saves(p, Idle)
      BY <1>5, <2>2 DEF Write, Saves, Moves, Return, Works, At, Audited, outside
    <3> QED
      BY <1>0, <3>1 DEF Kind
  <2> QED
    BY <2>1, <2>2
<1>6. CASE Audit(p)
  <2>1. Enters(p)
    BY <1>6 DEF Audit, Enters, Moves, Return, Works, outside, history
  <2> QED
    BY <2>1 DEF Kind
<1>7. CASE CallError(p)
  <2>1. Errs(p) /\ Moves(p, Idle) /\ UNCHANGED <<clock, phase, tokens>> /\ ~ At(p, "idle")
    BY <1>7 DEF CallError, Fail, Errs, Fails, Moves, Return, At
  <2>2. CASE UNCHANGED <<store, submitted, history>>
    <3>1. Quits(p)
      BY <2>1, <2>2 DEF Quits, store, history, data
    <3> QED
      BY <3>1 DEF Kind
  <2>3. CASE At(p, "anchor") /\ AnchorEffect(p) /\ UNCHANGED <<store, history>>
    <3>1. Anchors(p, Idle)
      BY <2>1, <2>3 DEF Anchors, store, history
    <3> QED
      BY <1>0, <3>1 DEF Kind
  <2>4. CASE proc[p].pc \in {"save", "write"} /\ SaveUserEffect(p) /\ UNCHANGED submitted
    <3>1. Saves(p, Idle)
      BY <2>1, <2>4 DEF Saves
    <3> QED
      BY <1>0, <3>1 DEF Kind
  <2> QED
    BY <1>7, <2>2, <2>3, <2>4 DEF CallError
<1> QED
  BY <1>1, <1>2, <1>3, <1>4, <1>5, <1>6, <1>7 DEF Call, SaveNew

\* Every step is of one of the kinds.
LEMMA NextKind == TypeOK /\ [Next]_vars => Kind
<1> SUFFICES ASSUME TypeOK, [Next]_vars PROVE Kind
  OBVIOUS
<1>1. CASE UNCHANGED vars
  BY <1>1 DEF vars, outside, store, history, Kind, Works, data
<1>2. ASSUME NEW id \in Ids, SeedAdmin(id) PROVE Kind
  <2>1. phase = "down" /\ UNCHANGED data
    BY <1>2 DEF SeedAdmin, data, store, history
  <2>2. CASE (Registered(AdminEmail) \/ seedFailed') /\ phase' = "up" /\ UNCHANGED <<proc, failures>>
    <3>1. Opens
      BY <2>1, <2>2 DEF Opens, Works
    <3> QED
      BY <3>1 DEF Kind
  <2>3. CASE StartRegister(Main, AdminEmail, id) /\ phase' = "seeding"
    <3>1. Main \in Procs /\ At(Main, "idle")
      BY <2>1 DEF TypeOK, Procs
    <3> QED
      BY <2>1, <2>3, <3>1, EmailsAssumption, RegisterKind DEF Kind
  <2> QED
    BY <1>2, <2>2, <2>3 DEF SeedAdmin
<1>3. CASE Listen
  <2>1. Opens
    BY <1>3 DEF Listen, Opens, Works, data, store, history
  <2> QED
    BY <2>1 DEF Kind
<1>4. CASE Crash \/ Restart
  <2>1. PICK fails : Down(fails) /\ (fails = 1 \/ (fails = 0 /\ AllIdle /\ phase = "up"))
    BY <1>4 DEF Crash, Restart
  <2>2. /\ phase' = "down" /\ UNCHANGED data /\ proc' = [p \in Procs |-> Idle]
        /\ failures' = failures + fails
    BY <2>1 DEF Down, data, store, history
  <2>3. phase = "seeding" => seedFailed'
    BY <2>1 DEF Down
  <2>4. failures \in Nat
    BY DEF TypeOK
  <2>5. Ends
    BY <2>1, <2>2, <2>3, <2>4 DEF Ends, Works, Fails
  <2> QED
    BY <2>5 DEF Kind
<1>5. CASE Tick
  <2>1. Passes
    BY <1>5 DEF Tick, Passes, Works, store, history
  <2> QED
    BY <2>1 DEF Kind
<1> QED
  BY <1>1, <1>2, <1>3, <1>4, <1>5, HandlerKind, CallKind DEF Next

-----------------------------------------------------------------------------
(* Type correctness *)

\* That SeedAdmin has failed is true or not, and once true stays so.
LEMMA FlagStep ==
  ASSUME seedFailed \in BOOLEAN, [Next]_vars
  PROVE  seedFailed' \in BOOLEAN /\ (seedFailed => seedFailed')
<1>1. ASSUME NEW t \in Threads, Handler(t) PROVE seedFailed' = seedFailed
  BY <1>1 DEF Handler, Register, Login, UpdateProfile, DecideKYC, SetUserRole, SetUserStatus, Edit, Refresh,
              Request, issueTokens, outside
<1>2. ASSUME NEW p \in Procs, Call(p) PROVE seedFailed' = seedFailed
  BY <1>2 DEF Call, RegisterIdentity, SaveNew, Write, Audit, outside
<1>3. ASSUME NEW p \in Procs, CallError(p) PROVE seedFailed' = (seedFailed \/ p = Main)
  BY <1>3 DEF CallError
<1>4. ASSUME NEW id \in Ids, SeedAdmin(id) PROVE seedFailed' = seedFailed \/ seedFailed' = TRUE
  BY <1>4 DEF SeedAdmin
<1>5. CASE Listen \/ Tick \/ UNCHANGED vars
  <2>1. seedFailed' = seedFailed
    BY <1>5 DEF Listen, Tick, vars, outside
  <2> QED
    BY <2>1
<1>6. CASE Crash \/ Restart
  <2>1. seedFailed' = (seedFailed \/ phase = "seeding")
    BY <1>6 DEF Crash, Restart, Down
  <2> QED
    BY <2>1
<1> QED
  BY <1>1, <1>2, <1>3, <1>4, <1>5, <1>6 DEF Next

\* Initially every variable has its type.
LEMMA TypeInit == Init => TypeOK
<1> SUFFICES ASSUME Init PROVE TypeOK
  OBVIOUS
<1>1. proc \in [Procs -> Locals] /\ \A p \in Procs : LocalOK(p, proc[p]) /\ At(p, "idle")
  BY IdleOK DEF Init, At, Idle
<1>2. Main \in Procs /\ Threads \subseteq Procs
  BY DEF Procs
<1>3. users \in [Ids -> Rows \cup {NoRow}] /\ expected = [id \in Ids |-> expected[id]]
  BY DEF Init
<1>4. lastHeld \in [Ids -> [Roles -> Int]]
  <2>1. -1 \in Int
    OBVIOUS
  <2>2. [r \in Roles |-> -1] \in [Roles -> Int]
    BY <2>1
  <2> QED
    BY <2>2 DEF Init
<1>5. clock \in Nat /\ failures \in Nat /\ audits \in Nat /\ changes \in Nat /\ seeded \in BOOLEAN
      /\ seedFailed \in BOOLEAN
  BY DEF Init
<1>6. submitted \in SUBSET Ids /\ crossed \in SUBSET Ids /\ tokens \in SUBSET Tokens /\ phase = "down"
  BY DEF Init
<1> QED
  BY <1>1, <1>2, <1>3, <1>4, <1>5, <1>6 DEF TypeOK

\* A process moves and the others stay.
LEMMA MoveFacts ==
  ASSUME TypeOK, NEW p \in Procs, NEW j \in Locals, Moves(p, j), LocalOK(p, j)
  PROVE  /\ proc' \in [Procs -> Locals] /\ \A q \in Procs : LocalOK(q, proc'[q])
         /\ proc'[p] = j /\ \A q \in Procs \ {p} : proc'[q] = proc[q]
  BY DEF TypeOK, Moves

\* When accounts were last active stays a table of times.
LEMMA HeldType ==
  ASSUME NEW rows, NEW now \in Int, lastHeld \in [Ids -> [Roles -> Int]]
  PROVE  Held(rows, now) \in [Ids -> [Roles -> Int]]
  BY DEF Held

\* What a write leaves.
LEMMA SaveTypes ==
  ASSUME TypeOK, NEW p \in Procs, proc[p].pc \in {"save", "write"}, SaveUserEffect(p)
  PROVE  /\ users' \in [Ids -> Rows \cup {NoRow}] /\ crossed' \in SUBSET Ids /\ changes' \in Nat
         /\ lastHeld' \in [Ids -> [Roles -> Int]] /\ seeded' \in BOOLEAN /\ audits' = audits
         /\ users' = [users EXCEPT ![proc[p].id] = proc[p].row]
<1>1. proc[p].id \in Ids /\ proc[p].row \in Rows
  BY DEF TypeOK, LocalOK
<1>2. users' = [users EXCEPT ![proc[p].id] = proc[p].row]
  BY DEF SaveUserEffect
<1>3. lastHeld' \in [Ids -> [Roles -> Int]]
  BY HeldType DEF SaveUserEffect, TypeOK
<1>4. crossed' \in SUBSET Ids
  BY <1>1 DEF SaveUserEffect, TypeOK
<1>5. changes' \in Nat /\ audits' = audits
  BY DEF SaveUserEffect, TypeOK
<1>6. seeded' \in BOOLEAN
  BY DEF SaveUserEffect
<1>7. users' \in [Ids -> Rows \cup {NoRow}]
  BY <1>1, <1>2 DEF TypeOK
<1> QED
  BY <1>2, <1>3, <1>4, <1>5, <1>6, <1>7

\* Every step keeps the types.
LEMMA TypeStep == TypeOK /\ [Next]_vars => TypeOK'
<1> SUFFICES ASSUME TypeOK, Kind, seedFailed' \in BOOLEAN PROVE TypeOK'
  BY NextKind, FlagStep DEF TypeOK
<1>0. Main \in Procs /\ Threads \subseteq Procs /\ \A q \in Procs : q = Main \/ q \in Threads
  BY DEF Procs
<1>1. ASSUME NEW p \in Procs, NEW j \in Locals, Starts(p, j) PROVE TypeOK'
  <2>1. Moves(p, j) /\ LocalOK(p, j)
    BY <1>1 DEF Starts
  <2>2. /\ proc' \in [Procs -> Locals] /\ \A q \in Procs : LocalOK(q, proc'[q])
        /\ \A q \in Procs \ {p} : proc'[q] = proc[q]
    BY <2>1, MoveFacts
  <2>3. /\ phase' \in {"down", "seeding", "up"} /\ failures' \in Nat /\ UNCHANGED data
        /\ IF p = Main THEN phase = "down" /\ phase' = "seeding" ELSE phase = "up" /\ phase' = "up"
    BY <1>1 DEF Starts, Works, Fails, TypeOK
  <2>4. (phase # "seeding" => At(Main, "idle"))' /\ (phase # "up" => \A t \in Threads : At(t, "idle"))'
    BY <1>0, <2>2, <2>3, ProcsAssumption DEF TypeOK, At
  <2> QED
    BY <2>2, <2>3, <2>4 DEF TypeOK, data
<1>2. ASSUME NEW p \in Procs, NEW j \in Locals, ~ At(p, "idle"), Moves(p, j), LocalOK(p, j),
             phase' = phase, Works \/ Fails
      PROVE  /\ proc' \in [Procs -> Locals] /\ \A q \in Procs : LocalOK(q, proc'[q])
             /\ phase' \in {"down", "seeding", "up"} /\ failures' \in Nat
             /\ (phase # "seeding" => At(Main, "idle"))' /\ (phase # "up" => \A t \in Threads : At(t, "idle"))'
  <2>1. /\ proc' \in [Procs -> Locals] /\ \A q \in Procs : LocalOK(q, proc'[q])
        /\ \A q \in Procs \ {p} : proc'[q] = proc[q]
    BY <1>2, MoveFacts
  <2>2. phase' \in {"down", "seeding", "up"} /\ failures' \in Nat
    BY <1>2 DEF TypeOK, Works, Fails
  <2>3. (phase # "seeding" => At(Main, "idle"))' /\ (phase # "up" => \A t \in Threads : At(t, "idle"))'
    BY <1>0, <1>2, <2>1 DEF TypeOK, At
  <2> QED
    BY <2>1, <2>2, <2>3
<1>3. ASSUME NEW p \in Procs, NEW j \in Locals, Anchors(p, j) PROVE TypeOK'
  <2>1. /\ ~ At(p, "idle") /\ Moves(p, j) /\ phase' = phase /\ (Works \/ Fails) /\ proc[p].id \in Ids
        /\ LocalOK(p, j)
    BY <1>3, IdleOK DEF Anchors, At, LocalOK, TypeOK, Locals, Errs
  <2>2. submitted' \in SUBSET Ids
    BY <1>3, <2>1 DEF Anchors, AnchorEffect, TypeOK
  <2> QED
    BY <1>2, <1>3, <2>1, <2>2 DEF TypeOK, Anchors
<1>4. ASSUME NEW p \in Procs, NEW j \in Locals, Saves(p, j) PROVE TypeOK'
  <2>1. proc[p].pc \in {"save", "write"} /\ SaveUserEffect(p) /\ ~ At(p, "idle") /\ Moves(p, j) /\ phase' = phase
    BY <1>4 DEF Saves, At
  <2>2. LocalOK(p, j)
    <3>1. proc[p] \in Locals /\ LocalOK(p, proc[p]) /\ proc[p].row \in Rows
      BY <2>1 DEF TypeOK, LocalOK
    <3>2. CASE j = Idle
      BY <3>2, IdleOK
    <3>3. CASE j = [proc[p] EXCEPT !.pc = "audit"] /\ At(p, "write") /\ proc[p].field \in Audited
      BY <3>1, <3>3 DEF LocalOK, Locals, At, Audited
    <3>4. CASE p = Main /\ At(p, "save")
               /\ j = [proc[p] EXCEPT !.pc = "write", !.field = "promote",
                                      !.row = [proc[p].row EXCEPT !.role = "admin", !.kyc = "approved"]]
      <4>1. PICK row : row = [proc[p].row EXCEPT !.role = "admin", !.kyc = "approved"]
        OBVIOUS
      <4>2. row \in Rows
        BY <3>1, <4>1 DEF Rows, Roles
      <4> QED
        BY <3>1, <3>4, <4>1, <4>2 DEF LocalOK, Locals, At
    <3> QED
      BY <1>4, <3>2, <3>3, <3>4 DEF Saves
  <2>3. expected' = [id \in Ids |-> expected'[id]]
    BY <2>1 DEF TypeOK, SaveUserEffect
  <2>4. Works \/ Fails
    BY <1>4 DEF Saves, Errs
  <2> QED
    BY <1>2, <1>4, <2>1, <2>2, <2>3, <2>4, SaveTypes DEF TypeOK, Saves
<1>5. ASSUME NEW p \in Procs, Enters(p) PROVE TypeOK'
  <2>1. ~ At(p, "idle") /\ Moves(p, Idle) /\ phase' = phase /\ Works /\ audits' \in Nat
    BY <1>5 DEF Enters, At, TypeOK
  <2> QED
    BY <1>2, <1>5, <2>1, IdleOK DEF TypeOK, Enters
<1>6. ASSUME NEW p \in Procs, Mints(p) PROVE TypeOK'
  <2>1. ~ At(p, "idle") /\ Moves(p, Idle) /\ phase' = phase /\ Works
    BY <1>6 DEF Mints, At
  <2>2. proc[p].id \in Ids /\ proc[p].row.role \in Roles
    BY <1>6 DEF Mints, At, TypeOK, LocalOK, Rows
  <2>3. tokens' \in SUBSET Tokens
    BY <1>6, <2>2, TTLAssumption DEF Mints, mint, Tokens, TypeOK
  <2> QED
    BY <1>2, <1>6, <2>1, <2>3, IdleOK DEF TypeOK, Mints
<1>7. ASSUME NEW p \in Procs, Quits(p) PROVE TypeOK'
  <2>1. ~ At(p, "idle") /\ Moves(p, Idle) /\ phase' = phase /\ (Works \/ Fails) /\ UNCHANGED data
    BY <1>7 DEF Quits, Errs
  <2> QED
    BY <1>2, <2>1, IdleOK DEF TypeOK, data
<1>8. CASE Opens
  BY <1>8 DEF Opens, Works, data, TypeOK, At
<1>9. CASE Ends
  <2>1. proc' = [p \in Procs |-> Idle]
    BY <1>9 DEF Ends
  <2>2. proc' \in [Procs -> Locals] /\ \A q \in Procs : LocalOK(q, proc'[q]) /\ proc'[q].pc = "idle"
    BY <2>1, IdleOK DEF Idle
  <2>3. failures' \in Nat /\ phase' = "down" /\ UNCHANGED data
    BY <1>9 DEF Ends, Works, Fails, TypeOK
  <2> QED
    BY <1>0, <2>2, <2>3 DEF TypeOK, data, At
<1>10. CASE Passes
  <2>1. clock' \in Nat /\ tokens' \in SUBSET Tokens
    BY <1>10 DEF Passes, TypeOK
  <2>2. lastHeld' \in [Ids -> [Roles -> Int]]
    BY <1>10, <2>1, HeldType DEF Passes, TypeOK
  <2> QED
    BY <1>10, <2>1, <2>2 DEF Passes, Works, TypeOK, At
<1>11. CASE Works /\ UNCHANGED <<data, phase, proc>>
  BY <1>11 DEF Works, data, TypeOK, At
<1> QED
  BY <1>1, <1>3, <1>4, <1>5, <1>6, <1>7, <1>8, <1>9, <1>10, <1>11 DEF Kind

\* Every variable has its type, whatever overlaps, fails or crashes; requests are
\* served only while the server is up and SeedAdmin runs only while it is not.
THEOREM TypeCorrect == Spec => []TypeOK
  BY TypeInit, TypeStep, PTL DEF Spec
-----------------------------------------------------------------------------
(* One account per email *)

\* What a process may rely on at each call: an account to be created is its own, and
\* an account to be changed exists.
Standing(p) ==
    /\ proc[p].pc \in {"anchor", "save"} =>
         ~ Exists(proc[p].id) /\ \A q \in Procs \ {p} : proc[q].id # proc[p].id
    /\ At(p, "save") => proc[p].id \in submitted
    /\ At(p, "write") => Exists(proc[p].id)

AccountsInv == OneAccountPerEmail /\ \A p \in Procs : Standing(p)

\* Initially there is no account and nobody creates one.
LEMMA AccountsInit == Init => AccountsInv
  BY DEF Init, AccountsInv, OneAccountPerEmail, Standing, Exists, At, Idle

\* A process that becomes idle disturbs no one.
LEMMA RestKeepsStanding ==
  ASSUME TypeOK, AccountsInv, NEW p \in Procs, Moves(p, Idle), users' = users, submitted \subseteq submitted'
  PROVE  AccountsInv'
<1>1. proc'[p] = Idle /\ \A q \in Procs \ {p} : proc'[q] = proc[q]
  BY DEF TypeOK, Moves
<1>2. ASSUME NEW q \in Procs PROVE Standing(q)'
  <2>1. CASE q = p
    BY <1>1, <2>1 DEF Standing, At, Idle
  <2>2. CASE q # p
    <3>1. proc'[q] = proc[q] /\ Standing(q) /\ (proc[q].pc # "idle" => proc[q].id \in Ids)
      BY <1>1, <2>2 DEF AccountsInv, TypeOK, LocalOK
    <3>2. Idle.id = NoId
      BY DEF Idle
    <3> QED
      BY <1>1, <3>1, <3>2, IdsAssumption DEF Standing, At, Exists
  <2> QED
    BY <2>1, <2>2
<1>3. OneAccountPerEmail'
  BY DEF AccountsInv, OneAccountPerEmail, Exists
<1> QED
  BY <1>2, <1>3 DEF AccountsInv

\* A write adds an account whose email no other one has, or changes one.
LEMMA SaveKeepsAccounts ==
  ASSUME TypeOK, AccountsInv, NEW p \in Procs, NEW j \in Locals, Saves(p, j)
  PROVE  AccountsInv'
<1>1. PICK id \in Ids : id = proc[p].id
  BY DEF TypeOK, LocalOK, Saves
<1>2. PICK row \in Rows : row = proc[p].row
  BY DEF TypeOK, LocalOK, Saves
<1>3. users' = [users EXCEPT ![id] = row] /\ submitted' = submitted /\ proc' = [proc EXCEPT ![p] = j]
  BY <1>1, <1>2, SaveTypes DEF Saves, Moves
<1>4. /\ \A other \in Ids \ {id} : users[other].email # row.email /\ users'[other] = users[other]
      /\ users'[id] = row /\ row # NoRow
      /\ proc'[p] = j /\ \A q \in Procs \ {p} : proc'[q] = proc[q]
  BY <1>1, <1>2, <1>3, RowOrNone DEF Saves, SaveUserEffect, Conflicts, TypeOK
<1>5. id \in submitted
  BY <1>1 DEF Saves, AccountsInv, Standing, OneAccountPerEmail, At
<1>6. OneAccountPerEmail'
  BY <1>3, <1>4, <1>5 DEF OneAccountPerEmail, Exists, AccountsInv
<1>7. (j.id = NoId \/ j.id = id) /\ j.pc \in {"idle", "write", "audit"} /\ (j.pc = "write" => j.id = id)
  <2>1. proc[p] \in Locals
    BY DEF TypeOK
  <2>2. CASE j = Idle
    BY <2>2 DEF Idle
  <2>3. CASE j = [proc[p] EXCEPT !.pc = "audit"]
    BY <1>1, <2>1, <2>3 DEF Locals
  <2>4. ASSUME NEW new, j = [proc[p] EXCEPT !.pc = "write", !.field = "promote", !.row = new]
        PROVE  j.id = id /\ j.pc = "write"
    BY <1>1, <2>1, <2>4 DEF Locals
  <2> QED
    BY <2>2, <2>3, <2>4 DEF Saves
<1>8. Standing(p)'
  BY <1>4, <1>7 DEF Standing, Exists, At
<1>9. ASSUME NEW q \in Procs \ {p} PROVE Standing(q)'
  <2>1. proc'[q] = proc[q] /\ Standing(q) /\ Standing(p) /\ (proc[q].pc # "idle" => proc[q].id \in Ids)
    BY <1>4 DEF AccountsInv, TypeOK, LocalOK
  <2>2. proc[q].pc \in {"anchor", "save"} => proc[q].id # id
    BY <1>1, <2>1 DEF Standing
  <2>3. proc'[q].pc \in {"anchor", "save"} =>
          ~ Exists(proc[q].id)' /\ \A r \in Procs \ {q} : proc'[r].id # proc[q].id
    BY <1>4, <1>7, <2>1, <2>2, IdsAssumption DEF Standing, Exists
  <2>4. At(q, "write")' => Exists(proc[q].id)'
    BY <1>4, <2>1 DEF Standing, Exists, At
  <2> QED
    BY <1>3, <2>1, <2>3, <2>4 DEF Standing, At, Exists
<1> QED
  BY <1>6, <1>8, <1>9 DEF AccountsInv

\* Every step keeps one account per email.
LEMMA AccountsStep == TypeOK /\ AccountsInv /\ [Next]_vars => AccountsInv'
<1> SUFFICES ASSUME TypeOK, AccountsInv, Kind PROVE AccountsInv'
  BY NextKind
<1>1. ASSUME NEW p \in Procs, NEW j \in Locals, Starts(p, j) PROVE AccountsInv'
  <2>1. /\ users' = users /\ submitted' = submitted
        /\ proc'[p] = j /\ \A q \in Procs \ {p} : proc'[q] = proc[q]
    BY <1>1 DEF Starts, Moves, data, TypeOK
  <2>2. Standing(p)'
    BY <1>1, <2>1 DEF Starts, Standing, At, Exists
  <2>3. ASSUME NEW q \in Procs \ {p} PROVE Standing(q)'
    <3>1. proc'[q] = proc[q] /\ Standing(q)
      BY <2>1 DEF AccountsInv
    <3>2. proc[q].pc \in {"anchor", "save"} => j.id # proc[q].id
      BY <1>1, <3>1 DEF Starts, Standing
    <3> QED
      BY <2>1, <3>1, <3>2 DEF Standing, At, Exists
  <2>4. OneAccountPerEmail'
    BY <2>1 DEF AccountsInv, OneAccountPerEmail, Exists
  <2> QED
    BY <2>2, <2>3, <2>4 DEF AccountsInv
<1>2. ASSUME NEW p \in Procs, NEW j \in Locals, Anchors(p, j) PROVE AccountsInv'
  <2>1. CASE j = Idle
    BY <1>2, <2>1, RestKeepsStanding DEF Anchors, AnchorEffect
  <2>2. CASE j = [proc[p] EXCEPT !.pc = "save"]
    <3>1. j.id = proc[p].id /\ j.pc = "save" /\ At(p, "anchor")
      BY <1>2, <2>2 DEF TypeOK, Locals, Anchors
    <3>2. /\ users' = users /\ submitted' = submitted \cup {proc[p].id}
          /\ proc'[p] = j /\ \A q \in Procs \ {p} : proc'[q] = proc[q]
      BY <1>2 DEF Anchors, AnchorEffect, Moves, TypeOK
    <3>3. Standing(p)'
      BY <3>1, <3>2 DEF Standing, At, Exists, AccountsInv
    <3>4. ASSUME NEW q \in Procs \ {p} PROVE Standing(q)'
      BY <3>1, <3>2 DEF Standing, At, Exists, AccountsInv
    <3>5. OneAccountPerEmail'
      BY <3>2 DEF AccountsInv, OneAccountPerEmail, Exists
    <3> QED
      BY <3>3, <3>4, <3>5 DEF AccountsInv
  <2> QED
    BY <1>2, <2>1, <2>2 DEF Anchors
<1>3. ASSUME NEW p \in Procs, NEW j \in Locals, Saves(p, j) PROVE AccountsInv'
  BY <1>3, SaveKeepsAccounts
<1>4. ASSUME NEW p \in Procs, Enters(p) \/ Mints(p) \/ Quits(p) PROVE AccountsInv'
  BY <1>4, RestKeepsStanding DEF Enters, Mints, Quits, data
<1>5. CASE Ends
  <2>1. users' = users /\ submitted' = submitted /\ \A p \in Procs : proc'[p] = Idle
    BY <1>5 DEF Ends, data
  <2> QED
    BY <2>1 DEF AccountsInv, OneAccountPerEmail, Standing, Exists, At, Idle
<1>6. CASE users' = users /\ submitted' = submitted /\ proc' = proc
  BY <1>6 DEF AccountsInv, OneAccountPerEmail, Standing, Exists, At
<1> QED
  BY <1>1, <1>2, <1>3, <1>4, <1>5, <1>6 DEF Kind, Opens, Passes, data

\* Whatever overlaps, fails or crashes, no two accounts have the same email, and no
\* account exists whose registration was not handed to the chain before.
THEOREM EmailsAreUnique == Spec => []OneAccountPerEmail
<1>1. Spec => [](TypeOK /\ AccountsInv)
  BY TypeInit, TypeStep, AccountsInit, AccountsStep, PTL DEF Spec
<1>2. AccountsInv => OneAccountPerEmail
  BY DEF AccountsInv
<1> QED
  BY <1>1, <1>2, PTL
-----------------------------------------------------------------------------
(* No lost update *)

\* A handler about to write has the row as it stands but for the field it changes,
\* unless the account was written since by another one that overlapped it.
Current(p) ==
    At(p, "write") /\ proc[p].field # "promote" /\ proc[p].id \notin crossed =>
        proc[p].row = [users[proc[p].id] EXCEPT ![proc[p].field] = proc[p].row[proc[p].field]]

UpdateInv == NoLostUpdate /\ \A p \in Procs : Current(p)

\* Initially there is nothing to write.
LEMMA UpdateInit == Init => UpdateInv
  BY DEF Init, UpdateInv, NoLostUpdate, Current, At, Idle

\* A process that does not go on to write disturbs no one.
LEMMA QuietKeepsCurrent ==
  ASSUME TypeOK, UpdateInv, NEW p \in Procs, NEW j \in Locals, Moves(p, j), j.pc # "write",
         UNCHANGED <<users, expected, crossed>>
  PROVE  UpdateInv'
<1>1. proc'[p] = j /\ \A q \in Procs \ {p} : proc'[q] = proc[q]
  BY DEF TypeOK, Moves
<1>2. ASSUME NEW q \in Procs PROVE Current(q)'
  <2>1. CASE q = p
    BY <1>1, <2>1 DEF Current, At
  <2>2. CASE q # p
    BY <1>1, <2>2 DEF Current, At, UpdateInv
  <2> QED
    BY <2>1, <2>2
<1>3. NoLostUpdate'
  BY DEF UpdateInv, NoLostUpdate
<1> QED
  BY <1>2, <1>3 DEF UpdateInv

\* A write that no other writer overlapped takes nothing back.
LEMMA SaveKeepsUpdates ==
  ASSUME TypeOK, AccountsInv, UpdateInv, NEW p \in Procs, NEW j \in Locals, Saves(p, j)
  PROVE  UpdateInv'
<1>1. PICK id \in Ids : id = proc[p].id
  BY DEF TypeOK, LocalOK, Saves
<1>2. PICK row \in Rows : row = proc[p].row
  BY DEF TypeOK, LocalOK, Saves
<1>3. PICK f : f = proc[p].field
  OBVIOUS
<1>4. /\ users' = [users EXCEPT ![id] = row] /\ proc' = [proc EXCEPT ![p] = j]
      /\ expected' = [expected EXCEPT ![id] = IF f \in {"all", "promote"} THEN row ELSE [@ EXCEPT ![f] = row[f]]]
      /\ crossed' = IF \E q \in Procs \ {p} : At(q, "write") /\ proc[q].id = id THEN crossed \cup {id} ELSE crossed
  BY <1>1, <1>2, <1>3 DEF Saves, SaveUserEffect, Moves
<1>5. /\ \A other \in Ids \ {id} : users'[other] = users[other] /\ expected'[other] = expected[other]
      /\ users'[id] = row
      /\ proc'[p] = j /\ \A q \in Procs \ {p} : proc'[q] = proc[q]
  BY <1>4 DEF TypeOK
<1>6. id \notin crossed' => expected'[id] = row
  <2> SUFFICES ASSUME id \notin crossed' PROVE expected'[id] = row
    OBVIOUS
  <2>1. id \notin crossed
    BY <1>4
  <2>2. CASE f \in {"all", "promote"}
    BY <1>4, <2>2 DEF TypeOK
  <2>3. CASE f \notin {"all", "promote"}
    <3>1. At(p, "write")
      BY <1>3, <2>3 DEF Saves, TypeOK, LocalOK, At
    <3>2. row = [users[id] EXCEPT ![f] = row[f]]
      BY <1>1, <1>2, <1>3, <2>1, <2>3, <3>1 DEF UpdateInv, Current
    <3>3. expected'[id] = [expected[id] EXCEPT ![f] = row[f]]
      BY <1>4, <2>3 DEF TypeOK
    <3>4. expected[id] = users[id]
      BY <2>1 DEF UpdateInv, NoLostUpdate
    <3> QED
      BY <3>2, <3>3, <3>4
  <2> QED
    BY <2>2, <2>3
<1>7. crossed \subseteq crossed'
  BY <1>4
<1>8. NoLostUpdate'
  BY <1>5, <1>6, <1>7 DEF UpdateInv, NoLostUpdate
<1>9. Current(p)'
  <2>1. j.pc # "write" \/ j.field = "promote"
    <3>1. proc[p] \in Locals
      BY DEF TypeOK
    <3>2. CASE j = Idle
      BY <3>2 DEF Idle
    <3>3. CASE j = [proc[p] EXCEPT !.pc = "audit"]
      BY <3>1, <3>3 DEF Locals
    <3>4. ASSUME NEW new, j = [proc[p] EXCEPT !.pc = "write", !.field = "promote", !.row = new]
          PROVE  j.field = "promote"
      BY <3>1, <3>4 DEF Locals
    <3> QED
      BY <3>2, <3>3, <3>4 DEF Saves
  <2> QED
    BY <1>5, <2>1 DEF Current, At
<1>10. ASSUME NEW q \in Procs \ {p} PROVE Current(q)'
  <2>1. proc'[q] = proc[q] /\ Current(q) /\ (At(q, "write") => proc[q].id \in Ids)
    BY <1>5 DEF UpdateInv, TypeOK, LocalOK, At
  <2>2. CASE At(q, "write") /\ proc[q].id = id
    <3>1. id \in crossed'
      BY <1>4, <2>2
    <3> QED
      BY <2>1, <2>2, <3>1 DEF Current
  <2>3. CASE ~ At(q, "write")
    BY <2>1, <2>3 DEF Current, At
  <2>4. CASE At(q, "write") /\ proc[q].id # id
    <3>1. users'[proc[q].id] = users[proc[q].id]
      BY <1>5, <2>1, <2>4
    <3> QED
      BY <1>7, <2>1, <2>4, <3>1 DEF Current, At
  <2> QED
    BY <2>2, <2>3, <2>4
<1> QED
  BY <1>8, <1>9, <1>10 DEF UpdateInv

\* Every step keeps the rows as they were last changed.
LEMMA UpdateStep == TypeOK /\ AccountsInv /\ UpdateInv /\ [Next]_vars => UpdateInv'
<1> SUFFICES ASSUME TypeOK, AccountsInv, UpdateInv, Kind PROVE UpdateInv'
  BY NextKind
<1>1. ASSUME NEW p \in Procs, NEW j \in Locals, Starts(p, j) PROVE UpdateInv'
  <2>1. Moves(p, j) /\ UNCHANGED <<users, expected, crossed>>
    BY <1>1 DEF Starts, data
  <2>2. CASE j.pc # "write"
    BY <2>1, <2>2, QuietKeepsCurrent
  <2>3. CASE j.pc = "write"
    <3>1. j.row = [users[j.id] EXCEPT ![j.field] = j.row[j.field]]
      BY <1>1, <2>3 DEF Starts
    <3>2. proc'[p] = j /\ \A q \in Procs \ {p} : proc'[q] = proc[q]
      BY <2>1 DEF Moves, TypeOK
    <3>3. Current(p)'
      BY <2>1, <3>1, <3>2 DEF Current
    <3>4. ASSUME NEW q \in Procs \ {p} PROVE Current(q)'
      BY <2>1, <3>2 DEF Current, At, UpdateInv
    <3>5. NoLostUpdate'
      BY <2>1 DEF UpdateInv, NoLostUpdate
    <3> QED
      BY <3>3, <3>4, <3>5 DEF UpdateInv
  <2> QED
    BY <2>2, <2>3
<1>2. ASSUME NEW p \in Procs, NEW j \in Locals, Anchors(p, j) PROVE UpdateInv'
  <2>1. Moves(p, j) /\ UNCHANGED <<users, expected, crossed>>
    BY <1>2 DEF Anchors
  <2>2. j.pc # "write"
    BY <1>2 DEF Anchors, Idle, TypeOK, Locals
  <2> QED
    BY <2>1, <2>2, QuietKeepsCurrent
<1>3. ASSUME NEW p \in Procs, NEW j \in Locals, Saves(p, j) PROVE UpdateInv'
  BY <1>3, SaveKeepsUpdates
<1>4. ASSUME NEW p \in Procs, Enters(p) \/ Mints(p) \/ Quits(p) PROVE UpdateInv'
  <2>1. Moves(p, Idle) /\ UNCHANGED <<users, expected, crossed>>
    BY <1>4 DEF Enters, Mints, Quits, data
  <2>2. Idle.pc # "write"
    BY DEF Idle
  <2> QED
    BY <2>1, <2>2, IdleOK, QuietKeepsCurrent
<1>5. CASE Ends
  <2>1. UNCHANGED <<users, expected, crossed>> /\ \A p \in Procs : proc'[p] = Idle
    BY <1>5 DEF Ends, data
  <2> QED
    BY <2>1 DEF UpdateInv, NoLostUpdate, Current, At, Idle
<1>6. CASE UNCHANGED <<users, expected, crossed, proc>>
  BY <1>6 DEF UpdateInv, NoLostUpdate, Current, At
<1> QED
  BY <1>1, <1>2, <1>3, <1>4, <1>5, <1>6 DEF Kind, Opens, Passes, data

\* An account that no two overlapping handlers wrote has every field as it was last
\* changed: the read, the change and the write of the whole row lose nothing there.
THEOREM UpdatesAreKept == Spec => []NoLostUpdate
<1>1. Spec => [](TypeOK /\ AccountsInv /\ UpdateInv)
  BY TypeInit, TypeStep, AccountsInit, AccountsStep, UpdateInit, UpdateStep, PTL DEF Spec
<1>2. UpdateInv => NoLostUpdate
  BY DEF UpdateInv
<1> QED
  BY <1>1, <1>2, PTL

-----------------------------------------------------------------------------
(* Authority lapses *)

\* No account was seen active in the future, an active one is seen so now, and so is
\* one for which tokens are about to be minted, in the role they will say.
HeldNow ==
    /\ \A id \in Ids, r \in Roles : lastHeld[id][r] <= clock
    /\ \A id \in Ids : Exists(id) /\ users[id].status = "active" => lastHeld[id][users[id].role] = clock
    /\ \A p \in Procs : At(p, "issue") => lastHeld[proc[p].id][proc[p].row.role] = clock

LapseInv == AuthorityLapses /\ HeldNow

\* Initially nobody was ever active and there is no token.
LEMMA LapseInit == Init => LapseInv
<1> SUFFICES ASSUME Init PROVE LapseInv
  OBVIOUS
<1>1. AuthorityLapses
  BY DEF Init, AuthorityLapses
<1>2. \A id \in Ids, r \in Roles : lastHeld[id][r] <= clock
  BY DEF Init
<1>3. \A p \in Procs : ~ At(p, "issue")
  BY DEF Init, At, Idle
<1>4. \A id \in Ids : ~ Exists(id)
  BY DEF Init, Exists
<1> QED
  BY <1>1, <1>2, <1>3, <1>4 DEF LapseInv, HeldNow

\* What Held records.
LEMMA HeldFacts ==
  ASSUME TypeOK, NEW rows \in [Ids -> Rows \cup {NoRow}], NEW now \in Nat,
         \A id \in Ids, r \in Roles : lastHeld[id][r] <= now
  PROVE  /\ \A id \in Ids, r \in Roles :
              lastHeld[id][r] <= Held(rows, now)[id][r] /\ Held(rows, now)[id][r] <= now
         /\ \A id \in Ids : rows[id] # NoRow /\ rows[id].status = "active" =>
              Held(rows, now)[id][rows[id].role] = now
<1>1. \A id \in Ids, r \in Roles : lastHeld[id][r] \in Int
  BY DEF TypeOK
<1>2. \A id \in Ids : rows[id] # NoRow => rows[id].role \in Roles
  BY DEF Rows
<1>3. \A id \in Ids, r \in Roles : Held(rows, now)[id][r] =
        IF rows[id] # NoRow /\ rows[id].status = "active" /\ rows[id].role = r THEN now ELSE lastHeld[id][r]
  BY DEF Held
<1> QED
  BY <1>1, <1>2, <1>3

\* A token stays within its lifetime as the times recorded grow.
LEMMA LapseGrows ==
  ASSUME TypeOK, TypeOK', AuthorityLapses, tokens' \subseteq tokens,
         \A id \in Ids, r \in Roles : lastHeld[id][r] <= lastHeld'[id][r]
  PROVE  AuthorityLapses'
<1> SUFFICES ASSUME NEW k \in tokens'
             PROVE  k.exp <= lastHeld'[k.sub][k.role] + (IF k.typ = "access" THEN AccessTTL ELSE RefreshTTL)
  BY DEF AuthorityLapses
<1>1. k \in tokens /\ k.sub \in Ids /\ k.role \in Roles /\ k.exp \in Int
  BY DEF TypeOK, Tokens
<1>2. k.exp <= lastHeld[k.sub][k.role] + (IF k.typ = "access" THEN AccessTTL ELSE RefreshTTL)
  BY <1>1 DEF AuthorityLapses
<1>3. lastHeld[k.sub][k.role] \in Int /\ lastHeld'[k.sub][k.role] \in Int
  BY <1>1 DEF TypeOK
<1> QED
  BY <1>1, <1>2, <1>3, TTLAssumption

\* A process at rest, or one that does not mint, changes nothing here.
LEMMA QuietKeepsLapse ==
  ASSUME TypeOK, LapseInv, NEW p \in Procs, NEW j, Moves(p, j), j.pc # "issue",
         UNCHANGED <<clock, users, tokens, lastHeld>>
  PROVE  LapseInv'
<1>1. proc'[p] = j /\ \A q \in Procs \ {p} : proc'[q] = proc[q]
  BY DEF TypeOK, Moves
<1>2. \A q \in Procs : At(q, "issue")' => At(q, "issue") /\ proc'[q] = proc[q]
  BY <1>1 DEF At
<1> QED
  BY <1>2 DEF LapseInv, HeldNow, AuthorityLapses, Exists, At

\* Every step keeps the tokens within their lifetimes.
LEMMA LapseStep == TypeOK /\ TypeOK' /\ LapseInv /\ [Next]_vars => LapseInv'
<1> SUFFICES ASSUME TypeOK, TypeOK', LapseInv, Kind PROVE LapseInv'
  BY NextKind
<1>1. ASSUME NEW p \in Procs, NEW j \in Locals, Starts(p, j) PROVE LapseInv'
  <2>1. Moves(p, j) /\ UNCHANGED <<clock, users, tokens, lastHeld>>
    BY <1>1 DEF Starts, data
  <2>2. CASE j.pc # "issue"
    BY <2>1, <2>2, QuietKeepsLapse
  <2>3. CASE j.pc = "issue"
    <3>1. j.id \in Ids /\ Exists(j.id) /\ j.row = users[j.id] /\ j.row.status = "active"
      BY <1>1, <2>3 DEF Starts, LocalOK
    <3>2. lastHeld[j.id][j.row.role] = clock
      BY <3>1 DEF LapseInv, HeldNow
    <3>3. proc'[p] = j /\ \A q \in Procs \ {p} : proc'[q] = proc[q]
      BY <2>1 DEF Moves, TypeOK
    <3>4. \A q \in Procs : At(q, "issue")' => lastHeld[proc'[q].id][proc'[q].row.role] = clock
      BY <3>2, <3>3 DEF LapseInv, HeldNow, At
    <3> QED
      BY <2>1, <3>4 DEF LapseInv, HeldNow, AuthorityLapses, Exists
  <2> QED
    BY <2>2, <2>3
<1>2. ASSUME NEW p \in Procs, NEW j \in Locals, Anchors(p, j) PROVE LapseInv'
  <2>1. j.pc # "issue"
    BY <1>2 DEF Anchors, Idle, TypeOK, Locals
  <2> QED
    BY <1>2, <2>1, QuietKeepsLapse DEF Anchors
<1>3. ASSUME NEW p \in Procs, NEW j \in Locals, Saves(p, j) PROVE LapseInv'
  <2>1. /\ users' \in [Ids -> Rows \cup {NoRow}] /\ lastHeld' = Held(users', clock)
        /\ clock' = clock /\ tokens' = tokens /\ clock \in Nat
    BY <1>3 DEF Saves, SaveUserEffect, TypeOK
  <2>2. /\ \A id \in Ids, r \in Roles : lastHeld[id][r] <= lastHeld'[id][r] /\ lastHeld'[id][r] <= clock
        /\ \A id \in Ids : users'[id] # NoRow /\ users'[id].status = "active" =>
             lastHeld'[id][users'[id].role] = clock
    BY <2>1, HeldFacts DEF LapseInv, HeldNow
  <2>3. AuthorityLapses'
    BY <2>1, <2>2, LapseGrows DEF LapseInv
  <2>4. ASSUME NEW q \in Procs, At(q, "issue")' PROVE lastHeld'[proc'[q].id][proc'[q].row.role] = clock
    <3>1. j.pc # "issue"
      <4>1. proc[p] \in Locals
        BY DEF TypeOK
      <4>2. CASE j = Idle
        BY <4>2 DEF Idle
      <4>3. CASE j = [proc[p] EXCEPT !.pc = "audit"]
        BY <4>1, <4>3 DEF Locals
      <4>4. ASSUME NEW new, j = [proc[p] EXCEPT !.pc = "write", !.field = "promote", !.row = new]
            PROVE  j.pc = "write"
        BY <4>1, <4>4 DEF Locals
      <4> QED
        BY <1>3, <4>2, <4>3, <4>4 DEF Saves
    <3>2. proc'[q] = proc[q] /\ At(q, "issue")
      BY <1>3, <2>4, <3>1 DEF Saves, Moves, TypeOK, At
    <3>3. PICK id \in Ids, r \in Roles : id = proc[q].id /\ r = proc[q].row.role
      BY <3>2 DEF TypeOK, LocalOK, At, Rows
    <3>4. lastHeld[id][r] = clock
      BY <3>2, <3>3 DEF LapseInv, HeldNow
    <3>5. lastHeld'[id][r] \in Int /\ clock <= lastHeld'[id][r] /\ lastHeld'[id][r] <= clock
      BY <2>2, <3>4 DEF TypeOK
    <3>6. lastHeld'[id][r] = clock
      BY <2>1, <3>5
    <3> QED
      BY <3>2, <3>3, <3>6
  <2> QED
    BY <2>1, <2>2, <2>3, <2>4 DEF LapseInv, HeldNow, Exists
<1>4. ASSUME NEW p \in Procs, Enters(p) \/ Quits(p) PROVE LapseInv'
  <2>1. Moves(p, Idle) /\ UNCHANGED <<clock, users, tokens, lastHeld>>
    BY <1>4 DEF Enters, Quits, data
  <2>2. Idle.pc # "issue"
    BY DEF Idle
  <2> QED
    BY <2>1, <2>2, QuietKeepsLapse
<1>5. ASSUME NEW p \in Procs, Mints(p) PROVE LapseInv'
  <2>1. UNCHANGED <<clock, users, lastHeld>> /\ proc'[p] = Idle /\ \A q \in Procs \ {p} : proc'[q] = proc[q]
    BY <1>5 DEF Mints, Moves, TypeOK
  <2>2. PICK id \in Ids, r \in Roles : id = proc[p].id /\ r = proc[p].row.role
    BY <1>5 DEF Mints, At, TypeOK, LocalOK, Rows
  <2>3. lastHeld[id][r] = clock
    BY <1>5, <2>2 DEF Mints, LapseInv, HeldNow
  <2>4. ASSUME NEW k \in tokens'
        PROVE  k.exp <= lastHeld[k.sub][k.role] + (IF k.typ = "access" THEN AccessTTL ELSE RefreshTTL)
    <3>1. CASE k \in tokens
      BY <3>1 DEF LapseInv, AuthorityLapses
    <3>2. CASE k = mint(id, r, "access", AccessTTL)
      BY <2>3, <3>2, TTLAssumption DEF mint, TypeOK
    <3>3. CASE k = mint(id, r, "refresh", RefreshTTL)
      BY <2>3, <3>3, TTLAssumption DEF mint, TypeOK
    <3> QED
      BY <1>5, <2>2, <3>1, <3>2, <3>3 DEF Mints
  <2>5. AuthorityLapses'
    BY <2>1, <2>4 DEF AuthorityLapses
  <2>6. \A q \in Procs : At(q, "issue")' => At(q, "issue") /\ proc'[q] = proc[q]
    BY <2>1 DEF At, Idle
  <2> QED
    BY <2>1, <2>5, <2>6 DEF LapseInv, HeldNow, Exists
<1>6. CASE Ends
  <2>1. UNCHANGED <<clock, users, tokens, lastHeld>> /\ \A p \in Procs : proc'[p].pc = "idle"
    BY <1>6 DEF Ends, data, Idle
  <2> QED
    BY <2>1 DEF LapseInv, HeldNow, AuthorityLapses, Exists, At
<1>7. CASE Passes
  <2>1. clock' = clock + 1 /\ clock \in Nat /\ tokens' \subseteq tokens /\ lastHeld' = Held(users, clock')
        /\ users' = users /\ proc' = proc /\ users \in [Ids -> Rows \cup {NoRow}]
    BY <1>7 DEF Passes, TypeOK
  <2>2. clock' \in Nat /\ \A id \in Ids, r \in Roles : lastHeld[id][r] <= clock'
    BY <2>1 DEF LapseInv, HeldNow, TypeOK
  <2>3. /\ \A id \in Ids, r \in Roles : lastHeld[id][r] <= lastHeld'[id][r] /\ lastHeld'[id][r] <= clock'
        /\ \A id \in Ids : users[id] # NoRow /\ users[id].status = "active" =>
             lastHeld'[id][users[id].role] = clock'
    BY <2>1, <2>2, HeldFacts
  <2>4. AuthorityLapses'
    BY <2>1, <2>3, LapseGrows DEF LapseInv
  <2>5. \A p \in Procs : ~ At(p, "issue")
    BY <1>7 DEF Passes, TypeOK, LocalOK, At, Procs
  <2> QED
    BY <2>1, <2>3, <2>4, <2>5 DEF LapseInv, HeldNow, Exists, At
<1>8. CASE UNCHANGED <<clock, users, tokens, lastHeld, proc>>
  BY <1>8 DEF LapseInv, HeldNow, AuthorityLapses, Exists, At
<1> QED
  BY <1>1, <1>2, <1>3, <1>4, <1>5, <1>6, <1>7, <1>8 DEF Kind, Opens, data

\* A token outlives the time its account was last active in the role it says by no
\* more than its own lifetime: a suspended or demoted account cannot refresh on.
THEOREM TokensLapse == Spec => []AuthorityLapses
<1>1. Spec => [](TypeOK /\ LapseInv)
  BY TypeInit, TypeStep, LapseInit, LapseStep, PTL DEF Spec
<1>2. LapseInv => AuthorityLapses
  BY DEF LapseInv
<1> QED
  BY <1>1, <1>2, PTL
-----------------------------------------------------------------------------
(* The audit trail *)

\* Handlers that have changed an account and not yet entered it in the audit trail.
Unaudited == {p \in Procs : At(p, "audit")}

AuditInv ==
    /\ audits + Cardinality(Unaudited) <= changes
    /\ changes <= audits + failures * Cardinality(Threads) + Cardinality(Unaudited)

\* Only requests are ever audited, so no more are in flight than there are threads.
LEMMA UnauditedBound ==
  ASSUME TypeOK
  PROVE  /\ Unaudited \subseteq Threads /\ IsFiniteSet(Unaudited) /\ Cardinality(Unaudited) \in Nat
         /\ Cardinality(Threads) \in Nat /\ Cardinality(Unaudited) <= Cardinality(Threads)
<1>1. Unaudited \subseteq Threads
  BY DEF TypeOK, LocalOK, Unaudited, At, Procs
<1> QED
  BY <1>1, ProcsAssumption, FS_Subset, FS_CardinalityType

\* A thread counts.
LEMMA ThreadCounts ==
  ASSUME NEW t \in Threads
  PROVE  Cardinality(Threads) \in Nat /\ Cardinality(Threads) >= 1
<1>1. Cardinality(Threads \ {t}) = Cardinality(Threads) - 1 /\ Cardinality(Threads) \in Nat
      /\ Cardinality(Threads \ {t}) \in Nat
  BY ProcsAssumption, FS_RemoveElement, FS_CardinalityType, FS_Subset
<1> QED
  BY <1>1

\* What each failure allows to be lost.
LEMMA Allowance ==
  ASSUME NEW f \in Nat, NEW n \in Nat
  PROVE  f * n \in Nat /\ (f + 1) * n = f * n + n
  OBVIOUS

\* The allowance grows with each failure and with nothing else.
LEMMA AllowanceGrows ==
  ASSUME TypeOK, Works \/ Fails
  PROVE  /\ failures * Cardinality(Threads) \in Nat /\ failures' * Cardinality(Threads) \in Nat
         /\ Works => failures' * Cardinality(Threads) = failures * Cardinality(Threads)
         /\ Fails => failures' * Cardinality(Threads) = failures * Cardinality(Threads) + Cardinality(Threads)
<1>1. PICK n \in Nat : n = Cardinality(Threads)
  BY UnauditedBound
<1>2. failures \in Nat
  BY DEF TypeOK
<1>3. failures * n \in Nat /\ (failures + 1) * n = failures * n + n
  BY <1>2, Allowance
<1>4. failures' = failures \/ failures' = failures + 1
  BY DEF Works, Fails
<1> QED
  BY <1>1, <1>2, <1>3, <1>4 DEF Works, Fails

\* Initially nothing has changed.
LEMMA AuditInit == Init => AuditInv
<1> SUFFICES ASSUME Init PROVE AuditInv
  OBVIOUS
<1>1. Unaudited = {}
  BY DEF Init, Unaudited, At, Idle
<1>2. Cardinality(Unaudited) = 0 /\ Cardinality(Threads) \in Nat
  BY <1>1, FS_EmptySet, ProcsAssumption, FS_CardinalityType
<1>3. audits = 0 /\ changes = 0 /\ failures = 0
  BY DEF Init
<1> QED
  BY <1>2, <1>3 DEF AuditInv

\* No change and no entry is made, and no one in flight is dropped unless a call fails.
LEMMA QuietKeepsAudit ==
  ASSUME TypeOK, TypeOK', AuditInv, UNCHANGED <<audits, changes>>, Works \/ Fails,
         Unaudited' \subseteq Unaudited, Works => Unaudited' = Unaudited
  PROVE  AuditInv'
<1>1. /\ Cardinality(Unaudited) \in Nat /\ Cardinality(Unaudited') \in Nat /\ Cardinality(Threads) \in Nat
      /\ Cardinality(Unaudited) <= Cardinality(Threads)
      /\ Cardinality(Unaudited') <= Cardinality(Unaudited)
      /\ Works => Cardinality(Unaudited') = Cardinality(Unaudited)
  BY UnauditedBound, FS_Subset, FS_CardinalityType
<1>2. PICK lost, after, n, c, d \in Nat :
        /\ lost = failures * Cardinality(Threads) /\ after = failures' * Cardinality(Threads)
        /\ n = Cardinality(Threads) /\ c = Cardinality(Unaudited) /\ d = Cardinality(Unaudited')
  BY <1>1, AllowanceGrows
<1>3. (Works /\ after = lost /\ d = c) \/ (after = lost + n /\ d <= c /\ c <= n)
  BY <1>1, <1>2, AllowanceGrows
<1>4. audits \in Nat /\ changes \in Nat /\ audits + c <= changes /\ changes <= audits + lost + c
  BY <1>2 DEF TypeOK, AuditInv
<1>5. audits + d <= changes /\ changes <= audits + after + d
  BY <1>3, <1>4
<1> QED
  BY <1>2, <1>5 DEF AuditInv

\* A process that is not on its way to the audit trail leaves those that are.
LEMMA MoveKeepsUnaudited ==
  ASSUME TypeOK, NEW p \in Procs, NEW j, Moves(p, j), j.pc # "audit", ~ At(p, "audit")
  PROVE  Unaudited' = Unaudited
<1>1. proc'[p] = j /\ \A q \in Procs \ {p} : proc'[q] = proc[q]
  BY DEF TypeOK, Moves
<1> QED
  BY <1>1 DEF Unaudited, At

\* A write is entered next, unless the call fails.
LEMMA SaveKeepsAudit ==
  ASSUME TypeOK, TypeOK', AuditInv, NEW p \in Procs, NEW j \in Locals, Saves(p, j)
  PROVE  AuditInv'
<1>0. proc[p] \in Locals /\ proc[p].pc \in {"save", "write"} /\ Moves(p, j) /\ ~ At(p, "audit") /\ audits' = audits
  BY DEF Saves, TypeOK, At, SaveUserEffect
<1>1. changes' = IF proc[p].field \in Audited THEN changes + 1 ELSE changes
  BY DEF Saves, SaveUserEffect, Audited
<1>2. proc[p].field \in Audited => p \in Threads /\ At(p, "write")
  BY <1>0 DEF TypeOK, LocalOK, Audited, Procs, At
<1>3. CASE Fails /\ j = Idle
  <2>1. Unaudited' = Unaudited
    BY <1>0, <1>3, MoveKeepsUnaudited DEF Idle
  <2>2. CASE proc[p].field \notin Audited
    BY <1>0, <1>1, <1>3, <2>1, <2>2, QuietKeepsAudit
  <2>3. CASE proc[p].field \in Audited
    <3>1. Cardinality(Threads) \in Nat /\ Cardinality(Threads) >= 1
      BY <1>2, <2>3, ThreadCounts
    <3>2. PICK lost, after, n, c \in Nat :
            /\ lost = failures * Cardinality(Threads) /\ after = failures' * Cardinality(Threads)
            /\ n = Cardinality(Threads) /\ c = Cardinality(Unaudited) /\ c = Cardinality(Unaudited')
      BY <1>3, <2>1, UnauditedBound, AllowanceGrows
    <3>3. after = lost + n /\ n >= 1
      BY <1>3, <3>1, <3>2, AllowanceGrows
    <3>4. audits \in Nat /\ changes \in Nat /\ audits + c <= changes /\ changes <= audits + lost + c
      BY <3>2 DEF TypeOK, AuditInv
    <3>5. audits + c <= changes + 1 /\ changes + 1 <= audits + after + c
      BY <3>3, <3>4
    <3> QED
      BY <1>0, <1>1, <2>3, <3>2, <3>5 DEF AuditInv
  <2> QED
    BY <2>2, <2>3
<1>4. CASE Works /\ j = [proc[p] EXCEPT !.pc = "audit"] /\ proc[p].field \in Audited
  <2>1. j.pc = "audit"
    BY <1>0, <1>4 DEF Locals
  <2>2. Unaudited' = Unaudited \cup {p} /\ p \notin Unaudited
    <3>1. proc'[p] = j /\ \A q \in Procs \ {p} : proc'[q] = proc[q]
      BY <1>0 DEF TypeOK, Moves
    <3> QED
      BY <1>0, <2>1, <3>1 DEF Unaudited, At
  <2>3. Cardinality(Unaudited') = Cardinality(Unaudited) + 1
    BY <2>2, UnauditedBound, FS_AddElement
  <2>4. PICK lost, c \in Nat :
          /\ lost = failures * Cardinality(Threads) /\ lost = failures' * Cardinality(Threads)
          /\ c = Cardinality(Unaudited)
    BY <1>4, UnauditedBound, AllowanceGrows
  <2>5. audits \in Nat /\ changes \in Nat /\ audits + c <= changes /\ changes <= audits + lost + c
    BY <2>4 DEF TypeOK, AuditInv
  <2>6. audits + (c + 1) <= changes + 1 /\ changes + 1 <= audits + lost + (c + 1)
    BY <2>5
  <2> QED
    BY <1>0, <1>1, <1>4, <2>3, <2>4, <2>6 DEF AuditInv
<1>5. CASE Works /\ proc[p].field \notin Audited /\ j.pc # "audit"
  <2>1. Unaudited' = Unaudited
    BY <1>0, <1>5, MoveKeepsUnaudited
  <2> QED
    BY <1>0, <1>1, <1>5, <2>1, QuietKeepsAudit
<1>6. Idle.pc # "audit" /\ (At(p, "save") => proc[p].field \notin Audited)
  BY <1>2 DEF Idle, At
<1>7. ASSUME NEW new, j = [proc[p] EXCEPT !.pc = "write", !.field = "promote", !.row = new]
      PROVE  j.pc # "audit"
  BY <1>0, <1>7 DEF Locals
<1> QED
  BY <1>3, <1>4, <1>5, <1>6, <1>7 DEF Saves, Errs

\* Every step keeps the audit trail.
LEMMA AuditStep == TypeOK /\ TypeOK' /\ AuditInv /\ [Next]_vars => AuditInv'
<1> SUFFICES ASSUME TypeOK, TypeOK', AuditInv, Kind PROVE AuditInv'
  BY NextKind
<1>1. ASSUME NEW p \in Procs, NEW j \in Locals, Starts(p, j) PROVE AuditInv'
  <2>1. Moves(p, j) /\ j.pc # "audit" /\ ~ At(p, "audit") /\ (Works \/ Fails) /\ UNCHANGED <<audits, changes>>
    BY <1>1 DEF Starts, data, At
  <2> QED
    BY <2>1, MoveKeepsUnaudited, QuietKeepsAudit
<1>2. ASSUME NEW p \in Procs, NEW j \in Locals, Anchors(p, j) PROVE AuditInv'
  <2>1. Moves(p, j) /\ ~ At(p, "audit") /\ (Works \/ Fails) /\ UNCHANGED <<audits, changes>>
    BY <1>2 DEF Anchors, At, Errs
  <2>2. j.pc # "audit"
    BY <1>2 DEF Anchors, Idle, TypeOK, Locals
  <2> QED
    BY <2>1, <2>2, MoveKeepsUnaudited, QuietKeepsAudit
<1>3. ASSUME NEW p \in Procs, NEW j \in Locals, Saves(p, j) PROVE AuditInv'
  BY <1>3, SaveKeepsAudit
<1>4. ASSUME NEW p \in Procs, Enters(p) PROVE AuditInv'
  <2>1. Works /\ audits' = audits + 1 /\ changes' = changes
    BY <1>4 DEF Enters
  <2>2. Unaudited' = Unaudited \ {p} /\ p \in Unaudited
    <3>1. proc'[p] = Idle /\ (\A q \in Procs \ {p} : proc'[q] = proc[q]) /\ At(p, "audit")
      BY <1>4 DEF Enters, Moves, TypeOK
    <3> QED
      BY <3>1 DEF Unaudited, At, Idle
  <2>3. Cardinality(Unaudited') = Cardinality(Unaudited) - 1
    BY <2>2, UnauditedBound, FS_RemoveElement
  <2>4. PICK lost, c \in Nat :
          /\ lost = failures * Cardinality(Threads) /\ lost = failures' * Cardinality(Threads)
          /\ c = Cardinality(Unaudited)
    BY <2>1, UnauditedBound, AllowanceGrows
  <2>5. audits \in Nat /\ changes \in Nat /\ audits + c <= changes /\ changes <= audits + lost + c
    BY <2>4 DEF TypeOK, AuditInv
  <2>6. audits + 1 + (c - 1) <= changes /\ changes <= audits + 1 + lost + (c - 1)
    BY <2>5
  <2> QED
    BY <2>1, <2>3, <2>4, <2>6 DEF AuditInv
<1>5. ASSUME NEW p \in Procs, Mints(p) PROVE AuditInv'
  <2>1. Moves(p, Idle) /\ Idle.pc # "audit" /\ ~ At(p, "audit") /\ Works /\ UNCHANGED <<audits, changes>>
    BY <1>5 DEF Mints, At, Idle
  <2> QED
    BY <2>1, MoveKeepsUnaudited, QuietKeepsAudit
<1>6. ASSUME NEW p \in Procs, Quits(p) PROVE AuditInv'
  <2>1. Moves(p, Idle) /\ Idle.pc # "audit" /\ UNCHANGED <<audits, changes>>
    BY <1>6 DEF Quits, Idle, data
  <2>2. CASE Works /\ At(p, "save")
    BY <2>1, <2>2, MoveKeepsUnaudited, QuietKeepsAudit DEF At
  <2>3. CASE Fails
    <3>1. Unaudited' \subseteq Unaudited
      BY <2>1 DEF Moves, TypeOK, Unaudited, At
    <3>2. ~ Works
      BY <2>3 DEF Works, Fails, TypeOK
    <3> QED
      BY <2>1, <2>3, <3>1, <3>2, QuietKeepsAudit
  <2> QED
    BY <1>6, <2>2, <2>3 DEF Quits, Errs
<1>7. CASE Ends
  <2>1. Unaudited' = {} /\ UNCHANGED <<audits, changes>>
    BY <1>7 DEF Ends, data, Unaudited, At, Idle
  <2>2. CASE Works /\ AllIdle
    <3>1. Unaudited = {}
      BY <2>2 DEF AllIdle, Unaudited, At
    <3> QED
      BY <2>1, <2>2, <3>1, QuietKeepsAudit
  <2>3. CASE Fails
    <3>1. ~ Works
      BY <2>3 DEF Works, Fails, TypeOK
    <3> QED
      BY <2>1, <2>3, <3>1, QuietKeepsAudit
  <2> QED
    BY <1>7, <2>2, <2>3 DEF Ends
<1>8. CASE Works /\ UNCHANGED <<audits, changes, proc>>
  <2>1. Unaudited' = Unaudited
    BY <1>8 DEF Unaudited, At
  <2> QED
    BY <1>8, <2>1, QuietKeepsAudit
<1> QED
  BY <1>1, <1>2, <1>3, <1>4, <1>5, <1>6, <1>7, <1>8 DEF Kind, Opens, Passes, data

\* No entry of the audit trail is without its change, and no more changes are without
\* an entry than handlers are on their way to it or were cut off by a failure.
THEOREM ChangesAreAudited == Spec => []AuditTrail
<1>1. Spec => [](TypeOK /\ AuditInv)
  BY TypeInit, TypeStep, AuditInit, AuditStep, PTL DEF Spec
<1>2. TypeOK /\ AuditInv => AuditTrail
  <2> SUFFICES ASSUME TypeOK, AuditInv PROVE AuditTrail
    OBVIOUS
  <2>1. Cardinality(Unaudited) \in Nat /\ audits \in Nat /\ changes \in Nat
    BY UnauditedBound DEF TypeOK
  <2>2. audits <= changes
    BY <2>1 DEF AuditInv
  <2> QED
    BY <2>2 DEF AuditInv, AuditTrail, Unaudited
<1> QED
  BY <1>1, <1>2, PTL

-----------------------------------------------------------------------------
(* The seed account *)

\* As long as SeedAdmin has not failed and the account is not promoted, the server is not
\* up and SeedAdmin, if it runs, has met no account with the address it seeds.
SeedInv ==
    ~ seedFailed /\ ~ seeded =>
        /\ phase # "up"
        /\ phase = "down" => \A id \in Ids : ~ Exists(id)
        /\ phase = "seeding" =>
             /\ proc[Main].pc \in {"anchor", "save", "write"}
             /\ proc[Main].pc \in {"anchor", "save"} => \A id \in Ids : ~ Exists(id)

\* Initially there is no account and the server is down.
LEMMA SeedInit == Init => SeedInv
  BY DEF Init, SeedInv, Exists

\* Every step keeps it.
LEMMA SeedStep == TypeOK /\ SeedInv /\ [Next]_vars => SeedInv'
<1> SUFFICES ASSUME TypeOK, SeedInv, Kind, ~ seedFailed, ~ seedFailed', ~ seeded' PROVE SeedInv'
  BY NextKind, FlagStep DEF SeedInv, TypeOK
<1>0. /\ Main \in Procs
      /\ \A t \in Procs \ {Main} : phase # "up" => At(t, "idle")
      /\ \A p \in Procs : p = Main => ~ Errs(p)
      /\ ~ seeded => phase # "up"
  BY DEF TypeOK, Errs, Procs, SeedInv
<1>1. ASSUME NEW p \in Procs, NEW j \in Locals, Starts(p, j) PROVE SeedInv'
  <2>1. ~ seeded /\ users' = users
    BY <1>1 DEF Starts, data
  <2>2. p = Main /\ phase = "down" /\ phase' = "seeding" /\ proc'[p] = j /\ j.pc = "anchor"
    BY <1>0, <1>1, <2>1 DEF Starts, Moves, TypeOK
  <2> QED
    BY <2>1, <2>2 DEF SeedInv, Exists
<1>2. ASSUME NEW p \in Procs, NEW j \in Locals, Anchors(p, j) PROVE SeedInv'
  <2>1. ~ seeded /\ users' = users /\ phase' = phase
    BY <1>2 DEF Anchors
  <2>2. p = Main /\ At(p, "anchor") /\ proc'[p] = j
    BY <1>0, <1>2, <2>1 DEF Anchors, Moves, TypeOK, At
  <2>3. j = [proc[p] EXCEPT !.pc = "save"]
    BY <1>0, <1>2, <2>2 DEF Anchors
  <2>4. j.pc = "save"
    BY <2>3 DEF TypeOK, Locals
  <2> QED
    BY <2>1, <2>2, <2>4 DEF SeedInv, Exists, At
<1>3. ASSUME NEW p \in Procs, NEW j \in Locals, Saves(p, j) PROVE SeedInv'
  <2>1. phase' = phase /\ ~ seeded /\ proc[p].field # "promote" /\ proc[p].pc \in {"save", "write"}
    BY <1>3 DEF Saves, SaveUserEffect
  <2>2. p = Main
    BY <1>0, <2>1 DEF At
  <2>3. At(p, "save")
    BY <2>1, <2>2 DEF TypeOK, LocalOK, At
  <2>4. PICK new : j = [proc[p] EXCEPT !.pc = "write", !.field = "promote", !.row = new]
    BY <1>0, <1>3, <2>2, <2>3 DEF Saves, At
  <2>5. proc'[Main].pc = "write"
    BY <1>3, <2>2, <2>4 DEF Saves, Moves, TypeOK, Locals
  <2>6. phase = "seeding"
    BY <1>0, <2>1, <2>2, <2>3 DEF TypeOK, At
  <2> QED
    BY <2>1, <2>5, <2>6 DEF SeedInv
<1>4. ASSUME NEW p \in Procs, Enters(p) \/ Mints(p) \/ Quits(p) PROVE SeedInv'
  <2>1. ~ seeded /\ phase # "up"
    BY <1>0, <1>4 DEF Enters, Mints, Quits, data
  <2>2. p = Main /\ At(p, "save") /\ Conflicts(p)
    BY <1>0, <1>4, <2>1 DEF Enters, Mints, Quits, At, TypeOK, LocalOK
  <2>3. phase = "seeding" /\ \A id \in Ids : ~ Exists(id)
    BY <2>1, <2>2 DEF TypeOK, SeedInv, At
  <2>4. proc[p].row \in Rows
    BY <2>2 DEF TypeOK, LocalOK, At
  <2> QED
    BY <2>2, <2>3, <2>4, RowOrNone DEF Conflicts, Exists
<1>5. CASE Opens
  <2>1. ~ seeded
    BY <1>5 DEF Opens, data
  <2>2. phase = "down" /\ Registered(AdminEmail)
    BY <1>5, <2>1 DEF Opens, SeedInv, At
  <2> QED
    BY <2>1, <2>2, RowOrNone, EmailsAssumption DEF SeedInv, Registered, Exists
<1>6. CASE Ends
  <2>1. ~ seeded /\ phase' = "down" /\ users' = users
    BY <1>6 DEF Ends, data
  <2>2. phase = "down"
    BY <1>0, <1>6, <2>1 DEF Ends, TypeOK
  <2> QED
    BY <2>1, <2>2 DEF SeedInv, Exists
<1>7. CASE UNCHANGED <<users, phase, proc, seeded>>
  BY <1>7 DEF SeedInv, Exists
<1> QED
  BY <1>1, <1>2, <1>3, <1>4, <1>5, <1>6, <1>7 DEF Kind, Passes, data

\* The server only ever listens with a promoted seed account, whatever the number of boots
\* and restarts and whatever fails in a request, unless SeedAdmin itself was refused,
\* failed or was cut off.
THEOREM ServesSeeded == Spec => []SeededBeforeServing
<1>1. Spec => [](TypeOK /\ SeedInv)
  BY TypeInit, TypeStep, SeedInit, SeedStep, PTL DEF Spec
<1>2. SeedInv => SeededBeforeServing
  BY DEF SeedInv, SeededBeforeServing
<1> QED
  BY <1>1, <1>2, PTL
=============================================================================
