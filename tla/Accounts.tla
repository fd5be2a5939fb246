------------------------------ MODULE Accounts ------------------------------
(***************************************************************************)
(* Accounts and what they may do: Register, Login, Refresh, UpdateProfile  *)
(* (internal/app/auth.go), DecideKYC, SetUserRole, SetUserStatus and       *)
(* SeedAdmin (admin.go), the tokens of internal/auth and the users table   *)
(* of the SQL stores.  Every handler that changes an account reads its row,*)
(* changes a field and writes the whole row back; nothing keeps two of     *)
(* them apart.  At boot SeedAdmin runs before the server listens.          *)
(*                                                                         *)
(* The clock's unit is long compared with a handler: a token is minted in  *)
(* the unit in which the row it speaks for was read.                       *)
(***************************************************************************)
EXTENDS Integers, FiniteSets

CONSTANTS
    Threads,       \* requests that may be in flight at once
    Main,          \* the goroutine that boots the server
    Emails,        \* addresses, in lower case
    AdminEmail,    \* cfg.AdminEmail in lower case
    Ids,           \* IDs that NewID may draw
    NoId,
    AccessTTL,     \* JWTTTL
    RefreshTTL,    \* JWTRefreshTTL
    MaxTime,       \* bound on the clock
    MaxRequests,   \* bound on requests
    MaxBoots,      \* bound on boots
    MaxFailures    \* bound on failed calls and crashes

ASSUME ProcsAssumption == IsFiniteSet(Threads) /\ Main \notin Threads
ASSUME EmailsAssumption == AdminEmail \in Emails /\ NoId \notin Emails
ASSUME IdsAssumption == NoId \notin Ids
ASSUME TTLAssumption == AccessTTL \in Nat \ {0} /\ RefreshTTL \in Nat /\ RefreshTTL >= AccessTTL

VARIABLES
    clock,         \* the issuer's now()
    requests,      \* requests sent so far
    boots,         \* boots so far
    failures,      \* failed calls and crashes so far
    phase,         \* down, seeding (SeedAdmin runs) or up (the server listens)
    proc,          \* each process: the next call and the handler's locals
    users,         \* store: the rows, by ID
    submitted,     \* identities whose registration was handed to the chain
    tokens,        \* tokens that have not expired
    audits,        \* store: audit entries
    changes,       \* changes of an account made by an operator
    expected,      \* per account: every field as it was last changed
    crossed,       \* accounts on which two writers overlapped
    lastHeld,      \* when each account was last active, per role
    seeded,        \* SeedAdmin has promoted the account it registered
    seedFailed     \* SeedAdmin was refused, failed in a call or was cut off

outside == <<clock, requests, boots, failures, phase, seedFailed>>
store   == <<users, audits>>
history == <<changes, expected, crossed, lastHeld, seeded>>
vars    == <<outside, proc, store, submitted, tokens, history>>

Procs == Threads \cup {Main}
Roles == {"member", "admin"}
NoRow == [email |-> NoId]

Exists(id) == users[id] # NoRow
Registered(e) == \E id \in Ids : users[id].email = e

-----------------------------------------------------------------------------
(* Processes *)

Idle == [pc |-> "idle", id |-> NoId, row |-> NoRow, field |-> "none"]
At(p, label) == proc[p].pc = label
AllIdle == \A p \in Procs : At(p, "idle")
Goto(p, label) == proc' = [proc EXCEPT ![p].pc = label]
Return(p) == proc' = [proc EXCEPT ![p] = Idle]
Fail == failures < MaxFailures /\ failures' = failures + 1

\* A request is served once the server listens.
Request(t) ==
    /\ phase = "up" /\ At(t, "idle")
    /\ requests < MaxRequests /\ requests' = requests + 1
    /\ UNCHANGED <<clock, boots, phase, seedFailed>>

\* Verify, in Authenticate: a live access token; its role is the one it was minted with.
Verify(id, roles) == \E k \in tokens : k.sub = id /\ k.typ = "access" /\ k.role \in roles
RequireAdmin == \E id \in Ids : Verify(id, {"admin"})

\* When an account is seen active: now, in its role.
Held(rows, now) ==
    [id \in Ids |-> [r \in Roles |->
        IF rows[id] # NoRow /\ rows[id].status = "active" /\ rows[id].role = r THEN now ELSE lastHeld[id][r]]]

-----------------------------------------------------------------------------
(* Register *)

New(e) == [email |-> e, name |-> "first", kyc |-> "pending", role |-> "member", status |-> "active"]

\* The input is complete and its password has at least 8 characters: a request for
\* which this is not so is refused and changes nothing, SeedAdmin see below.
\* GetUserByEmail passes when it returns an error, ErrNotFound or another one.
StartRegister(p, e, id) ==
    /\ ~ Exists(id) /\ id \notin submitted /\ \A q \in Procs : proc[q].id # id
    /\ \/ ~ Registered(e) /\ UNCHANGED failures
       \/ Registered(e) /\ Fail
    /\ proc' = [proc EXCEPT ![p] = [pc |-> "anchor", id |-> id, row |-> New(e), field |-> "all"]]

Register(t, e, id) ==
    /\ Request(t)
    /\ StartRegister(t, e, id)
    /\ UNCHANGED <<store, submitted, tokens, history>>

\* The call returns once the registration is handed over.  MemChain answers at once;
\* the EVM adapter returns the hash of a transaction that may still be dropped or
\* revert, and no handler asks what became of it.
AnchorEffect(p) == submitted' = submitted \cup {proc[p].id}

RegisterIdentity(p) ==
    /\ At(p, "anchor")
    /\ AnchorEffect(p)
    /\ Goto(p, "save")
    /\ UNCHANGED <<outside, store, tokens, history>>

-----------------------------------------------------------------------------
(* SaveUser *)

\* Mutant: the email column is not UNIQUE.
ConflictsNever(p) == FALSE

\* users.email is UNIQUE: the row of another account with the same email is kept.
Conflicts(p) == \E id \in Ids \ {proc[p].id} : users[id].email = proc[p].row.email

\* Mutant: SaveUser inserts a row and ignores the conflict when there is one.
SaveUserOnce(p) ==
    /\ ~ Conflicts(p)
    /\ users' = IF Exists(proc[p].id) THEN users ELSE [users EXCEPT ![proc[p].id] = proc[p].row]
    /\ expected' = [expected EXCEPT ![proc[p].id] = proc[p].row]
    /\ UNCHANGED <<audits, changes, crossed, lastHeld, seeded>>

\* The whole row is written, as the handler read and changed it.
SaveUserEffect(p) ==
    LET id == proc[p].id
        f == proc[p].field
        rows == [users EXCEPT ![id] = proc[p].row]
    IN  /\ ~ Conflicts(p)
        /\ users' = rows
        /\ expected' = [expected EXCEPT ![id] =
                           IF f \in {"all", "promote"} THEN proc[p].row ELSE [@ EXCEPT ![f] = proc[p].row[f]]]
        /\ crossed' = IF \E q \in Procs \ {p} : At(q, "write") /\ proc[q].id = id
                        THEN crossed \cup {id} ELSE crossed
        /\ changes' = IF f \in {"kyc", "role", "status"} THEN changes + 1 ELSE changes
        /\ lastHeld' = Held(rows, clock)
        /\ seeded' = (seeded \/ f = "promote")
        /\ UNCHANGED audits

\* Mutant: SeedAdmin does not go on to promote the account.
SaveNewOnly(p) ==
    /\ At(p, "save")
    /\ SaveUserEffect(p) /\ Return(p)
    /\ UNCHANGED <<outside, submitted, tokens>>

\* Register's save; SeedAdmin goes on to promote the account.
SaveNew(p) ==
    /\ At(p, "save")
    /\ \/ /\ SaveUserEffect(p)
          /\ IF p = Main
               THEN proc' = [proc EXCEPT ![p].pc = "write", ![p].field = "promote",
                                         ![p].row.role = "admin", ![p].row.kyc = "approved"]
               ELSE Return(p)
       \/ Conflicts(p) /\ Return(p) /\ UNCHANGED <<store, history>>
    /\ UNCHANGED <<outside, submitted, tokens>>

\* Mutant: the change is not audited.
WriteUnaudited(p) ==
    /\ At(p, "write")
    /\ SaveUserEffect(p) /\ Return(p)
    /\ UNCHANGED <<outside, submitted, tokens>>

\* The second half of UpdateProfile, DecideKYC, SetUserRole and SetUserStatus.
Write(p) ==
    /\ At(p, "write")
    /\ SaveUserEffect(p)
    /\ IF proc[p].field \in {"kyc", "role", "status"} THEN Goto(p, "audit") ELSE Return(p)
    /\ UNCHANGED <<outside, submitted, tokens>>

\* s.audit; the notification that DecideKYC sends then is not modelled.
Audit(p) ==
    /\ At(p, "audit")
    /\ audits' = audits + 1
    /\ Return(p)
    /\ UNCHANGED <<outside, users, submitted, tokens, history>>

-----------------------------------------------------------------------------
(* Handlers that read a row, change it and write it back *)

Edit(t, id, field, value) ==
    /\ Request(t) /\ Exists(id)
    /\ proc' = [proc EXCEPT ![t] = [pc |-> "write", id |-> id, field |-> field,
                                    row |-> [users[id] EXCEPT ![field] = value]]]
    /\ UNCHANGED <<failures, store, submitted, tokens, history>>

UpdateProfile(t, id, name) == Verify(id, Roles) /\ Edit(t, id, "name", name)

DecideKYC(t, id, kyc) == RequireAdmin /\ Exists(id) /\ users[id].kyc = "pending" /\ Edit(t, id, "kyc", kyc)

SetUserRole(t, id, role) == RequireAdmin /\ Edit(t, id, "role", role)

SetUserStatus(t, id, status) == RequireAdmin /\ Edit(t, id, "status", status)

-----------------------------------------------------------------------------
(* Login and Refresh *)

Issuing(t, id) ==
    /\ users[id].status = "active"
    /\ proc' = [proc EXCEPT ![t] = [pc |-> "issue", id |-> id, field |-> "none", row |-> users[id]]]
    /\ UNCHANGED <<failures, store, submitted, tokens, history>>

\* The password is right; it is verified between the read and issueTokens.
Login(t, id) == Request(t) /\ Exists(id) /\ Issuing(t, id)

\* Mutant: Refresh trusts the claims of the refresh token.
RefreshByClaims(t, k) ==
    /\ Request(t) /\ k.typ = "refresh"
    /\ proc' = [proc EXCEPT ![t] = [pc |-> "issue", id |-> k.sub, field |-> "none",
                                    row |-> [users[k.sub] EXCEPT !.role = k.role]]]
    /\ UNCHANGED <<failures, store, submitted, tokens, history>>

Refresh(t, k) == Request(t) /\ k.typ = "refresh" /\ Exists(k.sub) /\ Issuing(t, k.sub)

mint(sub, role, typ, ttl) == [sub |-> sub, role |-> role, typ |-> typ, exp |-> clock + ttl]

issueTokens(t) ==
    /\ At(t, "issue")
    /\ tokens' = tokens \cup {mint(proc[t].id, proc[t].row.role, "access", AccessTTL),
                              mint(proc[t].id, proc[t].row.role, "refresh", RefreshTTL)}
    /\ Return(t)
    /\ UNCHANGED <<outside, store, submitted, history>>

-----------------------------------------------------------------------------
(* Boot, failures and time *)

\* SeedAdmin returns at once if the account exists.  The lookup takes the address as
\* configured and Register takes it in lower case: if they differ the account is
\* never found and Register refuses it, with the same outcome but for the log.
\* Register also refuses a password of fewer than 8 characters (and an empty address):
\* the error is logged and the server listens all the same.
SeedAdmin(id) ==
    /\ phase = "down" /\ boots < MaxBoots
    /\ boots' = boots + 1
    /\ \/ Registered(AdminEmail) /\ phase' = "up" /\ UNCHANGED <<proc, failures, seedFailed>>
       \/ ~ Registered(AdminEmail) /\ phase' = "up" /\ seedFailed' = TRUE /\ UNCHANGED <<proc, failures>>
       \/ StartRegister(Main, AdminEmail, id) /\ phase' = "seeding" /\ UNCHANGED seedFailed
    /\ UNCHANGED <<clock, requests, store, submitted, tokens, history>>

\* SeedAdmin has returned; the server starts even if it returned an error.
Listen ==
    /\ phase = "seeding" /\ At(Main, "idle")
    /\ phase' = "up"
    /\ UNCHANGED <<clock, requests, boots, failures, seedFailed, proc, store, submitted, tokens, history>>

\* A call fails, although it may have taken effect, and the handler returns the
\* error; the error of AppendAudit is discarded, with the entry.
CallError(p) ==
    /\ proc[p].pc \in {"anchor", "save", "write", "audit"}
    /\ Fail
    /\ \/ UNCHANGED <<store, submitted, history>>
       \/ At(p, "anchor") /\ AnchorEffect(p) /\ UNCHANGED <<store, history>>
       \/ proc[p].pc \in {"save", "write"} /\ SaveUserEffect(p) /\ UNCHANGED submitted
    /\ Return(p)
    /\ seedFailed' = (seedFailed \/ p = Main)
    /\ UNCHANGED <<clock, requests, boots, phase, tokens>>

Down(fails) ==
    /\ phase # "down"
    /\ phase' = "down"
    /\ proc' = [p \in Procs |-> Idle]
    /\ failures' = failures + fails
    /\ seedFailed' = (seedFailed \/ phase = "seeding")
    /\ UNCHANGED <<clock, requests, boots, store, submitted, tokens, history>>

\* The process dies; tokens are held by the clients and stay valid.
Crash == ~ AllIdle /\ failures < MaxFailures /\ Down(1)
\* A clean restart, after the requests in flight.
Restart == AllIdle /\ phase = "up" /\ Down(0)

\* Tokens that expire are of no further use.
Tick ==
    /\ clock < MaxTime /\ ~ \E t \in Threads : At(t, "issue")
    /\ clock' = clock + 1
    /\ tokens' = {k \in tokens : clock' < k.exp}
    /\ lastHeld' = Held(users, clock')
    /\ UNCHANGED <<requests, boots, failures, phase, seedFailed, proc, store, submitted>>
    /\ UNCHANGED <<changes, expected, crossed, seeded>>

-----------------------------------------------------------------------------
Init ==
    /\ clock = 0 /\ requests = 0 /\ boots = 0 /\ failures = 0 /\ phase = "down"
    /\ proc = [p \in Procs |-> Idle]
    /\ users = [id \in Ids |-> NoRow] /\ expected = users
    /\ submitted = {} /\ tokens = {} /\ audits = 0 /\ changes = 0 /\ crossed = {}
    /\ lastHeld = [id \in Ids |-> [r \in Roles |-> -1]]
    /\ seeded = FALSE /\ seedFailed = FALSE

Handler(t) ==
    \/ \E e \in Emails, id \in Ids : Register(t, e, id)
    \/ \E id \in Ids :
         \/ Login(t, id)
         \/ UpdateProfile(t, id, "second")
         \/ \E kyc \in {"approved", "rejected"} : DecideKYC(t, id, kyc)
         \/ \E role \in Roles : SetUserRole(t, id, role)
         \/ \E status \in {"active", "suspended"} : SetUserStatus(t, id, status)
    \/ \E k \in tokens : Refresh(t, k)
    \/ issueTokens(t)

Call(p) == RegisterIdentity(p) \/ SaveNew(p) \/ Write(p) \/ Audit(p)

Next ==
    \/ \E t \in Threads : Handler(t)
    \/ \E p \in Procs : Call(p) \/ CallError(p)
    \/ \E id \in Ids : SeedAdmin(id)
    \/ Listen \/ Crash \/ Restart \/ Tick

Spec == Init /\ [][Next]_vars

-----------------------------------------------------------------------------
(* Properties *)

\* Whatever overlaps, fails or crashes, an email belongs to one account, and the
\* registration of an account's identity was handed to the chain before its row
\* exists; whether it is in a block by then, or ever, nobody knows.
OneAccountPerEmail ==
    \A id \in Ids : Exists(id) =>
        /\ id \in submitted
        /\ \A other \in Ids \ {id} : users[other].email # users[id].email

\* What a token says lapses: it expires within its lifetime of the last time its
\* account was active in that role, however often it was refreshed since.
AuthorityLapses ==
    \A k \in tokens :
        k.exp <= lastHeld[k.sub][k.role] + (IF k.typ = "access" THEN AccessTTL ELSE RefreshTTL)

\* Unless two writers of one account overlapped, the account has every field as it
\* was last changed: no handler takes back what another one saved.
NoLostUpdate == \A id \in Ids \ crossed : users[id] = expected[id]

\* A change made by an operator is in the audit trail once its handler has ended,
\* unless a call failed or the process crashed, which loses at most the entries in
\* flight; an entry is never there without its change.
AuditTrail ==
    /\ audits <= changes
    /\ changes <= audits + failures * Cardinality(Threads) + Cardinality({p \in Procs : At(p, "audit")})

\* The server listens without a promoted seed account only if SeedAdmin was refused,
\* failed in a call or was cut off, at this boot or an earlier one: no request can
\* come between, and no failed request excuses it.  Once the address is taken, by
\* whomever, no later boot makes up for it: SeedAdmin returns at once.
SeededBeforeServing == phase = "up" => seeded \/ seedFailed
=============================================================================
