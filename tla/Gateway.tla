------------------------------ MODULE Gateway -------------------------------
(***************************************************************************)
(* The middleware chain of internal/httpapi in front of a handler that     *)
(* changes something: recover, rate limit, access log and metrics,         *)
(* idempotency, authentication, handler (Routes in server.go).  Every      *)
(* request runs on a goroutine of its own; the limiter and the idempotency *)
(* map take their locks for one step each, and the handler runs between    *)
(* the lookup of a key and the store of its reply.  All of this state is   *)
(* in memory: a crash forgets it, and not what the handlers did.           *)
(*                                                                         *)
(* A status stands for its class: 200 done, 401 not authenticated, 409 any *)
(* other refusal, 500 an internal error.  Tokens are counted in units of   *)
(* 1/Scale, so that a fraction of a token may be refilled.                 *)
(***************************************************************************)
EXTENDS Integers, Sequences, FiniteSets

CONSTANTS
    Threads,       \* requests that may be in flight at once
    Clients,       \* client addresses
    Keys,          \* values of Idempotency-Key (with method and path)
    NoKey,         \* a request without the header
    Burst,         \* tokens a full bucket holds
    Rate,          \* units of 1/Scale tokens refilled per instant
    Scale,         \* units in a token
    Idle,          \* how long gc keeps a bucket that is not used
    TTL,           \* how long a reply is remembered
    MaxTime,       \* bound on the clock
    MaxRequests,   \* bound on requests
    MaxFailures    \* bound on panics and crashes

ASSUME SetsAssumption == IsFiniteSet(Threads) /\ IsFiniteSet(Clients)
ASSUME KeysAssumption == NoKey \notin Keys
ASSUME LimitsAssumption ==
    /\ Burst \in Nat \ {0} /\ Scale \in Nat \ {0} /\ Rate \in Nat \ {0} /\ TTL \in Nat \ {0}
    /\ Idle \in Nat
\* DefaultOptions and gc: 5 minutes at 20 tokens a second refill any bucket of 40.
ASSUME IdleAssumption == Idle * Rate >= Burst * Scale
ASSUME BoundsAssumption == MaxTime \in Nat /\ MaxRequests \in Nat /\ MaxFailures \in Nat

VARIABLES
    clock,         \* rl.now() and idem.now()
    requests,      \* requests sent so far
    failures,      \* panics and crashes so far
    req,           \* per thread: where its request is
    buckets,       \* RateLimiter.buckets
    entries,       \* Idempotency.entries
    inFlight,      \* Metrics.inFlight
    observed,      \* Metrics: requests observed, by status
    effects,       \* per key: how often a handler took effect
    reasons,       \* per key: why a handler may have run again
    admitted,      \* per client: the times at which its requests were let through
    refused        \* the client refused since the clock's last step, if any

sent    == <<clock, requests, failures>>
limiter == <<buckets, admitted, refused>>
memory  == <<entries, effects, reasons>>
metrics == <<inFlight, observed>>
vars    == <<sent, req, limiter, memory, metrics>>

Free == [pc |-> "free", client |-> NoKey, key |-> NoKey, valid |-> FALSE, status |-> 0,
         effect |-> FALSE]
Never == [expires |-> 0, status |-> 0]   \* no entry: it has always expired
NoBucket == [tokens |-> Burst * Scale, last |-> -1]

At(t, label) == req[t].pc = label
Statuses == {200, 401, 409, 500}

-----------------------------------------------------------------------------
(* RateLimiter *)

Least(a, b) == IF a < b THEN a ELSE b

\* Mutant: a refill is not capped at the burst.
refillUncapped(b, now) == b.tokens + (now - b.last) * Rate

refill(b, now) == Least(Burst * Scale, b.tokens + (now - b.last) * Rate)

\* Mutant: a refused request is charged a token as well.
allowCharged(c) ==
    LET tokens == IF buckets[c] = NoBucket THEN Burst * Scale ELSE refill(buckets[c], clock)
        ok == tokens >= Scale
    IN  [ok |-> ok, bucket |-> [tokens |-> IF ok THEN tokens - Scale ELSE 0, last |-> clock]]

\* The bucket after allow, and whether the request may pass.  A client without a
\* bucket gets a full one, which this request is taken from.
allow(c) ==
    LET tokens == IF buckets[c] = NoBucket THEN Burst * Scale ELSE refill(buckets[c], clock)
        ok == tokens >= Scale
    IN  [ok |-> ok, bucket |-> [tokens |-> IF ok THEN tokens - Scale ELSE tokens, last |-> clock]]

\* The gc goroutine drops the buckets that have not been used for longer than Idle.
gcBuckets ==
    /\ \E c \in Clients : buckets[c] # NoBucket /\ buckets[c].last < clock - Idle
    /\ buckets' = [c \in Clients |-> IF buckets[c].last < clock - Idle THEN NoBucket ELSE buckets[c]]
    /\ UNCHANGED <<sent, req, admitted, refused, memory, metrics>>

\* A request arrives: 429, outside the access log, or on to the next layer, which
\* counts it as in flight.
Arrive(t, c, k, valid) ==
    /\ At(t, "free") /\ requests < MaxRequests
    /\ requests' = requests + 1
    /\ buckets' = [buckets EXCEPT ![c] = allow(c).bucket]
    /\ IF allow(c).ok
         THEN /\ req' = [req EXCEPT ![t] = [Free EXCEPT !.pc = IF k = NoKey THEN "handle" ELSE "lookup",
                                                        !.client = c, !.key = k, !.valid = valid]]
              /\ admitted' = [admitted EXCEPT ![c] = Append(@, clock)]
              /\ inFlight' = inFlight + 1
              /\ refused' = {}
         ELSE refused' = {c} /\ UNCHANGED <<req, admitted, inFlight>>
    /\ UNCHANGED <<clock, failures, memory, observed>>

-----------------------------------------------------------------------------
(* Idempotency *)

Others(t) == {u \in Threads \ {t} : req[u].key = req[t].key /\ req[u].pc \in {"handle", "remember"}}

\* An entry that is gone, or another run that has not stored its reply yet, is a
\* reason for the handler to run again.
Excuse(t) == (IF entries[req[t].key] = Never THEN 0 ELSE 1) + Cardinality(Others(t))

\* Mutant: the key is deleted when its reply has been replayed.
LookupOnce(t) ==
    /\ At(t, "lookup")
    /\ LET k == req[t].key
           e == entries[k]
       IN  IF clock < e.expires
             THEN /\ req' = [req EXCEPT ![t].pc = "log", ![t].status = e.status]
                  /\ entries' = [entries EXCEPT ![k] = Never]
                  /\ UNCHANGED reasons
             ELSE /\ req' = [req EXCEPT ![t].pc = "handle"]
                  /\ reasons' = [reasons EXCEPT ![k] = @ + Excuse(t)]
                  /\ UNCHANGED entries
    /\ UNCHANGED <<sent, limiter, effects, metrics>>

\* The reply is replayed before the request is authenticated.
Lookup(t) ==
    /\ At(t, "lookup")
    /\ LET k == req[t].key
           e == entries[k]
       IN  IF clock < e.expires
             THEN req' = [req EXCEPT ![t].pc = "log", ![t].status = e.status] /\ UNCHANGED reasons
             ELSE /\ req' = [req EXCEPT ![t].pc = "handle"]
                  /\ reasons' = [reasons EXCEPT ![k] = @ + Excuse(t)]
    /\ UNCHANGED <<sent, limiter, entries, effects, metrics>>

\* The reply is stored unless it is a 5xx; an effect behind a 5xx is not remembered.
Remember(t) ==
    /\ At(t, "remember")
    /\ LET r == req[t]
       IN  IF r.status < 500
             THEN /\ entries' = [entries EXCEPT ![r.key] = [expires |-> clock + TTL, status |-> r.status]]
                  /\ UNCHANGED reasons
             ELSE /\ reasons' = [reasons EXCEPT ![r.key] = @ + IF r.effect THEN 1 ELSE 0]
                  /\ UNCHANGED entries
    /\ req' = [req EXCEPT ![t].pc = "log"]
    /\ UNCHANGED <<sent, limiter, effects, metrics>>

gcEntries ==
    LET old == {k \in Keys : entries[k] # Never /\ clock > entries[k].expires}
    IN  /\ old # {}
        /\ entries' = [k \in Keys |-> IF k \in old THEN Never ELSE entries[k]]
        /\ reasons' = [k \in Keys |-> IF k \in old THEN reasons[k] + 1 ELSE reasons[k]]
        /\ UNCHANGED <<sent, req, limiter, effects, metrics>>

-----------------------------------------------------------------------------
(* Authenticate, RequireAuth and the handler *)

Took(t, yes) ==
    IF yes /\ req[t].key # NoKey THEN effects' = [effects EXCEPT ![req[t].key] = @ + 1] ELSE UNCHANGED effects

\* RequireAuth answers 401 itself; otherwise the handler does its work, or returns an
\* error, before or after it did something (writeError).
Handle(t, status, effect) ==
    /\ At(t, "handle")
    /\ ~ req[t].valid => status = 401 /\ ~ effect
    /\ req[t].valid => status # 401 /\ (status = 200 => effect)
    /\ Took(t, effect)
    /\ req' = [req EXCEPT ![t].pc = IF req[t].key = NoKey THEN "log" ELSE "remember",
                          ![t].status = status, ![t].effect = effect]
    /\ UNCHANGED <<sent, limiter, entries, reasons, metrics>>

\* The handler panics: recoverPanic, outside all the other layers, answers 500.
Panic(t, effect) ==
    /\ At(t, "handle") /\ req[t].valid
    /\ failures < MaxFailures /\ failures' = failures + 1
    /\ Took(t, effect)
    /\ reasons' = IF effect /\ req[t].key # NoKey THEN [reasons EXCEPT ![req[t].key] = @ + 1] ELSE reasons
    /\ req' = [req EXCEPT ![t] = Free]
    /\ UNCHANGED <<clock, requests, limiter, entries, metrics>>

\* Mutant: a reply of 401 is not taken off the gauge.
LogAuthOnly(t) ==
    /\ At(t, "log")
    /\ inFlight' = IF req[t].status = 401 THEN inFlight ELSE inFlight - 1
    /\ observed' = [observed EXCEPT ![req[t].status] = @ + 1]
    /\ req' = [req EXCEPT ![t] = Free]
    /\ UNCHANGED <<sent, limiter, memory>>

\* accessLog, after the reply.
Log(t) ==
    /\ At(t, "log")
    /\ inFlight' = inFlight - 1
    /\ observed' = [observed EXCEPT ![req[t].status] = @ + 1]
    /\ req' = [req EXCEPT ![t] = Free]
    /\ UNCHANGED <<sent, limiter, memory>>

-----------------------------------------------------------------------------
\* The process restarts with empty maps and counters.
Crash ==
    /\ failures < MaxFailures /\ failures' = failures + 1
    /\ reasons' = [k \in Keys |-> reasons[k] + (IF entries[k] = Never THEN 0 ELSE 1)
                      + Cardinality({t \in Threads : req[t].key = k /\ req[t].effect})]
    /\ entries' = [k \in Keys |-> Never]
    /\ buckets' = [c \in Clients |-> NoBucket]
    /\ admitted' = [c \in Clients |-> <<>>]
    /\ req' = [t \in Threads |-> Free]
    /\ inFlight' = 0 /\ observed' = [s \in Statuses |-> 0] /\ refused' = {}
    /\ UNCHANGED <<clock, requests, effects>>

Tick ==
    /\ clock < MaxTime
    /\ clock' = clock + 1
    /\ refused' = {}
    /\ UNCHANGED <<requests, failures, req, buckets, admitted, memory, metrics>>

Init ==
    /\ clock = 0 /\ requests = 0 /\ failures = 0
    /\ req = [t \in Threads |-> Free]
    /\ buckets = [c \in Clients |-> NoBucket]
    /\ entries = [k \in Keys |-> Never]
    /\ inFlight = 0 /\ observed = [s \in Statuses |-> 0]
    /\ effects = [k \in Keys |-> 0] /\ reasons = effects
    /\ admitted = [c \in Clients |-> <<>>]
    /\ refused = {}

Next ==
    \/ \E t \in Threads :
         \/ \E c \in Clients, k \in Keys \cup {NoKey}, valid \in BOOLEAN : Arrive(t, c, k, valid)
         \/ Lookup(t) \/ Remember(t) \/ Log(t)
         \/ \E status \in Statuses, effect \in BOOLEAN : Handle(t, status, effect)
         \/ \E effect \in BOOLEAN : Panic(t, effect)
    \/ gcBuckets \/ gcEntries
    \/ Crash
    \/ Tick

Spec == Init /\ [][Next]_vars

-----------------------------------------------------------------------------
(* Properties *)

\* An effect is repeated under one Idempotency-Key only for a reason of its own: the
\* reply was a 5xx, a panic or a crash, it had expired, or the retry overlapped the
\* run it repeats.  A replay never repeats it.
RepeatsHaveReasons == \A k \in Keys : effects[k] <= 1 + reasons[k]

\* In every stretch of time, however the buckets were refilled and collected, a
\* client gets at most a burst and what the rate adds in that time.
RateBound ==
    \A c \in Clients : \A i, j \in DOMAIN admitted[c] :
        i <= j => (j - i + 1) * Scale <= Burst * Scale + (admitted[c][j] - admitted[c][i]) * Rate

\* A client is refused only if one more request would have broken that bound:
\* refused requests cost nothing.
RefusalsAreDue ==
    \A c \in refused : \E i \in DOMAIN admitted[c] :
        (Len(admitted[c]) - i + 2) * Scale > Burst * Scale + (clock - admitted[c][i]) * Rate

\* Since the start every request that was let through is in the gauge of requests in
\* flight or in one of the counters, never in both; the gauge keeps one more for each
\* panic, because accessLog does not run its second half then.
Gauge ==
    LET behind == Cardinality({t \in Threads : ~ At(t, "free")})
    IN  /\ behind <= inFlight /\ inFlight <= behind + failures
        /\ inFlight + Cardinality({x \in Statuses \X (1 .. MaxRequests) : x[2] <= observed[x[1]]})
             = Cardinality({x \in Clients \X (1 .. MaxRequests) : x[2] <= Len(admitted[x[1]])})
=============================================================================
