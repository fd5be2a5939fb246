---------------------------- MODULE GatewayProofs ----------------------------
(***************************************************************************)
(* Proofs about the middleware chain: what its state looks like, how often *)
(* an effect is repeated under one key, how many requests the limiter lets *)
(* through and which it refuses, and what the gauge of requests counts.    *)
(***************************************************************************)
EXTENDS Gateway, FiniteSetTheorems, TLAPS

Full == Burst * Scale

Requests == [pc : {"free", "lookup", "handle", "remember", "log"}, client : Clients \cup {NoKey},
             key : Keys \cup {NoKey}, valid : BOOLEAN, status : Statuses \cup {0}, effect : BOOLEAN]
Bucket == [tokens : 0 .. Full, last : Int]
Entry == {Never} \cup [expires : Nat, status : Statuses]

\* A request has a key where one is looked up and a status where one is logged.
Placed(r) ==
    /\ r.pc \in {"lookup", "remember"} => r.key \in Keys
    /\ r.pc \in {"remember", "log"} => r.status \in Statuses

TypeOK ==
    /\ clock \in Nat /\ requests \in Nat /\ failures \in Nat /\ inFlight \in Int
    /\ req \in [Threads -> Requests] /\ \A t \in Threads : Placed(req[t])
    /\ buckets \in [Clients -> Bucket] /\ \A c \in Clients : buckets[c].last <= clock
    /\ entries \in [Keys -> Entry]
    /\ observed \in [Statuses -> Nat]
    /\ effects \in [Keys -> Nat] /\ reasons \in [Keys -> Nat]
    /\ admitted \in [Clients -> Seq(Nat)]
    /\ refused \subseteq Clients

\* The tokens a client has at this instant.
Available(c) == IF buckets[c] = NoBucket THEN Full ELSE refill(buckets[c], clock)

-----------------------------------------------------------------------------
(* Types *)

\* A full bucket holds one token at least.
LEMMA FullIs == Full \in Nat /\ Scale \in Nat /\ Scale > 0 /\ Rate \in Nat /\ Rate > 0 /\ Full >= Scale
<1>1. Burst \in Nat /\ Burst >= 1 /\ Scale \in Nat /\ Scale >= 1 /\ Rate \in Nat /\ Rate >= 1
  BY LimitsAssumption
<1>2. Burst * Scale \in Nat /\ Burst * Scale >= Scale
  BY <1>1
<1> QED
  BY <1>1, <1>2 DEF Full

\* What a time refills is a number of units.
LEMMA RefillType == \A n \in Nat : n * Rate \in Nat
  BY FullIs

\* A refill, as a case distinction.
LEMMA RefillIs ==
  ASSUME TypeOK, NEW c \in Clients
  PROVE  LET more == buckets[c].tokens + (clock - buckets[c].last) * Rate
         IN  /\ more \in Nat /\ refill(buckets[c], clock) \in 0 .. Full
             /\ refill(buckets[c], clock) = IF Full < more THEN Full ELSE more
<1>1. buckets[c].tokens \in 0 .. Full /\ buckets[c].last \in Int /\ buckets[c].last <= clock /\ clock \in Nat
  BY DEF TypeOK, Bucket
<1>2. clock - buckets[c].last \in Nat
  BY <1>1
<1>3. (clock - buckets[c].last) * Rate \in Nat
  BY <1>2, RefillType
<1> QED
  BY <1>1, <1>3, FullIs DEF refill, Least, Full

\* A bucket holds no more than it can.
LEMMA AvailableType == ASSUME TypeOK, NEW c \in Clients PROVE Available(c) \in 0 .. Full
  BY RefillIs, FullIs DEF Available

\* allow takes a token if there is one.
LEMMA AllowIs ==
  ASSUME TypeOK, NEW c \in Clients
  PROVE  /\ allow(c).ok = (Available(c) >= Scale)
         /\ allow(c).bucket = [tokens |-> IF Available(c) >= Scale THEN Available(c) - Scale ELSE Available(c),
                               last |-> clock]
         /\ allow(c).bucket \in Bucket /\ allow(c).bucket.last = clock
<1>1. /\ allow(c).ok = (Available(c) >= Scale)
      /\ allow(c).bucket = [tokens |-> IF Available(c) >= Scale THEN Available(c) - Scale ELSE Available(c),
                            last |-> clock]
  BY DEF allow, Available, Full
<1>2. PICK n : n = IF Available(c) >= Scale THEN Available(c) - Scale ELSE Available(c)
  OBVIOUS
<1>3. n \in 0 .. Full
  BY <1>2, AvailableType, FullIs
<1>4. [tokens |-> n, last |-> clock] \in Bucket
  BY <1>3 DEF Bucket, TypeOK
<1> QED
  BY <1>1, <1>2, <1>4

\* A request that ends leaves its thread free.
LEMMA FreeType == Free \in Requests /\ Placed(Free)
  BY DEF Free, Requests, Placed, Statuses

\* The initial state is well typed.
LEMMA TypeInit == Init => TypeOK
<1> SUFFICES ASSUME Init PROVE TypeOK
  OBVIOUS
<1>1. NoBucket \in Bucket /\ NoBucket.last <= 0
  BY FullIs DEF NoBucket, Bucket, Full
<1>2. Never \in Entry
  BY DEF Entry
<1> QED
  BY <1>1, <1>2, FreeType DEF Init, TypeOK

\* What a thread does with its request keeps it well typed.
LEMMA ReqUpdate ==
  ASSUME TypeOK, NEW t \in Threads, NEW r \in Requests, Placed(r), req' = [req EXCEPT ![t] = r]
  PROVE  req' \in [Threads -> Requests] /\ \A u \in Threads : Placed(req'[u])
  BY DEF TypeOK

\* An arrival keeps the types.
LEMMA TypeArrive ==
  ASSUME TypeOK, NEW t \in Threads, NEW c \in Clients, NEW k \in Keys \cup {NoKey}, NEW valid \in BOOLEAN,
         Arrive(t, c, k, valid)
  PROVE  TypeOK'
<1> USE DEF memory, sent
<1>1. buckets' \in [Clients -> Bucket] /\ \A d \in Clients : buckets'[d].last <= clock'
  <2>1. PICK b : b = allow(c).bucket
    OBVIOUS
  <2>2. b \in Bucket /\ b.last = clock
    BY <2>1, AllowIs
  <2>3. buckets' = [buckets EXCEPT ![c] = b] /\ clock' = clock
    BY <2>1 DEF Arrive
  <2> QED
    BY <2>2, <2>3 DEF TypeOK
<1>2. req' \in [Threads -> Requests] /\ \A u \in Threads : Placed(req'[u])
  <2>1. PICK r : r = [Free EXCEPT !.pc = IF k = NoKey THEN "handle" ELSE "lookup",
                                  !.client = c, !.key = k, !.valid = valid]
    OBVIOUS
  <2>2. r \in Requests /\ Placed(r)
    BY <2>1 DEF Free, Requests, Placed
  <2> QED
    BY <2>1, <2>2, ReqUpdate DEF Arrive, TypeOK
<1>3. admitted' \in [Clients -> Seq(Nat)]
  <2>1. CASE UNCHANGED admitted
    BY <2>1 DEF TypeOK
  <2>2. CASE admitted' = [admitted EXCEPT ![c] = Append(@, clock)]
    <3>1. PICK s : s = Append(admitted[c], clock)
      OBVIOUS
    <3>2. s \in Seq(Nat)
      BY <3>1 DEF TypeOK
    <3> QED
      BY <2>2, <3>1, <3>2 DEF TypeOK
  <2> QED
    BY <2>1, <2>2 DEF Arrive
<1>4. inFlight' \in Int /\ refused' \subseteq Clients
  BY DEF Arrive, TypeOK
<1>5. /\ clock' = clock /\ failures' = failures /\ requests' = requests + 1
      /\ UNCHANGED <<entries, effects, reasons, observed>>
  BY DEF Arrive
<1> QED
  BY <1>1, <1>2, <1>3, <1>4, <1>5 DEF TypeOK

\* The lookup of a key keeps the types.
LEMMA TypeLookup ==
  ASSUME TypeOK, NEW t \in Threads, Lookup(t)
  PROVE  TypeOK'
<1> USE DEF memory, sent, limiter, metrics
<1>0. req[t].key \in Keys /\ req[t] \in Requests
  BY DEF TypeOK, Placed, Lookup, At
<1>1. PICK e : e = entries[req[t].key]
  OBVIOUS
<1>2. e \in Entry /\ e.expires \in Nat
  BY <1>0, <1>1 DEF TypeOK, Entry, Never
<1>3. CASE clock < e.expires
  <2>1. e.status \in Statuses
    BY <1>2, <1>3 DEF Entry, Never, TypeOK
  <2>2. PICK r : r = [req[t] EXCEPT !.pc = "log", !.status = e.status]
    OBVIOUS
  <2>3. r \in Requests /\ Placed(r)
    BY <1>0, <2>1, <2>2 DEF Requests, Placed
  <2>4. req' = [req EXCEPT ![t] = r] /\ UNCHANGED reasons
    BY <1>1, <1>3, <2>2 DEF Lookup, TypeOK
  <2> QED
    BY <2>3, <2>4, ReqUpdate DEF Lookup, TypeOK
<1>4. CASE ~ (clock < e.expires)
  <2>1. PICK r : r = [req[t] EXCEPT !.pc = "handle"]
    OBVIOUS
  <2>2. r \in Requests /\ Placed(r)
    BY <1>0, <2>1 DEF Requests, Placed
  <2>3. req' = [req EXCEPT ![t] = r] /\ reasons' = [reasons EXCEPT ![req[t].key] = @ + Excuse(t)]
    BY <1>1, <1>4, <2>1 DEF Lookup, TypeOK
  <2>4. Excuse(t) \in Nat
    <3>1. IsFiniteSet(Others(t))
      BY SetsAssumption, FS_Subset DEF Others
    <3> QED
      BY <3>1, FS_CardinalityType DEF Excuse
  <2>5. reasons' \in [Keys -> Nat]
    BY <1>0, <2>3, <2>4 DEF TypeOK
  <2> QED
    BY <2>2, <2>3, <2>5, ReqUpdate DEF Lookup, TypeOK
<1> QED
  BY <1>3, <1>4

\* The store of a reply keeps the types.
LEMMA TypeRemember ==
  ASSUME TypeOK, NEW t \in Threads, Remember(t)
  PROVE  TypeOK'
<1> USE DEF memory, sent, limiter, metrics
<1>0. req[t].key \in Keys /\ req[t].status \in Statuses /\ req[t] \in Requests
  BY DEF TypeOK, Placed, Remember, At
<1>1. req' \in [Threads -> Requests] /\ \A u \in Threads : Placed(req'[u])
  <2>1. PICK r : r = [req[t] EXCEPT !.pc = "log"]
    OBVIOUS
  <2>2. r \in Requests /\ Placed(r)
    BY <1>0, <2>1 DEF Requests, Placed
  <2> QED
    BY <2>1, <2>2, ReqUpdate DEF Remember, TypeOK
<1>2. entries' \in [Keys -> Entry]
  <2>1. PICK e : e = [expires |-> clock + TTL, status |-> req[t].status]
    OBVIOUS
  <2>2. e \in Entry
    BY <1>0, <2>1, LimitsAssumption DEF Entry, TypeOK
  <2> QED
    BY <1>0, <2>1, <2>2 DEF Remember, TypeOK
<1>3. reasons' \in [Keys -> Nat]
  BY <1>0 DEF Remember, TypeOK
<1> QED
  BY <1>1, <1>2, <1>3 DEF Remember, TypeOK

\* The handler keeps the types.
LEMMA TypeHandle ==
  ASSUME TypeOK, NEW t \in Threads, NEW status \in Statuses, NEW effect \in BOOLEAN, Handle(t, status, effect)
  PROVE  TypeOK'
<1> USE DEF memory, sent, limiter, metrics
<1>0. req[t] \in Requests /\ (req[t].key # NoKey => req[t].key \in Keys)
  BY DEF TypeOK, Requests
<1>1. req' \in [Threads -> Requests] /\ \A u \in Threads : Placed(req'[u])
  <2>1. PICK r : r = [req[t] EXCEPT !.pc = IF req[t].key = NoKey THEN "log" ELSE "remember",
                                    !.status = status, !.effect = effect]
    OBVIOUS
  <2>2. r \in Requests /\ Placed(r)
    BY <1>0, <2>1 DEF Requests, Placed
  <2> QED
    BY <2>1, <2>2, ReqUpdate DEF Handle, TypeOK
<1>2. effects' \in [Keys -> Nat]
  BY <1>0 DEF Handle, Took, TypeOK
<1> QED
  BY <1>1, <1>2 DEF Handle, TypeOK

\* A panic keeps the types.
LEMMA TypePanic ==
  ASSUME TypeOK, NEW t \in Threads, NEW effect \in BOOLEAN, Panic(t, effect)
  PROVE  TypeOK'
<1> USE DEF memory, sent, limiter, metrics
<1>0. req[t] \in Requests /\ (req[t].key # NoKey => req[t].key \in Keys)
  BY DEF TypeOK, Requests
<1>1. req' \in [Threads -> Requests] /\ \A u \in Threads : Placed(req'[u])
  BY FreeType, ReqUpdate DEF Panic
<1>2. effects' \in [Keys -> Nat]
  <2>1. CASE effect /\ req[t].key # NoKey
    <3>1. effects' = [effects EXCEPT ![req[t].key] = @ + 1]
      BY <2>1 DEF Panic, Took
    <3> QED
      BY <1>0, <2>1, <3>1 DEF TypeOK
  <2>2. CASE ~ (effect /\ req[t].key # NoKey)
    <3>1. effects' = effects
      BY <2>2 DEF Panic, Took
    <3> QED
      BY <3>1 DEF TypeOK
  <2> QED
    BY <2>1, <2>2
<1>3. reasons' \in [Keys -> Nat]
  <2>1. CASE effect /\ req[t].key # NoKey
    BY <1>0, <2>1 DEF Panic, TypeOK
  <2>2. CASE ~ (effect /\ req[t].key # NoKey)
    BY <2>2 DEF Panic, TypeOK
  <2> QED
    BY <2>1, <2>2
<1> QED
  BY <1>1, <1>2, <1>3 DEF Panic, TypeOK

\* The access log keeps the types.
LEMMA TypeLog ==
  ASSUME TypeOK, NEW t \in Threads, Log(t)
  PROVE  TypeOK'
<1> USE DEF memory, sent, limiter, metrics
<1>0. req[t].status \in Statuses
  BY DEF TypeOK, Placed, Log, At
<1>1. req' \in [Threads -> Requests] /\ \A u \in Threads : Placed(req'[u])
  BY FreeType, ReqUpdate DEF Log
<1>2. observed' \in [Statuses -> Nat]
  BY <1>0 DEF Log, TypeOK
<1> QED
  BY <1>1, <1>2 DEF Log, TypeOK

\* The collections keep the types.
LEMMA TypeCollect == TypeOK /\ (gcBuckets \/ gcEntries) => TypeOK'
<1> SUFFICES ASSUME TypeOK, gcBuckets \/ gcEntries PROVE TypeOK'
  OBVIOUS
<1> USE DEF memory, sent, limiter, metrics
<1>1. NoBucket \in Bucket /\ NoBucket.last <= clock
  BY FullIs DEF NoBucket, Bucket, Full, TypeOK
<1>2. CASE gcBuckets
  BY <1>1, <1>2 DEF gcBuckets, TypeOK
<1>3. CASE gcEntries
  BY <1>3 DEF gcEntries, TypeOK, Entry
<1> QED
  BY <1>2, <1>3

\* A restart keeps the types.
LEMMA TypeCrash == TypeOK /\ Crash => TypeOK'
<1> SUFFICES ASSUME TypeOK, Crash PROVE TypeOK'
  OBVIOUS
<1>1. NoBucket \in Bucket /\ NoBucket.last <= clock
  BY FullIs DEF NoBucket, Bucket, Full, TypeOK
<1>2. reasons' \in [Keys -> Nat]
  <2>1. ASSUME NEW k \in Keys PROVE Cardinality({t \in Threads : req[t].key = k /\ req[t].effect}) \in Nat
    <3>1. IsFiniteSet({t \in Threads : req[t].key = k /\ req[t].effect})
      BY SetsAssumption, FS_Subset
    <3> QED
      BY <3>1, FS_CardinalityType
  <2> QED
    <3> DEFINE n(k) == Cardinality({t \in Threads : req[t].key = k /\ req[t].effect})
    <3>1. reasons' = [k \in Keys |-> reasons[k] + (IF entries[k] = Never THEN 0 ELSE 1) + n(k)]
      BY DEF Crash
    <3>2. \A k \in Keys : n(k) \in Nat
      BY <2>1
    <3> HIDE DEF n
    <3> QED
      BY <3>1, <3>2 DEF TypeOK
<1> QED
  BY <1>1, <1>2, FreeType DEF Crash, TypeOK, Entry

\* Every step keeps the types.
LEMMA TypeStep == TypeOK /\ [Next]_vars => TypeOK'
<1> SUFFICES ASSUME TypeOK, [Next]_vars PROVE TypeOK'
  OBVIOUS
<1>1. CASE Tick
  <2>1. \A c \in Clients : buckets[c].last \in Int /\ buckets[c].last <= clock /\ clock \in Nat
    BY DEF TypeOK, Bucket
  <2>2. \A c \in Clients : buckets'[c].last <= clock'
    BY <1>1, <2>1 DEF Tick
  <2> QED
    BY <1>1, <2>2 DEF Tick, TypeOK, memory, metrics
<1>2. CASE UNCHANGED vars
  BY <1>2 DEF vars, sent, limiter, memory, metrics, TypeOK
<1> QED
  BY <1>1, <1>2, TypeArrive, TypeLookup, TypeRemember, TypeHandle, TypePanic, TypeLog, TypeCollect, TypeCrash DEF Next

\* The state of the middleware is always well typed: every request has a key where
\* one is looked up and a status where one is logged, and no bucket holds more than
\* the burst or less than nothing.
THEOREM TypeCorrect == Spec => []TypeOK
<1> QED
  BY TypeInit, TypeStep, PTL DEF Spec

-----------------------------------------------------------------------------
(* Effects under one key *)

\* The runs of a key's handler that have not stored a reply, and those of them that
\* have not had an effect.
Running(k) == {t \in Threads : req[t].key = k /\ req[t].pc \in {"handle", "remember"}}
Owed(k) == {t \in Threads : req[t].key = k /\ (At(t, "handle") \/ (At(t, "remember") /\ ~ req[t].effect))}

\* The effects a key had and may still have without another lookup are one more than
\* the reasons at most, and no more than the reasons once nothing is left of them: no
\* reply is stored and no handler runs.
KeyInv(k) ==
    /\ effects[k] + Cardinality(Owed(k)) <= reasons[k] + 1
    /\ entries[k] = Never /\ Running(k) = {} => effects[k] <= reasons[k]
RepeatInv == \A k \in Keys : KeyInv(k)

\* A step of one thread adds it to a set of threads, takes it out, or neither.
LEMMA CardMoves ==
  ASSUME NEW S \in SUBSET Threads, NEW T \in SUBSET Threads, NEW t \in Threads, T \ {t} = S \ {t}
  PROVE  /\ Cardinality(S) \in Nat /\ Cardinality(T) \in Nat
         /\ t \notin S /\ t \in T => Cardinality(T) = Cardinality(S) + 1
         /\ t \in S /\ t \notin T => Cardinality(S) = Cardinality(T) + 1
         /\ (t \in S <=> t \in T) => T = S
<1>1. IsFiniteSet(S) /\ IsFiniteSet(T) /\ Cardinality(S) \in Nat /\ Cardinality(T) \in Nat
  BY SetsAssumption, FS_Subset, FS_CardinalityType
<1>2. ASSUME t \notin S, t \in T PROVE Cardinality(T) = Cardinality(S) + 1
  <2>1. T = S \cup {t}
    BY <1>2
  <2> QED
    BY <1>1, <1>2, <2>1, FS_AddElement
<1>3. ASSUME t \in S, t \notin T PROVE Cardinality(S) = Cardinality(T) + 1
  <2>1. S = T \cup {t}
    BY <1>3
  <2> QED
    BY <1>1, <1>3, <2>1, FS_AddElement
<1>4. ASSUME t \in S <=> t \in T PROVE T = S
  BY <1>4
<1> QED
  BY <1>1, <1>2, <1>3, <1>4

\* A set of threads that is not empty counts one at least.
LEMMA CardPositive ==
  ASSUME NEW S \in SUBSET Threads
  PROVE  Cardinality(S) \in Nat /\ (S # {} => Cardinality(S) >= 1) /\ (S = {} => Cardinality(S) = 0)
<1>1. IsFiniteSet(S) /\ Cardinality(S) \in Nat
  BY SetsAssumption, FS_Subset, FS_CardinalityType
<1>2. Cardinality(S) = 0 <=> S = {}
  BY <1>1, FS_EmptySet
<1> QED
  BY <1>1, <1>2

\* The sets are sets of threads; a step of thread t changes them for t alone.
LEMMA RunsMove ==
  ASSUME TypeOK, NEW t \in Threads, NEW r, req' = [req EXCEPT ![t] = r], NEW k \in Keys
  PROVE  /\ Owed(k) \in SUBSET Threads /\ Owed(k)' \in SUBSET Threads
         /\ Running(k) \in SUBSET Threads /\ Running(k)' \in SUBSET Threads
         /\ Owed(k)' \ {t} = Owed(k) \ {t} /\ Running(k)' \ {t} = Running(k) \ {t}
         /\ t \in Owed(k)' <=> r.key = k /\ (r.pc = "handle" \/ (r.pc = "remember" /\ ~ r.effect))
         /\ t \in Running(k)' <=> r.key = k /\ r.pc \in {"handle", "remember"}
         /\ t \in Owed(k) <=> req[t].key = k /\ (At(t, "handle") \/ (At(t, "remember") /\ ~ req[t].effect))
         /\ t \in Running(k) <=> req[t].key = k /\ req[t].pc \in {"handle", "remember"}
         /\ (t \in Owed(k) <=> t \in Owed(k)') => Owed(k)' = Owed(k)
         /\ (t \in Running(k) <=> t \in Running(k)') => Running(k)' = Running(k)
<1>1. req \in [Threads -> Requests]
  BY DEF TypeOK
<1>2. req'[t] = r /\ \A u \in Threads \ {t} : req'[u] = req[u]
  BY <1>1
<1>3. /\ Owed(k) \in SUBSET Threads /\ Owed(k)' \in SUBSET Threads
      /\ Running(k) \in SUBSET Threads /\ Running(k)' \in SUBSET Threads
      /\ Owed(k)' \ {t} = Owed(k) \ {t} /\ Running(k)' \ {t} = Running(k) \ {t}
  BY <1>2 DEF Owed, Running, At
<1>4. /\ (t \in Owed(k) <=> t \in Owed(k)') => Owed(k)' = Owed(k)
      /\ (t \in Running(k) <=> t \in Running(k)') => Running(k)' = Running(k)
  BY <1>3
<1> QED
  BY <1>2, <1>3, <1>4 DEF Owed, Running, At

\* A step that touches neither the runs nor the record of a key keeps its account.
LEMMA KeyKeeps ==
  ASSUME NEW k \in Keys, KeyInv(k), Owed(k)' = Owed(k), Running(k)' = Running(k),
         effects'[k] = effects[k], reasons'[k] = reasons[k], entries'[k] = entries[k]
  PROVE  KeyInv(k)'
  BY DEF KeyInv

\* An arrival is not a run yet.
LEMMA RepeatArrive ==
  ASSUME TypeOK, RepeatInv, NEW t \in Threads, NEW c \in Clients, NEW k \in Keys \cup {NoKey}, NEW valid \in BOOLEAN,
         Arrive(t, c, k, valid)
  PROVE  RepeatInv'
<1> SUFFICES ASSUME NEW d \in Keys PROVE KeyInv(d)'
  BY DEF RepeatInv
<1>1. effects' = effects /\ reasons' = reasons /\ entries' = entries
  BY DEF Arrive, memory
<1>2. CASE UNCHANGED req
  BY <1>1, <1>2, KeyKeeps DEF RepeatInv, Owed, Running, At
<1>3. PICK r : r = [Free EXCEPT !.pc = IF k = NoKey THEN "handle" ELSE "lookup",
                                !.client = c, !.key = k, !.valid = valid]
  OBVIOUS
<1>4. CASE req' = [req EXCEPT ![t] = r]
  <2>1. r.key = k /\ r.pc = IF k = NoKey THEN "handle" ELSE "lookup"
    BY <1>3 DEF Free
  <2>2. t \notin Owed(d) /\ t \notin Running(d)
    BY DEF Arrive, At, Owed, Running
  <2>3. t \notin Owed(d)' /\ t \notin Running(d)'
    BY <1>4, <2>1, RunsMove, KeysAssumption
  <2>4. Owed(d)' = Owed(d) /\ Running(d)' = Running(d)
    BY <1>4, <2>2, <2>3, RunsMove
  <2> QED
    BY <1>1, <2>4, KeyKeeps DEF RepeatInv
<1> QED
  BY <1>2, <1>3, <1>4 DEF Arrive

\* A lookup that finds no reply starts a run, and names what excuses it.
LEMMA RepeatLookup ==
  ASSUME TypeOK, RepeatInv, NEW t \in Threads, Lookup(t)
  PROVE  RepeatInv'
<1> SUFFICES ASSUME NEW d \in Keys PROVE KeyInv(d)'
  BY DEF RepeatInv
<1>0. req[t].key \in Keys /\ req[t] \in Requests /\ At(t, "lookup")
  BY DEF TypeOK, Placed, Lookup, At
<1>1. effects' = effects /\ entries' = entries
  BY DEF Lookup
<1>2. CASE clock < entries[req[t].key].expires
  <2>1. PICK r : r = [req[t] EXCEPT !.pc = "log", !.status = entries[req[t].key].status]
    OBVIOUS
  <2>2. req' = [req EXCEPT ![t] = r] /\ reasons' = reasons
    BY <1>2, <2>1 DEF Lookup, TypeOK
  <2>3. r.pc = "log"
    BY <1>0, <2>1 DEF Requests
  <2>4. t \notin Owed(d) /\ t \notin Running(d) /\ t \notin Owed(d)' /\ t \notin Running(d)'
    BY <1>0, <2>2, <2>3, RunsMove DEF At
  <2>5. Owed(d)' = Owed(d) /\ Running(d)' = Running(d)
    BY <2>2, <2>4, RunsMove
  <2> QED
    BY <1>1, <2>2, <2>5, KeyKeeps DEF RepeatInv
<1>3. CASE ~ (clock < entries[req[t].key].expires)
  <2>1. PICK r : r = [req[t] EXCEPT !.pc = "handle"]
    OBVIOUS
  <2>2. req' = [req EXCEPT ![t] = r] /\ reasons' = [reasons EXCEPT ![req[t].key] = @ + Excuse(t)]
    BY <1>3, <2>1 DEF Lookup, TypeOK
  <2>3. r.pc = "handle" /\ r.key = req[t].key
    BY <1>0, <2>1 DEF Requests
  <2>4. /\ t \notin Owed(d) /\ t \notin Running(d)
        /\ t \in Owed(d)' <=> req[t].key = d
        /\ t \in Running(d)' <=> req[t].key = d
    BY <1>0, <2>2, <2>3, RunsMove, ZenonT(60) DEF At
  <2>5. CASE req[t].key # d
    <3>1. Owed(d)' = Owed(d) /\ Running(d)' = Running(d)
      BY <2>2, <2>4, <2>5, RunsMove
    <3>2. reasons'[d] = reasons[d]
      BY <2>2, <2>5 DEF TypeOK
    <3> QED
      BY <1>1, <3>1, <3>2, KeyKeeps DEF RepeatInv
  <2>6. CASE req[t].key = d
    <3>1. Owed(d) \in SUBSET Threads /\ Owed(d)' \in SUBSET Threads /\ Owed(d)' \ {t} = Owed(d) \ {t}
      BY <2>2, RunsMove
    <3>2. /\ Cardinality(Owed(d)') = Cardinality(Owed(d)) + 1 /\ Cardinality(Owed(d)) \in Nat
          /\ Running(d)' # {}
      BY <2>4, <2>6, <3>1, CardMoves
    <3>3. reasons'[d] = reasons[d] + Excuse(t) /\ reasons[d] \in Nat /\ effects[d] \in Nat
      BY <2>2, <2>6 DEF TypeOK
    <3>4. Others(t) = Running(d) /\ Others(t) \in SUBSET Threads
      BY <2>4, <2>6 DEF Others, Running
    <3>5. Excuse(t) = (IF entries[d] = Never THEN 0 ELSE 1) + Cardinality(Running(d))
      BY <2>6, <3>4 DEF Excuse
    <3>6. Cardinality(Running(d)) \in Nat /\ (Running(d) # {} => Cardinality(Running(d)) >= 1)
      BY <3>4, CardPositive
    <3>7. KeyInv(d)
      BY DEF RepeatInv
    <3>8. CASE entries[d] = Never /\ Running(d) = {}
      <4>1. Owed(d) = {}
        BY <3>8 DEF Owed, Running, At
      <4>2. Cardinality(Owed(d)) = 0
        BY <3>1, <4>1, CardPositive
      <4>3. effects[d] <= reasons[d]
        BY <3>7, <3>8 DEF KeyInv
      <4>4. reasons'[d] \in Nat /\ reasons'[d] >= reasons[d]
        BY <3>3, <3>5, <3>6
      <4>5. effects[d] + Cardinality(Owed(d)') <= reasons'[d] + 1
        BY <3>2, <3>3, <4>2, <4>3, <4>4
      <4> QED
        BY <1>1, <3>2, <4>5 DEF KeyInv
    <3>9. CASE ~ (entries[d] = Never /\ Running(d) = {})
      <4>1. reasons'[d] \in Nat /\ reasons'[d] >= reasons[d] + 1
        BY <3>3, <3>5, <3>6, <3>9
      <4>2. effects[d] + Cardinality(Owed(d)) <= reasons[d] + 1
        BY <3>7 DEF KeyInv
      <4>3. effects[d] + Cardinality(Owed(d)') <= reasons'[d] + 1
        BY <3>2, <3>3, <4>1, <4>2
      <4> QED
        BY <1>1, <3>2, <4>3 DEF KeyInv
    <3> QED
      BY <3>8, <3>9
  <2> QED
    BY <2>5, <2>6
<1> QED
  BY <1>2, <1>3

\* A reply that is stored accounts for its run; a 5xx is a reason to run again.
LEMMA RepeatRemember ==
  ASSUME TypeOK, RepeatInv, NEW t \in Threads, Remember(t)
  PROVE  RepeatInv'
<1> SUFFICES ASSUME NEW d \in Keys PROVE KeyInv(d)'
  BY DEF RepeatInv
<1>0. req[t].key \in Keys /\ req[t] \in Requests /\ At(t, "remember") /\ req[t].effect \in BOOLEAN
  BY DEF TypeOK, Placed, Remember, At, Requests
<1>1. PICK r : r = [req[t] EXCEPT !.pc = "log"]
  OBVIOUS
<1>2. req' = [req EXCEPT ![t] = r] /\ r.pc = "log" /\ effects' = effects
  BY <1>0, <1>1 DEF Remember, TypeOK, Requests
<1>3. /\ t \notin Owed(d)' /\ t \notin Running(d)'
      /\ t \in Owed(d) <=> req[t].key = d /\ ~ req[t].effect
      /\ t \in Running(d) <=> req[t].key = d
  BY <1>0, <1>2, RunsMove DEF At
<1>4. Owed(d) \in SUBSET Threads /\ Owed(d)' \in SUBSET Threads /\ Owed(d)' \ {t} = Owed(d) \ {t}
  BY <1>2, RunsMove
<1>5. reasons[d] \in Nat /\ effects[d] \in Nat /\ Cardinality(Owed(d)) \in Nat /\ Cardinality(Owed(d)') \in Nat
  BY <1>4, CardPositive DEF TypeOK
<1>6. CASE req[t].key # d
  <2>1. Owed(d)' = Owed(d) /\ Running(d)' = Running(d)
    BY <1>2, <1>3, <1>6, RunsMove
  <2>2. reasons'[d] = reasons[d] /\ entries'[d] = entries[d]
    BY <1>6 DEF Remember, TypeOK
  <2> QED
    BY <1>2, <2>1, <2>2, KeyKeeps DEF RepeatInv
<1>7. CASE req[t].key = d
  <2>0. effects[d] + Cardinality(Owed(d)) <= reasons[d] + 1
    BY DEF RepeatInv, KeyInv
  <2>1. Cardinality(Owed(d)') <= Cardinality(Owed(d)) /\ (~ req[t].effect => Cardinality(Owed(d)) = Cardinality(Owed(d)') + 1)
    <3>1. CASE req[t].effect
      <4>1. Owed(d)' = Owed(d)
        BY <1>2, <1>3, <3>1, RunsMove
      <4> QED
        BY <1>5, <3>1, <4>1
    <3>2. CASE ~ req[t].effect
      <4>1. t \in Owed(d)
        BY <1>3, <1>7, <3>2
      <4>2. Cardinality(Owed(d)) = Cardinality(Owed(d)') + 1
        BY <1>3, <1>4, <4>1, CardMoves
      <4> QED
        BY <1>5, <4>2
    <3> QED
      BY <3>1, <3>2
  <2>2. CASE req[t].status < 500
    <3>1. reasons' = reasons /\ entries'[d] = [expires |-> clock + TTL, status |-> req[t].status]
      BY <1>7, <2>2 DEF Remember, TypeOK
    <3>2. [expires |-> clock + TTL, status |-> req[t].status].expires > 0
      BY LimitsAssumption DEF TypeOK
    <3>3. entries'[d] # Never
      BY <3>1, <3>2 DEF Never
    <3>4. effects[d] + Cardinality(Owed(d)') <= reasons[d] + 1
      BY <1>5, <2>0, <2>1
    <3> QED
      BY <1>2, <3>1, <3>3, <3>4 DEF KeyInv
  <2>3. CASE ~ (req[t].status < 500)
    <3>1. reasons'[d] = reasons[d] + IF req[t].effect THEN 1 ELSE 0
      BY <1>7, <2>3 DEF Remember, TypeOK
    <3>2. CASE req[t].effect
      <4>1. reasons'[d] = reasons[d] + 1
        BY <1>5, <3>1, <3>2
      <4>2. effects[d] + Cardinality(Owed(d)') <= reasons'[d]
        BY <1>5, <2>0, <2>1, <4>1
      <4>3. effects[d] + Cardinality(Owed(d)') <= reasons'[d] + 1 /\ effects[d] <= reasons'[d]
        BY <1>5, <4>1, <4>2
      <4> QED
        BY <1>2, <4>3 DEF KeyInv
    <3>3. CASE ~ req[t].effect
      <4>1. reasons'[d] = reasons[d]
        BY <1>5, <3>1, <3>3
      <4>2. Cardinality(Owed(d)) = Cardinality(Owed(d)') + 1
        BY <2>1, <3>3
      <4>3. effects[d] + Cardinality(Owed(d)') <= reasons'[d] + 1 /\ effects[d] <= reasons'[d]
        BY <1>5, <2>0, <4>1, <4>2
      <4> QED
        BY <1>2, <4>3 DEF KeyInv
    <3> QED
      BY <3>2, <3>3
  <2> QED
    BY <2>2, <2>3
<1> QED
  BY <1>6, <1>7

\* The effect of a handler, for one key.
LEMMA TookIs ==
  ASSUME TypeOK, NEW t \in Threads, NEW effect \in BOOLEAN, Took(t, effect), NEW k \in Keys
  PROVE  effects'[k] = IF effect /\ req[t].key = k THEN effects[k] + 1 ELSE effects[k]
<1>1. CASE effect /\ req[t].key # NoKey
  <2>1. effects' = [effects EXCEPT ![req[t].key] = @ + 1]
    BY <1>1 DEF Took
  <2> QED
    BY <1>1, <2>1 DEF TypeOK
<1>2. CASE ~ (effect /\ req[t].key # NoKey)
  <2>1. effects' = effects
    BY <1>2 DEF Took
  <2> QED
    BY <1>2, <2>1, KeysAssumption
<1> QED
  BY <1>1, <1>2

\* A handler that has its effect is not owed it any more.
LEMMA RepeatHandle ==
  ASSUME TypeOK, RepeatInv, NEW t \in Threads, NEW status \in Statuses, NEW effect \in BOOLEAN,
         Handle(t, status, effect)
  PROVE  RepeatInv'
<1> SUFFICES ASSUME NEW d \in Keys PROVE KeyInv(d)'
  BY DEF RepeatInv
<1>0. req[t] \in Requests /\ At(t, "handle") /\ entries' = entries /\ reasons' = reasons
  BY DEF TypeOK, Handle
<1>1. PICK r : r = [req[t] EXCEPT !.pc = IF req[t].key = NoKey THEN "log" ELSE "remember",
                                  !.status = status, !.effect = effect]
  OBVIOUS
<1>2. /\ req' = [req EXCEPT ![t] = r]
      /\ req[t].key = NoKey => r.pc = "log"
      /\ req[t].key # NoKey => r.pc = "remember"
      /\ r.key = req[t].key /\ (r.effect <=> effect)
  <2>1. req' = [req EXCEPT ![t] = r]
    <3>1. req' = [req EXCEPT ![t].pc = IF req[t].key = NoKey THEN "log" ELSE "remember",
                             ![t].status = status, ![t].effect = effect]
      BY DEF Handle
    <3>2. req \in [Threads -> Requests]
      BY DEF TypeOK
    <3> QED
      BY <1>1, <3>1, <3>2
  <2>2. /\ req[t].key = NoKey => r.pc = "log"
        /\ req[t].key # NoKey => r.pc = "remember"
        /\ r.key = req[t].key /\ r.effect = effect
    BY <1>0, <1>1 DEF Requests
  <2> QED
    BY <2>1, <2>2
<1>3. effects'[d] = IF effect /\ req[t].key = d THEN effects[d] + 1 ELSE effects[d]
  BY TookIs DEF Handle
<1>4. /\ t \in Owed(d)' <=> req[t].key = d /\ ~ effect
      /\ t \in Running(d)' <=> req[t].key = d
      /\ t \in Owed(d) <=> req[t].key = d
      /\ t \in Running(d) <=> req[t].key = d
  <2>1. /\ t \in Owed(d)' <=> r.key = d /\ (r.pc = "handle" \/ (r.pc = "remember" /\ ~ r.effect))
        /\ t \in Running(d)' <=> r.key = d /\ r.pc \in {"handle", "remember"}
    BY <1>2, RunsMove
  <2>2. (t \in Owed(d) <=> req[t].key = d) /\ (t \in Running(d) <=> req[t].key = d)
    BY <1>0 DEF Owed, Running, At
  <2>3. req[t].key = d => req[t].key # NoKey
    BY KeysAssumption
  <2>4. CASE req[t].key = d
    BY <1>2, <2>1, <2>2, <2>3, <2>4
  <2>5. CASE req[t].key # d
    BY <1>2, <2>1, <2>2, <2>5
  <2> QED
    BY <2>4, <2>5
<1>5. CASE req[t].key = d /\ effect
  <2>1. Owed(d) \in SUBSET Threads /\ Owed(d)' \in SUBSET Threads /\ Owed(d)' \ {t} = Owed(d) \ {t}
    BY <1>2, RunsMove
  <2>2. Cardinality(Owed(d)) = Cardinality(Owed(d)') + 1 /\ Cardinality(Owed(d)') \in Nat
    BY <1>4, <1>5, <2>1, CardMoves
  <2>3. reasons[d] \in Nat /\ effects[d] \in Nat /\ effects'[d] = effects[d] + 1
    BY <1>3, <1>5 DEF TypeOK
  <2>4. effects[d] + Cardinality(Owed(d)) <= reasons[d] + 1
    BY DEF RepeatInv, KeyInv
  <2>5. effects'[d] + Cardinality(Owed(d)') <= reasons[d] + 1
    BY <2>2, <2>3, <2>4
  <2>6. Running(d)' # {}
    BY <1>4, <1>5
  <2> QED
    BY <1>0, <2>5, <2>6 DEF KeyInv
<1>6. CASE ~ (req[t].key = d /\ effect)
  <2>1. (t \in Owed(d) <=> t \in Owed(d)') /\ (t \in Running(d) <=> t \in Running(d)')
    BY <1>4, <1>6
  <2>2. Owed(d)' = Owed(d) /\ Running(d)' = Running(d)
    BY <1>2, <2>1, RunsMove
  <2>3. effects'[d] = effects[d]
    BY <1>3, <1>6
  <2> QED
    BY <1>0, <2>2, <2>3, KeyKeeps DEF RepeatInv
<1> QED
  BY <1>5, <1>6

\* A handler that panics takes its reason with it.
LEMMA RepeatPanic ==
  ASSUME TypeOK, RepeatInv, NEW t \in Threads, NEW effect \in BOOLEAN, Panic(t, effect)
  PROVE  RepeatInv'
<1> SUFFICES ASSUME NEW d \in Keys PROVE KeyInv(d)'
  BY DEF RepeatInv
<1>0. req[t] \in Requests /\ At(t, "handle") /\ entries' = entries /\ req' = [req EXCEPT ![t] = Free]
  BY DEF TypeOK, Panic
<1>1. effects'[d] = IF effect /\ req[t].key = d THEN effects[d] + 1 ELSE effects[d]
  BY TookIs DEF Panic
<1>2. reasons'[d] = IF effect /\ req[t].key = d THEN reasons[d] + 1 ELSE reasons[d]
  <2>1. CASE effect /\ req[t].key # NoKey
    <3>1. reasons' = [reasons EXCEPT ![req[t].key] = @ + 1]
      BY <2>1 DEF Panic
    <3> QED
      BY <2>1, <3>1 DEF TypeOK
  <2>2. CASE ~ (effect /\ req[t].key # NoKey)
    <3>1. reasons' = reasons
      BY <2>2 DEF Panic
    <3> QED
      BY <2>2, <3>1, KeysAssumption
  <2> QED
    BY <2>1, <2>2
<1>3. Free.key = NoKey
  BY DEF Free
<1>4. /\ t \notin Owed(d)' /\ t \notin Running(d)'
      /\ t \in Owed(d) <=> req[t].key = d
      /\ t \in Running(d) <=> req[t].key = d
  <2>1. (t \in Owed(d) <=> req[t].key = d) /\ (t \in Running(d) <=> req[t].key = d)
    BY <1>0 DEF Owed, Running, At
  <2>2. /\ t \in Owed(d)' => Free.key = d
        /\ t \in Running(d)' => Free.key = d
    BY <1>0, RunsMove
  <2> QED
    BY <1>3, <2>1, <2>2, KeysAssumption
<1>5. CASE req[t].key = d
  <2>1. Owed(d) \in SUBSET Threads /\ Owed(d)' \in SUBSET Threads /\ Owed(d)' \ {t} = Owed(d) \ {t}
    BY <1>0, RunsMove
  <2>2. Cardinality(Owed(d)) = Cardinality(Owed(d)') + 1 /\ Cardinality(Owed(d)') \in Nat
    BY <1>4, <1>5, <2>1, CardMoves
  <2>3. reasons[d] \in Nat /\ effects[d] \in Nat
    BY DEF TypeOK
  <2>4. effects[d] + Cardinality(Owed(d)) <= reasons[d] + 1
    BY DEF RepeatInv, KeyInv
  <2>5. CASE effect
    <3>1. effects'[d] = effects[d] + 1 /\ reasons'[d] = reasons[d] + 1
      BY <1>1, <1>2, <1>5, <2>5
    <3>2. effects'[d] + Cardinality(Owed(d)') <= reasons'[d] + 1 /\ effects'[d] <= reasons'[d]
      BY <2>2, <2>3, <2>4, <3>1
    <3> QED
      BY <3>2 DEF KeyInv
  <2>6. CASE ~ effect
    <3>1. effects'[d] = effects[d] /\ reasons'[d] = reasons[d]
      BY <1>1, <1>2, <2>6
    <3>2. effects'[d] + Cardinality(Owed(d)') <= reasons'[d] + 1 /\ effects'[d] <= reasons'[d]
      BY <2>2, <2>3, <2>4, <3>1
    <3> QED
      BY <3>2 DEF KeyInv
  <2> QED
    BY <2>5, <2>6
<1>6. CASE req[t].key # d
  <2>1. Owed(d)' = Owed(d) /\ Running(d)' = Running(d)
    BY <1>0, <1>4, <1>6, RunsMove
  <2> QED
    BY <1>0, <1>1, <1>2, <1>6, <2>1, KeyKeeps DEF RepeatInv
<1> QED
  BY <1>5, <1>6

\* A request that is logged has stored its reply, or has no key.
LEMMA RepeatLog ==
  ASSUME TypeOK, RepeatInv, NEW t \in Threads, Log(t)
  PROVE  RepeatInv'
<1> SUFFICES ASSUME NEW d \in Keys PROVE KeyInv(d)'
  BY DEF RepeatInv
<1>0. At(t, "log") /\ req' = [req EXCEPT ![t] = Free] /\ entries' = entries /\ effects' = effects /\ reasons' = reasons
  BY DEF Log, memory
<1>1. Free.pc = "free"
  BY DEF Free
<1>2. t \notin Owed(d)' /\ t \notin Running(d)' /\ t \notin Owed(d) /\ t \notin Running(d)
  BY <1>0, <1>1, RunsMove DEF At
<1>3. Owed(d)' = Owed(d) /\ Running(d)' = Running(d)
  BY <1>0, <1>2, RunsMove
<1> QED
  BY <1>0, <1>3, KeyKeeps DEF RepeatInv

\* A reply that is collected is a reason to run again.
LEMMA RepeatCollect ==
  ASSUME TypeOK, RepeatInv, gcEntries
  PROVE  RepeatInv'
<1> SUFFICES ASSUME NEW d \in Keys PROVE KeyInv(d)'
  BY DEF RepeatInv
<1>1. Owed(d)' = Owed(d) /\ Running(d)' = Running(d) /\ effects' = effects
  BY DEF gcEntries, Owed, Running, At
<1>2. \/ entries'[d] = entries[d] /\ reasons'[d] = reasons[d]
      \/ reasons'[d] = reasons[d] + 1
  BY DEF gcEntries
<1>3. CASE entries'[d] = entries[d] /\ reasons'[d] = reasons[d]
  BY <1>1, <1>3, KeyKeeps DEF RepeatInv
<1>4. CASE reasons'[d] = reasons[d] + 1
  <2>1. reasons[d] \in Nat /\ effects[d] \in Nat /\ Cardinality(Owed(d)) \in Nat
    BY CardPositive DEF TypeOK, Owed
  <2>2. effects[d] + Cardinality(Owed(d)) <= reasons[d] + 1
    BY DEF RepeatInv, KeyInv
  <2>3. effects[d] + Cardinality(Owed(d)) <= reasons'[d] + 1 /\ effects[d] <= reasons'[d]
    BY <1>4, <2>1, <2>2
  <2> QED
    BY <1>1, <2>3 DEF KeyInv
<1> QED
  BY <1>2, <1>3, <1>4

\* After a restart the replies and the runs that were lost are all accounted for.
LEMMA RepeatCrash ==
  ASSUME TypeOK, RepeatInv, Crash
  PROVE  RepeatInv'
<1> SUFFICES ASSUME NEW d \in Keys PROVE KeyInv(d)'
  BY DEF RepeatInv
<1> DEFINE Lost == {t \in Threads : req[t].key = d /\ req[t].effect}
<1>1. reasons'[d] = reasons[d] + (IF entries[d] = Never THEN 0 ELSE 1) + Cardinality(Lost)
  BY DEF Crash
<1>2. Lost \in SUBSET Threads /\ Owed(d) \in SUBSET Threads
  BY DEF Owed
<1>3. Owed(d)' = {} /\ effects'[d] = effects[d]
  BY KeysAssumption DEF Owed, Crash, Free
<1>4. Running(d) = {} \/ Lost # {} \/ Owed(d) # {}
  BY DEF Running, Owed, At
<1> HIDE DEF Lost
<1>5. /\ Cardinality(Lost) \in Nat /\ (Lost # {} => Cardinality(Lost) >= 1)
      /\ Cardinality(Owed(d)) \in Nat /\ (Owed(d) # {} => Cardinality(Owed(d)) >= 1)
  BY <1>2, CardPositive
<1>6. {} \in SUBSET Threads /\ Cardinality({}) = 0
  BY FS_EmptySet
<1>7. reasons[d] \in Nat /\ effects[d] \in Nat
  BY DEF TypeOK
<1>8. /\ effects[d] + Cardinality(Owed(d)) <= reasons[d] + 1
      /\ entries[d] = Never /\ Running(d) = {} => effects[d] <= reasons[d]
  BY DEF RepeatInv, KeyInv
<1>9. effects[d] <= reasons'[d] /\ reasons'[d] \in Nat
  <2>1. CASE entries[d] # Never
    BY <1>1, <1>5, <1>7, <1>8, <2>1
  <2>2. CASE entries[d] = Never /\ Running(d) = {}
    BY <1>1, <1>5, <1>7, <1>8, <2>2
  <2>3. CASE entries[d] = Never /\ Lost # {}
    BY <1>1, <1>5, <1>7, <1>8, <2>3
  <2>4. CASE entries[d] = Never /\ Owed(d) # {}
    BY <1>1, <1>5, <1>7, <1>8, <2>4
  <2> QED
    BY <1>4, <2>1, <2>2, <2>3, <2>4
<1>10. effects[d] + 0 <= reasons'[d] + 1
  BY <1>7, <1>9
<1> QED
  BY <1>3, <1>6, <1>9, <1>10 DEF KeyInv

\* Every step keeps the account of effects.
LEMMA RepeatStep == TypeOK /\ RepeatInv /\ [Next]_vars => RepeatInv'
<1> SUFFICES ASSUME TypeOK, RepeatInv, [Next]_vars PROVE RepeatInv'
  OBVIOUS
<1>1. CASE UNCHANGED <<req, memory>>
  <2>1. \A k \in Keys : Owed(k)' = Owed(k) /\ Running(k)' = Running(k)
    BY <1>1 DEF Owed, Running, At
  <2> QED
    BY <1>1, <2>1, KeyKeeps DEF RepeatInv, memory
<1>2. CASE Tick \/ gcBuckets \/ UNCHANGED vars
  BY <1>1, <1>2 DEF Tick, gcBuckets, vars
<1> QED
  BY <1>2, RepeatArrive, RepeatLookup, RepeatRemember, RepeatHandle, RepeatPanic, RepeatLog, RepeatCollect,
     RepeatCrash DEF Next

\* Initially there was no effect and there is no run.
LEMMA RepeatInit == Init => RepeatInv
<1> SUFFICES ASSUME Init, NEW k \in Keys PROVE KeyInv(k)
  BY DEF RepeatInv
<1>1. Owed(k) = {} /\ effects[k] = 0 /\ reasons[k] = 0
  BY DEF Init, Owed, At, Free
<1>2. Cardinality({}) = 0
  BY FS_EmptySet
<1> QED
  BY <1>1, <1>2 DEF KeyInv

\* Under one Idempotency-Key an effect is repeated only for a reason of its own,
\* however many requests carry the key, overlap, panic or are cut off by a restart.
THEOREM EffectsAreAccounted == Spec => []RepeatsHaveReasons
<1>1. TypeOK /\ RepeatInv => RepeatsHaveReasons
  <2> SUFFICES ASSUME TypeOK, RepeatInv, NEW k \in Keys PROVE effects[k] <= 1 + reasons[k]
    BY DEF RepeatsHaveReasons
  <2>1. reasons[k] \in Nat /\ effects[k] \in Nat /\ Cardinality(Owed(k)) \in Nat
    BY CardPositive DEF TypeOK, Owed
  <2>2. effects[k] + Cardinality(Owed(k)) <= reasons[k] + 1
    BY DEF RepeatInv, KeyInv
  <2> QED
    BY <2>1, <2>2
<1> QED
  BY <1>1, RepeatInit, RepeatStep, TypeCorrect, PTL DEF Spec

-----------------------------------------------------------------------------
(* The rate limiter *)

\* What the requests of a client cost from the i-th on, with the tokens it has left,
\* and what it was given for them: a burst and what the rate added since.
Cost(n, i, left) == (n - i + 1) * Scale + left
Grant(now, since) == Full + (now - since) * Rate
Spent(c, i) == Cost(Len(admitted[c]), i, Available(c))
Given(c, i) == Grant(clock, admitted[c][i])

\* A client never spends more than it is given, whatever request one counts from, and
\* unless its bucket is full there is a request from which on it spent all of it.
ClientInv(c) ==
    /\ \A i \in DOMAIN admitted[c] : admitted[c][i] <= clock /\ Spent(c, i) <= Given(c, i)
    /\ Available(c) = Full \/ \E i \in DOMAIN admitted[c] : Spent(c, i) >= Given(c, i)
    /\ c \in refused => Available(c) < Scale

\* The bound on every stretch of a client's requests.
ClientBound(c) ==
    \A i, j \in DOMAIN admitted[c] :
        i <= j => Cost(j, i, 0) <= Grant(admitted[c][j], admitted[c][i])

RateInv == \A c \in Clients : ClientInv(c) /\ ClientBound(c)

\* A request more costs a token.
LEMMA Costs ==
  ASSUME NEW n \in Int, NEW i \in Int, NEW left \in Int
  PROVE  Cost(n, i, left) \in Int /\ Cost(n + 1, i, left - Scale) = Cost(n, i, left)
<1>1. PICK k : k = n - i + 1
  OBVIOUS
<1>2. k \in Int /\ n + 1 - i + 1 = k + 1 /\ Scale \in Int
  BY <1>1, FullIs
<1>3. k * Scale \in Int /\ (k + 1) * Scale = k * Scale + Scale
  BY <1>2
<1> QED
  BY <1>1, <1>2, <1>3 DEF Cost

\* The last request costs its token.
LEMMA LastCosts ==
  ASSUME NEW n \in Int, NEW left \in Int
  PROVE  Cost(n, n, left - Scale) = left
<1>1. n - n + 1 = 1 /\ Scale \in Int /\ 1 * Scale = Scale
  BY FullIs
<1> QED
  BY <1>1 DEF Cost

\* What is left counts as it is.
LEMMA LeftCosts ==
  ASSUME NEW n \in Int, NEW i \in Int, NEW left \in Int, NEW more \in Int
  PROVE  Cost(n, i, more) = Cost(n, i, left) + (more - left)
<1>1. PICK k : k = (n - i + 1) * Scale
  OBVIOUS
<1>2. k \in Int
  BY <1>1, FullIs
<1> QED
  BY <1>1, <1>2 DEF Cost

\* The grant of a stretch of time grows with it.
LEMMA Grants ==
  ASSUME NEW now \in Int, NEW since \in Int
  PROVE  /\ Grant(now, since) \in Int
         /\ Grant(now + 1, since) = Grant(now, since) + Rate
         /\ Grant(now, now) = Full
<1>1. PICK k : k = now - since
  OBVIOUS
<1>2. k \in Int /\ now + 1 - since = k + 1 /\ now - now = 0 /\ Rate \in Int /\ Full \in Int
  BY <1>1, FullIs
<1>3. k * Rate \in Int /\ (k + 1) * Rate = k * Rate + Rate /\ 0 * Rate = 0
  BY <1>2
<1> QED
  BY <1>1, <1>2, <1>3 DEF Grant

\* A bucket that was just used holds its tokens.
LEMMA JustUsed ==
  ASSUME TypeOK, NEW c \in Clients, NEW n \in 0 .. Full, clock' = clock,
         buckets'[c] = [tokens |-> n, last |-> clock]
  PROVE  Available(c)' = n
<1>1. clock \in Nat /\ n \in Nat /\ n <= Full /\ Full \in Nat
  BY FullIs DEF TypeOK
<1>2. buckets'[c] # NoBucket
  <2>1. [tokens |-> n, last |-> clock].last = clock /\ NoBucket.last = -1
    BY DEF NoBucket
  <2> QED
    BY <1>1, <2>1
<1>3. (clock - clock) * Rate = 0
  BY <1>1, FullIs
<1>4. refill([tokens |-> n, last |-> clock], clock) = n
  BY <1>1, <1>3 DEF refill, Least, Full
<1> QED
  BY <1>2, <1>4 DEF Available

\* Where neither the bucket nor the clock moves, the tokens stay.
LEMMA Unused ==
  ASSUME NEW c, clock' = clock, buckets'[c] = buckets[c]
  PROVE  Available(c)' = Available(c)
  BY DEF Available

\* The collector drops a bucket only when it has filled up again.
LEMMA CollectedIsFull ==
  ASSUME TypeOK, gcBuckets, NEW c \in Clients
  PROVE  Available(c)' = Available(c)
<1>0. clock' = clock
  BY DEF gcBuckets, sent
<1>1. CASE ~ (buckets[c].last < clock - Idle)
  <2>1. buckets'[c] = buckets[c]
    BY <1>1 DEF gcBuckets
  <2> QED
    BY <1>0, <2>1, Unused
<1>2. CASE buckets[c].last < clock - Idle
  <2>1. buckets'[c] = NoBucket
    BY <1>2 DEF gcBuckets
  <2>2. Available(c)' = Full
    BY <2>1 DEF Available
  <2>3. CASE buckets[c] = NoBucket
    BY <2>2, <2>3 DEF Available
  <2>4. CASE buckets[c] # NoBucket
    <3> DEFINE age == clock - buckets[c].last
               more == buckets[c].tokens + age * Rate
    <3>1. /\ clock \in Nat /\ buckets[c].last \in Int /\ buckets[c].last <= clock
          /\ buckets[c].tokens \in 0 .. Full /\ Idle \in Nat
      BY LimitsAssumption DEF TypeOK, Bucket
    <3>2. age \in Nat /\ age >= Idle
      BY <1>2, <3>1
    <3>3. refill(buckets[c], clock) = IF Full < more THEN Full ELSE more
      BY RefillIs
    <3>4. Idle * Rate >= Full
      BY IdleAssumption DEF Full
    <3> HIDE DEF age
    <3>5. age * Rate >= Idle * Rate /\ age * Rate \in Nat /\ Idle * Rate \in Nat
      BY <3>1, <3>2, FullIs
    <3>6. more >= Full /\ more \in Nat
      BY <3>1, <3>4, <3>5, FullIs
    <3>7. refill(buckets[c], clock) = Full
      BY <3>3, <3>6, FullIs
    <3> QED
      BY <2>2, <2>4, <3>7 DEF Available
  <2> QED
    BY <2>3, <2>4
<1> QED
  BY <1>1, <1>2

\* An instant adds the rate, up to the burst.
LEMMA TickAdds ==
  ASSUME TypeOK, NEW c \in Clients, clock' = clock + 1, buckets'[c] = buckets[c]
  PROVE  Available(c)' = IF Full < Available(c) + Rate THEN Full ELSE Available(c) + Rate
<1>1. CASE buckets[c] = NoBucket
  <2>1. Available(c)' = Full /\ Available(c) = Full
    BY <1>1 DEF Available
  <2> QED
    BY <2>1, FullIs
<1>2. CASE buckets[c] # NoBucket
  <2> DEFINE age == clock - buckets[c].last
  <2>1. /\ clock \in Nat /\ buckets[c].last \in Int /\ buckets[c].last <= clock
        /\ buckets[c].tokens \in 0 .. Full
    BY DEF TypeOK, Bucket
  <2>2. age \in Nat /\ clock + 1 - buckets[c].last = age + 1
    BY <2>1
  <2>3. Available(c) = IF Full < buckets[c].tokens + age * Rate THEN Full ELSE buckets[c].tokens + age * Rate
    BY <1>2, RefillIs DEF Available
  <2>4. Available(c)' = IF Full < buckets[c].tokens + (age + 1) * Rate THEN Full ELSE buckets[c].tokens + (age + 1) * Rate
    <3>1. Available(c)' = refill(buckets[c], clock + 1)
      BY <1>2 DEF Available
    <3>2. PICK b : b = buckets[c]
      OBVIOUS
    <3>3. refill(b, clock + 1) = Least(Burst * Scale, b.tokens + ((clock + 1) - b.last) * Rate)
      BY Zenon DEF refill
    <3>4. (clock + 1) - b.last = age + 1
      BY <2>1, <2>2, <3>2
    <3>5. refill(buckets[c], clock + 1) = Least(Full, buckets[c].tokens + (age + 1) * Rate)
      BY <3>2, <3>3, <3>4 DEF Full
    <3> QED
      BY <3>1, <3>5 DEF Least
  <2> HIDE DEF age
  <2>5. (age + 1) * Rate = age * Rate + Rate /\ age * Rate \in Nat
    BY <2>2, FullIs
  <2> QED
    BY <2>1, <2>3, <2>4, <2>5, FullIs
<1> QED
  BY <1>1, <1>2

\* A step that moves neither the clock nor a client's requests and tokens, and
\* refuses it nothing, keeps its account.
LEMMA ClientKeeps ==
  ASSUME NEW c \in Clients, ClientInv(c), clock' = clock, admitted'[c] = admitted[c],
         Available(c)' = Available(c), c \in refused' => Available(c) < Scale
  PROVE  ClientInv(c)'
  BY DEF ClientInv, Spent, Given

\* A request that is let through costs a token and ends the stretches before it.
LEMMA ClientAdmitted ==
  ASSUME TypeOK, NEW c \in Clients, ClientInv(c), ClientBound(c), Available(c) >= Scale, clock' = clock,
         admitted'[c] = Append(admitted[c], clock), Available(c)' = Available(c) - Scale, c \notin refused'
  PROVE  ClientInv(c)' /\ ClientBound(c)'
<1>0. PICK n, a, s, now : n = Len(admitted[c]) /\ a = Available(c) /\ s = admitted[c] /\ now = clock
  OBVIOUS
<1>1. n \in Nat /\ DOMAIN s = 1 .. n /\ now \in Nat /\ s \in Seq(Nat)
  BY <1>0 DEF TypeOK
<1>2. PICK z : z = Append(s, now)
  OBVIOUS
<1>3. /\ Len(z) = n + 1 /\ DOMAIN z = 1 .. n + 1 /\ z[n + 1] = now
      /\ \A i \in 1 .. n : z[i] = s[i] /\ z[i] \in Nat
  BY <1>0, <1>1, <1>2
<1>4. a \in 0 .. Full /\ a >= Scale /\ Full \in Nat /\ Scale \in Nat /\ a \in Int /\ a - Scale \in Int /\ n + 1 \in Int
  BY <1>0, <1>1, AvailableType, FullIs
<1>5. /\ \A i : Spent(c, i) = Cost(n, i, a) /\ Given(c, i) = Grant(now, s[i])
      /\ \A i : Spent(c, i)' = Cost(n + 1, i, a - Scale) /\ Given(c, i)' = Grant(now, z[i])
      /\ admitted'[c] = z
  BY <1>0, <1>2, <1>3 DEF Spent, Given
<1>6. \A i \in 1 .. n : s[i] <= now /\ Cost(n, i, a) <= Grant(now, s[i])
  BY <1>0, <1>1, <1>5 DEF ClientInv
<1>7. Cost(n + 1, n + 1, a - Scale) = a /\ Grant(now, now) = Full
  <2>1. PICK m : m = n + 1 /\ m \in Int
    BY <1>4
  <2>2. Cost(m, m, a - Scale) = a
    BY <1>4, <2>1, LastCosts
  <2>3. Grant(now, now) = Full
    BY <1>1, Grants
  <2> QED
    BY <2>1, <2>2, <2>3
<1>8. ASSUME NEW i \in 1 .. n + 1
      PROVE  z[i] \in Nat /\ z[i] <= now /\ Cost(n + 1, i, a - Scale) <= Grant(now, z[i])
  <2>1. CASE i = n + 1
    <3>1. Cost(n + 1, n + 1, a - Scale) = a /\ Grant(now, now) = Full
      BY <1>7
    <3> QED
      BY <1>1, <1>3, <1>4, <2>1, <3>1
  <2>2. CASE i \in 1 .. n
    <3>1. Cost(n + 1, i, a - Scale) = Cost(n, i, a)
      BY <1>1, <1>4, <2>2, Costs
    <3> QED
      BY <1>3, <1>6, <2>2, <3>1
  <2> QED
    BY <1>1, <2>1, <2>2
<1>9. \E i \in 1 .. n + 1 : Cost(n + 1, i, a - Scale) >= Grant(now, z[i])
  <2>1. CASE a = Full
    <3>1. Cost(n + 1, n + 1, a - Scale) = a /\ Grant(now, now) = Full /\ n + 1 \in 1 .. n + 1
      BY <1>1, <1>7
    <3> QED
      BY <1>3, <1>4, <2>1, <3>1
  <2>2. CASE a # Full
    <3>1. PICK i \in 1 .. n : Cost(n, i, a) >= Grant(now, s[i])
      BY <1>0, <1>1, <1>5, <2>2 DEF ClientInv
    <3>2. Cost(n + 1, i, a - Scale) = Cost(n, i, a) /\ i \in 1 .. n + 1
      BY <1>1, <1>4, Costs
    <3> QED
      BY <1>3, <3>1, <3>2
  <2> QED
    BY <2>1, <2>2
<1>10. ClientInv(c)'
  BY <1>0, <1>3, <1>5, <1>8, <1>9 DEF ClientInv
<1>11. ASSUME NEW i \in 1 .. n + 1, NEW j \in 1 .. n + 1, i <= j
       PROVE  Cost(j, i, 0) <= Grant(z[j], z[i])
  <2>1. CASE j \in 1 .. n
    <3>1. i \in 1 .. n
      BY <1>1, <1>11, <2>1
    <3>2. z[i] = s[i] /\ z[j] = s[j]
      BY <1>3, <2>1, <3>1
    <3>3. Cost(j, i, 0) <= Grant(s[j], s[i])
      BY <1>0, <1>1, <1>11, <2>1, <3>1 DEF ClientBound
    <3> QED
      BY <3>2, <3>3
  <2>2. CASE j = n + 1
    <3>1. Cost(j, i, a - Scale) <= Grant(z[j], z[i])
      BY <1>3, <1>8, <2>2
    <3>2. Cost(j, i, a - Scale) = Cost(j, i, 0) + (a - Scale - 0) /\ Cost(j, i, 0) \in Int
      <4>1. PICK m : m = a - Scale /\ m \in Int
        BY <1>4
      <4>2. i \in Int /\ j \in Int /\ 0 \in Int
        OBVIOUS
      <4>3. Cost(j, i, m) = Cost(j, i, 0) + (m - 0)
        BY <4>1, <4>2, LeftCosts
      <4>4. Cost(j, i, 0) \in Int
        BY <4>2, Costs
      <4> QED
        BY <4>1, <4>3, <4>4
    <3>3. Grant(z[j], z[i]) \in Int
      <4>1. z[i] \in Int /\ z[j] \in Int
        BY <1>8
      <4> QED
        BY <4>1, Grants
    <3> QED
      BY <1>4, <3>1, <3>2, <3>3
  <2> QED
    BY <1>1, <2>1, <2>2
<1>12. ClientBound(c)'
  BY <1>3, <1>5, <1>11 DEF ClientBound
<1> QED
  BY <1>10, <1>12

\* With the clock, a client is given what its bucket is refilled by, or more.
LEMMA ClientTick ==
  ASSUME TypeOK, NEW c \in Clients, ClientInv(c), clock' = clock + 1, admitted'[c] = admitted[c],
         buckets'[c] = buckets[c], c \notin refused'
  PROVE  ClientInv(c)'
<1>0. PICK n, a, b, s, now : n = Len(admitted[c]) /\ a = Available(c) /\ b = Available(c)' /\ s = admitted[c] /\ now = clock
  OBVIOUS
<1>1. b = IF Full < a + Rate THEN Full ELSE a + Rate
  BY <1>0, TickAdds
<1>2. /\ a \in 0 .. Full /\ Full \in Nat /\ Rate \in Nat /\ Rate > 0 /\ now \in Nat /\ n \in Nat
      /\ DOMAIN s = 1 .. n /\ s \in Seq(Nat) /\ b \in Int
  BY <1>0, <1>1, AvailableType, FullIs DEF TypeOK
<1>3. /\ \A i : Spent(c, i) = Cost(n, i, a) /\ Given(c, i) = Grant(now, s[i])
      /\ \A i : Spent(c, i)' = Cost(n, i, b) /\ Given(c, i)' = Grant(now + 1, s[i])
      /\ admitted'[c] = s
  BY <1>0 DEF Spent, Given
<1>4. ASSUME NEW i \in 1 .. n
      PROVE  /\ Grant(now + 1, s[i]) = Grant(now, s[i]) + Rate /\ Grant(now, s[i]) \in Int
             /\ Cost(n, i, b) = Cost(n, i, a) + (b - a) /\ Cost(n, i, a) \in Int
             /\ s[i] <= now + 1 /\ Cost(n, i, a) <= Grant(now, s[i])
  <2>1. s[i] \in Nat
    BY <1>2
  <2>2. s[i] <= now /\ Cost(n, i, a) <= Grant(now, s[i])
    BY <1>0, <1>2, <1>3 DEF ClientInv
  <2>3. Grant(now + 1, s[i]) = Grant(now, s[i]) + Rate /\ Grant(now, s[i]) \in Int
    BY <1>2, <2>1, Grants
  <2>4. Cost(n, i, b) = Cost(n, i, a) + (b - a) /\ Cost(n, i, a) \in Int
    <3>1. n \in Int /\ i \in Int /\ a \in Int /\ b \in Int
      BY <1>2
    <3>2. Cost(n, i, a) \in Int
      BY <3>1, Costs
    <3>3. Cost(n, i, b) = Cost(n, i, a) + (b - a)
      BY <3>1, LeftCosts
    <3> QED
      BY <3>2, <3>3
  <2> QED
    BY <1>2, <2>1, <2>2, <2>3, <2>4
<1>5. \A i \in 1 .. n : s[i] <= now + 1 /\ Cost(n, i, b) <= Grant(now + 1, s[i])
  BY <1>1, <1>2, <1>4
<1>6. b = Full \/ \E i \in 1 .. n : Cost(n, i, b) >= Grant(now + 1, s[i])
  <2>1. CASE Full < a + Rate
    BY <1>1, <2>1
  <2>2. CASE ~ (Full < a + Rate)
    <3>1. b = a + Rate /\ a # Full
      BY <1>1, <1>2, <2>2
    <3>2. PICK i \in 1 .. n : Cost(n, i, a) >= Grant(now, s[i])
      BY <1>0, <1>2, <1>3, <3>1 DEF ClientInv
    <3>3. Cost(n, i, b) >= Grant(now + 1, s[i])
      <4>1. /\ Grant(now + 1, s[i]) = Grant(now, s[i]) + Rate /\ Grant(now, s[i]) \in Int
            /\ Cost(n, i, b) = Cost(n, i, a) + (b - a) /\ Cost(n, i, a) \in Int
        BY <1>4
      <4> QED
        BY <1>2, <3>1, <3>2, <4>1
    <3> QED
      BY <3>3
  <2> QED
    BY <2>1, <2>2
<1> QED
  BY <1>0, <1>2, <1>3, <1>5, <1>6 DEF ClientInv

\* The bound of the property is the bound of every client.
LEMMA BoundIs == TypeOK => (RateBound <=> \A c \in Clients : ClientBound(c))
<1> SUFFICES ASSUME TypeOK, NEW c \in Clients, NEW i \in DOMAIN admitted[c], NEW j \in DOMAIN admitted[c]
             PROVE  Cost(j, i, 0) = (j - i + 1) * Scale
  BY DEF RateBound, ClientBound, Grant, Full
<1>1. PICK k : k = (j - i + 1) * Scale
  OBVIOUS
<1>2. i \in Int /\ j \in Int
  BY DEF TypeOK
<1>3. k \in Int
  BY <1>1, <1>2, FullIs
<1> QED
  BY <1>1, <1>3 DEF Cost

\* The account of one client, and the bound on its requests, after an arrival.
LEMMA RateArrive ==
  ASSUME TypeOK, NEW t \in Threads, NEW d \in Clients, NEW k, NEW valid, Arrive(t, d, k, valid),
         NEW c \in Clients, ClientInv(c), ClientBound(c)
  PROVE  ClientInv(c)' /\ ClientBound(c)'
<1>0. clock' = clock /\ buckets' = [buckets EXCEPT ![d] = allow(d).bucket] /\ buckets \in [Clients -> Bucket]
  BY DEF Arrive, TypeOK
<1>1. CASE c # d
  <2>1. admitted'[c] = admitted[c] /\ c \notin refused'
    BY <1>1 DEF Arrive, TypeOK
  <2>2. buckets'[c] = buckets[c]
    BY <1>0, <1>1
  <2>3. Available(c)' = Available(c)
    BY <1>0, <2>2, Unused
  <2> QED
    BY <1>0, <2>1, <2>3, ClientKeeps DEF ClientBound
<1>2. CASE c = d /\ Available(c) >= Scale
  <2>1. allow(c).ok
    BY <1>2, AllowIs
  <2>2. admitted' = [admitted EXCEPT ![c] = Append(@, clock)] /\ refused' = {}
    BY <1>2, <2>1 DEF Arrive
  <2>3. admitted'[c] = Append(admitted[c], clock) /\ c \notin refused'
    BY <2>2 DEF TypeOK
  <2>4. PICK n : n = Available(c) - Scale
    OBVIOUS
  <2>5. n \in 0 .. Full
    BY <1>2, <2>4, AvailableType, FullIs
  <2>6. buckets'[c] = [tokens |-> n, last |-> clock]
    BY <1>0, <1>2, <2>4, AllowIs
  <2>7. Available(c)' = Available(c) - Scale
    BY <1>0, <2>4, <2>5, <2>6, JustUsed
  <2> QED
    BY <1>0, <1>2, <2>3, <2>7, ClientAdmitted
<1>3. CASE c = d /\ ~ (Available(c) >= Scale)
  <2>1. ~ allow(c).ok
    BY <1>3, AllowIs
  <2>2. admitted' = admitted /\ Available(c) < Scale
    BY <1>3, <2>1, AvailableType, FullIs DEF Arrive
  <2>3. PICK n : n = Available(c)
    OBVIOUS
  <2>4. n \in 0 .. Full
    BY <2>3, AvailableType
  <2>5. buckets'[c] = [tokens |-> n, last |-> clock]
    BY <1>0, <1>3, <2>3, AllowIs
  <2>6. Available(c)' = Available(c)
    BY <1>0, <2>3, <2>4, <2>5, JustUsed
  <2> QED
    BY <1>0, <2>2, <2>6, ClientKeeps DEF ClientBound
<1> QED
  BY <1>1, <1>2, <1>3

\* Every step keeps the accounts of the clients.
LEMMA RateStep == TypeOK /\ RateInv /\ [Next]_vars => RateInv'
<1> SUFFICES ASSUME TypeOK, RateInv, [Next]_vars, NEW c \in Clients PROVE ClientInv(c)' /\ ClientBound(c)'
  BY DEF RateInv
<1>0. ClientInv(c) /\ ClientBound(c)
  BY DEF RateInv
<1>1. ASSUME NEW t \in Threads, NEW d \in Clients, NEW k \in Keys \cup {NoKey}, NEW valid \in BOOLEAN, Arrive(t, d, k, valid)
      PROVE  ClientInv(c)' /\ ClientBound(c)'
  BY <1>0, <1>1, RateArrive
<1>2. CASE gcBuckets
  <2>1. Available(c)' = Available(c) /\ clock' = clock /\ admitted' = admitted /\ refused' = refused
    BY <1>2, CollectedIsFull DEF gcBuckets, sent
  <2>2. c \in refused => Available(c) < Scale
    BY <1>0 DEF ClientInv
  <2> QED
    BY <1>0, <2>1, <2>2, ClientKeeps DEF ClientBound
<1>3. CASE Tick
  <2>1. clock' = clock + 1 /\ admitted' = admitted /\ buckets' = buckets /\ refused' = {}
    BY <1>3 DEF Tick
  <2> QED
    BY <1>0, <2>1, ClientTick DEF ClientBound
<1>4. CASE Crash
  <2>1. admitted'[c] = <<>> /\ buckets'[c] = NoBucket /\ refused' = {}
    BY <1>4 DEF Crash
  <2>2. DOMAIN admitted'[c] = {} /\ Available(c)' = Full
    BY <2>1 DEF Available
  <2> QED
    BY <2>1, <2>2 DEF ClientInv, ClientBound
<1>5. CASE UNCHANGED <<clock, limiter>>
  <2>1. clock' = clock /\ buckets' = buckets /\ admitted' = admitted /\ refused' = refused
    BY <1>5 DEF limiter
  <2>2. Available(c)' = Available(c) /\ (c \in refused => Available(c) < Scale)
    BY <1>0, <2>1, Unused DEF ClientInv
  <2> QED
    BY <1>0, <2>1, <2>2, ClientKeeps DEF ClientBound
<1> QED
  BY <1>1, <1>2, <1>3, <1>4, <1>5, ZenonT(60)
     DEF Next, Lookup, Remember, Log, Handle, Panic, gcEntries, vars, sent

\* Initially every bucket is full and nothing was let through.
LEMMA RateInit == Init => RateInv
<1> SUFFICES ASSUME Init PROVE RateInv
  OBVIOUS
<1>1. \A c \in Clients : admitted[c] = <<>> /\ Available(c) = Full /\ refused = {}
  BY DEF Init, Available
<1>2. \A c \in Clients : DOMAIN admitted[c] = {}
  BY <1>1
<1> QED
  BY <1>1, <1>2 DEF RateInv, ClientBound, ClientInv

\* The invariant of the limiter, for the two theorems about it.
LEMMA RateInvariant == Spec => [](TypeOK /\ RateInv)
  BY RateInit, RateStep, TypeCorrect, PTL DEF Spec

\* However requests, refills, collections and restarts interleave, a client gets no
\* more than a burst and what the rate adds, in every stretch of time since the start.
THEOREM RateIsBounded == Spec => []RateBound
<1>1. TypeOK /\ RateInv => RateBound
  BY BoundIs DEF RateInv
<1> QED
  BY <1>1, RateInvariant, PTL

\* The limiter refuses a request only when one more would have broken that bound: no
\* token is lost by a refusal, a refill or a collection.
THEOREM RefusalsAreJustified == Spec => []RefusalsAreDue
<1>1. TypeOK /\ RateInv => RefusalsAreDue
  <2> SUFFICES ASSUME TypeOK, RateInv, NEW c \in refused
               PROVE  \E i \in DOMAIN admitted[c] :
                        (Len(admitted[c]) - i + 2) * Scale > Burst * Scale + (clock - admitted[c][i]) * Rate
    BY DEF RefusalsAreDue
  <2>1. c \in Clients /\ Available(c) < Scale /\ Available(c) \in 0 .. Full /\ Scale \in Nat /\ Scale <= Full /\ Full \in Nat
    <3>1. c \in Clients
      BY DEF TypeOK
    <3> QED
      BY <3>1, AvailableType, FullIs DEF RateInv, ClientInv
  <2>2. Available(c) # Full
    BY <2>1
  <2>3. PICK i \in DOMAIN admitted[c] : Spent(c, i) >= Given(c, i)
    BY <2>1, <2>2 DEF RateInv, ClientInv
  <2>4. PICK n, a, since : n = Len(admitted[c]) /\ a = Available(c) /\ since = admitted[c][i]
    OBVIOUS
  <2>5. n \in Int /\ i \in Int /\ since \in Int /\ clock \in Int /\ a \in Int /\ a < Scale
    BY <2>1, <2>4 DEF TypeOK
  <2>7. PICK m : m = n - i + 1
    OBVIOUS
  <2>8. m \in Int /\ n - i + 2 = m + 1
    BY <2>5, <2>7
  <2>9. (m + 1) * Scale = m * Scale + Scale /\ m * Scale \in Int
    BY <2>1, <2>8
  <2>10. Spent(c, i) = m * Scale + a
    BY <2>4, <2>7 DEF Spent, Cost
  <2>11. Given(c, i) = Full + (clock - since) * Rate /\ Given(c, i) \in Int
    <3>1. Given(c, i) = Grant(clock, since)
      BY <2>4 DEF Given
    <3> QED
      BY <2>5, <3>1, Grants DEF Grant
  <2>12. (m + 1) * Scale > Given(c, i)
    BY <2>1, <2>3, <2>5, <2>9, <2>10, <2>11
  <2> QED
    BY <2>4, <2>8, <2>11, <2>12 DEF Full
<1> QED
  BY <1>1, RateInvariant, PTL

-----------------------------------------------------------------------------
(* The gauge and the counters *)

Behind == {t \in Threads : ~ At(t, "free")}

\* The pairs below the counts of a family of counters: as many as what was counted.
Below(S, f) == {x \in S \X (1 .. MaxRequests) : x[2] <= f[x[1]]}
Lengths == [c \in Clients |-> Len(admitted[c])]
Counted == Cardinality(Below(Statuses, observed))
Passed == Cardinality(Below(Clients, Lengths))

\* No counter reaches its bound, for there are no more requests than that.
GaugeInv ==
    /\ Cardinality(Behind) <= inFlight /\ inFlight <= Cardinality(Behind) + failures
    /\ inFlight + Counted = Passed
    /\ Passed <= requests /\ requests <= MaxRequests
    /\ \A s \in Statuses : observed[s] <= MaxRequests
    /\ \A c \in Clients : Len(admitted[c]) <= MaxRequests

\* They are finitely many, and no counter exceeds their number.
LEMMA BelowBounds ==
  ASSUME NEW S, IsFiniteSet(S), NEW f \in [S -> Nat], NEW s \in S, f[s] <= MaxRequests
  PROVE  IsFiniteSet(Below(S, f)) /\ Cardinality(Below(S, f)) \in Nat /\ f[s] <= Cardinality(Below(S, f))
<1>1. IsFiniteSet(1 .. MaxRequests)
  BY BoundsAssumption, FS_Interval
<1>2. IsFiniteSet(S \X (1 .. MaxRequests))
  BY <1>1, FS_Product
<1>3. IsFiniteSet(Below(S, f)) /\ Cardinality(Below(S, f)) \in Nat
  BY <1>2, FS_Subset, FS_CardinalityType DEF Below
<1> DEFINE Mine == {s} \X (1 .. f[s])
<1>4. IsFiniteSet(1 .. f[s]) /\ Cardinality(1 .. f[s]) = f[s]
  BY FS_Interval
<1>5. IsFiniteSet({s}) /\ Cardinality({s}) = 1
  BY FS_Singleton
<1>6. Cardinality(Mine) = 1 * f[s]
  BY <1>4, <1>5, FS_Product, ZenonT(60)
<1>7. Mine \subseteq Below(S, f)
  BY BoundsAssumption DEF Below
<1>8. Cardinality(Mine) <= Cardinality(Below(S, f))
  BY <1>3, <1>7, FS_Subset
<1> QED
  BY <1>3, <1>6, <1>8

\* A counter that moves adds one to them.
LEMMA BelowCounts ==
  ASSUME NEW S, IsFiniteSet(S), NEW f \in [S -> Nat], NEW s \in S, f[s] < MaxRequests,
         NEW g \in [S -> Nat], g = [f EXCEPT ![s] = f[s] + 1]
  PROVE  Cardinality(Below(S, g)) = Cardinality(Below(S, f)) + 1
<1>1. f[s] <= MaxRequests /\ f[s] + 1 \in 1 .. MaxRequests
  BY BoundsAssumption
<1>2. IsFiniteSet(Below(S, f))
  BY <1>1, BelowBounds
<1>3. <<s, f[s] + 1>> \notin Below(S, f)
  BY DEF Below
<1>4. Below(S, g) = Below(S, f) \cup {<<s, f[s] + 1>>}
  <2>1. g[s] = f[s] + 1 /\ \A r \in S \ {s} : g[r] = f[r]
    OBVIOUS
  <2>2. ASSUME NEW r \in S, NEW m \in 1 .. MaxRequests
        PROVE  m <= g[r] <=> (m <= f[r] \/ (r = s /\ m = f[s] + 1))
    <3>1. CASE r = s
      BY <2>1, <3>1
    <3>2. CASE r # s
      BY <2>1, <3>2
    <3> QED
      BY <3>1, <3>2
  <2>3. \A r \in S, m \in 1 .. MaxRequests : <<r, m>> \in Below(S, g) <=> m <= g[r]
    BY DEF Below
  <2>4. \A r \in S, m \in 1 .. MaxRequests : <<r, m>> \in Below(S, f) <=> m <= f[r]
    BY DEF Below
  <2>5. <<s, f[s] + 1>> \in Below(S, g)
    <3>1. PICK m \in 1 .. MaxRequests : m = f[s] + 1
      BY <1>1
    <3>2. m <= g[s]
      BY <2>1, <3>1
    <3> QED
      BY <2>3, <3>1, <3>2
  <2>6. ASSUME NEW x \in Below(S, g) PROVE x \in Below(S, f) \cup {<<s, f[s] + 1>>}
    <3>1. PICK r \in S, m \in 1 .. MaxRequests : x = <<r, m>>
      BY DEF Below
    <3> QED
      BY <2>2, <2>3, <2>4, <2>6, <3>1
  <2>7. ASSUME NEW x \in Below(S, f) PROVE x \in Below(S, g)
    <3>1. PICK r \in S, m \in 1 .. MaxRequests : x = <<r, m>>
      BY DEF Below
    <3> QED
      BY <2>2, <2>3, <2>4, <2>7, <3>1
  <2> QED
    BY <2>5, <2>6, <2>7
<1> QED
  BY <1>2, <1>3, <1>4, FS_AddElement

\* Nothing is below counters that are zero.
LEMMA BelowZero ==
  ASSUME NEW S, NEW f, \A s \in S : f[s] = 0
  PROVE  Cardinality(Below(S, f)) = 0
<1>1. Below(S, f) = {}
  <2> SUFFICES ASSUME NEW x \in Below(S, f) PROVE FALSE
    OBVIOUS
  <2>1. PICK r \in S, m \in 1 .. MaxRequests : x = <<r, m>> /\ m <= f[r]
    BY DEF Below
  <2> QED
    BY <2>1
<1> QED
  BY <1>1, FS_EmptySet

\* There are finitely many statuses.
LEMMA StatusesFinite == IsFiniteSet(Statuses)
<1>1. IsFiniteSet({200})
  BY FS_Singleton
<1>2. IsFiniteSet({200} \cup {401})
  BY <1>1, FS_AddElement
<1>3. IsFiniteSet(({200} \cup {401}) \cup {409})
  BY <1>2, FS_AddElement
<1>4. IsFiniteSet((({200} \cup {401}) \cup {409}) \cup {500})
  BY <1>3, FS_AddElement
<1>5. Statuses = (({200} \cup {401}) \cup {409}) \cup {500}
  BY DEF Statuses
<1> QED
  BY <1>4, <1>5

\* The types of what is counted.
LEMMA CountTypes ==
  ASSUME TypeOK, GaugeInv
  PROVE  /\ Counted \in Nat /\ Passed \in Int /\ inFlight \in Int /\ Cardinality(Behind) \in Nat
         /\ \A s \in Statuses : observed[s] \in Nat /\ observed[s] <= Counted
         /\ Lengths \in [Clients -> Nat] /\ \A c \in Clients : Lengths[c] <= Passed
<1>1. Cardinality(Behind) \in Nat
  BY CardPositive DEF Behind
<1>2. observed \in [Statuses -> Nat] /\ Lengths \in [Clients -> Nat] /\ inFlight \in Int
  BY DEF TypeOK, Lengths
<1>3. ASSUME NEW s \in Statuses PROVE Counted \in Nat /\ observed[s] <= Counted
  BY <1>2, StatusesFinite, BelowBounds DEF GaugeInv, Counted
<1>4. 200 \in Statuses
  BY DEF Statuses
<1>5. ASSUME NEW c \in Clients PROVE Lengths[c] <= Passed
  <2>1. Lengths[c] <= MaxRequests
    BY DEF GaugeInv, Lengths
  <2> QED
    BY <1>2, <2>1, SetsAssumption, BelowBounds DEF Passed
<1> QED
  BY <1>1, <1>2, <1>3, <1>4, <1>5 DEF GaugeInv

\* A step of a thread changes what is behind the gauge for that thread alone.
LEMMA BehindMoves ==
  ASSUME TypeOK, NEW t \in Threads, NEW r, req' = [req EXCEPT ![t] = r]
  PROVE  /\ At(t, "free") /\ r.pc # "free" => Cardinality(Behind)' = Cardinality(Behind) + 1
         /\ ~ At(t, "free") /\ r.pc = "free" =>
              Cardinality(Behind) = Cardinality(Behind)' + 1 /\ Cardinality(Behind)' \in Nat
         /\ ~ At(t, "free") /\ r.pc # "free" => Cardinality(Behind)' = Cardinality(Behind)
<1>1. req'[t] = r /\ \A u \in Threads \ {t} : req'[u] = req[u]
  BY DEF TypeOK
<1>2. /\ Behind \in SUBSET Threads /\ Behind' \in SUBSET Threads /\ Behind' \ {t} = Behind \ {t}
      /\ t \in Behind <=> ~ At(t, "free")
      /\ t \in Behind' <=> r.pc # "free"
  BY <1>1 DEF Behind, At
<1> QED
  BY <1>2, CardMoves

\* An arrival that is let through is in the gauge and among those let through.
LEMMA GaugeArrive ==
  ASSUME TypeOK, GaugeInv, NEW t \in Threads, NEW c \in Clients, NEW k \in Keys \cup {NoKey}, NEW valid \in BOOLEAN,
         Arrive(t, c, k, valid)
  PROVE  GaugeInv'
<1>0. /\ requests' = requests + 1 /\ requests < MaxRequests /\ failures' = failures /\ observed' = observed
      /\ requests \in Nat /\ failures \in Nat /\ MaxRequests \in Nat /\ Counted' = Counted
  BY BoundsAssumption DEF Arrive, TypeOK, Counted
<1>1. CASE UNCHANGED <<req, admitted, inFlight>>
  <2>1. Behind' = Behind /\ Passed' = Passed
    BY <1>1 DEF Behind, At, Passed, Lengths
  <2> QED
    BY <1>0, <1>1, <2>1, CountTypes DEF GaugeInv
<1>2. CASE inFlight' = inFlight + 1 /\ admitted' = [admitted EXCEPT ![c] = Append(@, clock)]
           /\ req' = [req EXCEPT ![t] = [Free EXCEPT !.pc = IF k = NoKey THEN "handle" ELSE "lookup",
                                                     !.client = c, !.key = k, !.valid = valid]]
  <2>1. At(t, "free") /\ [Free EXCEPT !.pc = IF k = NoKey THEN "handle" ELSE "lookup",
                                       !.client = c, !.key = k, !.valid = valid].pc # "free"
    BY DEF Free, Arrive
  <2>2. PICK r : req' = [req EXCEPT ![t] = r] /\ r.pc # "free"
    BY <1>2, <2>1
  <2>3. Cardinality(Behind)' = Cardinality(Behind) + 1
    BY <2>1, <2>2, BehindMoves
  <2>4. /\ Lengths \in [Clients -> Nat] /\ Lengths[c] <= Passed /\ Passed \in Int /\ Passed <= requests
        /\ Lengths[c] \in Nat
    BY CountTypes DEF GaugeInv
  <2>5. Lengths[c] < MaxRequests
    BY <1>0, <2>4
  <2>6. Lengths' = [Lengths EXCEPT ![c] = Lengths[c] + 1] /\ Lengths' \in [Clients -> Nat]
    <3>1. PICK s : s = Append(admitted[c], clock)
      OBVIOUS
    <3>2. Len(s) = Len(admitted[c]) + 1 /\ Len(s) \in Nat
      BY <3>1 DEF TypeOK
    <3>3. admitted' = [admitted EXCEPT ![c] = s] /\ admitted \in [Clients -> Seq(Nat)]
      BY <1>2, <3>1 DEF TypeOK
    <3>4. \A d \in Clients : Len(admitted'[d]) = IF d = c THEN Len(admitted[c]) + 1 ELSE Len(admitted[d])
      BY <3>2, <3>3
    <3>5. \A d \in Clients : Lengths'[d] = Len(admitted'[d]) /\ Lengths[d] = Len(admitted[d]) /\ Lengths[d] \in Nat
      BY <2>4 DEF Lengths
    <3>6. \A d \in Clients : Lengths'[d] = (IF d = c THEN Lengths[c] + 1 ELSE Lengths[d]) /\ Lengths'[d] \in Nat
      BY <3>4, <3>5
    <3>7. Lengths' = [d \in Clients |-> Lengths'[d]]
      BY DEF Lengths
    <3> QED
      BY <2>4, <3>6, <3>7
  <2>7. Passed' = Passed + 1
    BY <2>4, <2>5, <2>6, SetsAssumption, BelowCounts DEF Passed
  <2>8. \A d \in Clients : Len(admitted'[d]) <= MaxRequests
    <3>1. \A d \in Clients : Lengths'[d] = Len(admitted'[d]) /\ Lengths[d] = Len(admitted[d])
      BY DEF Lengths
    <3>2. \A d \in Clients : Lengths'[d] = IF d = c THEN Lengths[c] + 1 ELSE Lengths[d]
      BY <2>4, <2>6
    <3> QED
      BY <1>0, <2>4, <2>5, <3>1, <3>2 DEF GaugeInv
  <2>9. Counted \in Nat /\ Passed \in Int /\ inFlight \in Int /\ Cardinality(Behind) \in Nat
    BY CountTypes
  <2> QED
    BY <1>0, <1>2, <2>3, <2>7, <2>8, <2>9 DEF GaugeInv
<1> QED
  BY <1>1, <1>2 DEF Arrive

\* A request that is logged moves from the gauge to its counter.
LEMMA GaugeLog ==
  ASSUME TypeOK, GaugeInv, NEW t \in Threads, Log(t)
  PROVE  GaugeInv'
<1>0. /\ At(t, "log") /\ inFlight' = inFlight - 1 /\ observed' = [observed EXCEPT ![req[t].status] = @ + 1]
      /\ req' = [req EXCEPT ![t] = Free] /\ requests' = requests /\ failures' = failures /\ admitted' = admitted
      /\ requests \in Nat /\ failures \in Nat /\ MaxRequests \in Nat
  BY BoundsAssumption DEF Log, sent, limiter, TypeOK
<1>1. PICK s \in Statuses : s = req[t].status
  BY <1>0 DEF TypeOK, Placed, At
<1>2. Cardinality(Behind) = Cardinality(Behind)' + 1 /\ Cardinality(Behind)' \in Nat
  <2>1. ~ At(t, "free") /\ Free.pc = "free"
    BY <1>0 DEF At, Free
  <2> QED
    BY <1>0, <2>1, BehindMoves
<1>3. /\ observed[s] \in Nat /\ observed[s] <= Counted /\ Counted \in Nat /\ Passed \in Int /\ inFlight \in Int
      /\ observed \in [Statuses -> Nat]
  BY CountTypes DEF TypeOK
<1>4. observed[s] < MaxRequests
  BY <1>0, <1>2, <1>3 DEF GaugeInv
<1>5. observed' = [observed EXCEPT ![s] = observed[s] + 1] /\ observed' \in [Statuses -> Nat]
  BY <1>0, <1>1, <1>3
<1>6. Counted' = Counted + 1
  BY <1>3, <1>4, <1>5, StatusesFinite, BelowCounts DEF Counted
<1>7. Passed' = Passed
  BY <1>0 DEF Passed, Lengths
<1>8. \A r \in Statuses : observed'[r] <= MaxRequests
  BY <1>0, <1>3, <1>4, <1>5 DEF GaugeInv
<1> QED
  BY <1>0, <1>2, <1>3, <1>6, <1>7, <1>8 DEF GaugeInv

\* Every step keeps the gauge and the counters in line.
LEMMA GaugeStep == TypeOK /\ GaugeInv /\ [Next]_vars => GaugeInv'
<1> SUFFICES ASSUME TypeOK, GaugeInv, [Next]_vars PROVE GaugeInv'
  OBVIOUS
<1>0. req \in [Threads -> Requests] /\ failures \in Nat
  BY DEF TypeOK
<1>1. ASSUME UNCHANGED <<inFlight, observed, admitted, requests>>,
             \/ Cardinality(Behind)' = Cardinality(Behind) /\ failures' = failures
             \/ Cardinality(Behind) = Cardinality(Behind)' + 1 /\ failures' = failures + 1 /\ Cardinality(Behind)' \in Nat
      PROVE  GaugeInv'
  <2>1. Counted' = Counted /\ Passed' = Passed
    BY <1>1 DEF Counted, Passed, Lengths
  <2> QED
    BY <1>0, <1>1, <2>1, CountTypes DEF GaugeInv
<1>2. ASSUME NEW t \in Threads, Lookup(t) PROVE GaugeInv'
  <2>1. PICK r : req' = [req EXCEPT ![t] = r] /\ r.pc \in {"log", "handle"}
    <3>1. CASE clock < entries[req[t].key].expires
      <4>1. req' = [req EXCEPT ![t].pc = "log", ![t].status = entries[req[t].key].status]
        BY <1>2, <3>1 DEF Lookup
      <4>2. PICK r : r = [req[t] EXCEPT !.pc = "log", !.status = entries[req[t].key].status]
        OBVIOUS
      <4>3. req' = [req EXCEPT ![t] = r] /\ r.pc = "log"
        BY <1>0, <4>1, <4>2 DEF Requests
      <4> QED
        BY <4>3
    <3>2. CASE ~ (clock < entries[req[t].key].expires)
      <4>1. req' = [req EXCEPT ![t].pc = "handle"]
        BY <1>2, <3>2 DEF Lookup
      <4>2. PICK r : r = [req[t] EXCEPT !.pc = "handle"]
        OBVIOUS
      <4>3. req' = [req EXCEPT ![t] = r] /\ r.pc = "handle"
        BY <1>0, <4>1, <4>2 DEF Requests
      <4> QED
        BY <4>3
    <3> QED
      BY <3>1, <3>2
  <2>2. ~ At(t, "free") /\ UNCHANGED <<inFlight, observed, admitted, requests, failures>>
    BY <1>2 DEF Lookup, At, sent, limiter, metrics
  <2> QED
    BY <1>1, <2>1, <2>2, BehindMoves
<1>3. ASSUME NEW t \in Threads, Remember(t) PROVE GaugeInv'
  <2>1. PICK r : r = [req[t] EXCEPT !.pc = "log"]
    OBVIOUS
  <2>2. req' = [req EXCEPT ![t].pc = "log"]
    BY <1>3 DEF Remember
  <2>3. req' = [req EXCEPT ![t] = r] /\ r.pc = "log"
    BY <1>0, <2>1, <2>2 DEF Requests
  <2>4. ~ At(t, "free") /\ UNCHANGED <<inFlight, observed, admitted, requests, failures>>
    BY <1>3 DEF Remember, At, sent, limiter, metrics
  <2> QED
    BY <1>1, <2>3, <2>4, BehindMoves
<1>4. ASSUME NEW t \in Threads, NEW status \in Statuses, NEW effect \in BOOLEAN, Handle(t, status, effect)
      PROVE  GaugeInv'
  <2>1. PICK r : r = [req[t] EXCEPT !.pc = IF req[t].key = NoKey THEN "log" ELSE "remember",
                                    !.status = status, !.effect = effect]
    OBVIOUS
  <2>2. req' = [req EXCEPT ![t].pc = IF req[t].key = NoKey THEN "log" ELSE "remember",
                           ![t].status = status, ![t].effect = effect]
    BY <1>4 DEF Handle
  <2>3. req' = [req EXCEPT ![t] = r]
    BY <1>0, <2>1, <2>2
  <2>4. r.pc # "free"
    BY <1>0, <2>1 DEF Requests
  <2>5. ~ At(t, "free") /\ UNCHANGED <<inFlight, observed, admitted, requests, failures>>
    BY <1>4 DEF Handle, At, sent, limiter, metrics
  <2> QED
    BY <1>1, <2>3, <2>4, <2>5, BehindMoves
<1>5. ASSUME NEW t \in Threads, NEW effect \in BOOLEAN, Panic(t, effect) PROVE GaugeInv'
  <2>1. /\ req' = [req EXCEPT ![t] = Free] /\ ~ At(t, "free") /\ Free.pc = "free"
        /\ failures' = failures + 1 /\ UNCHANGED <<inFlight, observed, admitted, requests>>
    BY <1>5 DEF Panic, At, Free, limiter, metrics
  <2>2. Cardinality(Behind) = Cardinality(Behind)' + 1 /\ Cardinality(Behind)' \in Nat
    BY <2>1, BehindMoves
  <2> QED
    BY <1>1, <2>1, <2>2
<1>6. CASE Crash
  <2>1. /\ req' = [t \in Threads |-> Free] /\ inFlight' = 0 /\ observed' = [s \in Statuses |-> 0]
        /\ admitted' = [c \in Clients |-> <<>>] /\ requests' = requests /\ failures' = failures + 1
    BY <1>6 DEF Crash
  <2>2. Cardinality(Behind)' = 0
    <3>1. Behind' = {}
      BY <2>1 DEF Behind, At, Free
    <3> QED
      BY <3>1, FS_EmptySet
  <2>3. Counted' = 0
    BY <2>1, BelowZero DEF Counted
  <2>4. Passed' = 0
    <3>1. \A c \in Clients : Lengths'[c] = 0
      BY <2>1 DEF Lengths
    <3> QED
      BY <3>1, BelowZero DEF Passed
  <2>5. \A c \in Clients : Len(admitted'[c]) = 0
    BY <2>1
  <2>6. requests \in Nat /\ MaxRequests \in Nat
    BY BoundsAssumption DEF TypeOK
  <2> QED
    BY <1>0, <2>1, <2>2, <2>3, <2>4, <2>5, <2>6 DEF GaugeInv
<1>7. CASE UNCHANGED <<req, inFlight, observed, admitted, requests, failures>>
  <2>1. Behind' = Behind
    BY <1>7 DEF Behind, At
  <2> QED
    BY <1>1, <1>7, <2>1
<1>8. CASE gcBuckets \/ gcEntries \/ Tick \/ UNCHANGED vars
  BY <1>7, <1>8 DEF gcBuckets, gcEntries, Tick, vars, sent, limiter, metrics
<1> QED
  BY <1>2, <1>3, <1>4, <1>5, <1>6, <1>8, GaugeArrive, GaugeLog DEF Next

\* Initially nothing is counted.
LEMMA GaugeInit == Init => GaugeInv
<1> SUFFICES ASSUME Init PROVE GaugeInv
  OBVIOUS
<1>1. Behind = {} /\ inFlight = 0 /\ failures = 0 /\ requests = 0
  BY DEF Init, Behind, At, Free
<1>2. Cardinality(Behind) = 0
  BY <1>1, FS_EmptySet
<1>3. Counted = 0
  BY BelowZero DEF Init, Counted
<1>4. \A c \in Clients : Lengths[c] = 0 /\ Len(admitted[c]) = 0
  BY DEF Init, Lengths
<1>5. Passed = 0
  BY <1>4, BelowZero DEF Passed
<1>6. MaxRequests \in Nat /\ \A s \in Statuses : observed[s] = 0
  BY BoundsAssumption DEF Init
<1> QED
  BY <1>1, <1>2, <1>3, <1>4, <1>5, <1>6 DEF GaugeInv

\* Every request that was let through since the start is in the gauge or in one of
\* the counters, and the gauge is ahead of the requests in flight by no more than the
\* panics and restarts there were.
THEOREM GaugeIsExact == Spec => []Gauge
<1>1. GaugeInv => Gauge
  <2>1. Below(Statuses, observed) = {x \in Statuses \X (1 .. MaxRequests) : x[2] <= observed[x[1]]}
    BY DEF Below
  <2>2. Below(Clients, Lengths) = {x \in Clients \X (1 .. MaxRequests) : x[2] <= Len(admitted[x[1]])}
    BY DEF Below, Lengths
  <2> QED
    BY <2>1, <2>2 DEF GaugeInv, Gauge, Counted, Passed, Behind
<1> QED
  BY <1>1, GaugeInit, GaugeStep, TypeCorrect, PTL DEF Spec
====
