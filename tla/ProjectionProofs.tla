-------------------------- MODULE ProjectionProofs --------------------------
(***************************************************************************)
(* Proofs about Projection, for any set of users, any size of the buffer   *)
(* and any bounds.                                                         *)
(***************************************************************************)
EXTENDS Projection, ListLemmas, FiniteSetTheorems, SequenceTheorems, TLAPS

-----------------------------------------------------------------------------
(* The inductive invariant *)

\* Every step keeps to these types.
TypeOK ==
    /\ chain \in {"mem", "evm"} /\ store \in {"memory", "sqlite", "postgres"}
    /\ log \in Seq([user : Users, type : Types, time : Nat]) /\ head \in Nat
    /\ phase \in {"down", "up", "stopping"} /\ subscribed \in BOOLEAN
    /\ from \in Nat /\ upto \in Nat
    /\ batch \in Seq(Nat) /\ buffer \in Seq(Nat) /\ rows \in Seq(Nat)
    /\ excused \in SUBSET Nat

\* Lists of event IDs.
Increasing(s) == \A i, j \in 1 .. Len(s) : i < j => s[i] < s[j]
Distinct(s) == \A i, j \in 1 .. Len(s) : s[i] = s[j] => i = j
Apart(s, t) == \A x \in ToSet(s), y \in ToSet(t) : x < y
Known(s) == ToSet(s) \subseteq 1 .. Len(log)
Asked(s) == chain = "evm" => \A x \in ToSet(s) : log[x].time < Ahead

\* The log of the EVM chain is in the order of its blocks, and none of it is in the
\* future.
LogInv ==
    chain = "evm" =>
        /\ \A i \in 1 .. Len(log) : log[i].time <= head
        /\ \A i, j \in 1 .. Len(log) : i < j => log[i].time <= log[j].time

\* The poller does not run ahead of the chain.
PollInv ==
    /\ batch # <<>> => chain = "evm" /\ upto <= head
    /\ from <= head + 1

\* What is on its way is in the order of the log, and the poller will not ask for it
\* again before the process ends.
LineInv ==
    /\ Known(buffer) /\ Known(batch) /\ Known(rows)
    /\ Asked(buffer) /\ Asked(batch)
    /\ Increasing(buffer) /\ Increasing(batch) /\ Apart(buffer, batch)

\* The rows of the memory store do not outlive the process: they are before all that.
MemInv ==
    store = "memory" => Increasing(rows) /\ Asked(rows) /\ Apart(rows, buffer) /\ Apart(rows, batch)

Inv == TypeOK /\ LogInv /\ PollInv /\ LineInv /\ MemInv /\ Distinct(rows)

-----------------------------------------------------------------------------
(* Lists and the sets of their elements *)

\* The elements of a list.
LEMMA Elements ==
  ASSUME NEW s \in Seq(Nat)
  PROVE  /\ \A i \in 1 .. Len(s) : s[i] \in ToSet(s)
         /\ \A x \in ToSet(s) : x \in Nat /\ \E i \in 1 .. Len(s) : s[i] = x
BY DEF ToSet

\* The empty list.
LEMMA EmptyList == ToSet(<<>>) = {} /\ Increasing(<<>>) /\ Distinct(<<>>)
BY DEF ToSet, Increasing, Distinct

\* A list with an element more.
LEMMA LongerList ==
  ASSUME NEW s \in Seq(Nat), NEW x \in Nat
  PROVE  /\ Append(s, x) \in Seq(Nat)
         /\ ToSet(Append(s, x)) = ToSet(s) \cup {x}
         /\ Increasing(s) /\ (\A y \in ToSet(s) : y < x) => Increasing(Append(s, x))
         /\ Distinct(s) /\ x \notin ToSet(s) => Distinct(Append(s, x))
<1>1. PICK t : t = Append(s, x)
  OBVIOUS
<1>2. /\ t \in Seq(Nat) /\ Len(t) = Len(s) + 1 /\ Len(s) \in Nat /\ t[Len(t)] = x
      /\ \A i \in 1 .. Len(s) : t[i] = s[i] /\ i \in 1 .. Len(t) /\ s[i] \in ToSet(s)
      /\ \A i \in 1 .. Len(t) : i = Len(t) \/ i \in 1 .. Len(s)
  BY <1>1, Elements
<1>3. ToSet(t) = ToSet(s) \cup {x}
  <2>1. Len(t) \in 1 .. Len(t)
    BY <1>2
  <2>2. \A y \in ToSet(t) : y \in ToSet(s) \/ y = x
    BY <1>2, Elements
  <2>3. \A y \in ToSet(s) : y \in ToSet(t)
    <3> SUFFICES ASSUME NEW y \in ToSet(s) PROVE y \in ToSet(t)
      OBVIOUS
    <3>1. PICK i \in 1 .. Len(s) : s[i] = y
      BY Elements
    <3>2. t[i] \in ToSet(t)
      BY <1>2, Elements
    <3> QED
      BY <1>2, <3>1, <3>2
  <2>4. x \in ToSet(t)
    BY <1>2, <2>1, Elements
  <2> QED
    BY <2>2, <2>3, <2>4
<1>4. ASSUME Increasing(s), \A y \in ToSet(s) : y < x PROVE Increasing(t)
  <2> SUFFICES ASSUME NEW i \in 1 .. Len(t), NEW j \in 1 .. Len(t), i < j PROVE t[i] < t[j]
    BY DEF Increasing
  <2>1. i \in 1 .. Len(s)
    BY <1>2
  <2> QED
    BY <1>2, <1>4, <2>1 DEF Increasing
<1>5. ASSUME Distinct(s), x \notin ToSet(s) PROVE Distinct(t)
  <2> SUFFICES ASSUME NEW i \in 1 .. Len(t), NEW j \in 1 .. Len(t), t[i] = t[j] PROVE i = j
    BY DEF Distinct
  <2> QED
    BY <1>2, <1>5 DEF Distinct
<1> QED
  BY <1>1, <1>2, <1>3, <1>4, <1>5

\* A list without its first element.
LEMMA ShorterList ==
  ASSUME NEW s \in Seq(Nat), s # <<>>
  PROVE  /\ Tail(s) \in Seq(Nat) /\ Head(s) \in Nat
         /\ ToSet(s) = {Head(s)} \cup ToSet(Tail(s))
         /\ Increasing(s) => Increasing(Tail(s)) /\ \A y \in ToSet(Tail(s)) : Head(s) < y
<1>1. PICK t : t = Tail(s)
  OBVIOUS
<1>2. /\ t \in Seq(Nat) /\ Len(s) = Len(t) + 1 /\ Len(t) \in Nat /\ Head(s) = s[1] /\ Head(s) \in Nat
      /\ \A i \in 1 .. Len(t) : t[i] = s[i + 1] /\ i + 1 \in 1 .. Len(s)
  BY <1>1
<1>3. \A i \in 1 .. Len(s) : i = 1 \/ (i - 1 \in 1 .. Len(t) /\ t[i - 1] = s[i])
  <2> SUFFICES ASSUME NEW i \in 1 .. Len(s), i # 1 PROVE i - 1 \in 1 .. Len(t) /\ t[i - 1] = s[i]
    OBVIOUS
  <2>1. PICK k \in 1 .. Len(t) : k = i - 1
    BY <1>2
  <2>2. t[k] = s[k + 1]
    BY <1>2
  <2>3. k + 1 = i
    BY <2>1
  <2> QED
    BY <2>1, <2>2, <2>3
<1>4. ToSet(s) = {Head(s)} \cup ToSet(t)
  <2>1. \A y \in ToSet(s) : y = Head(s) \/ y \in ToSet(t)
    <3> SUFFICES ASSUME NEW y \in ToSet(s), y # Head(s) PROVE y \in ToSet(t)
      OBVIOUS
    <3>1. PICK i \in 1 .. Len(s) : s[i] = y
      BY Elements
    <3>2. PICK k \in 1 .. Len(t) : t[k] = y
      BY <1>2, <1>3, <3>1
    <3> QED
      BY <1>2, <3>2, Elements
  <2>2. \A y \in ToSet(t) : y \in ToSet(s)
    <3> SUFFICES ASSUME NEW y \in ToSet(t) PROVE y \in ToSet(s)
      OBVIOUS
    <3>1. PICK i \in 1 .. Len(t) : t[i] = y
      BY <1>2, Elements
    <3>2. s[i + 1] \in ToSet(s)
      BY <1>2, Elements
    <3> QED
      BY <1>2, <3>1, <3>2
  <2>3. Head(s) \in ToSet(s)
    <3>1. 1 \in 1 .. Len(s)
      BY <1>2
    <3> QED
      BY <1>2, <3>1, Elements
  <2> QED
    BY <2>1, <2>2, <2>3
<1>5. ASSUME Increasing(s) PROVE Increasing(t) /\ \A y \in ToSet(t) : Head(s) < y
  <2>1. Increasing(t)
    <3> SUFFICES ASSUME NEW i \in 1 .. Len(t), NEW j \in 1 .. Len(t), i < j PROVE t[i] < t[j]
      BY DEF Increasing
    <3>0. i + 1 \in 1 .. Len(s) /\ j + 1 \in 1 .. Len(s) /\ i + 1 < j + 1
      BY <1>2
    <3>1. s[i + 1] < s[j + 1]
      BY <1>5, <3>0 DEF Increasing
    <3> QED
      BY <1>2, <3>1
  <2>2. ASSUME NEW y \in ToSet(t) PROVE Head(s) < y
    <3>1. PICK i \in 1 .. Len(t) : t[i] = y
      BY <1>2, Elements
    <3>2. 1 \in 1 .. Len(s) /\ i + 1 \in 1 .. Len(s) /\ 1 < i + 1
      BY <1>2
    <3>3. s[1] < s[i + 1]
      BY <1>5, <3>2 DEF Increasing
    <3> QED
      BY <1>2, <3>1, <3>3
  <2> QED
    BY <2>1, <2>2
<1> QED
  BY <1>1, <1>2, <1>4, <1>5

-----------------------------------------------------------------------------
(* Every step keeps the types and the order *)

\* The events of the log are typed.
LEMMA EventTypes ==
  ASSUME TypeOK, NEW i \in 1 .. Len(log)
  PROVE  log[i].time \in Nat
<1>1. log[i] \in [user : Users, type : Types, time : Nat]
  BY ElementOfSeq DEF TypeOK
<1> QED
  BY <1>1

\* The events of a block are typed.
LEMMA BlockTypes ==
  ASSUME NEW events \in Blocks
  PROVE  events \in Seq([user : Users, type : Types]) /\ Len(events) \in Nat /\ events # <<>>
<1>1. PICK E : E = [user : Users, type : Types]
  OBVIOUS
<1>2. (\E e \in E : events = <<e>>) \/ (\E e, f \in E : events = <<e, f>>)
  BY <1>1 DEF Blocks
<1>3. events \in Seq(E)
  <2>1. ASSUME NEW e \in E, events = <<e>> PROVE events \in Seq(E)
    BY <2>1
  <2>2. ASSUME NEW e \in E, NEW f \in E, events = <<e, f>> PROVE events \in Seq(E)
    BY <2>2
  <2> QED
    BY <1>2, <2>1, <2>2
<1>4. events # <<>>
  BY <1>2
<1> QED
  BY <1>1, <1>3, <1>4, LenProperties

\* What the poller fetches: the events of the blocks it asks for, in order.
LEMMA LogsAre ==
  ASSUME TypeOK, NEW first \in Nat, NEW last \in Nat
  PROVE  /\ Logs(first, last) \in Seq(Nat) /\ Increasing(Logs(first, last))
         /\ \A x : x \in ToSet(Logs(first, last))
                     <=> x \in 1 .. Len(log) /\ log[x].time >= first /\ log[x].time <= last
<1>1. PICK S : S = {i \in DOMAIN log : log[i].time >= first /\ log[i].time <= last}
  OBVIOUS
<1>2. PICK s : s = Ascending(S) /\ s = Logs(first, last)
  BY <1>1 DEF Logs
<1>3. DOMAIN log = 1 .. Len(log) /\ Len(log) \in Nat
  BY DEF TypeOK
<1>4. S \in SUBSET Nat /\ S \in SUBSET (1 .. Len(log))
  BY <1>1, <1>3
<1>5. IsFiniteSet(S)
  <2>1. IsFiniteSet(1 .. Len(log))
    BY <1>3, FS_Interval
  <2> QED
    BY <1>4, <2>1, FS_Subset
<1>6. /\ s \in Seq(Nat) /\ Len(s) = Cardinality(S)
      /\ \A k \in 1 .. Len(s) : s[k] \in S
      /\ \A x \in S : \E k \in 1 .. Len(s) : s[k] = x
      /\ \A i, j \in 1 .. Len(s) : i < j => s[i] < s[j]
  BY <1>2, <1>4, <1>5, AscendingLists
<1>7. Increasing(s)
  BY <1>6 DEF Increasing
<1>8. ToSet(s) = S
  <2>1. \A x \in ToSet(s) : x \in S
    BY <1>6, Elements
  <2>2. \A x \in S : x \in ToSet(s)
    BY <1>6, Elements
  <2> QED
    BY <2>1, <2>2
<1> QED
  BY <1>1, <1>2, <1>3, <1>6, <1>7, <1>8

\* On the EVM chain, the events are those of the next block.
NextBlock(events) == chain = "evm" => head' = head + 1 /\ \A k \in 1 .. Len(events) : events[k].time = head + 1

\* The log grows by events.
LEMMA LogGrows ==
  ASSUME TypeOK, LogInv, chain' = chain, NEW events \in Seq([user : Users, type : Types, time : Nat]),
         NextBlock(events), log' = log \o events
  PROVE  /\ log' \in Seq([user : Users, type : Types, time : Nat]) /\ LogInv'
         /\ Len(log) \in Nat /\ Len(log') \in Nat /\ Len(log) <= Len(log') /\ Len(log') = Len(log) + Len(events)
         /\ \A i \in 1 .. Len(log) : log'[i] = log[i] /\ i \in 1 .. Len(log')
         /\ \A i \in 1 .. Len(log') : i \in 1 .. Len(log) \/ chain # "evm" \/ log'[i].time = head + 1
<1>0. log \in Seq([user : Users, type : Types, time : Nat]) /\ head \in Nat
  BY DEF TypeOK
<1>2. /\ log' \in Seq([user : Users, type : Types, time : Nat]) /\ Len(log') = Len(log) + Len(events)
      /\ Len(log) \in Nat /\ Len(events) \in Nat
      /\ \A i \in 1 .. Len(log') : log'[i] = IF i <= Len(log) THEN log[i] ELSE events[i - Len(log)]
  BY <1>0, ConcatProperties, LenProperties
<1>4. \A i \in 1 .. Len(log) : log'[i] = log[i] /\ i \in 1 .. Len(log')
  BY <1>2
<1>5. ASSUME NEW i \in 1 .. Len(log'), i \notin 1 .. Len(log), chain = "evm" PROVE log'[i].time = head + 1
  <2>1. PICK k \in 1 .. Len(events) : k = i - Len(log)
    BY <1>2, <1>5
  <2>2. log'[i] = events[k]
    BY <1>2, <1>5, <2>1
  <2> QED
    BY <1>5, <2>2 DEF NextBlock
<1>6. ASSUME NEW i \in 1 .. Len(log), chain = "evm" PROVE log[i].time \in Nat /\ log[i].time <= head
  BY <1>6, EventTypes DEF LogInv
<1>7. LogInv'
  <2>0. SUFFICES ASSUME chain = "evm"
                 PROVE  /\ \A i \in 1 .. Len(log') : log'[i].time <= head'
                        /\ \A i, j \in 1 .. Len(log') : i < j => log'[i].time <= log'[j].time
    BY DEF LogInv
  <2>0a. head' = head + 1
    BY <2>0 DEF NextBlock
  <2>1. ASSUME NEW i \in 1 .. Len(log') PROVE log'[i].time <= head'
    <3>1. CASE i \in 1 .. Len(log)
      BY <1>0, <1>4, <1>6, <2>0, <2>0a, <3>1
    <3>2. CASE i \notin 1 .. Len(log)
      <4>1. log'[i].time = head + 1
        BY <1>5, <2>0, <3>2
      <4> QED
        BY <1>0, <2>0a, <4>1
    <3> QED
      BY <3>1, <3>2
  <2>2. ASSUME NEW i \in 1 .. Len(log'), NEW j \in 1 .. Len(log'), i < j PROVE log'[i].time <= log'[j].time
    <3>1. CASE j \in 1 .. Len(log)
      <4>1. i \in 1 .. Len(log)
        BY <1>2, <2>2, <3>1
      <4> QED
        BY <1>4, <2>0, <2>2, <3>1, <4>1 DEF LogInv
    <3>2. CASE j \notin 1 .. Len(log)
      BY <1>5, <2>0, <2>0a, <2>1, <2>2, <3>2
    <3> QED
      BY <3>1, <3>2
  <2> QED
    BY <2>1, <2>2
<1> QED
  BY <1>0, <1>2, <1>4, <1>5, <1>7

\* The process starts with nothing.
LEMMA InvInit == Init => Inv
<1> SUFFICES ASSUME Init PROVE Inv
  OBVIOUS
<1>1. TypeOK /\ LogInv /\ PollInv
  <2>1. <<>> \in Seq([user : Users, type : Types, time : Nat]) /\ <<>> \in Seq(Nat) /\ Len(<<>>) = 0
    BY EmptySeq
  <2>2. TypeOK
    BY <2>1 DEF Init, TypeOK, StartBlock
  <2>3. LogInv
    BY <2>1 DEF Init, LogInv
  <2>4. PollInv
    BY DEF Init, PollInv, StartBlock
  <2> QED
    BY <2>2, <2>3, <2>4
<1>2. LineInv /\ MemInv /\ Distinct(rows)
  BY EmptyList DEF Init, LineInv, MemInv, Known, Asked, Apart
<1> QED
  BY <1>1, <1>2 DEF Inv

\* The log keeps its events; the new ones on the EVM chain are those of the next block.
Grows ==
    /\ \A i \in 1 .. Len(log) : log'[i] = log[i] /\ i \in 1 .. Len(log')
    /\ \A i \in 1 .. Len(log') : i \in 1 .. Len(log) \/ chain # "evm" \/ log'[i].time = head + 1

\* The log grows; an event may be handed to the subscriber.
LEMMA InvGrows ==
  ASSUME Inv, head' \in Nat, head <= head',
         NEW events \in Seq([user : Users, type : Types, time : Nat]), events # <<>>,
         NextBlock(events), log' = log \o events,
         UNCHANGED <<chain, store, process, poller, rows>>,
         \/ buffer' = buffer
         \/ chain = "mem" /\ buffer' = Append(buffer, Len(log')),
         excused' \in SUBSET Nat
  PROVE  Inv' /\ Grows /\ Len(log') = Len(log) + Len(events)
<1>0. TypeOK /\ LogInv /\ PollInv /\ LineInv /\ MemInv /\ Distinct(rows)
  BY DEF Inv
<1>1. /\ log' \in Seq([user : Users, type : Types, time : Nat]) /\ LogInv'
      /\ Len(log) \in Nat /\ Len(log') \in Nat /\ Len(log') = Len(log) + Len(events)
      /\ \A i \in 1 .. Len(log) : log'[i] = log[i] /\ i \in 1 .. Len(log')
      /\ Grows
  BY <1>0, LogGrows DEF Grows
<1>2. Len(log') \in 1 .. Len(log') /\ \A i \in 1 .. Len(log) : i < Len(log')
  <2>1. Len(events) \in Nat \ {0}
    BY EmptySeq
  <2> QED
    BY <1>1, <2>1
<1>3. Ahead' = Ahead /\ chain' = chain /\ store' = store /\ batch' = batch /\ rows' = rows
  BY DEF Ahead, poller
<1>4. PICK b : b = buffer'
  OBVIOUS
<1>5. /\ b \in Seq(Nat) /\ ToSet(b) \subseteq 1 .. Len(log') /\ Increasing(b)
      /\ b = buffer \/ (chain = "mem" /\ ToSet(b) = ToSet(buffer) \cup {Len(log')})
  <2>1. CASE buffer' = buffer
    BY <1>0, <1>1, <1>4, <2>1 DEF TypeOK, LineInv, Known
  <2>2. CASE chain = "mem" /\ buffer' = Append(buffer, Len(log'))
    <3>1. PICK n \in Nat : n = Len(log')
      BY <1>1
    <3>2. buffer \in Seq(Nat) /\ ToSet(buffer) \subseteq 1 .. Len(log) /\ Increasing(buffer)
      BY <1>0 DEF TypeOK, LineInv, Known
    <3>3. \A y \in ToSet(buffer) : y < n
      BY <1>2, <3>1, <3>2
    <3>4. b = Append(buffer, n)
      BY <1>4, <2>2, <3>1
    <3>5. b \in Seq(Nat) /\ ToSet(b) = ToSet(buffer) \cup {n} /\ Increasing(b)
      BY <3>2, <3>3, <3>4, LongerList
    <3> QED
      BY <1>1, <1>2, <2>2, <3>1, <3>2, <3>5
  <2> QED
    BY <2>1, <2>2
<1>6. TypeOK'
  BY <1>0, <1>1, <1>3, <1>4, <1>5 DEF TypeOK, process, poller
<1>7. PollInv'
  <2>1. head \in Nat /\ from \in Nat /\ upto \in Nat
    BY <1>0 DEF TypeOK
  <2>2. from' = from /\ upto' = upto /\ batch' = batch /\ chain' = chain
    BY DEF poller
  <2>3. PICK g, h : g = head /\ h = head'
    OBVIOUS
  <2>4. g \in Nat /\ h \in Nat /\ g <= h
    BY <2>1, <2>3
  <2>5. batch # <<>> => chain = "evm" /\ upto <= h
    BY <1>0, <2>1, <2>3, <2>4 DEF PollInv
  <2>6. from <= h + 1
    <3>1. PICK f : f = from
      OBVIOUS
    <3>2. f \in Nat /\ f <= g + 1
      BY <1>0, <2>1, <2>3, <3>1 DEF PollInv
    <3>3. f <= h + 1
      BY <2>4, <3>2
    <3> QED
      BY <3>1, <3>3
  <2> QED
    BY <2>2, <2>3, <2>5, <2>6, Zenon DEF PollInv
<1>8. chain = "mem" => batch = <<>>
  BY <1>0 DEF PollInv
<1>9. LineInv'
  <2>1. Known(buffer)' /\ Known(batch)' /\ Known(rows)'
    BY <1>0, <1>1, <1>3, <1>4, <1>5 DEF LineInv, Known
  <2>2. Asked(buffer)' /\ Asked(batch)'
    <3>1. CASE chain = "mem"
      BY <1>3, <3>1 DEF Asked
    <3>2. CASE chain # "mem"
      <4>1. buffer' = buffer
        BY <1>4, <1>5, <3>2
      <4> QED
        BY <1>0, <1>1, <1>3, <4>1 DEF LineInv, Asked, Known
    <3> QED
      BY <3>1, <3>2
  <2>3. Apart(buffer, batch)'
    BY <1>0, <1>3, <1>4, <1>5, <1>8, EmptyList DEF LineInv, Apart
  <2> QED
    BY <1>0, <1>3, <1>4, <1>5, <2>1, <2>2, <2>3 DEF LineInv, Increasing
<1>10. MemInv'
  <2> SUFFICES ASSUME store = "memory" PROVE (Increasing(rows) /\ Asked(rows) /\ Apart(rows, buffer) /\ Apart(rows, batch))'
    BY <1>3 DEF MemInv
  <2>1. Increasing(rows)' /\ Apart(rows, batch)'
    BY <1>0, <1>3 DEF MemInv, Increasing, Apart
  <2>2. Asked(rows)'
    BY <1>0, <1>1, <1>3 DEF MemInv, LineInv, Asked, Known
  <2>3. Apart(rows, buffer)'
    BY <1>0, <1>2, <1>3, <1>4, <1>5 DEF MemInv, LineInv, Apart, Known
  <2> QED
    BY <2>1, <2>2, <2>3
<1> QED
  BY <1>0, <1>1, <1>3, <1>6, <1>7, <1>9, <1>10 DEF Inv, Distinct

\* An event of MemChain.
LEMMA InvEmit ==
  ASSUME Inv, NEW u \in Users, NEW type \in Types, NEW time \in 1 .. MaxTime, emit(u, type, time)
  PROVE  Inv' /\ Grows /\ Len(log') = Len(log) + 1
<1>1. PICK events : events = <<Event(u, type, time)>>
  OBVIOUS
<1>2. /\ head \in Nat /\ log \in Seq([user : Users, type : Types, time : Nat]) /\ excused \in SUBSET Nat
      /\ time \in Nat
  BY BoundsAssumption DEF Inv, TypeOK
<1>3. Event(u, type, time) \in [user : Users, type : Types, time : Nat]
  BY <1>2 DEF Event
<1>4. events \in Seq([user : Users, type : Types, time : Nat]) /\ events # <<>> /\ Len(events) = 1
  BY <1>1, <1>3
<1>5. log' = log \o events
  BY <1>1, <1>2, <1>3 DEF emit
<1>6. Len(log') \in Nat
  BY <1>2, <1>4, <1>5, ConcatProperties, LenProperties
<1>7. /\ head' = head /\ UNCHANGED <<chain, store, process, poller, rows>> /\ chain = "mem"
      /\ buffer' = buffer \/ (chain = "mem" /\ buffer' = Append(buffer, Len(log')))
      /\ excused' \in SUBSET Nat
  BY <1>2, <1>6 DEF emit
<1>8. head' \in Nat /\ head <= head' /\ NextBlock(events)
  BY <1>2, <1>7 DEF NextBlock
<1> QED
  BY <1>4, <1>5, <1>7, <1>8, InvGrows

\* A block of the EVM chain.
LEMMA InvMine ==
  ASSUME Inv, NEW block \in Blocks, Mine(block)
  PROVE  Inv' /\ Grows
<1>1. block \in Seq([user : Users, type : Types]) /\ Len(block) \in Nat /\ block # <<>>
  BY BlockTypes
<1>2. PICK events : events = [i \in DOMAIN block |-> Event(block[i].user, block[i].type, head + 1)]
  OBVIOUS
<1>3. head \in Nat /\ excused \in SUBSET Nat
  BY DEF Inv, TypeOK
<1>4. DOMAIN block = 1 .. Len(block) /\ Len(block) # 0
  BY <1>1, EmptySeq, LenProperties
<1>5. ASSUME NEW i \in 1 .. Len(block)
      PROVE  events[i] \in [user : Users, type : Types, time : Nat] /\ events[i].time = head + 1
  <2>1. block[i] \in [user : Users, type : Types]
    BY <1>1, ElementOfSeq
  <2> QED
    BY <1>2, <1>3, <1>4, <2>1 DEF Event
<1>6. events \in [1 .. Len(block) -> [user : Users, type : Types, time : Nat]]
  BY <1>2, <1>4, <1>5
<1>7. events \in Seq([user : Users, type : Types, time : Nat]) /\ Len(events) = Len(block)
  BY <1>1, <1>6, FunctionIsSeq
<1>8. /\ \A k \in 1 .. Len(events) : events[k].time = head + 1
      /\ events # <<>>
  BY <1>4, <1>5, <1>7
<1>9. head' = head + 1 /\ log' = log \o events /\ UNCHANGED <<chain, store, process, poller, rows, buffer, excused>>
  BY <1>2 DEF Mine
<1>10. head' \in Nat /\ head <= head' /\ NextBlock(events)
  BY <1>3, <1>8, <1>9 DEF NextBlock
<1> QED
  BY <1>3, <1>7, <1>8, <1>9, <1>10, InvGrows DEF process, poller

\* The poller asks for the next blocks.
LEMMA InvPoll == Inv /\ Poll => Inv'
<1> SUFFICES ASSUME Inv, Poll PROVE Inv'
  OBVIOUS
<1>0. TypeOK /\ LogInv /\ PollInv /\ LineInv /\ MemInv /\ Distinct(rows)
  BY DEF Inv
<1>1. /\ chain = "evm" /\ batch = <<>> /\ head >= from /\ batch' = Logs(from, head) /\ upto' = head
      /\ from' = (IF batch' = <<>> THEN head + 1 ELSE from)
      /\ chain' = chain /\ store' = store /\ log' = log /\ head' = head /\ UNCHANGED process
      /\ buffer' = buffer /\ rows' = rows /\ excused' = excused
  BY DEF Poll
<1>2. PICK b : b = Logs(from, head)
  OBVIOUS
<1>3. /\ b \in Seq(Nat) /\ Increasing(b)
      /\ \A x \in ToSet(b) : x \in 1 .. Len(log) /\ log[x].time >= from /\ log[x].time <= head
      /\ from \in Nat /\ head \in Nat /\ upto \in Nat /\ Len(log) \in Nat
  <2>1. from \in Nat /\ head \in Nat /\ upto \in Nat /\ Len(log) \in Nat
    BY <1>0, LenProperties DEF TypeOK
  <2>2. /\ b \in Seq(Nat) /\ Increasing(b)
        /\ \A x : x \in ToSet(b) <=> x \in 1 .. Len(log) /\ log[x].time >= from /\ log[x].time <= head
    BY <1>0, <1>2, <2>1, LogsAre
  <2> QED
    BY <2>1, <2>2
<1>4. Ahead = from /\ Ahead' = head + 1
  BY <1>1 DEF Ahead
<1>5. TypeOK'
  BY <1>0, <1>1, <1>2, <1>3 DEF TypeOK, process
<1>6. LogInv' /\ PollInv' /\ Distinct(rows)'
  BY <1>0, <1>1, <1>3 DEF LogInv, PollInv, Distinct
<1>7. ASSUME NEW s, Known(s), Asked(s) PROVE \A x \in ToSet(s) : log[x].time < head + 1 /\ \A y \in ToSet(b) : x < y
  <2> SUFFICES ASSUME NEW x \in ToSet(s) PROVE log[x].time < head + 1 /\ \A y \in ToSet(b) : x < y
    OBVIOUS
  <2>1. x \in 1 .. Len(log) /\ log[x].time < from /\ log[x].time \in Nat
    BY <1>0, <1>1, <1>4, <1>7, EventTypes DEF Known, Asked
  <2>2. ASSUME NEW y \in ToSet(b) PROVE x < y
    <3>1. y \in 1 .. Len(log) /\ log[y].time >= from /\ log[y].time \in Nat
      BY <1>0, <1>3, EventTypes
    <3>2. ~ (y < x) /\ y # x
      BY <1>0, <1>1, <1>3, <2>1, <3>1 DEF LogInv
    <3> QED
      BY <1>3, <2>1, <3>1, <3>2
  <2> QED
    BY <1>1, <1>3, <2>1, <2>2
<1>8. LineInv'
  <2>1. Known(buffer)' /\ Known(batch)' /\ Known(rows)'
    BY <1>0, <1>1, <1>2, <1>3 DEF LineInv, Known
  <2>2. Asked(buffer)' /\ Apart(buffer, batch)'
    BY <1>0, <1>1, <1>2, <1>4, <1>7 DEF LineInv, Asked, Apart
  <2>3. Asked(batch)'
    <3>1. ASSUME NEW x \in ToSet(b) PROVE log[x].time < head + 1
      BY <1>0, <1>3, EventTypes
    <3> QED
      BY <1>1, <1>2, <1>4, <3>1 DEF Asked
  <2> QED
    BY <1>0, <1>1, <1>2, <1>3, <2>1, <2>2, <2>3 DEF LineInv, Increasing
<1>9. MemInv'
  <2> SUFFICES ASSUME store = "memory" PROVE (Increasing(rows) /\ Asked(rows) /\ Apart(rows, buffer) /\ Apart(rows, batch))'
    BY <1>1 DEF MemInv
  <2>1. Increasing(rows)' /\ Apart(rows, buffer)'
    BY <1>0, <1>1 DEF MemInv, Increasing, Apart
  <2>2. Asked(rows)' /\ Apart(rows, batch)'
    BY <1>0, <1>1, <1>2, <1>4, <1>7 DEF MemInv, LineInv, Asked, Apart
  <2> QED
    BY <2>1, <2>2
<1> QED
  BY <1>5, <1>6, <1>8, <1>9 DEF Inv

\* The poller hands an event to the indexer.
LEMMA InvSend == Inv /\ Send => Inv' /\ Ahead' = Ahead
<1> SUFFICES ASSUME Inv, Send PROVE Inv' /\ Ahead' = Ahead
  OBVIOUS
<1>0. TypeOK /\ LogInv /\ PollInv /\ LineInv /\ MemInv /\ Distinct(rows)
  BY DEF Inv
<1>1. /\ batch # <<>> /\ buffer' = Append(buffer, Head(batch)) /\ batch' = Tail(batch)
      /\ from' = (IF batch' = <<>> THEN upto + 1 ELSE from)
      /\ chain' = chain /\ store' = store /\ log' = log /\ head' = head /\ UNCHANGED process
      /\ upto' = upto /\ rows' = rows /\ excused' = excused
  BY DEF Send
<1>2. PICK x : x = Head(batch)
  OBVIOUS
<1>3. PICK t : t = Tail(batch)
  OBVIOUS
<1>4. /\ t \in Seq(Nat) /\ x \in Nat /\ ToSet(batch) = {x} \cup ToSet(t)
      /\ Increasing(t) /\ \A y \in ToSet(t) : x < y
      /\ batch \in Seq(Nat) /\ buffer \in Seq(Nat) /\ Increasing(buffer)
  BY <1>0, <1>1, <1>2, <1>3, ShorterList DEF TypeOK, LineInv
<1>5. PICK b : b = Append(buffer, x)
  OBVIOUS
<1>6. \A y \in ToSet(buffer) : y < x
  BY <1>0, <1>4 DEF LineInv, Apart
<1>7. b \in Seq(Nat) /\ ToSet(b) = ToSet(buffer) \cup {x} /\ Increasing(b)
  BY <1>4, <1>5, <1>6, LongerList
<1>8. buffer' = b /\ batch' = t
  BY <1>1, <1>2, <1>3, <1>5
<1>9. Ahead' = Ahead
  BY <1>1 DEF Ahead
<1>10. TypeOK'
  <2>1. from' \in Nat
    BY <1>0, <1>1 DEF TypeOK
  <2>2. phase' = phase /\ subscribed' = subscribed
    BY <1>1 DEF process
  <2> QED
    BY <1>0, <1>1, <1>4, <1>7, <1>8, <2>1, <2>2 DEF TypeOK
<1>11. LogInv' /\ PollInv' /\ Distinct(rows)'
  BY <1>0, <1>1 DEF LogInv, PollInv, Distinct, TypeOK
<1>12. LineInv'
  <2>1. Known(buffer)' /\ Known(batch)' /\ Known(rows)'
    BY <1>0, <1>1, <1>4, <1>7, <1>8 DEF LineInv, Known
  <2>2. Asked(buffer)' /\ Asked(batch)'
    BY <1>0, <1>1, <1>4, <1>7, <1>8, <1>9 DEF LineInv, Asked
  <2>3. Apart(buffer, batch)'
    BY <1>0, <1>4, <1>7, <1>8 DEF LineInv, Apart
  <2> QED
    BY <1>4, <1>7, <1>8, <2>1, <2>2, <2>3 DEF LineInv, Increasing
<1>13. MemInv'
  <2> SUFFICES ASSUME store = "memory" PROVE (Increasing(rows) /\ Asked(rows) /\ Apart(rows, buffer) /\ Apart(rows, batch))'
    BY <1>1 DEF MemInv
  <2>1. Increasing(rows)' /\ Asked(rows)'
    BY <1>0, <1>1, <1>9 DEF MemInv, Increasing, Asked
  <2>2. Apart(rows, buffer)' /\ Apart(rows, batch)'
    BY <1>0, <1>1, <1>4, <1>7, <1>8 DEF MemInv, Apart
  <2> QED
    BY <2>1, <2>2
<1> QED
  BY <1>9, <1>10, <1>11, <1>12, <1>13 DEF Inv

\* The indexer takes an event, and the store has it afterwards or it has failed.
LEMMA InvTake ==
  ASSUME Inv, buffer # <<>>, buffer' = Tail(buffer),
         \/ rows' = rows /\ (store = "memory" => FALSE)
         \/ rows' = Append(rows, Head(buffer)) /\ (store # "memory" => Head(buffer) \notin Stored),
         UNCHANGED <<chain, store, log, head, process, poller>>, excused' \in SUBSET Nat
  PROVE  Inv'
<1>0. TypeOK /\ LogInv /\ PollInv /\ LineInv /\ MemInv /\ Distinct(rows)
  BY DEF Inv
<1>1. /\ chain' = chain /\ store' = store /\ log' = log /\ head' = head /\ phase' = phase /\ subscribed' = subscribed
      /\ from' = from /\ batch' = batch /\ upto' = upto /\ Ahead' = Ahead
  BY DEF process, poller, Ahead
<1>2. PICK x : x = Head(buffer)
  OBVIOUS
<1>3. PICK t : t = Tail(buffer)
  OBVIOUS
<1>4. /\ t \in Seq(Nat) /\ x \in Nat /\ ToSet(buffer) = {x} \cup ToSet(t)
      /\ Increasing(t) /\ \A y \in ToSet(t) : x < y
      /\ rows \in Seq(Nat)
  BY <1>0, <1>2, <1>3, ShorterList DEF TypeOK, LineInv
<1>5. buffer' = t
  BY <1>3
<1>6. PICK r : r = rows'
  OBVIOUS
<1>7. /\ r \in Seq(Nat) /\ Distinct(r) /\ (r = rows \/ ToSet(r) = ToSet(rows) \cup {x})
      /\ store = "memory" => ToSet(r) = ToSet(rows) \cup {x} /\ Increasing(r)
  <2>1. CASE rows' = rows /\ (store = "memory" => FALSE)
    BY <1>0, <1>4, <1>6, <2>1
  <2>2. CASE rows' = Append(rows, Head(buffer)) /\ (store # "memory" => Head(buffer) \notin Stored)
    <3>1. r = Append(rows, x)
      BY <1>2, <1>6, <2>2
    <3>2. store = "memory" => \A y \in ToSet(rows) : y < x
      BY <1>0, <1>4 DEF MemInv, Apart
    <3>3. x \notin ToSet(rows)
      BY <1>0, <1>2, <1>4, <2>2, <3>2 DEF Stored, TypeOK
    <3>4. store = "memory" => Increasing(rows)
      BY <1>0 DEF MemInv
    <3>5. r \in Seq(Nat) /\ Distinct(r) /\ ToSet(r) = ToSet(rows) \cup {x}
      BY <1>0, <1>4, <3>1, <3>3, LongerList
    <3>6. store = "memory" => Increasing(r)
      BY <1>4, <3>1, <3>2, <3>4, LongerList
    <3> QED
      BY <3>5, <3>6
  <2> QED
    BY <2>1, <2>2
<1>8. TypeOK'
  BY <1>0, <1>1, <1>4, <1>5, <1>6, <1>7 DEF TypeOK
<1>9. LogInv' /\ PollInv' /\ Distinct(rows)'
  BY <1>0, <1>1, <1>6, <1>7 DEF LogInv, PollInv, Distinct
<1>10. LineInv'
  <2>1. Known(buffer)' /\ Known(batch)' /\ Known(rows)'
    BY <1>0, <1>1, <1>4, <1>5, <1>6, <1>7 DEF LineInv, Known
  <2>2. Asked(buffer)' /\ Asked(batch)'
    BY <1>0, <1>1, <1>4, <1>5 DEF LineInv, Asked
  <2>3. Apart(buffer, batch)'
    BY <1>0, <1>1, <1>4, <1>5 DEF LineInv, Apart
  <2> QED
    BY <1>0, <1>1, <1>4, <1>5, <2>1, <2>2, <2>3 DEF LineInv, Increasing
<1>11. MemInv'
  <2> SUFFICES ASSUME store = "memory" PROVE (Increasing(rows) /\ Asked(rows) /\ Apart(rows, buffer) /\ Apart(rows, batch))'
    BY <1>1 DEF MemInv
  <2>0. ToSet(rows') = ToSet(rows) \cup {x} /\ Increasing(rows')
    BY <1>6, <1>7
  <2>1. Increasing(rows)' /\ Asked(rows)'
    BY <1>0, <1>1, <1>4, <2>0 DEF MemInv, LineInv, Increasing, Asked
  <2>2. Apart(rows, buffer)' /\ Apart(rows, batch)'
    BY <1>0, <1>1, <1>4, <1>5, <2>0 DEF MemInv, LineInv, Apart
  <2> QED
    BY <2>1, <2>2
<1> QED
  BY <1>8, <1>9, <1>10, <1>11 DEF Inv

\* The process ends.
LEMMA InvEnded == Inv /\ Ended => Inv'
<1> SUFFICES ASSUME Inv, Ended PROVE Inv'
  OBVIOUS
<1>0. TypeOK /\ LogInv /\ PollInv /\ LineInv /\ MemInv /\ Distinct(rows)
  BY DEF Inv
<1>1. /\ phase' = "down" /\ subscribed' = FALSE /\ from' = 0 /\ batch' = <<>> /\ upto' = 0 /\ buffer' = <<>>
      /\ chain' = chain /\ store' = store /\ log' = log /\ head' = head
  BY DEF Ended, StartBlock
<1>2. rows' = rows \/ rows' = <<>>
  BY DEF Ended
<1>3. store = "memory" => rows' = <<>>
  BY DEF Ended
<1>4. excused' \in SUBSET Nat
  <2>1. DOMAIN log \in SUBSET Nat
    BY <1>0, LenProperties DEF TypeOK
  <2> QED
    BY <2>1 DEF Ended
<1>5. TypeOK'
  BY <1>0, <1>1, <1>2, <1>4, EmptySeq DEF TypeOK
<1>6. LogInv' /\ PollInv'
  BY <1>0, <1>1, SMTT(30) DEF LogInv, PollInv, TypeOK
<1>7. Distinct(rows)' /\ Known(rows)'
  <2>1. CASE rows' = rows
    BY <1>0, <1>1, <2>1 DEF LineInv, Known, Distinct
  <2>2. CASE rows' = <<>>
    BY <2>2, EmptyList DEF Known, Distinct
  <2> QED
    BY <1>2, <2>1, <2>2
<1>8. LineInv'
  BY <1>1, <1>7, EmptyList DEF LineInv, Known, Asked, Apart, Increasing
<1>9. MemInv'
  BY <1>1, <1>3, EmptyList DEF MemInv, Asked, Apart, Increasing
<1> QED
  BY <1>5, <1>6, <1>7, <1>8, <1>9 DEF Inv

\* Every step keeps the invariant.
LEMMA InvStep == Inv /\ [Next]_vars => Inv'
<1> SUFFICES ASSUME Inv, [Next]_vars PROVE Inv'
  OBVIOUS
<1>1. ASSUME UNCHANGED <<chain, store, log, head, poller, buffer, rows, excused>>,
             phase' \in {"down", "up", "stopping"}, subscribed' \in BOOLEAN
      PROVE  Inv'
  <2>1. /\ chain' = chain /\ store' = store /\ log' = log /\ head' = head /\ from' = from /\ batch' = batch
        /\ upto' = upto /\ buffer' = buffer /\ rows' = rows /\ excused' = excused /\ Ahead' = Ahead
    BY <1>1 DEF poller, Ahead
  <2>2. TypeOK'
    BY <1>1, <2>1 DEF Inv, TypeOK
  <2>3. LogInv' /\ PollInv' /\ Distinct(rows)'
    BY <2>1 DEF Inv, LogInv, PollInv, Distinct
  <2>4. LineInv'
    BY <2>1 DEF Inv, LineInv, Known, Asked, Apart, Increasing
  <2>5. MemInv'
    BY <2>1 DEF Inv, MemInv, Asked, Apart, Increasing
  <2> QED
    BY <2>2, <2>3, <2>4, <2>5 DEF Inv
<1>2. phase \in {"down", "up", "stopping"} /\ subscribed \in BOOLEAN /\ excused \in SUBSET Nat /\ buffer \in Seq(Nat)
      /\ store \in {"memory", "sqlite", "postgres"}
  BY DEF Inv, TypeOK
<1>3. CASE Emission
  BY <1>3, InvEmit, InvMine DEF Emission
<1>4. CASE Poll
  BY <1>4, InvPoll
<1>5. CASE Send
  BY <1>5, InvSend
<1>6. CASE Index
  <2>1. /\ buffer # <<>> /\ buffer' = Tail(buffer) /\ excused' \in SUBSET Nat
        /\ UNCHANGED <<chain, store, log, head, process, poller>>
    BY <1>2, <1>6 DEF Index
  <2>2. \/ rows' = rows /\ (store = "memory" => FALSE)
        \/ rows' = Append(rows, Head(buffer)) /\ (store # "memory" => Head(buffer) \notin Stored)
    BY <1>2, <1>6 DEF Index, Refuses
  <2> QED
    BY <2>1, <2>2, InvTake
<1>7. CASE IndexError
  <2>1. /\ buffer # <<>> /\ buffer' = Tail(buffer) /\ excused' = excused \cup {Head(buffer)}
        /\ UNCHANGED <<chain, store, log, head, process, poller>>
        /\ rows' = rows /\ store # "memory"
    BY <1>7 DEF IndexError
  <2>2. excused' \in SUBSET Nat
    <3>1. PICK x \in Nat : x = Head(buffer)
      BY <1>2, <2>1, ShorterList
    <3>2. excused' = excused \cup {x}
      BY <2>1, <3>1
    <3> QED
      BY <1>2, <3>2
  <2> QED
    BY <2>1, <2>2, InvTake
<1>8. CASE Exit \/ Crash
  BY <1>8, InvEnded DEF Exit, Crash
<1>9. CASE Subscribe \/ Unsubscribe \/ Boot \/ Shutdown \/ UNCHANGED vars
  <2>1. CASE Subscribe \/ Unsubscribe
    BY <1>1, <1>2, <2>1 DEF Subscribe, Unsubscribe
  <2>2. CASE Boot \/ Shutdown
    BY <1>1, <1>2, <2>2 DEF Boot, Shutdown
  <2>3. CASE UNCHANGED vars
    BY <1>1, <1>2, <2>3 DEF vars, process
  <2> QED
    BY <1>9, <2>1, <2>2, <2>3
<1> QED
  BY <1>3, <1>4, <1>5, <1>6, <1>7, <1>8, <1>9 DEF Next

\* The types, the order of the log and of what is on its way, and that no event is
\* stored twice, in every reachable state.
THEOREM Invariant == Spec => []Inv
<1>1. Spec => []Inv
  BY InvInit, InvStep, PTL DEF Spec
<1> QED
  BY <1>1, PTL

-----------------------------------------------------------------------------
(* Losses *)

\* On the EVM chain a block to come is one the poller has not asked for.
LEMMA NotAskedYet ==
  ASSUME TypeOK, PollInv
  PROVE  Ahead \in Nat /\ Ahead <= head + 1
BY DEF TypeOK, PollInv, Ahead

\* A loss in the next state is one of this state, if what is stored, on its way or
\* excused stays so.
LEMMA LossKept ==
  ASSUME LossesHaveReasons, DOMAIN log' = DOMAIN log, log' = log, chain' = chain, Ahead' = Ahead,
         \A i \in DOMAIN log : i \in Stored \cup ToSet(buffer) \cup ToSet(batch) \cup excused
                                => i \in Stored' \cup ToSet(buffer') \cup ToSet(batch') \cup excused'
  PROVE  LossesHaveReasons'
<1> SUFFICES ASSUME NEW i \in DOMAIN log PROVE (i \in Stored \/ Pending(i) \/ i \in excused)'
  BY DEF LossesHaveReasons
<1>1. CASE i \in Stored \cup ToSet(buffer) \cup ToSet(batch) \cup excused
  BY <1>1 DEF Pending
<1>2. CASE i \notin Stored \cup ToSet(buffer) \cup ToSet(batch) \cup excused
  <2>1. chain = "evm" /\ log[i].time >= Ahead
    BY <1>2 DEF LossesHaveReasons, Pending
  <2> QED
    BY <2>1 DEF Pending
<1> QED
  BY <1>1, <1>2

\* Every step that loses an event has a reason.
LEMMA LossStep == Inv /\ LossesHaveReasons /\ [Next]_vars => LossesHaveReasons'
<1> SUFFICES ASSUME Inv, LossesHaveReasons, [Next]_vars PROVE LossesHaveReasons'
  OBVIOUS
<1>0. TypeOK /\ LogInv /\ PollInv /\ LineInv /\ Inv'
  BY InvStep DEF Inv
<1>1. DOMAIN log = 1 .. Len(log) /\ DOMAIN log' = 1 .. Len(log') /\ Len(log) \in Nat
  BY <1>0, LenProperties DEF Inv, TypeOK
<1>2. buffer \in Seq(Nat) /\ batch \in Seq(Nat) /\ rows \in Seq(Nat) /\ head \in Nat
  BY <1>0 DEF TypeOK
<1>3. ASSUME Grows, chain' = chain, rows' = rows, UNCHANGED poller, ToSet(buffer) \subseteq ToSet(buffer'),
             excused \subseteq excused',
             \A i \in 1 .. Len(log') : i \in 1 .. Len(log) \/ chain = "evm" \/ i \in ToSet(buffer') \cup excused'
      PROVE  LossesHaveReasons'
  <2> SUFFICES ASSUME NEW i \in 1 .. Len(log') PROVE (i \in Stored \/ Pending(i) \/ i \in excused)'
    BY <1>1 DEF LossesHaveReasons
  <2>0. Ahead' = Ahead /\ Ahead \in Nat /\ Ahead <= head + 1 /\ batch' = batch
    BY <1>0, <1>3, NotAskedYet DEF Ahead, poller
  <2>1. CASE i \in 1 .. Len(log)
    <3>1. log'[i] = log[i]
      BY <1>3, <2>1 DEF Grows
    <3>2. i \in Stored \/ Pending(i) \/ i \in excused
      BY <1>1, <2>1 DEF LossesHaveReasons
    <3> QED
      BY <1>3, <2>0, <3>1, <3>2 DEF Stored, Pending
  <2>2. CASE i \notin 1 .. Len(log)
    <3>2. CASE chain = "evm"
      <4>1. log'[i].time = head + 1
        BY <1>3, <2>2, <3>2 DEF Grows
      <4> QED
        BY <1>2, <1>3, <2>0, <3>2, <4>1 DEF Pending
    <3>3. CASE chain # "evm"
      BY <1>3, <2>2, <3>3 DEF Pending
    <3> QED
      BY <3>2, <3>3
  <2> QED
    BY <2>1, <2>2
<1>4. ASSUME NEW u \in Users, NEW type \in Types, NEW time \in 1 .. MaxTime, emit(u, type, time) PROVE LossesHaveReasons'
  <2>1. Grows /\ Len(log') = Len(log) + 1
    BY <1>4, InvEmit
  <2>2. chain' = chain /\ rows' = rows /\ UNCHANGED poller
    BY <1>4 DEF emit
  <2>3. PICK n \in Nat : n = Len(log')
    BY <1>1, <2>1
  <2>4. \A i \in 1 .. Len(log') : i \in 1 .. Len(log) \/ i = n
    BY <1>1, <2>1, <2>3
  <2>5. \/ buffer' = Append(buffer, n) /\ excused' = excused
        \/ buffer' = buffer /\ excused' = excused \cup {n}
    BY <1>4, <2>3 DEF emit
  <2>6. ToSet(Append(buffer, n)) = ToSet(buffer) \cup {n}
    BY <1>2, LongerList
  <2>7. ToSet(buffer) \subseteq ToSet(buffer') /\ excused \subseteq excused' /\ n \in ToSet(buffer') \cup excused'
    BY <2>5, <2>6
  <2> QED
    BY <1>3, <2>1, <2>2, <2>4, <2>7
<1>5. ASSUME NEW block \in Blocks, Mine(block) PROVE LossesHaveReasons'
  <2>1. Grows /\ chain = "evm" /\ chain' = chain /\ rows' = rows /\ UNCHANGED poller /\ buffer' = buffer /\ excused' = excused
    BY <1>5, InvMine DEF Mine
  <2> QED
    BY <1>3, <2>1
<1>6. CASE Poll
  <2>1. /\ chain = "evm" /\ batch = <<>> /\ head >= from /\ batch' = Logs(from, head) /\ upto' = head
        /\ from' = (IF batch' = <<>> THEN head + 1 ELSE from)
        /\ chain' = chain /\ log' = log /\ buffer' = buffer /\ rows' = rows /\ excused' = excused
    BY <1>6 DEF Poll
  <2> SUFFICES ASSUME NEW i \in 1 .. Len(log) PROVE (i \in Stored \/ Pending(i) \/ i \in excused)'
    BY <1>1, <2>1 DEF LossesHaveReasons
  <2>2. log[i].time \in Nat /\ log[i].time <= head /\ from \in Nat
    BY <1>0, <2>1, EventTypes DEF LogInv, TypeOK
  <2>3. CASE i \in Stored \cup ToSet(buffer) \cup excused
    BY <2>1, <2>3 DEF Stored, Pending
  <2>4. CASE i \notin Stored \cup ToSet(buffer) \cup excused
    <3>1. log[i].time >= from
      BY <1>1, <2>1, <2>4, EmptyList DEF LossesHaveReasons, Pending, Ahead
    <3>2. i \in ToSet(Logs(from, head))
      BY <1>0, <1>2, <2>2, <3>1, LogsAre
    <3> QED
      BY <2>1, <3>2 DEF Pending
  <2> QED
    BY <2>3, <2>4
<1>7. CASE Send
  <2>1. /\ batch # <<>> /\ buffer' = Append(buffer, Head(batch)) /\ batch' = Tail(batch)
        /\ chain' = chain /\ log' = log /\ rows' = rows /\ excused' = excused /\ Ahead' = Ahead
    BY <1>7, InvSend DEF Send
  <2>2. PICK x \in Nat : x = Head(batch)
    BY <1>2, <2>1, ShorterList
  <2>3. ToSet(batch) = {x} \cup ToSet(batch')
    BY <1>2, <2>1, <2>2, ShorterList
  <2>4. ToSet(buffer') = ToSet(buffer) \cup {x}
    BY <1>2, <2>1, <2>2, LongerList
  <2> QED
    BY <2>1, <2>3, <2>4, LossKept DEF Stored
<1>8. CASE Index \/ IndexError
  <2>1. /\ buffer # <<>> /\ buffer' = Tail(buffer) /\ chain' = chain /\ log' = log /\ batch' = batch /\ Ahead' = Ahead
    BY <1>8 DEF Index, IndexError, poller, Ahead
  <2>2. PICK x \in Nat : x = Head(buffer)
    BY <1>2, <2>1, ShorterList
  <2>3. ToSet(buffer) = {x} \cup ToSet(buffer')
    BY <1>2, <2>1, <2>2, ShorterList
  <2>4. ToSet(Append(rows, x)) = ToSet(rows) \cup {x}
    BY <1>2, LongerList
  <2>5. CASE Index
    <3>1. excused' = excused /\ (rows' = Append(rows, x) \/ (rows' = rows /\ x \in ToSet(rows)))
      BY <2>2, <2>5 DEF Index, Refuses, Stored
    <3> QED
      BY <2>1, <2>3, <2>4, <3>1, LossKept DEF Stored
  <2>6. CASE IndexError
    <3>1. rows' = rows /\ excused' = excused \cup {x}
      BY <2>2, <2>6 DEF IndexError
    <3> QED
      BY <2>1, <2>3, <3>1, LossKept DEF Stored
  <2> QED
    BY <1>8, <2>5, <2>6
<1>9. CASE Exit \/ Crash
  <2>1. /\ from' = 0 /\ batch' = <<>> /\ chain' = chain /\ log' = log
        /\ excused' = (IF chain = "mem" THEN DOMAIN log ELSE {})
    BY <1>9 DEF Exit, Crash, Ended, StartBlock
  <2> SUFFICES ASSUME NEW i \in 1 .. Len(log) PROVE (i \in Stored \/ Pending(i) \/ i \in excused)'
    BY <1>1, <2>1 DEF LossesHaveReasons
  <2>2. CASE chain = "mem"
    BY <1>1, <2>1, <2>2
  <2>3. CASE chain # "mem"
    <3>1. chain = "evm" /\ log[i].time \in Nat
      BY <1>0, <2>3, EventTypes DEF TypeOK
    <3> QED
      BY <2>1, <3>1 DEF Pending, Ahead
  <2> QED
    BY <2>2, <2>3
<1>10. CASE Subscribe \/ Unsubscribe \/ Boot \/ Shutdown \/ UNCHANGED vars
  <2>1. UNCHANGED <<chain, log, poller, buffer, rows, excused>>
    BY <1>10 DEF Subscribe, Unsubscribe, Boot, Shutdown, vars
  <2>2. Ahead' = Ahead /\ batch' = batch
    BY <2>1 DEF Ahead, poller
  <2> QED
    BY <2>1, <2>2, LossKept DEF Stored
<1> QED
  BY <1>4, <1>5, <1>6, <1>7, <1>8, <1>9, <1>10 DEF Next, Emission

\* An event of the chain is in the store or on its way, or its loss has one of the
\* reasons the code leaves: a failed append, or, with MemChain, a full buffer, nobody
\* subscribed or the end of the process.
THEOREM NothingElseIsLost == Spec => []LossesHaveReasons
<1>1. Init => LossesHaveReasons
  BY DEF Init, LossesHaveReasons
<1> QED
  BY <1>1, LossStep, Invariant, PTL DEF Spec

-----------------------------------------------------------------------------
(* What is read from the store *)

\* The order in which a store returns rows.
Earlier(m, n) ==
    IF store = "memory" THEN m < n
    ELSE Sooner(rows[m], rows[n]) \/ (~ Sooner(rows[n], rows[m]) /\ m < n)

\* The rows of a user, and for each the ones returned before it.
RowsOf(u) == {n \in DOMAIN rows : log[rows[n]].user = u}
EarlierOf(u) == [n \in RowsOf(u) |-> {m \in RowsOf(u) : Earlier(m, n)}]

\* Rows refer to the log.
LEMMA RowTypes ==
  ASSUME Inv, NEW n \in 1 .. Len(rows)
  PROVE  rows[n] \in 1 .. Len(log) /\ rows[n] \in Nat /\ log[rows[n]].time \in Nat
<1>1. rows \in Seq(Nat) /\ TypeOK /\ ToSet(rows) \subseteq 1 .. Len(log)
  BY DEF Inv, TypeOK, LineInv, Known
<1>2. rows[n] \in ToSet(rows)
  BY <1>1, Elements
<1>3. rows[n] \in 1 .. Len(log)
  BY <1>1, <1>2
<1> QED
  BY <1>1, <1>3, EventTypes

\* A number for each event by which a SQL store orders it: the second and, within it,
\* a whole second after the half one if the store compares text.
Weight(i) ==
    IF store = "sqlite" THEN 2 * (Timestamp(i) \div 2) + (IF Timestamp(i) % 2 = 1 THEN 0 ELSE 1)
    ELSE Timestamp(i)

\* Sooner is the order of the weights.
LEMMA SoonerIs ==
  ASSUME Inv, NEW i \in 1 .. Len(log), NEW j \in 1 .. Len(log)
  PROVE  /\ Weight(i) \in Int /\ Weight(j) \in Int
         /\ Sooner(i, j) <=> Weight(i) < Weight(j)
         /\ Sooner(j, i) <=> Weight(j) < Weight(i)
<1>1. log[i].time \in Nat /\ log[j].time \in Nat
  BY EventTypes DEF Inv
<1>2. PICK a, b : a = Timestamp(i) /\ b = Timestamp(j)
  OBVIOUS
<1>3. a \in Nat /\ b \in Nat
  BY <1>1, <1>2 DEF Timestamp
<1>4. CASE store = "sqlite"
  <2>1. PICK x, y : x = (IF a % 2 = 1 THEN 0 ELSE 1) /\ y = (IF b % 2 = 1 THEN 0 ELSE 1)
    OBVIOUS
  <2>2. PICK v, w : v = a \div 2 /\ w = b \div 2
    OBVIOUS
  <2>3. x \in {0, 1} /\ y \in {0, 1} /\ v \in Int /\ w \in Int
    BY <1>3, <2>1, <2>2
  <2>4. Weight(i) = 2 * v + x /\ Weight(j) = 2 * w + y
    BY <1>2, <1>4, <2>1, <2>2 DEF Weight
  <2>5. tstr(a) = <<v, x>> /\ tstr(b) = <<w, y>>
    BY <2>1, <2>2 DEF tstr
  <2>6. /\ Sooner(i, j) <=> (v < w \/ (v = w /\ x < y))
        /\ Sooner(j, i) <=> (w < v \/ (w = v /\ y < x))
    BY <1>2, <1>4, <2>5 DEF Sooner, SortsBefore
  <2> QED
    BY <2>3, <2>4, <2>6
<1>5. CASE store # "sqlite"
  BY <1>2, <1>3, <1>5 DEF Weight, Sooner
<1> QED
  BY <1>4, <1>5

\* Rows by the weights of their events.
LEMMA EarlierIs ==
  ASSUME Inv, store # "memory", NEW m \in 1 .. Len(rows), NEW n \in 1 .. Len(rows)
  PROVE  /\ Weight(rows[m]) \in Int /\ Weight(rows[n]) \in Int
         /\ Earlier(m, n) <=> (Weight(rows[m]) < Weight(rows[n]) \/ (Weight(rows[m]) = Weight(rows[n]) /\ m < n))
<1>1. PICK x, y : x = rows[m] /\ y = rows[n]
  OBVIOUS
<1>2. x \in 1 .. Len(log) /\ y \in 1 .. Len(log)
  BY <1>1, RowTypes
<1>3. PICK v, w : v = Weight(x) /\ w = Weight(y)
  OBVIOUS
<1>4. v \in Int /\ w \in Int /\ (Sooner(x, y) <=> v < w) /\ (Sooner(y, x) <=> w < v)
  BY <1>2, <1>3, SoonerIs
<1>5. Earlier(m, n) <=> (Sooner(x, y) \/ (~ Sooner(y, x) /\ m < n))
  BY <1>1 DEF Earlier
<1>6. Earlier(m, n) <=> (v < w \/ (v = w /\ m < n))
  BY <1>4, <1>5
<1> QED
  BY <1>1, <1>3, <1>4, <1>6

\* The rows of a user are finitely many and are returned in a total order.
LEMMA EarlierOrders ==
  ASSUME Inv, NEW u
  PROVE  /\ RowsOf(u) \in SUBSET (1 .. Len(rows)) /\ Len(rows) \in Nat /\ IsFiniteSet(RowsOf(u))
         /\ LinearOrder(RowsOf(u), EarlierOf(u))
<1>1. rows \in Seq(Nat) /\ Len(rows) \in Nat /\ DOMAIN rows = 1 .. Len(rows)
  BY LenProperties DEF Inv, TypeOK
<1>2. RowsOf(u) \in SUBSET (1 .. Len(rows))
  BY <1>1 DEF RowsOf
<1>3. IsFiniteSet(RowsOf(u))
  <2>1. IsFiniteSet(1 .. Len(rows))
    BY <1>1, FS_Interval
  <2> QED
    BY <1>2, <2>1, FS_Subset
<1>4. PICK S, before : S = RowsOf(u) /\ before = EarlierOf(u)
  OBVIOUS
<1>5. /\ \A n \in S : before[n] \in SUBSET S
      /\ \A m, n \in S : m \in before[n] <=> Earlier(m, n)
  <2>1. \A n \in S : before[n] = {m \in S : Earlier(m, n)}
    BY <1>4 DEF EarlierOf
  <2> QED
    BY <2>1, Zenon
<1>6. \A n \in S : n \in Nat /\ n \in 1 .. Len(rows)
  BY <1>1, <1>2, <1>4
<1>6a. /\ \A x \in S : ~ Earlier(x, x)
       /\ \A x, y \in S : x = y \/ Earlier(x, y) \/ Earlier(y, x)
       /\ \A x, y, z \in S : Earlier(x, y) /\ Earlier(z, x) => Earlier(z, y)
  <2>1. CASE store = "memory"
    <3>1. \A x, y \in S : Earlier(x, y) <=> x < y
      BY <2>1 DEF Earlier
    <3> QED
      BY <1>6, <3>1
  <2>2. CASE store # "memory"
    <3>1. PICK w : w = [n \in S |-> Weight(rows[n])]
      OBVIOUS
    <3>2. \A x \in S : w[x] = Weight(rows[x])
      BY <3>1
    <3>3. \A x, y \in S : /\ w[x] \in Int /\ w[y] \in Int
                          /\ Earlier(x, y) <=> (w[x] < w[y] \/ (w[x] = w[y] /\ x < y))
      BY <1>6, <2>2, <3>2, EarlierIs
    <3> QED
      BY <1>6, <3>3
  <2> QED
    BY <2>1, <2>2
<1>7. LinearOrder(S, before)
  <2>1. ASSUME NEW x \in S PROVE before[x] \in SUBSET S /\ x \notin before[x]
    <3>1. ~ Earlier(x, x)
      BY <1>6a
    <3> QED
      BY <1>5, <3>1
  <2>2. ASSUME NEW x \in S, NEW y \in S PROVE x = y \/ x \in before[y] \/ y \in before[x]
    <3>1. x = y \/ Earlier(x, y) \/ Earlier(y, x)
      BY <1>6a
    <3> QED
      BY <1>5, <3>1
  <2>3. ASSUME NEW x \in S, NEW y \in S, x \in before[y], NEW z \in before[x] PROVE z \in before[y]
    <3>1. z \in S
      BY <1>5, <2>3
    <3>2. Earlier(x, y) /\ Earlier(z, x)
      BY <1>5, <2>3, <3>1
    <3>3. Earlier(z, y)
      BY <1>6a, <3>1, <3>2
    <3> QED
      BY <1>5, <3>1, <3>3
  <2> QED
    BY <2>1, <2>2, <2>3 DEF LinearOrder
<1> QED
  BY <1>1, <1>2, <1>3, <1>4, <1>7

\* A read returns the events of the user that are stored, each once.
LEMMA ReadLists ==
  ASSUME Inv, NEW u
  PROVE  /\ ReputationEvents(u) \in Seq(Nat) /\ Distinct(ReputationEvents(u))
         /\ Len(ReputationEvents(u)) = Cardinality(RowsOf(u))
         /\ \A x : x \in ToSet(ReputationEvents(u)) <=> x \in 1 .. Len(log) /\ x \in Stored /\ log[x].user = u
<1>1. PICK S, before, o : S = RowsOf(u) /\ before = EarlierOf(u) /\ o = InOrder(S, before)
  OBVIOUS
<1>2. /\ S \in SUBSET (1 .. Len(rows)) /\ Len(rows) \in Nat /\ IsFiniteSet(S) /\ LinearOrder(S, before)
      /\ rows \in Seq(Nat) /\ DOMAIN rows = 1 .. Len(rows) /\ Distinct(rows)
  BY <1>1, EarlierOrders, LenProperties DEF Inv, TypeOK
<1>3. PICK c \in Nat : c = Cardinality(S)
  BY <1>2, FS_CardinalityType
<1>4. /\ o \in [1 .. c -> S] /\ \A x \in S : \E k \in 1 .. c : o[k] = x
      /\ \A k \in 1 .. c : Cardinality(before[o[k]]) = k - 1
  <2>1. /\ InOrder(S, before) \in [1 .. Cardinality(S) -> S]
        /\ \A x \in S : \E k \in 1 .. Cardinality(S) : InOrder(S, before)[k] = x
        /\ \A k \in 1 .. Cardinality(S) : Cardinality(before[InOrder(S, before)[k]]) = k - 1
    BY <1>2, InOrderLists
  <2>2. InOrder(S, before) = o /\ Cardinality(S) = c
    BY <1>1, <1>3
  <2> QED
    BY <2>1, <2>2, Zenon
<1>5. PICK r : r = ReputationEvents(u)
  OBVIOUS
<1>6. r = [k \in DOMAIN o |-> rows[o[k]]]
  BY <1>1, <1>5 DEF ReputationEvents, RowsOf, EarlierOf, Earlier
<1>7. \A k \in 1 .. c : o[k] \in 1 .. Len(rows) /\ rows[o[k]] \in Nat /\ r[k] = rows[o[k]]
  BY <1>2, <1>4, <1>6, ElementOfSeq
<1>8. r \in [1 .. c -> Nat]
  BY <1>4, <1>6, <1>7
<1>9. r \in Seq(Nat) /\ Len(r) = c
  BY <1>8, FunctionIsSeq
<1>10. Distinct(r)
  <2> SUFFICES ASSUME NEW i \in 1 .. Len(r), NEW j \in 1 .. Len(r), r[i] = r[j] PROVE i = j
    BY DEF Distinct
  <2>1. o[i] = o[j]
    BY <1>2, <1>7, <1>9 DEF Distinct
  <2>2. i - 1 = j - 1
    BY <1>4, <1>9, <2>1
  <2> QED
    BY <1>9, <2>2
<1>11. ASSUME NEW x PROVE x \in ToSet(r) <=> x \in 1 .. Len(log) /\ x \in Stored /\ log[x].user = u
  <2>1. ASSUME x \in ToSet(r) PROVE x \in 1 .. Len(log) /\ x \in Stored /\ log[x].user = u
    <3>1. PICK k \in 1 .. c : r[k] = x
      BY <1>9, <2>1, Elements
    <3>2. PICK n \in S : n = o[k] /\ x = rows[n]
      BY <1>4, <1>7, <3>1
    <3>3. n \in 1 .. Len(rows) /\ log[x].user = u
      BY <1>1, <1>2, <3>2 DEF RowsOf
    <3> QED
      BY <1>2, <3>2, <3>3, RowTypes, Elements DEF Stored
  <2>2. ASSUME x \in Stored, log[x].user = u PROVE x \in ToSet(r)
    <3>1. PICK n \in 1 .. Len(rows) : rows[n] = x
      BY <1>2, <2>2, Elements DEF Stored
    <3>2. n \in S
      BY <1>1, <1>2, <2>2, <3>1 DEF RowsOf
    <3>3. PICK k \in 1 .. c : o[k] = n
      BY <1>4, <3>2
    <3>4. r[k] = x
      BY <1>7, <3>1, <3>3
    <3> QED
      BY <1>9, <3>4, Elements
  <2> QED
    BY <2>1, <2>2
<1> QED
  BY <1>1, <1>3, <1>5, <1>9, <1>10, <1>11

\* In a list without repetitions, counting places is counting elements.
LEMMA CountPlaces ==
  ASSUME NEW s \in Seq(Nat), Distinct(s), NEW K \in SUBSET (1 .. Len(s)), NEW X,
         \A k \in K : s[k] \in X, \A x \in X : \E k \in K : s[k] = x
  PROVE  IsFiniteSet(K) /\ IsFiniteSet(X) /\ Cardinality(X) = Cardinality(K)
<1>1. IsFiniteSet(K)
  <2>1. Len(s) \in Nat
    BY LenProperties
  <2>2. IsFiniteSet(1 .. Len(s))
    BY <2>1, FS_Interval
  <2> QED
    BY <2>2, FS_Subset
<1>2. PICK f : f = [k \in K |-> s[k]]
  OBVIOUS
<1>3. f \in [K -> X] /\ \A k \in K : f[k] = s[k]
  BY <1>2
<1>4. f \in Injection(K, X)
  <2>1. \A i, j \in K : f[i] = f[j] => i = j
    BY <1>3 DEF Distinct
  <2> QED
    BY <1>3, <2>1 DEF Injection, IsInjective
<1>5. f \in Surjection(K, X)
  <2>1. \A x \in X : \E k \in K : f[k] = x
    BY <1>3
  <2> QED
    BY <1>3, <2>1 DEF Surjection
<1>6. ExistsBijection(K, X)
  BY <1>4, <1>5 DEF ExistsBijection, Bijection
<1> QED
  BY <1>1, <1>6, FS_Bijection

\* The count of a list without repetitions is the number of its events of that kind.
LEMMA CountIsCardinality ==
  ASSUME NEW s \in Seq(Nat), Distinct(s), NEW u, NEW type
  PROVE  CountOf(s, u, type) = Cardinality({x \in ToSet(s) : log[x].user = u /\ log[x].type = type})
<1>1. PICK K : K = {k \in DOMAIN s : log[s[k]].user = u /\ log[s[k]].type = type}
  OBVIOUS
<1>2. PICK X : X = {x \in ToSet(s) : log[x].user = u /\ log[x].type = type}
  OBVIOUS
<1>3. DOMAIN s = 1 .. Len(s)
  BY LenProperties
<1>4. K \in SUBSET (1 .. Len(s)) /\ \A k \in K : s[k] \in X
  BY <1>1, <1>2, <1>3, Elements
<1>5. ASSUME NEW x \in X PROVE \E k \in K : s[k] = x
  <2>1. x \in ToSet(s) /\ log[x].user = u /\ log[x].type = type
    BY <1>2
  <2>2. PICK k \in 1 .. Len(s) : s[k] = x
    BY <2>1, Elements
  <2> QED
    BY <1>1, <1>3, <2>1, <2>2
<1>6. Cardinality(X) = Cardinality(K)
  BY <1>4, <1>5, CountPlaces
<1> QED
  BY <1>1, <1>2, <1>6 DEF CountOf

\* The events of a kind that the chain has.
OnChain(u, type) == {x \in 1 .. Len(log) : log[x].user = u /\ log[x].type = type}

\* They are finitely many, and the summary of the whole log counts them.
LEMMA ChainCounts ==
  ASSUME TypeOK, NEW u, NEW type
  PROVE  /\ IsFiniteSet(OnChain(u, type)) /\ Cardinality(OnChain(u, type)) \in Nat
         /\ CountOf([i \in DOMAIN log |-> i], u, type) = Cardinality(OnChain(u, type))
<1>1. Len(log) \in Nat /\ DOMAIN log = 1 .. Len(log)
  BY LenProperties DEF TypeOK
<1>2. PICK all : all = [i \in DOMAIN log |-> i]
  OBVIOUS
<1>3. all \in [1 .. Len(log) -> Nat] /\ \A i \in 1 .. Len(log) : all[i] = i
  BY <1>1, <1>2
<1>4. all \in Seq(Nat) /\ Len(all) = Len(log)
  BY <1>1, <1>3, FunctionIsSeq
<1>5. Distinct(all)
  BY <1>3, <1>4 DEF Distinct
<1>6. ToSet(all) = 1 .. Len(log)
  <2>1. \A i \in 1 .. Len(log) : i \in ToSet(all)
    BY <1>3, <1>4, Elements
  <2>2. \A x \in ToSet(all) : x \in 1 .. Len(log)
    BY <1>3, <1>4, Elements
  <2> QED
    BY <2>1, <2>2
<1>7. CountOf(all, u, type) = Cardinality({x \in ToSet(all) : log[x].user = u /\ log[x].type = type})
  BY <1>4, <1>5, CountIsCardinality
<1>8. {x \in ToSet(all) : log[x].user = u /\ log[x].type = type} = OnChain(u, type)
  BY <1>6 DEF OnChain
<1>9. IsFiniteSet(OnChain(u, type))
  <2>1. IsFiniteSet(1 .. Len(log))
    BY <1>1, FS_Interval
  <2>2. OnChain(u, type) \in SUBSET (1 .. Len(log))
    BY DEF OnChain
  <2> QED
    BY <2>1, <2>2, FS_Subset
<1> QED
  BY <1>2, <1>7, <1>8, <1>9, FS_CardinalityType

\* What the store returns counts no more than the chain holds.
LEMMA ReadCounts ==
  ASSUME Inv, NEW u, NEW type
  PROVE  LET cached == CountOf(ReputationEvents(u), u, type)
             chained == CountOf([i \in DOMAIN log |-> i], u, type)
         IN  cached <= chained /\ (Complete(u) => cached = chained)
<1>0. TypeOK
  BY DEF Inv
<1>1. PICK X : X = {x \in ToSet(ReputationEvents(u)) : log[x].user = u /\ log[x].type = type}
  OBVIOUS
<1>2. CountOf(ReputationEvents(u), u, type) = Cardinality(X)
  BY <1>1, ReadLists, CountIsCardinality
<1>3. X \in SUBSET OnChain(u, type)
  BY <1>1, ReadLists DEF OnChain
<1>4. Cardinality(X) <= Cardinality(OnChain(u, type))
  BY <1>0, <1>3, ChainCounts, FS_Subset
<1>5. ASSUME Complete(u) PROVE X = OnChain(u, type)
  <2>1. DOMAIN log = 1 .. Len(log)
    BY <1>0, LenProperties DEF TypeOK
  <2>2. ASSUME NEW x \in OnChain(u, type) PROVE x \in X
    <3>1. x \in 1 .. Len(log) /\ log[x].user = u /\ log[x].type = type
      BY DEF OnChain
    <3>2. x \in Stored
      BY <1>5, <2>1, <3>1 DEF Complete
    <3>3. x \in ToSet(ReputationEvents(u))
      BY <3>1, <3>2, ReadLists
    <3> QED
      BY <1>1, <3>1, <3>3
  <2> QED
    BY <1>3, <2>2
<1> QED
  BY <1>0, <1>2, <1>4, <1>5, ChainCounts

\* However often the chain is read again, the reputation summary never counts more
\* than the chain holds, and it is the chain's as soon as no event is missing.
THEOREM SummariesAgree == Spec => []SummaryAgrees
<1>1. Inv => SummaryAgrees
  <2> SUFFICES ASSUME Inv, NEW u \in Users
               PROVE  LET all == [i \in DOMAIN log |-> i]
                          cached == SummariseReputation(u, ReputationEvents(u))
                      IN  /\ \A type \in Types : cached[type] <= SummariseReputation(u, all)[type]
                          /\ Complete(u) => cached = SummariseReputation(u, all)
    BY DEF SummaryAgrees
  <2>1. PICK all : all = [i \in DOMAIN log |-> i]
    OBVIOUS
  <2>2. PICK ids : ids = ReputationEvents(u)
    OBVIOUS
  <2>3. ASSUME NEW type \in Types
        PROVE  /\ CountOf(ids, u, type) <= CountOf(all, u, type)
               /\ Complete(u) => CountOf(ids, u, type) = CountOf(all, u, type)
    BY <2>1, <2>2, ReadCounts
  <2>4. ASSUME NEW s PROVE SummariseReputation(u, s) = [type \in Types |-> CountOf(s, u, type)]
    BY DEF SummariseReputation
  <2>5. \A type \in Types : SummariseReputation(u, ids)[type] <= SummariseReputation(u, all)[type]
    BY <2>3, <2>4
  <2>6. Complete(u) => SummariseReputation(u, ids) = SummariseReputation(u, all)
    BY <2>3, <2>4
  <2> QED
    BY <2>1, <2>2, <2>5, <2>6
<1> QED
  BY <1>1, Invariant, PTL

-----------------------------------------------------------------------------
(* Warnings *)

\* The events of a user on the chain are finitely many.
LEMMA EventsFinite ==
  ASSUME TypeOK, NEW u
  PROVE  EventsOf(u) \in SUBSET (1 .. Len(log)) /\ EventsOf(u) \in SUBSET Nat /\ IsFiniteSet(EventsOf(u))
<1>1. Len(log) \in Nat /\ DOMAIN log = 1 .. Len(log)
  BY LenProperties DEF TypeOK
<1>2. EventsOf(u) \in SUBSET (1 .. Len(log)) /\ EventsOf(u) \in SUBSET Nat
  BY <1>1 DEF EventsOf
<1>3. IsFiniteSet(1 .. Len(log))
  BY <1>1, FS_Interval
<1> QED
  BY <1>2, <1>3, FS_Subset

\* The store can return the events of a user in the order of their times.
Sortable(u) ==
    /\ TimesDiffer(u)
    /\ chain = "mem" /\ store = "memory" => InTime(u)
    /\ chain = "mem" /\ store = "sqlite" => OneLength(u)

\* Numbers of one parity keep their order as text.
LEMMA WeightKeeps ==
  ASSUME NEW a \in Nat, NEW b \in Nat, a % 2 = b % 2, NEW v, NEW w,
         v = 2 * (a \div 2) + (IF a % 2 = 1 THEN 0 ELSE 1),
         w = 2 * (b \div 2) + (IF b % 2 = 1 THEN 0 ELSE 1)
  PROVE  v < w <=> a < b
<1>1. PICK x : x = (IF a % 2 = 1 THEN 0 ELSE 1) /\ x \in {0, 1}
  OBVIOUS
<1>2. v = 2 * (a \div 2) + x /\ w = 2 * (b \div 2) + x
  BY <1>1
<1>3. PICK q, t, p : q = a \div 2 /\ t = b \div 2 /\ p = a % 2
  OBVIOUS
<1>4. q \in Int /\ t \in Int /\ p \in Int /\ a = 2 * q + p /\ b = 2 * t + p
  BY <1>3
<1>5. v = 2 * q + x /\ w = 2 * t + x
  BY <1>2, <1>3
<1> QED
  BY <1>1, <1>4, <1>5

\* A SQL store then orders two events of the user by their times.
LEMMA WeightIsTime ==
  ASSUME Inv, NEW u, Sortable(u), store # "memory", NEW x \in EventsOf(u), NEW y \in EventsOf(u)
  PROVE  Weight(x) < Weight(y) <=> log[x].time < log[y].time
<1>0. x \in 1 .. Len(log) /\ y \in 1 .. Len(log) /\ chain \in {"mem", "evm"}
  BY EventsFinite DEF Inv, TypeOK
<1>1. PICK v, w : v = log[x].time /\ w = log[y].time
  OBVIOUS
<1>2. v \in Nat /\ w \in Nat
  BY <1>0, <1>1, EventTypes DEF Inv
<1>3. PICK a, b : a = Timestamp(x) /\ b = Timestamp(y)
  OBVIOUS
<1>4. a \in Nat /\ b \in Nat /\ (a < b <=> v < w)
  BY <1>1, <1>2, <1>3 DEF Timestamp
<1>5. CASE store = "sqlite"
  <2>1. a % 2 = b % 2
    <3>1. CASE chain = "evm"
      <4>1. a = 2 * v /\ b = 2 * w
        BY <1>1, <1>3, <3>1 DEF Timestamp
      <4>2. a % 2 = 0 /\ b % 2 = 0
        BY <1>2, <4>1
      <4> QED
        BY <4>2
    <3>2. CASE chain = "mem"
      BY <1>3, <1>5, <3>2 DEF Sortable, OneLength
    <3> QED
      BY <1>0, <3>1, <3>2
  <2>2. PICK c, d : c = Weight(x) /\ d = Weight(y)
    OBVIOUS
  <2>3. /\ c = 2 * (a \div 2) + (IF a % 2 = 1 THEN 0 ELSE 1)
        /\ d = 2 * (b \div 2) + (IF b % 2 = 1 THEN 0 ELSE 1)
    BY <1>3, <1>5, <2>2 DEF Weight
  <2>4. c < d <=> a < b
    BY <1>4, <2>1, <2>3, WeightKeeps
  <2> QED
    BY <1>1, <1>4, <2>2, <2>4
<1>6. CASE store # "sqlite"
  BY <1>1, <1>3, <1>4, <1>6 DEF Weight
<1> QED
  BY <1>5, <1>6

\* The rows of a user come in the order of their times.
LEMMA EarlierIsSooner ==
  ASSUME Inv, NEW u, Sortable(u), NEW m \in RowsOf(u), NEW n \in RowsOf(u)
  PROVE  Earlier(m, n) <=> log[rows[m]].time < log[rows[n]].time
<1>1. m \in 1 .. Len(rows) /\ n \in 1 .. Len(rows) /\ Len(rows) \in Nat
  BY EarlierOrders
<1>2. PICK x, y : x = rows[m] /\ y = rows[n]
  OBVIOUS
<1>3. x \in 1 .. Len(log) /\ y \in 1 .. Len(log) /\ log[x].time \in Nat /\ log[y].time \in Nat /\ x \in Nat /\ y \in Nat
  BY <1>1, <1>2, RowTypes
<1>4. x \in EventsOf(u) /\ y \in EventsOf(u) /\ chain \in {"mem", "evm"}
  <2>1. DOMAIN log = 1 .. Len(log) /\ chain \in {"mem", "evm"}
    BY LenProperties DEF Inv, TypeOK
  <2> QED
    BY <1>2, <1>3, <2>1 DEF RowsOf, EventsOf
<1>5. log[x].time = log[y].time => x = y
  BY <1>4 DEF Sortable, TimesDiffer
<1>6. x = y => m = n
  BY <1>1, <1>2 DEF Inv, Distinct
<1>7. CASE store = "memory"
  <2>1. (m < n => x < y) /\ (n < m => y < x)
    BY <1>1, <1>2, <1>7 DEF Inv, MemInv, Increasing
  <2>2. m < n <=> x < y
    BY <1>1, <1>2, <1>3, <2>1
  <2>3. PICK v, w : v = log[x].time /\ w = log[y].time
    OBVIOUS
  <2>4. (x < y => v < w) /\ (y < x => w < v)
    <3>1. CASE chain = "evm"
      <4>1. (x < y => v <= w) /\ (y < x => w <= v)
        BY <1>3, <2>3, <3>1 DEF Inv, LogInv
      <4> QED
        BY <1>3, <1>5, <2>3, <4>1
    <3>2. CASE chain = "mem"
      BY <1>4, <1>7, <2>3, <3>2 DEF Sortable, InTime
    <3> QED
      BY <1>4, <3>1, <3>2
  <2>5. x < y <=> v < w
    BY <1>3, <2>3, <2>4
  <2> QED
    BY <1>2, <1>7, <2>2, <2>3, <2>5 DEF Earlier
<1>8. CASE store # "memory"
  <2>1. PICK v, w, a, b : v = log[x].time /\ w = log[y].time /\ a = Weight(x) /\ b = Weight(y)
    OBVIOUS
  <2>2. (a < b <=> v < w) /\ (b < a <=> w < v)
    BY <1>4, <1>8, <2>1, WeightIsTime
  <2>3. a \in Int /\ b \in Int /\ (Earlier(m, n) <=> (a < b \/ (a = b /\ m < n)))
    BY <1>1, <1>2, <1>8, <2>1, EarlierIs
  <2>4. a = b => v = w
    BY <1>3, <2>1, <2>2, <2>3
  <2>5. a = b => m = n
    BY <1>5, <1>6, <2>1, <2>4
  <2>6. ~ (a = b /\ m < n)
    BY <1>1, <2>5
  <2> QED
    BY <1>2, <2>1, <2>2, <2>3, <2>6
<1> QED
  BY <1>7, <1>8

\* Times that differ order the events of a user.
LEMMA TimesOrder ==
  ASSUME Inv, NEW u, TimesDiffer(u), NEW M, M = EventsOf(u),
         NEW below, below = [x \in M |-> {y \in M : log[y].time < log[x].time}]
  PROVE  LinearOrder(M, below)
<1>1. \A x \in M : log[x].time \in Nat
  BY EventsFinite, EventTypes DEF Inv
<1>2. /\ \A x \in M : below[x] \in SUBSET M
      /\ \A x, y \in M : y \in below[x] <=> log[y].time < log[x].time
  <2>1. \A x \in M : below[x] = {y \in M : log[y].time < log[x].time}
    OBVIOUS
  <2> QED
    BY <2>1, Zenon
<1>3. ASSUME NEW x \in M PROVE below[x] \in SUBSET M /\ x \notin below[x]
  BY <1>1, <1>2
<1>4. ASSUME NEW x \in M, NEW y \in M PROVE x = y \/ x \in below[y] \/ y \in below[x]
  BY <1>1, <1>2 DEF TimesDiffer
<1>5. ASSUME NEW x \in M, NEW y \in M, x \in below[y], NEW z \in below[x] PROVE z \in below[y]
  <2>1. z \in M
    BY <1>2, <1>5
  <2>2. log[z].time < log[x].time /\ log[x].time < log[y].time
    BY <1>2, <1>5, <2>1
  <2>3. log[z].time < log[y].time
    BY <1>1, <2>1, <2>2
  <2> QED
    BY <1>2, <2>1, <2>3
<1> QED
  BY <1>3, <1>4, <1>5 DEF LinearOrder

\* A complete history is then read in the order of the times.
LEMMA ReadIsByTime ==
  ASSUME Inv, NEW u, Sortable(u), Complete(u)
  PROVE  ReputationEvents(u) = ByTime(u)
<1>0. TypeOK /\ rows \in Seq(Nat) /\ Distinct(rows) /\ DOMAIN rows = 1 .. Len(rows) /\ DOMAIN log = 1 .. Len(log)
  BY LenProperties DEF Inv, TypeOK
<1>1. PICK S, M, before, below : /\ S = RowsOf(u) /\ M = EventsOf(u) /\ before = EarlierOf(u)
                                 /\ below = [x \in M |-> {y \in M : log[y].time < log[x].time}]
  OBVIOUS
<1>2. /\ S \in SUBSET (1 .. Len(rows)) /\ IsFiniteSet(S) /\ LinearOrder(S, before)
      /\ M \in SUBSET Nat /\ IsFiniteSet(M)
  BY <1>0, <1>1, EarlierOrders, EventsFinite
<1>3. ASSUME NEW n \in S PROVE rows[n] \in M
  <2>1. n \in 1 .. Len(rows) /\ log[rows[n]].user = u
    BY <1>1, <1>2 DEF RowsOf
  <2>2. rows[n] \in 1 .. Len(log)
    BY <2>1, RowTypes
  <2> QED
    BY <1>0, <1>1, <2>1, <2>2 DEF EventsOf
<1>4. ASSUME NEW x \in M PROVE \E n \in S : rows[n] = x
  <2>1. x \in DOMAIN log /\ log[x].user = u
    BY <1>1 DEF EventsOf
  <2>2. x \in ToSet(rows)
    BY <2>1 DEF Complete, Stored
  <2>3. PICK n \in 1 .. Len(rows) : rows[n] = x
    BY <1>0, <2>2, Elements
  <2>4. n \in S
    BY <1>0, <1>1, <2>1, <2>3 DEF RowsOf
  <2> QED
    BY <2>3, <2>4
<1>5. Cardinality(M) = Cardinality(S)
  BY <1>0, <1>2, <1>3, <1>4, CountPlaces
<1>6. ASSUME NEW n \in S PROVE Cardinality(below[rows[n]]) = Cardinality(before[n])
  <2>1. PICK x : x = rows[n]
    OBVIOUS
  <2>2. x \in M
    BY <1>3, <2>1
  <2>3. before[n] = {m \in S : Earlier(m, n)}
    BY <1>1 DEF EarlierOf
  <2>4. below[x] = {y \in M : log[y].time < log[x].time}
    BY <1>1, <2>2
  <2>5. \A m \in S : Earlier(m, n) <=> log[rows[m]].time < log[x].time
    BY <1>1, <2>1, EarlierIsSooner
  <2>6. before[n] \in SUBSET (1 .. Len(rows))
    BY <1>2, <2>3
  <2>7. \A m \in before[n] : rows[m] \in below[x]
    BY <1>3, <2>3, <2>4, <2>5
  <2>8. ASSUME NEW y \in below[x] PROVE \E m \in before[n] : rows[m] = y
    <3>1. y \in M /\ log[y].time < log[x].time
      BY <2>4
    <3>2. PICK m \in S : rows[m] = y
      BY <1>4, <3>1
    <3> QED
      BY <2>3, <2>5, <3>1, <3>2
  <2>9. Cardinality(below[x]) = Cardinality(before[n])
    BY <1>0, <2>6, <2>7, <2>8, CountPlaces
  <2> QED
    BY <2>1, <2>9
<1>7. PICK c \in Nat : c = Cardinality(S)
  BY <1>2, FS_CardinalityType
<1>8. PICK o : o = InOrder(S, before)
  OBVIOUS
<1>9. o \in [1 .. c -> S] /\ \A k \in 1 .. c : Cardinality(before[o[k]]) = k - 1
  <2>1. /\ InOrder(S, before) \in [1 .. Cardinality(S) -> S]
        /\ \A k \in 1 .. Cardinality(S) : Cardinality(before[InOrder(S, before)[k]]) = k - 1
    BY <1>2, InOrderLists
  <2> QED
    BY <1>7, <1>8, <2>1, Zenon
<1>10. LinearOrder(M, below)
  BY <1>1, TimesOrder DEF Sortable
<1>11. ASSUME NEW k \in 1 .. c PROVE rows[o[k]] = CHOOSE x \in M : Cardinality(below[x]) = k - 1
  <2>1. PICK n \in S : n = o[k] /\ Cardinality(before[n]) = k - 1
    BY <1>9
  <2>2. PICK z \in M : z = rows[n] /\ Cardinality(below[z]) = k - 1
    BY <1>3, <1>6, <2>1
  <2>3. ASSUME NEW x \in M, Cardinality(below[x]) = k - 1 PROVE x = z
    <3>1. ~ (Cardinality(below[x]) < Cardinality(below[z])) /\ ~ (Cardinality(below[z]) < Cardinality(below[x]))
      BY <2>2, <2>3
    <3>2. x \notin below[z] /\ z \notin below[x]
      BY <1>2, <1>10, <3>1, FewerBefore
    <3> QED
      BY <1>10, <3>2 DEF LinearOrder
  <2> QED
    BY <2>1, <2>2, <2>3
<1>12. ReputationEvents(u) = [k \in DOMAIN o |-> rows[o[k]]]
  BY <1>1, <1>8 DEF ReputationEvents, RowsOf, EarlierOf, Earlier
<1>13. ByTime(u) = [k \in 1 .. c |-> CHOOSE x \in M : Cardinality(below[x]) = k - 1]
  <2>1. ByTime(u) = InOrder(M, below)
    BY <1>1 DEF ByTime
  <2> QED
    BY <1>5, <1>7, <2>1 DEF InOrder
<1>14. DOMAIN o = 1 .. c
  BY <1>9
<1> QED
  BY <1>1, <1>11, <1>12, <1>13, <1>14

\* Once no event of a user is missing and no two have one time, the early-warning level
\* computed from the store is the one of the chain's events in the order of their times,
\* although events may have been stored late and out of order: always on the EVM chain,
\* always with Postgres, and with MemChain and memory or SQLite if events were handed
\* over in the order of their times or these are printed at one length.
THEOREM WarningsAreTheChains == Spec => []WarningsAgree
<1>1. Inv => WarningsAgree
  <2> SUFFICES ASSUME Inv, NEW u \in Users, Complete(u), Sortable(u)
               PROVE  MonitorMember(u, ReputationEvents(u)) = MonitorMember(u, ByTime(u))
    BY Zenon DEF WarningsAgree, Sortable
  <2>1. ReputationEvents(u) = ByTime(u)
    BY ReadIsByTime
  <2> QED
    BY <2>1
<1> QED
  BY <1>1, Invariant, PTL

=============================================================================
