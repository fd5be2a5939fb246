--------------------------- MODULE AssemblyProofs ---------------------------
(***************************************************************************)
(* Theorems about Assembly, for any users, any number of requests in       *)
(* flight and any number of failures and crashes.                          *)
(***************************************************************************)
EXTENDS Assembly, ListLemmas, SequenceTheorems

-----------------------------------------------------------------------------
(* What the loop of dropMember computes *)

\* f is the loop of dropMember over the first n members of s.
Loop(s, u, n, f) ==
    f = [i \in 0 .. n |->
           IF i = 0 THEN <<>> ELSE IF s[i] = u THEN f[i - 1] ELSE Append(f[i - 1], s[i])]

\* The loop is defined for every number of rounds.
LEMMA LoopExists ==
  ASSUME NEW s, NEW u, NEW n \in Nat
  PROVE  \E f : Loop(s, u, n, f)
<1> DEFINE T == {k \in Nat : \E f : Loop(s, u, k, f)}
<1>1. 0 \in T
  <2> DEFINE g == [i \in 0 .. 0 |-> <<>>]
  <2>1. Loop(s, u, 0, g)
    BY DEF Loop
  <2> QED
    BY <2>1
<1>2. ASSUME NEW k \in T PROVE k + 1 \in T
  <2>1. PICK f : Loop(s, u, k, f)
    OBVIOUS
  <2> DEFINE g == [i \in 0 .. k + 1 |->
                     IF i = k + 1 THEN IF s[i] = u THEN f[i - 1] ELSE Append(f[i - 1], s[i])
                     ELSE f[i]]
  <2>2. \A i \in 0 .. k : g[i] = f[i]
    OBVIOUS
  <2>3. \A i \in 0 .. k : f[i] =
          IF i = 0 THEN <<>> ELSE IF s[i] = u THEN f[i - 1] ELSE Append(f[i - 1], s[i])
    BY <2>1 DEF Loop
  <2>4. \A i \in 0 .. k + 1 : g[i] =
          IF i = 0 THEN <<>> ELSE IF s[i] = u THEN g[i - 1] ELSE Append(g[i - 1], s[i])
    <3> TAKE i \in 0 .. k + 1
    <3>1. CASE i = k + 1
      BY <3>1, <2>2
    <3>2. CASE i \in 0 .. k
      BY <3>2, <2>2, <2>3
    <3> QED
      BY <3>1, <3>2
  <2>5. Loop(s, u, k + 1, g)
    BY <2>4 DEF Loop
  <2> QED
    BY <2>5
<1> HIDE DEF T
<1>3. T = Nat
  BY <1>1, <1>2, SetInduction DEF T
<1> QED
  BY <1>3 DEF T

\* The recursive function is the loop.
LEMMA KeptIsLoop ==
  ASSUME NEW S, NEW s \in Seq(S), NEW u
  PROVE  Loop(s, u, Len(s), Kept(s, u))
<1>1. Kept(s, u) = CHOOSE f : Loop(s, u, Len(s), f)
  BY DEF Kept, Loop
<1>2. \E f : Loop(s, u, Len(s), f)
  <2>1. Len(s) \in Nat
    OBVIOUS
  <2> QED
    BY <2>1, LoopExists
<1> QED
  BY <1>1, <1>2

\* The users on a list.
On(s, v) == \E i \in 1 .. Len(s) : s[i] = v

\* What remains of a member list is no longer than the list and holds the members
\* other than the one dropped, however often he was on it.
LEMMA WithoutFacts ==
  ASSUME NEW S, NEW s \in Seq(S), NEW u
  PROVE  /\ Without(s, u) \in Seq(S)
         /\ Len(Without(s, u)) <= Len(s)
         /\ \A v : On(Without(s, u), v) <=> v # u /\ On(s, v)
<1> DEFINE f == Kept(s, u)
           P(k) == /\ f[k] \in Seq(S)
                   /\ Len(f[k]) <= k
                   /\ \A v : On(f[k], v) <=> v # u /\ \E i \in 1 .. k : s[i] = v
           T == {k \in Nat : k <= Len(s) => P(k)}
<1>0. Len(s) \in Nat
  OBVIOUS
<1>1. /\ f[0] = <<>>
      /\ \A i \in 1 .. Len(s) : f[i] = IF s[i] = u THEN f[i - 1] ELSE Append(f[i - 1], s[i])
  <2>1. Loop(s, u, Len(s), f)
    BY KeptIsLoop
  <2>2. \A i \in 0 .. Len(s) : f[i] =
          IF i = 0 THEN <<>> ELSE IF s[i] = u THEN f[i - 1] ELSE Append(f[i - 1], s[i])
    <3> HIDE DEF f
    <3> QED
      BY <2>1 DEF Loop
  <2> HIDE DEF f
  <2>3. f[0] = <<>>
    BY <2>2, <1>0
  <2>4. \A i \in 1 .. Len(s) : i \in 0 .. Len(s) /\ i # 0
    BY <1>0
  <2> QED
    BY <2>2, <2>3, <2>4
<1> HIDE DEF f
<1>2. 0 \in T
  <2>1. f[0] \in Seq(S) /\ Len(f[0]) = 0
    BY <1>1, EmptySeq
  <2>2. \A v : ~ On(f[0], v) /\ ~ \E i \in 1 .. 0 : s[i] = v
    BY <2>1 DEF On
  <2> QED
    BY <2>1, <2>2
<1>3. ASSUME NEW k \in T PROVE k + 1 \in T
  <2> SUFFICES ASSUME k + 1 <= Len(s) PROVE P(k + 1)
    OBVIOUS
  <2>1. P(k) /\ k \in Nat /\ k + 1 \in 1 .. Len(s) /\ s[k + 1] \in S
    OBVIOUS
  <2>2. \A v : (\E i \in 1 .. k + 1 : s[i] = v) <=> (s[k + 1] = v \/ \E i \in 1 .. k : s[i] = v)
    <3> TAKE v
    <3>1. ASSUME NEW i \in 1 .. k + 1, s[i] = v PROVE s[k + 1] = v \/ \E j \in 1 .. k : s[j] = v
      BY <3>1
    <3> QED
      BY <3>1
  <2>3. CASE s[k + 1] = u
    <3>1. f[k + 1] = f[k]
      BY <1>1, <2>1, <2>3
    <3>2. Len(f[k]) \in Nat /\ Len(f[k]) <= k + 1
      BY <2>1
    <3>3. \A v : On(f[k], v) <=> v # u /\ \E i \in 1 .. k + 1 : s[i] = v
      BY <2>1, <2>2, <2>3
    <3> QED
      BY <3>1, <3>2, <3>3, <2>1
  <2>4. CASE s[k + 1] # u
    <3> DEFINE g == f[k]
    <3>1. f[k + 1] = Append(g, s[k + 1])
      <4> DEFINE j == k + 1
      <4> HIDE DEF P, T, j
      <4>1. j \in 1 .. Len(s) /\ s[j] # u
        BY <2>1, <2>4 DEF j
      <4>2. f[j] = Append(f[j - 1], s[j])
        BY <1>1, <4>1
      <4>3. j - 1 = k
        BY <2>1 DEF j
      <4> QED
        BY <4>2, <4>3 DEF j
    <3> HIDE DEF g
    <3>2. g \in Seq(S) /\ Len(g) <= k /\ \A v : On(g, v) <=> v # u /\ \E i \in 1 .. k : s[i] = v
      BY <2>1 DEF g
    <3>3. /\ Append(g, s[k + 1]) \in Seq(S)
          /\ Len(Append(g, s[k + 1])) = Len(g) + 1
          /\ \A i \in 1 .. Len(g) : Append(g, s[k + 1])[i] = g[i]
          /\ Append(g, s[k + 1])[Len(g) + 1] = s[k + 1]
      BY <3>2, <2>1, AppendProperties
    <3>4. \A v : On(Append(g, s[k + 1]), v) <=> On(g, v) \/ v = s[k + 1]
      BY <3>2, <3>3 DEF On
    <3> QED
      BY <3>1, <3>2, <3>3, <3>4, <2>2, <2>4
  <2> QED
    BY <2>3, <2>4
<1> HIDE DEF T
<1>4. T = Nat
  BY <1>2, <1>3, SetInduction DEF T
<1>5. P(Len(s))
  <2>1. Len(s) \in T /\ Len(s) <= Len(s)
    BY <1>0, <1>4
  <2> HIDE DEF P
  <2> QED
    BY <2>1 DEF T
<1>6. Without(s, u) = f[Len(s)]
  BY DEF Without, f
<1>7. \A v : On(s, v) <=> \E i \in 1 .. Len(s) : s[i] = v
  BY DEF On
<1> QED
  BY <1>5, <1>6, <1>7
-----------------------------------------------------------------------------
(* The inductive invariant, whatever overlaps *)

Verdicts == {"PENDING", "APPROVED", "REJECTED", "ACCEPTED", "DECLINED"}
Labels == {"idle", "deploy", "saveNew", "saveOrganizer", "readGroup", "addMember",
           "saveMembership", "saveItem", "getMembership", "dropMember", "markMembership",
           "activate", "saveActive", "saveCycle"}
Rows == [state : {"NONE", "CREATED", "ACTIVE"}, members : Seq(Users), order : Seq(Users)]
Locals == [pc : Labels, user : Users, id : Items \cup {NoID}, row : Rows,
           status : Verdicts \cup {"none", "LEFT", "REMOVED"}, index : Nat]

TableTypes ==
    /\ group \in Rows
    /\ membership \in [Users -> {"none", "ACTIVE", "LEFT", "REMOVED"}]
    /\ item \in [Items -> [user : Users, status : Verdicts \cup {"none"}]]
    /\ cycles \in Seq(Users)
    /\ contract \in {"NONE", "CREATED", "ACTIVE"}

\* A row that may be saved.
RowOK(row) ==
    /\ row.state # "NONE"
    /\ Len(row.members) <= MaxMembers
    /\ HasMember(row, Organizer)
    /\ row.state = "ACTIVE" => Validate(row)

\* What a handler knows at each call of the copy it read and of its other locals.
LocalOK(j) ==
    /\ j.pc \in {"deploy", "saveNew", "addMember", "getMembership", "dropMember",
                 "activate", "saveActive", "saveCycle"} => RowOK(j.row)
    /\ j.pc \in {"deploy", "saveNew", "addMember", "getMembership", "dropMember", "activate"}
         => j.row.state = "CREATED"
    /\ j.pc = "activate" => Validate(j.row)
    /\ j.pc \in {"saveActive", "saveCycle"} => j.row.state = "ACTIVE"
    /\ j.pc \in {"getMembership", "dropMember"} => j.user # Organizer
    /\ j.pc \in {"getMembership", "dropMember", "markMembership"} => j.status \in {"LEFT", "REMOVED"}
    /\ j.pc \in {"readGroup", "addMember", "saveMembership", "saveItem"}
         => j.id \in Items /\ j.status \in Verdicts
    /\ j.pc = "saveCycle" => j.index \in 1 .. Len(j.row.order)

\* Before the row exists nothing else does and there is at most its creator at work.
Creating(j) == j.pc \in {"deploy", "saveNew"}

OneCreator == \A s, t \in Threads : Creating(job[s]) /\ Creating(job[t]) => s = t

TablesOK ==
    /\ TableTypes
    /\ group = NoRow \/ RowOK(group)
    /\ group = NoRow =>
         contract # "ACTIVE" /\ cycles = <<>> /\ \A i \in Items : item[i].status = "none"
    /\ AssemblyLadder

\* How far the chain and the tables are when a handler is about to make a call.
Fits(j) ==
    /\ group = NoRow => j.pc = "idle" \/ Creating(j)
    /\ Creating(j) => group = NoRow
    /\ j.pc = "saveNew" => contract # "NONE"
    /\ j.pc \in {"saveActive", "saveCycle"} => contract = "ACTIVE"
    /\ j.pc = "saveCycle" => j.index <= Len(cycles) + 1
    /\ j.pc = "saveItem" /\ Joins(j.status) => membership[j.user] # "none"

HandlersOK ==
    /\ job \in [Threads -> Locals]
    /\ \A t \in Threads : LocalOK(job[t]) /\ Fits(job[t])
    /\ OneCreator

Inv == TablesOK /\ HandlersOK /\ failures \in Nat

-----------------------------------------------------------------------------
(* Each write, whether its handler goes on or not *)

\* The cycle rows with row k set to u.
Upsert(s, k, u) == SubSeq(s, 1, k - 1) \o <<u>> \o SubSeq(s, k + 1, Len(s))

\* An upsert of a cycle replaces a row or adds the next one.
LEMMA CycleUpsert ==
  ASSUME NEW s \in Seq(Users), NEW k \in Nat \ {0}, k <= Len(s) + 1, NEW u \in Users
  PROVE  /\ Upsert(s, k, u) \in Seq(Users)
         /\ Len(Upsert(s, k, u)) = IF k <= Len(s) THEN Len(s) ELSE k
         /\ \A i \in 1 .. Len(Upsert(s, k, u)) : Upsert(s, k, u)[i] = IF i = k THEN u ELSE s[i]
<1> DEFINE a == SubSeq(s, 1, k - 1)
           b == SubSeq(s, k + 1, Len(s))
           c == a \o <<u>>
<1>1. /\ a \in Seq(Users) /\ Len(a) = k - 1
      /\ \A i \in 1 .. k - 1 : a[i] = s[i]
  <2>1. \A i \in 1 .. k - 1 : s[i] \in Users
    OBVIOUS
  <2> QED
    BY <2>1, SubSeqProperties
<1>2. /\ b \in Seq(Users) /\ Len(b) = IF k <= Len(s) THEN Len(s) - k ELSE 0
      /\ \A i \in 1 .. Len(s) - k : b[i] = s[k + i]
  <2>1. \A i \in k + 1 .. Len(s) : s[i] \in Users
    OBVIOUS
  <2>2. Len(s) \in Int /\ k + 1 \in Int
    OBVIOUS
  <2>3. /\ b \in Seq(Users)
        /\ Len(b) = IF k + 1 <= Len(s) THEN Len(s) - (k + 1) + 1 ELSE 0
        /\ \A i \in 1 .. Len(s) - (k + 1) + 1 : b[i] = s[(k + 1) + i - 1]
    BY <2>1, <2>2, SubSeqProperties
  <2> QED
    BY <2>2, <2>3
<1> HIDE DEF a, b
<1>3. <<u>> \in Seq(Users) /\ Len(<<u>>) = 1 /\ <<u>>[1] = u
  OBVIOUS
<1>4. /\ c \in Seq(Users) /\ Len(c) = k
      /\ \A i \in 1 .. k : c[i] = IF i = k THEN u ELSE s[i]
  BY <1>1, <1>3, ConcatProperties
<1> HIDE DEF c
<1>5. /\ c \o b \in Seq(Users) /\ Len(c \o b) = Len(c) + Len(b)
      /\ \A i \in 1 .. Len(c) + Len(b) : (c \o b)[i] = IF i <= Len(c) THEN c[i] ELSE b[i - Len(c)]
  BY <1>2, <1>4, ConcatProperties
<1>6. Len(c \o b) = IF k <= Len(s) THEN Len(s) ELSE k
  BY <1>5, <1>4, <1>2
<1>7. \A i \in 1 .. Len(c \o b) : (c \o b)[i] = IF i = k THEN u ELSE s[i]
  BY <1>6, <1>5, <1>4, <1>2
<1>8. Upsert(s, k, u) = c \o b
  BY DEF a, b, c, Upsert
<1> QED
  BY <1>5, <1>6, <1>7, <1>8

\* A row that may be saved is not the absent one.
LEMMA RowIsThere == ASSUME NEW row, RowOK(row) PROVE row # NoRow
  BY DEF RowOK, NoRow

\* A write that takes effect, or none, leaves the tables and the other handlers as
\* they should be.
LEMMA EffectKeeps ==
  ASSUME Inv, NEW t \in Threads,
         \A s \in Threads \ {t} : job'[s] = job[s],
         Effect(t) \/ UNCHANGED <<tables, contract>>
  PROVE  TablesOK' /\ \A s \in Threads \ {t} : Fits(job[s])'
<1> DEFINE j == job[t]
<1>0. /\ TablesOK /\ j \in Locals /\ LocalOK(j) /\ Fits(j)
      /\ \A s \in Threads \ {t} : Fits(job[s]) /\ job[s] \in Locals
      /\ \A s \in Threads \ {t} : ~ (Creating(job[s]) /\ Creating(j))
  BY DEF Inv, HandlersOK, OneCreator
<1>1. CASE UNCHANGED <<tables, contract>>
  <2>1. TablesOK'
    BY <1>0, <1>1 DEF TablesOK, TableTypes, AssemblyLadder, tables
  <2>2. \A s \in Threads \ {t} : Fits(job[s])'
    BY <1>0, <1>1 DEF Fits, tables
  <2> QED
    BY <2>1, <2>2
<1>2. CASE At(t, "deploy") /\ ChainEffect("CREATED")
  <2>1. group = NoRow
    BY <1>0, <1>2 DEF Fits, Creating, At
  <2>2. TablesOK'
    BY <1>0, <1>2, <2>1 DEF TablesOK, TableTypes, AssemblyLadder, ChainEffect, tables, NoRow
  <2>3. \A s \in Threads \ {t} : Fits(job[s])'
    BY <1>0, <1>2, <2>1 DEF Fits, Creating, At, ChainEffect, tables
  <2> QED
    BY <2>2, <2>3
<1>3. CASE At(t, "activate") /\ ChainEffect("ACTIVE")
  <2>1. group # NoRow
    BY <1>0, <1>3 DEF Fits, Creating, At
  <2>2. TablesOK'
    BY <1>0, <1>3, <2>1 DEF TablesOK, TableTypes, AssemblyLadder, ChainEffect, tables
  <2>3. \A s \in Threads \ {t} : Fits(job[s])'
    BY <1>0, <1>3, <2>1 DEF Fits, ChainEffect, tables
  <2> QED
    BY <2>2, <2>3
<1>4. CASE j.pc \in {"saveNew", "addMember", "dropMember", "saveActive"} /\ SaveGroupEffect(t)
  <2>1. group' \in Rows /\ RowOK(group') /\ group' # NoRow /\ UNCHANGED <<membership, item, cycles, contract>>
    BY <1>0, <1>4, RowIsThere DEF LocalOK, SaveGroupEffect, Locals
  <2>2. contract # "NONE" /\ (group'.state = "ACTIVE" => contract = "ACTIVE")
    BY <1>0, <1>4 DEF LocalOK, SaveGroupEffect, Fits, Creating, TablesOK, AssemblyLadder
  <2>3. TablesOK'
    BY <1>0, <2>1, <2>2 DEF TablesOK, TableTypes, AssemblyLadder, SaveGroupEffect
  <2>4. \A s \in Threads \ {t} : ~ Creating(job[s])
    BY <1>0, <1>4 DEF Fits, Creating
  <2>5. \A s \in Threads \ {t} : Fits(job[s])'
    BY <1>0, <2>1, <2>4 DEF Fits, Creating
  <2> QED
    BY <2>3, <2>5
<1>5. CASE \E st \in {"ACTIVE", "LEFT", "REMOVED"} : SaveMembershipEffect(t, st)
  <2>1. /\ membership' \in [Users -> {"none", "ACTIVE", "LEFT", "REMOVED"}]
        /\ \A u \in Users : membership[u] # "none" => membership'[u] # "none"
        /\ UNCHANGED <<group, item, cycles, contract>>
    BY <1>0, <1>5 DEF SaveMembershipEffect, TablesOK, TableTypes
  <2>2. TablesOK'
    BY <1>0, <2>1 DEF TablesOK, TableTypes, AssemblyLadder
  <2>3. \A s \in Threads \ {t} : Fits(job[s])'
    BY <1>0, <2>1 DEF Fits, Locals
  <2> QED
    BY <2>2, <2>3
<1>6. CASE At(t, "saveItem") /\ SaveItemEffect(t)
  <2>1. /\ j.id \in Items /\ j.user \in Users /\ j.status \in Verdicts /\ group # NoRow
        /\ Joins(j.status) => membership[j.user] # "none"
    BY <1>0, <1>6 DEF At, LocalOK, Locals, Fits, Creating
  <2>2. /\ item' = [item EXCEPT ![j.id] = [user |-> j.user, status |-> j.status]]
        /\ UNCHANGED <<group, membership, cycles, contract>>
    BY <1>6 DEF SaveItemEffect
  <2> HIDE DEF j
  <2>3. TablesOK'
    BY <1>0, <2>1, <2>2 DEF TablesOK, TableTypes, AssemblyLadder
  <2>4. \A s \in Threads \ {t} : Fits(job[s])'
    BY <1>0, <2>2 DEF Fits
  <2> QED
    BY <2>3, <2>4
<1>7. CASE At(t, "saveCycle") /\ SaveCycleEffect(t)
  <2> DEFINE k == j.index
             u == j.row.order[k]
  <2>1. /\ k \in Nat \ {0} /\ k <= Len(cycles) + 1 /\ u \in Users
        /\ contract = "ACTIVE" /\ group # NoRow /\ cycles \in Seq(Users)
    BY <1>0, <1>7 DEF At, LocalOK, Locals, Rows, Fits, Creating, TablesOK, TableTypes
  <2>2. cycles' = Upsert(cycles, k, u)
    BY <1>7 DEF SaveCycleEffect, Upsert
  <2> HIDE DEF k, u
  <2>3. cycles' \in Seq(Users) /\ Len(cycles') >= Len(cycles)
    <3>1. cycles' \in Seq(Users) /\ Len(cycles') = IF k <= Len(cycles) THEN Len(cycles) ELSE k
      BY <2>1, <2>2, CycleUpsert
    <3>2. Len(cycles) \in Nat
      BY <2>1
    <3> QED
      BY <2>1, <3>1, <3>2
  <2>4. UNCHANGED <<group, membership, item, contract>>
    BY <1>7 DEF SaveCycleEffect
  <2>5. TablesOK'
    BY <1>0, <2>1, <2>3, <2>4 DEF TablesOK, TableTypes, AssemblyLadder
  <2>6. \A s \in Threads \ {t} : Fits(job[s])'
    <3>1. Len(cycles) \in Nat /\ Len(cycles') \in Nat
      BY <2>1, <2>3
    <3> QED
      BY <1>0, <2>3, <2>4, <3>1 DEF Fits, Locals
  <2> QED
    BY <2>5, <2>6
<1>8. ASSUME At(t, "markMembership") PROVE j.status \in {"LEFT", "REMOVED"}
  BY <1>0, <1>8 DEF At, LocalOK
<1> QED
  BY <1>1, <1>2, <1>3, <1>4, <1>5, <1>6, <1>7, <1>8 DEF Effect

\* A handler that makes a call, or fails in it, and then stands where it may stand
\* keeps the invariant.
LEMMA MoveKeeps ==
  ASSUME Inv, NEW t \in Threads, NEW j \in Locals,
         job' = [job EXCEPT ![t] = j],
         Effect(t) \/ UNCHANGED <<tables, contract>>,
         failures' \in Nat,
         LocalOK(j), Fits(j)',
         Creating(j) => \A s \in Threads \ {t} : ~ Creating(job[s])
  PROVE  Inv'
<1>1. /\ job' \in [Threads -> Locals] /\ job'[t] = j
      /\ \A s \in Threads \ {t} : job'[s] = job[s]
  BY DEF Inv, HandlersOK
<1>2. TablesOK' /\ \A s \in Threads \ {t} : Fits(job[s])'
  BY <1>1, EffectKeeps
<1>3. Fits(job[t])'
  BY <1>1 DEF Fits
<1>4. \A s \in Threads : LocalOK(job'[s])
  BY <1>1 DEF Inv, HandlersOK
<1>5. OneCreator'
  BY <1>1 DEF Inv, HandlersOK, OneCreator
<1> QED
  BY <1>1, <1>2, <1>3, <1>4, <1>5 DEF Inv, HandlersOK

\* A handler at rest.
LEMMA IdleOK == Idle \in Locals /\ LocalOK(Idle) /\ ~ Creating(Idle) /\ Fits(Idle)'
  BY OrganizerAssumption DEF Idle, Locals, Labels, Rows, NoRow, LocalOK, Creating, Fits

\* A handler that returns keeps the invariant.
LEMMA ReturnKeeps ==
  ASSUME Inv, NEW t \in Threads, Return(t), failures' \in Nat,
         Effect(t) \/ UNCHANGED <<tables, contract>>
  PROVE  Inv'
BY IdleOK, MoveKeeps DEF Return

-----------------------------------------------------------------------------
(* Each action *)

\* The invariant holds before the first request.
LEMMA InitInv == Init => Inv
<1> SUFFICES ASSUME Init PROVE Inv
  OBVIOUS
<1>1. Idle \in Locals /\ LocalOK(Idle) /\ Fits(Idle) /\ ~ Creating(Idle)
  BY OrganizerAssumption DEF Init, Idle, Locals, Labels, Rows, NoRow, LocalOK, Creating, Fits
<1>2. TablesOK
  BY OrganizerAssumption DEF Init, TablesOK, TableTypes, Rows, NoRow, NoItem, AssemblyLadder, Joins
<1>3. HandlersOK
  <2>1. job = [t \in Threads |-> Idle]
    BY DEF Init
  <2> QED
    BY <1>1, <2>1 DEF HandlersOK, OneCreator
<1> QED
  BY <1>2, <1>3 DEF Init, Inv

\* CreateGroup starts with the row it is going to save.
LEMMA CreateInv ==
  ASSUME Inv, NEW t \in Threads, CreateGroup(t)
  PROVE  Inv'
<1> DEFINE row == [state |-> "CREATED", members |-> <<Organizer>>, order |-> <<>>]
<1>1. PICK j : j = [Idle EXCEPT !.pc = "deploy", !.row = row]
  OBVIOUS
<1>2. row \in Rows /\ RowOK(row)
  BY OrganizerAssumption, MaxMembersAssumption DEF Rows, RowOK, HasMember
<1>3. j \in Locals /\ LocalOK(j)
  BY <1>1, <1>2, IdleOK DEF Idle, Locals, Labels, LocalOK
<1>4. Fits(j)' /\ Creating(j) /\ \A s \in Threads \ {t} : ~ Creating(job[s])
  BY <1>1 DEF CreateGroup, Fits, Creating, Idle, At, tables
<1>5. job' = [job EXCEPT ![t] = j] /\ UNCHANGED <<tables, contract>> /\ failures' \in Nat
  BY <1>1 DEF CreateGroup, Inv
<1> QED
  BY <1>3, <1>4, <1>5, MoveKeeps

\* RequestToJoin and Invite.
LEMMA AskInv ==
  ASSUME Inv, NEW t \in Threads, NEW u \in Users, RequestToJoin(t, u) \/ Invite(t, u)
  PROVE  Inv'
<1>1. PICK i \in Items : job' = [job EXCEPT ![t] =
          [Idle EXCEPT !.pc = "saveItem", !.id = i, !.user = u, !.status = "PENDING"]]
  BY DEF RequestToJoin, Invite, Items
<1>2. PICK j : j = [Idle EXCEPT !.pc = "saveItem", !.id = i, !.user = u, !.status = "PENDING"]
  OBVIOUS
<1>3. j \in Locals /\ LocalOK(j) /\ ~ Creating(j)
  BY <1>2, IdleOK DEF Idle, Locals, Labels, LocalOK, Verdicts, Creating
<1>4. UNCHANGED <<tables, contract>> /\ failures' \in Nat /\ group # NoRow
  <2>1. Open(group) /\ UNCHANGED <<tables, contract, failures>>
    BY DEF RequestToJoin, Invite
  <2> QED
    BY <2>1 DEF Inv, Open, NoRow
<1>5. Fits(j)'
  BY <1>2, <1>4 DEF Fits, Creating, Idle, Joins, tables
<1> QED
  BY <1>1, <1>2, <1>3, <1>4, <1>5, MoveKeeps

\* The first read of DecideJoinRequest and of RespondInvitation.
LEMMA DecideInv ==
  ASSUME Inv, NEW t \in Threads, DecideJoinRequest(t) \/ RespondInvitation(t)
  PROVE  Inv'
<1>1. PICK i \in Items, verdict \in Verdicts : ReadItem(t, i, verdict)
  BY DEF DecideJoinRequest, RespondInvitation, Items, Verdicts
<1>2. PICK j : j = [Idle EXCEPT !.pc = "readGroup", !.id = i, !.user = item[i].user, !.status = verdict]
  OBVIOUS
<1>3. item[i].user \in Users
  BY DEF Inv, TablesOK, TableTypes
<1>4. j \in Locals /\ LocalOK(j) /\ ~ Creating(j)
  BY <1>2, <1>3, IdleOK DEF Idle, Locals, Labels, LocalOK, Creating
<1>5. group # NoRow /\ UNCHANGED <<tables, contract>> /\ failures' \in Nat
  BY <1>1 DEF ReadItem, Inv, TablesOK
<1>6. Fits(j)'
  BY <1>2, <1>5 DEF Fits, Creating, Idle, tables
<1>7. job' = [job EXCEPT ![t] = j]
  BY <1>1, <1>2 DEF ReadItem
<1> QED
  BY <1>4, <1>5, <1>6, <1>7, MoveKeeps

\* LeaveGroup and RemoveMember start with a copy of the row.
LEMMA StartDropInv ==
  ASSUME Inv, NEW t \in Threads, NEW u \in Users, LeaveGroup(t, u) \/ RemoveMember(t, u)
  PROVE  Inv'
<1>1. PICK status \in {"LEFT", "REMOVED"} : StartDrop(t, u, status)
  BY DEF LeaveGroup, RemoveMember
<1>2. PICK j : j = [Idle EXCEPT !.pc = "getMembership", !.user = u, !.row = group, !.status = status]
  OBVIOUS
<1>3. group \in Rows /\ RowOK(group) /\ group.state = "CREATED" /\ u # Organizer /\ group # NoRow
  BY <1>1 DEF StartDrop, Open, Inv, TablesOK, TableTypes, NoRow
<1>4. j \in Locals /\ LocalOK(j) /\ ~ Creating(j)
  BY <1>2, <1>3, IdleOK DEF Idle, Locals, Labels, LocalOK, Creating
<1>5. UNCHANGED <<tables, contract>> /\ failures' \in Nat /\ job' = [job EXCEPT ![t] = j]
  BY <1>1, <1>2 DEF StartDrop, Inv
<1>6. Fits(j)'
  BY <1>2, <1>3, <1>5 DEF Fits, Creating, Idle, tables
<1> QED
  BY <1>4, <1>5, <1>6, MoveKeeps

\* ActivateGroup goes on only with a row that Validate accepts.
LEMMA ActivateInv ==
  ASSUME Inv, NEW t \in Threads, NEW order \in Orders, ActivateGroup(t, order)
  PROVE  Inv'
<1> DEFINE row == [group EXCEPT !.order = IF order = <<>> THEN group.members ELSE order]
<1>1. PICK j : j = [Idle EXCEPT !.pc = "activate", !.row = row]
  OBVIOUS
<1>2. group \in Rows /\ RowOK(group) /\ group.state = "CREATED" /\ group # NoRow
  BY DEF ActivateGroup, Open, Inv, TablesOK, TableTypes, NoRow
<1>3. order \in Seq(Users)
  BY SeqDef, MaxMembersAssumption DEF Orders
<1>4. row \in Rows /\ RowOK(row) /\ row.state = "CREATED" /\ Validate(row)
  BY <1>2, <1>3 DEF Rows, RowOK, HasMember, ActivateGroup
<1>5. j \in Locals /\ LocalOK(j) /\ ~ Creating(j)
  BY <1>1, <1>4, IdleOK DEF Idle, Locals, Labels, LocalOK, Creating
<1>6. UNCHANGED <<tables, contract>> /\ failures' \in Nat /\ job' = [job EXCEPT ![t] = j]
  BY <1>1 DEF ActivateGroup, Inv
<1>7. Fits(j)'
  BY <1>1, <1>2, <1>6 DEF Fits, Creating, Idle, tables
<1> QED
  BY <1>5, <1>6, <1>7, MoveKeeps

\* The calls after which a handler goes on: it has its locals, but for the label.
LEMMA GotoInv ==
  ASSUME Inv, NEW t \in Threads,
         DeployGroup(t) \/ SaveNewGroup(t) \/ AddMember(t) \/ SaveMembership(t) \/ DropMember(t)
  PROVE  Inv'
<1>0. job[t] \in Locals /\ LocalOK(job[t]) /\ Fits(job[t]) /\ TablesOK /\ failures \in Nat
      /\ \A s \in Threads \ {t} : ~ (Creating(job[s]) /\ Creating(job[t]))
  BY DEF Inv, HandlersOK, OneCreator
<1>1. CASE DeployGroup(t)
  <2>1. PICK j : j = [job[t] EXCEPT !.pc = "saveNew"]
    OBVIOUS
  <2>2. /\ At(t, "deploy") /\ job' = [job EXCEPT ![t] = j] /\ Effect(t) /\ failures' \in Nat
        /\ contract' = "CREATED" /\ UNCHANGED tables
    BY <1>0, <1>1, <2>1 DEF DeployGroup, Goto, Effect, ChainEffect
  <2>3. j \in Locals /\ LocalOK(j) /\ \A s \in Threads \ {t} : ~ Creating(job[s])
    BY <1>0, <2>1, <2>2 DEF At, Locals, Labels, LocalOK, Creating
  <2>4. Fits(j)'
    BY <1>0, <2>1, <2>2 DEF At, Locals, Fits, Creating, tables
  <2> QED
    BY <2>2, <2>3, <2>4, MoveKeeps
<1>2. CASE SaveNewGroup(t)
  <2>1. PICK j : j = [job[t] EXCEPT !.pc = "saveOrganizer"]
    OBVIOUS
  <2>2. /\ At(t, "saveNew") /\ job' = [job EXCEPT ![t] = j] /\ Effect(t) /\ failures' \in Nat
        /\ group' = job[t].row
    BY <1>0, <1>2, <2>1 DEF SaveNewGroup, Goto, Effect, SaveGroupEffect, At
  <2>3. j \in Locals /\ LocalOK(j) /\ ~ Creating(j) /\ group' # NoRow
    BY <1>0, <2>1, <2>2, RowIsThere DEF At, Locals, Labels, LocalOK, Creating
  <2>4. Fits(j)'
    BY <1>0, <2>1, <2>2, <2>3 DEF Locals, Fits
  <2> QED
    BY <2>2, <2>3, <2>4, MoveKeeps
<1>3. CASE AddMember(t)
  <2>1. PICK j : j = [job[t] EXCEPT !.pc = "saveMembership"]
    OBVIOUS
  <2>2. /\ At(t, "addMember") /\ job' = [job EXCEPT ![t] = j] /\ Effect(t) /\ failures' \in Nat
        /\ group' = job[t].row
    BY <1>0, <1>3, <2>1 DEF AddMember, Goto, Effect, SaveGroupEffect, At
  <2>3. j \in Locals /\ LocalOK(j) /\ ~ Creating(j) /\ group' # NoRow
    BY <1>0, <2>1, <2>2, RowIsThere DEF At, Locals, Labels, LocalOK, Creating
  <2>4. Fits(j)'
    BY <1>0, <2>1, <2>2, <2>3 DEF Locals, Fits
  <2> QED
    BY <2>2, <2>3, <2>4, MoveKeeps
<1>4. CASE SaveMembership(t)
  <2>1. PICK j : j = [job[t] EXCEPT !.pc = "saveItem"]
    OBVIOUS
  <2>2. /\ At(t, "saveMembership") /\ job' = [job EXCEPT ![t] = j] /\ Effect(t) /\ failures' \in Nat
        /\ membership' = [membership EXCEPT ![job[t].user] = "ACTIVE"] /\ group' = group
    BY <1>0, <1>4, <2>1 DEF SaveMembership, Goto, Effect, SaveMembershipEffect, At
  <2>3. j \in Locals /\ LocalOK(j) /\ ~ Creating(j) /\ group # NoRow
    BY <1>0, <2>1, <2>2 DEF At, Locals, Labels, LocalOK, Creating, Fits
  <2>4. membership'[j.user] = "ACTIVE"
    BY <1>0, <2>1, <2>2 DEF Locals, TablesOK, TableTypes
  <2>5. Fits(j)'
    BY <1>0, <2>1, <2>2, <2>3, <2>4 DEF Locals, Fits
  <2> QED
    BY <2>2, <2>3, <2>5, MoveKeeps
<1>5. CASE DropMember(t)
  <2>1. PICK j : j = [job[t] EXCEPT !.pc = "markMembership"]
    OBVIOUS
  <2>2. /\ At(t, "dropMember") /\ job' = [job EXCEPT ![t] = j] /\ Effect(t) /\ failures' \in Nat
        /\ group' = job[t].row
    BY <1>0, <1>5, <2>1 DEF DropMember, Goto, Effect, SaveGroupEffect, At
  <2>3. j \in Locals /\ LocalOK(j) /\ ~ Creating(j) /\ group' # NoRow
    BY <1>0, <2>1, <2>2, RowIsThere DEF At, Locals, Labels, LocalOK, Creating
  <2>4. Fits(j)'
    BY <1>0, <2>1, <2>2, <2>3 DEF Locals, Fits
  <2> QED
    BY <2>2, <2>3, <2>4, MoveKeeps
<1> QED
  BY <1>1, <1>2, <1>3, <1>4, <1>5

\* The calls after which a handler returns.
LEMMA LastCallInv ==
  ASSUME Inv, NEW t \in Threads,
         SaveOrganizer(t) \/ SaveItem(t) \/ MarkMembership(t) \/ CallError(t)
  PROVE  Inv'
<1>1. failures' \in Nat
  BY DEF Inv, SaveOrganizer, SaveItem, MarkMembership, CallError, Fail
<1>2. Return(t)
  BY DEF SaveOrganizer, SaveItem, MarkMembership, CallError
<1>3. Effect(t) \/ UNCHANGED <<tables, contract>>
  BY DEF SaveOrganizer, SaveItem, MarkMembership, CallError, Effect, At
<1> QED
  BY <1>1, <1>2, <1>3, ReturnKeeps

\* A crash leaves the tables as they are.
LEMMA CrashInv == Inv /\ Crash => Inv'
<1> SUFFICES ASSUME Inv, Crash PROVE Inv'
  OBVIOUS
<1>1. job' = [t \in Threads |-> Idle] /\ failures' \in Nat /\ UNCHANGED <<tables, contract>>
  BY DEF Crash, Fail, Inv
<1>2. TablesOK'
  BY <1>1 DEF Inv, TablesOK, TableTypes, AssemblyLadder, tables
<1>3. \A t \in Threads : job'[t] = Idle
  BY <1>1
<1>4. \A t \in Threads : Fits(job[t])'
  BY <1>3 DEF Fits, Idle, Creating
<1>5. HandlersOK'
  BY <1>1, <1>3, <1>4, IdleOK DEF HandlersOK, OneCreator
<1> QED
  BY <1>1, <1>2, <1>5 DEF Inv

\* The second read of a decision: the copy that is extended is the one that was
\* found to have room.
LEMMA ReadGroupInv ==
  ASSUME Inv, NEW t \in Threads, ReadGroup(t)
  PROVE  Inv'
<1>0. /\ job[t] \in Locals /\ LocalOK(job[t]) /\ Fits(job[t]) /\ TablesOK /\ failures' \in Nat
      /\ At(t, "readGroup") /\ UNCHANGED <<tables, contract>>
  BY DEF Inv, HandlersOK, ReadGroup
<1>1. job[t].user \in Users /\ job[t].id \in Items /\ job[t].status \in Verdicts /\ group # NoRow
  BY <1>0 DEF At, Locals, LocalOK, Fits, Creating
<1>2. CASE ~ Joins(job[t].status)
  <2>1. PICK j : j = [job[t] EXCEPT !.pc = "saveItem"]
    OBVIOUS
  <2>2. job' = [job EXCEPT ![t] = j]
    BY <1>2, <2>1 DEF ReadGroup, Goto
  <2>3. j \in Locals /\ LocalOK(j) /\ ~ Creating(j)
    BY <1>0, <1>1, <2>1 DEF Locals, Labels, LocalOK, Creating
  <2>4. Fits(j)'
    BY <1>0, <1>1, <1>2, <2>1, <2>3 DEF Locals, Fits, tables
  <2> QED
    BY <1>0, <2>2, <2>3, <2>4, MoveKeeps
<1>3. CASE Joins(job[t].status) /\ Open(group) /\ HasRoom(group)
  <2> DEFINE row == [group EXCEPT !.members = Append(@, job[t].user)]
  <2>1. PICK j : j = [job[t] EXCEPT !.pc = "addMember", !.row = row]
    OBVIOUS
  <2>2. job' = [job EXCEPT ![t] = j]
    BY <1>0, <1>3, <2>1 DEF ReadGroup, Locals
  <2>3. group \in Rows /\ RowOK(group) /\ group.members \in Seq(Users) /\ Len(group.members) \in Nat
    BY <1>0, <1>1 DEF TablesOK, TableTypes, Rows
  <2>4. row \in Rows /\ row.state = "CREATED"
    <3>1. PICK ms : ms = Append(group.members, job[t].user)
      OBVIOUS
    <3>2. ms \in Seq(Users)
      BY <1>1, <2>3, <3>1, AppendProperties
    <3>3. row = [group EXCEPT !.members = ms] /\ group.state = "CREATED"
      BY <1>3, <3>1 DEF Open
    <3> HIDE DEF row
    <3> QED
      BY <2>3, <3>2, <3>3 DEF Rows
  <2>5. /\ Len(row.members) = Len(group.members) + 1
        /\ \A i \in 1 .. Len(group.members) : row.members[i] = group.members[i]
    BY <1>1, <2>3, AppendProperties DEF Rows
  <2>6. RowOK(row)
    BY <1>3, <2>3, <2>4, <2>5, MaxMembersAssumption DEF RowOK, HasMember, HasRoom
  <2> HIDE DEF row
  <2>7. j \in Locals /\ LocalOK(j) /\ ~ Creating(j)
    BY <1>0, <1>1, <2>1, <2>4, <2>6 DEF Locals, Labels, LocalOK, Creating
  <2>8. Fits(j)'
    BY <1>0, <1>1, <2>1 DEF Locals, Fits, Creating, tables
  <2> QED
    BY <1>0, <2>2, <2>7, <2>8, MoveKeeps
<1>4. CASE Return(t)
  BY <1>0, <1>4, ReturnKeeps
<1> QED
  BY <1>2, <1>3, <1>4 DEF ReadGroup

\* The copy that dropMember saves still has its organizer.
LEMMA GetMembershipInv ==
  ASSUME Inv, NEW t \in Threads, GetMembership(t)
  PROVE  Inv'
<1>0. /\ job[t] \in Locals /\ LocalOK(job[t]) /\ Fits(job[t]) /\ failures' \in Nat
      /\ At(t, "getMembership") /\ UNCHANGED <<tables, contract>>
  BY DEF Inv, HandlersOK, GetMembership
<1>1. CASE Return(t)
  BY <1>0, <1>1, ReturnKeeps
<1>2. CASE membership[job[t].user] # "none"
  <2> DEFINE old == job[t].row
             new == Without(old.members, job[t].user)
             row == [old EXCEPT !.members = new]
  <2>1. PICK j : j = [job[t] EXCEPT !.pc = "dropMember", !.row = row]
    OBVIOUS
  <2>2. job' = [job EXCEPT ![t] = j]
    BY <1>0, <1>2, <2>1 DEF GetMembership, Locals, Rows
  <2>3. /\ old \in Rows /\ RowOK(old) /\ old.state = "CREATED" /\ old.members \in Seq(Users)
        /\ job[t].user \in Users \ {Organizer} /\ job[t].status \in {"LEFT", "REMOVED"}
    BY <1>0 DEF At, Locals, LocalOK, Rows
  <2>4. /\ new \in Seq(Users) /\ Len(new) <= Len(old.members)
        /\ \A v : On(new, v) <=> v # job[t].user /\ On(old.members, v)
    BY <2>3, WithoutFacts
  <2> HIDE DEF new
  <2>5. row \in Rows /\ row.state = "CREATED" /\ row.members = new
    BY <2>3, <2>4 DEF Rows
  <2>6. RowOK(row)
    <3>1. On(old.members, Organizer)
      BY <2>3 DEF RowOK, HasMember, On
    <3>2. On(new, Organizer)
      BY <2>3, <2>4, <3>1
    <3>3. Len(new) <= MaxMembers
      BY <2>3, <2>4, MaxMembersAssumption DEF RowOK
    <3> HIDE DEF old, row
    <3> QED
      BY <2>5, <3>2, <3>3 DEF RowOK, HasMember, On
  <2> HIDE DEF old, row
  <2>7. j \in Locals /\ LocalOK(j) /\ ~ Creating(j)
    BY <1>0, <2>1, <2>3, <2>5, <2>6 DEF Locals, Labels, LocalOK, Creating
  <2>8. Fits(j)'
    BY <1>0, <2>1 DEF At, Locals, Fits, Creating, tables
  <2> QED
    BY <1>0, <2>2, <2>7, <2>8, MoveKeeps
<1> QED
  BY <1>1, <1>2 DEF GetMembership

\* The calls of ActivateGroup.
LEMMA ActivationInv ==
  ASSUME Inv, NEW t \in Threads, ActivateOnChain(t) \/ SaveActive(t) \/ SaveCycle(t)
  PROVE  Inv'
<1>0. /\ job[t] \in Locals /\ LocalOK(job[t]) /\ Fits(job[t]) /\ failures' \in Nat /\ TablesOK
  BY DEF Inv, HandlersOK, ActivateOnChain, SaveActive, SaveCycle
<1>1. CASE ActivateOnChain(t)
  <2> DEFINE row == [job[t].row EXCEPT !.state = "ACTIVE"]
  <2>1. PICK j : j = [job[t] EXCEPT !.pc = "saveActive", !.row = row]
    OBVIOUS
  <2>2. /\ At(t, "activate") /\ job' = [job EXCEPT ![t] = j] /\ Effect(t)
        /\ contract' = "ACTIVE" /\ UNCHANGED tables
    BY <1>0, <1>1, <2>1 DEF ActivateOnChain, Effect, ChainEffect, Locals, Rows
  <2>3. RowOK(job[t].row) /\ Validate(job[t].row) /\ job[t].row \in Rows
    BY <1>0, <2>2 DEF At, LocalOK, Locals
  <2>4. row \in Rows /\ RowOK(row) /\ row.state = "ACTIVE"
    BY <2>3 DEF Rows, RowOK, Validate, HasMember
  <2> HIDE DEF row
  <2>5. j \in Locals /\ LocalOK(j) /\ ~ Creating(j)
    BY <1>0, <2>1, <2>4 DEF Locals, Labels, LocalOK, Creating
  <2>6. Fits(j)'
    BY <1>0, <2>1, <2>2 DEF At, Locals, Fits, Creating, tables
  <2> QED
    BY <1>0, <2>2, <2>5, <2>6, MoveKeeps
<1>2. CASE SaveActive(t)
  <2>1. PICK j : j = [job[t] EXCEPT !.pc = "saveCycle", !.index = 1]
    OBVIOUS
  <2>2. /\ At(t, "saveActive") /\ job' = [job EXCEPT ![t] = j] /\ Effect(t)
        /\ group' = job[t].row /\ UNCHANGED <<contract, cycles>>
    BY <1>0, <1>2, <2>1 DEF SaveActive, Effect, SaveGroupEffect, At, Locals
  <2>3. RowOK(job[t].row) /\ job[t].row \in Rows /\ job[t].row.state = "ACTIVE" /\ contract = "ACTIVE"
    BY <1>0, <2>2 DEF At, LocalOK, Locals, Fits
  <2>4. 1 \in 1 .. Len(job[t].row.order) /\ group' # NoRow
    BY <2>2, <2>3, RowIsThere DEF RowOK, Validate, Rows
  <2>5. j \in Locals /\ LocalOK(j) /\ ~ Creating(j)
    BY <1>0, <2>1, <2>3, <2>4 DEF Locals, Labels, LocalOK, Creating
  <2>6. Len(cycles') \in Nat
    BY <1>0, <2>2 DEF TablesOK, TableTypes
  <2>7. Fits(j)'
    BY <1>0, <2>1, <2>2, <2>3, <2>4, <2>6 DEF Locals, Fits, Creating
  <2> QED
    BY <1>0, <2>2, <2>5, <2>7, MoveKeeps
<1>3. CASE SaveCycle(t)
  <2>1. At(t, "saveCycle") /\ SaveCycleEffect(t) /\ Effect(t)
    BY <1>3 DEF SaveCycle, Effect
  <2>2. CASE Return(t)
    BY <1>0, <2>1, <2>2, ReturnKeeps
  <2>3. CASE job[t].index < Len(job[t].row.order) /\ job' = [job EXCEPT ![t].index = @ + 1]
    <3> DEFINE k == job[t].index
               u == job[t].row.order[k]
    <3>1. PICK j : j = [job[t] EXCEPT !.index = k + 1]
      OBVIOUS
    <3>2. job' = [job EXCEPT ![t] = j]
      BY <1>0, <2>3, <3>1 DEF Locals
    <3>3. /\ k \in Nat \ {0} /\ k <= Len(cycles) + 1 /\ u \in Users /\ cycles \in Seq(Users)
          /\ k + 1 \in 1 .. Len(job[t].row.order) /\ contract = "ACTIVE" /\ group # NoRow
      BY <1>0, <2>1, <2>3 DEF At, LocalOK, Locals, Rows, Fits, Creating, TablesOK, TableTypes
    <3>4. cycles' = Upsert(cycles, k, u) /\ UNCHANGED <<group, contract>>
      BY <2>1 DEF SaveCycleEffect, Upsert
    <3>5. j \in Locals /\ LocalOK(j) /\ ~ Creating(j) /\ j.pc = "saveCycle" /\ j.index = k + 1
      BY <1>0, <2>1, <3>1, <3>3 DEF At, Locals, Labels, LocalOK, Creating
    <3> HIDE DEF k, u
    <3>6. Len(cycles') = IF k <= Len(cycles) THEN Len(cycles) ELSE k
      BY <3>3, <3>4, CycleUpsert
    <3>7. k + 1 <= Len(cycles') + 1
      BY <3>3, <3>6
    <3>8. Fits(j)'
      BY <3>3, <3>4, <3>5, <3>7 DEF Fits, Creating
    <3> QED
      BY <1>0, <2>1, <3>2, <3>5, <3>8, MoveKeeps
  <2> QED
    BY <1>3, <2>2, <2>3 DEF SaveCycle
<1> QED
  BY <1>1, <1>2, <1>3

-----------------------------------------------------------------------------
(* The theorems for requests that overlap *)

\* Every step, of whatever requests in whatever order, keeps the invariant.
LEMMA NextInv == Inv /\ [Next]_vars => Inv'
<1> SUFFICES ASSUME Inv, [Next]_vars PROVE Inv'
  OBVIOUS
<1>1. CASE UNCHANGED vars
  BY <1>1 DEF Inv, TablesOK, TableTypes, HandlersOK, OneCreator, Fits, AssemblyLadder, vars, tables
<1>2. CASE Crash
  BY <1>2, CrashInv
<1>3. ASSUME NEW t \in Threads, Start(t) PROVE Inv'
  BY <1>3, CreateInv, DecideInv, AskInv, StartDropInv, ActivateInv DEF Start
<1>4. ASSUME NEW t \in Threads, Step(t) PROVE Inv'
  BY <1>4, GotoInv, LastCallInv, ReadGroupInv, GetMembershipInv, ActivationInv DEF Step
<1>5. ASSUME NEW t \in Threads, CallError(t) PROVE Inv'
  BY <1>5, LastCallInv
<1> QED
  BY <1>1, <1>2, <1>3, <1>4, <1>5 DEF Next

\* Whatever overlaps or fails, the invariant holds.
THEOREM Invariant == Spec => []Inv
  BY InitInv, NextInv, PTL DEF Spec

\* However many requests to join, invitations and answers overlap, a group never
\* has more members than its MaxMembers.
THEOREM CapacityHolds == Spec => []Capacity
<1>1. Inv => Capacity
  BY MaxMembersAssumption DEF Inv, TablesOK, RowOK, NoRow, Capacity
<1> QED
  BY <1>1, Invariant, PTL

\* However requests overlap, an ACTIVE row satisfies Validate, and no row loses its
\* organizer.
THEOREM RowsAreValid == Spec => []RowIsValid
<1>1. Inv => RowIsValid
  BY DEF Inv, TablesOK, RowOK, NoRow, RowIsValid
<1> QED
  BY <1>1, Invariant, PTL

\* However requests overlap or fail, memberships come before answered requests, the
\* deployment before the row and the activation on the chain before the ACTIVE row
\* and the cycles.
THEOREM LadderHolds == Spec => []AssemblyLadder
<1>1. Inv => AssemblyLadder
  BY DEF Inv, TablesOK
<1> QED
  BY <1>1, Invariant, PTL

-----------------------------------------------------------------------------
(* The inductive invariant while nothing overlaps *)

ActiveSet == {u \in Users : membership[u] = "ACTIVE"}

\* At most one handler is at work.
Serial == \A s, t \in Threads : At(s, "idle") \/ At(t, "idle") \/ s = t

\* The copy a handler holds is that of the row as it is, with the handler's change.
Current(j) ==
    /\ j.pc \in {"deploy", "saveNew", "saveOrganizer"} => j.user = Organizer
    /\ Creating(j) => j.row.members = <<Organizer>>
    /\ j.pc \in {"saveOrganizer", "addMember", "saveMembership", "getMembership", "dropMember",
                 "markMembership", "activate", "saveActive"} => group.state = "CREATED"
    /\ j.pc = "addMember" => j.row.members = Append(group.members, j.user)
    /\ j.pc = "dropMember" => j.row.members = Without(group.members, j.user)
    /\ j.pc \in {"getMembership", "activate", "saveActive"} => j.row.members = group.members
    /\ j.pc = "saveCycle" => j.row = group /\ j.index = Len(cycles) + 1

\* What the member list and the memberships have in common between two writes.
Agreed(j) ==
    MemberSet = CASE j.pc \in {"saveOrganizer", "saveMembership"} -> ActiveSet \cup {j.user}
                  [] j.pc = "markMembership" -> ActiveSet \ {j.user}
                  [] OTHER -> ActiveSet

Schedule == ScheduleMatches /\ (group.state # "ACTIVE" => cycles = <<>>)

Agreement ==
    failures = 0 =>
        /\ AllIdle => MemberSet = ActiveSet
        /\ \A t \in Threads : ~ At(t, "idle") => Agreed(job[t])

SerialInv == Serial /\ Schedule /\ Agreement /\ \A t \in Threads : Current(job[t])

\* The schedule with one more row.
Longer(s, u) == Upsert(s, Len(s) + 1, u)

\* An upsert of the next row adds it.
LEMMA AddedRow ==
  ASSUME NEW s \in Seq(Users), NEW u \in Users
  PROVE  /\ Longer(s, u) \in Seq(Users) /\ Len(Longer(s, u)) = Len(s) + 1
         /\ \A i \in 1 .. Len(s) + 1 : Longer(s, u)[i] = IF i = Len(s) + 1 THEN u ELSE s[i]
<1>0. PICK k : k = Len(s) + 1
  OBVIOUS
<1>1. Len(s) \in Nat /\ k \in Nat \ {0} /\ k <= Len(s) + 1 /\ ~ (k <= Len(s))
  BY <1>0
<1>2. /\ Upsert(s, k, u) \in Seq(Users)
      /\ Len(Upsert(s, k, u)) = IF k <= Len(s) THEN Len(s) ELSE k
      /\ \A i \in 1 .. Len(Upsert(s, k, u)) : Upsert(s, k, u)[i] = IF i = k THEN u ELSE s[i]
  BY <1>1, CycleUpsert
<1> QED
  BY <1>0, <1>1, <1>2 DEF Longer

\* A prefix of an order has the elements of the order.
LEMMA PrefixElements ==
  ASSUME NEW r \in Seq(Users), NEW s \in Seq(Users), Len(s) <= Len(r), s = SubSeq(r, 1, Len(s))
  PROVE  \A i \in 1 .. Len(s) : s[i] = r[i]
<1>1. Len(s) \in Nat /\ \A i \in 1 .. Len(s) : r[i] \in Users
  OBVIOUS
<1>2. \A i \in 1 .. Len(s) - 1 + 1 : SubSeq(r, 1, Len(s))[i] = r[1 + i - 1]
  BY <1>1, SubSeqProperties
<1> QED
  BY <1>1, <1>2

\* The first k elements of an order are the first k - 1 and the next one.
LEMMA NextRow ==
  ASSUME NEW r \in Seq(Users), NEW s \in Seq(Users), NEW u \in Users,
         Len(s) < Len(r), u = r[Len(s) + 1], \A i \in 1 .. Len(s) : s[i] = r[i]
  PROVE  Longer(s, u) = SubSeq(r, 1, Len(s) + 1)
<1>1. PICK q, k : q = Longer(s, u) /\ k = Len(s) + 1
  OBVIOUS
<1>2. Len(s) \in Nat /\ k \in Nat \ {0} /\ k <= Len(r)
  BY <1>1
<1>3. q \in Seq(Users) /\ Len(q) = k /\ \A i \in 1 .. k : q[i] = IF i = k THEN u ELSE s[i]
  BY <1>1, AddedRow
<1>4. \A i \in 1 .. k : q[i] = r[i]
  BY <1>1, <1>2, <1>3
<1>5. /\ SubSeq(r, 1, k) \in Seq(Users) /\ Len(SubSeq(r, 1, k)) = k
      /\ \A i \in 1 .. k : SubSeq(r, 1, k)[i] = r[i]
  <2>1. \A i \in 1 .. k : r[i] \in Users
    BY <1>2
  <2>2. /\ SubSeq(r, 1, k) \in Seq(Users)
        /\ Len(SubSeq(r, 1, k)) = IF 1 <= k THEN k - 1 + 1 ELSE 0
        /\ \A i \in 1 .. k - 1 + 1 : SubSeq(r, 1, k)[i] = r[1 + i - 1]
    BY <1>2, <2>1, SubSeqProperties
  <2> QED
    BY <1>2, <2>2
<1>6. q = SubSeq(r, 1, k)
  BY <1>3, <1>4, <1>5, SeqEqual
<1> QED
  BY <1>1, <1>6

\* A write that takes effect, or none, keeps the schedule that of the row.
LEMMA EffectKeepsSchedule ==
  ASSUME Inv, SerialInv, NEW t \in Threads, Effect(t) \/ UNCHANGED <<tables, contract>>
  PROVE  Schedule'
<1> DEFINE j == job[t]
<1>0. /\ TablesOK /\ j \in Locals /\ LocalOK(j) /\ Fits(j) /\ Current(j) /\ Schedule
  BY DEF Inv, HandlersOK, SerialInv
<1>1. CASE UNCHANGED <<group, cycles>>
  BY <1>0, <1>1 DEF Schedule, ScheduleMatches
<1>2. CASE j.pc \in {"saveNew", "addMember", "dropMember", "saveActive"} /\ SaveGroupEffect(t)
  <2>1. cycles = <<>> /\ cycles' = cycles
    BY <1>0, <1>2 DEF Fits, Creating, Current, TablesOK, Schedule, SaveGroupEffect
  <2>2. SubSeq(group'.order, 1, Len(cycles')) = <<>>
    BY <2>1, SubSeqEmpty
  <2> QED
    BY <2>1, <2>2 DEF Schedule, ScheduleMatches
<1>3. CASE At(t, "saveCycle") /\ SaveCycleEffect(t)
  <2> DEFINE k == j.index
  <2>1. /\ j.row = group /\ k = Len(cycles) + 1 /\ k \in 1 .. Len(group.order)
        /\ group.order \in Seq(Users) /\ cycles \in Seq(Users) /\ group.state = "ACTIVE"
        /\ cycles = SubSeq(group.order, 1, Len(cycles))
    BY <1>0, <1>3 DEF At, Current, LocalOK, TablesOK, TableTypes, Rows, Schedule, ScheduleMatches
  <2>2. cycles' = Upsert(cycles, k, group.order[k]) /\ group' = group
    BY <1>3, <2>1 DEF SaveCycleEffect, Upsert
  <2> HIDE DEF k
  <2>3. \A i \in 1 .. Len(cycles) : cycles[i] = group.order[i]
    <3>1. Len(cycles) <= Len(group.order)
      BY <2>1
    <3> QED
      BY <2>1, <3>1, PrefixElements
  <2>4. PICK u \in Users : u = group.order[Len(cycles) + 1] /\ Len(cycles) < Len(group.order)
    BY <2>1
  <2>5. cycles' = Longer(cycles, u)
    BY <2>1, <2>2, <2>4 DEF Longer
  <2>6. Len(cycles') = Len(cycles) + 1
    BY <2>1, <2>5, AddedRow
  <2>7. cycles' = SubSeq(group.order, 1, Len(cycles) + 1)
    BY <2>1, <2>3, <2>4, <2>5, NextRow
  <2> QED
    BY <2>1, <2>2, <2>6, <2>7 DEF Schedule, ScheduleMatches
<1> QED
  BY <1>1, <1>2, <1>3
  DEF Effect, ChainEffect, SaveMembershipEffect, SaveItemEffect, tables

\* A handler that moves while the others rest.
LEMMA SerialMove ==
  ASSUME Inv, SerialInv, NEW t \in Threads, NEW j \in Locals,
         job' = [job EXCEPT ![t] = j],
         \A s \in Threads \ {t} : At(s, "idle"),
         Effect(t) \/ UNCHANGED <<tables, contract>>,
         Current(j)', failures' = 0 => Agreed(j)'
  PROVE  SerialInv'
<1>1. job'[t] = j /\ \A s \in Threads \ {t} : job'[s] = job[s] /\ job'[s].pc = "idle"
  BY DEF Inv, HandlersOK, At
<1>2. Schedule'
  BY EffectKeepsSchedule
<1>3. Serial'
  BY <1>1 DEF Serial, At
<1>4. \A s \in Threads : Current(job[s])'
  <2>1. Current(job[t])'
    BY <1>1 DEF Current
  <2>2. \A s \in Threads \ {t} : Current(job[s])'
    BY <1>1 DEF Current, Creating
  <2> QED
    BY <2>1, <2>2
<1>5. Agreement'
  <2> SUFFICES ASSUME failures' = 0, Agreed(j)' PROVE Agreement'
    BY DEF Agreement
  <2>1. AllIdle' => (MemberSet = ActiveSet)'
    BY <1>1 DEF AllIdle, At, Agreed
  <2>2. \A s \in Threads : ~ At(s, "idle")' => s = t
    BY <1>1 DEF At
  <2>3. Agreed(job[t])'
    BY <1>1 DEF Agreed
  <2> QED
    BY <2>1, <2>2, <2>3 DEF Agreement
<1> QED
  BY <1>2, <1>3, <1>4, <1>5 DEF SerialInv

\* A call that is the last of its handler, or fails.
LEMMA SerialReturn ==
  ASSUME Inv, SerialInv, NEW t \in Threads, Return(t), ~ At(t, "idle"),
         Effect(t) \/ UNCHANGED <<tables, contract>>,
         failures' = 0 => (MemberSet = ActiveSet)'
  PROVE  SerialInv'
<1>1. \A s \in Threads \ {t} : At(s, "idle")
  BY DEF SerialInv, Serial
<1>2. Current(Idle)' /\ ((MemberSet = ActiveSet)' => Agreed(Idle)')
  BY DEF Current, Agreed, Idle, Creating
<1> QED
  BY <1>1, <1>2, IdleOK, SerialMove DEF Return

\* A request that has only read.
LEMMA SerialStart ==
  ASSUME Inv, SerialInv, NEW t \in Threads, NEW j \in Locals, ~ Overlap, CanStart(t),
         job' = [job EXCEPT ![t] = j],
         UNCHANGED <<tables, contract, failures>>,
         j.pc \notin {"saveOrganizer", "saveMembership", "markMembership"},
         Current(j)
  PROVE  SerialInv'
<1>1. AllIdle /\ \A s \in Threads \ {t} : At(s, "idle")
  BY DEF CanStart, AllIdle
<1>2. Current(j)'
  BY DEF Current, tables
<1>3. failures' = 0 => Agreed(j)'
  BY <1>1 DEF SerialInv, Agreement, Agreed, MemberSet, ActiveSet, tables
<1> QED
  BY <1>1, <1>2, <1>3, SerialMove

\* The requests that start.
LEMMA StartKeepsSerial ==
  ASSUME Inv, SerialInv, NEW t \in Threads, ~ Overlap, Start(t)
  PROVE  SerialInv'
<1>0. TablesOK /\ group \in Rows
  BY DEF Inv, TablesOK, TableTypes
<1>1. CASE CreateGroup(t)
  <2>1. PICK j : j = [Idle EXCEPT !.pc = "deploy",
                        !.row = [state |-> "CREATED", members |-> <<Organizer>>, order |-> <<>>]]
    OBVIOUS
  <2>2. j \in Locals /\ j.pc = "deploy"
    <3>1. [state |-> "CREATED", members |-> <<Organizer>>, order |-> <<>>] \in Rows
      BY OrganizerAssumption DEF Rows
    <3> QED
      BY <2>1, <3>1, IdleOK DEF Idle, Locals, Labels
  <2>3. Current(j)
    BY <2>1 DEF Current, Idle, Creating
  <2>4. CanStart(t) /\ job' = [job EXCEPT ![t] = j] /\ UNCHANGED <<tables, contract, failures>>
    BY <1>1, <2>1 DEF CreateGroup
  <2> QED
    BY <2>2, <2>3, <2>4, SerialStart
<1>2. ASSUME NEW u \in Users, RequestToJoin(t, u) \/ Invite(t, u) PROVE SerialInv'
  <2>1. PICK i \in Items : job' = [job EXCEPT ![t] =
            [Idle EXCEPT !.pc = "saveItem", !.id = i, !.user = u, !.status = "PENDING"]]
    BY <1>2 DEF RequestToJoin, Invite, Items
  <2>2. PICK j : j = [Idle EXCEPT !.pc = "saveItem", !.id = i, !.user = u, !.status = "PENDING"]
    OBVIOUS
  <2>3. j \in Locals /\ j.pc = "saveItem"
    BY <2>2, IdleOK DEF Idle, Locals, Labels, Verdicts
  <2>4. Current(j)
    BY <2>3 DEF Current, Creating
  <2>5. CanStart(t) /\ UNCHANGED <<tables, contract, failures>>
    BY <1>2 DEF RequestToJoin, Invite
  <2> QED
    BY <2>1, <2>2, <2>3, <2>4, <2>5, SerialStart
<1>3. CASE DecideJoinRequest(t) \/ RespondInvitation(t)
  <2>1. PICK i \in Items, verdict \in Verdicts : ReadItem(t, i, verdict)
    BY <1>3 DEF DecideJoinRequest, RespondInvitation, Items, Verdicts
  <2>2. PICK j : j = [Idle EXCEPT !.pc = "readGroup", !.id = i, !.user = item[i].user, !.status = verdict]
    OBVIOUS
  <2>3. item[i].user \in Users
    BY <1>0 DEF TablesOK, TableTypes
  <2>4. j \in Locals /\ j.pc = "readGroup"
    BY <2>2, <2>3, IdleOK DEF Idle, Locals, Labels
  <2>5. Current(j)
    BY <2>4 DEF Current, Creating
  <2>6. CanStart(t) /\ UNCHANGED <<tables, contract, failures>> /\ job' = [job EXCEPT ![t] = j]
    BY <2>1, <2>2 DEF ReadItem
  <2> QED
    BY <2>4, <2>5, <2>6, SerialStart
<1>4. ASSUME NEW u \in Users, LeaveGroup(t, u) \/ RemoveMember(t, u) PROVE SerialInv'
  <2>1. PICK status \in {"LEFT", "REMOVED"} : StartDrop(t, u, status)
    BY <1>4 DEF LeaveGroup, RemoveMember
  <2>2. PICK j : j = [Idle EXCEPT !.pc = "getMembership", !.user = u, !.row = group, !.status = status]
    OBVIOUS
  <2>3. j \in Locals /\ j.pc = "getMembership" /\ j.row = group
    BY <1>0, <2>2, IdleOK DEF Idle, Locals, Labels
  <2>4. Current(j)
    BY <2>1, <2>3 DEF Current, Creating, StartDrop, Open
  <2>5. CanStart(t) /\ UNCHANGED <<tables, contract, failures>> /\ job' = [job EXCEPT ![t] = j]
    BY <2>1, <2>2 DEF StartDrop
  <2> QED
    BY <2>3, <2>4, <2>5, SerialStart
<1>5. ASSUME NEW order \in Orders, ActivateGroup(t, order) PROVE SerialInv'
  <2> DEFINE row == [group EXCEPT !.order = IF order = <<>> THEN group.members ELSE order]
  <2>1. PICK j : j = [Idle EXCEPT !.pc = "activate", !.row = row]
    OBVIOUS
  <2>2. order \in Seq(Users)
    BY SeqDef, MaxMembersAssumption DEF Orders
  <2>3. row \in Rows /\ row.members = group.members
    BY <1>0, <2>2 DEF Rows
  <2>4. CanStart(t) /\ UNCHANGED <<tables, contract, failures>> /\ job' = [job EXCEPT ![t] = j]
    BY <1>5, <2>1 DEF ActivateGroup
  <2> HIDE DEF row
  <2>5. j \in Locals /\ j.pc = "activate" /\ j.row = row
    BY <2>1, <2>3, OrganizerAssumption DEF Idle, Locals, Labels
  <2>6. Current(j)
    BY <1>5, <2>3, <2>5 DEF Current, Creating, ActivateGroup, Open
  <2> QED
    BY <2>4, <2>5, <2>6, SerialStart
<1> QED
  BY <1>1, <1>2, <1>3, <1>4, <1>5 DEF Start, Invite, RequestToJoin, LeaveGroup, RemoveMember

\* The steps that write nothing, write the group row or the chain, or go on: where
\* the handler stands then, with the row as it is.
LEMMA StepKeepsSerial ==
  ASSUME Inv, Inv', SerialInv, NEW t \in Threads, Step(t)
  PROVE  SerialInv'
<1> DEFINE old == job[t]
<1>0. /\ TablesOK /\ old \in Locals /\ LocalOK(old) /\ Fits(old) /\ Current(old)
      /\ group.members \in Seq(Users) /\ membership \in [Users -> {"none", "ACTIVE", "LEFT", "REMOVED"}]
      /\ old.user \in Users /\ old.row \in Rows /\ old.row.members \in Seq(Users)
      /\ TablesOK' /\ group'.members \in Seq(Users)
  BY DEF Inv, HandlersOK, SerialInv, TablesOK, TableTypes, Rows, Locals
<1>1. ~ At(t, "idle") => \A s \in Threads \ {t} : At(s, "idle")
  BY DEF SerialInv, Serial
<1>2. ~ At(t, "idle") /\ failures = 0 => Agreed(old)
  BY DEF SerialInv, Agreement
<1>3. ASSUME NEW label \in Labels, Goto(t, label)
      PROVE  \E j \in Locals : j = [old EXCEPT !.pc = label] /\ job' = [job EXCEPT ![t] = j]
  BY <1>0, <1>3 DEF Goto, Locals
<1>4. CASE DeployGroup(t)
  <2>1. PICK j \in Locals : j = [old EXCEPT !.pc = "saveNew"] /\ job' = [job EXCEPT ![t] = j]
    BY <1>3, <1>4 DEF DeployGroup, Labels
  <2>2. /\ At(t, "deploy") /\ ~ At(t, "idle") /\ Effect(t) /\ failures' = failures
        /\ UNCHANGED tables
    BY <1>4 DEF DeployGroup, Effect, ChainEffect, At
  <2>3. Current(j)'
    BY <1>0, <2>1, <2>2 DEF Current, Creating, At, Locals, tables
  <2>4. failures' = 0 => Agreed(j)'
    BY <1>0, <1>2, <2>1, <2>2 DEF Agreed, At, Locals, tables, MemberSet, ActiveSet
  <2> QED
    BY <1>1, <2>1, <2>2, <2>3, <2>4, SerialMove
<1>5. CASE SaveNewGroup(t)
  <2>1. PICK j \in Locals : j = [old EXCEPT !.pc = "saveOrganizer"] /\ job' = [job EXCEPT ![t] = j]
    BY <1>3, <1>5 DEF SaveNewGroup, Labels
  <2>2. /\ At(t, "saveNew") /\ ~ At(t, "idle") /\ Effect(t) /\ failures' = failures
        /\ group' = old.row /\ UNCHANGED <<membership, item, cycles, contract>>
    BY <1>5 DEF SaveNewGroup, Effect, SaveGroupEffect, At
  <2>3. /\ old.row.members = <<Organizer>> /\ old.row.state = "CREATED" /\ old.user = Organizer
        /\ group = NoRow
    BY <1>0, <2>2 DEF Current, LocalOK, Creating, At, Fits
  <2>4. Current(j)'
    BY <1>0, <2>1, <2>2, <2>3 DEF Current, Creating, Locals
  <2>5. MemberSet = {} /\ MemberSet' = {Organizer}
    BY <2>2, <2>3 DEF MemberSet, NoRow
  <2>6. j.pc = "saveOrganizer" /\ j.user = Organizer /\ old.pc = "saveNew"
    BY <1>0, <2>1, <2>2, <2>3 DEF Locals, At
  <2>7. failures' = 0 => Agreed(j)'
    BY <1>2, <2>2, <2>5, <2>6 DEF Agreed, ActiveSet
  <2> QED
    BY <1>1, <2>1, <2>2, <2>4, <2>7, SerialMove
<1>6. CASE SaveOrganizer(t) \/ SaveMembership(t)
  <2>1. /\ old.pc \in {"saveOrganizer", "saveMembership"} /\ ~ At(t, "idle") /\ Effect(t)
        /\ failures' = failures
        /\ membership' = [membership EXCEPT ![old.user] = "ACTIVE"]
        /\ UNCHANGED <<group, item, cycles, contract>>
    BY <1>6 DEF SaveOrganizer, SaveMembership, Effect, SaveMembershipEffect, At
  <2>2. ActiveSet' = ActiveSet \cup {old.user} /\ MemberSet' = MemberSet
    BY <1>0, <2>1 DEF ActiveSet, MemberSet
  <2>3. failures' = 0 => (MemberSet = ActiveSet)'
    BY <1>2, <2>1, <2>2 DEF Agreed
  <2>4. CASE SaveOrganizer(t)
    BY <2>1, <2>3, <2>4, SerialReturn DEF SaveOrganizer
  <2>5. CASE SaveMembership(t)
    <3>1. PICK j \in Locals : j = [old EXCEPT !.pc = "saveItem"] /\ job' = [job EXCEPT ![t] = j]
      BY <1>3, <2>5 DEF SaveMembership, Labels
    <3>2. j.pc = "saveItem"
      BY <1>0, <3>1 DEF Locals
    <3>3. Current(j)' /\ (failures' = 0 => Agreed(j)')
      BY <2>3, <3>2 DEF Current, Creating, Agreed
    <3> QED
      BY <1>1, <2>1, <3>1, <3>3, SerialMove
  <2> QED
    BY <1>6, <2>4, <2>5
<1>7. CASE ReadGroup(t)
  <2>1. At(t, "readGroup") /\ ~ At(t, "idle") /\ UNCHANGED <<tables, contract, failures>> /\ old.pc = "readGroup"
    BY <1>7 DEF ReadGroup, At
  <2>2. failures' = 0 => (MemberSet = ActiveSet)'
    BY <1>2, <2>1 DEF Agreed, At, MemberSet, ActiveSet, tables
  <2>3. CASE ~ Joins(old.status)
    <3>1. PICK j \in Locals : j = [old EXCEPT !.pc = "saveItem"] /\ job' = [job EXCEPT ![t] = j]
      BY <1>3, <1>7, <2>3 DEF ReadGroup, Labels
    <3>2. j.pc = "saveItem"
      BY <1>0, <3>1 DEF Locals
    <3>3. Current(j)' /\ (failures' = 0 => Agreed(j)')
      BY <2>2, <3>2 DEF Current, Creating, Agreed
    <3> QED
      BY <1>1, <2>1, <3>1, <3>3, SerialMove
  <2>4. CASE Joins(old.status) /\ Open(group) /\ HasRoom(group)
    <3> DEFINE row == [group EXCEPT !.members = Append(@, old.user)]
    <3>1. row \in Rows /\ row.members = Append(group.members, old.user)
      <4>1. PICK longer \in Seq(Users) : longer = Append(group.members, old.user)
        BY <1>0, AppendProperties
      <4>2. group \in Rows
        BY <1>0 DEF TablesOK, TableTypes
      <4>3. row = [group EXCEPT !.members = longer]
        BY <4>1
      <4> HIDE DEF row
      <4> QED
        BY <4>1, <4>2, <4>3 DEF Rows
    <3>2. PICK j : j = [old EXCEPT !.pc = "addMember", !.row = row]
      OBVIOUS
    <3>3. job' = [job EXCEPT ![t] = j]
      BY <1>0, <1>7, <2>4, <3>2 DEF ReadGroup, Locals
    <3> HIDE DEF row
    <3>4. j \in Locals /\ j.pc = "addMember" /\ j.row = row /\ j.user = old.user
      BY <1>0, <3>1, <3>2 DEF Locals, Labels
    <3>5. Current(j)'
      BY <2>1, <2>4, <3>1, <3>4 DEF Current, Creating, Open, tables
    <3>6. failures' = 0 => Agreed(j)'
      BY <2>2, <3>4 DEF Agreed
    <3> QED
      BY <1>1, <2>1, <3>3, <3>4, <3>5, <3>6, SerialMove
  <2>5. CASE Return(t)
    BY <2>1, <2>2, <2>5, SerialReturn
  <2> QED
    BY <1>7, <2>3, <2>4, <2>5 DEF ReadGroup
<1>8. CASE AddMember(t)
  <2>1. PICK j \in Locals : j = [old EXCEPT !.pc = "saveMembership"] /\ job' = [job EXCEPT ![t] = j]
    BY <1>3, <1>8 DEF AddMember, Labels
  <2>2. /\ old.pc = "addMember" /\ ~ At(t, "idle") /\ Effect(t) /\ failures' = failures
        /\ group' = old.row /\ UNCHANGED <<membership, item, cycles, contract>>
    BY <1>8 DEF AddMember, Effect, SaveGroupEffect, At
  <2>3. j.pc = "saveMembership" /\ j.user = old.user
    BY <1>0, <2>1 DEF Locals
  <2>4. group'.members = Append(group.members, old.user) /\ group'.state = "CREATED"
    BY <1>0, <2>2 DEF Current, LocalOK
  <2>5. Current(j)'
    BY <2>3, <2>4 DEF Current, Creating
  <2>6. MemberSet' = MemberSet \cup {old.user}
    <3>1. /\ Len(group'.members) = Len(group.members) + 1 /\ Len(group.members) \in Nat
          /\ \A i \in 1 .. Len(group.members) : group'.members[i] = group.members[i]
          /\ group'.members[Len(group.members) + 1] = old.user
      BY <1>0, <2>4, AppendProperties
    <3> QED
      BY <3>1, SMTT(30) DEF MemberSet
  <2>7. failures' = 0 => Agreed(j)'
    BY <1>2, <2>2, <2>3, <2>6 DEF Agreed, ActiveSet
  <2> QED
    BY <1>1, <2>1, <2>2, <2>5, <2>7, SerialMove
<1>9. CASE SaveItem(t)
  <2>1. /\ old.pc = "saveItem" /\ ~ At(t, "idle") /\ Effect(t) /\ Return(t) /\ failures' = failures
        /\ UNCHANGED <<group, membership>>
    BY <1>9 DEF SaveItem, Effect, SaveItemEffect, At
  <2>2. failures' = 0 => (MemberSet = ActiveSet)'
    BY <1>2, <2>1 DEF Agreed, MemberSet, ActiveSet
  <2> QED
    BY <2>1, <2>2, SerialReturn
<1>10. CASE GetMembership(t)
  <2>1. old.pc = "getMembership" /\ ~ At(t, "idle") /\ UNCHANGED <<tables, contract, failures>>
    BY <1>10 DEF GetMembership, At
  <2>2. failures' = 0 => (MemberSet = ActiveSet)'
    BY <1>2, <2>1 DEF Agreed, MemberSet, ActiveSet, tables
  <2>3. CASE Return(t)
    BY <2>1, <2>2, <2>3, SerialReturn
  <2>4. CASE membership[old.user] # "none"
    <3> DEFINE new == Without(old.row.members, old.user)
               row == [old.row EXCEPT !.members = new]
    <3>1. new \in Seq(Users)
      BY <1>0, WithoutFacts
    <3>2. row \in Rows /\ row.members = new
      BY <1>0, <3>1 DEF Rows
    <3>3. PICK j : j = [old EXCEPT !.pc = "dropMember", !.row = row]
      OBVIOUS
    <3>4. job' = [job EXCEPT ![t] = j]
      BY <1>0, <1>10, <2>4, <3>3 DEF GetMembership, Locals, Rows
    <3> HIDE DEF row
    <3>5. j \in Locals /\ j.pc = "dropMember" /\ j.row = row /\ j.user = old.user
      BY <1>0, <3>2, <3>3 DEF Locals, Labels
    <3>6. old.row.members = group.members /\ group.state = "CREATED"
      BY <1>0, <2>1 DEF Current
    <3>7. Current(j)'
      BY <2>1, <3>2, <3>5, <3>6 DEF Current, Creating, tables
    <3>8. failures' = 0 => Agreed(j)'
      BY <2>2, <3>5 DEF Agreed
    <3> QED
      BY <1>1, <2>1, <3>4, <3>5, <3>7, <3>8, SerialMove
  <2> QED
    BY <1>10, <2>3, <2>4 DEF GetMembership
<1>11. CASE DropMember(t)
  <2>1. PICK j \in Locals : j = [old EXCEPT !.pc = "markMembership"] /\ job' = [job EXCEPT ![t] = j]
    BY <1>3, <1>11 DEF DropMember, Labels
  <2>2. /\ old.pc = "dropMember" /\ ~ At(t, "idle") /\ Effect(t) /\ failures' = failures
        /\ group' = old.row /\ UNCHANGED <<membership, item, cycles, contract>>
    BY <1>11 DEF DropMember, Effect, SaveGroupEffect, At
  <2>3. j.pc = "markMembership" /\ j.user = old.user
    BY <1>0, <2>1 DEF Locals
  <2>4. group'.members = Without(group.members, old.user) /\ group'.state = "CREATED"
    BY <1>0, <2>2 DEF Current, LocalOK
  <2>5. Current(j)'
    BY <2>3, <2>4 DEF Current, Creating
  <2>6. MemberSet' = MemberSet \ {old.user}
    <3>1. \A v : On(group'.members, v) <=> v # old.user /\ On(group.members, v)
      BY <1>0, <2>4, WithoutFacts
    <3>2. /\ \A v : v \in MemberSet <=> On(group.members, v)
          /\ \A v : v \in MemberSet' <=> On(group'.members, v)
      BY DEF MemberSet, On
    <3> QED
      BY <3>1, <3>2
  <2>7. failures' = 0 => Agreed(j)'
    BY <1>2, <2>2, <2>3, <2>6 DEF Agreed, ActiveSet
  <2> QED
    BY <1>1, <2>1, <2>2, <2>5, <2>7, SerialMove
<1>12. CASE MarkMembership(t)
  <2>1. /\ old.pc = "markMembership" /\ ~ At(t, "idle") /\ Effect(t) /\ Return(t) /\ failures' = failures
        /\ membership' = [membership EXCEPT ![old.user] = old.status] /\ group' = group
    BY <1>12 DEF MarkMembership, Effect, SaveMembershipEffect, At
  <2>2. ActiveSet' = ActiveSet \ {old.user} /\ MemberSet' = MemberSet
    BY <1>0, <2>1 DEF ActiveSet, MemberSet, LocalOK
  <2>3. failures' = 0 => (MemberSet = ActiveSet)'
    BY <1>2, <2>1, <2>2 DEF Agreed
  <2> QED
    BY <2>1, <2>3, SerialReturn
<1>13. CASE ActivateOnChain(t)
  <2> DEFINE row == [old.row EXCEPT !.state = "ACTIVE"]
  <2>1. PICK j : j = [old EXCEPT !.pc = "saveActive", !.row = row]
    OBVIOUS
  <2>2. row \in Rows /\ row.members = old.row.members
    BY <1>0 DEF Rows
  <2>3. /\ old.pc = "activate" /\ ~ At(t, "idle") /\ Effect(t) /\ failures' = failures
        /\ UNCHANGED tables /\ job' = [job EXCEPT ![t] = j]
    BY <1>0, <1>13, <2>1 DEF ActivateOnChain, Effect, ChainEffect, At, Locals, Rows
  <2> HIDE DEF row
  <2>4. j \in Locals /\ j.pc = "saveActive" /\ j.row = row
    BY <1>0, <2>1, <2>2 DEF Locals, Labels
  <2>5. Current(j)'
    BY <1>0, <2>2, <2>3, <2>4 DEF Current, Creating, tables
  <2>6. failures' = 0 => Agreed(j)'
    BY <1>2, <2>3, <2>4 DEF Agreed, MemberSet, ActiveSet, tables
  <2> QED
    BY <1>1, <2>3, <2>4, <2>5, <2>6, SerialMove
<1>14. CASE SaveActive(t)
  <2>1. PICK j : j = [old EXCEPT !.pc = "saveCycle", !.index = 1]
    OBVIOUS
  <2>2. /\ old.pc = "saveActive" /\ ~ At(t, "idle") /\ Effect(t) /\ failures' = failures
        /\ group' = old.row /\ UNCHANGED <<membership, item, cycles, contract>>
        /\ job' = [job EXCEPT ![t] = j]
    BY <1>0, <1>14, <2>1 DEF SaveActive, Effect, SaveGroupEffect, At, Locals
  <2>3. j \in Locals /\ j.pc = "saveCycle" /\ j.row = old.row /\ j.index = 1
    BY <1>0, <2>1 DEF Locals, Labels
  <2>4. cycles = <<>> /\ group'.members = group.members
    BY <1>0, <2>2 DEF Current, SerialInv, Schedule
  <2>5. Current(j)'
    BY <2>2, <2>3, <2>4 DEF Current, Creating
  <2>6. failures' = 0 => Agreed(j)'
    BY <1>2, <2>2, <2>3, <2>4 DEF Agreed, MemberSet, ActiveSet
  <2> QED
    BY <1>1, <2>2, <2>3, <2>5, <2>6, SerialMove
<1>15. CASE SaveCycle(t)
  <2>1. /\ old.pc = "saveCycle" /\ ~ At(t, "idle") /\ Effect(t) /\ failures' = failures
        /\ UNCHANGED <<group, membership, item, contract>> /\ SaveCycleEffect(t)
    BY <1>15 DEF SaveCycle, Effect, SaveCycleEffect, At
  <2>2. failures' = 0 => (MemberSet = ActiveSet)'
    BY <1>2, <2>1 DEF Agreed, MemberSet, ActiveSet
  <2>3. CASE Return(t)
    BY <2>1, <2>2, <2>3, SerialReturn
  <2>4. CASE job' = [job EXCEPT ![t].index = @ + 1]
    <3> DEFINE k == old.index
               u == old.row.order[k]
    <3>1. PICK j : j = [old EXCEPT !.index = k + 1]
      OBVIOUS
    <3>2. job' = [job EXCEPT ![t] = j]
      BY <1>0, <2>4, <3>1 DEF Locals
    <3>3. /\ old.row = group /\ k = Len(cycles) + 1 /\ u \in Users /\ cycles \in Seq(Users) /\ k \in Nat
      BY <1>0, <2>1 DEF Current, LocalOK, Locals, Rows, TablesOK, TableTypes
    <3>4. cycles' = Longer(cycles, u)
      BY <2>1, <3>3 DEF SaveCycleEffect, Upsert, Longer
    <3>5. j \in Locals /\ j.pc = "saveCycle" /\ j.index = k + 1 /\ j.row = group
      <4>1. k \in Nat /\ k + 1 \in Nat
        BY <1>0 DEF Locals
      <4> HIDE DEF k
      <4>2. j \in Locals /\ j.pc = "saveCycle" /\ j.index = k + 1 /\ j.row = old.row
        BY <1>0, <2>1, <3>1, <4>1 DEF Locals
      <4> QED
        BY <3>3, <4>2
    <3> HIDE DEF k, u
    <3>6. Len(cycles') = k
      BY <3>3, <3>4, AddedRow
    <3>7. Current(j)'
      BY <2>1, <3>5, <3>6 DEF Current, Creating
    <3>8. failures' = 0 => Agreed(j)'
      BY <2>2, <3>5 DEF Agreed
    <3> QED
      BY <1>1, <2>1, <3>2, <3>5, <3>7, <3>8, SerialMove
  <2> QED
    BY <1>15, <2>3, <2>4 DEF SaveCycle
<1> QED
  BY <1>4, <1>5, <1>6, <1>7, <1>8, <1>9, <1>10, <1>11, <1>12, <1>13, <1>14, <1>15 DEF Step

\* The serial invariant holds before the first request.
LEMMA SerialInit == Init => SerialInv
<1> SUFFICES ASSUME Init PROVE SerialInv
  OBVIOUS
<1>1. \A t \in Threads : job[t] = Idle
  BY DEF Init
<1>2. MemberSet = {} /\ ActiveSet = {}
  BY DEF Init, MemberSet, ActiveSet, NoRow
<1>3. Schedule
  BY SubSeqEmpty DEF Init, Schedule, ScheduleMatches
<1> QED
  BY <1>1, <1>2, <1>3 DEF SerialInv, Serial, Agreement, Current, Creating, Idle, At

\* Every step keeps the serial invariant.
LEMMA SerialNext ==
  ASSUME ~ Overlap
  PROVE  Inv /\ Inv' /\ SerialInv /\ [Next]_vars => SerialInv'
<1> SUFFICES ASSUME Inv, Inv', SerialInv, [Next]_vars PROVE SerialInv'
  OBVIOUS
<1>1. CASE UNCHANGED vars
  BY <1>1 DEF vars, tables, SerialInv, Serial, At, Schedule, ScheduleMatches, Agreement, AllIdle,
              MemberSet, ActiveSet, Agreed, Current
<1>2. CASE Crash
  <2>1. \A t \in Threads : job'[t] = Idle
    BY <1>2 DEF Crash
  <2>2. UNCHANGED tables /\ failures' # 0
    BY <1>2 DEF Crash, Fail, Inv
  <2>3. Schedule'
    BY <2>2 DEF SerialInv, Schedule, ScheduleMatches, tables
  <2>4. \A t \in Threads : Current(job[t])'
    BY <2>1 DEF Current, Creating, Idle
  <2> QED
    BY <2>1, <2>2, <2>3, <2>4 DEF SerialInv, Serial, Agreement, Idle, At
<1>3. ASSUME NEW t \in Threads, CallError(t) PROVE SerialInv'
  <2>1. failures' # 0 /\ Return(t) /\ ~ At(t, "idle") /\ (Effect(t) \/ UNCHANGED <<tables, contract>>)
    BY <1>3 DEF CallError, Fail, Inv
  <2> QED
    BY <2>1, SerialReturn
<1> QED
  BY <1>1, <1>2, <1>3, StartKeepsSerial, StepKeepsSerial DEF Next

-----------------------------------------------------------------------------
(* The theorems for requests that do not overlap *)

\* While nothing overlaps, the serial invariant holds.
THEOREM SerialInvariant ==
  ASSUME ~ Overlap
  PROVE  Spec => []SerialInv
  BY SerialInit, SerialNext, Invariant, PTL DEF Spec

\* While nothing overlaps or fails, the member list of the row and the ACTIVE
\* membership rows name the same users.
THEOREM MembersAgree ==
  ASSUME ~ Overlap
  PROVE  Spec => []SameMembers
<1>1. SerialInv => SameMembers
  BY DEF SerialInv, Agreement, SameMembers, ActiveSet
<1> QED
  BY <1>1, SerialInvariant, PTL

\* While nothing overlaps, and whatever fails, the cycle rows are the payout order
\* of the group row, as far as they go.
THEOREM ScheduleIsTheOrder ==
  ASSUME ~ Overlap
  PROVE  Spec => []ScheduleMatches
<1>1. SerialInv => ScheduleMatches
  BY DEF SerialInv, Schedule
<1> QED
  BY <1>1, SerialInvariant, PTL

\* While nothing overlaps, and whatever fails, no request changes the row or a
\* membership of an activated group.
THEOREM ActivatedIsFrozen ==
  ASSUME ~ Overlap
  PROVE  Spec => ActiveIsFrozen
<1>1. Inv /\ SerialInv /\ [Next]_vars => [group.state = "ACTIVE" => group' = group /\ membership' = membership]_vars
  <2> SUFFICES ASSUME Inv, SerialInv, [Next]_vars, group.state = "ACTIVE"
               PROVE  group' = group /\ membership' = membership
    OBVIOUS
  <2>1. \A t \in Threads : job[t].pc \notin {"saveNew", "saveOrganizer", "addMember", "saveMembership",
                                            "dropMember", "markMembership", "saveActive"}
    BY DEF SerialInv, Current, Inv, HandlersOK, Fits, Creating, NoRow
  <2>2. ASSUME NEW t \in Threads, Start(t) PROVE group' = group /\ membership' = membership
    BY <2>2 DEF Start, CreateGroup, DecideJoinRequest, RespondInvitation, ReadItem, RequestToJoin, Invite,
                LeaveGroup, RemoveMember, StartDrop, ActivateGroup, tables
  <2>3. ASSUME NEW t \in Threads, Effect(t) PROVE group' = group /\ membership' = membership
    BY <2>1, <2>3 DEF Effect, ChainEffect, SaveGroupEffect, SaveMembershipEffect, SaveItemEffect,
                      SaveCycleEffect, At, tables
  <2>4. ASSUME NEW t \in Threads, Step(t) PROVE Effect(t) \/ UNCHANGED tables
    BY <2>4 DEF Step, DeployGroup, SaveNewGroup, SaveOrganizer, ReadGroup, AddMember, SaveMembership,
                SaveItem, GetMembership, DropMember, MarkMembership, ActivateOnChain, SaveActive,
                SaveCycle, Effect, At
  <2> QED
    BY <2>2, <2>3, <2>4 DEF Next, CallError, Crash, vars, tables
<1> QED
  BY <1>1, Invariant, SerialInvariant, PTL DEF Spec, ActiveIsFrozen
=============================================================================
