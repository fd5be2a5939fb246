------------------------------ MODULE ListLemmas ------------------------------
(***************************************************************************)
(* Facts that several proofs need: induction over the natural numbers, and *)
(* what the lists of Ordering hold.  The induction theorems of the library *)
(* take an operator, which no back end can instantiate; here induction is  *)
(* stated with sets, and rests on WFMin.                                   *)
(***************************************************************************)
EXTENDS Ordering, WellFoundedInduction, FiniteSetTheorems, SequenceTheorems, TLAPS

-----------------------------------------------------------------------------
(* Induction *)

\* A set of natural numbers that is not empty has a least element.
LEMMA LeastElement ==
  ASSUME NEW T \in SUBSET Nat, T # {}
  PROVE  \E m \in T : \A k \in T : m <= k
<1> DEFINE R == {ss \in Nat \X Nat : ss[1] < ss[2]}
<1>1. IsWellFoundedOn(OpToRel(<,Nat), Nat)
  BY NatLessThanWellFounded
<1>2. OpToRel(<,Nat) = R
  BY DEF OpToRel
<1>3. IsWellFoundedOn(R, Nat)
  BY <1>1, <1>2
<1>4. PICK m \in T : \A y \in T : ~ (<<y, m>> \in R)
  <2> HIDE DEF R
  <2> QED
    BY <1>3, WFMin
<1>5. ASSUME NEW k \in T PROVE m <= k
  <2>1. <<k, m>> \in Nat \X Nat
    OBVIOUS
  <2>2. ~ (k < m)
    BY <2>1, <1>4
  <2> QED
    BY <2>2
<1> QED
  BY <1>5

\* A set that holds 0 and the successor of each of its elements holds every number.
LEMMA SetInduction ==
  ASSUME NEW T \in SUBSET Nat, 0 \in T, \A n \in T : n + 1 \in T
  PROVE  T = Nat
<1> SUFFICES ASSUME Nat \ T # {} PROVE FALSE
  OBVIOUS
<1>1. PICK m \in Nat \ T : \A k \in Nat \ T : m <= k
  BY LeastElement
<1>2. m # 0 /\ m - 1 \in Nat
  BY <1>1
<1>3. m - 1 \in T
  BY <1>1, <1>2
<1> QED
  BY <1>1, <1>2, <1>3

-----------------------------------------------------------------------------
(* Lists in order *)

\* What InOrder needs of before: it is a strict total order of S.
LinearOrder(S, before) ==
    /\ \A x \in S : before[x] \in SUBSET S /\ x \notin before[x]
    /\ \A x, y \in S : x = y \/ x \in before[y] \/ y \in before[x]
    /\ \A x, y \in S : x \in before[y] => before[x] \subseteq before[y]

\* Who comes before another has fewer before him.
LEMMA FewerBefore ==
  ASSUME NEW S, IsFiniteSet(S), NEW before, LinearOrder(S, before), NEW x \in S, NEW y \in S, x \in before[y]
  PROVE  Cardinality(before[x]) < Cardinality(before[y])
<1>1. before[x] \in SUBSET S /\ before[y] \in SUBSET S /\ x \notin before[x] /\ before[x] \subseteq before[y]
  BY DEF LinearOrder
<1>2. PICK B : B = before[x] \cup {x}
  OBVIOUS
<1>3. IsFiniteSet(before[x]) /\ IsFiniteSet(before[y])
  BY <1>1, FS_Subset
<1>4. Cardinality(before[x]) \in Nat /\ Cardinality(before[y]) \in Nat
  BY <1>3, FS_CardinalityType
<1>5. Cardinality(B) = Cardinality(before[x]) + 1
  BY <1>1, <1>2, <1>3, FS_AddElement
<1>6. B \in SUBSET before[y]
  BY <1>1, <1>2
<1>7. Cardinality(B) <= Cardinality(before[y])
  BY <1>3, <1>6, FS_Subset
<1> QED
  BY <1>4, <1>5, <1>7

\* InOrder lists every member of S once, and in that order.
LEMMA InOrderLists ==
  ASSUME NEW S, IsFiniteSet(S), NEW before, LinearOrder(S, before)
  PROVE  /\ Cardinality(S) \in Nat
         /\ InOrder(S, before) \in [1 .. Cardinality(S) -> S]
         /\ \A x \in S : \E k \in 1 .. Cardinality(S) : InOrder(S, before)[k] = x
         /\ \A k \in 1 .. Cardinality(S) : Cardinality(before[InOrder(S, before)[k]]) = k - 1
<1>0. PICK n : n = Cardinality(S)
  OBVIOUS
<1>1. n \in Nat
  BY <1>0, FS_CardinalityType
<1>2. ASSUME NEW x \in S PROVE Cardinality(before[x]) \in Nat /\ Cardinality(before[x]) + 1 \in 1 .. n
  <2>1. before[x] \in SUBSET (S \ {x})
    BY DEF LinearOrder
  <2>2. IsFiniteSet(S \ {x}) /\ Cardinality(S \ {x}) = n - 1
    BY <1>0, FS_RemoveElement
  <2>3. IsFiniteSet(before[x]) /\ Cardinality(before[x]) <= n - 1
    BY <2>1, <2>2, FS_Subset
  <2>4. Cardinality(before[x]) \in Nat
    BY <2>3, FS_CardinalityType
  <2> QED
    BY <1>1, <2>3, <2>4
<1>3. PICK place : place = [x \in S |-> Cardinality(before[x]) + 1]
  OBVIOUS
<1>4. place \in [S -> 1 .. n] /\ \A x \in S : place[x] = Cardinality(before[x]) + 1
  BY <1>2, <1>3
<1>5. ASSUME NEW x \in S, NEW y \in S, place[x] = place[y] PROVE x = y
  <2>1. ~ (Cardinality(before[x]) < Cardinality(before[y])) /\ ~ (Cardinality(before[y]) < Cardinality(before[x]))
    BY <1>2, <1>4, <1>5
  <2>2. x \notin before[y] /\ y \notin before[x]
    BY <2>1, FewerBefore
  <2> QED
    BY <2>2 DEF LinearOrder
<1>6. place \in Injection(S, 1 .. n)
  BY <1>4, <1>5 DEF Injection, IsInjective
<1>7. IsFiniteSet(1 .. n) /\ Cardinality(1 .. n) = n
  BY <1>1, FS_Interval
<1>8. place \in Surjection(S, 1 .. n)
  BY <1>0, <1>6, <1>7, FS_Injection
<1>9. \A k \in 1 .. n : \E x \in S : place[x] = k
  BY <1>8 DEF Surjection
<1>10. ASSUME NEW k \in 1 .. n
       PROVE  InOrder(S, before)[k] \in S /\ Cardinality(before[InOrder(S, before)[k]]) = k - 1
  <2>1. \E x \in S : Cardinality(before[x]) = k - 1
    BY <1>2, <1>4, <1>9
  <2>2. InOrder(S, before)[k] = CHOOSE x \in S : Cardinality(before[x]) = k - 1
    BY <1>0 DEF InOrder
  <2> QED
    BY <2>1, <2>2
<1>11. ASSUME NEW x \in S PROVE \E k \in 1 .. n : InOrder(S, before)[k] = x
  <2>1. PICK k \in 1 .. n : k = place[x]
    BY <1>4
  <2>2. PICK y \in S : y = InOrder(S, before)[k] /\ Cardinality(before[y]) = k - 1
    BY <1>10
  <2>3. place[y] = place[x]
    BY <1>2, <1>4, <2>1, <2>2
  <2> QED
    BY <1>5, <2>2, <2>3
<1>12. InOrder(S, before) \in [1 .. n -> S]
  <2>1. InOrder(S, before) = [k \in 1 .. n |-> InOrder(S, before)[k]]
    BY <1>0 DEF InOrder
  <2> QED
    BY <1>10, <2>1
<1> QED
  BY <1>0, <1>1, <1>10, <1>11, <1>12

\* Who is listed earlier comes before.
LEMMA InOrderKeeps ==
  ASSUME NEW S, IsFiniteSet(S), NEW before, LinearOrder(S, before),
         NEW i \in 1 .. Cardinality(S), NEW j \in 1 .. Cardinality(S), i < j
  PROVE  InOrder(S, before)[i] \in before[InOrder(S, before)[j]]
<1>1. PICK x \in S : x = InOrder(S, before)[i] /\ Cardinality(before[x]) = i - 1
  BY InOrderLists
<1>2. PICK y \in S : y = InOrder(S, before)[j] /\ Cardinality(before[y]) = j - 1
  BY InOrderLists
<1>3. Cardinality(S) \in Nat
  BY InOrderLists
<1>4. ~ (Cardinality(before[y]) < Cardinality(before[x])) /\ x # y
  BY <1>1, <1>2, <1>3
<1>5. y \notin before[x]
  BY <1>4, FewerBefore
<1> QED
  BY <1>1, <1>2, <1>4, <1>5 DEF LinearOrder

\* A function on 1 .. n is a sequence of length n.
LEMMA FunctionIsSeq ==
  ASSUME NEW n \in Nat, NEW T, NEW o \in [1 .. n -> T]
  PROVE  o \in Seq(T) /\ Len(o) = n
OBVIOUS

\* The usual order of numbers.
LEMMA BelowOrders ==
  ASSUME NEW S \in SUBSET Nat, NEW before, before = [x \in S |-> {y \in S : y < x}]
  PROVE  LinearOrder(S, before) /\ \A x, y \in S : y \in before[x] <=> y < x
<1>2. /\ \A x \in S : before[x] \in SUBSET S
      /\ \A x, y \in S : y \in before[x] <=> y < x
  <2>1. \A x \in S : before[x] = {y \in S : y < x}
    OBVIOUS
  <2> QED
    BY <2>1, Zenon
<1>3. LinearOrder(S, before)
  <2>1. ASSUME NEW x \in S PROVE before[x] \in SUBSET S /\ x \notin before[x]
    BY <1>2
  <2>2. ASSUME NEW x \in S, NEW y \in S PROVE x = y \/ x \in before[y] \/ y \in before[x]
    BY <1>2
  <2>3. ASSUME NEW x \in S, NEW y \in S, x \in before[y] PROVE before[x] \subseteq before[y]
    <3>1. x < y /\ x \in Nat /\ y \in Nat
      BY <1>2, <2>3
    <3>2. ASSUME NEW z \in before[x] PROVE z \in before[y]
      <4>1. z \in S /\ z \in Nat
        BY <1>2
      <4>2. z < x
        BY <1>2, <4>1
      <4>3. z < y
        BY <3>1, <4>1, <4>2
      <4> QED
        BY <1>2, <4>1, <4>3
    <3> QED
      BY <3>2
  <2> QED
    BY <2>1, <2>2, <2>3 DEF LinearOrder
<1> QED
  BY <1>2, <1>3

\* Numbers in ascending order.
LEMMA AscendingLists ==
  ASSUME NEW S \in SUBSET Nat, IsFiniteSet(S)
  PROVE  /\ Ascending(S) \in Seq(Nat)
         /\ Len(Ascending(S)) = Cardinality(S) /\ Cardinality(S) \in Nat
         /\ \A k \in 1 .. Cardinality(S) : Ascending(S)[k] \in S
         /\ \A x \in S : \E k \in 1 .. Cardinality(S) : Ascending(S)[k] = x
         /\ \A i, j \in 1 .. Cardinality(S) : i < j => Ascending(S)[i] < Ascending(S)[j]
<1>1. PICK before : before = [x \in S |-> {y \in S : y < x}]
  OBVIOUS
<1>2. \A x, y \in S : y \in before[x] <=> y < x
  BY <1>1, BelowOrders
<1>3. LinearOrder(S, before)
  BY <1>1, BelowOrders
<1>4. Ascending(S) = InOrder(S, before)
  BY <1>1 DEF Ascending
<1>5. PICK o : o = InOrder(S, before)
  OBVIOUS
<1>6. /\ Cardinality(S) \in Nat /\ o \in [1 .. Cardinality(S) -> S]
      /\ \A x \in S : \E k \in 1 .. Cardinality(S) : o[k] = x
  BY <1>3, <1>5, InOrderLists
<1>7. \A i, j \in 1 .. Cardinality(S) : i < j => o[i] \in before[o[j]]
  BY <1>3, <1>5, InOrderKeeps
<1>8. \A i, j \in 1 .. Cardinality(S) : i < j => o[i] < o[j]
  BY <1>2, <1>6, <1>7
<1>9. o \in Seq(Nat) /\ Len(o) = Cardinality(S)
  <2>1. o \in [1 .. Cardinality(S) -> Nat]
    BY <1>6
  <2> QED
    BY <1>6, <2>1, FunctionIsSeq
<1> QED
  BY <1>4, <1>5, <1>6, <1>8, <1>9
==============================================================================
