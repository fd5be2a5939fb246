------------------------------ MODULE Ordering ------------------------------
(***************************************************************************)
(* Lists made from sets: what SELECT ... ORDER BY and the sort of a slice  *)
(* return, and the order of times that are kept as text.                   *)
(***************************************************************************)
EXTENDS Integers, Sequences, FiniteSets

\* The members of S as a list, each one after those that before gives for it.
InOrder(S, before) == [k \in 1 .. Cardinality(S) |-> CHOOSE x \in S : Cardinality(before[x]) = k - 1]

\* Numbers in ascending order.
Ascending(S) == InOrder(S, [x \in S |-> {y \in S : y < x}])

\* tstr, in sqlitestore.go, of a time in half seconds.  RFC3339Nano drops the trailing
\* zeros of the fraction, and TEXT is compared byte by byte: "12:00:01Z" sorts after
\* "12:00:01.5Z", for '.' < 'Z'.
tstr(t) == <<t \div 2, IF t % 2 = 1 THEN 0 ELSE 1>>
SortsBefore(x, y) == x[1] < y[1] \/ (x[1] = y[1] /\ x[2] < y[2])
=============================================================================
