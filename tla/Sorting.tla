------------------------------- MODULE Sorting -------------------------------
(***************************************************************************)
(* sort_values of value.c, one step per turn of its inner loop.  Both of   *)
(* its loops run over the whole array, and a pair that is already in order *)
(* is exchanged when i is before j: rows before the current one are put    *)
(* into disorder and repaired.  An element that is a list is sorted too,   *)
(* by a call that changes neither its rank nor its place.                  *)
(***************************************************************************)
EXTENDS Values

CONSTANTS Lengths,  \* the lengths of arrays to sort
          Nested    \* the values that are lists

ASSUME SortingAssumption == Lengths \subseteq Nat /\ Nested \subseteq Value

VARIABLES input,    \* the array as it was given,
          a, size,  \* as it is now, and its length
          i, j,     \* the loop variables
          origin,   \* where in input each element was
          inner     \* the nested lists that were sorted

sortVars == <<input, a, size, i, j, origin, inner>>

SortInit ==
  /\ size \in Lengths
  /\ input \in [0 .. size - 1 -> Value]
  /\ a = input
  /\ origin = [k \in 0 .. size - 1 |-> k]
  /\ i = 0 /\ j = 0 /\ inner = {}

Exchanged(f, p, q) == [f EXCEPT ![p] = f[q], ![q] = f[p]]

\* Faulty: a pair is exchanged only when j is behind i, as if the sort were
\* the usual one.
TurnBehind ==
  /\ i < size /\ j < size
  /\ IF j > i /\ a[j] = FindMaxValue(a[i], a[j])
       THEN /\ a' = Exchanged(a, i, j)
            /\ origin' = Exchanged(origin, i, j)
            /\ inner' = inner \cup ({a[i], a[j]} \cap Nested)
       ELSE UNCHANGED <<a, origin, inner>>
  /\ j' = j + 1
  /\ UNCHANGED <<input, size, i>>

\* Faulty: only elements that are exchanged are looked at.
TurnNotItself ==
  /\ i < size /\ j < size
  /\ IF j # i /\ a[j] = FindMaxValue(a[i], a[j])
       THEN /\ a' = Exchanged(a, i, j)
            /\ origin' = Exchanged(origin, i, j)
            /\ inner' = inner \cup ({a[i], a[j]} \cap Nested)
       ELSE UNCHANGED <<a, origin, inner>>
  /\ j' = j + 1
  /\ UNCHANGED <<input, size, i>>

Turn ==
  /\ i < size /\ j < size
  /\ IF a[j] = FindMaxValue(a[i], a[j])
       THEN /\ a' = Exchanged(a, i, j)
            /\ origin' = Exchanged(origin, i, j)
            /\ inner' = inner \cup ({a[i], a[j]} \cap Nested)
       ELSE UNCHANGED <<a, origin, inner>>
  /\ j' = j + 1
  /\ UNCHANGED <<input, size, i>>

NextRow ==
  /\ i < size /\ j = size
  /\ i' = i + 1 /\ j' = 0
  /\ UNCHANGED <<input, a, size, origin, inner>>

SortNext == Turn \/ NextRow

SortSpec == SortInit /\ [][SortNext]_sortVars
------------------------------------------------------------------------------
(* Properties *)

R(k) == Rank[a[k]]

SortTypeOK ==
  /\ size \in Nat /\ i \in 0 .. size /\ j \in 0 .. size
  /\ input \in [0 .. size - 1 -> Value] /\ a \in [0 .. size - 1 -> Value]
  /\ origin \in [0 .. size - 1 -> 0 .. size - 1]

\* No element is lost or doubled, at any moment of the sort.
Rearranged ==
  /\ \A k, m \in 0 .. size - 1 : origin[k] = origin[m] => k = m
  /\ \A k \in 0 .. size - 1 : a[k] = input[origin[k]]

\* The rows that are done are in order; the greatest element is the last of
\* them, until the current row takes it over; and no element that the
\* current row has passed is greater than its own.
RowsInOrder ==
  /\ \A k, m \in 0 .. i - 1 : k <= m => R(k) <= R(m)
  /\ i < size => \A k \in 0 .. j - 1 : R(k) <= R(i)
  /\ i >= 1 /\ j < i => \A k \in 0 .. size - 1 : R(k) <= R(i - 1)
  /\ i >= 1 /\ i < size /\ j >= i => \A k \in 0 .. size - 1 : R(k) <= R(i)

\* A nested list is sorted in the row of its place at the latest.
NestedInRows ==
  \A k \in 0 .. size - 1 :
    a[k] \in Nested /\ (k < i \/ (k = i /\ j > i)) => a[k] \in inner

\* The inductive invariant of SortingProofs: the loops of sort_values lose no
\* element and keep the finished rows in order.
SortIInv == SortTypeOK /\ Rearranged /\ RowsInOrder /\ NestedInRows

\* What list.sort() promises: the elements it was given, in ascending order,
\* every list among them sorted as well.
Sorted ==
  i = size =>
    /\ \A k, m \in 0 .. size - 1 : k <= m => R(k) <= R(m)
    /\ \A k \in 0 .. size - 1 : a[k] \in Nested => a[k] \in inner
==============================================================================
