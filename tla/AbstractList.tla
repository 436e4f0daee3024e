---------------------------- MODULE AbstractList -----------------------------
(***************************************************************************)
(* What the methods of a list (src/src/list.c) and an assignment to an     *)
(* element (src/src/vm.c) do to it, as a sequence of values: no capacity,  *)
(* no unused slots, no array.  Positions count from 0, as in the language. *)
(***************************************************************************)
EXTENDS Integers, Sequences

CONSTANTS Value,
          Nil,        \* NIL_VAL
          Position,   \* the positions and numbers that calls are given
          Argument    \* the lists that extend is given

VARIABLES list,     \* the elements
          answer,   \* what the last call returned
          fate      \* "fine", or "corrupt" once memory was overwritten

listVars == <<list, answer, fate>>

Answer(op, v) == [op |-> op, value |-> v]
Refused(op) == answer' = [op |-> op, error |-> TRUE] /\ list' = list
Overwrites(op) == fate' = "corrupt" /\ answer' = Answer(op, Nil) /\ list' = list

ListInit == list = <<>> /\ answer = Answer("new", Nil) /\ fate = "fine"

\* The elements before position p, and those from it on.
Before(p) == SubSeq(list, 1, p)
From(p) == SubSeq(list, p + 1, Len(list))

Push(v) ==
  /\ answer' = Answer("append", Nil)
  /\ list' = Append(list, v)

Empty == answer' = Answer("clear", Nil) /\ list' = <<>>

\* An empty list extended by itself is extended by the empty list.
ExtendBy(s) == answer' = Answer("extend", Nil) /\ list' = list \o s

\* Beyond the last element, the gap is filled with nil.
InsertAt0(v, p) ==
  /\ p >= 0 /\ answer' = Answer("insert", Nil)
  /\ list' = IF p <= Len(list) THEN Append(Before(p), v) \o From(p)
             ELSE Append(list \o [k \in 1 .. p - Len(list) |-> Nil], v)

PopLast ==
  /\ answer' = Answer("pop", IF list = <<>> THEN Nil ELSE list[Len(list)])
  /\ list' = IF list = <<>> THEN list ELSE Before(Len(list) - 1)

\* A list that would be emptied is emptied, and nothing is returned.
ShiftBy(n) ==
  IF n >= Len(list) \/ Len(list) = 1
    THEN answer' = Answer("shift", Nil) /\ list' = <<>>
  ELSE IF n <= 0
    THEN answer' = Answer("shift", Nil) /\ list' = list
  ELSE /\ answer' = Answer("shift", IF n = 1 THEN list[1] ELSE Before(n))
       /\ list' = From(n)

Within(p) == 0 <= p /\ p < Len(list)

Cut(lower, upper) == list' = Before(lower) \o From(upper + 1)

CutAt(p) ==
  \/ Within(p) /\ answer' = Answer("remove_at", list[p + 1]) /\ Cut(p, p)
  \/ ~ Within(p) /\ Refused("remove_at")

CutRange(lower, upper) ==
  \/ /\ Within(lower) /\ Within(upper) /\ lower <= upper
     /\ answer' = Answer("delete", upper - lower + 1) /\ Cut(lower, upper)
  \/ /\ ~ (Within(lower) /\ Within(upper) /\ lower <= upper)
     /\ Refused("delete")

CutFirst(v) ==
  /\ answer' = Answer("remove", Nil)
  /\ \/ (\A k \in 1 .. Len(list) : list[k] # v) /\ list' = list
     \/ \E p \in 0 .. Len(list) - 1 :
          /\ list[p + 1] = v
          /\ \A k \in 1 .. p : list[k] # v
          /\ Cut(p, p)

\* A negative position counts from the end.
FromEnd(p) == IF p < 0 THEN Len(list) + p ELSE p

AssignAt(p, v) ==
  \/ /\ Within(FromEnd(p))
     /\ answer' = Answer("assign", v)
     /\ list' = [list EXCEPT ![FromEnd(p) + 1] = v]
  \/ ~ Within(FromEnd(p)) /\ Refused("assign")

\* The elements change places: sort.
Reorder ==
  /\ answer' = Answer("sort", Nil)
  /\ \E p \in [1 .. Len(list) -> 1 .. Len(list)] :
       /\ \A k, m \in 1 .. Len(list) : p[k] = p[m] => k = m
       /\ list' = [k \in 1 .. Len(list) |-> list[p[k]]]

Change ==
  \/ \E v \in Value : Push(v) \/ CutFirst(v)
  \/ Empty \/ PopLast \/ Reorder
  \/ \E s \in Argument \cup {<<>>} : ExtendBy(s)
  \/ \E v \in Value, p \in Position : InsertAt0(v, p) \/ AssignAt(p, v)
  \/ \E n \in Position : ShiftBy(n) \/ CutAt(n)
  \/ \E lower, upper \in Position : CutRange(lower, upper)

\* Only these two calls leave the array: insert at a negative position, and
\* an assignment further before the first element than the list is long.
Corruption ==
  \E p \in Position :
    \/ p < 0 /\ Overwrites("insert")
    \/ FromEnd(p) < 0 /\ - Len(list) < FromEnd(p) /\ Overwrites("assign")

ListNext == fate = "fine" /\ (Corruption \/ (Change /\ fate' = "fine"))

ListSpec == ListInit /\ [][ListNext]_listVars
==============================================================================
