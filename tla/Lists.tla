-------------------------------- MODULE Lists --------------------------------
(***************************************************************************)
(* One list of the language: the array of list.c and value.c, with its     *)
(* unused slots.  Each method that changes the list is one step; extend    *)
(* takes one step per element, because its argument may be the list it     *)
(* extends.  The methods that only read (length, count, index_of, get...)  *)
(* have no step.                                                           *)
(***************************************************************************)
EXTENDS Values, Sequences

CONSTANTS Junk,       \* what lies in memory that nothing was written to
          Element,    \* the values that calls are given
          Position,   \* the positions and numbers that calls are given
          Argument,   \* the lists that extend is given
          MaxCount,   \* bound of the model: no longer list is built
          MaxBytes    \* bound of the model: no insert accounts for more

ASSUME ListsAssumption ==
  /\ Junk \notin Value
  /\ Element \subseteq Value /\ Position \subseteq Int
  /\ Argument \subseteq Seq(Value)
  /\ MaxCount \in Nat /\ MaxBytes \in Nat

VARIABLES values, capacity, count,  \* the fields of b_value_arr
          bytes,     \* what vm->bytes_allocated holds for it, in slots
          pc,        \* "ready", or "extending" inside of extend
          argument,  \* the list extend runs over,
          self,      \* or TRUE if that is the list itself,
          cursor,    \* its loop variable i,
          base,      \* and the count when it was called
          answer,    \* what the last call returned
          fate       \* "fine", or "corrupt" once memory was overwritten

array == <<values, capacity, count, bytes>>
extendVars == <<pc, argument, self, cursor, base>>
vars == <<values, capacity, count, bytes, pc, argument, self, cursor, base,
          answer, fate>>

GrowCapacity(c) == IF c < 4 THEN 4 ELSE 2 * c

\* realloc: the old slots, and new ones with whatever was there.
Resized(cap) == [i \in 0 .. cap - 1 |-> IF i < capacity THEN values[i] ELSE Junk]

\* A read at position i, possibly one behind the array.
Slot(i) == IF i < capacity THEN values[i] ELSE Junk

Answer(op, v) == [op |-> op, value |-> v]
Refuse(op) == answer' = [op |-> op, error |-> TRUE] /\ UNCHANGED array

Init ==
  /\ values = [i \in {} |-> Nil] /\ capacity = 0 /\ count = 0 /\ bytes = 0
  /\ pc = "ready" /\ argument = <<>> /\ self = FALSE /\ cursor = 0 /\ base = 0
  /\ answer = Answer("new", Nil) /\ fate = "fine"

Called == pc = "ready" /\ fate = "fine" /\ UNCHANGED <<extendVars, fate>>

\* Faulty: the array grows one write too late.
WriteLate(v) ==
  LET cap == IF capacity < count THEN GrowCapacity(capacity) ELSE capacity
  IN  /\ count < MaxCount
      /\ values' = [Resized(cap) EXCEPT ![count] = v]
      /\ capacity' = cap
      /\ bytes' = bytes + (cap - capacity)
      /\ count' = count + 1

\* write_value_arr.
Write(v) ==
  LET cap == IF capacity < count + 1 THEN GrowCapacity(capacity) ELSE capacity
  IN  /\ count < MaxCount
      /\ values' = [Resized(cap) EXCEPT ![count] = v]
      /\ capacity' = cap
      /\ bytes' = bytes + (cap - capacity)
      /\ count' = count + 1

ListAppend(v) == Called /\ Write(v) /\ answer' = Answer("append", Nil)

\* free_value_arr.
ListClear ==
  /\ Called
  /\ values' = [i \in {} |-> Nil] /\ capacity' = 0 /\ count' = 0
  /\ bytes' = bytes - capacity
  /\ answer' = Answer("clear", Nil)

\* extend, up to its loop.
ExtendStart(s, own) ==
  /\ pc = "ready" /\ fate = "fine"
  /\ own \/ count + Len(s) <= MaxCount
  /\ pc' = "extending"
  /\ argument' = s /\ self' = own /\ cursor' = 0 /\ base' = count
  /\ UNCHANGED <<array, answer, fate>>

Extending == IF self THEN count ELSE Len(argument)

ExtendStep ==
  /\ pc = "extending" /\ cursor < Extending
  /\ Write(IF self THEN values[cursor] ELSE argument[cursor + 1])
  /\ cursor' = cursor + 1
  /\ UNCHANGED <<pc, argument, self, base, answer, fate>>

ExtendDone ==
  /\ pc = "extending" /\ cursor >= Extending
  /\ pc' = "ready" /\ argument' = <<>> /\ self' = FALSE /\ cursor' = 0 /\ base' = 0
  /\ answer' = Answer("extend", Nil)
  /\ UNCHANGED <<array, fate>>

\* The capacity insert_value_arr asks for, and the old size it states.
InsertCapacity(p) ==
  IF capacity <= p THEN GrowCapacity(p)
  ELSE IF capacity < count + 2 THEN GrowCapacity(capacity)
  ELSE capacity

Stated(p) == IF capacity <= p THEN count ELSE capacity

\* Elements move up from p, or the slots between the last one and p get nil.
Inserted(vs, v, p) ==
  [i \in DOMAIN vs |->
     IF i = p THEN v
     ELSE IF i > p /\ i <= count THEN vs[i - 1]
     ELSE IF i < p /\ i >= count THEN Nil
     ELSE vs[i]]

ListInsert(v, p) ==
  /\ Called
  /\ p >= 0 /\ p < MaxCount /\ count < MaxCount
  /\ bytes + (InsertCapacity(p) - Stated(p)) <= MaxBytes
  /\ values' = Inserted(Resized(InsertCapacity(p)), v, p)
  /\ capacity' = InsertCapacity(p)
  /\ bytes' = bytes + (InsertCapacity(p) - Stated(p))
  /\ count' = IF p <= count THEN count + 1 ELSE p + 1
  /\ answer' = Answer("insert", Nil)

\* Nothing keeps p from being negative: the write goes before the array.
ListInsertBefore(p) ==
  /\ pc = "ready" /\ fate = "fine"
  /\ p < 0
  /\ fate' = "corrupt" /\ answer' = Answer("insert", Nil)
  /\ UNCHANGED <<array, extendVars>>

ListPop ==
  /\ Called
  /\ answer' = Answer("pop", IF count > 0 THEN values[count - 1] ELSE Nil)
  /\ count' = IF count > 0 THEN count - 1 ELSE count
  /\ UNCHANGED <<values, capacity, bytes>>

\* n rounds of moving every element down by one: the slot behind the last
\* element is copied n times.
ShiftedDown(n) ==
  [i \in DOMAIN values |->
     IF i < count - n THEN values[i + n]
     ELSE IF i < count THEN Slot(count)
     ELSE values[i]]

\* Faulty: the special case of one element is decided after the copying.
ListShiftRounds(n) ==
  /\ Called
  /\ IF n > count \/ count = 1
       THEN count' = 0 /\ answer' = Answer("shift", Nil) /\ UNCHANGED values
     ELSE IF n > 0
       THEN /\ values' = ShiftedDown(n)
            /\ count' = count - n
            /\ answer' = Answer("shift", IF n = 1 THEN values[0]
                                         ELSE [k \in 1 .. n |-> values[k - 1]])
     ELSE answer' = Answer("shift", Nil) /\ UNCHANGED <<values, count>>
  /\ UNCHANGED <<capacity, bytes>>

ListShift(n) ==
  /\ Called
  /\ IF n >= count \/ count = 1
       THEN count' = 0 /\ answer' = Answer("shift", Nil) /\ UNCHANGED values
     ELSE IF n > 0
       THEN /\ values' = ShiftedDown(n)
            /\ count' = count - n
            /\ answer' = Answer("shift", IF n = 1 THEN values[0]
                                         ELSE [k \in 1 .. n |-> values[k - 1]])
     ELSE answer' = Answer("shift", Nil) /\ UNCHANGED <<values, count>>
  /\ UNCHANGED <<capacity, bytes>>

\* The loop of remove_at, remove and delete: what lies behind upper, the
\* slot behind the last element included, moves down to lower.
Closed(lower, upper) ==
  [i \in DOMAIN values |->
     IF lower <= i /\ i < lower + (count - upper)
       THEN Slot(i + (upper - lower) + 1) ELSE values[i]]

CloseGap(lower, upper) ==
  /\ values' = Closed(lower, upper)
  /\ count' = count - (upper - lower + 1)
  /\ UNCHANGED <<capacity, bytes>>

ListRemoveAt(p) ==
  /\ Called
  /\ IF p < 0 \/ p >= count
       THEN Refuse("remove_at")
       ELSE CloseGap(p, p) /\ answer' = Answer("remove_at", values[p])

ListDelete(lower, upper) ==
  /\ Called
  /\ IF lower < 0 \/ lower >= count \/ upper < lower \/ upper >= count
       THEN Refuse("delete")
       ELSE /\ CloseGap(lower, upper)
            /\ answer' = Answer("delete", upper - lower + 1)

ListRemove(v) ==
  LET hits == {i \in 0 .. count - 1 : values[i] = v}
  IN  /\ Called
      /\ answer' = Answer("remove", Nil)
      /\ \/ hits = {} /\ UNCHANGED array
         \/ \E p \in hits : (\A q \in hits : p <= q) /\ CloseGap(p, p)

\* sort_values, step by step in module Sorting: the slots in use are put
\* into ascending order, the others are left alone.
ListSort ==
  /\ Called
  /\ answer' = Answer("sort", Nil)
  /\ \E p \in [0 .. count - 1 -> 0 .. count - 1] :
       /\ \A i, j \in 0 .. count - 1 : p[i] = p[j] => i = j
       /\ values' = [i \in DOMAIN values |->
                       IF i < count THEN values[p[i]] ELSE values[i]]
       /\ \A i, j \in 0 .. count - 1 :
            i <= j => Rank[values[p[i]]] <= Rank[values[p[j]]]
  /\ UNCHANGED <<capacity, count, bytes>>

\* list[p] = v; a place before the array is outside of the model's values.
Place(p) == IF p < 0 THEN count + p ELSE p

ListSetIndex(p, v) ==
  /\ pc = "ready" /\ fate = "fine"
  /\ UNCHANGED extendVars
  /\ IF Place(p) < count /\ Place(p) > - count
       THEN /\ values' = [values EXCEPT ![Place(p)] = v]
            /\ fate' = IF Place(p) < 0 THEN "corrupt" ELSE "fine"
            /\ answer' = Answer("assign", IF Place(p) < 0 THEN Nil ELSE v)
            /\ UNCHANGED <<capacity, count, bytes>>
       ELSE Refuse("assign") /\ UNCHANGED fate

Next ==
  \/ \E v \in Element : ListAppend(v) \/ ListRemove(v)
  \/ ListClear \/ ListPop \/ ListSort
  \/ \E s \in Argument : ExtendStart(s, FALSE)
  \/ ExtendStart(<<>>, TRUE)
  \/ ExtendStep \/ ExtendDone
  \/ \E v \in Element, p \in Position : ListInsert(v, p) \/ ListSetIndex(p, v)
  \/ \E p \in Position : ListInsertBefore(p) \/ ListShift(p) \/ ListRemoveAt(p)
  \/ \E lower, upper \in Position : ListDelete(lower, upper)

Spec == Init /\ [][Next]_vars
------------------------------------------------------------------------------
(* Properties *)

TypeOK ==
  /\ capacity \in Nat /\ count \in Nat /\ bytes \in Int
  /\ values \in [0 .. capacity - 1 -> Value \cup {Junk}]
  /\ pc \in {"ready", "extending"}
  /\ argument \in Seq(Value) /\ self \in BOOLEAN
  /\ cursor \in Nat /\ base \in Nat
  /\ fate \in {"fine", "corrupt"}

\* The elements: an extend in progress has not happened yet.
ContentsOf(vs, n) == [k \in 1 .. n |-> vs[k - 1]]
Contents == ContentsOf(values, IF pc = "extending" THEN base ELSE count)

\* remove_at, remove, delete and shift read the slot behind the last element,
\* which may lie behind the array; growth leaves slots unwritten; pop and
\* shift leave old values behind.  No such slot is ever taken for an element.
NoJunk ==
  /\ count <= capacity
  /\ \A i \in 0 .. count - 1 : values[i] \in Value

\* While extend runs, the elements it found are in place, and behind them what
\* it has copied of its argument.
ExtendsInOrder ==
  /\ pc = "ready" => argument = <<>> /\ ~ self
  /\ pc = "extending" =>
       /\ fate = "fine"
       /\ count = base + cursor
       /\ self /\ base = 0 => cursor = 0
       /\ ~ self => /\ argument \in Argument
                    /\ cursor <= Len(argument)
                    /\ \A k \in 1 .. cursor : values[base + k - 1] = argument[k]

\* insert_value_arr states the count as the old size when it grows the array
\* (memory.h adds the new size and subtracts the stated one), so the counter
\* behind next_gc drifts upwards; it never falls below what is allocated, or
\* freeing the array would take it below zero, which is huge for a size_t.
NeverOverfreed == bytes >= capacity

\* The inductive invariant of ListsProofs: what the functions of list.c keep
\* between them, in the middle of extend as well.
IInv == TypeOK /\ NoJunk /\ ExtendsInOrder /\ NeverOverfreed

Abstract == INSTANCE AbstractList WITH list <- Contents

\* Whatever the sequence of calls, growth, stale slots and reads behind the
\* array are invisible: list.c implements a sequence of values.  Memory is
\* overwritten by the two calls AbstractList names, and by no other.
ImplementsList == Abstract!ListSpec
==============================================================================
