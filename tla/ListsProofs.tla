----------------------------- MODULE ListsProofs -----------------------------
(***************************************************************************)
(* Proofs about Lists.tla, for any set of values, any arguments and any    *)
(* bounds: the slots in use always hold values, the memory counter never   *)
(* falls below what is allocated, and a list behaves as a sequence.        *)
(***************************************************************************)
EXTENDS Lists, SequenceTheorems, TLAPS

\* A leaf that names no backend is tried with each of these.
USE SMT, Zenon, SMTT(60), SMTT(90)

\* The slots of a reallocated array.
LEMMA ResizedFacts ==
  ASSUME IInv, NEW cap \in Nat, cap >= capacity
  PROVE  /\ Resized(cap) \in [0 .. cap - 1 -> Value \cup {Junk}]
         /\ \A i \in 0 .. count - 1 : Resized(cap)[i] = values[i]
  BY DEF IInv, TypeOK, NoJunk, Resized

\* Write puts the value behind the last element and keeps the others.
LEMMA WriteFacts ==
  ASSUME IInv, NEW v \in Value, Write(v)
  PROVE  /\ capacity' \in Nat /\ capacity' >= capacity
         /\ values' \in [0 .. capacity' - 1 -> Value \cup {Junk}]
         /\ count' = count + 1 /\ count' <= capacity'
         /\ \A i \in 0 .. count - 1 : values'[i] = values[i]
         /\ values'[count] = v
         /\ bytes' \in Int /\ bytes' >= capacity'
  <1> DEFINE cap == IF capacity < count + 1 THEN GrowCapacity(capacity) ELSE capacity
  <1>1. cap \in Nat /\ cap >= capacity /\ cap >= count + 1
    BY DEF IInv, TypeOK, NoJunk, GrowCapacity
  <1>2. /\ values' = [Resized(cap) EXCEPT ![count] = v]
        /\ capacity' = cap /\ count' = count + 1
        /\ bytes' = bytes + (cap - capacity)
    BY DEF Write
  <1> HIDE DEF cap
  <1>3. /\ Resized(cap) \in [0 .. cap - 1 -> Value \cup {Junk}]
        /\ \A i \in 0 .. count - 1 : Resized(cap)[i] = values[i]
    BY <1>1, ResizedFacts
  <1>4. count \in 0 .. cap - 1
    BY <1>1 DEF IInv, TypeOK
  <1> QED
    BY <1>1, <1>2, <1>3, <1>4 DEF IInv, TypeOK, NeverOverfreed

\* The elements after a write are the old ones and the new one.
LEMMA WriteNoJunk ==
  ASSUME IInv, NEW v \in Value, Write(v)
  PROVE  NoJunk'
  <1>1. \A i \in 0 .. count - 1 : values[i] \in Value
    BY DEF IInv, NoJunk
  <1> QED
    BY <1>1, WriteFacts DEF IInv, TypeOK, NoJunk

\* insert leaves an array of values.
LEMMA InsertFacts ==
  ASSUME IInv, NEW v \in Value, NEW p \in Position, ListInsert(v, p)
  PROVE  /\ capacity' \in Nat /\ capacity' >= capacity
         /\ values' \in [0 .. capacity' - 1 -> Value \cup {Junk}]
         /\ count' \in Nat /\ count' <= capacity'
         /\ count' = IF p <= count THEN count + 1 ELSE p + 1
         /\ p \in Nat /\ p < count'
         /\ values'[p] = v
         /\ \A i \in 0 .. count - 1 : i < p => values'[i] = values[i]
         /\ \A i \in 0 .. count - 1 : i >= p => values'[i + 1] = values[i]
         /\ \A i \in Nat : count <= i /\ i < p => values'[i] = Nil
         /\ bytes' \in Int /\ bytes' >= capacity'
  <1> DEFINE cap == InsertCapacity(p)
             old == Resized(cap)
  <1>1. p \in Int /\ p >= 0
    BY ListsAssumption DEF ListInsert
  <1>2. /\ cap \in Nat /\ cap >= capacity
        /\ cap > p /\ cap > count
        /\ Stated(p) \in Nat /\ Stated(p) <= capacity
    BY <1>1 DEF IInv, TypeOK, NoJunk, InsertCapacity, GrowCapacity, Stated
  <1>3. /\ old \in [0 .. cap - 1 -> Value \cup {Junk}]
        /\ \A i \in 0 .. count - 1 : old[i] = values[i]
    BY <1>2, ResizedFacts
  <1>4. /\ values' = Inserted(old, v, p)
        /\ capacity' = cap
        /\ bytes' = bytes + (cap - Stated(p))
        /\ count' = IF p <= count THEN count + 1 ELSE p + 1
    BY DEF ListInsert
  <1> HIDE DEF cap, old
  <1>5. values' = [i \in 0 .. cap - 1 |->
                     IF i = p THEN v
                     ELSE IF i > p /\ i <= count THEN old[i - 1]
                     ELSE IF i < p /\ i >= count THEN Nil
                     ELSE old[i]]
    BY <1>3, <1>4 DEF Inserted
  <1>6. count \in Nat /\ bytes \in Int /\ bytes >= capacity /\ capacity \in Nat
    BY DEF IInv, TypeOK, NeverOverfreed
  <1>7. values' \in [0 .. cap - 1 -> Value \cup {Junk}]
    <2> SUFFICES ASSUME NEW i \in 0 .. cap - 1
                 PROVE  (IF i = p THEN v
                         ELSE IF i > p /\ i <= count THEN old[i - 1]
                         ELSE IF i < p /\ i >= count THEN Nil
                         ELSE old[i]) \in Value \cup {Junk}
      BY <1>5
    <2>1. i > p /\ i <= count => i - 1 \in 0 .. cap - 1
      BY <1>1, <1>2, <1>6
    <2> QED
      BY <2>1, <1>3, ValuesAssumption
  <1>8. values'[p] = v
    BY <1>1, <1>2, <1>5
  <1>9. \A i \in 0 .. count - 1 : i < p => values'[i] = values[i]
    BY <1>1, <1>2, <1>3, <1>5, <1>6
  <1>10. \A i \in 0 .. count - 1 : i >= p => values'[i + 1] = values[i]
    BY <1>1, <1>2, <1>3, <1>5, <1>6
  <1>11. \A i \in Nat : count <= i /\ i < p => values'[i] = Nil
    BY <1>1, <1>2, <1>5, <1>6
  <1>12. bytes' \in Int /\ bytes' >= capacity'
    BY <1>2, <1>4, <1>6
  <1> QED
    BY <1>1, <1>2, <1>4, <1>6, <1>7, <1>8, <1>9, <1>10, <1>11, <1>12

\* Closing a gap moves what is behind it down to it; the slots that drop out
\* of use may get anything.
LEMMA CloseGapFacts ==
  ASSUME IInv, NEW lower \in Int, NEW upper \in Int,
         0 <= lower, lower <= upper, upper < count, CloseGap(lower, upper)
  PROVE  /\ capacity' = capacity /\ bytes' = bytes
         /\ count' = count - (upper - lower + 1) /\ count' \in Nat
         /\ values' \in [0 .. capacity - 1 -> Value \cup {Junk}]
         /\ \A i \in 0 .. count' - 1 :
              values'[i] = IF i < lower THEN values[i]
                           ELSE values[i + (upper - lower) + 1]
  <1>1. /\ count \in Nat /\ capacity \in Nat /\ count <= capacity
        /\ values \in [0 .. capacity - 1 -> Value \cup {Junk}]
    BY DEF IInv, TypeOK, NoJunk
  <1>2. values' = [i \in 0 .. capacity - 1 |->
                     IF lower <= i /\ i < lower + (count - upper)
                       THEN Slot(i + (upper - lower) + 1) ELSE values[i]]
    BY <1>1 DEF CloseGap, Closed
  <1>3. \A i \in Nat : Slot(i) \in Value \cup {Junk}
    BY <1>1 DEF Slot
  <1>4. values' \in [0 .. capacity - 1 -> Value \cup {Junk}]
    BY <1>1, <1>2, <1>3
  <1>5. count' = count - (upper - lower + 1) /\ count' \in Nat
    BY <1>1 DEF CloseGap
  <1>6. ASSUME NEW i \in 0 .. count' - 1
        PROVE  values'[i] = IF i < lower THEN values[i]
                            ELSE values[i + (upper - lower) + 1]
    BY <1>1, <1>2, <1>5 DEF Slot
  <1> QED
    BY <1>4, <1>5, <1>6 DEF CloseGap

\* shift moves what it leaves down to the front.
LEMMA ShiftFacts ==
  ASSUME IInv, NEW n \in Int, 0 < n, n < count, values' = ShiftedDown(n)
  PROVE  /\ values' \in [0 .. capacity - 1 -> Value \cup {Junk}]
         /\ \A i \in 0 .. count - n - 1 : values'[i] = values[i + n]
  <1>1. /\ count \in Nat /\ capacity \in Nat /\ count <= capacity
        /\ values \in [0 .. capacity - 1 -> Value \cup {Junk}]
    BY DEF IInv, TypeOK, NoJunk
  <1>2. values' = [i \in 0 .. capacity - 1 |->
                     IF i < count - n THEN values[i + n]
                     ELSE IF i < count THEN Slot(count)
                     ELSE values[i]]
    BY <1>1 DEF ShiftedDown
  <1>3. Slot(count) \in Value \cup {Junk}
    BY <1>1 DEF Slot
  <1>4. values' \in [0 .. capacity - 1 -> Value \cup {Junk}]
    BY <1>1, <1>2, <1>3
  <1>5. ASSUME NEW i \in 0 .. count - n - 1
        PROVE  values'[i] = values[i + n]
    <2>1. i \in 0 .. capacity - 1 /\ i < count - n
      BY <1>1
    <2> QED
      BY <2>1, <1>2
  <1> QED
    BY <1>4, <1>5

\* A sorted list has the same elements in other slots.
LEMMA SortFacts ==
  ASSUME IInv, ListSort
  PROVE  /\ capacity' = capacity /\ count' = count /\ bytes' = bytes
         /\ values' \in [0 .. capacity - 1 -> Value \cup {Junk}]
         /\ \E p \in [0 .. count - 1 -> 0 .. count - 1] :
              /\ \A i, j \in 0 .. count - 1 : p[i] = p[j] => i = j
              /\ \A i \in 0 .. count - 1 : values'[i] = values[p[i]]
  <1>1. /\ count \in Nat /\ capacity \in Nat /\ count <= capacity
        /\ values \in [0 .. capacity - 1 -> Value \cup {Junk}]
    BY DEF IInv, TypeOK, NoJunk
  <1>2. PICK p \in [0 .. count - 1 -> 0 .. count - 1] :
          /\ \A i, j \in 0 .. count - 1 : p[i] = p[j] => i = j
          /\ values' = [i \in DOMAIN values |->
                          IF i < count THEN values[p[i]] ELSE values[i]]
    BY Zenon DEF ListSort
  <1>3. \A i \in 0 .. count - 1 : p[i] \in 0 .. capacity - 1
    BY <1>1
  <1>4. values' \in [0 .. capacity - 1 -> Value \cup {Junk}]
    BY <1>1, <1>2, <1>3
  <1>5. \A i \in 0 .. count - 1 : values'[i] = values[p[i]]
    BY <1>1, <1>2
  <1> QED
    BY Zenon, <1>2, <1>4, <1>5 DEF ListSort

\* An empty list.
LEMMA InitIInv == Init => IInv
  <1> SUFFICES ASSUME Init PROVE IInv
    OBVIOUS
  <1>1. values \in [0 .. capacity - 1 -> Value \cup {Junk}]
    <2>1. 0 .. capacity - 1 = {}
      BY DEF Init
    <2> QED
      BY <2>1 DEF Init
  <1>2. TypeOK
    <2>1. argument \in Seq(Value)
      BY DEF Init
    <2>2. capacity \in Nat /\ count \in Nat /\ bytes \in Int
      BY DEF Init
    <2>3. cursor \in Nat /\ base \in Nat
      BY DEF Init
    <2>4. pc \in {"ready", "extending"} /\ fate \in {"fine", "corrupt"}
      BY DEF Init
    <2>5. self \in BOOLEAN
      BY Zenon DEF Init
    <2> QED
      BY <1>1, <2>1, <2>2, <2>3, <2>4, <2>5 DEF TypeOK
  <1>3. NoJunk /\ ExtendsInOrder /\ NeverOverfreed
    BY DEF Init, NoJunk, ExtendsInOrder, NeverOverfreed
  <1> QED
    BY <1>2, <1>3 DEF IInv

\* What every call outside of extend leaves alone.
LEMMA CalledIInv ==
  ASSUME IInv, Called,
         capacity' \in Nat, count' \in Nat, bytes' \in Int,
         values' \in [0 .. capacity' - 1 -> Value \cup {Junk}],
         NoJunk', NeverOverfreed'
  PROVE  IInv'
  BY Zenon DEF IInv, Called, extendVars, TypeOK, ExtendsInOrder

\* A call that leaves the array alone.
LEMMA SameArray ==
  ASSUME IInv, UNCHANGED array, UNCHANGED extendVars, pc = "ready",
         fate' \in {"fine", "corrupt"}
  PROVE  IInv'
  BY DEF IInv, array, extendVars, TypeOK, NoJunk, ExtendsInOrder, NeverOverfreed

\* remove, remove_at and delete, once they found what to take out.
LEMMA CloseGapIInv ==
  ASSUME IInv, Called, NEW lower \in Int, NEW upper \in Int,
         0 <= lower, lower <= upper, upper < count, CloseGap(lower, upper)
  PROVE  IInv'
  <1>1. /\ count \in Nat /\ capacity \in Nat /\ count <= capacity
        /\ \A i \in 0 .. count - 1 : values[i] \in Value
    BY DEF IInv, TypeOK, NoJunk
  <1>2. NoJunk'
    <2>1. count' = count - (upper - lower + 1) /\ capacity' = capacity
      BY CloseGapFacts
    <2>2. ASSUME NEW i \in 0 .. count' - 1 PROVE values'[i] \in Value
      <3>1. i \in 0 .. count - 1 /\ i + (upper - lower) + 1 \in 0 .. count - 1
        BY <1>1, <2>1
      <3>2. values'[i] = IF i < lower THEN values[i]
                         ELSE values[i + (upper - lower) + 1]
        BY CloseGapFacts
      <3> QED
        BY <1>1, <3>1, <3>2
    <2> QED
      BY <1>1, <2>1, <2>2 DEF NoJunk
  <1>3. bytes \in Int /\ NeverOverfreed
    BY DEF IInv, TypeOK
  <1> QED
    BY <1>1, <1>2, <1>3, CloseGapFacts, CalledIInv DEF NeverOverfreed

\* append.
LEMMA AppendIInv ==
  ASSUME IInv, NEW v \in Value, ListAppend(v)
  PROVE  IInv'
  <1>1. Called /\ Write(v) /\ count \in Nat
    BY DEF ListAppend, IInv, TypeOK
  <1> QED
    BY <1>1, WriteFacts, WriteNoJunk, CalledIInv DEF NeverOverfreed

\* remove.
LEMMA RemoveIInv ==
  ASSUME IInv, NEW v \in Value, ListRemove(v)
  PROVE  IInv'
  <1>1. CASE UNCHANGED array
    BY <1>1, SameArray DEF ListRemove, Called, IInv, TypeOK
  <1>2. CASE ~ UNCHANGED array
    <2>1. PICK p \in 0 .. count - 1 : CloseGap(p, p)
      BY <1>2 DEF ListRemove
    <2>2. p \in Int /\ 0 <= p /\ p < count /\ Called
      BY DEF ListRemove, IInv, TypeOK
    <2> QED
      BY <2>1, <2>2, CloseGapIInv
  <1> QED
    BY <1>1, <1>2

\* clear.
LEMMA ClearIInv == ASSUME IInv, ListClear PROVE IInv'
  <1>1. NoJunk' /\ NeverOverfreed'
    BY DEF ListClear, NoJunk, NeverOverfreed, IInv, TypeOK
  <1> QED
    BY <1>1, CalledIInv DEF ListClear, IInv, TypeOK

\* pop.
LEMMA PopIInv == ASSUME IInv, ListPop PROVE IInv'
  <1>1. NoJunk' /\ NeverOverfreed'
    BY DEF ListPop, NoJunk, NeverOverfreed, IInv, TypeOK
  <1> QED
    BY <1>1, CalledIInv DEF ListPop, IInv, TypeOK

\* sort.
LEMMA SortIInv == ASSUME IInv, ListSort PROVE IInv'
  <1>1. PICK p \in [0 .. count - 1 -> 0 .. count - 1] :
          \A i \in 0 .. count - 1 : values'[i] = values[p[i]]
    BY SortFacts
  <1>2. NoJunk'
    BY <1>1, SortFacts DEF NoJunk, IInv
  <1> QED
    BY Zenon, <1>2, SortFacts, CalledIInv DEF ListSort, IInv, TypeOK, NeverOverfreed

\* insert at a position that is not negative.
LEMMA InsertIInv ==
  ASSUME IInv, NEW v \in Value, NEW p \in Position, ListInsert(v, p)
  PROVE  IInv'
  <1>1. /\ count \in Nat /\ \A i \in 0 .. count - 1 : values[i] \in Value
    BY DEF IInv, TypeOK, NoJunk
  <1>2. ASSUME NEW i \in 0 .. count' - 1 PROVE values'[i] \in Value
    <2>1. CASE i = p
      BY <2>1, InsertFacts
    <2>2. CASE i < p /\ i < count
      BY <2>2, <1>1, InsertFacts
    <2>3. CASE i < p /\ i >= count
      BY <2>3, InsertFacts, ValuesAssumption
    <2>4. CASE i > p
      <3>1. i - 1 \in 0 .. count - 1 /\ i - 1 >= p
        BY <2>4, <1>1, InsertFacts
      <3> QED
        BY <3>1, <1>1, InsertFacts
    <2> QED
      BY <2>1, <2>2, <2>3, <2>4, <1>1, InsertFacts
  <1>3. NoJunk'
    BY <1>2, InsertFacts DEF NoJunk
  <1> QED
    BY <1>3, InsertFacts, CalledIInv DEF ListInsert, NeverOverfreed

\* shift.
LEMMA ShiftIInv ==
  ASSUME IInv, NEW n \in Position, ListShift(n)
  PROVE  IInv'
  <1>1. n \in Int /\ count \in Nat /\ Called
    BY ListsAssumption DEF IInv, TypeOK, ListShift
  <1>2. CASE n >= count \/ count = 1
    <2>1. count' = 0 /\ UNCHANGED <<values, capacity, bytes>>
      BY <1>2 DEF ListShift
    <2>2. NoJunk' /\ NeverOverfreed'
      BY <2>1 DEF NoJunk, NeverOverfreed, IInv, TypeOK
    <2> QED
      BY <1>1, <2>1, <2>2, CalledIInv DEF IInv, TypeOK
  <1>3. CASE n < count /\ count # 1 /\ n > 0
    <2>1. /\ values' = ShiftedDown(n) /\ count' = count - n
          /\ UNCHANGED <<capacity, bytes>>
      BY <1>1, <1>3 DEF ListShift
    <2>2. /\ values' \in [0 .. capacity - 1 -> Value \cup {Junk}]
          /\ \A i \in 0 .. count - n - 1 : values'[i] = values[i + n]
      BY <1>1, <1>3, <2>1, ShiftFacts
    <2>3. NoJunk' /\ NeverOverfreed'
      BY <1>1, <1>3, <2>1, <2>2 DEF NoJunk, NeverOverfreed, IInv, TypeOK
    <2> QED
      BY <1>1, <1>3, <2>1, <2>2, <2>3, CalledIInv DEF IInv, TypeOK
  <1>4. CASE n < count /\ count # 1 /\ n <= 0
    BY <1>1, <1>4, SameArray DEF ListShift, Called, array, IInv, TypeOK
  <1> QED
    BY <1>1, <1>2, <1>3, <1>4

\* list[p] = v, the corrupting one included: it leaves the array alone.
LEMMA SetIndexIInv ==
  ASSUME IInv, NEW v \in Value, NEW p \in Position, ListSetIndex(p, v)
  PROVE  IInv'
  <1>1. Place(p) \in Int
    BY ListsAssumption DEF Place, IInv, TypeOK
  <1>2. CASE Place(p) < count /\ Place(p) > - count
    <2>1. /\ values' = [values EXCEPT ![Place(p)] = v]
          /\ fate' \in {"fine", "corrupt"}
          /\ UNCHANGED <<capacity, count, bytes>>
          /\ UNCHANGED extendVars /\ pc = "ready"
      BY <1>2 DEF ListSetIndex
    <2>2. NoJunk' /\ NeverOverfreed'
      BY <2>1, <1>1 DEF NoJunk, NeverOverfreed, IInv, TypeOK
    <2> QED
      BY Zenon, <2>1, <2>2 DEF IInv, TypeOK, ExtendsInOrder, extendVars
  <1>3. CASE ~ (Place(p) < count /\ Place(p) > - count)
    BY <1>3, SameArray DEF ListSetIndex, Refuse, IInv, TypeOK
  <1> QED
    BY <1>2, <1>3

\* One element copied: the array may grow, the elements found stay in place.
LEMMA ExtendStepIInv == ASSUME IInv, ExtendStep PROVE IInv'
  <1> DEFINE v == IF self THEN values[cursor] ELSE argument[cursor + 1]
  <1>1. /\ pc = "extending" /\ Write(v)
        /\ cursor' = cursor + 1
        /\ UNCHANGED <<pc, argument, self, base, answer, fate>>
        /\ cursor < (IF self THEN count ELSE Len(argument))
    BY DEF ExtendStep, Extending
  <1>2. /\ cursor \in Nat /\ count \in Nat /\ base \in Nat
        /\ argument \in Seq(Value) /\ self \in BOOLEAN
        /\ count = base + cursor /\ fate = "fine"
    BY <1>1 DEF IInv, TypeOK, ExtendsInOrder
  <1>3. v \in Value
    BY <1>1, <1>2 DEF IInv, NoJunk
  <1> HIDE DEF v
  <1>4. TypeOK'
    BY <1>1, <1>2, <1>3, WriteFacts DEF IInv, TypeOK
  <1>5. ASSUME ~ self'
        PROVE  /\ argument' \in Argument
               /\ cursor' <= Len(argument')
               /\ \A k \in 1 .. cursor' : values'[base' + k - 1] = argument'[k]
    <2>1. /\ argument \in Argument /\ cursor + 1 <= Len(argument)
          /\ \A k \in 1 .. cursor : values[base + k - 1] = argument[k]
      BY <1>1, <1>2, <1>5 DEF IInv, ExtendsInOrder
    <2>2. v = argument[cursor + 1]
      BY <1>1, <1>5 DEF v
    <2>3. /\ \A i \in 0 .. count - 1 : values'[i] = values[i]
          /\ values'[count] = v
      BY <1>1, <1>3, WriteFacts
    <2>4. ASSUME NEW k \in 1 .. cursor + 1
          PROVE  values'[base + k - 1] = argument[k]
      <3>1. CASE k = cursor + 1
        BY <3>1, <1>2, <2>2, <2>3
      <3>2. CASE k # cursor + 1
        BY <3>2, <1>2, <2>1, <2>3
      <3> QED
        BY <3>1, <3>2
    <2> QED
      BY <1>1, <2>1, <2>4
  <1>6. ExtendsInOrder'
    BY <1>1, <1>2, <1>3, <1>5, WriteFacts DEF ExtendsInOrder
  <1> QED
    BY <1>1, <1>3, <1>4, <1>6, WriteFacts, WriteNoJunk DEF IInv, NeverOverfreed

\* The call of extend.
LEMMA ExtendStartIInv ==
  ASSUME IInv, NEW s \in Seq(Value), NEW own \in BOOLEAN, ExtendStart(s, own),
         own \/ s \in Argument
  PROVE  IInv'
  <1>1. TypeOK' /\ NoJunk' /\ NeverOverfreed'
    BY DEF IInv, ExtendStart, array, TypeOK, NoJunk, NeverOverfreed
  <1>2. ExtendsInOrder'
    BY DEF IInv, ExtendStart, array, TypeOK, ExtendsInOrder
  <1> QED
    BY <1>1, <1>2 DEF IInv

\* The return of extend.
LEMMA ExtendDoneIInv == ASSUME IInv, ExtendDone PROVE IInv'
  <1>1. argument' \in Seq(Value)
    BY DEF ExtendDone
  <1>2. TypeOK' /\ NoJunk' /\ NeverOverfreed'
    BY Zenon, <1>1 DEF IInv, ExtendDone, array, TypeOK, NoJunk, NeverOverfreed
  <1>3. ExtendsInOrder'
    BY DEF ExtendDone, ExtendsInOrder
  <1> QED
    BY <1>2, <1>3 DEF IInv

\* Every step preserves the invariant.
LEMMA StepIInv == IInv /\ [Next]_vars => IInv'
  <1> SUFFICES ASSUME IInv, [Next]_vars PROVE IInv'
    OBVIOUS
  <1>1. CASE UNCHANGED vars
    BY <1>1 DEF vars, IInv, TypeOK, NoJunk, ExtendsInOrder, NeverOverfreed
  <1>2. CASE \E v \in Element : ListAppend(v) \/ ListRemove(v)
    BY <1>2, AppendIInv, RemoveIInv, ListsAssumption
  <1>3. CASE ListClear \/ ListPop \/ ListSort
    BY <1>3, ClearIInv, PopIInv, SortIInv
  <1>4. CASE \E s \in Argument : ExtendStart(s, FALSE)
    BY Zenon, <1>4, ExtendStartIInv, ListsAssumption
  <1>5. CASE ExtendStart(<<>>, TRUE)
    <2>1. <<>> \in Seq(Value)
      OBVIOUS
    <2> QED
      BY Zenon, <1>5, <2>1, ExtendStartIInv
  <1>6. CASE ExtendStep \/ ExtendDone
    BY <1>6, ExtendStepIInv, ExtendDoneIInv
  <1>7. CASE \E v \in Element, p \in Position : ListInsert(v, p) \/ ListSetIndex(p, v)
    BY <1>7, InsertIInv, SetIndexIInv, ListsAssumption
  <1>8. CASE \E p \in Position : ListInsertBefore(p)
    BY <1>8, SameArray DEF ListInsertBefore
  <1>9. CASE \E p \in Position : ListShift(p)
    BY <1>9, ShiftIInv
  <1>10. CASE \E p \in Position : ListRemoveAt(p)
    <2>1. PICK p \in Position : ListRemoveAt(p)
      BY <1>10
    <2>2. p \in Int /\ Called /\ count \in Nat
      BY <2>1, ListsAssumption DEF ListRemoveAt, IInv, TypeOK
    <2>3. CASE p < 0 \/ p >= count
      BY <2>1, <2>2, <2>3, SameArray DEF ListRemoveAt, Refuse, Called
    <2>4. CASE 0 <= p /\ p < count
      BY <2>1, <2>2, <2>4, CloseGapIInv DEF ListRemoveAt
    <2> QED
      BY <2>2, <2>3, <2>4
  <1>11. CASE \E lower, upper \in Position : ListDelete(lower, upper)
    <2>1. PICK lower, upper \in Position : ListDelete(lower, upper)
      BY <1>11
    <2>2. lower \in Int /\ upper \in Int /\ Called /\ count \in Nat
      BY <2>1, ListsAssumption DEF ListDelete, IInv, TypeOK
    <2>3. CASE lower < 0 \/ lower >= count \/ upper < lower \/ upper >= count
      BY <2>1, <2>2, <2>3, SameArray DEF ListDelete, Refuse, Called
    <2>4. CASE ~ (lower < 0 \/ lower >= count \/ upper < lower \/ upper >= count)
      BY <2>1, <2>2, <2>4, CloseGapIInv DEF ListDelete
    <2> QED
      BY <2>3, <2>4
  <1> QED
    BY Zenon, <1>1, <1>2, <1>3, <1>4, <1>5, <1>6, <1>7, <1>8, <1>9, <1>10, <1>11 DEF Next

\* The inductive invariant holds of every reachable state.
THEOREM Invariance == Spec => []IInv
  BY InitIInv, StepIInv, PTL DEF Spec

\* No slot that was never written, or that lies behind the array, is ever
\* taken for an element, and the elements fit into the array (list.c,
\* write_value_arr and insert_value_arr).
THEOREM ElementsAreValues == Spec => []NoJunk
  BY Invariance, PTL DEF IInv

\* The memory counted for the array covers it, so that freeing it cannot take
\* the counter of the virtual machine below zero.
THEOREM CounterCovers == Spec => []NeverOverfreed
  BY Invariance, PTL DEF IInv

(***************************************************************************)
(* Refinement.  Facts about sequences first.                               *)
(***************************************************************************)
\* The elements read off an array.
LEMMA ContentsFacts ==
  ASSUME NEW vs, NEW n \in Nat, \A i \in 0 .. n - 1 : vs[i] \in Value
  PROVE  /\ ContentsOf(vs, n) \in Seq(Value)
         /\ Len(ContentsOf(vs, n)) = n
         /\ \A k \in 1 .. n : ContentsOf(vs, n)[k] = vs[k - 1]
  <1>1. \A k \in 1 .. n : vs[k - 1] \in Value
    OBVIOUS
  <1> QED
    BY <1>1, IsASeq DEF ContentsOf

\* A sequence without its elements from lower to upper.
LEMMA CutSeq ==
  ASSUME NEW c \in Seq(Value), NEW d \in Seq(Value),
         NEW lower \in Int, NEW upper \in Int,
         0 <= lower, lower <= upper, upper < Len(c),
         Len(d) = Len(c) - (upper - lower + 1),
         \A k \in 1 .. Len(d) :
            d[k] = IF k <= lower THEN c[k] ELSE c[k + (upper - lower) + 1]
  PROVE  d = SubSeq(c, 1, lower) \o SubSeq(c, upper + 2, Len(c))
  <1> DEFINE s == SubSeq(c, 1, lower)
             t == SubSeq(c, upper + 2, Len(c))
  <1>1. /\ s \in Seq(Value) /\ Len(s) = lower
        /\ \A k \in 1 .. lower : s[k] = c[k]
    BY SMTT(30), SMTT(60), SMTT(90), SubSeqProperties
  <1>2. /\ t \in Seq(Value) /\ Len(t) = Len(c) - upper - 1
        /\ \A k \in 1 .. Len(c) - upper - 1 : t[k] = c[upper + 1 + k]
    <2>1. Len(c) \in Nat /\ \A i \in upper + 2 .. Len(c) : c[i] \in Value
      OBVIOUS
    <2> QED
      BY SMTT(30), SMTT(60), SMTT(90), <2>1, SubSeqProperties
  <1> HIDE DEF s, t
  <1>3. /\ s \o t \in Seq(Value)
        /\ Len(s \o t) = Len(s) + Len(t)
        /\ \A k \in 1 .. Len(s) + Len(t) :
             (s \o t)[k] = IF k <= Len(s) THEN s[k] ELSE t[k - Len(s)]
    BY Zenon, <1>1, <1>2, ConcatProperties
  <1>L. Len(s) = lower /\ Len(s) + Len(t) = Len(d)
    BY <1>1, <1>2
  <1>4. ASSUME NEW k \in 1 .. Len(d) PROVE d[k] = (s \o t)[k]
    <2>0. k \in Int /\ Len(d) \in Nat /\ Len(c) \in Nat
      OBVIOUS
    <2>C. (s \o t)[k] = IF k <= lower THEN s[k] ELSE t[k - lower]
      BY <1>3, <1>L
    <2>1. CASE k <= lower
      <3>1. k \in 1 .. lower
        BY <2>0, <2>1
      <3>2. s[k] = c[k]
        BY <3>1, <1>1
      <3>3. d[k] = c[k]
        BY <2>1
      <3> QED
        BY <2>C, <2>1, <3>2, <3>3
    <2>2. CASE k > lower
      <3>1. ~ (k <= lower)
        BY <2>0, <2>2
      <3>2. k - lower \in 1 .. Len(c) - upper - 1
        BY <2>2
      <3>3. t[k - lower] = c[upper + 1 + (k - lower)]
        BY Zenon, <3>2, <1>2
      <3>4. d[k] = c[k + (upper - lower) + 1]
        BY <2>2
      <3>5. upper + 1 + (k - lower) = k + (upper - lower) + 1
        OBVIOUS
      <3> QED
        BY <2>C, <3>1, <3>3, <3>4, <3>5
    <2>3. k <= lower \/ k > lower
      BY <2>0
    <2> QED
      BY <2>1, <2>2, <2>3, Zenon
  <1>5. d = s \o t
    BY Zenon, <1>3, <1>4, <1>L, SeqEqual
  <1> QED
    BY <1>5 DEF s, t

\* A sequence with v between its first p elements and the others.
LEMMA InsertSeq ==
  ASSUME NEW c \in Seq(Value), NEW d \in Seq(Value), NEW v \in Value,
         NEW p \in Nat, p <= Len(c),
         Len(d) = Len(c) + 1, d[p + 1] = v,
         \A k \in 1 .. Len(c) : d[IF k <= p THEN k ELSE k + 1] = c[k]
  PROVE  d = Append(SubSeq(c, 1, p), v) \o SubSeq(c, p + 1, Len(c))
  <1> DEFINE s == SubSeq(c, 1, p)
             u == Append(s, v)
             t == SubSeq(c, p + 1, Len(c))
  <1>1. /\ s \in Seq(Value) /\ Len(s) = p
        /\ \A k \in 1 .. p : s[k] = c[k]
    BY SubSeqProperties
  <1>2. /\ t \in Seq(Value) /\ Len(t) = Len(c) - p
        /\ \A k \in 1 .. Len(c) - p : t[k] = c[p + k]
    <2>1. Len(c) \in Nat /\ \A i \in p + 1 .. Len(c) : c[i] \in Value
      OBVIOUS
    <2> QED
      BY <2>1, SubSeqProperties
  <1>3. /\ u \in Seq(Value) /\ Len(u) = p + 1 /\ u[p + 1] = v
        /\ \A k \in 1 .. p : u[k] = c[k]
    BY <1>1, AppendProperties
  <1> HIDE DEF s, t, u
  <1>4. /\ u \o t \in Seq(Value)
        /\ Len(u \o t) = Len(u) + Len(t)
        /\ \A k \in 1 .. Len(u) + Len(t) :
             (u \o t)[k] = IF k <= Len(u) THEN u[k] ELSE t[k - Len(u)]
    BY Zenon, <1>2, <1>3, ConcatProperties
  <1>L. Len(u) + Len(t) = Len(d)
    BY <1>2, <1>3
  <1>5. ASSUME NEW k \in 1 .. Len(d) PROVE d[k] = (u \o t)[k]
    <2>0. k \in Int
      OBVIOUS
    <2>1. CASE k <= p
      <3>1. (u \o t)[k] = u[k]
        BY <2>1, <1>3, <1>4, <1>L
      <3>2. d[k] = c[k]
        BY <2>1
      <3> QED
        BY <3>1, <3>2, <2>1, <1>3
    <2>2. CASE k = p + 1
      BY <2>2, <1>3, <1>4, <1>L
    <2>3. CASE k > p + 1
      <3>1. k - 1 \in 1 .. Len(c) /\ k - 1 > p
        BY <2>3
      <3>2. d[IF k - 1 <= p THEN k - 1 ELSE (k - 1) + 1] = c[k - 1]
        BY <3>1
      <3>3. d[k] = c[k - 1]
        BY <3>1, <3>2
      <3>4. (u \o t)[k] = t[k - (p + 1)]
        BY <2>3, <1>3, <1>4, <1>L
      <3>5. k - (p + 1) \in 1 .. Len(c) - p
        BY <2>3
      <3>6. t[k - (p + 1)] = c[p + (k - (p + 1))]
        BY <3>5, <1>2
      <3>7. p + (k - (p + 1)) = k - 1
        OBVIOUS
      <3> QED
        BY <3>3, <3>4, <3>6, <3>7
    <2>4. k <= p \/ k = p + 1 \/ k > p + 1
      BY <2>0
    <2> QED
      BY <2>1, <2>2, <2>3, <2>4, Zenon
  <1>6. d = u \o t
    BY <1>4, <1>5, <1>L, SeqEqual
  <1> QED
    BY <1>6 DEF s, t, u

\* A sequence filled up with nil to length p, and v.
LEMMA PadSeq ==
  ASSUME NEW c \in Seq(Value), NEW d \in Seq(Value), NEW v \in Value,
         NEW p \in Nat, p > Len(c),
         Len(d) = p + 1, d[p + 1] = v,
         \A k \in 1 .. p : d[k] = IF k <= Len(c) THEN c[k] ELSE Nil
  PROVE  d = Append(c \o [k \in 1 .. p - Len(c) |-> Nil], v)
  <1> DEFINE t == [k \in 1 .. p - Len(c) |-> Nil]
             u == c \o t
  <1>1. /\ t \in Seq(Value) /\ Len(t) = p - Len(c)
        /\ \A k \in 1 .. p - Len(c) : t[k] = Nil
    <2>1. p - Len(c) \in Nat
      OBVIOUS
    <2> QED
      BY <2>1, IsASeq, ValuesAssumption
  <1> HIDE DEF t
  <1>2. /\ u \in Seq(Value) /\ Len(u) = p
        /\ \A k \in 1 .. p : u[k] = IF k <= Len(c) THEN c[k] ELSE t[k - Len(c)]
    BY <1>1, ConcatProperties
  <1> HIDE DEF u
  <1>3. ASSUME NEW k \in 1 .. p PROVE u[k] = d[k]
    <2>1. CASE k <= Len(c)
      BY <2>1, <1>2
    <2>2. CASE k > Len(c)
      <3>1. k - Len(c) \in 1 .. p - Len(c)
        BY <2>2
      <3>2. t[k - Len(c)] = Nil
        BY <3>1, <1>1
      <3> QED
        BY <2>2, <3>2, <1>2
    <2> QED
      BY <2>1, <2>2
  <1>4. /\ Append(u, v) \in Seq(Value) /\ Len(Append(u, v)) = p + 1
        /\ \A k \in 1 .. p : Append(u, v)[k] = u[k]
        /\ Append(u, v)[p + 1] = v
    BY <1>2, AppendProperties
  <1>5. \A k \in 1 .. Len(d) : d[k] = Append(u, v)[k]
    BY <1>3, <1>4
  <1>6. d = Append(u, v)
    BY <1>4, <1>5, SeqEqual
  <1> QED
    BY <1>6 DEF t, u

\* A sequence without its first n elements.
LEMMA TailSeq ==
  ASSUME NEW c \in Seq(Value), NEW d \in Seq(Value), NEW n \in Nat, n <= Len(c),
         Len(d) = Len(c) - n, \A k \in 1 .. Len(d) : d[k] = c[k + n]
  PROVE  d = SubSeq(c, n + 1, Len(c))
  <1>1. Len(c) \in Nat /\ \A i \in n + 1 .. Len(c) : c[i] \in Value
    OBVIOUS
  <1>2. /\ SubSeq(c, n + 1, Len(c)) \in Seq(Value)
        /\ Len(SubSeq(c, n + 1, Len(c))) = Len(c) - n
        /\ \A k \in 1 .. Len(c) - n : SubSeq(c, n + 1, Len(c))[k] = c[n + k]
    BY <1>1, SubSeqProperties
  <1> QED
    BY <1>2, SeqEqual

\* The first n elements of a sequence.
LEMMA PrefixSeq ==
  ASSUME NEW c \in Seq(Value), NEW d \in Seq(Value), NEW n \in Nat, n <= Len(c),
         Len(d) = n, \A k \in 1 .. n : d[k] = c[k]
  PROVE  d = SubSeq(c, 1, n)
  <1>1. /\ SubSeq(c, 1, n) \in Seq(Value) /\ Len(SubSeq(c, 1, n)) = n
        /\ \A k \in 1 .. n : SubSeq(c, 1, n)[k] = c[k]
    BY SubSeqProperties
  <1> QED
    BY <1>1, SeqEqual

(***************************************************************************)
(* Each method does to Contents what AbstractList says.                    *)
(***************************************************************************)
\* Outside of extend, Contents is the array up to count,
LEMMA Elements ==
  ASSUME IInv, pc = "ready"
  PROVE  /\ Contents \in Seq(Value)
         /\ Len(Contents) = count
         /\ \A k \in 1 .. count : Contents[k] = values[k - 1]
  <1>1. count \in Nat /\ \A i \in 0 .. count - 1 : values[i] \in Value
    BY DEF IInv, TypeOK, NoJunk
  <1>2. Contents = ContentsOf(values, count)
    BY DEF Contents
  <1> QED
    BY <1>1, <1>2, ContentsFacts

\* and so it is after the step.
LEMMA ElementsNext ==
  ASSUME IInv', pc' = "ready"
  PROVE  /\ Contents' \in Seq(Value)
         /\ Len(Contents') = count'
         /\ \A k \in 1 .. count' : Contents'[k] = values'[k - 1]
  <1>1. count' \in Nat /\ \A i \in 0 .. count' - 1 : values'[i] \in Value
    BY Zenon DEF IInv, TypeOK, NoJunk
  <1>2. Contents' = ContentsOf(values', count')
    BY DEF Contents, ContentsOf
  <1> QED
    BY Zenon, <1>1, <1>2, ContentsFacts

\* A call that leaves the array alone leaves the elements alone.
LEMMA SameContents ==
  ASSUME pc = "ready", pc' = "ready", UNCHANGED array
  PROVE  Contents' = Contents
  BY DEF Contents, ContentsOf, array

\* append.
LEMMA AppendRefines ==
  ASSUME IInv, IInv', NEW v \in Value, ListAppend(v)
  PROVE  Abstract!Push(v)
  <1> DEFINE c == Contents
             d == Contents'
  <1>1. pc = "ready" /\ pc' = "ready"
    BY DEF ListAppend, Called, extendVars
  <1>2. c \in Seq(Value) /\ Len(c) = count
        /\ \A k \in 1 .. count : c[k] = values[k - 1]
    BY <1>1, Elements
  <1>3. d \in Seq(Value) /\ Len(d) = count'
        /\ \A k \in 1 .. count' : d[k] = values'[k - 1]
    BY <1>1, ElementsNext
  <1>4. /\ count \in Nat /\ count' = count + 1
        /\ values'[count] = v
        /\ \A i \in 0 .. count - 1 : values'[i] = values[i]
    BY Zenon, WriteFacts DEF ListAppend, IInv, TypeOK, NoJunk
  <1> HIDE DEF c, d
  <1>5. /\ Append(c, v) \in Seq(Value) /\ Len(Append(c, v)) = count + 1
        /\ Append(c, v)[count + 1] = v
        /\ \A k \in 1 .. count : Append(c, v)[k] = c[k]
    BY <1>2, AppendProperties
  <1>6. ASSUME NEW k \in 1 .. Len(d) PROVE d[k] = Append(c, v)[k]
    <2>1. CASE k = count + 1
      BY <2>1, <1>3, <1>4, <1>5
    <2>2. CASE k # count + 1
      <3>1. k \in 1 .. count /\ k - 1 \in 0 .. count - 1 /\ k \in 1 .. count'
        BY <2>2, <1>3, <1>4
      <3> QED
        BY <3>1, <1>2, <1>3, <1>4, <1>5
    <2> QED
      BY Zenon, <2>1, <2>2
  <1>7. Len(d) = Len(Append(c, v))
    BY <1>3, <1>4, <1>5
  <1>8. d = Append(c, v)
    BY <1>3, <1>5, <1>6, <1>7, SeqEqual
  <1> QED
    BY <1>8 DEF c, d, ListAppend, Answer, Abstract!Push, Abstract!Answer

\* What remove, remove_at and delete close is cut out of the sequence.
LEMMA CloseGapRefines ==
  ASSUME IInv, IInv', Called, NEW lower \in Int, NEW upper \in Int,
         0 <= lower, lower <= upper, upper < count, CloseGap(lower, upper)
  PROVE  Abstract!Cut(lower, upper)
  <1> DEFINE c == Contents
             d == Contents'
  <1>1. pc = "ready" /\ pc' = "ready"
    BY DEF Called, extendVars
  <1>2. c \in Seq(Value) /\ Len(c) = count
        /\ \A k \in 1 .. count : c[k] = values[k - 1]
    BY <1>1, Elements
  <1>3. d \in Seq(Value) /\ Len(d) = count'
        /\ \A k \in 1 .. count' : d[k] = values'[k - 1]
    BY <1>1, ElementsNext
  <1>4. count \in Nat /\ count' = count - (upper - lower + 1)
    BY DEF CloseGap, IInv, TypeOK
  <1>5. \A i \in 0 .. count' - 1 :
          values'[i] = IF i < lower THEN values[i] ELSE values[i + (upper - lower) + 1]
    BY CloseGapFacts
  <1> HIDE DEF c, d
  <1>6. ASSUME NEW k \in 1 .. Len(d)
        PROVE d[k] = IF k <= lower THEN c[k] ELSE c[k + (upper - lower) + 1]
    <2>1. k - 1 \in 0 .. count' - 1 /\ k \in 1 .. count' /\ k \in Int
      BY <1>3, <1>4
    <2>2. d[k] = values'[k - 1]
      BY <2>1, <1>3
    <2>3. CASE k <= lower
      <3>1. k - 1 < lower /\ k \in 1 .. count
        BY <2>3, <2>1, <1>4
      <3> QED
        BY <3>1, <2>1, <2>2, <2>3, <1>2, <1>5
    <2>4. CASE k > lower
      <3>1. ~ (k - 1 < lower) /\ k + (upper - lower) + 1 \in 1 .. count
        BY <2>4, <2>1, <1>4
      <3>2. values'[k - 1] = values[(k - 1) + (upper - lower) + 1]
        BY Zenon, <3>1, <2>1, <1>5
      <3>3. c[k + (upper - lower) + 1] = values[k + (upper - lower) + 1 - 1]
        BY <3>1, <1>2
      <3>4. (k - 1) + (upper - lower) + 1 = k + (upper - lower) + 1 - 1
        BY <2>1
      <3> QED
        BY <3>2, <3>3, <3>4, <2>2, <2>4, <2>1
    <2> QED
      BY <2>1, <2>3, <2>4
  <1>7. Len(d) = Len(c) - (upper - lower + 1) /\ upper < Len(c)
    BY <1>2, <1>3, <1>4
  <1>8. d = SubSeq(c, 1, lower) \o SubSeq(c, upper + 2, Len(c))
    BY Zenon, <1>2, <1>3, <1>6, <1>7, CutSeq
  <1>9. upper + 1 + 1 = upper + 2
    OBVIOUS
  <1> QED
    BY Zenon, <1>8, <1>9 DEF c, d, Abstract!Cut, Abstract!Before, Abstract!From

\* remove_at.
LEMMA RemoveAtRefines ==
  ASSUME IInv, IInv', NEW p \in Int, ListRemoveAt(p)
  PROVE  Abstract!CutAt(p)
  <1>1. pc = "ready" /\ pc' = "ready" /\ Called
    BY DEF ListRemoveAt, Called, extendVars
  <1>2. Len(Contents) = count /\ \A k \in 1 .. count : Contents[k] = values[k - 1]
    BY <1>1, Elements
  <1>3. count \in Nat
    BY DEF IInv, TypeOK
  <1>4. CASE p < 0 \/ p >= count
    <2>1. ~ Abstract!Within(p)
      BY <1>2, <1>3, <1>4 DEF Abstract!Within
    <2>2. Refuse("remove_at")
      BY <1>4 DEF ListRemoveAt
    <2>3. Contents' = Contents
      BY <1>1, <2>2, SameContents DEF Refuse
    <2> QED
      BY <2>1, <2>2, <2>3 DEF Refuse, Abstract!CutAt, Abstract!Refused
  <1>5. CASE ~ (p < 0 \/ p >= count)
    <2>1. Abstract!Within(p) /\ 0 <= p /\ p < count /\ p <= p
      BY <1>2, <1>3, <1>5 DEF Abstract!Within
    <2>2. CloseGap(p, p) /\ answer' = Answer("remove_at", values[p])
      BY <1>5 DEF ListRemoveAt
    <2>3. Abstract!Cut(p, p)
      BY <1>1, <2>1, <2>2, CloseGapRefines
    <2>4. p + 1 \in 1 .. count /\ p + 1 - 1 = p
      BY <2>1, <1>3
    <2>5. Contents[p + 1] = values[p]
      BY <2>4, <1>2
    <2> QED
      BY <2>1, <2>2, <2>3, <2>5 DEF Answer, Abstract!CutAt, Abstract!Answer
  <1> QED
    BY <1>4, <1>5

\* delete.
LEMMA DeleteRefines ==
  ASSUME IInv, IInv', NEW lower \in Int, NEW upper \in Int,
         ListDelete(lower, upper)
  PROVE  Abstract!CutRange(lower, upper)
  <1>1. pc = "ready" /\ pc' = "ready" /\ Called
    BY DEF ListDelete, Called, extendVars
  <1>2. Len(Contents) = count
    BY <1>1, Elements
  <1>3. count \in Nat
    BY DEF IInv, TypeOK
  <1>4. CASE lower < 0 \/ lower >= count \/ upper < lower \/ upper >= count
    <2>1. ~ (Abstract!Within(lower) /\ Abstract!Within(upper) /\ lower <= upper)
      BY <1>2, <1>3, <1>4 DEF Abstract!Within
    <2>2. Refuse("delete")
      BY <1>4 DEF ListDelete
    <2>3. Contents' = Contents
      BY <1>1, <2>2, SameContents DEF Refuse
    <2> QED
      BY <2>1, <2>2, <2>3 DEF Refuse, Abstract!CutRange, Abstract!Refused
  <1>5. CASE ~ (lower < 0 \/ lower >= count \/ upper < lower \/ upper >= count)
    <2>1. /\ Abstract!Within(lower) /\ Abstract!Within(upper)
          /\ 0 <= lower /\ lower <= upper /\ upper < count
      BY <1>2, <1>3, <1>5 DEF Abstract!Within
    <2>2. CloseGap(lower, upper) /\ answer' = Answer("delete", upper - lower + 1)
      BY <1>5 DEF ListDelete
    <2>3. Abstract!Cut(lower, upper)
      BY <1>1, <2>1, <2>2, CloseGapRefines
    <2> QED
      BY <2>1, <2>2, <2>3 DEF Answer, Abstract!CutRange, Abstract!Answer
  <1> QED
    BY <1>4, <1>5

\* remove.
LEMMA RemoveRefines ==
  ASSUME IInv, IInv', NEW v \in Value, ListRemove(v)
  PROVE  Abstract!CutFirst(v)
  <1> DEFINE hits == {i \in 0 .. count - 1 : values[i] = v}
  <1>1. pc = "ready" /\ pc' = "ready" /\ Called
    BY DEF ListRemove, Called, extendVars
  <1>2. Len(Contents) = count /\ \A k \in 1 .. count : Contents[k] = values[k - 1]
    BY <1>1, Elements
  <1>3. count \in Nat
    BY DEF IInv, TypeOK
  <1>4. answer' = Abstract!Answer("remove", Nil)
    BY DEF ListRemove, Answer, Abstract!Answer
  <1>5. CASE hits = {} /\ UNCHANGED array
    <2>1. Contents' = Contents
      BY <1>1, <1>5, SameContents
    <2>2. ASSUME NEW k \in 1 .. Len(Contents) PROVE Contents[k] # v
      <3>1. k - 1 \in 0 .. count - 1 /\ k \in 1 .. count
        BY <1>2, <1>3
      <3>2. values[k - 1] # v
        BY <3>1, <1>5
      <3> QED
        BY <3>1, <3>2, <1>2
    <2> QED
      BY <1>4, <2>1, <2>2 DEF Abstract!CutFirst
  <1>6. ASSUME NEW p \in hits, \A q \in hits : p <= q, CloseGap(p, p)
        PROVE  Abstract!CutFirst(v)
    <2>1. p \in Int /\ 0 <= p /\ p <= p /\ p < count /\ values[p] = v
      BY <1>3
    <2>2. Abstract!Cut(p, p)
      BY <1>1, <1>6, <2>1, CloseGapRefines
    <2>3. p + 1 \in 1 .. count /\ p + 1 - 1 = p
      BY <2>1, <1>3
    <2>4. Contents[p + 1] = v
      BY <2>1, <2>3, <1>2
    <2>5. ASSUME NEW k \in 1 .. p PROVE Contents[k] # v
      <3>1. k \in 1 .. count /\ k - 1 \in 0 .. count - 1 /\ ~ (p <= k - 1)
        BY <2>1, <1>3
      <3>2. k - 1 \notin hits
        BY <3>1, <1>6
      <3>3. values[k - 1] # v
        BY <3>1, <3>2
      <3> QED
        BY <3>1, <3>3, <1>2
    <2>6. p \in 0 .. Len(Contents) - 1
      BY <2>1, <1>2, <1>3
    <2> QED
      BY <1>4, <2>2, <2>4, <2>5, <2>6 DEF Abstract!CutFirst
  <1> QED
    BY <1>5, <1>6 DEF ListRemove

\* clear.
LEMMA ClearRefines ==
  ASSUME IInv, IInv', ListClear
  PROVE  Abstract!Empty
  <1>1. pc' = "ready" /\ count' = 0
    BY DEF ListClear, Called, extendVars
  <1>2. Contents' \in Seq(Value) /\ Len(Contents') = 0
    BY <1>1, ElementsNext
  <1>3. Contents' = <<>>
    BY <1>2, EmptySeq
  <1> QED
    BY <1>3 DEF ListClear, Answer, Abstract!Empty, Abstract!Answer

\* pop.
LEMMA PopRefines ==
  ASSUME IInv, IInv', ListPop
  PROVE  Abstract!PopLast
  <1> DEFINE c == Contents
             d == Contents'
  <1>1. pc = "ready" /\ pc' = "ready" /\ values' = values
    BY DEF ListPop, Called, extendVars
  <1>2. c \in Seq(Value) /\ Len(c) = count
        /\ \A k \in 1 .. count : c[k] = values[k - 1]
    BY <1>1, Elements
  <1>3. d \in Seq(Value) /\ Len(d) = count'
        /\ \A k \in 1 .. count' : d[k] = values[k - 1]
    BY <1>1, ElementsNext
  <1>4. count \in Nat
    BY DEF IInv, TypeOK
  <1> HIDE DEF c, d
  <1>5. CASE count = 0
    <2>1. c = <<>>
      BY <1>2, <1>5, EmptySeq
    <2>2. d = c
      BY <1>1, <1>5, SameContents DEF ListPop, array, c, d
    <2>3. answer' = Abstract!Answer("pop", Nil)
      BY <1>5 DEF ListPop, Answer, Abstract!Answer
    <2> QED
      BY <2>1, <2>2, <2>3 DEF c, d, Abstract!PopLast
  <1>6. CASE count > 0
    <2>1. c # <<>>
      BY <1>2, <1>6
    <2>2. count' = count - 1 /\ count - 1 \in Nat /\ answer' = Abstract!Answer("pop", values[count - 1])
      BY <1>4, <1>6 DEF ListPop, Answer, Abstract!Answer
    <2>3. c[Len(c)] = values[count - 1]
      BY <1>2, <1>4, <1>6
    <2>4. ASSUME NEW k \in 1 .. count - 1 PROVE d[k] = c[k]
      <3>1. k \in 1 .. count /\ k \in 1 .. count'
        BY <1>4, <2>2
      <3> QED
        BY <3>1, <1>2, <1>3
    <2>5. d = SubSeq(c, 1, count - 1)
      BY <1>2, <1>3, <1>4, <2>2, <2>4, PrefixSeq
    <2> QED
      BY <1>2, <2>1, <2>2, <2>3, <2>5 DEF c, d, Abstract!PopLast, Abstract!Before
  <1> QED
    BY <1>4, <1>5, <1>6

\* sort.
LEMMA SortRefines ==
  ASSUME IInv, IInv', ListSort
  PROVE  Abstract!Reorder
  <1> DEFINE c == Contents
             d == Contents'
  <1>1. pc = "ready" /\ pc' = "ready"
    BY DEF ListSort, Called, extendVars
  <1>2. c \in Seq(Value) /\ Len(c) = count
        /\ \A k \in 1 .. count : c[k] = values[k - 1]
    BY <1>1, Elements
  <1>3. count' = count /\ count \in Nat
    BY DEF ListSort, IInv, TypeOK
  <1>4. d \in Seq(Value) /\ Len(d) = count
        /\ \A k \in 1 .. count : d[k] = values'[k - 1]
    BY <1>1, <1>3, ElementsNext
  <1> HIDE DEF c, d
  <1>5. PICK p \in [0 .. count - 1 -> 0 .. count - 1] :
          /\ \A i, j \in 0 .. count - 1 : p[i] = p[j] => i = j
          /\ \A i \in 0 .. count - 1 : values'[i] = values[p[i]]
    BY SortFacts
  <1> DEFINE q == [k \in 1 .. count |-> p[k - 1] + 1]
             e == [k \in 1 .. count |-> c[q[k]]]
  <1>6. ASSUME NEW k \in 1 .. count
        PROVE  /\ k - 1 \in 0 .. count - 1 /\ k \in Int
               /\ p[k - 1] \in 0 .. count - 1 /\ p[k - 1] \in Int
               /\ q[k] = p[k - 1] + 1 /\ q[k] \in 1 .. count
    BY <1>3
  <1>7. q \in [1 .. count -> 1 .. count]
    BY Zenon, <1>6
  <1>8. ASSUME NEW k \in 1 .. count, NEW m \in 1 .. count, q[k] = q[m]
        PROVE  k = m
    <2>1. p[k - 1] = p[m - 1]
      BY <1>6, <1>8
    <2>2. k - 1 = m - 1
      BY <2>1, <1>5, <1>6
    <2> QED
      BY <2>2, <1>6
  <1>9. ASSUME NEW k \in 1 .. count PROVE d[k] = c[q[k]] /\ c[q[k]] \in Value
    <2>1. d[k] = values[p[k - 1]]
      BY Zenon, <1>4, <1>5, <1>6
    <2>2. c[q[k]] = values[q[k] - 1]
      BY Zenon, <1>2, <1>6
    <2>3. q[k] - 1 = p[k - 1]
      BY <1>6
    <2>4. c[q[k]] \in Value
      BY <1>2, <1>6
    <2> QED
      BY <2>1, <2>2, <2>3, <2>4
  <1> HIDE DEF q
  <1>10. e \in Seq(Value) /\ Len(e) = count
    BY <1>3, <1>9, IsASeq
  <1>11. \A k \in 1 .. count : d[k] = e[k]
    BY <1>9
  <1>12. d = e
    BY <1>4, <1>10, <1>11, SeqEqual
  <1>13. answer' = Abstract!Answer("sort", Nil)
    BY DEF ListSort, Answer, Abstract!Answer
  <1>14. \A k, m \in 1 .. Len(c) : q[k] = q[m] => k = m
    BY <1>2, <1>8
  <1>15. d = [k \in 1 .. Len(c) |-> c[q[k]]] /\ q \in [1 .. Len(c) -> 1 .. Len(c)]
    BY <1>2, <1>7, <1>12
  <1> QED
    BY <1>13, <1>14, <1>15 DEF c, d, Abstract!Reorder

\* insert at a position that is not negative.
LEMMA InsertRefines ==
  ASSUME IInv, IInv', NEW v \in Value, NEW p \in Position, ListInsert(v, p)
  PROVE  Abstract!InsertAt0(v, p)
  <1> DEFINE c == Contents
             d == Contents'
  <1>1. pc = "ready" /\ pc' = "ready"
    BY DEF ListInsert, Called, extendVars
  <1>2. c \in Seq(Value) /\ Len(c) = count
        /\ \A k \in 1 .. count : c[k] = values[k - 1]
    BY <1>1, Elements
  <1>3. d \in Seq(Value) /\ Len(d) = count'
        /\ \A k \in 1 .. count' : d[k] = values'[k - 1]
    BY <1>1, ElementsNext
  <1>4. /\ count \in Nat /\ count' \in Nat /\ p \in Nat
        /\ count' = IF p <= count THEN count + 1 ELSE p + 1
        /\ values'[p] = v
    BY Zenon, InsertFacts DEF IInv, TypeOK
  <1>5. /\ \A i \in 0 .. count - 1 : i < p => values'[i] = values[i]
        /\ \A i \in 0 .. count - 1 : i >= p => values'[i + 1] = values[i]
        /\ \A i \in Nat : count <= i /\ i < p => values'[i] = Nil
    BY InsertFacts
  <1> HIDE DEF c, d
  <1>6. p + 1 \in 1 .. count' /\ p + 1 - 1 = p
    BY <1>4
  <1>7. d[p + 1] = v
    BY <1>3, <1>4, <1>6
  <1>8. CASE p <= count
    <2>1. ASSUME NEW k \in 1 .. Len(c)
          PROVE  d[IF k <= p THEN k ELSE k + 1] = c[k]
      <3>1. k \in 1 .. count /\ k - 1 \in 0 .. count - 1 /\ k \in Int
        BY <1>2, <1>4
      <3>2. c[k] = values[k - 1]
        BY <3>1, <1>2
      <3>3. CASE k <= p
        <4>1. k \in 1 .. count' /\ k - 1 < p
          BY <3>1, <3>3, <1>4, <1>8
        <4>2. d[k] = values'[k - 1] /\ values'[k - 1] = values[k - 1]
          BY <4>1, <3>1, <1>3, <1>5
        <4> QED
          BY <4>2, <3>2, <3>3
      <3>4. CASE k > p
        <4>1. k + 1 \in 1 .. count' /\ k - 1 >= p /\ k + 1 - 1 = k /\ k - 1 + 1 = k
          BY <3>1, <3>4, <1>4, <1>8
        <4>2. d[k + 1] = values'[k]
          BY <4>1, <1>3
        <4>3. values'[k] = values[k - 1]
          BY <4>1, <3>1, <1>5
        <4>4. ~ (k <= p)
          BY <3>1, <3>4, <1>4
        <4> QED
          BY <4>2, <4>3, <4>4, <3>2
      <3>5. k <= p \/ k > p
        BY <3>1, <1>4
      <3> QED
        BY <3>3, <3>4, <3>5, Zenon
    <2>2. p <= Len(c) /\ Len(d) = Len(c) + 1
      BY <1>2, <1>3, <1>4, <1>8
    <2>3. d = Append(SubSeq(c, 1, p), v) \o SubSeq(c, p + 1, Len(c))
      BY Zenon, <1>2, <1>3, <1>4, <1>7, <2>1, <2>2, InsertSeq
    <2> QED
      BY Zenon, <1>2, <1>4, <1>8, <2>3
      DEF c, d, ListInsert, Answer, Abstract!InsertAt0, Abstract!Answer,
          Abstract!Before, Abstract!From
  <1>9. CASE ~ (p <= count)
    <2>1. ASSUME NEW k \in 1 .. p
          PROVE  d[k] = IF k <= Len(c) THEN c[k] ELSE Nil
      <3>1. k \in 1 .. count' /\ k - 1 \in Nat /\ k - 1 < p /\ k \in Int
        BY <1>4, <1>9
      <3>2. d[k] = values'[k - 1]
        BY <3>1, <1>3
      <3>3. CASE k <= count
        <4>1. k - 1 \in 0 .. count - 1 /\ k \in 1 .. count
          BY <3>1, <3>3, <1>4
        <4> QED
          BY <4>1, <3>1, <3>2, <3>3, <1>2, <1>5
      <3>4. CASE k > count
        <4>1. count <= k - 1 /\ ~ (k <= Len(c))
          BY <3>1, <3>4, <1>2, <1>4
        <4>2. values'[k - 1] = Nil
          BY <4>1, <3>1, <1>5
        <4> QED
          BY <4>1, <4>2, <3>2
      <3>5. k <= count \/ k > count
        BY <3>1, <1>4
      <3> QED
        BY <3>3, <3>4, <3>5, Zenon
    <2>2. p > Len(c) /\ Len(d) = p + 1
      BY <1>2, <1>3, <1>4, <1>9
    <2>3. d = Append(c \o [k \in 1 .. p - Len(c) |-> Nil], v)
      BY Zenon, <1>2, <1>3, <1>4, <1>7, <2>1, <2>2, PadSeq
    <2> QED
      BY <1>2, <1>4, <1>9, <2>3
      DEF c, d, ListInsert, Answer, Abstract!InsertAt0, Abstract!Answer
  <1> QED
    BY <1>8, <1>9

\* shift.
LEMMA ShiftRefines ==
  ASSUME IInv, IInv', NEW n \in Int, ListShift(n)
  PROVE  Abstract!ShiftBy(n)
  <1> DEFINE c == Contents
             d == Contents'
  <1>1. pc = "ready" /\ pc' = "ready"
    BY DEF ListShift, Called, extendVars
  <1>2. c \in Seq(Value) /\ Len(c) = count
        /\ \A k \in 1 .. count : c[k] = values[k - 1]
    BY <1>1, Elements
  <1>3. d \in Seq(Value) /\ Len(d) = count'
        /\ \A k \in 1 .. count' : d[k] = values'[k - 1]
    BY <1>1, ElementsNext
  <1>4. count \in Nat
    BY DEF IInv, TypeOK
  <1> HIDE DEF c, d
  <1>5. CASE n >= count \/ count = 1
    <2>1. count' = 0 /\ answer' = Abstract!Answer("shift", Nil)
      BY <1>5 DEF ListShift, Answer, Abstract!Answer
    <2>2. d = <<>>
      BY <1>3, <2>1, EmptySeq
    <2> QED
      BY <1>2, <1>5, <2>1, <2>2 DEF c, d, Abstract!ShiftBy
  <1>6. CASE ~ (n >= count \/ count = 1) /\ n <= 0
    <2>1. answer' = Abstract!Answer("shift", Nil) /\ UNCHANGED array
      BY <1>6 DEF ListShift, Answer, Abstract!Answer, array
    <2>2. d = c
      BY <1>1, <2>1, SameContents DEF c, d
    <2> QED
      BY <1>2, <1>6, <2>1, <2>2 DEF c, d, Abstract!ShiftBy
  <1>7. CASE ~ (n >= count \/ count = 1) /\ 0 < n
    <2>1. /\ values' = ShiftedDown(n) /\ count' = count - n
          /\ answer' = Answer("shift", IF n = 1 THEN values[0]
                                       ELSE [k \in 1 .. n |-> values[k - 1]])
      BY <1>7 DEF ListShift
    <2>2. n < count /\ n \in Nat /\ n <= Len(c)
      BY <1>2, <1>4, <1>7
    <2>3. \A i \in 0 .. count - n - 1 : values'[i] = values[i + n]
      BY <1>7, <2>1, <2>2, ShiftFacts
    <2>4. ASSUME NEW k \in 1 .. Len(d) PROVE d[k] = c[k + n]
      <3>1. /\ k \in 1 .. count' /\ k - 1 \in 0 .. count - n - 1
            /\ k + n \in 1 .. count /\ k + n - 1 = k - 1 + n
        BY <1>3, <1>4, <2>1, <2>2
      <3>2. d[k] = values'[k - 1] /\ values'[k - 1] = values[k - 1 + n]
        BY <3>1, <1>3, <2>3
      <3>3. c[k + n] = values[k + n - 1]
        BY <3>1, <1>2
      <3> QED
        BY <3>1, <3>2, <3>3
    <2>5. Len(d) = Len(c) - n
      BY <1>2, <1>3, <2>1
    <2>6. d = SubSeq(c, n + 1, Len(c))
      BY <1>2, <1>3, <2>2, <2>4, <2>5, TailSeq
    <2>7. c[1] = values[0]
      BY <1>2, <1>4, <2>2, <1>7
    <2> DEFINE front == ContentsOf(values, n)
    <2>8. \A i \in 0 .. n - 1 : values[i] \in Value
      BY <1>4, <2>2 DEF IInv, NoJunk
    <2>9. /\ front \in Seq(Value) /\ Len(front) = n
          /\ \A k \in 1 .. n : front[k] = values[k - 1]
      BY <2>2, <2>8, ContentsFacts
    <2>10. front = [k \in 1 .. n |-> values[k - 1]]
      BY DEF ContentsOf
    <2> HIDE DEF front
    <2>11. ASSUME NEW k \in 1 .. n PROVE front[k] = c[k]
      <3>1. k \in 1 .. count
        BY <1>4, <2>2
      <3> QED
        BY <3>1, <1>2, <2>9
    <2>12. front = SubSeq(c, 1, n)
      BY <1>2, <2>2, <2>9, <2>11, PrefixSeq
    <2>13. answer' = Abstract!Answer("shift", IF n = 1 THEN c[1] ELSE SubSeq(c, 1, n))
      BY <2>1, <2>7, <2>10, <2>12, Zenon DEF Answer, Abstract!Answer
    <2>14. ~ (n >= Len(c) \/ Len(c) = 1) /\ ~ (n <= 0)
      BY <1>2, <1>4, <1>7
    <2> QED
      BY <2>6, <2>13, <2>14, Zenon
      DEF c, d, Abstract!ShiftBy, Abstract!Before, Abstract!From
  <1> QED
    BY <1>4, <1>5, <1>6, <1>7

\* list[p] = v, and the assignment that writes before the array.
LEMMA SetIndexRefines ==
  ASSUME IInv, IInv', NEW v \in Value, NEW p \in Position, ListSetIndex(p, v)
  PROVE  \/ Abstract!AssignAt(p, v) /\ fate' = "fine"
         \/ Abstract!Corruption
  <1> DEFINE c == Contents
             d == Contents'
  <1>0. p \in Int
    BY ListsAssumption
  <1>1. pc = "ready" /\ pc' = "ready" /\ fate = "fine"
    BY DEF ListSetIndex, extendVars
  <1>2. c \in Seq(Value) /\ Len(c) = count
        /\ \A k \in 1 .. count : c[k] = values[k - 1]
    BY <1>1, Elements
  <1>3. d \in Seq(Value) /\ Len(d) = count'
        /\ \A k \in 1 .. count' : d[k] = values'[k - 1]
    BY <1>1, ElementsNext
  <1>4. /\ count \in Nat /\ capacity \in Nat /\ count <= capacity
        /\ DOMAIN values = 0 .. capacity - 1
    BY DEF IInv, TypeOK, NoJunk
  <1>5. Place(p) \in Int /\ Abstract!FromEnd(p) = Place(p)
    BY <1>0, <1>2, <1>4 DEF Place, c, Abstract!FromEnd
  <1> DEFINE q == Place(p)
  <1>6. q \in Int
    BY <1>5
  <1> HIDE DEF c, d, q
  <1>7. CASE ~ (q < count /\ q > - count)
    <2>1. Refuse("assign") /\ fate' = fate
      BY <1>7 DEF ListSetIndex, q
    <2>2. d = c
      BY <1>1, <2>1, SameContents DEF c, d, Refuse
    <2>3. ~ (0 <= q /\ q < Len(c))
      BY <1>2, <1>4, <1>6, <1>7
    <2>4. ~ Abstract!Within(Abstract!FromEnd(p))
      BY <1>5, <2>3, Zenon DEF c, q, Abstract!Within
    <2> QED
      BY <1>1, <2>1, <2>2, <2>4
      DEF c, d, Refuse, Abstract!AssignAt, Abstract!Refused
  <1>8. CASE q < count /\ q > - count /\ q < 0
    <2>1. /\ values' = [values EXCEPT ![q] = v] /\ fate' = "corrupt"
          /\ answer' = Answer("assign", Nil) /\ count' = count
      BY <1>8 DEF ListSetIndex, q
    <2>2. ASSUME NEW k \in 1 .. Len(d) PROVE d[k] = c[k]
      <3>1. k \in 1 .. count /\ k - 1 # q /\ k \in 1 .. count'
        BY <1>3, <1>4, <1>6, <1>8, <2>1
      <3>2. k - 1 \in DOMAIN values
        BY <3>1, <1>4
      <3>3. values'[k - 1] = values[k - 1]
        BY <3>1, <3>2, <2>1
      <3> QED
        BY <3>1, <3>3, <1>2, <1>3
    <2>3. d = c
      BY <1>2, <1>3, <2>1, <2>2, SeqEqual
    <2>4. q < 0 /\ - Len(c) < q
      BY <1>2, <1>4, <1>6, <1>8
    <2>5. Abstract!FromEnd(p) < 0 /\ - Len(Contents) < Abstract!FromEnd(p)
      BY <1>5, <2>4, Zenon DEF c, q
    <2> QED
      BY <2>1, <2>3, <2>5
      DEF c, d, Answer, Abstract!Corruption, Abstract!Overwrites, Abstract!Answer
  <1>9. CASE q < count /\ q > - count /\ 0 <= q
    <2>1. /\ values' = [values EXCEPT ![q] = v] /\ fate' = "fine"
          /\ answer' = Answer("assign", v) /\ count' = count
      <3>1. ~ (q < 0)
        BY <1>6, <1>9
      <3> QED
        BY <3>1, <1>9 DEF ListSetIndex, q
    <2> DEFINE e == [c EXCEPT ![q + 1] = v]
    <2>2. e \in Seq(Value) /\ Len(e) = count
      <3>1. q + 1 \in 1 .. Len(c)
        BY <1>2, <1>4, <1>6, <1>9
      <3> QED
        BY <3>1, <1>2, ExceptSeq
    <2>3. ASSUME NEW k \in 1 .. count PROVE d[k] = e[k]
      <3>1. /\ k - 1 \in DOMAIN values /\ k \in DOMAIN c /\ k \in 1 .. count'
            /\ (k - 1 = q) <=> (k = q + 1)
        BY <1>2, <1>4, <1>6, <2>1
      <3>2. values'[k - 1] = IF k - 1 = q THEN v ELSE values[k - 1]
        BY <3>1, <2>1
      <3>3. e[k] = IF k = q + 1 THEN v ELSE c[k]
        BY <3>1
      <3>4. d[k] = values'[k - 1] /\ c[k] = values[k - 1]
        BY <3>1, <1>2, <1>3
      <3> QED
        BY <3>1, <3>2, <3>3, <3>4, Zenon
    <2> HIDE DEF e
    <2>4. d = e
      BY <1>3, <2>1, <2>2, <2>3, SeqEqual
    <2>5. 0 <= q /\ q < Len(c)
      BY <1>2, <1>9
    <2>6. Abstract!Within(Abstract!FromEnd(p))
      BY <1>5, <2>5, Zenon DEF c, q, Abstract!Within
    <2>7. Contents' = [Contents EXCEPT ![Abstract!FromEnd(p) + 1] = v]
      BY <1>5, <2>4, Zenon DEF c, d, e, q
    <2> QED
      BY <2>1, <2>6, <2>7 DEF Answer, Abstract!AssignAt, Abstract!Answer
  <1>10. (q < count /\ q > - count) => (q < 0 \/ 0 <= q)
    BY <1>6
  <1> QED
    BY <1>7, <1>8, <1>9, <1>10, Zenon

\* While extend runs, Contents stays what it was when extend was called.
LEMMA ExtendingContents ==
  ASSUME IInv, pc = "extending"
  PROVE  /\ base \in Nat /\ base <= count
         /\ Contents \in Seq(Value) /\ Len(Contents) = base
         /\ \A k \in 1 .. base : Contents[k] = values[k - 1]
  <1>1. /\ base \in Nat /\ base <= count /\ count \in Nat
        /\ \A i \in 0 .. count - 1 : values[i] \in Value
    BY DEF IInv, TypeOK, NoJunk, ExtendsInOrder
  <1>2. \A i \in 0 .. base - 1 : values[i] \in Value
    BY <1>1
  <1>3. Contents = ContentsOf(values, base)
    BY DEF Contents
  <1> QED
    BY <1>1, <1>2, <1>3, ContentsFacts

\* The call of extend.
LEMMA ExtendStartRefines ==
  ASSUME IInv, NEW s, NEW own, ExtendStart(s, own)
  PROVE  UNCHANGED Abstract!listVars
  BY DEF ExtendStart, array, Contents, ContentsOf, Abstract!listVars

\* One element copied.
LEMMA ExtendStepRefines ==
  ASSUME IInv, IInv', ExtendStep
  PROVE  UNCHANGED Abstract!listVars
  <1>1. pc = "extending" /\ pc' = "extending" /\ base' = base
    BY DEF ExtendStep
  <1>2. base \in Nat /\ base <= count /\ count \in Nat
    BY <1>1, ExtendingContents DEF IInv, TypeOK
  <1> DEFINE w == IF self THEN values[cursor] ELSE argument[cursor + 1]
  <1>3. w \in Value
    <2>1. CASE self
      BY <2>1 DEF ExtendStep, Extending, IInv, TypeOK, NoJunk
    <2>2. CASE ~ self
      <3>1. argument \in Seq(Value) /\ cursor \in Nat /\ cursor < Len(argument)
        BY <2>2 DEF ExtendStep, Extending, IInv, TypeOK
      <3>2. cursor + 1 \in 1 .. Len(argument)
        BY <3>1
      <3> QED
        BY <2>2, <3>1, <3>2
    <2> QED
      BY <2>1, <2>2
  <1>4. Write(w)
    BY DEF ExtendStep
  <1> HIDE DEF w
  <1>5. \A i \in 0 .. count - 1 : values'[i] = values[i]
    BY <1>3, <1>4, WriteFacts
  <1>6. \A k \in 1 .. base : values'[k - 1] = values[k - 1]
    BY <1>2, <1>5
  <1>7. Contents = [k \in 1 .. base |-> values[k - 1]]
    BY <1>1 DEF Contents, ContentsOf
  <1>8. Contents' = [k \in 1 .. base |-> values'[k - 1]]
    BY <1>1 DEF Contents, ContentsOf
  <1>9. Contents' = Contents
    BY <1>6, <1>7, <1>8
  <1> QED
    BY <1>9 DEF ExtendStep, Abstract!listVars

\* The return of extend: all of its argument is behind the old elements.
LEMMA ExtendDoneRefines ==
  ASSUME IInv, IInv', ExtendDone
  PROVE  \E s \in Argument \cup {<<>>} : Abstract!ExtendBy(s)
  <1> DEFINE c == Contents
             d == Contents'
  <1>1. pc = "extending" /\ pc' = "ready" /\ values' = values /\ count' = count
    BY DEF ExtendDone, array
  <1>2. /\ base \in Nat /\ c \in Seq(Value) /\ Len(c) = base
        /\ \A k \in 1 .. base : c[k] = values[k - 1]
    BY <1>1, ExtendingContents
  <1>3. d \in Seq(Value) /\ Len(d) = count
        /\ \A k \in 1 .. count : d[k] = values[k - 1]
    BY <1>1, ElementsNext
  <1>4. /\ count = base + cursor /\ cursor \in Nat /\ count \in Nat
        /\ cursor >= Extending
    BY <1>1 DEF ExtendDone, IInv, TypeOK, ExtendsInOrder
  <1>5. answer' = Abstract!Answer("extend", Nil)
    BY DEF ExtendDone, Answer, Abstract!Answer
  <1> HIDE DEF c, d
  <1>6. CASE self
    <2>1. count = base /\ base = 0
      <3>1. base = 0
        BY <1>2, <1>4, <1>6 DEF Extending
      <3>2. cursor = 0
        BY <3>1, <1>1, <1>6 DEF IInv, ExtendsInOrder
      <3> QED
        BY <3>1, <3>2, <1>4
    <2>2. c = <<>> /\ d = <<>>
      BY <1>2, <1>3, <2>1, EmptySeq
    <2>3. d = c \o <<>>
      BY <2>2, <1>2, ConcatEmptySeq
    <2> QED
      BY Zenon, <1>5, <2>3 DEF c, d, Abstract!ExtendBy
  <1>7. CASE ~ self
    <2>1. /\ argument \in Argument /\ argument \in Seq(Value)
          /\ cursor <= Len(argument)
          /\ \A k \in 1 .. cursor : values[base + k - 1] = argument[k]
      BY <1>1, <1>7, ListsAssumption DEF IInv, ExtendsInOrder
    <2>2. cursor = Len(argument) /\ Len(argument) \in Nat
      BY <1>4, <1>7, <2>1 DEF Extending
    <2>3. /\ c \o argument \in Seq(Value)
          /\ Len(c \o argument) = Len(c) + Len(argument)
          /\ \A k \in 1 .. Len(c) + Len(argument) :
               (c \o argument)[k] = IF k <= Len(c) THEN c[k]
                                    ELSE argument[k - Len(c)]
      BY Zenon, <1>2, <2>1, ConcatProperties
    <2>4. ASSUME NEW k \in 1 .. Len(d) PROVE d[k] = (c \o argument)[k]
      <3>1. k \in 1 .. count /\ k \in Int /\ k \in 1 .. Len(c) + Len(argument)
        BY <1>2, <1>3, <1>4, <2>2
      <3>2. d[k] = values[k - 1]
        BY <3>1, <1>3
      <3>3. CASE k <= base
        <4>1. k \in 1 .. base
          BY <3>1, <3>3, <1>2
        <4>2. (c \o argument)[k] = c[k]
          BY <3>1, <3>3, <1>2, <2>3
        <4> QED
          BY <4>1, <4>2, <3>2, <1>2
      <3>4. CASE k > base
        <4>1. k - base \in 1 .. cursor /\ base + (k - base) - 1 = k - 1
          BY <3>1, <3>4, <1>2, <1>4
        <4>2. ~ (k <= Len(c)) /\ k - Len(c) = k - base
          BY <3>1, <3>4, <1>2
        <4>3. (c \o argument)[k] = argument[k - base]
          BY <3>1, <4>2, <2>3
        <4>4. values[base + (k - base) - 1] = argument[k - base]
          BY <4>1, <2>1
        <4> QED
          BY <4>1, <4>3, <4>4, <3>2
      <3>5. k <= base \/ k > base
        BY <3>1, <1>2
      <3> QED
        BY <3>3, <3>4, <3>5, Zenon
    <2>5. Len(d) = Len(c \o argument)
      BY <1>2, <1>3, <1>4, <2>2, <2>3
    <2>6. d = c \o argument
      BY Zenon, <1>3, <2>3, <2>4, <2>5, SeqEqual
    <2> QED
      BY <1>5, <2>1, <2>6 DEF c, d, Abstract!ExtendBy
  <1> QED
    BY <1>6, <1>7

\* Every step of list.c is a step of the sequence, or changes nothing of it.
LEMMA StepRefines ==
  IInv /\ IInv' /\ [Next]_vars => [Abstract!ListNext]_Abstract!listVars
  <1> SUFFICES ASSUME IInv, IInv', [Next]_vars
               PROVE  [Abstract!ListNext]_Abstract!listVars
    OBVIOUS
  <1> USE DEF Abstract!ListNext
  <1>0. Position \subseteq Int /\ Element \subseteq Value
    BY ListsAssumption
  <1>1. ASSUME NEW v \in Element, ListAppend(v) PROVE Abstract!ListNext
    BY <1>0, <1>1, AppendRefines DEF ListAppend, Called, Abstract!Change
  <1>2. ASSUME NEW v \in Element, ListRemove(v) PROVE Abstract!ListNext
    BY <1>0, <1>2, RemoveRefines DEF ListRemove, Called, Abstract!Change
  <1>3. CASE ListClear
    BY <1>3, ClearRefines DEF ListClear, Called, Abstract!Change
  <1>4. CASE ListPop
    BY <1>4, PopRefines DEF ListPop, Called, Abstract!Change
  <1>5. CASE ListSort
    BY Zenon, <1>5, SortRefines DEF ListSort, Called, Abstract!Change
  <1>6. ASSUME NEW s, NEW own, ExtendStart(s, own) PROVE UNCHANGED Abstract!listVars
    BY <1>6, ExtendStartRefines
  <1>7. CASE ExtendStep
    BY <1>7, ExtendStepRefines
  <1>8. CASE ExtendDone
    <2>1. fate = "fine" /\ fate' = "fine"
      BY <1>8 DEF ExtendDone, IInv, ExtendsInOrder
    <2>2. Abstract!Change
      BY <1>8, ExtendDoneRefines DEF Abstract!Change
    <2> QED
      BY <2>1, <2>2
  <1>9. ASSUME NEW v \in Element, NEW p \in Position, ListInsert(v, p)
        PROVE  Abstract!ListNext
    BY <1>0, <1>9, InsertRefines DEF ListInsert, Called, Abstract!Change
  <1>10. ASSUME NEW v \in Element, NEW p \in Position, ListSetIndex(p, v)
         PROVE  Abstract!ListNext
    BY <1>0, <1>10, SetIndexRefines DEF ListSetIndex, Abstract!Change
  <1>11. ASSUME NEW p \in Position, ListInsertBefore(p) PROVE Abstract!ListNext
    <2>1. pc = "ready" /\ pc' = "ready" /\ UNCHANGED array
      BY <1>11 DEF ListInsertBefore, extendVars
    <2>2. Contents' = Contents
      BY <2>1, SameContents
    <2> QED
      BY <1>11, <2>2 DEF ListInsertBefore, Answer, Abstract!Corruption,
                         Abstract!Overwrites, Abstract!Answer
  <1>12. ASSUME NEW p \in Position, ListShift(p) PROVE Abstract!ListNext
    BY <1>0, <1>12, ShiftRefines DEF ListShift, Called, Abstract!Change
  <1>13. ASSUME NEW p \in Position, ListRemoveAt(p) PROVE Abstract!ListNext
    BY <1>0, <1>13, RemoveAtRefines DEF ListRemoveAt, Called, Abstract!Change
  <1>14. ASSUME NEW lower \in Position, NEW upper \in Position,
                ListDelete(lower, upper)
         PROVE  Abstract!ListNext
    BY <1>0, <1>14, DeleteRefines DEF ListDelete, Called, Abstract!Change
  <1>15. CASE UNCHANGED vars
    BY <1>15 DEF vars, Contents, ContentsOf, Abstract!listVars
  <1> HIDE DEF Abstract!ListNext
  <1> QED
    BY Zenon, <1>1, <1>2, <1>3, <1>4, <1>5, <1>6, <1>7, <1>8, <1>9, <1>10, <1>11, <1>12,
       <1>13, <1>14, <1>15
    DEF Next

\* list.c, with its growing array, its stale slots and its reads behind the
\* last element, implements a sequence of values: for every set of values,
\* positions and arguments, every method returns and leaves what
\* AbstractList says, and nothing but the two calls named there writes
\* outside of the array.
THEOREM Refinement == Spec => ImplementsList
  <1>1. Init => Abstract!ListInit
    <2> SUFFICES ASSUME Init PROVE Abstract!ListInit
      OBVIOUS
    <2>1. IInv /\ pc = "ready" /\ count = 0
      BY InitIInv DEF Init
    <2>2. Contents \in Seq(Value) /\ Len(Contents) = 0
      BY <2>1, Elements
    <2>3. Contents = <<>>
      BY <2>2, EmptySeq
    <2> QED
      BY <2>3 DEF Init, Answer, Abstract!ListInit, Abstract!Answer
  <1> QED
    BY <1>1, StepRefines, Invariance, PTL DEF Spec, ImplementsList, Abstract!ListSpec
==============================================================================
