-------------------------------- MODULE Table --------------------------------
(***************************************************************************)
(* The open-addressing hash table of src/src/table.c: its entries and the  *)
(* probing on which every other operation is built.                        *)
(*                                                                         *)
(* An array of entries is a function from 0 .. capacity - 1.  A slot whose *)
(* key is Empty is pristine when its value is Nil and a tombstone when its *)
(* value is True, as the code tells them apart.  values_equal on keys is   *)
(* equality of model keys; hash_value is the constant Hash.                *)
(***************************************************************************)
EXTENDS Integers, FiniteSets

CONSTANTS Key, Value,
          Hash,           \* hash_value, [Key -> Nat]
          Empty,          \* EMPTY_VAL, the key of an unused slot
          Nil, True       \* NIL_VAL and BOOL_VAL(true)

ASSUME TableAssumption ==
  /\ Hash \in [Key -> Nat]
  /\ Empty \notin Key
  /\ Nil \notin Key       \* table_get never finds a nil key (see Dict)
  /\ Nil # True

Entry == [key : Key \cup {Empty}, value : Value \cup {Nil, True}]

Pristine == [key |-> Empty, value |-> Nil]
Tombstone == [key |-> Empty, value |-> True]

\* hash & (capacity - 1): the capacity is a power of two.
Home(capacity, k) == Hash[k] % capacity

\* The slot d steps of index = (index + 1) & (capacity - 1) after slot h.
Step(capacity, h, d) == IF h + d < capacity THEN h + d ELSE h + d - capacity

Slot(capacity, k, d) == Step(capacity, Home(capacity, k), d)

\* The probe for k ends at its d-th slot.
Stops(entries, capacity, k, d) ==
  LET entry == entries[Slot(capacity, k, d)]
  IN  entry = Pristine \/ entry.key = k

Tombs(entries, capacity, k, d) ==
  entries[Slot(capacity, k, d)].key = Empty

\* The least d at which the loop of find_entry returns.
ProbeLength(entries, capacity, k) ==
  CHOOSE d \in 0 .. capacity - 1 :
    /\ Stops(entries, capacity, k, d)
    /\ \A e \in 0 .. d - 1 : ~ Stops(entries, capacity, k, e)

\* The slot find_entry returns: the one that holds k, or else the first
\* tombstone it passed, or else the pristine slot it stopped at.
FindEntry(entries, capacity, k) ==
  LET n == ProbeLength(entries, capacity, k)
      graves == {d \in 0 .. n - 1 : Tombs(entries, capacity, k, d)}
  IN  IF entries[Slot(capacity, k, n)].key = k \/ graves = {}
        THEN Slot(capacity, k, n)
        ELSE Slot(capacity, k, CHOOSE d \in graves : \A e \in graves : d <= e)

\* GROW_CAPACITY
GrowCapacity(capacity) == IF capacity < 4 THEN 4 ELSE 2 * capacity

\* Faulty: the table is filled to the last slot.
MaxLoadFull(capacity) == capacity

\* capacity * TABLE_MAX_LOAD rounded down, with TABLE_MAX_LOAD = 0.85714286
MaxLoad(capacity) == (capacity * 85714286) \div 100000000

\* count + 1 > capacity * TABLE_MAX_LOAD
Overloaded(count, capacity) == count + 1 > MaxLoad(capacity)

NewEntries(capacity) == [s \in 0 .. capacity - 1 |-> Pristine]

\* The slots a probe walks over or stops at with a match.
Used(entries, capacity) == {s \in 0 .. capacity - 1 : entries[s] # Pristine}
==============================================================================
