------------------------------ MODULE HashTable ------------------------------
(***************************************************************************)
(* One b_table under every sequence of calls.  table_get, table_delete,    *)
(* table_find_key and free_table are one step each.  So is a table_set     *)
(* that does not grow the table; one that does goes through the loop of    *)
(* adjust_capacity, one step per slot of the old array, and then stores.   *)
(***************************************************************************)
EXTENDS Table

CONSTANTS Absent,       \* table_get answered false
          MaxCapacity   \* bound of the model: table_set that would grow past
                        \* it is not called

ASSUME HashTableAssumption ==
  /\ Absent \notin Value \cup {Nil, True}
  /\ MaxCapacity \in Nat

VARIABLES entries, capacity, count,   \* the fields of b_table
          fresh,    \* the array adjust_capacity is filling
          cursor,   \* its loop variable i
          pending,  \* the key and value of the table_set that grows the table
          pc,       \* "ready", or "moving" inside adjust_capacity
          reply     \* what the last call returned

tableVars == <<entries, capacity, count>>
growVars == <<fresh, cursor, pending>>
vars == <<entries, capacity, count, fresh, cursor, pending, pc, reply>>

NoEntries == NewEntries(0)
NoCall == [key |-> Empty, value |-> Nil]

Init ==
  /\ entries = NoEntries /\ capacity = 0 /\ count = 0
  /\ fresh = NoEntries /\ cursor = 0 /\ pending = NoCall
  /\ pc = "ready"
  /\ reply = [op |-> "none"]

Found(k) == entries[FindEntry(entries, capacity, k)]

\* Faulty: a nil value is taken for an unused slot.
TableGetNilMisses(k) ==
  /\ pc = "ready"
  /\ reply' = [op |-> "get", key |-> k,
               value |-> IF count = 0 \/ Found(k).value = Nil
                           THEN Absent ELSE Found(k).value]
  /\ UNCHANGED <<tableVars, growVars, pc>>

TableGet(k) ==
  /\ pc = "ready"
  /\ reply' = [op |-> "get", key |-> k,
               value |-> IF count = 0 \/ Found(k).key = Empty
                           THEN Absent ELSE Found(k).value]
  /\ UNCHANGED <<tableVars, growVars, pc>>

\* The tail of table_set, once there is room.
Store(es, cap, n, k, v) ==
  LET s == FindEntry(es, cap, k)
  IN  /\ entries' = [es EXCEPT ![s] = [key |-> k, value |-> v]]
      /\ capacity' = cap
      /\ count' = IF es[s] = Pristine THEN n + 1 ELSE n
      /\ reply' = [op |-> "set", key |-> k, isNew |-> es[s].key = Empty]

TableSet(k, v) ==
  /\ pc = "ready"
  /\ ~ Overloaded(count, capacity)
  /\ Store(entries, capacity, count, k, v)
  /\ UNCHANGED <<growVars, pc>>

\* table_set calls adjust_capacity: the new array is allocated and cleared.
TableSetGrows(k, v) ==
  /\ pc = "ready"
  /\ Overloaded(count, capacity)
  /\ GrowCapacity(capacity) <= MaxCapacity
  /\ fresh' = NewEntries(GrowCapacity(capacity))
  /\ count' = 0
  /\ cursor' = 0
  /\ pending' = [key |-> k, value |-> v]
  /\ pc' = "moving"
  /\ UNCHANGED <<entries, capacity, reply>>

\* One iteration of "repopulate buckets".
MoveEntry ==
  LET entry == entries[cursor]
  IN  /\ pc = "moving" /\ cursor < capacity
      /\ cursor' = cursor + 1
      /\ IF entry.key = Empty
           THEN UNCHANGED <<fresh, count>>
           ELSE /\ fresh' = [fresh EXCEPT
                      ![FindEntry(fresh, GrowCapacity(capacity), entry.key)]
                        = entry]
                /\ count' = count + 1
      /\ UNCHANGED <<entries, capacity, pending, pc, reply>>

\* Faulty: the end of the old array is taken to be one slot before it.
MoveDoneEarly ==
  /\ pc = "moving" /\ cursor = capacity - 1
  /\ Store(fresh, GrowCapacity(capacity), count, pending.key, pending.value)
  /\ pc' = "ready"
  /\ fresh' = NoEntries /\ cursor' = 0 /\ pending' = NoCall

\* The old array is freed, the new one takes its place, table_set stores.
MoveDone ==
  /\ pc = "moving" /\ cursor = capacity
  /\ Store(fresh, GrowCapacity(capacity), count, pending.key, pending.value)
  /\ pc' = "ready"
  /\ fresh' = NoEntries /\ cursor' = 0 /\ pending' = NoCall

\* Faulty: a deleted entry becomes pristine instead of a tombstone.
TableDeletePristine(k) ==
  LET s == FindEntry(entries, capacity, k)
      deleted == count # 0 /\ entries[s].key # Empty
  IN  /\ pc = "ready"
      /\ entries' = IF deleted THEN [entries EXCEPT ![s] = Pristine]
                               ELSE entries
      /\ count' = IF deleted THEN count - 1 ELSE count
      /\ reply' = [op |-> "delete", key |-> k, deleted |-> deleted]
      /\ UNCHANGED <<capacity, growVars, pc>>

TableDelete(k) ==
  LET s == FindEntry(entries, capacity, k)
      deleted == count # 0 /\ entries[s].key # Empty
  IN  /\ pc = "ready"
      /\ entries' = IF deleted THEN [entries EXCEPT ![s] = Tombstone]
                               ELSE entries
      /\ reply' = [op |-> "delete", key |-> k, deleted |-> deleted]
      /\ UNCHANGED <<capacity, count, growVars, pc>>

\* The first slot, in array order, whose live entry holds v.
TableFindKey(v) ==
  LET hits == {s \in 0 .. capacity - 1 :
                 entries[s].key # Empty /\ entries[s].value = v}
  IN  /\ pc = "ready"
      /\ reply' = [op |-> "find",
                   key |-> IF hits = {} THEN Nil
                           ELSE entries[CHOOSE s \in hits :
                                          \A r \in hits : s <= r].key]
      /\ UNCHANGED <<tableVars, growVars, pc>>

FreeTable ==
  /\ pc = "ready"
  /\ entries' = NoEntries /\ capacity' = 0 /\ count' = 0
  /\ reply' = [op |-> "clear"]
  /\ UNCHANGED <<growVars, pc>>

Next ==
  \/ \E k \in Key : TableGet(k)
  \/ \E k \in Key, v \in Value : TableSet(k, v)
  \/ \E k \in Key, v \in Value : TableSetGrows(k, v)
  \/ MoveEntry
  \/ MoveDone
  \/ \E k \in Key : TableDelete(k)
  \/ \E v \in Value : TableFindKey(v)
  \/ FreeTable

Spec == Init /\ [][Next]_vars
FairSpec == Spec /\ WF_vars(MoveEntry \/ MoveDone)
------------------------------------------------------------------------------
(* Properties *)

TypeOK ==
  /\ capacity \in Nat
  /\ count \in Nat
  /\ entries \in [0 .. capacity - 1 -> Entry]
  /\ pc \in {"ready", "moving"}
  /\ cursor \in 0 .. capacity
  /\ pc = "moving" =>
       /\ fresh \in [0 .. GrowCapacity(capacity) - 1 -> Entry]
       /\ pending \in [key : Key, value : Value]
       /\ GrowCapacity(capacity) <= MaxCapacity

\* The loop of find_entry has no exit but a match or a pristine slot, so one
\* must exist on every probe: the loop ends for every key, in the array in
\* use and in the array being filled.
ProbeEnds ==
  /\ pc = "ready" /\ capacity # 0 =>
       \A k \in Key : \E d \in 0 .. capacity - 1 : Stops(entries, capacity, k, d)
  /\ pc = "moving" =>
       \A k \in Key : \E d \in 0 .. GrowCapacity(capacity) - 1 :
         Stops(fresh, GrowCapacity(capacity), k, d)

\* Tombstones keep the chains whole: no probe for a stored key can stop
\* before the slot that holds it, so no stored key is ever lost or doubled.
ChainWhole(es, cap) ==
  \A k \in Key : \A d \in 0 .. cap - 1 :
    es[Slot(cap, k, d)].key = k =>
      \A e \in 0 .. d - 1 : ~ Stops(es, cap, k, e)

NoLostKey ==
  /\ ChainWhole(entries, capacity)
  /\ pc = "moving" => ChainWhole(fresh, GrowCapacity(capacity))

\* table->count is the number of live entries and tombstones together, and
\* the load factor leaves a free slot: the two facts table_set relies on when
\* it decides whether to grow.
CountsUsedSlots ==
  /\ pc = "ready" =>
       /\ count = Cardinality(Used(entries, capacity))
       /\ count <= MaxLoad(capacity)
  /\ pc = "moving" =>
       count = Cardinality(Used(fresh, GrowCapacity(capacity)))

\* adjust_capacity neither drops nor invents an entry: the new array holds
\* exactly the live entries of the slots already visited.
RehashKeepsEntries ==
  pc = "moving" =>
    {fresh[s] : s \in {r \in 0 .. GrowCapacity(capacity) - 1 :
                         fresh[r].key # Empty}}
      = {entries[s] : s \in {r \in 0 .. cursor - 1 : entries[r].key # Empty}}

\* Growing makes enough room: the new array never holds more entries than
\* slots were visited, has no tombstone, and the capacity is never 1 to 3.
RoomToGrow ==
  /\ capacity = 0 \/ capacity >= 4
  /\ pc = "ready" => cursor = 0
  /\ pc = "moving" =>
       /\ count <= cursor
       /\ \A s \in 0 .. GrowCapacity(capacity) - 1 :
            fresh[s].key = Empty => fresh[s] = Pristine

\* The inductive invariant of HashTableProofs: no key is lost, the count is
\* exact and a rehash keeps the entries, after any table_set and table_delete.
IInv == TypeOK /\ NoLostKey /\ CountsUsedSlots /\ RehashKeepsEntries /\ RoomToGrow

\* The contents of the table, as a map.
ContentsOf(es, cap) ==
  [k \in Key |->
     IF \E s \in 0 .. cap - 1 : es[s].key = k
       THEN es[CHOOSE s \in 0 .. cap - 1 : es[s].key = k].value
       ELSE Absent]

Contents == ContentsOf(entries, capacity)

Abstract == INSTANCE AbstractMap WITH map <- Contents

\* Every call answers, and changes the contents, as a map would: the table
\* implements AbstractMap, growth and tombstones being invisible.
ImplementsMap == Abstract!MapSpec

\* Once a table_set starts to grow the table it returns.
GrowthEnds == []<>(pc = "ready")
==============================================================================
