--------------------------- MODULE HashTableProofs ---------------------------
(***************************************************************************)
(* Machine-checked proofs about HashTable, for every set of keys, every    *)
(* hash function and every capacity, and about Intern, for every set of    *)
(* texts and string objects.                                               *)
(***************************************************************************)
EXTENDS HashTable, Intern, FiniteSetTheorems, WellFoundedInduction, TLAPS

\* A leaf that names no backend is tried with each of these.
USE SMT, Zenon, SMTT(60), SMTT(90)

------------------------------------------------------------------------------
(* Probe sequences *)

\* Every non-empty set of naturals has a least element.
LEMMA LeastNatural ==
  ASSUME NEW T, T \subseteq Nat, T # {}
  PROVE  \E x \in T : \A y \in T : x <= y
<1> DEFINE R == {ss \in Nat \X Nat : ss[1] < ss[2]}
<1>0. IsWellFoundedOn(R, Nat)
  BY NatLessThanWellFounded DEF OpToRel
<1> HIDE DEF R
<1>1. \E x \in T : \A y \in T : ~ (<<y, x>> \in R)
  BY Zenon, <1>0, WFMin
<1>2. \A x, y \in Nat : ~ (<<y, x>> \in R) => x <= y
  BY DEF R
<1> QED BY Zenon, <1>1, <1>2

\* hash & (capacity - 1) is an index of the array.
LEMMA HomeInRange ==
  ASSUME NEW cap \in Nat, cap # 0, NEW k \in Key
  PROVE  Home(cap, k) \in 0 .. cap - 1
BY TableAssumption DEF Home

\* A probe stays in the array, visits every slot, and none twice.
LEMMA ProbeCovers ==
  ASSUME NEW cap \in Nat, cap # 0, NEW k \in Key
  PROVE  /\ \A d \in 0 .. cap - 1 : Slot(cap, k, d) \in 0 .. cap - 1
         /\ \A s \in 0 .. cap - 1 : \E d \in 0 .. cap - 1 : Slot(cap, k, d) = s
         /\ \A d, e \in 0 .. cap - 1 : Slot(cap, k, d) = Slot(cap, k, e) => d = e
<1> DEFINE h == Home(cap, k)
<1>1. h \in 0 .. cap - 1
  BY HomeInRange
<1> HIDE DEF h
<1>2. ASSUME NEW s \in 0 .. cap - 1
      PROVE  \E d \in 0 .. cap - 1 : Step(cap, h, d) = s
  <2>1. CASE h <= s
    <3>1. s - h \in 0 .. cap - 1 /\ Step(cap, h, s - h) = s
      BY <1>1, <2>1 DEF Step
    <3> QED BY <3>1
  <2>2. CASE s < h
    <3>1. s + cap - h \in 0 .. cap - 1 /\ Step(cap, h, s + cap - h) = s
      BY <1>1, <2>2 DEF Step
    <3> QED BY <3>1
  <2> QED BY <1>1, <2>1, <2>2
<1>3. \A d \in 0 .. cap - 1 : Step(cap, h, d) \in 0 .. cap - 1
  BY <1>1 DEF Step
<1>4. \A d, e \in 0 .. cap - 1 : Step(cap, h, d) = Step(cap, h, e) => d = e
  BY <1>1 DEF Step
<1> QED BY <1>2, <1>3, <1>4 DEF Slot, h

\* If a probe can stop, it has a first stop, and ProbeLength is it.
LEMMA FirstStop ==
  ASSUME NEW cap \in Nat, NEW es, NEW k,
         \E d \in 0 .. cap - 1 : Stops(es, cap, k, d)
  PROVE  LET n == ProbeLength(es, cap, k)
         IN  /\ n \in 0 .. cap - 1
             /\ Stops(es, cap, k, n)
             /\ \A e \in 0 .. n - 1 : ~ Stops(es, cap, k, e)
<1> DEFINE T == {d \in 0 .. cap - 1 : Stops(es, cap, k, d)}
<1>0. T \subseteq Nat /\ T # {}
  OBVIOUS
<1>1. PICK x \in T : \A y \in T : x <= y
  BY Zenon, <1>0, LeastNatural
<1>2. \A e \in 0 .. x - 1 : ~ Stops(es, cap, k, e)
  BY <1>1
<1>3. x \in 0 .. cap - 1 /\ Stops(es, cap, k, x)
  BY <1>1
<1>4. \E d \in 0 .. cap - 1 : /\ Stops(es, cap, k, d)
                              /\ \A e \in 0 .. d - 1 : ~ Stops(es, cap, k, e)
  BY <1>2, <1>3
<1> QED BY <1>4 DEF ProbeLength

\* What find_entry returns: a slot on the probe of k, reached without a stop,
\* that holds k when some slot does and is unused otherwise.
LEMMA FindEntryFinds ==
  ASSUME NEW cap \in Nat, cap # 0, NEW es \in [0 .. cap - 1 -> Entry],
         NEW k \in Key, ChainWhole(es, cap),
         \E d \in 0 .. cap - 1 : Stops(es, cap, k, d)
  PROVE  LET s == FindEntry(es, cap, k)
         IN  /\ s \in 0 .. cap - 1
             /\ \E n \in 0 .. cap - 1 :
                  /\ s = Slot(cap, k, n)
                  /\ \A e \in 0 .. n - 1 : ~ Stops(es, cap, k, e)
             /\ \/ es[s].key = k
                \/ es[s].key = Empty /\ \A r \in 0 .. cap - 1 : es[r].key # k
<1> DEFINE n == ProbeLength(es, cap, k)
           graves == {d \in 0 .. n - 1 : Tombs(es, cap, k, d)}
           g == CHOOSE d \in graves : \A e \in graves : d <= e
           s == FindEntry(es, cap, k)
<1>1. /\ n \in 0 .. cap - 1
      /\ Stops(es, cap, k, n)
      /\ \A e \in 0 .. n - 1 : ~ Stops(es, cap, k, e)
  BY FirstStop
<1>2. \A d \in 0 .. cap - 1 : Slot(cap, k, d) \in 0 .. cap - 1
  BY ProbeCovers
<1>3. ASSUME es[Slot(cap, k, n)].key # k, NEW r \in 0 .. cap - 1, es[r].key = k
      PROVE  FALSE
  <2>1. PICK d \in 0 .. cap - 1 : Slot(cap, k, d) = r
    BY ProbeCovers
  <2>2. \A e \in 0 .. d - 1 : ~ Stops(es, cap, k, e)
    BY <1>3, <2>1 DEF ChainWhole
  <2>3. Stops(es, cap, k, d)
    BY <1>3, <2>1 DEF Stops
  <2>4. d = n
    BY <1>1, <2>2, <2>3
  <2> QED BY <1>3, <2>1, <2>4
<1>4. es[Slot(cap, k, n)].key # k => es[Slot(cap, k, n)].key = Empty
  BY <1>1 DEF Stops, Pristine
<1>5. CASE es[Slot(cap, k, n)].key = k \/ graves = {}
  <2>1. s = Slot(cap, k, n)
    BY <1>5 DEF FindEntry
  <2> QED BY Zenon, <2>1, <1>1, <1>2, <1>3, <1>4
<1>6. CASE ~ (es[Slot(cap, k, n)].key = k \/ graves = {})
  <2>0. graves \subseteq Nat
    BY <1>1
  <2>1. \E d \in graves : \A e \in graves : d <= e
    BY Zenon, <1>6, <2>0, LeastNatural
  <2>2. g \in graves
    BY <2>1
  <2>3. s = Slot(cap, k, g)
    BY <1>6 DEF FindEntry
  <2>4. g \in 0 .. cap - 1 /\ es[s].key = Empty
    BY <1>1, <2>2, <2>3 DEF Tombs
  <2>5. \A e \in 0 .. g - 1 : ~ Stops(es, cap, k, e)
    BY <1>1, <2>2
  <2> QED BY Zenon, <2>3, <2>4, <2>5, <1>2, <1>3, <1>6
<1> QED BY <1>5, <1>6

\* The number of used slots is a number.
LEMMA UsedFinite ==
  ASSUME NEW cap \in Nat, NEW es
  PROVE  IsFiniteSet(Used(es, cap)) /\ Cardinality(Used(es, cap)) \in Nat
<1>1. IsFiniteSet(0 .. cap - 1)
  BY FS_Interval
<1>2. Used(es, cap) \subseteq 0 .. cap - 1
  BY DEF Used
<1>3. IsFiniteSet(Used(es, cap))
  BY <1>1, <1>2, FS_Subset
<1> QED BY <1>3, FS_CardinalityType

\* With a pristine slot somewhere, every probe stops.
LEMMA RoomStops ==
  ASSUME NEW cap \in Nat, NEW es, NEW k \in Key,
         Cardinality(Used(es, cap)) < cap
  PROVE  \E d \in 0 .. cap - 1 : Stops(es, cap, k, d)
<1>1. cap # 0
  BY UsedFinite
<1>2. Cardinality(0 .. cap - 1) = cap
  BY FS_Interval, <1>1
<1>3. Used(es, cap) # 0 .. cap - 1
  BY <1>2
<1>4. PICK s \in 0 .. cap - 1 : es[s] = Pristine
  BY <1>3 DEF Used
<1>5. PICK d \in 0 .. cap - 1 : Slot(cap, k, d) = s
  BY <1>1, ProbeCovers
<1> QED BY <1>4, <1>5 DEF Stops
------------------------------------------------------------------------------
(* Storing into a slot and burying one *)

\* Writing an entry into one unused slot, or over one entry, changes the
\* number of used slots by what table_set adds to count.
LEMMA WriteCounts ==
  ASSUME NEW cap \in Nat, NEW es \in [0 .. cap - 1 -> Entry],
         NEW s \in 0 .. cap - 1, NEW x, x # Pristine
  PROVE  Cardinality(Used([es EXCEPT ![s] = x], cap)) =
           IF es[s] = Pristine THEN Cardinality(Used(es, cap)) + 1
                               ELSE Cardinality(Used(es, cap))
<1>1. Used([es EXCEPT ![s] = x], cap) = Used(es, cap) \cup {s}
  BY DEF Used
<1>2. s \in Used(es, cap) <=> es[s] # Pristine
  BY DEF Used
<1> QED BY Zenon, <1>1, <1>2, UsedFinite, FS_AddElement

\* The store at the end of table_set keeps every chain whole.
LEMMA StoreKeepsChains ==
  ASSUME NEW cap \in Nat, cap # 0, NEW es \in [0 .. cap - 1 -> Entry],
         NEW k \in Key, NEW v \in Value \cup {Nil, True},
         ChainWhole(es, cap),
         \E d \in 0 .. cap - 1 : Stops(es, cap, k, d)
  PROVE  LET es2 == [es EXCEPT ![FindEntry(es, cap, k)] = [key |-> k, value |-> v]]
         IN  es2 \in [0 .. cap - 1 -> Entry] /\ ChainWhole(es2, cap)
<1> DEFINE s == FindEntry(es, cap, k)
           x == [key |-> k, value |-> v]
           es2 == [es EXCEPT ![s] = x]
<1>1. PICK n \in 0 .. cap - 1 :
        /\ s \in 0 .. cap - 1
        /\ s = Slot(cap, k, n)
        /\ \A e \in 0 .. n - 1 : ~ Stops(es, cap, k, e)
        /\ \/ es[s].key = k
           \/ es[s].key = Empty /\ \A r \in 0 .. cap - 1 : es[r].key # k
  BY FindEntryFinds
<1> HIDE DEF s
<1>2. x \in Entry /\ x # Pristine /\ x.key = k
  BY TableAssumption DEF Entry, Pristine
<1> HIDE DEF x
<1>3. es2 \in [0 .. cap - 1 -> Entry]
  BY Zenon, <1>2
<1>4. \A r \in 0 .. cap - 1 : es2[r] = IF r = s THEN x ELSE es[r]
  BY <1>1
<1>5. \A j \in Key : \A d \in 0 .. cap - 1 : Slot(cap, j, d) \in 0 .. cap - 1
  BY ProbeCovers
<1> HIDE DEF es2
<1>6. ASSUME NEW j \in Key, NEW d \in 0 .. cap - 1, es2[Slot(cap, j, d)].key = j,
             NEW e \in 0 .. d - 1, Stops(es2, cap, j, e)
      PROVE  FALSE
  <2>1. e \in 0 .. cap - 1 /\ e # d
    OBVIOUS
  <2>2. CASE j = k
    <3>1. Slot(cap, k, d) = s
      <4>1. CASE es[s].key = k
        <5>1. Slot(cap, k, d) # s => es[Slot(cap, k, d)].key = k
          BY Zenon, <1>4, <1>5, <1>6, <2>2
        <5>2. es[Slot(cap, k, n)].key = k
          BY <1>1, <4>1
        <5>3. ASSUME es[Slot(cap, k, d)].key = k PROVE d = n
          <6>1. Stops(es, cap, k, d) /\ Stops(es, cap, k, n)
            BY <5>2, <5>3 DEF Stops
          <6>2. /\ \A f \in 0 .. d - 1 : ~ Stops(es, cap, k, f)
                /\ \A f \in 0 .. n - 1 : ~ Stops(es, cap, k, f)
            BY <5>2, <5>3 DEF ChainWhole
          <6> QED BY <6>1, <6>2
        <5> QED BY <5>1, <5>3, <1>1
      <4>2. CASE \A r \in 0 .. cap - 1 : es[r].key # k
        BY Zenon, <1>4, <1>5, <1>6, <2>2, <4>2
      <4> QED BY <4>1, <4>2, <1>1
    <3>2. d = n
      BY <3>1, <1>1, ProbeCovers
    <3>3. Slot(cap, k, e) # s
      BY <3>1, <2>1, ProbeCovers
    <3>4. es2[Slot(cap, k, e)] = es[Slot(cap, k, e)]
      BY Zenon, <3>3, <1>4, <1>5, <2>1
    <3>5. Stops(es, cap, k, e)
      BY <3>4, <1>6, <2>2 DEF Stops
    <3> QED BY <3>2, <3>5, <1>1
  <2>3. CASE j # k
    <3>1. Slot(cap, j, d) # s /\ es[Slot(cap, j, d)].key = j
      BY Zenon, <1>2, <1>4, <1>5, <1>6, <2>3
    <3>2. Slot(cap, j, e) # s
      BY Zenon, <1>2, <1>4, <1>5, <1>6, <2>1, <2>3 DEF Stops
    <3>3. Stops(es, cap, j, e)
      BY Zenon, <3>2, <1>4, <1>5, <1>6, <2>1 DEF Stops
    <3> QED BY <3>1, <3>3 DEF ChainWhole
  <2> QED BY <2>2, <2>3
<1>7. ChainWhole(es2, cap)
  BY <1>6 DEF ChainWhole
<1> QED BY <1>3, <1>7 DEF es2, x, s

\* The tombstone table_delete leaves keeps every chain whole.
LEMMA BuryKeepsChains ==
  ASSUME NEW cap \in Nat, cap # 0, NEW es \in [0 .. cap - 1 -> Entry],
         NEW s \in 0 .. cap - 1, es[s].key # Empty, ChainWhole(es, cap)
  PROVE  LET es2 == [es EXCEPT ![s] = Tombstone]
         IN  es2 \in [0 .. cap - 1 -> Entry] /\ ChainWhole(es2, cap)
<1> DEFINE es2 == [es EXCEPT ![s] = Tombstone]
<1>1. Tombstone \in Entry /\ Tombstone # Pristine /\ Tombstone.key \notin Key
  BY TableAssumption DEF Entry, Pristine, Tombstone
<1>2. es2 \in [0 .. cap - 1 -> Entry]
  BY <1>1
<1>3. \A r \in 0 .. cap - 1 : es2[r] = IF r = s THEN Tombstone ELSE es[r]
  OBVIOUS
<1>4. \A j \in Key : \A d \in 0 .. cap - 1 : Slot(cap, j, d) \in 0 .. cap - 1
  BY Zenon, ProbeCovers
<1> HIDE DEF es2
<1>5. ASSUME NEW j \in Key, NEW d \in 0 .. cap - 1, es2[Slot(cap, j, d)].key = j,
             NEW e \in 0 .. d - 1, Stops(es2, cap, j, e)
      PROVE  FALSE
  <2>1. e \in 0 .. cap - 1
    OBVIOUS
  <2>2. es[Slot(cap, j, d)].key = j
    BY Zenon, <1>1, <1>3, <1>4, <1>5
  <2>3. Slot(cap, j, e) # s
    BY Zenon, <1>1, <1>3, <1>4, <1>5, <2>1 DEF Stops
  <2>4. Stops(es, cap, j, e)
    BY Zenon, <1>3, <1>4, <1>5, <2>1, <2>3 DEF Stops
  <2> QED BY <2>2, <2>4 DEF ChainWhole
<1> QED BY Zenon, <1>2, <1>5 DEF ChainWhole, es2
------------------------------------------------------------------------------
(* The inductive invariant *)

\* TABLE_MAX_LOAD leaves a slot free, and doubling the capacity makes room for
\* as many entries as there were slots and one more.
LEMMA LoadLeavesRoom ==
  /\ MaxLoad(0) = 0
  /\ \A cap \in Nat : cap >= 4 => MaxLoad(cap) \in Nat /\ MaxLoad(cap) < cap
  /\ \A cap \in Nat : cap = 0 \/ cap >= 4 => cap + 1 <= MaxLoad(GrowCapacity(cap))
BY SMTT(30), SMTT(60), SMTT(90) DEF MaxLoad, GrowCapacity

\* A table after init_table satisfies the inductive invariant.
LEMMA InitIInv == Init => IInv
<1> SUFFICES ASSUME Init PROVE IInv
  OBVIOUS
<1> USE DEF Init, NoEntries, NewEntries
<1>1. TypeOK /\ RoomToGrow /\ RehashKeepsEntries
  BY DEF TypeOK, RoomToGrow, RehashKeepsEntries
<1>2. NoLostKey
  BY DEF NoLostKey, ChainWhole
<1>3. CountsUsedSlots
  <2>1. Used(entries, capacity) = {}
    BY DEF Used
  <2>2. Cardinality(Used(entries, capacity)) = 0
    BY <2>1, FS_EmptySet
  <2> QED BY <2>2, LoadLeavesRoom DEF CountsUsedSlots
<1> QED BY <1>1, <1>2, <1>3 DEF IInv

\* Outside adjust_capacity the table has a pristine slot, unless it has no
\* slot at all.
LEMMA ReadyHasRoom ==
  ASSUME IInv, pc = "ready"
  PROVE  /\ capacity # 0 => Cardinality(Used(entries, capacity)) < capacity
         /\ capacity = 0 => count = 0
         /\ ~ Overloaded(count, capacity) => capacity # 0
BY LoadLeavesRoom DEF IInv, TypeOK, CountsUsedSlots, RoomToGrow, Overloaded

\* So does the array adjust_capacity fills, and the entry it moves next is
\* not in it yet.
LEMMA MovingHasRoom ==
  ASSUME IInv, pc = "moving"
  PROVE  LET cap == GrowCapacity(capacity)
         IN  /\ cap \in Nat /\ cap >= 4
             /\ Cardinality(Used(fresh, cap)) < cap
             /\ count + 1 <= MaxLoad(cap)
BY LoadLeavesRoom DEF IInv, TypeOK, CountsUsedSlots, RoomToGrow, GrowCapacity

\* The tail of table_set re-establishes everything that holds between calls.
LEMMA StoreIInv ==
  ASSUME NEW cap \in Nat, cap >= 4, NEW es \in [0 .. cap - 1 -> Entry],
         NEW n \in Nat, NEW k \in Key, NEW v \in Value,
         ChainWhole(es, cap), n = Cardinality(Used(es, cap)), n < cap,
         n + 1 <= MaxLoad(cap),
         cursor' = 0, pc' = "ready",
         Store(es, cap, n, k, v)
  PROVE  IInv'
<1> DEFINE s == FindEntry(es, cap, k)
           x == [key |-> k, value |-> v]
           es2 == [es EXCEPT ![s] = x]
<1>0. v \in Value \cup {Nil, True} /\ cap # 0
  OBVIOUS
<1>1. \E d \in 0 .. cap - 1 : Stops(es, cap, k, d)
  BY RoomStops
<1>2. es2 \in [0 .. cap - 1 -> Entry] /\ ChainWhole(es2, cap)
  BY Zenon, <1>0, <1>1, StoreKeepsChains
<1>3. s \in 0 .. cap - 1
  BY <1>1, FindEntryFinds
<1>4. x # Pristine
  BY TableAssumption DEF Pristine
<1>5. Cardinality(Used(es2, cap)) = IF es[s] = Pristine THEN n + 1 ELSE n
  BY ZenonT(60), <1>3, <1>4, WriteCounts
<1>6. /\ entries' = es2 /\ capacity' = cap
      /\ count' = IF es[s] = Pristine THEN n + 1 ELSE n
  BY DEF Store
<1> HIDE DEF es2, s, x
<1>7. TypeOK'
  BY <1>2, <1>6 DEF TypeOK
<1>8. NoLostKey'
  BY <1>2, <1>6 DEF NoLostKey
<1>9. CountsUsedSlots'
  <2>1. count' = Cardinality(Used(es2, cap)) /\ count' <= MaxLoad(cap)
    BY <1>5, <1>6, LoadLeavesRoom
  <2> QED BY <1>6, <2>1 DEF CountsUsedSlots
<1>10. RehashKeepsEntries' /\ RoomToGrow'
  BY <1>6 DEF RehashKeepsEntries, RoomToGrow
<1> QED BY <1>7, <1>8, <1>9, <1>10 DEF IInv

\* One iteration of adjust_capacity: the entry moved is new to the array.
LEMMA MoveEntryIInv ==
  ASSUME IInv, MoveEntry
  PROVE  IInv'
<1> DEFINE cap == GrowCapacity(capacity)
           entry == entries[cursor]
           k == entry.key
           s == FindEntry(fresh, cap, k)
           es2 == [fresh EXCEPT ![s] = entry]
<1>1. /\ pc = "moving" /\ pc' = pc /\ entries' = entries /\ capacity' = capacity
      /\ cursor \in 0 .. capacity - 1 /\ cursor' = cursor + 1
      /\ pending' = pending
  BY DEF MoveEntry, IInv, TypeOK
<1>2. cap \in Nat /\ cap >= 4 /\ Cardinality(Used(fresh, cap)) < cap
  BY <1>1, MovingHasRoom
<1>3. /\ capacity \in Nat /\ entries \in [0 .. capacity - 1 -> Entry]
      /\ fresh \in [0 .. cap - 1 -> Entry] /\ count \in Nat
      /\ ChainWhole(entries, capacity) /\ ChainWhole(fresh, cap)
      /\ count = Cardinality(Used(fresh, cap)) /\ count <= cursor
      /\ \A r \in 0 .. cap - 1 : fresh[r].key = Empty => fresh[r] = Pristine
      /\ {fresh[i] : i \in {r \in 0 .. cap - 1 : fresh[r].key # Empty}}
           = {entries[i] : i \in {r \in 0 .. cursor - 1 : entries[r].key # Empty}}
  BY Zenon, <1>1 DEF IInv, TypeOK, NoLostKey, CountsUsedSlots, RehashKeepsEntries, RoomToGrow
<1>4. entry \in Entry
  BY <1>1, <1>3
<1> HIDE DEF cap
<1>5. CASE k = Empty
  <2>1. fresh' = fresh /\ count' = count
    BY <1>5 DEF MoveEntry
  <2>2. {r \in 0 .. cursor' - 1 : entries[r].key # Empty}
          = {r \in 0 .. cursor - 1 : entries[r].key # Empty}
    BY <1>1, <1>5
  <2>3. TypeOK' /\ NoLostKey' /\ CountsUsedSlots' /\ RoomToGrow'
    BY <1>1, <2>1 DEF IInv, TypeOK, NoLostKey, CountsUsedSlots, RoomToGrow
  <2>4. RehashKeepsEntries'
    <3> DEFINE Stored(es, n) == {es[i] : i \in {r \in 0 .. n - 1 : es[r].key # Empty}}
    <3>1. Stored(fresh, cap) = Stored(entries, cursor')
      BY Zenon, <1>3, <2>2
    <3>2. GrowCapacity(capacity') = cap
      BY <1>1 DEF cap
    <3> HIDE DEF Stored
    <3>3. Stored(fresh', GrowCapacity(capacity')) = Stored(entries', cursor')
      BY <1>1, <2>1, <3>1, <3>2
    <3> QED BY Zenon, <3>3 DEF RehashKeepsEntries, Stored
  <2> QED BY <2>3, <2>4 DEF IInv
<1>6. CASE k # Empty
  <2>1. fresh' = es2 /\ count' = count + 1
    BY <1>6 DEF MoveEntry, cap
  <2>2. k \in Key
    BY <1>4, <1>6 DEF Entry
  <2>3. ASSUME NEW r \in 0 .. cap - 1, fresh[r].key = k PROVE FALSE
    <3>1. PICK i \in 0 .. cursor - 1 : entries[i].key = k
      BY <1>3, <1>6, <2>3
    <3>2. i \in 0 .. capacity - 1 /\ i # cursor /\ capacity # 0
      BY <1>1, <1>3
    <3>3. PICK d \in 0 .. capacity - 1 : Slot(capacity, k, d) = i
      BY <1>3, <2>2, <3>2, ProbeCovers
    <3>4. PICK e \in 0 .. capacity - 1 : Slot(capacity, k, e) = cursor
      BY <1>1, <1>3, <2>2, <3>2, ProbeCovers
    <3>5. Stops(entries, capacity, k, d) /\ Stops(entries, capacity, k, e)
      BY <3>1, <3>3, <3>4 DEF Stops
    <3>6. /\ \A f \in 0 .. d - 1 : ~ Stops(entries, capacity, k, f)
          /\ \A f \in 0 .. e - 1 : ~ Stops(entries, capacity, k, f)
      BY <1>3, <2>2, <3>1, <3>3, <3>4 DEF ChainWhole
    <3>7. d = e
      BY <3>5, <3>6
    <3> QED BY <3>2, <3>3, <3>4, <3>7
  <2>4. \E d \in 0 .. cap - 1 : Stops(fresh, cap, k, d)
    BY <1>2, <2>2, RoomStops
  <2>5. s \in 0 .. cap - 1 /\ (fresh[s].key = k \/ fresh[s].key = Empty)
    BY SMTT(30), SMTT(60), SMTT(90), <1>2, <1>3, <2>2, <2>4, FindEntryFinds
  <2>6. fresh[s] = Pristine
    BY <1>3, <2>3, <2>5
  <2>7. entry = [key |-> k, value |-> entry.value] /\ entry.value \in Value \cup {Nil, True}
    BY <1>4 DEF Entry
  <2>8. es2 \in [0 .. cap - 1 -> Entry] /\ ChainWhole(es2, cap)
    <3> DEFINE es3 == [fresh EXCEPT ![s] = [key |-> k, value |-> entry.value]]
    <3>1. es3 \in [0 .. cap - 1 -> Entry] /\ ChainWhole(es3, cap)
      <4> HIDE DEF entry
      <4>1. cap # 0
        BY <1>2
      <4> QED BY Zenon, <1>2, <1>3, <2>2, <2>4, <2>7, <4>1, StoreKeepsChains
    <3>2. es3 = es2
      BY Zenon, <2>7
    <3> QED BY <3>1, <3>2
  <2>9. entry # Pristine
    BY <1>6 DEF Pristine
  <2> HIDE DEF s, k, entry
  <2>10. Cardinality(Used(es2, cap)) = count + 1
    <3>1. Cardinality(Used(es2, cap)) = Cardinality(Used(fresh, cap)) + 1
      BY Zenon, <1>2, <1>3, <2>5, <2>6, <2>9, WriteCounts
    <3> QED BY <1>3, <3>1
  <2>11. \A r \in 0 .. cap - 1 : es2[r] = IF r = s THEN entry ELSE fresh[r]
    BY <1>3, <2>5
  <2>12. fresh[s].key = Empty /\ entry.key # Empty
    BY <2>6, <1>6 DEF Pristine, k
  <2>13. {es2[i] : i \in {r \in 0 .. cap - 1 : es2[r].key # Empty}}
           = {fresh[i] : i \in {r \in 0 .. cap - 1 : fresh[r].key # Empty}} \cup {entry}
    BY <2>5, <2>11, <2>12
  <2>14. {entries[i] : i \in {r \in 0 .. cursor' - 1 : entries[r].key # Empty}}
           = {entries[i] : i \in {r \in 0 .. cursor - 1 : entries[r].key # Empty}} \cup {entry}
    BY <1>1, <2>12 DEF entry
  <2> HIDE DEF es2
  <2>15. TypeOK'
    BY <1>1, <1>3, <2>1, <2>8 DEF IInv, TypeOK, cap
  <2>16. NoLostKey' /\ CountsUsedSlots'
    BY <1>1, <1>3, <2>1, <2>8, <2>10 DEF NoLostKey, CountsUsedSlots, cap
  <2>17. RoomToGrow'
    BY <1>1, <1>3, <2>1, <2>11, <2>12 DEF IInv, RoomToGrow, cap
  <2>18. RehashKeepsEntries'
    <3> DEFINE Stored(es, n) == {es[i] : i \in {r \in 0 .. n - 1 : es[r].key # Empty}}
    <3>1. Stored(es2, cap) = Stored(entries, cursor')
      BY Zenon, <1>3, <2>13, <2>14
    <3>2. GrowCapacity(capacity') = cap
      BY <1>1 DEF cap
    <3> HIDE DEF Stored
    <3>3. Stored(fresh', GrowCapacity(capacity')) = Stored(entries', cursor')
      BY <1>1, <2>1, <3>1, <3>2
    <3> QED BY Zenon, <3>3 DEF RehashKeepsEntries, Stored
  <2> QED BY <2>15, <2>16, <2>17, <2>18 DEF IInv
<1> QED BY <1>5, <1>6

\* Every call on the table, and every turn of adjust_capacity, preserves it.
LEMMA NextIInv == IInv /\ [Next]_vars => IInv'
<1> SUFFICES ASSUME IInv, [Next]_vars PROVE IInv'
  OBVIOUS
<1>1. ASSUME NEW k \in Key, TableGet(k) PROVE IInv'
  BY <1>1 DEF TableGet, tableVars, growVars, IInv, TypeOK, NoLostKey,
              CountsUsedSlots, RehashKeepsEntries, RoomToGrow
<1>2. ASSUME NEW k \in Key, NEW v \in Value, TableSet(k, v) PROVE IInv'
  <2>1. pc = "ready" /\ capacity # 0 /\ Cardinality(Used(entries, capacity)) < capacity
    BY <1>2, ReadyHasRoom DEF TableSet
  <2>2. /\ capacity \in Nat /\ capacity >= 4 /\ count \in Nat
        /\ entries \in [0 .. capacity - 1 -> Entry]
        /\ ChainWhole(entries, capacity)
        /\ count = Cardinality(Used(entries, capacity)) /\ count < capacity
        /\ count + 1 <= MaxLoad(capacity)
    <3>1. /\ capacity \in Nat /\ count \in Nat /\ (capacity = 0 \/ capacity >= 4)
          /\ entries \in [0 .. capacity - 1 -> Entry]
          /\ count = Cardinality(Used(entries, capacity))
      BY <2>1 DEF IInv, TypeOK, CountsUsedSlots, RoomToGrow
    <3>2. ChainWhole(entries, capacity)
      BY <2>1 DEF IInv, NoLostKey
    <3>3. count + 1 <= MaxLoad(capacity)
      BY <1>2, <2>1, <3>1, LoadLeavesRoom DEF TableSet, Overloaded
    <3> QED BY <2>1, <3>1, <3>2, <3>3
  <2>3. cursor' = 0 /\ pc' = "ready"
    BY <1>2, <2>1 DEF IInv, RoomToGrow, TableSet, growVars
  <2> QED BY <1>2, <2>2, <2>3, StoreIInv DEF TableSet
<1>3. ASSUME NEW k \in Key, NEW v \in Value, TableSetGrows(k, v) PROVE IInv'
  <2> DEFINE cap == GrowCapacity(capacity)
  <2>1. /\ cap \in Nat /\ cap # 0 /\ entries' = entries /\ capacity' = capacity
        /\ fresh' = NewEntries(cap) /\ pc = "ready" /\ pc' = "moving"
        /\ cursor' = 0 /\ count' = 0
        /\ pending' = [key |-> k, value |-> v] /\ cap <= MaxCapacity
    BY <1>3 DEF TableSetGrows, IInv, TypeOK, GrowCapacity
  <2>2. /\ NewEntries(cap) \in [0 .. cap - 1 -> Entry]
        /\ \A s \in 0 .. cap - 1 : NewEntries(cap)[s] = Pristine
        /\ Pristine.key = Empty
    BY DEF NewEntries, Pristine, Entry
  <2>3. TypeOK'
    BY <2>1, <2>2 DEF IInv, TypeOK
  <2>4. NoLostKey'
    <3>1. ASSUME NEW j \in Key, NEW d \in 0 .. cap - 1
          PROVE  NewEntries(cap)[Slot(cap, j, d)].key # j
      <4> HIDE DEF cap
      <4>1. Slot(cap, j, d) \in 0 .. cap - 1
        BY <2>1, ProbeCovers
      <4> QED BY <2>2, <4>1, TableAssumption
    <3> QED BY <2>1, <3>1 DEF IInv, NoLostKey, ChainWhole
  <2>5. CountsUsedSlots'
    <3>1. Used(NewEntries(cap), cap) = {}
      BY <2>2 DEF Used
    <3> QED BY <2>1, <3>1, FS_EmptySet DEF CountsUsedSlots
  <2>6. RehashKeepsEntries'
    BY <2>1, <2>2 DEF RehashKeepsEntries
  <2>7. RoomToGrow'
    BY <2>1, <2>2 DEF IInv, RoomToGrow
  <2> QED BY <2>3, <2>4, <2>5, <2>6, <2>7 DEF IInv
<1>4. ASSUME MoveEntry PROVE IInv'
  BY <1>4, MoveEntryIInv
<1>5. ASSUME MoveDone PROVE IInv'
  <2> DEFINE cap == GrowCapacity(capacity)
  <2>1. pc = "moving"
    BY <1>5 DEF MoveDone
  <2>2. /\ cap \in Nat /\ cap >= 4 /\ Cardinality(Used(fresh, cap)) < cap
        /\ count + 1 <= MaxLoad(cap)
    BY <2>1, MovingHasRoom
  <2>3. /\ fresh \in [0 .. cap - 1 -> Entry] /\ count \in Nat
        /\ pending.key \in Key /\ pending.value \in Value
        /\ ChainWhole(fresh, cap) /\ count = Cardinality(Used(fresh, cap))
    BY <2>1 DEF IInv, TypeOK, NoLostKey, CountsUsedSlots
  <2>4. /\ Store(fresh, cap, count, pending.key, pending.value)
        /\ cursor' = 0 /\ pc' = "ready"
    BY <1>5 DEF MoveDone
  <2> HIDE DEF cap
  <2> QED BY <2>2, <2>3, <2>4, StoreIInv
<1>6. ASSUME NEW k \in Key, TableDelete(k) PROVE IInv'
  <2> DEFINE s == FindEntry(entries, capacity, k)
             es2 == [entries EXCEPT ![s] = Tombstone]
  <2>1. CASE ~ (count # 0 /\ entries[s].key # Empty)
    BY <1>6, <2>1 DEF TableDelete, growVars, IInv, TypeOK, NoLostKey,
                      CountsUsedSlots, RehashKeepsEntries, RoomToGrow
  <2>2. CASE count # 0 /\ entries[s].key # Empty
    <3>1. /\ entries' = es2 /\ capacity' = capacity /\ count' = count
          /\ pc = "ready" /\ pc' = pc /\ cursor' = cursor
      BY <1>6, <2>2 DEF TableDelete, growVars
    <3>2. capacity # 0 /\ Cardinality(Used(entries, capacity)) < capacity
      BY <2>2, <3>1, ReadyHasRoom
    <3>3. /\ capacity \in Nat /\ entries \in [0 .. capacity - 1 -> Entry]
          /\ ChainWhole(entries, capacity)
      BY DEF IInv, TypeOK, NoLostKey
    <3>4. s \in 0 .. capacity - 1
      BY <3>2, <3>3, RoomStops, FindEntryFinds
    <3> HIDE DEF s
    <3>5. es2 \in [0 .. capacity - 1 -> Entry] /\ ChainWhole(es2, capacity)
      BY Zenon, <2>2, <3>2, <3>3, <3>4, BuryKeepsChains
    <3>6. Tombstone # Pristine /\ entries[s] # Pristine
      BY <2>2, TableAssumption DEF Tombstone, Pristine
    <3>7. Cardinality(Used(es2, capacity)) = Cardinality(Used(entries, capacity))
      BY Zenon, <3>3, <3>4, <3>6, WriteCounts
    <3> HIDE DEF es2
    <3>8. TypeOK' /\ RoomToGrow' /\ RehashKeepsEntries'
      BY <3>1, <3>5 DEF IInv, TypeOK, RoomToGrow, RehashKeepsEntries
    <3>9. NoLostKey' /\ CountsUsedSlots'
      BY <3>1, <3>5, <3>7 DEF IInv, NoLostKey, CountsUsedSlots
    <3> QED BY <3>8, <3>9 DEF IInv
  <2> QED BY <2>1, <2>2
<1>7. ASSUME NEW v \in Value, TableFindKey(v) PROVE IInv'
  BY <1>7 DEF TableFindKey, tableVars, growVars, IInv, TypeOK, NoLostKey,
              CountsUsedSlots, RehashKeepsEntries, RoomToGrow
<1>8. ASSUME FreeTable PROVE IInv'
  <2>1. /\ entries' = [s \in 0 .. 0 - 1 |-> Pristine] /\ capacity' = 0
        /\ count' = 0 /\ pc = "ready" /\ pc' = pc /\ cursor' = cursor
    BY <1>8 DEF FreeTable, NoEntries, NewEntries, growVars
  <2>2. Used(entries', 0) = {}
    BY DEF Used
  <2>3. TypeOK' /\ RoomToGrow' /\ RehashKeepsEntries'
    BY <2>1 DEF IInv, TypeOK, RoomToGrow, RehashKeepsEntries
  <2>4. NoLostKey'
    BY <2>1 DEF NoLostKey, ChainWhole
  <2>5. CountsUsedSlots'
    <3>1. Cardinality(Used(entries', 0)) = 0
      BY <2>2, FS_EmptySet
    <3> QED BY <2>1, <3>1, LoadLeavesRoom DEF CountsUsedSlots
  <2> QED BY <2>3, <2>4, <2>5 DEF IInv
<1>9. CASE UNCHANGED vars
  BY ZenonT(60), <1>9 DEF vars, IInv, TypeOK, NoLostKey, CountsUsedSlots,
              RehashKeepsEntries, RoomToGrow
<1> QED BY <1>1, <1>2, <1>3, <1>4, <1>5, <1>6, <1>7, <1>8, <1>9 DEF Next

\* The inductive invariant holds in every reachable state.
THEOREM Invariance == Spec => []IInv
<1> QED BY InitIInv, NextIInv, PTL DEF Spec

\* No probe for a stored key stops early, in the array in use or in the one
\* being filled: tombstones and growth never lose or double a key.
THEOREM NoKeyLost == Spec => []NoLostKey
<1>1. IInv => NoLostKey
  BY DEF IInv
<1> QED BY <1>1, Invariance, PTL

\* count is the number of used slots, tombstones included, and stays within
\* the load factor.
THEOREM CountExact == Spec => []CountsUsedSlots
<1>1. IInv => CountsUsedSlots
  BY DEF IInv
<1> QED BY <1>1, Invariance, PTL

\* The loop of adjust_capacity copies the live entries, no more and no fewer.
THEOREM RehashExact == Spec => []RehashKeepsEntries
<1>1. IInv => RehashKeepsEntries
  BY DEF IInv
<1> QED BY <1>1, Invariance, PTL

\* The loop of find_entry, which has no other exit, always has one.
THEOREM ProbesEnd == Spec => []ProbeEnds
<1>1. ASSUME IInv PROVE ProbeEnds
  <2>1. /\ capacity \in Nat /\ GrowCapacity(capacity) \in Nat
        /\ pc \in {"ready", "moving"}
    BY <1>1 DEF IInv, TypeOK, GrowCapacity
  <2>2. ASSUME pc = "ready", capacity # 0, NEW k \in Key
        PROVE  \E d \in 0 .. capacity - 1 : Stops(entries, capacity, k, d)
    BY <1>1, <2>1, <2>2, ReadyHasRoom, RoomStops
  <2>3. ASSUME pc = "moving", NEW k \in Key
        PROVE  \E d \in 0 .. GrowCapacity(capacity) - 1 :
                 Stops(fresh, GrowCapacity(capacity), k, d)
    BY <1>1, <2>1, <2>3, MovingHasRoom, RoomStops
  <2> QED BY <2>2, <2>3 DEF ProbeEnds
<1> QED BY <1>1, Invariance, PTL
------------------------------------------------------------------------------
(* The table implements the map *)

\* A key is stored in one slot only.
LEMMA OneSlot ==
  ASSUME NEW cap \in Nat, NEW es, NEW k \in Key, ChainWhole(es, cap),
         NEW r \in 0 .. cap - 1, NEW s \in 0 .. cap - 1,
         es[r].key = k, es[s].key = k
  PROVE  r = s
<1>1. cap # 0
  OBVIOUS
<1>2. PICK d \in 0 .. cap - 1 : Slot(cap, k, d) = r
  BY <1>1, ProbeCovers
<1>3. PICK e \in 0 .. cap - 1 : Slot(cap, k, e) = s
  BY <1>1, ProbeCovers
<1>4. Stops(es, cap, k, d) /\ Stops(es, cap, k, e)
  BY <1>2, <1>3 DEF Stops
<1>5. /\ \A f \in 0 .. d - 1 : ~ Stops(es, cap, k, f)
      /\ \A f \in 0 .. e - 1 : ~ Stops(es, cap, k, f)
  BY <1>2, <1>3 DEF ChainWhole
<1>6. d = e
  BY <1>4, <1>5
<1> QED BY <1>2, <1>3, <1>6

\* What a slot holds is what the map holds, and Absent means no slot.
LEMMA ContentsAt ==
  ASSUME NEW cap \in Nat, NEW es \in [0 .. cap - 1 -> Entry], NEW k \in Key,
         ChainWhole(es, cap)
  PROVE  /\ \A s \in 0 .. cap - 1 :
              es[s].key = k => ContentsOf(es, cap)[k] = es[s].value
         /\ ContentsOf(es, cap)[k] = Absent <=> \A s \in 0 .. cap - 1 : es[s].key # k
<1>1. ASSUME NEW s \in 0 .. cap - 1, es[s].key = k
      PROVE  ContentsOf(es, cap)[k] = es[s].value /\ es[s].value # Absent
  <2> DEFINE r == CHOOSE i \in 0 .. cap - 1 : es[i].key = k
  <2>1. r \in 0 .. cap - 1 /\ es[r].key = k
    BY <1>1
  <2>2. ContentsOf(es, cap)[k] = es[r].value
    BY <1>1 DEF ContentsOf
  <2> HIDE DEF r
  <2>3. r = s
    BY <1>1, <2>1, OneSlot
  <2>4. es[s].value \in Value \cup {Nil, True}
    BY DEF Entry
  <2> QED BY <2>2, <2>3, <2>4, HashTableAssumption
<1>2. ASSUME \A s \in 0 .. cap - 1 : es[s].key # k
      PROVE  ContentsOf(es, cap)[k] = Absent
  BY <1>2 DEF ContentsOf
<1> QED BY <1>1, <1>2

\* A key in no slot is absent.
LEMMA AbsentAt ==
  ASSUME NEW cap \in Nat, NEW es \in [0 .. cap - 1 -> Entry], NEW k \in Key,
         ChainWhole(es, cap), \A s \in 0 .. cap - 1 : es[s].key # k
  PROVE  ContentsOf(es, cap)[k] = Absent
BY ContentsAt

\* A table holds the value of the slot that has the key.
LEMMA ContentsHeld ==
  ASSUME NEW cap \in Nat, NEW es \in [0 .. cap - 1 -> Entry], ChainWhole(es, cap),
         NEW s \in 0 .. cap - 1, NEW k \in Key, es[s].key = k
  PROVE  ContentsOf(es, cap)[k] = es[s].value
BY ContentsAt

\* Two arrays with the same live entries hold the same map.
LEMMA SameContents ==
  ASSUME NEW cap1 \in Nat, NEW es1 \in [0 .. cap1 - 1 -> Entry], ChainWhole(es1, cap1),
         NEW cap2 \in Nat, NEW es2 \in [0 .. cap2 - 1 -> Entry], ChainWhole(es2, cap2),
         {es1[i] : i \in {r \in 0 .. cap1 - 1 : es1[r].key # Empty}}
           = {es2[i] : i \in {r \in 0 .. cap2 - 1 : es2[r].key # Empty}}
  PROVE  ContentsOf(es1, cap1) = ContentsOf(es2, cap2)
<1>1. ASSUME NEW k \in Key PROVE ContentsOf(es1, cap1)[k] = ContentsOf(es2, cap2)[k]
  <2>1. k # Empty
    BY TableAssumption
  <2>2. CASE \E s \in 0 .. cap1 - 1 : es1[s].key = k
    <3>1. PICK s \in 0 .. cap1 - 1 : es1[s].key = k
      BY <2>2
    <3>2. PICK t \in 0 .. cap2 - 1 : es2[t] = es1[s]
      BY Zenon, <2>1, <3>1
    <3>3. ContentsOf(es1, cap1)[k] = es1[s].value
      BY <3>1, ContentsHeld, Zenon
    <3>4. ContentsOf(es2, cap2)[k] = es2[t].value
      <4>1. es2[t].key = k
        BY <3>1, <3>2, Zenon
      <4> QED BY <4>1, ContentsHeld, Zenon
    <3> QED BY <3>2, <3>3, <3>4
  <2>3. CASE \A s \in 0 .. cap1 - 1 : es1[s].key # k
    <3>1. \A t \in 0 .. cap2 - 1 : es2[t].key # k
      BY <2>1, <2>3
    <3>2. ContentsOf(es1, cap1)[k] = Absent
      BY Zenon, <2>3, AbsentAt
    <3>3. ContentsOf(es2, cap2)[k] = Absent
      BY Zenon, <3>1, AbsentAt
    <3> QED BY <3>2, <3>3
  <2> QED BY <2>2, <2>3
<1>2. /\ ContentsOf(es1, cap1) = [k \in Key |-> ContentsOf(es1, cap1)[k]]
      /\ ContentsOf(es2, cap2) = [k \in Key |-> ContentsOf(es2, cap2)[k]]
  BY DEF ContentsOf
<1> QED BY <1>1, <1>2

\* Overwriting the slot find_entry returned, or an entry of k, changes the map
\* at k alone.
LEMMA WriteContents ==
  ASSUME NEW cap \in Nat, NEW es \in [0 .. cap - 1 -> Entry], ChainWhole(es, cap),
         NEW s \in 0 .. cap - 1, NEW k \in Key, NEW x \in Entry,
         es[s].key \in {k, Empty}, x.key \in {k, Empty},
         \A r \in 0 .. cap - 1 : r # s => es[r].key # k,
         NEW es2 \in [0 .. cap - 1 -> Entry], ChainWhole(es2, cap),
         \A r \in 0 .. cap - 1 : es2[r] = IF r = s THEN x ELSE es[r]
  PROVE  ContentsOf(es2, cap) =
           [ContentsOf(es, cap) EXCEPT ![k] = IF x.key = k THEN x.value ELSE Absent]
<1>1. ASSUME NEW j \in Key
      PROVE  /\ \A r \in 0 .. cap - 1 :
                  es2[r].key = j => ContentsOf(es2, cap)[j] = es2[r].value
             /\ (\A r \in 0 .. cap - 1 : es2[r].key # j) => ContentsOf(es2, cap)[j] = Absent
  <2>1. /\ \A r \in 0 .. cap - 1 :
             es2[r].key = j => ContentsOf(es2, cap)[j] = es2[r].value
        /\ ContentsOf(es2, cap)[j] = Absent <=> \A r \in 0 .. cap - 1 : es2[r].key # j
    BY SMTT(30), SMTT(60), SMTT(90), ContentsAt
  <2> QED BY <2>1, Zenon
<1>2. ContentsOf(es2, cap)[k] = IF x.key = k THEN x.value ELSE Absent
  <2>1. CASE x.key = k
    BY <1>1, <2>1
  <2>2. CASE x.key # k
    BY <1>1, <2>2
  <2> QED BY <2>1, <2>2
<1>3. ASSUME NEW j \in Key, j # k PROVE ContentsOf(es2, cap)[j] = ContentsOf(es, cap)[j]
  <2>1. j # Empty
    BY TableAssumption
  <2>2. \A r \in 0 .. cap - 1 : es2[r].key = j <=> es[r].key = j
    BY <1>3, <2>1
  <2>3. CASE \E r \in 0 .. cap - 1 : es[r].key = j
    <3>1. PICK r \in 0 .. cap - 1 : es[r].key = j
      BY <2>3
    <3>2. es2[r] = es[r]
      BY <1>3, <2>1, <3>1
    <3>3. ContentsOf(es, cap)[j] = es[r].value
      BY <3>1, ContentsAt
    <3>4. ContentsOf(es2, cap)[j] = es2[r].value
      BY <1>1, <3>1, <3>2
    <3> QED BY <3>2, <3>3, <3>4
  <2>4. CASE \A r \in 0 .. cap - 1 : es[r].key # j
    <3>1. ContentsOf(es, cap)[j] = Absent
      BY <2>4, ContentsAt
    <3>2. ContentsOf(es2, cap)[j] = Absent
      BY <1>1, <2>2, <2>4
    <3> QED BY <3>1, <3>2
  <2> QED BY <2>3, <2>4
<1>4. /\ ContentsOf(es, cap) = [j \in Key |-> ContentsOf(es, cap)[j]]
      /\ ContentsOf(es2, cap) = [j \in Key |-> ContentsOf(es2, cap)[j]]
  BY DEF ContentsOf
<1> QED BY <1>2, <1>3, <1>4

\* What table_set answers when the table holds m.
SetReply(k, m) == [op |-> "set", key |-> k, isNew |-> m[k] = Absent]

\* What table_set does to the map, and what it returns.
LEMMA StoreContents ==
  ASSUME NEW cap \in Nat, cap # 0, NEW es \in [0 .. cap - 1 -> Entry],
         NEW n, NEW k \in Key, NEW v \in Value, ChainWhole(es, cap),
         Cardinality(Used(es, cap)) < cap,
         Store(es, cap, n, k, v)
  PROVE  /\ Contents' = [ContentsOf(es, cap) EXCEPT ![k] = v]
         /\ reply' = SetReply(k, ContentsOf(es, cap))
<1> DEFINE s == FindEntry(es, cap, k)
           x == [key |-> k, value |-> v]
           es2 == [es EXCEPT ![s] = x]
<1>1. \E d \in 0 .. cap - 1 : Stops(es, cap, k, d)
  BY RoomStops
<1>2. /\ s \in 0 .. cap - 1
      /\ \/ es[s].key = k
         \/ es[s].key = Empty /\ \A r \in 0 .. cap - 1 : es[r].key # k
  BY <1>1, FindEntryFinds
<1>3. ChainWhole(es2, cap)
  BY Zenon, <1>1, StoreKeepsChains, v \in Value \cup {Nil, True}
<1>4. /\ entries' = es2 /\ capacity' = cap
      /\ reply' = [op |-> "set", key |-> k, isNew |-> es[s].key = Empty]
  BY DEF Store
<1>5. x \in Entry /\ x.key = k /\ x.value = v /\ k # Empty
  BY TableAssumption DEF Entry
<1> HIDE DEF s, x
<1>6. \A r \in 0 .. cap - 1 : r # s => es[r].key # k
  BY <1>2, OneSlot
<1>7. ContentsOf(es2, cap) = [ContentsOf(es, cap) EXCEPT ![k] = v]
  <2>1. es[s].key \in {k, Empty} /\ x.key \in {k, Empty}
    BY <1>2, <1>5
  <2>2. /\ es2 \in [0 .. cap - 1 -> Entry]
        /\ \A r \in 0 .. cap - 1 : es2[r] = IF r = s THEN x ELSE es[r]
    BY <1>2, <1>5
  <2> HIDE DEF es2
  <2>3. ContentsOf(es2, cap) =
          [ContentsOf(es, cap) EXCEPT ![k] = IF x.key = k THEN x.value ELSE Absent]
    BY SMTT(30), SMTT(60), SMTT(90), <1>2, <1>3, <1>5, <1>6, <2>1, <2>2, WriteContents
  <2> QED BY <1>5, <2>3
<1>8. ContentsOf(es, cap)[k] = Absent <=> es[s].key = Empty
  <2>1. ContentsOf(es, cap)[k] = Absent <=> \A r \in 0 .. cap - 1 : es[r].key # k
    BY SMTT(30), SMTT(60), SMTT(90), ContentsAt
  <2> QED BY SMTT(30), SMTT(60), SMTT(90), <1>2, <1>5, <2>1
<1>9. (ContentsOf(es, cap)[k] = Absent) = (es[s].key = Empty)
  BY <1>8
<1> QED BY <1>4, <1>7, <1>9 DEF Contents, SetReply

\* A table after init_table is the empty map.
LEMMA InitMaps == Init => Abstract!MapInit
<1>1. Init => Contents = [k \in Key |-> Absent]
  BY DEF Init, Contents, ContentsOf
<1> QED BY <1>1 DEF Init, Abstract!MapInit

\* table_delete takes the key out of the map, and tells whether it was there.
LEMMA DeleteMaps ==
  ASSUME IInv, NEW k \in Key, TableDelete(k)
  PROVE  Abstract!MapNext
<1> DEFINE s == FindEntry(entries, capacity, k)
           gone == count # 0 /\ entries[s].key # Empty
           es2 == [entries EXCEPT ![s] = Tombstone]
<1>1. /\ capacity \in Nat /\ entries \in [0 .. capacity - 1 -> Entry]
      /\ ChainWhole(entries, capacity)
  BY DEF IInv, TypeOK, NoLostKey
<1>2. /\ pc = "ready" /\ capacity' = capacity
      /\ entries' = IF gone THEN es2 ELSE entries
      /\ reply' = [op |-> "delete", key |-> k, deleted |-> gone]
  BY DEF TableDelete
<1>3. count = 0 => \A r \in 0 .. capacity - 1 : entries[r].key # k
  <2>1. count = 0 => Used(entries, capacity) = {}
    BY <1>1, <1>2, UsedFinite, FS_EmptySet DEF IInv, CountsUsedSlots
  <2> QED BY <2>1, TableAssumption DEF Used, Pristine
<1>4. count # 0 => /\ s \in 0 .. capacity - 1
                   /\ \/ entries[s].key = k
                      \/ /\ entries[s].key = Empty
                         /\ \A r \in 0 .. capacity - 1 : entries[r].key # k
  <2>1. count # 0 => capacity # 0 /\ Cardinality(Used(entries, capacity)) < capacity
    BY <1>2, ReadyHasRoom
  <2> QED BY <1>1, <2>1, RoomStops, FindEntryFinds
<1>5. Contents[k] = Absent <=> \A r \in 0 .. capacity - 1 : entries[r].key # k
  BY <1>1, ContentsAt DEF Contents
<1>6. CASE ~ gone
  <2>1. Contents[k] = Absent
    BY <1>3, <1>4, <1>5, <1>6, TableAssumption
  <2>2. Contents' = Contents /\ Contents = [Contents EXCEPT ![k] = Absent]
    BY <1>2, <1>6, <2>1 DEF Contents, ContentsOf
  <2>3. Abstract!Delete(k)
    BY <1>2, <1>6, <2>1, <2>2 DEF Abstract!Delete
  <2> QED BY <2>3 DEF Abstract!MapNext
<1>7. CASE gone
  <2>1. s \in 0 .. capacity - 1 /\ entries[s].key = k
    BY <1>4, <1>7
  <2> HIDE DEF s
  <2>a. capacity # 0
    BY <1>1, <2>1
  <2>2. es2 \in [0 .. capacity - 1 -> Entry] /\ ChainWhole(es2, capacity)
    BY Zenon, <1>1, <1>7, <2>1, <2>a, BuryKeepsChains
  <2>3. \A r \in 0 .. capacity - 1 : es2[r] = IF r = s THEN Tombstone ELSE entries[r]
    BY <1>1, <2>1
  <2>4. \A r \in 0 .. capacity - 1 : r # s => entries[r].key # k
    BY <1>1, <2>1, OneSlot
  <2>5. Tombstone \in Entry /\ Tombstone.key = Empty /\ Empty # k
    BY TableAssumption DEF Tombstone, Entry
  <2> HIDE DEF es2
  <2>6. ContentsOf(es2, capacity) =
          [Contents EXCEPT ![k] = IF Tombstone.key = k THEN Tombstone.value ELSE Absent]
    BY SMTT(30), SMTT(60), SMTT(90), <1>1, <2>1, <2>2, <2>3, <2>4, <2>5, WriteContents DEF Contents
  <2>7. Contents' = [Contents EXCEPT ![k] = Absent]
    BY <1>2, <1>7, <2>5, <2>6 DEF Contents
  <2>8. Contents[k] # Absent
    BY <1>5, <2>1
  <2>9. Abstract!Delete(k)
    BY <1>2, <1>7, <2>7, <2>8 DEF Abstract!Delete
  <2> QED BY <2>9 DEF Abstract!MapNext
<1> QED BY <1>6, <1>7

\* Every step of the table is a step of the map or leaves it unchanged.
LEMMA NextMaps ==
  ASSUME IInv, [Next]_vars
  PROVE  [Abstract!MapNext]_(Abstract!mapVars)
<1> DEFINE M == ContentsOf(entries, capacity)
<1>1. /\ capacity \in Nat /\ entries \in [0 .. capacity - 1 -> Entry]
      /\ ChainWhole(entries, capacity) /\ pc \in {"ready", "moving"}
  BY DEF IInv, TypeOK, NoLostKey
<1>2. ASSUME NEW k \in Key, pc = "ready", count # 0
      PROVE  LET s == FindEntry(entries, capacity, k)
             IN  /\ s \in 0 .. capacity - 1
                 /\ \/ entries[s].key = k
                    \/ entries[s].key = Empty /\ \A r \in 0 .. capacity - 1 : entries[r].key # k
  <2>1. capacity # 0 /\ Cardinality(Used(entries, capacity)) < capacity
    BY <1>2, ReadyHasRoom
  <2>2. \E d \in 0 .. capacity - 1 : Stops(entries, capacity, k, d)
    BY <1>1, <2>1, RoomStops
  <2> QED BY <1>1, <2>1, <2>2, FindEntryFinds
<1>3. ASSUME NEW k \in Key, pc = "ready", count = 0
      PROVE  \A s \in 0 .. capacity - 1 : entries[s].key # k
  <2>1. Used(entries, capacity) = {}
    BY <1>1, <1>3, UsedFinite, FS_EmptySet DEF IInv, CountsUsedSlots
  <2> QED BY <2>1, TableAssumption DEF Used, Pristine
<1>4. Contents = M
  BY DEF Contents
<1>5. ASSUME NEW k \in Key, TableGet(k) PROVE Abstract!MapNext
  <2> DEFINE s == FindEntry(entries, capacity, k)
             a == IF count = 0 \/ entries[s].key = Empty THEN Absent ELSE entries[s].value
  <2>1. /\ pc = "ready" /\ Contents' = Contents
        /\ reply' = [op |-> "get", key |-> k, value |-> a]
    BY <1>5 DEF TableGet, tableVars, Found, Contents
  <2>2. a = M[k]
    <3>1. CASE count = 0
      BY SMTT(30), SMTT(60), SMTT(90), <1>1, <1>3, <2>1, <3>1, ContentsAt
    <3>2. CASE count # 0 /\ entries[s].key = Empty
      <4>1. \A r \in 0 .. capacity - 1 : entries[r].key # k
        BY <1>2, <2>1, <3>2, TableAssumption
      <4> QED BY <1>1, <3>2, <4>1, ContentsAt
    <3>3. CASE count # 0 /\ entries[s].key # Empty
      <4>1. s \in 0 .. capacity - 1 /\ entries[s].key = k
        BY <1>2, <2>1, <3>3
      <4>2. M[k] = entries[s].value
        BY <1>1, <4>1, ContentsAt
      <4> QED BY <3>3, <4>2
    <3> QED BY <3>1, <3>2, <3>3
  <2> HIDE DEF a, M
  <2>3. Abstract!Get(k)
    BY <1>4, <2>1, <2>2 DEF Abstract!Get
  <2> QED BY <2>3 DEF Abstract!MapNext
<1>6. ASSUME NEW k \in Key, NEW v \in Value, TableSet(k, v) PROVE Abstract!MapNext
  <2>1. /\ pc = "ready" /\ Store(entries, capacity, count, k, v)
        /\ capacity # 0 /\ Cardinality(Used(entries, capacity)) < capacity
    BY <1>6, ReadyHasRoom DEF TableSet
  <2>2. Contents' = [M EXCEPT ![k] = v] /\ reply' = SetReply(k, M)
    BY Zenon, <1>1, <2>1, StoreContents
  <2> HIDE DEF M
  <2>3. Abstract!Set(k, v)
    BY <1>4, <2>2 DEF SetReply, Abstract!Set
  <2> QED BY <2>3 DEF Abstract!MapNext
<1>7. ASSUME NEW k \in Key, NEW v \in Value, TableSetGrows(k, v)
      PROVE  UNCHANGED Abstract!mapVars
  BY <1>7 DEF TableSetGrows, Contents, Abstract!mapVars
<1>8. ASSUME MoveEntry PROVE UNCHANGED Abstract!mapVars
  BY <1>8 DEF MoveEntry, Contents, Abstract!mapVars
<1>9. ASSUME MoveDone PROVE Abstract!MapNext
  <2> DEFINE cap == GrowCapacity(capacity)
  <2>1. /\ pc = "moving" /\ cursor = capacity
        /\ Store(fresh, cap, count, pending.key, pending.value)
    BY <1>9 DEF MoveDone
  <2>2. cap \in Nat /\ cap # 0 /\ Cardinality(Used(fresh, cap)) < cap
    BY <2>1, MovingHasRoom
  <2>3. /\ fresh \in [0 .. cap - 1 -> Entry] /\ ChainWhole(fresh, cap)
        /\ pending.key \in Key /\ pending.value \in Value
    BY <2>1 DEF IInv, TypeOK, NoLostKey
  <2>4. {fresh[i] : i \in {r \in 0 .. cap - 1 : fresh[r].key # Empty}}
          = {entries[i] : i \in {r \in 0 .. capacity - 1 : entries[r].key # Empty}}
    BY <2>1 DEF IInv, RehashKeepsEntries
  <2> HIDE DEF cap
  <2>5. ContentsOf(fresh, cap) = Contents
    BY Zenon, <1>1, <1>4, <2>2, <2>3, <2>4, SameContents
  <2> DEFINE k == pending.key
             v == pending.value
  <2>6. k \in Key /\ v \in Value /\ Store(fresh, cap, count, k, v)
    BY <2>1, <2>3 DEF cap
  <2> HIDE DEF k, v
  <2>7. Contents' = [Contents EXCEPT ![k] = v] /\ reply' = SetReply(k, Contents)
    <3>1. Contents' = [ContentsOf(fresh, cap) EXCEPT ![k] = v] /\ reply' = SetReply(k, ContentsOf(fresh, cap))
      <4>1. /\ cap \in Nat /\ cap # 0 /\ fresh \in [0 .. cap - 1 -> Entry]
            /\ k \in Key /\ v \in Value /\ ChainWhole(fresh, cap)
            /\ Cardinality(Used(fresh, cap)) < cap /\ Store(fresh, cap, count, k, v)
        BY <2>2, <2>3, <2>6
      <4> QED BY Zenon, <4>1, StoreContents
    <3> QED BY Zenon, <2>5, <3>1
  <2>8. Abstract!Set(k, v)
    BY <2>7 DEF SetReply, Abstract!Set
  <2> QED BY <2>6, <2>8 DEF Abstract!MapNext
<1>10. ASSUME NEW k \in Key, TableDelete(k) PROVE Abstract!MapNext
  BY <1>10, DeleteMaps
<1>11. ASSUME NEW v \in Value, TableFindKey(v) PROVE Abstract!MapNext
  <2> DEFINE hits == {s \in 0 .. capacity - 1 :
                        entries[s].key # Empty /\ entries[s].value = v}
             h == CHOOSE s \in hits : \A r \in hits : s <= r
  <2>1. /\ Contents' = Contents
        /\ reply' = [op |-> "find", key |-> IF hits = {} THEN Nil ELSE entries[h].key]
    BY <1>11 DEF TableFindKey, tableVars, Contents
  <2>2. CASE hits = {}
    <3>1. ASSUME NEW k \in Key PROVE M[k] # v
      <4>1. CASE \E s \in 0 .. capacity - 1 : entries[s].key = k
        <5>1. PICK s \in 0 .. capacity - 1 : entries[s].key = k
          BY <4>1
        <5>2. M[k] = entries[s].value
          BY <1>1, <5>1, ContentsAt
        <5>3. entries[s].value # v
          BY <2>2, <5>1, TableAssumption
        <5> QED BY <5>2, <5>3
      <4>2. CASE \A s \in 0 .. capacity - 1 : entries[s].key # k
        <5>1. M[k] = Absent
          BY <1>1, <4>2, ContentsAt
        <5> QED BY <5>1, HashTableAssumption
      <4> QED BY <4>1, <4>2
    <3>2. Abstract!FindKey(v)
      BY <1>4, <2>1, <2>2, <3>1 DEF Abstract!FindKey
    <3> QED BY <3>2 DEF Abstract!MapNext
  <2>3. CASE hits # {}
    <3>0. hits \subseteq Nat
      BY <1>1
    <3>1. \E s \in hits : \A r \in hits : s <= r
      BY Zenon, <2>3, <3>0, LeastNatural
    <3>2. h \in hits
      BY <3>1
    <3> HIDE DEF h
    <3>3. /\ h \in 0 .. capacity - 1 /\ entries[h].key \in Key
          /\ entries[h].value = v
      BY <1>1, <3>2 DEF Entry
    <3>4. M[entries[h].key] = v
      BY <1>1, <3>3, ContentsHeld, Zenon
    <3>5. Abstract!FindKey(v)
      BY <1>4, <2>1, <2>3, <3>3, <3>4 DEF Abstract!FindKey
    <3> QED BY <3>5 DEF Abstract!MapNext
  <2> QED BY <2>2, <2>3
<1>12. ASSUME FreeTable PROVE Abstract!MapNext
  <2>1. Contents' = [k \in Key |-> Absent] /\ reply' = [op |-> "clear"]
    BY <1>12 DEF FreeTable, Contents, ContentsOf
  <2> QED BY <2>1 DEF Abstract!Clear, Abstract!MapNext
<1>13. CASE UNCHANGED vars
  BY <1>13 DEF vars, Contents, Abstract!mapVars
<1> QED
  BY <1>5, <1>6, <1>7, <1>8, <1>9, <1>10, <1>11, <1>12, <1>13 DEF Next

\* The hash table implements the abstract map: every call returns and changes
\* what a map would, for all keys, hash functions and capacities.
THEOREM Refinement == Spec => ImplementsMap
<1> QED BY InitMaps, NextMaps, Invariance, PTL DEF Spec, ImplementsMap, Abstract!MapSpec
------------------------------------------------------------------------------
(* The intern table.  What adjust_capacity fills is a recursive function:   *)
(* that there is one, and what it holds, is proved from a least slot at     *)
(* which it would fail.                                                     *)

Keys(es, cap) == {es[s].key : s \in 0 .. cap - 1} \ {Empty}

EmptyKnown(es, cap) ==
  \A s \in 0 .. cap - 1 : es[s].key = Empty => es[s] \in {Pristine, Tombstone}

\* The inductive invariant of the intern table.
InternIInv ==
  /\ HoldsLiveStrings
  /\ strCapacity \in Nat /\ (strCapacity = 0 \/ strCapacity >= 4)
  /\ ChainWhole(strEntries, strCapacity) /\ EmptyKnown(strEntries, strCapacity)
  /\ strCount = Cardinality(Used(strEntries, strCapacity)) /\ strCount <= MaxLoad(strCapacity)

\* f is what adjust_capacity has filled after each of the first n slots.
FillUpTo(new, n, f) ==
  f = [i \in 0 .. n |-> IF i = 0 THEN NewEntries(new)
                        ELSE Moved(f[i - 1], new, strEntries[i - 1])]

\* There is such an f.
LEMMA FillExists ==
  ASSUME NEW new, NEW N \in Nat
  PROVE  \E f : FillUpTo(new, N, f)
<1> DEFINE Bad == {n \in Nat : ~ \E f : FillUpTo(new, n, f)}
<1>1. SUFFICES ASSUME Bad # {} PROVE FALSE
  OBVIOUS
<1>2. PICK n \in Bad : \A m \in Bad : n <= m
  <2>1. Bad \subseteq Nat
    OBVIOUS
  <2> QED
    BY <1>1, <2>1, LeastNatural, Zenon
<1>3. n # 0
  <2> DEFINE f == [i \in 0 .. 0 |-> NewEntries(new)]
  <2>1. FillUpTo(new, 0, f)
    BY DEF FillUpTo
  <2> QED
    BY <2>1, <1>2
<1>4. PICK f : FillUpTo(new, n - 1, f)
  BY <1>2, <1>3
<1> DEFINE g == [i \in 0 .. n |-> IF i < n THEN f[i] ELSE Moved(f[i - 1], new, strEntries[i - 1])]
<1>5. FillUpTo(new, n, g)
  <2>1. ASSUME NEW i \in 0 .. n
        PROVE  g[i] = IF i = 0 THEN NewEntries(new) ELSE Moved(g[i - 1], new, strEntries[i - 1])
    <3>1. i \in Nat /\ n \in Nat /\ n - 1 \in Nat
      BY <1>2, <1>3
    <3>2. i # 0 => g[i - 1] = f[i - 1]
      BY <3>1
    <3>3. CASE i < n
      <4>1. i \in 0 .. n - 1 /\ g[i] = f[i]
        BY <3>1, <3>3
      <4>2. f[i] = IF i = 0 THEN NewEntries(new) ELSE Moved(f[i - 1], new, strEntries[i - 1])
        BY <1>4, <4>1 DEF FillUpTo
      <4> QED
        BY <3>2, <4>1, <4>2
    <3>4. CASE i = n
      BY <1>3, <3>1, <3>2, <3>4
    <3> QED
      BY <3>1, <3>3, <3>4
  <2> HIDE DEF g
  <2>2. g = [i \in 0 .. n |-> g[i]]
    BY DEF g
  <2> QED
    BY Zenon, <2>1, <2>2 DEF FillUpTo
<1> QED
  BY <1>2, <1>5

\* Rehash is the last value of one.
LEMMA RehashIs ==
  ASSUME NEW new, NEW n \in Nat
  PROVE  \E f : FillUpTo(new, n, f) /\ Rehash(new, n) = f[n]
<1> DEFINE fill == CHOOSE f : f = [i \in 0 .. n |-> IF i = 0 THEN NewEntries(new)
                                     ELSE Moved(f[i - 1], new, strEntries[i - 1])]
<1>1. \E f : f = [i \in 0 .. n |-> IF i = 0 THEN NewEntries(new)
                                   ELSE Moved(f[i - 1], new, strEntries[i - 1])]
  BY FillExists, Zenon DEF FillUpTo
<1>2. FillUpTo(new, n, fill)
  BY <1>1, Zenon DEF FillUpTo
<1>3. Rehash(new, n) = fill[n]
  BY Zenon DEF Rehash
<1> QED
  BY <1>2, <1>3, Zenon

\* What adjust_capacity has moved after the first i slots.
FilledTo(es, cap, i) ==
  /\ es \in [0 .. cap - 1 -> Entry] /\ ChainWhole(es, cap)
  /\ \A s \in 0 .. cap - 1 : es[s].key = Empty => es[s] = Pristine
  /\ Keys(es, cap) = Keys(strEntries, i)
  /\ Cardinality(Used(es, cap)) = Live(i)

\* The live slots of an array, counted one by one.
LEMMA LiveCounts ==
  ASSUME NEW i \in Nat
  PROVE  /\ Live(0) = 0 /\ Live(i) \in Nat
         /\ Live(i + 1) = IF strEntries[i].key = Empty THEN Live(i) ELSE Live(i) + 1
<1> DEFINE L(n) == {s \in 0 .. n - 1 : strEntries[s].key # Empty}
<1>1. L(0) = {} /\ Live(0) = Cardinality(L(0))
  BY DEF Live
<1>2. IsFiniteSet(L(i))
  <2>1. IsFiniteSet(0 .. i - 1) /\ L(i) \subseteq 0 .. i - 1
    BY FS_Interval
  <2> QED
    BY <2>1, FS_Subset
<1>3. L(i + 1) = IF strEntries[i].key = Empty THEN L(i) ELSE L(i) \cup {i}
  <2>1. \A s : s \in 0 .. (i + 1) - 1 <=> s \in 0 .. i - 1 \/ s = i
    OBVIOUS
  <2> QED
    BY <2>1
<1>4. i \notin L(i)
  OBVIOUS
<1>5. Live(i) = Cardinality(L(i)) /\ Live(i + 1) = Cardinality(L(i + 1))
  BY DEF Live
<1> HIDE DEF L
<1>6. Cardinality(L(i)) \in Nat
  BY <1>2, FS_CardinalityType
<1>7. Cardinality(L(i) \cup {i}) = Cardinality(L(i)) + 1
  BY <1>2, <1>4, FS_AddElement
<1>8. Live(0) = 0
  BY <1>1, FS_EmptySet
<1> QED
  BY <1>3, <1>5, <1>6, <1>7, <1>8

\* Each live entry goes to a slot of its own.
LEMMA MovedFills ==
  ASSUME InternIInv, NEW i \in 0 .. strCapacity - 1, NEW es, NEW cap \in Nat, cap > strCapacity,
         FilledTo(es, cap, i), Live(i) <= i
  PROVE  FilledTo(Moved(es, cap, strEntries[i]), cap, i + 1) /\ Live(i + 1) <= i + 1
<1> DEFINE entry == strEntries[i]
           k == entry.key
           v == entry.value
           s == FindEntry(es, cap, k)
           es2 == [es EXCEPT ![s] = entry]
<1>1. /\ strCapacity \in Nat /\ i \in Nat /\ i < strCapacity /\ cap # 0
      /\ strEntries \in [0 .. strCapacity - 1 -> Entry] /\ ChainWhole(strEntries, strCapacity)
  BY DEF InternIInv, HoldsLiveStrings, InternTypeOK
<1>2. /\ es \in [0 .. cap - 1 -> Entry] /\ ChainWhole(es, cap)
      /\ \A r \in 0 .. cap - 1 : es[r].key = Empty => es[r] = Pristine
      /\ Keys(es, cap) = Keys(strEntries, i)
      /\ Cardinality(Used(es, cap)) = Live(i)
  BY DEF FilledTo
<1>3. entry \in Entry
  BY <1>1
<1>4. entry = [key |-> k, value |-> v] /\ k \in Key \cup {Empty} /\ v \in Value \cup {Nil, True}
  BY <1>3 DEF Entry
<1>5. /\ Live(i) \in Nat
      /\ Live(i + 1) = IF k = Empty THEN Live(i) ELSE Live(i) + 1
  BY Zenon, <1>1, LiveCounts
<1>6. Keys(strEntries, i + 1) = IF k = Empty THEN Keys(strEntries, i) ELSE Keys(strEntries, i) \cup {k}
  <2>1. \A r : r \in 0 .. (i + 1) - 1 <=> r \in 0 .. i - 1 \/ r = i
    BY <1>1
  <2> QED
    BY <2>1 DEF Keys
<1>7. CASE k = Empty
  <2>1. Moved(es, cap, entry) = es
    BY <1>7 DEF Moved
  <2> QED
    BY <1>1, <1>2, <1>5, <1>6, <1>7, <2>1 DEF FilledTo
<1>8. CASE k # Empty
  <2>1. k \in Key /\ Moved(es, cap, entry) = es2
    BY <1>4, <1>8 DEF Moved
  <2>2. k \notin Keys(strEntries, i)
    <3>1. SUFFICES ASSUME NEW r \in 0 .. i - 1, strEntries[r].key = k PROVE FALSE
      BY DEF Keys
    <3>2. r \in 0 .. strCapacity - 1 /\ r # i
      BY <1>1
    <3>3. r = i
      BY <1>1, <2>1, <3>1, <3>2, OneSlot
    <3> QED
      BY <3>2, <3>3
  <2>3. \A r \in 0 .. cap - 1 : es[r].key # k
    BY Zenon, <1>2, <1>8, <2>2 DEF Keys
  <2>4. \E d \in 0 .. cap - 1 : Stops(es, cap, k, d)
    <3>1. Cardinality(Used(es, cap)) < cap
      BY <1>1, <1>2, <1>5
    <3> QED
      BY <2>1, <3>1, RoomStops
  <2>5. s \in 0 .. cap - 1 /\ es[s].key = Empty
    BY Zenon, <1>1, <1>2, <2>1, <2>3, <2>4, FindEntryFinds
  <2>6. es2 \in [0 .. cap - 1 -> Entry] /\ ChainWhole(es2, cap)
    BY Zenon, <1>1, <1>2, <1>4, <2>1, <2>4, StoreKeepsChains
  <2>7. entry # Pristine
    BY SMTT(30), SMTT(60), SMTT(90), <1>8 DEF Pristine
  <2> HIDE DEF s
  <2>8. \A r \in 0 .. cap - 1 : es2[r] = IF r = s THEN entry ELSE es[r]
    BY <1>2
  <2>9. Cardinality(Used(es2, cap)) = Live(i) + 1
    <3>1. es[s] = Pristine
      BY <1>2, <2>5
    <3> HIDE DEF entry
    <3> QED
      BY Zenon, <1>2, <2>5, <2>7, <3>1, WriteCounts
  <2> HIDE DEF es2, entry
  <2>10. \A r \in 0 .. cap - 1 : es2[r].key = Empty => es2[r] = Pristine
    BY <1>2, <1>8, <2>8
  <2>11. Keys(es2, cap) = Keys(es, cap) \cup {k}
    BY <1>8, <2>5, <2>8 DEF Keys
  <2>12. FilledTo(es2, cap, i + 1)
    BY Zenon, <1>2, <1>5, <1>6, <1>8, <2>6, <2>9, <2>10, <2>11 DEF FilledTo
  <2>13. Live(i + 1) <= i + 1
    BY <1>1, <1>5, <1>8
  <2> QED
    BY <2>1, <2>12, <2>13 DEF entry
<1> QED
  BY <1>7, <1>8

\* adjust_capacity keeps the strings, drops the tombstones and makes room.
LEMMA RehashFills ==
  ASSUME InternIInv, NEW cap \in Nat, cap > strCapacity
  PROVE  /\ FilledTo(Rehash(cap, strCapacity), cap, strCapacity)
         /\ Live(strCapacity) \in Nat /\ Live(strCapacity) <= strCapacity
<1> DEFINE N == strCapacity
           Good(f, i) == FilledTo(f[i], cap, i) /\ Live(i) <= i
<1>1. N \in Nat
  BY DEF InternIInv
<1>2. PICK f : FillUpTo(cap, N, f) /\ Rehash(cap, N) = f[N]
  BY <1>1, RehashIs, Zenon
<1>3. \A i \in 0 .. N : f[i] = IF i = 0 THEN NewEntries(cap) ELSE Moved(f[i - 1], cap, strEntries[i - 1])
  BY Zenon, <1>2 DEF FillUpTo
<1>4. Good(f, 0)
  <2> DEFINE es == NewEntries(cap)
  <2>1. f[0] = es
    BY <1>1, <1>3
  <2>2. Pristine \in Entry /\ Pristine.key = Empty
    BY DEF Pristine, Entry
  <2>3. es \in [0 .. cap - 1 -> Entry] /\ \A r \in 0 .. cap - 1 : es[r] = Pristine
    BY <2>2 DEF NewEntries
  <2> HIDE DEF es
  <2>4. Used(es, cap) = {} /\ Keys(es, cap) = {} /\ Keys(strEntries, 0) = {}
    BY <2>2, <2>3 DEF Used, Keys
  <2>5. ChainWhole(es, cap)
    <3>1. ASSUME NEW k \in Key, NEW d \in 0 .. cap - 1 PROVE es[Slot(cap, k, d)].key # k
      <4>1. Slot(cap, k, d) \in 0 .. cap - 1
        BY ProbeCovers
      <4> QED
        BY <2>2, <2>3, <4>1, TableAssumption
    <3> QED
      BY <3>1 DEF ChainWhole
  <2>6. Cardinality(Used(es, cap)) = 0 /\ Live(0) = 0
    BY <1>1, <2>4, FS_EmptySet, LiveCounts
  <2> QED
    BY SMTT(30), SMTT(60), SMTT(90), <2>1, <2>3, <2>4, <2>5, <2>6 DEF FilledTo
<1> DEFINE Bad == {i \in 0 .. N : ~ Good(f, i)}
<1>5. Bad = {}
  <2>1. SUFFICES ASSUME Bad # {} PROVE FALSE
    OBVIOUS
  <2>2. Bad \subseteq Nat
    BY <1>1
  <2>3. PICK i \in Bad : \A m \in Bad : i <= m
    BY <2>1, <2>2, LeastNatural, Zenon
  <2>4. i \in 0 .. N /\ ~ Good(f, i)
    BY <2>3
  <2>5. i # 0
    BY <1>4, <2>4
  <2>6. i - 1 \in 0 .. N - 1 /\ i - 1 \in 0 .. N /\ (i - 1) + 1 = i
    BY <1>1, <2>4, <2>5
  <2>7. i - 1 \notin Bad
    BY <1>1, <2>3, <2>4
  <2>8. Good(f, i - 1)
    BY <2>6, <2>7
  <2>9. f[i] = Moved(f[i - 1], cap, strEntries[i - 1])
    BY <1>3, <2>4, <2>5
  <2>10. FilledTo(Moved(f[i - 1], cap, strEntries[i - 1]), cap, (i - 1) + 1) /\ Live((i - 1) + 1) <= (i - 1) + 1
    BY <2>6, <2>8, MovedFills, Zenon
  <2> QED
    BY <2>4, <2>6, <2>9, <2>10
<1>6. Good(f, N)
  BY <1>1, <1>5
<1> QED
  BY <1>1, <1>2, <1>6, LiveCounts

\* A new string s stored in the array es, which held n keys.
StoresString(es, cap, n, s) ==
  /\ strEntries' = [es EXCEPT ![FindEntry(es, cap, s)] = [key |-> s, value |-> Nil]]
  /\ strCapacity' = cap
  /\ strCount' = IF es[FindEntry(es, cap, s)] = Pristine THEN n + 1 ELSE n
  /\ live' = live \cup {s}
  /\ asked' = None
  /\ answer' = [text |-> TextOf[s], string |-> s]

\* The end of allocate_string: a new string stored where there is room.
LEMMA StoreString ==
  ASSUME NEW cap \in Nat, cap >= 4, NEW es \in [0 .. cap - 1 -> Entry], NEW n \in Nat,
         ChainWhole(es, cap), EmptyKnown(es, cap), Keys(es, cap) = live, live \subseteq Key,
         n = Cardinality(Used(es, cap)), n + 1 <= MaxLoad(cap),
         NEW s \in Key, s \notin live, StoresString(es, cap, n, s)
  PROVE  InternIInv'
<1> DEFINE r == FindEntry(es, cap, s)
           x == [key |-> s, value |-> Nil]
           es2 == [es EXCEPT ![r] = x]
<1>0. s # Empty /\ cap # 0
  <2>1. s # Empty
    BY Zenon, TableAssumption
  <2> QED BY <2>1
<1>1. MaxLoad(cap) \in Nat /\ MaxLoad(cap) < cap
  BY LoadLeavesRoom
<1>2. \E d \in 0 .. cap - 1 : Stops(es, cap, s, d)
  BY <1>1, RoomStops
<1>3. \A q \in 0 .. cap - 1 : es[q].key # s
  BY Zenon, <1>0 DEF Keys
<1>4. r \in 0 .. cap - 1 /\ es[r].key = Empty
  BY <1>0, <1>2, <1>3, FindEntryFinds
<1>5. es2 \in [0 .. cap - 1 -> Entry] /\ ChainWhole(es2, cap)
  BY Zenon, <1>0, <1>2, StoreKeepsChains
<1>6. x # Pristine /\ x.key = s
  BY <1>0 DEF Pristine
<1> HIDE DEF r, x
<1>7. \A q \in 0 .. cap - 1 : es2[q] = IF q = r THEN x ELSE es[q]
  OBVIOUS
<1>8. Cardinality(Used(es2, cap)) = IF es[r] = Pristine THEN n + 1 ELSE n
  BY ZenonT(60), <1>4, <1>6, WriteCounts
<1>9. /\ strEntries' = es2 /\ strCount' = IF es[r] = Pristine THEN n + 1 ELSE n
      /\ strCapacity' = cap /\ live' = live \cup {s} /\ asked' = None
      /\ answer' = [text |-> TextOf[s], string |-> s]
  BY Zenon DEF StoresString, r, x
<1> HIDE DEF es2
<1>10. Keys(es2, cap) = live \cup {s}
  BY <1>0, <1>4, <1>6, <1>7 DEF Keys
<1>11. EmptyKnown(es2, cap)
  BY Zenon, <1>0, <1>6, <1>7 DEF EmptyKnown
<1>12. strCount' \in 0 .. cap /\ strCount' <= MaxLoad(cap)
  BY SMTT(30), SMTT(60), SMTT(90), <1>1, <1>9
<1>13. InternTypeOK'
  BY Zenon, <1>5, <1>9, <1>12 DEF InternTypeOK
<1>14. HoldsLiveStrings'
  <2>1. answer'.string \in live' /\ TextOf[answer'.string] = answer'.text
    BY <1>9
  <2>2. ({strEntries[q].key : q \in 0 .. strCapacity - 1} \ {Empty} = live)'
    BY ZenonT(60), <1>9, <1>10 DEF Keys
  <2> QED
    BY <1>13, <2>1, <2>2, Zenon DEF HoldsLiveStrings
<1> QED
  BY ZenonT(60), <1>5, <1>8, <1>9, <1>11, <1>12, <1>14 DEF InternIInv

\* allocate_string, with the table grown or not.
LEMMA AllocateStringKeeps ==
  ASSUME InternIInv, NEW s \in Key, AllocateString(s)
  PROVE  InternIInv'
<1> DEFINE cap == strCapacity
           big == GrowCapacity(cap)
<1>1. /\ cap \in Nat /\ (cap = 0 \/ cap >= 4) /\ strEntries \in [0 .. cap - 1 -> Entry]
      /\ ChainWhole(strEntries, cap) /\ EmptyKnown(strEntries, cap)
      /\ Keys(strEntries, cap) = live /\ live \subseteq Key
      /\ strCount \in Nat /\ strCount = Cardinality(Used(strEntries, cap)) /\ strCount <= MaxLoad(cap)
  <2>1. Keys(strEntries, cap) = live
    BY Zenon DEF InternIInv, HoldsLiveStrings, Keys
  <2>2. /\ strEntries \in [0 .. cap - 1 -> Entry] /\ live \subseteq Key
        /\ ChainWhole(strEntries, cap) /\ EmptyKnown(strEntries, cap)
        /\ strCount = Cardinality(Used(strEntries, cap)) /\ strCount <= MaxLoad(cap)
    BY Zenon DEF InternIInv, HoldsLiveStrings, InternTypeOK
  <2>3. cap \in Nat /\ (cap = 0 \/ cap >= 4) /\ strCount \in 0 .. cap
    BY Zenon DEF InternIInv, HoldsLiveStrings, InternTypeOK
  <2> QED BY <2>1, <2>2, <2>3
<1>2. /\ s \notin live /\ live' = live \cup {s} /\ asked' = None
      /\ answer' = [text |-> TextOf[s], string |-> s]
  BY DEF AllocateString
<1>3. CASE Overloaded(strCount, cap)
  <2> DEFINE es == Rehash(big, cap)
             n == Live(cap)
  <2>1. /\ strCapacity' = big
        /\ strEntries' = [es EXCEPT ![FindEntry(es, big, s)] = [key |-> s, value |-> Nil]]
        /\ strCount' = IF es[FindEntry(es, big, s)] = Pristine THEN n + 1 ELSE n
    BY <1>3, Zenon DEF AllocateString
  <2>2. big \in Nat /\ big >= 4 /\ big > cap /\ cap + 1 <= MaxLoad(big)
    BY <1>1, LoadLeavesRoom DEF GrowCapacity
  <2> HIDE DEF big
  <2>3. FilledTo(es, big, cap) /\ n \in Nat /\ n <= cap
    BY <2>2, RehashFills, Zenon
  <2>4. MaxLoad(big) \in Nat
    BY <2>2, LoadLeavesRoom
  <2>5. n + 1 <= MaxLoad(big)
    BY <1>1, <2>2, <2>3, <2>4
  <2> HIDE DEF es, n
  <2>6. /\ es \in [0 .. big - 1 -> Entry] /\ ChainWhole(es, big) /\ EmptyKnown(es, big)
        /\ Keys(es, big) = live /\ n = Cardinality(Used(es, big))
    BY <1>1, <2>3 DEF FilledTo, EmptyKnown, n
  <2>7. StoresString(es, big, n, s)
    BY Zenon, <1>2, <2>1 DEF StoresString, es, n
  <2> QED
    BY <1>1, <1>2, <2>2, <2>3, <2>5, <2>6, <2>7, StoreString, Zenon
<1>4. CASE ~ Overloaded(strCount, cap)
  <2>1. /\ strCapacity' = cap
        /\ strEntries' = [strEntries EXCEPT ![FindEntry(strEntries, cap, s)] = [key |-> s, value |-> Nil]]
        /\ strCount' = IF strEntries[FindEntry(strEntries, cap, s)] = Pristine
                         THEN strCount + 1 ELSE strCount
    BY <1>4, Zenon DEF AllocateString
  <2>2. cap >= 4 /\ strCount + 1 <= MaxLoad(cap)
    BY <1>1, <1>4, LoadLeavesRoom DEF Overloaded
  <2>3. StoresString(strEntries, cap, strCount, s)
    BY Zenon, <1>2, <2>1 DEF StoresString
  <2> QED
    BY <1>1, <1>2, <2>2, <2>3, StoreString, Zenon
<1> QED
  BY <1>3, <1>4

\* collect_garbage leaves tombstones, which keep the chains whole.
LEMMA CollectWhitesKeeps ==
  ASSUME InternIInv, NEW dead \in SUBSET live, CollectWhites(dead)
  PROVE  InternIInv'
<1> DEFINE cap == strCapacity
           es == strEntries
           es2 == [r \in 0 .. cap - 1 |-> IF es[r].key \in dead THEN Tombstone ELSE es[r]]
<1>1. /\ cap \in Nat /\ (cap = 0 \/ cap >= 4) /\ es \in [0 .. cap - 1 -> Entry]
      /\ ChainWhole(es, cap) /\ EmptyKnown(es, cap)
      /\ Keys(es, cap) = live /\ live \subseteq Key /\ asked \in Text \cup {None}
      /\ strCount \in 0 .. cap /\ strCount = Cardinality(Used(es, cap)) /\ strCount <= MaxLoad(cap)
  BY DEF InternIInv, HoldsLiveStrings, InternTypeOK, Keys
<1>2. /\ strEntries' = es2 /\ live' = live \ dead /\ answer' = NoAnswer
      /\ strCapacity' = cap /\ strCount' = strCount /\ asked' = asked
  BY DEF CollectWhites
<1>3. Tombstone \in Entry /\ Tombstone # Pristine /\ Tombstone.key = Empty /\ Empty \notin dead
      /\ Pristine.key = Empty /\ Empty \notin Key
  BY <1>1, TableAssumption DEF Tombstone, Pristine, Entry
<1>4. \A r \in 0 .. cap - 1 : es2[r] = IF es[r].key \in dead THEN Tombstone ELSE es[r]
  OBVIOUS
<1>5. es2 \in [0 .. cap - 1 -> Entry]
  BY <1>1, <1>3
<1> HIDE DEF es2, es
<1>6. Used(es2, cap) = Used(es, cap)
  BY <1>3, <1>4 DEF Used
<1>7. EmptyKnown(es2, cap)
  BY <1>1, <1>4 DEF EmptyKnown
<1>8. Keys(es2, cap) = live \ dead
  <2>1. \A r \in 0 .. cap - 1 : es2[r].key = IF es[r].key \in dead THEN Empty ELSE es[r].key
    BY <1>3, <1>4
  <2> QED
    BY SMTT(30), SMTT(60), SMTT(90), <1>1, <1>3, <2>1 DEF Keys
<1>9. ChainWhole(es2, cap)
  <2>1. SUFFICES ASSUME NEW k \in Key, NEW d \in 0 .. cap - 1, es2[Slot(cap, k, d)].key = k,
                        NEW e \in 0 .. d - 1, Stops(es2, cap, k, e)
                 PROVE  FALSE
    BY DEF ChainWhole
  <2>2. Slot(cap, k, d) \in 0 .. cap - 1 /\ Slot(cap, k, e) \in 0 .. cap - 1
    <3>1. cap # 0 /\ e \in 0 .. cap - 1
      BY <1>1
    <3>2. \A f \in 0 .. cap - 1 : Slot(cap, k, f) \in 0 .. cap - 1
      BY <1>1, <3>1, ProbeCovers, Zenon
    <3> QED
      BY <3>1, <3>2
  <2>3. es[Slot(cap, k, d)].key = k
    BY <1>3, <1>4, <2>1, <2>2
  <2>4. Stops(es, cap, k, e)
    BY <1>3, <1>4, <2>1, <2>2 DEF Stops
  <2> QED
    BY <1>1, <2>3, <2>4 DEF ChainWhole
<1>10. InternTypeOK'
  BY <1>1, <1>2, <1>5 DEF InternTypeOK
<1>11. HoldsLiveStrings'
  BY <1>2, <1>8, <1>10 DEF HoldsLiveStrings, Keys
<1> QED
  BY <1>1, <1>2, <1>6, <1>7, <1>9, <1>11 DEF InternIInv

\* table_find_string probes as find_entry does for any string of the text.
LEMMA ProbesAlike ==
  ASSUME NEW k \in Key, NEW d
  PROVE  Probed(TextOf[k], d) = strEntries[Slot(strCapacity, k, d)]
<1> DEFINE j == CHOOSE s \in Key : TextOf[s] = TextOf[k]
<1>1. j \in Key /\ TextOf[j] = TextOf[k]
  OBVIOUS
<1>2. Hash[j] = Hash[k]
  BY <1>1, InternAssumption
<1> QED
  BY <1>2 DEF Probed, HashOf, Slot, Home

\* The loop of table_find_string, which has no other exit, always has one.
LEMMA LookupStops == InternIInv => LookupEnds
<1>1. SUFFICES ASSUME InternIInv, strCapacity # 0, NEW x \in Text
               PROVE  \E d \in 0 .. strCapacity - 1 : Returns(x, d)
  BY DEF LookupEnds
<1>2. PICK k \in Key : TextOf[k] = x
  BY InternAssumption
<1>3. /\ strCapacity \in Nat /\ strCapacity >= 4 /\ strEntries \in [0 .. strCapacity - 1 -> Entry]
      /\ strCount = Cardinality(Used(strEntries, strCapacity)) /\ strCount <= MaxLoad(strCapacity)
      /\ strCount \in Nat
  BY SMTT(30), SMTT(60), SMTT(90), <1>1 DEF InternIInv, HoldsLiveStrings, InternTypeOK
<1>4. Cardinality(Used(strEntries, strCapacity)) < strCapacity
  BY <1>3, LoadLeavesRoom
<1>5. PICK d \in 0 .. strCapacity - 1 : Stops(strEntries, strCapacity, k, d)
  BY <1>3, <1>4, RoomStops
<1>6. Probed(x, d) = strEntries[Slot(strCapacity, k, d)]
  BY <1>2, ProbesAlike
<1>7. Probed(x, d) = Pristine \/ Probed(x, d).key = k
  BY <1>5, <1>6 DEF Stops
<1>8. Returns(x, d)
  BY <1>2, <1>7 DEF Returns, Pristine
<1> QED
  BY <1>8

\* table_find_string returns at the first empty key or match.
LEMMA FirstReturn ==
  ASSUME InternIInv, NEW x \in Text
  PROVE  \/ strCount = 0 /\ FindString(x) = None
         \/ \E d \in 0 .. strCapacity - 1 :
              /\ strCapacity # 0 /\ Returns(x, d) /\ \A e \in 0 .. d - 1 : ~ Returns(x, e)
              /\ FindString(x) = IF Probed(x, d).key = Empty THEN None ELSE Probed(x, d).key
<1> DEFINE T == {d \in 0 .. strCapacity - 1 : Returns(x, d)}
           d0 == CHOOSE d \in 0 .. strCapacity - 1 :
                   Returns(x, d) /\ \A e \in 0 .. d - 1 : ~ Returns(x, e)
<1>1. CASE strCount = 0
  BY <1>1, Zenon DEF FindString
<1>2. CASE strCount # 0
  <2>1. strCapacity \in Nat /\ strCapacity # 0
    BY SMTT(30), SMTT(60), SMTT(90), <1>2 DEF InternIInv, HoldsLiveStrings, InternTypeOK
  <2>2. T \subseteq Nat /\ T # {}
    BY <2>1, LookupStops DEF LookupEnds
  <2>3. PICK d \in T : \A y \in T : d <= y
    BY <2>2, LeastNatural, Zenon
  <2>4. d \in 0 .. strCapacity - 1 /\ Returns(x, d) /\ \A e \in 0 .. d - 1 : ~ Returns(x, e)
    BY <2>1, <2>3
  <2>5. /\ d0 \in 0 .. strCapacity - 1 /\ Returns(x, d0)
        /\ \A e \in 0 .. d0 - 1 : ~ Returns(x, e)
    BY <2>4, Zenon
  <2>6. FindString(x) = IF Probed(x, d0).key = Empty THEN None ELSE Probed(x, d0).key
    <3>1. FindString(x) = IF strCount = 0 \/ Probed(x, d0).key = Empty THEN None ELSE Probed(x, d0).key
      BY Zenon DEF FindString
    <3> HIDE DEF d0
    <3> QED
      BY <1>2, <3>1
  <2> HIDE DEF d0
  <2> QED
    BY <2>1, <2>5, <2>6
<1> QED
  BY <1>1, <1>2

\* The entries a probe meets are in the table.
LEMMA ProbeMeets ==
  ASSUME InternIInv, strCapacity # 0, NEW x \in Text, NEW d \in 0 .. strCapacity - 1
  PROVE  Probed(x, d) \in Entry /\ Probed(x, d).key \in live \cup {Empty}
<1>1. PICK k \in Key : TextOf[k] = x
  BY InternAssumption
<1>2. /\ strCapacity \in Nat /\ strEntries \in [0 .. strCapacity - 1 -> Entry]
      /\ {strEntries[s].key : s \in 0 .. strCapacity - 1} \ {Empty} = live
  BY DEF InternIInv, HoldsLiveStrings, InternTypeOK
<1>3. Slot(strCapacity, k, d) \in 0 .. strCapacity - 1
  BY ZenonT(60), <1>2, ProbeCovers
<1>4. Probed(x, d) = strEntries[Slot(strCapacity, k, d)]
  BY <1>1, ProbesAlike
<1> QED
  BY <1>2, <1>3, <1>4

\* copy_string and take_string answer with a string that exists.
LEMMA CopyStringKeeps ==
  ASSUME InternIInv, NEW x \in Text, CopyString(x)
  PROVE  InternIInv'
<1>1. UNCHANGED <<strEntries, strCapacity, strCount, live>>
  BY DEF CopyString
<1>2. asked' \in Text \cup {None}
  BY DEF CopyString, InternIInv, HoldsLiveStrings, InternTypeOK
<1>3. InternTypeOK'
  BY <1>1, <1>2 DEF InternIInv, HoldsLiveStrings, InternTypeOK
<1>4. answer' # NoAnswer => answer'.string \in live /\ TextOf[answer'.string] = answer'.text
  <2>1. CASE FindString(x) # None
    <3>1. PICK d \in 0 .. strCapacity - 1 :
            /\ strCapacity # 0 /\ Returns(x, d)
            /\ FindString(x) = IF Probed(x, d).key = Empty THEN None ELSE Probed(x, d).key
      BY <2>1, FirstReturn
    <3>2. Probed(x, d).key \in live \cup {Empty}
      BY <3>1, ProbeMeets
    <3>3. FindString(x) \in live /\ TextOf[FindString(x)] = x
      BY <2>1, <3>1, <3>2 DEF Returns
    <3>4. answer' = [text |-> x, string |-> FindString(x)]
      BY <2>1 DEF CopyString
    <3> QED
      BY <3>3, <3>4
  <2>2. CASE FindString(x) = None
    BY <2>2 DEF CopyString, InternIInv, HoldsLiveStrings
  <2> QED
    BY <2>1, <2>2
<1>5. HoldsLiveStrings'
  BY <1>1, <1>3, <1>4 DEF InternIInv, HoldsLiveStrings
<1> QED
  BY <1>1, <1>5 DEF InternIInv

\* The inductive invariant of the intern table holds for any texts, any
\* hashes of them and any string objects.
THEOREM InternInvariant == InternSpec => []InternIInv
<1>1. InternInit => InternIInv
  <2>1. SUFFICES ASSUME InternInit PROVE InternIInv
    OBVIOUS
  <2>2. /\ strEntries = NewEntries(0) /\ strCapacity = 0 /\ strCount = 0
        /\ live = {} /\ asked = None /\ answer = NoAnswer
    BY <2>1 DEF InternInit
  <2>3. strEntries \in [0 .. strCapacity - 1 -> Entry] /\ Used(strEntries, strCapacity) = {}
    BY <2>2 DEF NewEntries, Used
  <2>4. HoldsLiveStrings
    BY SMTT(30), SMTT(60), SMTT(90), <2>2, <2>3 DEF HoldsLiveStrings, InternTypeOK
  <2>5. strCount = Cardinality(Used(strEntries, strCapacity)) /\ strCount <= MaxLoad(strCapacity)
    <3>1. Cardinality(Used(strEntries, strCapacity)) = 0
      BY Zenon, <2>3, FS_EmptySet
    <3>2. MaxLoad(0) \in Nat
      BY LoadLeavesRoom
    <3> QED BY <2>2, <3>1, <3>2
  <2> QED
    BY <2>2, <2>4, <2>5 DEF InternIInv, ChainWhole, EmptyKnown
<1>2. InternIInv /\ [InternNext]_strVars => InternIInv'
  <2>1. SUFFICES ASSUME InternIInv, [InternNext]_strVars PROVE InternIInv'
    OBVIOUS
  <2>2. CASE UNCHANGED strVars
    BY <2>1, <2>2 DEF strVars, InternIInv, HoldsLiveStrings, InternTypeOK
  <2>3. ASSUME NEW x \in Text, CopyString(x) PROVE InternIInv'
    BY <2>1, <2>3, CopyStringKeeps
  <2>4. ASSUME NEW s \in Key, AllocateString(s) PROVE InternIInv'
    BY <2>1, <2>4, AllocateStringKeeps
  <2>5. ASSUME NEW dead \in SUBSET live, CollectWhites(dead) PROVE InternIInv'
    BY <2>1, <2>5, CollectWhitesKeeps
  <2> QED
    BY <2>1, <2>2, <2>3, <2>4, <2>5 DEF InternNext
<1> QED
  BY <1>1, <1>2, PTL DEF InternSpec

\* vm->strings holds exactly the strings that exist, after any calls and
\* collections, and copy_string answers with one of them, of its text.
THEOREM InternHoldsLive == InternSpec => []HoldsLiveStrings
<1>1. InternIInv => HoldsLiveStrings
  BY DEF InternIInv
<1> QED
  BY <1>1, InternInvariant, PTL

\* The loop of table_find_string comes to an end.
THEOREM InternLookupEnds == InternSpec => []LookupEnds
<1> QED
  BY LookupStops, InternInvariant, PTL

\* table_find_string misses a string only behind a tombstone.
THEOREM InternMisses == InternSpec => []MissedBehindTombstone
<1>1. InternIInv => MissedBehindTombstone
  <2>1. SUFFICES ASSUME InternIInv, NEW s \in live, FindString(TextOf[s]) = None
                 PROVE  \E d \in 0 .. strCapacity - 1 :
                          /\ Probed(TextOf[s], d).key = s
                          /\ \E e \in 0 .. d - 1 : Probed(TextOf[s], e) = Tombstone
    BY DEF MissedBehindTombstone
  <2> DEFINE cap == strCapacity
             x == TextOf[s]
  <2>2. /\ cap \in Nat /\ strEntries \in [0 .. cap - 1 -> Entry] /\ live \subseteq Key
        /\ ChainWhole(strEntries, cap) /\ EmptyKnown(strEntries, cap)
        /\ {strEntries[r].key : r \in 0 .. cap - 1} \ {Empty} = live
        /\ strCount = Cardinality(Used(strEntries, cap))
    BY <2>1 DEF InternIInv, HoldsLiveStrings, InternTypeOK
  <2>3. s \in Key /\ x \in Text /\ s # Empty
    BY <2>2, InternAssumption, TableAssumption
  <2>4. PICK r \in 0 .. cap - 1 : strEntries[r].key = s
    BY <2>2
  <2>5. cap # 0
    BY <2>2, <2>4
  <2>6. PICK d \in 0 .. cap - 1 : Slot(cap, s, d) = r
    BY SMTT(30), SMTT(60), SMTT(90), <2>2, <2>3, <2>4, <2>5, ProbeCovers
  <2>7. \A e \in 0 .. cap - 1 : Probed(x, e) = strEntries[Slot(cap, s, e)] /\ Slot(cap, s, e) \in 0 .. cap - 1
    BY Zenon, <2>2, <2>3, <2>5, ProbesAlike, ProbeCovers
  <2>8. Probed(x, d).key = s /\ Returns(x, d)
    BY <2>4, <2>6, <2>7 DEF Returns
  <2>9. strCount # 0
    <3>1. r \in Used(strEntries, cap)
      BY <2>3, <2>4 DEF Used, Pristine
    <3>2. IsFiniteSet(Used(strEntries, cap)) /\ Cardinality(Used(strEntries, cap)) # 0
      BY <2>2, <3>1, UsedFinite, FS_EmptySet
    <3> QED
      BY <2>2, <3>2
  <2>10. PICK c \in 0 .. cap - 1 :
           /\ Returns(x, c) /\ \A e \in 0 .. c - 1 : ~ Returns(x, e)
           /\ FindString(x) = IF Probed(x, c).key = Empty THEN None ELSE Probed(x, c).key
    BY <2>1, <2>3, <2>9, FirstReturn
  <2>11. Probed(x, c).key \in live \cup {Empty}
    BY <2>1, <2>3, <2>5, ProbeMeets
  <2>12. Probed(x, c).key = Empty
    BY <2>1, <2>2, <2>10, <2>11, InternAssumption
  <2>13. c < d
    <3>1. c # d
      BY <2>3, <2>8, <2>12
    <3>2. ~ (d < c)
      BY SMTT(30), SMTT(60), SMTT(90), <2>8, <2>10
    <3>3. c \in Int /\ d \in Int
      BY <2>2
    <3> QED
      BY <3>1, <3>2, <3>3
  <2>14. c \in 0 .. d - 1
    BY <2>2, <2>13
  <2>15. ~ Stops(strEntries, cap, s, c)
    BY ZenonT(60), <2>2, <2>3, <2>4, <2>6, <2>14 DEF ChainWhole
  <2>16. Probed(x, c) \in {Pristine, Tombstone}
    BY <2>2, <2>7, <2>12 DEF EmptyKnown
  <2>17. Probed(x, c) # Pristine
    BY <2>7, <2>15 DEF Stops
  <2> QED
    BY <2>8, <2>14, <2>16, <2>17
<1> QED
  BY <1>1, InternInvariant, PTL
==============================================================================
