--------------------------- MODULE UpvaluesProofs ---------------------------
(***************************************************************************)
(* Proofs about Upvalues.tla, for any sets of values, up values and names, *)
(* and any bounds: variables keep their one value (SeesVariable), closures *)
(* share exactly what they should (OneUpValueEach), and the list of open   *)
(* up values is sorted and exact (OpenListExact).                          *)
(***************************************************************************)
EXTENDS Upvalues, TLAPS

\* A leaf that names no backend is tried with each of these.
USE SMT, Zenon, SMTT(60), SMTT(90)

\* Pushing a value under a new name adds it above what is there.
LEMMA AppendFacts ==
    ASSUME NEW S, NEW s \in Seq(S), NEW e \in S
    PROVE  /\ Append(s, e) \in Seq(S)
           /\ Len(Append(s, e)) = Len(s) + 1
           /\ \A i \in 1 .. Len(s) : Append(s, e)[i] = s[i]
           /\ Append(s, e)[Len(s) + 1] = e
  OBVIOUS

\* Lowering the top keeps what is below it.
LEMMA PrefixFacts ==
    ASSUME NEW S, NEW s \in Seq(S), NEW n \in 0 .. Len(s)
    PROVE  /\ SubSeq(s, 1, n) \in Seq(S)
           /\ Len(SubSeq(s, 1, n)) = n
           /\ \A i \in 1 .. n : SubSeq(s, 1, n)[i] = s[i]
  OBVIOUS

\* The initial state satisfies the inductive invariant.
LEMMA InitIInv == Init => IInv
  <1> SUFFICES ASSUME Init PROVE IInv
    OBVIOUS
  <1>1. PICK v \in Value, x \in Variable :
            stack = <<v>> /\ names = <<x>> /\ val = [y \in Variable |-> v]
    BY DEF Init
  <1>2. TypeOK
    BY <1>1 DEF Init, TypeOK, Unused
  <1>3. OpenListExact
    BY <1>1 DEF Init, OpenListExact, Unused, Top
  <1>4. OneUpValueEach /\ RefsPlaced /\ OpenUsed
    BY DEF Init, OneUpValueEach, RefsPlaced, OpenUsed, Unused
  <1>5. StackNamed /\ FramesNested
    BY <1>1 DEF Init, StackNamed, FramesNested, Top, Base
  <1> QED
    BY <1>2, <1>3, <1>4, <1>5 DEF IInv

\* Declaring a variable: no closure refers to the new name yet.
LEMMA DeclareIInv ==
    ASSUME IInv, NEW v \in Value, NEW x \in Variable, Declare(v, x)
    PROVE  IInv'
  <1> USE DEF IInv
  <1>1. /\ Top' = Top + 1
        /\ \A i \in 1 .. Top : stack'[i] = stack[i] /\ names'[i] = names[i]
        /\ stack'[Top + 1] = v /\ names'[Top + 1] = x
        /\ stack' \in Seq(Value) /\ names' \in Seq(Variable)
        /\ Len(names') = Len(stack')
    BY AppendFacts DEF TypeOK, Declare, Top
  <1>2. TypeOK'
    BY <1>1 DEF TypeOK, Declare, heap, Top
  <1>3. OpenListExact'
    BY <1>1 DEF OpenListExact, Declare, heap, TypeOK, Top
  <1>4. OneUpValueEach' /\ OpenUsed'
    BY DEF OneUpValueEach, OpenUsed, Declare, heap
  <1>5. RefsPlaced'
    <2> SUFFICES ASSUME NEW r \in refs
                 PROVE  /\ location[r.up] # Unused
                        /\ location[r.up] > 0 => names'[location[r.up]] = r.of
                        /\ location[r.up] = Closed =>
                               /\ closed[r.up] = val'[r.of]
                               /\ \A i \in 1 .. Top' : names'[i] # r.of
      BY Zenon DEF RefsPlaced, Declare, heap
    <2>1. r.up \in Up /\ r.of \in Variable /\ r.of # x
      BY DEF TypeOK, Declare, NewName
    <2>2. location[r.up] \in Unused .. Top
      BY <2>1 DEF OpenListExact
    <2> QED
      BY <1>1, <2>1, <2>2 DEF RefsPlaced, Declare, TypeOK, Unused, Top
  <1>6. StackNamed'
    BY <1>1 DEF StackNamed, Declare, NewName, TypeOK, Top
  <1>7. FramesNested'
    BY <1>1 DEF FramesNested, Declare, TypeOK, Base, Top
  <1> QED
    BY <1>2, <1>3, <1>4, <1>5, <1>6, <1>7

\* Assigning a local: an open up value of its slot sees it, and no closed one
\* is of its variable.
LEMMA SetLocalIInv ==
    ASSUME IInv, NEW i \in Base .. Top, NEW v \in Value, SetLocal(i, v)
    PROVE  IInv'
  <1> USE DEF IInv
  <1>0. Base \in Nat \ {0} /\ i \in 1 .. Top
    BY DEF TypeOK, Base, Top
  <1>1. /\ Top' = Top
        /\ stack' \in Seq(Value)
        /\ \A j \in 1 .. Top : stack'[j] = IF j = i THEN v ELSE stack[j]
    BY <1>0 DEF TypeOK, SetLocal, Top
  <1>2. names[i] \in Variable /\ val'[names[i]] = v
    BY <1>0 DEF TypeOK, SetLocal, Top
  <1>3. TypeOK'
    BY <1>1, <1>2 DEF TypeOK, SetLocal, heap, Top
  <1>4. OpenListExact' /\ OneUpValueEach' /\ OpenUsed' /\ FramesNested'
    BY <1>1 DEF OpenListExact, OneUpValueEach, OpenUsed, FramesNested, SetLocal, heap, Base
  <1>5. RefsPlaced'
    BY <1>0, <1>1, <1>2 DEF RefsPlaced, SetLocal, heap, TypeOK
  <1>6. StackNamed'
    BY <1>0, <1>1, <1>2 DEF StackNamed, SetLocal, TypeOK, Top
  <1> QED
    BY <1>3, <1>4, <1>5, <1>6

\* Assigning through an up value: the slot of an open one holds the variable;
\* every other closure of the variable has the same up value.
LEMMA SetUpValueIInv ==
    ASSUME IInv, NEW r \in refs, NEW v \in Value, SetUpValue(r, v)
    PROVE  IInv'
  <1> USE DEF IInv
  <1>0. r.up \in Up /\ r.of \in Variable /\ location[r.up] \in 0 .. Top
    BY DEF TypeOK, OpenListExact, RefsPlaced, Unused, Top
  <1>1. CASE location[r.up] = Closed
    <2>1. /\ closed' = [closed EXCEPT ![r.up] = v]
          /\ UNCHANGED <<stack, frames, open, location, names, refs>>
          /\ val' = [val EXCEPT ![r.of] = v]
      BY <1>1 DEF SetUpValue
    <2>2. TypeOK' /\ OpenListExact' /\ OneUpValueEach' /\ OpenUsed' /\ FramesNested'
      BY <1>0, <2>1
      DEF TypeOK, OpenListExact, OneUpValueEach, OpenUsed, FramesNested, Top, Base
    <2>3. RefsPlaced'
      BY <1>0, <1>1, <2>1 DEF RefsPlaced, OneUpValueEach, TypeOK, Top
    <2>4. StackNamed'
      BY <1>0, <1>1, <2>1 DEF StackNamed, RefsPlaced, TypeOK, Top
    <2> QED
      BY <2>2, <2>3, <2>4
  <1>2. CASE location[r.up] # Closed
    <2> DEFINE i == location[r.up]
    <2>1. i \in 1 .. Top /\ names[i] = r.of
      BY <1>0, <1>2 DEF RefsPlaced, Closed
    <2>2. /\ stack' = [stack EXCEPT ![i] = v]
          /\ UNCHANGED <<closed, frames, open, location, names, refs>>
          /\ val' = [val EXCEPT ![r.of] = v]
      BY <1>2 DEF SetUpValue
    <2>3. /\ Top' = Top
          /\ stack' \in Seq(Value)
          /\ \A j \in 1 .. Top : stack'[j] = IF j = i THEN v ELSE stack[j]
      BY <2>1, <2>2 DEF TypeOK, Top
    <2>4. TypeOK' /\ OpenListExact' /\ OneUpValueEach' /\ OpenUsed' /\ FramesNested'
      BY <1>0, <2>2, <2>3
      DEF TypeOK, OpenListExact, OneUpValueEach, OpenUsed, FramesNested, Top, Base
    <2>5. RefsPlaced'
      BY <1>0, <2>1, <2>2, <2>3 DEF RefsPlaced, TypeOK
    <2>6. StackNamed'
      BY <1>0, <2>1, <2>2, <2>3 DEF StackNamed, TypeOK, Top
    <2> QED
      BY <2>4, <2>5, <2>6
  <1> QED
    BY <1>1, <1>2

\* A slot's variable has no up value but the open one of the slot.
LEMMA VariableOfSlot ==
    ASSUME IInv, NEW i \in 1 .. Top, NEW r \in refs
    PROVE  /\ r.of = names[i] <=> location[r.up] = i
           /\ r.up \in Up /\ r.of \in Variable
  <1> USE DEF IInv
  <1>1. r.up \in Up /\ r.of \in Variable /\ location[r.up] \in 0 .. Top
    BY DEF TypeOK, OpenListExact, RefsPlaced, Unused, Top
  <1> QED
    BY <1>1 DEF RefsPlaced, StackNamed, Closed

\* The list holds open up values, and every one of them.
LEMMA OpenMembers ==
    ASSUME IInv
    PROVE  /\ \A k \in 1 .. Len(open) : open[k] \in Up /\ location[open[k]] \in 1 .. Top
           /\ \A w \in Up : location[w] > 0 => \E k \in 1 .. Len(open) : open[k] = w
           /\ \A w \in Up : location[w] \in Int
           /\ Len(open) \in Nat
  <1>1. \A k \in 1 .. Len(open) : open[k] \in Up
    BY DEF IInv, TypeOK
  <1>2. \A k \in 1 .. Len(open) : location[open[k]] > 0
    BY <1>1 DEF IInv, OpenListExact
  <1>3. \A u \in Up : location[u] \in Unused .. Top
    BY DEF IInv, OpenListExact
  <1>4. Top \in Nat /\ Len(open) \in Nat
    BY DEF IInv, TypeOK, Top
  <1>5. \A u \in Up : location[u] > 0 => \E k \in 1 .. Len(open) : open[k] = u
    BY DEF IInv, OpenListExact
  <1> QED
    BY <1>1, <1>2, <1>3, <1>4, <1>5 DEF Unused

\* In a sorted list no slot occurs twice.
LEMMA SlotsDistinct ==
    ASSUME IInv, NEW t \in Up, NEW u \in Up, location[t] = location[u], location[t] > 0
    PROVE  t = u
  <1>1. PICK j \in 1 .. Len(open) : open[j] = t
    BY OpenMembers
  <1>2. PICK k \in 1 .. Len(open) : open[k] = u
    BY OpenMembers
  <1>3. ~ (location[t] > location[u]) /\ ~ (location[u] > location[t])
    BY OpenMembers
  <1>4. ~ (j < k) /\ ~ (k < j)
    BY <1>1, <1>2, <1>3 DEF IInv, OpenListExact
  <1> QED
    BY <1>1, <1>2, <1>4, OpenMembers

\* Capturing a slot that has an up value.
LEMMA CaptureAgainIInv ==
    ASSUME IInv, NEW i \in Base .. Top, NEW p \in 1 .. Len(open) + 1, CaptureAgain(i, p)
    PROVE  IInv'
  <1> DEFINE t == [up |-> open[p], of |-> names[i]]
  <1>0. i \in 1 .. Top /\ names[i] \in Variable /\ open[p] \in Up
    BY SMTT(30), SMTT(60), SMTT(90) DEF IInv, TypeOK, Base, Top, CaptureAgain
  <1>1. refs' = refs \cup {t} /\ location[t.up] = i
        /\ UNCHANGED <<stack, frames, open, location, closed, names, val>>
    BY DEF CaptureAgain, heap
  <1>2. TypeOK' /\ OpenListExact' /\ StackNamed' /\ FramesNested'
    BY SMTT(30), SMTT(60), SMTT(90), <1>0, <1>1 DEF IInv, TypeOK, OpenListExact, StackNamed, FramesNested, Top, Base
  <1>3. RefsPlaced'
    BY <1>0, <1>1 DEF IInv, RefsPlaced, Unused, Closed, Top
  <1>4. \A r \in refs : r.up = t.up <=> r.of = t.of
    BY <1>0, <1>1, VariableOfSlot, SlotsDistinct
  <1>5. OneUpValueEach' /\ OpenUsed'
    BY <1>1, <1>4 DEF IInv, OneUpValueEach, OpenUsed
  <1> QED
    BY <1>2, <1>3, <1>5 DEF IInv

\* Capturing a slot that has none: the list stays sorted.
LEMMA CaptureNewIInv ==
    ASSUME IInv, NEW i \in Base .. Top, NEW p \in 1 .. Len(open) + 1, NEW u \in Up,
           CaptureNew(i, p, u)
    PROVE  IInv'
  <1> DEFINE t == [up |-> u, of |-> names[i]]
  <1>0. i \in 1 .. Top /\ names[i] \in Variable
    BY DEF IInv, TypeOK, Base, Top
  <1>1. /\ refs' = refs \cup {t}
        /\ location[u] = Unused
        /\ location' = [location EXCEPT ![u] = i]
        /\ open' = Inserted(p, u)
        /\ UNCHANGED <<stack, frames, closed, names, val>>
    BY DEF CaptureNew
  <1>2. /\ open' \in Seq(Up)
        /\ Len(open') = Len(open) + 1
        /\ \A k \in 1 .. Len(open') :
               open'[k] = IF k < p THEN open[k] ELSE IF k = p THEN u ELSE open[k - 1]
    <2>1. open' \in [1 .. Len(open) + 1 -> Up]
      BY <1>1 DEF IInv, TypeOK, Inserted
    <2> QED
      BY <1>1, <2>1 DEF IInv, TypeOK, Inserted
  <1>3. \A q \in 1 .. Len(open) : /\ open[q] # u
                                 /\ open[q] \in Up
                                 /\ location[open[q]] \in Int
                                 /\ location'[open[q]] = location[open[q]]
                                 /\ (q < p => location[open[q]] > i)
                                 /\ (q >= p => location[open[q]] < i)
    <2> SUFFICES ASSUME NEW k \in 1 .. Len(open)
                 PROVE  /\ open[k] # u
                        /\ open[k] \in Up /\ location[open[k]] \in Int
                        /\ location'[open[k]] = location[open[k]]
                        /\ k < p => location[open[k]] > i
                        /\ k >= p => location[open[k]] < i
      OBVIOUS
    <2>1. open[k] \in Up /\ location[open[k]] \in Int /\ open[k] # u
      BY <1>1, OpenMembers DEF Unused
    <2>2. location'[open[k]] = location[open[k]]
      BY <1>1, <2>1 DEF IInv, TypeOK
    <2>3. k < p => location[open[k]] > i
      BY DEF CaptureNew, WalksTo
    <2>4. k >= p => location[open[k]] < i
      <3> HAVE k >= p
      <3>1. p \in 1 .. Len(open) /\ open[p] \in Up /\ location[open[p]] < i
        BY SMTT(30), SMTT(60), SMTT(90), <1>0 DEF CaptureNew, WalksTo, IInv, TypeOK
      <3>2. k > p => location[open[k]] < location[open[p]]
        BY <3>1 DEF IInv, OpenListExact
      <3> QED
        BY SMTT(30), SMTT(60), SMTT(90), <1>0, <2>1, <3>1, <3>2 DEF IInv, TypeOK
    <2> QED
      BY <2>1, <2>2, <2>3, <2>4
  <1>4. TypeOK'
    BY SMTT(30), SMTT(60), SMTT(90), <1>0, <1>1, <1>2 DEF IInv, TypeOK, Top
  <1>5. OpenListExact'
    <2>1. \A j, k \in 1 .. Len(open') : j < k => location'[open'[j]] > location'[open'[k]]
      <3> SUFFICES ASSUME NEW j \in 1 .. Len(open'), NEW k \in 1 .. Len(open'), j < k
                   PROVE  location'[open'[j]] > location'[open'[k]]
        OBVIOUS
      <3>1. location'[u] = i
        BY <1>1 DEF IInv, TypeOK
      <3>2. CASE j = p
        <4> DEFINE b == k - 1
        <4>1. b \in 1 .. Len(open) /\ b >= p /\ open'[k] = open[b] /\ open'[j] = u
          BY <1>2, <3>2
        <4> HIDE DEF b
        <4>2. location'[open[b]] = location[open[b]]
          BY <1>3, <4>1
        <4>3. location[open[b]] < i
          BY <1>3, <4>1
        <4> QED
          BY <1>0, <1>3, <3>1, <4>1, <4>2, <4>3
      <3>3. CASE k = p
        <4>1. j \in 1 .. Len(open) /\ open'[j] = open[j] /\ open'[k] = u
          BY <1>2, <3>3, OpenMembers
        <4>2. location'[open[j]] = location[open[j]] /\ location[open[j]] > i
          BY <1>3, <3>3, <4>1
        <4> QED
          BY <1>0, <1>3, <3>1, <4>1, <4>2
      <3>4. CASE j # p /\ k # p
        <4> DEFINE a == IF j < p THEN j ELSE j - 1
                   b == IF k < p THEN k ELSE k - 1
        <4>1. a \in 1 .. Len(open) /\ b \in 1 .. Len(open) /\ a < b
          BY <1>2, <3>4
        <4>2. open'[j] = open[a] /\ open'[k] = open[b]
          BY <1>2, <3>4
        <4>3. location[open[a]] > location[open[b]]
          BY <4>1 DEF IInv, OpenListExact
        <4>4. location'[open[a]] = location[open[a]] /\ location'[open[b]] = location[open[b]]
          BY Zenon, <1>3, <4>1
        <4> QED
          BY <4>2, <4>3, <4>4
      <3> QED
        BY <3>2, <3>3, <3>4
    <2>2. \A w \in Up : location'[w] > 0 <=> \E k \in 1 .. Len(open') : open'[k] = w
      <3> SUFFICES ASSUME NEW w \in Up
                   PROVE  location'[w] > 0 <=> \E k \in 1 .. Len(open') : open'[k] = w
        OBVIOUS
      <3>1. CASE w = u
        <4>1. location'[w] > 0
          BY <1>0, <1>1, <3>1 DEF IInv, TypeOK
        <4>2. p \in 1 .. Len(open') /\ open'[p] = w
          BY <1>2, <3>1
        <4> QED
          BY <4>1, <4>2
      <3>2. CASE w # u
        <4>1. location'[w] = location[w]
          BY <1>1, <3>2 DEF IInv, TypeOK
        <4>2. ASSUME NEW k \in 1 .. Len(open), open[k] = w
              PROVE  \E j \in 1 .. Len(open') : open'[j] = w
          <5>1. CASE k < p
            BY <1>2, <4>2, <5>1
          <5>2. CASE k >= p
            <6>1. k + 1 \in 1 .. Len(open') /\ open'[k + 1] = w
              BY <1>2, <4>2, <5>2
            <6> QED
              BY <6>1
          <5> QED
            BY <5>1, <5>2
        <4>3. ASSUME NEW k \in 1 .. Len(open'), open'[k] = w
              PROVE  \E j \in 1 .. Len(open) : open[j] = w
          <5>1. CASE k < p
            BY <1>2, <4>3, <5>1
          <5>2. CASE k > p
            <6>1. k - 1 \in 1 .. Len(open) /\ open[k - 1] = w
              BY <1>2, <4>3, <5>2
            <6> QED
              BY <6>1
          <5> QED
            BY <1>2, <3>2, <4>3, <5>1, <5>2
        <4> QED
          BY <4>1, <4>2, <4>3 DEF IInv, OpenListExact
      <3> QED
        BY <3>1, <3>2
    <2>3. \A w \in Up : location'[w] \in Unused .. Top'
      BY <1>0, <1>1 DEF IInv, TypeOK, OpenListExact, Unused, Top
    <2> QED
      BY <2>1, <2>2, <2>3 DEF OpenListExact
  <1>6. \A r \in refs : r.up # u /\ r.of # names[i] /\ location'[r.up] = location[r.up]
    <2> SUFFICES ASSUME NEW r \in refs
                 PROVE  r.up # u /\ r.of # names[i] /\ location'[r.up] = location[r.up]
      OBVIOUS
    <2>1. r.up \in Up /\ r.up # u
      BY <1>1 DEF IInv, TypeOK, RefsPlaced
    <2>2. location[r.up] # i
      <3> SUFFICES ASSUME location[r.up] = i PROVE FALSE
        OBVIOUS
      <3>1. location[r.up] > 0
        BY <1>0
      <3>2. \E q \in 1 .. Len(open) : open[q] = r.up
        BY <2>1, <3>1, OpenMembers
      <3>3. PICK q \in 1 .. Len(open) : open[q] = r.up
        BY <3>2
      <3> QED
        BY <1>0, <1>3, <3>3
    <2> QED
      BY <1>0, <1>1, <2>1, <2>2, VariableOfSlot DEF IInv, TypeOK
  <1>7. RefsPlaced'
    BY <1>0, <1>1, <1>6 DEF IInv, TypeOK, RefsPlaced, Unused, Closed, Top
  <1>8. OneUpValueEach' /\ OpenUsed'
    <2>1. OneUpValueEach'
      BY <1>1, <1>6 DEF IInv, OneUpValueEach
    <2>2. OpenUsed'
      <3> SUFFICES ASSUME NEW w \in Up, location'[w] > 0
                   PROVE  \E r \in refs' : r.up = w
        BY DEF OpenUsed
      <3>1. CASE w = u
        <4>1. t \in refs' /\ t.up = w
          BY <1>1, <3>1
        <4> QED
          BY <4>1
      <3>2. CASE w # u
        BY <1>1, <3>2 DEF IInv, TypeOK, OpenUsed
      <3> QED
        BY <3>1, <3>2
    <2> QED
      BY <2>1, <2>2
  <1>9. StackNamed' /\ FramesNested'
    BY <1>1 DEF IInv, StackNamed, FramesNested, Top, Base
  <1> QED
    BY <1>4, <1>5, <1>7, <1>8, <1>9 DEF IInv

\* A variable that is popped without being closed has no up value.
LEMMA PopLocalIInv ==
    ASSUME IInv, PopLocal
    PROVE  IInv'
  <1>1. Top \in Nat /\ Base \in Nat \ {0} /\ Top > Base /\ Len(names) = Top
    BY DEF IInv, TypeOK, Top, Base, PopLocal
  <1>2. /\ stack' \in Seq(Value) /\ Len(stack') = Top - 1
        /\ \A q \in 1 .. Top - 1 : stack'[q] = stack[q]
    BY <1>1, PrefixFacts DEF PopLocal, IInv, TypeOK, Top
  <1>3. /\ names' \in Seq(Variable) /\ Len(names') = Top - 1
        /\ \A q \in 1 .. Top - 1 : names'[q] = names[q]
    BY <1>1, PrefixFacts DEF PopLocal, IInv, TypeOK, Top
  <1>4. UNCHANGED <<frames, open, location, closed, val, refs>>
    BY DEF PopLocal, heap
  <1>5. Top' = Top - 1 /\ Base' = Base
    BY <1>2, <1>4 DEF Top, Base
  <1>6. \A w \in Up : location[w] \in Int /\ location[w] # Top
    <2> SUFFICES ASSUME NEW w \in Up, location[w] = Top PROVE FALSE
      BY OpenMembers
    <2>1. PICK r \in refs : r.up = w
      BY <1>1 DEF IInv, OpenUsed
    <2> QED
      BY <1>1, <2>1, VariableOfSlot DEF PopLocal
  <1>7. TypeOK'
    BY <1>2, <1>3, <1>4 DEF IInv, TypeOK
  <1>8. OpenListExact'
    BY <1>1, <1>4, <1>5, <1>6 DEF IInv, OpenListExact, Unused
  <1>9. OneUpValueEach' /\ OpenUsed'
    BY <1>4 DEF IInv, OneUpValueEach, OpenUsed
  <1>10. RefsPlaced'
    <2> SUFFICES ASSUME NEW r \in refs
                 PROVE  /\ location[r.up] # Unused
                        /\ location[r.up] > 0 => names'[location[r.up]] = r.of
                        /\ location[r.up] = Closed =>
                               /\ closed[r.up] = val[r.of]
                               /\ \A q \in 1 .. Top - 1 : names'[q] # r.of
      BY <1>4, <1>5 DEF RefsPlaced
    <2>1. r.up \in Up /\ location[r.up] \in Unused .. Top /\ location[r.up] # Top
      BY <1>1, <1>6 DEF IInv, TypeOK, OpenListExact
    <2> QED
      BY <1>1, <1>3, <2>1 DEF IInv, RefsPlaced, Unused
  <1>11. StackNamed' /\ FramesNested'
    BY <1>1, <1>2, <1>3, <1>4, <1>5 DEF IInv, StackNamed, FramesNested
  <1> QED
    BY <1>7, <1>8, <1>9, <1>10, <1>11 DEF IInv

\* close_up_values closes exactly the up values at the slot last or above it,
\* and each takes the value of its slot with it.
LEMMA CloseFacts ==
    ASSUME IInv, NEW last \in 1 .. Top, NEW n \in 0 .. Len(open), CloseUpValues(last, n)
    PROVE  /\ open' \in Seq(Up) /\ Len(open') = Len(open) - n
           /\ \A q \in 1 .. Len(open) - n : open'[q] = open[q + n]
           /\ location' \in [Up -> Int] /\ closed' \in [Up -> Value]
           /\ \A w \in Up : location[w] >= last =>
                  location'[w] = Closed /\ closed'[w] = stack[location[w]]
           /\ \A w \in Up : location[w] < last =>
                  location'[w] = location[w] /\ closed'[w] = closed[w]
  <1> DEFINE closing == {open[k] : k \in 1 .. n}
  <1>1. /\ \A k \in 1 .. n : location[open[k]] >= last
        /\ n < Len(open) => location[open[n + 1]] < last
        /\ open' = [k \in 1 .. Len(open) - n |-> open[k + n]]
        /\ location' = [w \in Up |-> IF w \in closing THEN Closed ELSE location[w]]
        /\ closed' = [w \in Up |-> IF w \in closing THEN stack[location[w]]
                                                     ELSE closed[w]]
    BY DEF CloseUpValues
  <1>2. Len(open) \in Nat /\ Top \in Nat /\ last \in Nat /\ n \in Nat
    BY OpenMembers DEF IInv, TypeOK, Top
  <1>3. \A q \in 1 .. Len(open) : open[q] \in Up /\ location[open[q]] \in 1 .. Top
    BY OpenMembers
  <1>4. open' \in Seq(Up) /\ Len(open') = Len(open) - n
    <2> DEFINE m == Len(open) - n
    <2>1. m \in Nat /\ open' \in [1 .. m -> Up]
      BY <1>1, <1>2, <1>3
    <2>2. DOMAIN open' = 1 .. m
      BY <2>1
    <2> HIDE DEF m
    <2>3. open' \in Seq(Up) /\ Len(open') = m
      BY <2>1, <2>2
    <2> QED
      BY <2>3 DEF m
  <1>5. \A w \in Up : w \in closing <=> location[w] >= last
    <2> SUFFICES ASSUME NEW w \in Up
                 PROVE  w \in closing <=> location[w] >= last
      OBVIOUS
    <2>1. ASSUME w \in closing PROVE location[w] >= last
      BY <1>1, <2>1
    <2>2. ASSUME location[w] >= last PROVE w \in closing
      <3>1. location[w] > 0
        BY <1>2, <2>2, OpenMembers
      <3>2. \E q \in 1 .. Len(open) : open[q] = w
        BY <3>1, OpenMembers
      <3>3. PICK q \in 1 .. Len(open) : open[q] = w
        BY <3>2
      <3>4. CASE q <= n
        BY <1>2, <3>3, <3>4
      <3>5. CASE q > n
        <4>1. n + 1 \in 1 .. Len(open) /\ location[open[n + 1]] < last
          BY <1>1, <1>2, <3>5
        <4>2. q > n + 1 => location[open[n + 1]] > location[open[q]]
          BY <4>1 DEF IInv, OpenListExact
        <4>3. location[open[q]] < last
          BY <1>2, <1>3, <3>5, <4>1, <4>2
        <4> QED
          BY <1>2, <1>3, <2>2, <3>3, <4>3
      <3> QED
        BY <1>2, <3>4, <3>5
    <2> QED
      BY <2>1, <2>2
  <1>6. location' \in [Up -> Int]
    BY <1>1 DEF IInv, TypeOK, Closed
  <1>7. closed' \in [Up -> Value]
    <2>1. \A w \in closing : stack[location[w]] \in Value
      BY <1>2, <1>3 DEF IInv, TypeOK, Top
    <2> QED
      BY Zenon, <1>1, <2>1 DEF IInv, TypeOK
  <1> HIDE DEF closing
  <1>8. \A w \in Up : location[w] >= last =>
            location'[w] = Closed /\ closed'[w] = stack[location[w]]
    BY <1>1, <1>5
  <1>9. \A w \in Up : location[w] < last =>
            location'[w] = location[w] /\ closed'[w] = closed[w]
    <2>1. \A w \in Up : location[w] < last => w \notin closing
      BY <1>2, <1>5, OpenMembers
    <2> QED
      BY <1>1, <2>1
  <1> QED
    BY <1>1, <1>4, <1>6, <1>7, <1>8, <1>9

\* Closing everything from the slot last up, keeping the slots below it and
\* putting at most a new variable in its place, keeps what the invariant says
\* of up values.
LEMMA CloseKeeps ==
    ASSUME IInv, NEW last \in 1 .. Top, NEW n \in 0 .. Len(open), CloseUpValues(last, n),
           refs' = refs, Top' \in {last - 1, last},
           \A q \in 1 .. last - 1 : names'[q] = names[q],
           Top' = last => \A r \in refs : r.of # names'[last],
           \A r \in refs : val'[r.of] = val[r.of]
    PROVE  OpenListExact' /\ OneUpValueEach' /\ OpenUsed' /\ RefsPlaced'
  <1>1. /\ Len(open) \in Nat /\ Top \in Nat /\ last \in Nat \ {0} /\ n \in Nat
        /\ \A w \in Up : location[w] \in Int
    BY OpenMembers DEF IInv, TypeOK, Top
  <1>2. /\ open' \in Seq(Up) /\ Len(open') = Len(open) - n
        /\ \A q \in 1 .. Len(open) - n : open'[q] = open[q + n]
        /\ location' \in [Up -> Int]
    BY CloseFacts
  <1>3. \A w \in Up : location[w] >= last =>
            location'[w] = 0 /\ closed'[w] = stack[location[w]]
    BY CloseFacts DEF Closed
  <1>4. \A w \in Up : location[w] < last =>
            location'[w] = location[w] /\ closed'[w] = closed[w]
    BY CloseFacts
  <1>5. \A w \in Up : location'[w] > 0 => location'[w] = location[w] /\ location[w] < last
    BY <1>1, <1>3, <1>4
  <1>6. \A q \in 1 .. Len(open') : location'[open'[q]] = location[open[q + n]]
    <2> SUFFICES ASSUME NEW q \in 1 .. Len(open')
                 PROVE  location'[open'[q]] = location[open[q + n]]
      OBVIOUS
    <2>1. /\ q + n \in 1 .. Len(open) /\ open'[q] = open[q + n] /\ open[q + n] \in Up
          /\ n + 1 \in 1 .. Len(open)
      <3>1. q + n \in 1 .. Len(open) /\ n + 1 \in 1 .. Len(open)
        BY <1>1, <1>2
      <3>2. open'[q] = open[q + n]
        BY <1>1, <1>2
      <3>3. open[q + n] \in Up
        BY <3>1, OpenMembers
      <3> QED
        BY <3>1, <3>2, <3>3
    <2>2. location[open[n + 1]] < last
      BY <1>1, <2>1 DEF CloseUpValues
    <2>3. q > 1 => location[open[n + 1]] > location[open[q + n]]
      BY <1>1, <2>1 DEF IInv, OpenListExact
    <2>4. location[open[q + n]] < last
      <3>1. open[n + 1] \in Up
        BY <2>1, OpenMembers
      <3>2. CASE q = 1
        BY <1>1, <2>2, <3>2
      <3>3. CASE q > 1
        BY <1>1, <2>1, <2>2, <2>3, <3>1, <3>3
      <3> QED
        BY <3>2, <3>3
    <2> QED
      BY <1>4, <2>1, <2>4
  <1>7. OpenListExact'
    <2>1. \A j, k \in 1 .. Len(open') : j < k => location'[open'[j]] > location'[open'[k]]
      <3> SUFFICES ASSUME NEW j \in 1 .. Len(open'), NEW k \in 1 .. Len(open'), j < k
                   PROVE  location[open[j + n]] > location[open[k + n]]
        BY <1>6
      <3>1. j + n \in 1 .. Len(open) /\ k + n \in 1 .. Len(open) /\ j + n < k + n
        BY <1>1, <1>2
      <3> QED
        BY <3>1 DEF IInv, OpenListExact
    <2>2. \A w \in Up : location'[w] > 0 <=> \E k \in 1 .. Len(open') : open'[k] = w
      <3> SUFFICES ASSUME NEW w \in Up
                   PROVE  location'[w] > 0 <=> \E k \in 1 .. Len(open') : open'[k] = w
        OBVIOUS
      <3>1. ASSUME NEW k \in 1 .. Len(open'), open'[k] = w
            PROVE  location'[w] > 0
        <4>1. k + n \in 1 .. Len(open) /\ location'[w] = location[open[k + n]]
          BY <1>1, <1>2, <1>6, <3>1
        <4> QED
          BY <4>1, OpenMembers
      <3>2. ASSUME location'[w] > 0
            PROVE  \E k \in 1 .. Len(open') : open'[k] = w
        <4>1. location[w] > 0 /\ location[w] < last
          BY <1>5, <3>2
        <4>2. \E q \in 1 .. Len(open) : open[q] = w
          BY <4>1, OpenMembers
        <4>3. PICK q \in 1 .. Len(open) : open[q] = w
          BY <4>2
        <4>4. ~ (q \in 1 .. n)
          BY <1>1, <4>1, <4>3 DEF CloseUpValues
        <4>5. q - n \in 1 .. Len(open') /\ open'[q - n] = w
          BY <1>1, <1>2, <4>3, <4>4
        <4> QED
          BY <4>5
      <3> QED
        BY <3>1, <3>2
    <2>3. \A w \in Up : location'[w] \in Unused .. Top'
      <3> SUFFICES ASSUME NEW w \in Up
                   PROVE  location'[w] \in Unused .. Top'
        OBVIOUS
      <3>1. location[w] \in Unused .. Top
        BY DEF IInv, OpenListExact
      <3>2. CASE location[w] >= last
        BY <1>1, <1>3, <3>2 DEF Unused
      <3>3. CASE location[w] < last
        BY <1>1, <1>4, <3>1, <3>3 DEF Unused
      <3> QED
        BY <1>1, <3>2, <3>3
    <2> QED
      BY <2>1, <2>2, <2>3 DEF OpenListExact
  <1>8. OneUpValueEach' /\ OpenUsed'
    BY <1>5 DEF IInv, OneUpValueEach, OpenUsed
  <1>9. RefsPlaced'
    <2> SUFFICES ASSUME NEW r \in refs
                 PROVE  /\ location'[r.up] # Unused
                        /\ location'[r.up] > 0 => names'[location'[r.up]] = r.of
                        /\ location'[r.up] = Closed =>
                               /\ closed'[r.up] = val'[r.of]
                               /\ \A i \in 1 .. Top' : names'[i] # r.of
      BY DEF RefsPlaced
    <2>1. r.up \in Up /\ r.of \in Variable /\ location[r.up] \in 0 .. Top
      <3>1. r.up \in Up /\ r.of \in Variable
        BY DEF IInv, TypeOK
      <3>2. location[r.up] \in Unused .. Top
        BY <3>1 DEF IInv, OpenListExact
      <3>3. location[r.up] # Unused
        BY DEF IInv, RefsPlaced
      <3> QED
        BY <3>1, <3>2, <3>3 DEF Unused, Top
    <2>2. CASE location[r.up] >= last
      <3>1. location'[r.up] = 0 /\ closed'[r.up] = stack[location[r.up]]
        BY <1>3, <2>1, <2>2
      <3>2. names[location[r.up]] = r.of /\ location[r.up] \in 1 .. Top
        BY <1>1, <2>1, <2>2 DEF IInv, RefsPlaced
      <3>3. closed'[r.up] = val'[r.of]
        BY SMTT(30), SMTT(60), SMTT(90), <3>1, <3>2 DEF IInv, StackNamed
      <3>4. \A q \in 1 .. last - 1 : names'[q] # r.of
        <4> SUFFICES ASSUME NEW q \in 1 .. last - 1
                     PROVE  names[q] # r.of
          OBVIOUS
        <4> QED
          BY <1>1, <2>2, <3>2 DEF IInv, StackNamed
      <3>5. \A q \in 1 .. Top' : names'[q] # r.of
        BY <1>1, <3>4
      <3> QED
        BY <3>1, <3>3, <3>5 DEF Unused
    <2>3. CASE location[r.up] < last
      <3>1. location'[r.up] = location[r.up] /\ closed'[r.up] = closed[r.up]
        BY <1>4, <2>1, <2>3
      <3>2. location[r.up] > 0 => names'[location[r.up]] = r.of
        BY <1>1, <2>1, <2>3 DEF IInv, RefsPlaced
      <3>3. ASSUME location[r.up] = Closed
            PROVE  closed[r.up] = val[r.of] /\ \A q \in 1 .. Top' : names'[q] # r.of
        BY <1>1, <2>1, <3>3 DEF IInv, RefsPlaced
      <3> QED
        BY <2>1, <3>1, <3>2, <3>3 DEF Unused
    <2> QED
      BY <1>1, <2>1, <2>2, <2>3
  <1> QED
    BY <1>7, <1>8, <1>9

\* A captured variable leaves its scope.
LEMMA CloseScopeIInv ==
    ASSUME IInv, NEW n \in 0 .. Len(open), CloseScope(n)
    PROVE  IInv'
  <1>1. Top \in 1 .. Top /\ Top \in Nat /\ Base \in Nat \ {0} /\ Top > Base
    BY DEF IInv, TypeOK, Top, Base, CloseScope
  <1>2. /\ stack' \in Seq(Value) /\ Len(stack') = Top - 1
        /\ \A q \in 1 .. Top - 1 : stack'[q] = stack[q]
    BY <1>1, PrefixFacts DEF CloseScope, IInv, TypeOK, Top
  <1>3. /\ names' \in Seq(Variable) /\ Len(names') = Top - 1
        /\ \A q \in 1 .. Top - 1 : names'[q] = names[q]
    BY <1>1, PrefixFacts DEF CloseScope, IInv, TypeOK, Top
  <1>4. UNCHANGED <<frames, val, refs>> /\ CloseUpValues(Top, n)
    BY DEF CloseScope
  <1>5. Top' = Top - 1 /\ Base' = Base
    BY <1>2, <1>4 DEF Top, Base
  <1>6. OpenListExact' /\ OneUpValueEach' /\ OpenUsed' /\ RefsPlaced'
    <2> DEFINE last == Top
    <2>1. /\ last \in 1 .. Top /\ CloseUpValues(last, n) /\ refs' = refs
          /\ Top' = last - 1
          /\ \A q \in 1 .. last - 1 : names'[q] = names[q]
          /\ \A r \in refs : val'[r.of] = val[r.of]
      BY <1>1, <1>3, <1>4, <1>5
    <2>2. Top' \in {last - 1, last} /\ ~ (Top' = last)
      BY <1>1, <2>1
    <2> QED
      BY <2>1, <2>2, CloseKeeps
  <1>7. open' \in Seq(Up) /\ location' \in [Up -> Int] /\ closed' \in [Up -> Value]
    BY <1>1, <1>4, CloseFacts
  <1>8. TypeOK'
    BY <1>2, <1>3, <1>4, <1>7 DEF IInv, TypeOK
  <1>9. StackNamed' /\ FramesNested'
    BY <1>1, <1>2, <1>3, <1>4, <1>5 DEF IInv, StackNamed, FramesNested
  <1> QED
    BY <1>6, <1>8, <1>9 DEF IInv

\* A call only adds a frame.
LEMMA CallIInv ==
    ASSUME IInv, Call
    PROVE  IInv'
  <1> USE DEF IInv
  <1>1. Top \in Nat \ {0}
    BY DEF TypeOK, FramesNested, Top, Base
  <1>2. /\ frames' \in Seq(Nat \ {0}) /\ Len(frames') = Len(frames) + 1
        /\ \A q \in 1 .. Len(frames) : frames'[q] = frames[q]
        /\ frames'[Len(frames) + 1] = Top
    BY <1>1, AppendFacts DEF Call, TypeOK
  <1>3. UNCHANGED <<stack, open, location, closed, names, val, refs>>
    BY DEF Call, heap, history
  <1>4. TypeOK' /\ OpenListExact' /\ OneUpValueEach' /\ OpenUsed' /\ RefsPlaced' /\ StackNamed'
    BY SMTT(30), SMTT(60), SMTT(90), <1>2, <1>3
    DEF TypeOK, OpenListExact, OneUpValueEach, OpenUsed, RefsPlaced, StackNamed, Top
  <1>5. \A q \in 1 .. Len(frames) : frames[q] <= Top
    BY SMTT(30), SMTT(60), SMTT(90), <1>1 DEF FramesNested, TypeOK, Base
  <1>6. FramesNested'
    <2>1. Len(frames) \in Nat /\ \A q \in 1 .. Len(frames) : frames[q] \in Nat
      BY DEF TypeOK
    <2>2. Top' = Top /\ Base' = Top
      BY <1>2, <1>3 DEF Base, Top
    <2>3. \A j, k \in 1 .. Len(frames) : j <= k => frames[j] <= frames[k]
      BY DEF FramesNested
    <2>4. \A j, k \in 1 .. Len(frames') : j <= k => frames'[j] <= frames'[k]
      BY SMTT(30), SMTT(60), SMTT(90), <1>1, <1>2, <1>5, <2>1, <2>3
    <2> QED
      BY <1>1, <2>2, <2>4 DEF FramesNested
  <1> QED
    BY <1>4, <1>6

\* A return gives up the frame's slots and pushes the result, which is no
\* variable any closure knows.
LEMMA ReturnIInv ==
    ASSUME IInv, NEW n \in 0 .. Len(open), NEW v \in Value, NEW x \in Variable,
           Return(n, v, x)
    PROVE  IInv'
  <1>1. Top \in Nat /\ Base \in Nat \ {0} /\ Base \in 1 .. Top
    BY DEF IInv, TypeOK, FramesNested, Top, Base
  <1>2. /\ stack' \in Seq(Value) /\ Len(stack') = Base
        /\ \A q \in 1 .. Base - 1 : stack'[q] = stack[q]
        /\ stack'[Base] = v
    <2> DEFINE s == SubSeq(stack, 1, Base - 1)
    <2>1. s \in Seq(Value) /\ Len(s) = Base - 1 /\ \A q \in 1 .. Base - 1 : s[q] = stack[q]
      BY <1>1, PrefixFacts DEF IInv, TypeOK, Top
    <2>2. stack' = Append(s, v)
      BY DEF Return
    <2> HIDE DEF s
    <2> QED
      BY <1>1, <2>1, <2>2, AppendFacts
  <1>3. /\ names' \in Seq(Variable) /\ Len(names') = Base
        /\ \A q \in 1 .. Base - 1 : names'[q] = names[q]
        /\ names'[Base] = x
    <2> DEFINE s == SubSeq(names, 1, Base - 1)
    <2>1. s \in Seq(Variable) /\ Len(s) = Base - 1 /\ \A q \in 1 .. Base - 1 : s[q] = names[q]
      BY <1>1, PrefixFacts DEF IInv, TypeOK, Top
    <2>2. names' = Append(s, x)
      BY DEF Return
    <2> HIDE DEF s
    <2> QED
      BY <1>1, <2>1, <2>2, AppendFacts
  <1>4. /\ refs' = refs /\ CloseUpValues(Base, n) /\ val' = [val EXCEPT ![x] = v]
        /\ \A q \in 1 .. Top : names[q] # x
        /\ \A r \in refs : r.of # x /\ r.of \in Variable
    BY DEF Return, NewName, IInv, TypeOK, Top
  <1>5. Top' = Base
    BY <1>2 DEF Top
  <1>6. OpenListExact' /\ OneUpValueEach' /\ OpenUsed' /\ RefsPlaced'
    <2> DEFINE last == Base
    <2>1. /\ last \in 1 .. Top /\ CloseUpValues(last, n) /\ refs' = refs
          /\ Top' \in {last - 1, last}
          /\ \A q \in 1 .. last - 1 : names'[q] = names[q]
          /\ \A r \in refs : r.of # names'[last]
      BY <1>1, <1>3, <1>4, <1>5
    <2>2. \A r \in refs : val'[r.of] = val[r.of]
      BY <1>4 DEF IInv, TypeOK
    <2> QED
      BY <2>1, <2>2, CloseKeeps
  <1>7. open' \in Seq(Up) /\ location' \in [Up -> Int] /\ closed' \in [Up -> Value]
    BY <1>1, <1>4, CloseFacts
  <1>8. /\ frames' \in Seq(Nat \ {0}) /\ Len(frames') = Len(frames) - 1 /\ Len(frames) > 1
        /\ \A q \in 1 .. Len(frames) - 1 : frames'[q] = frames[q]
    <2>1. Len(frames) - 1 \in 0 .. Len(frames) /\ Len(frames) > 1
      BY DEF Return, IInv, TypeOK
    <2> QED
      BY Zenon, <2>1, PrefixFacts DEF Return, IInv, TypeOK
  <1>9. TypeOK'
    <2>1. val' \in [Variable -> Value] /\ refs' \subseteq [up : Up, of : Variable]
      BY <1>4 DEF IInv, TypeOK
    <2>2. Len(frames') > 0
      BY <1>8 DEF IInv, TypeOK
    <2> QED
      BY <1>2, <1>3, <1>7, <1>8, <2>1, <2>2 DEF TypeOK
  <1>10. StackNamed'
    <2>1. \A q \in 1 .. Base : stack'[q] = val'[names'[q]]
      <3> SUFFICES ASSUME NEW q \in 1 .. Base
                   PROVE  stack'[q] = val'[names'[q]]
        OBVIOUS
      <3>1. CASE q = Base
        BY <1>1, <1>2, <1>3, <1>4, <3>1 DEF IInv, TypeOK
      <3>2. CASE q # Base
        <4>1. q \in 1 .. Base - 1 /\ q \in 1 .. Top
          BY <1>1, <3>2
        <4>2. names[q] \in Variable /\ names[q] # x /\ stack[q] = val[names[q]]
          BY <1>4, <4>1 DEF IInv, TypeOK, StackNamed, Top
        <4>3. val'[names[q]] = val[names[q]]
          BY <1>4, <4>2 DEF IInv, TypeOK
        <4> QED
          BY <1>2, <1>3, <4>1, <4>2, <4>3
      <3> QED
        BY <3>1, <3>2
    <2>2. \A i, j \in 1 .. Base : names'[i] = names'[j] => i = j
      BY <1>1, <1>3, <1>4 DEF IInv, StackNamed
    <2> QED
      BY <1>5, <2>1, <2>2 DEF StackNamed
  <1>11. FramesNested'
    <2>1. Len(frames) \in Nat /\ \A j, k \in 1 .. Len(frames) : j <= k => frames[j] <= frames[k]
      BY DEF IInv, TypeOK, FramesNested
    <2>2. Base' = frames[Len(frames) - 1] /\ Base = frames[Len(frames)]
      BY <1>8, <2>1 DEF Base
    <2>3. Base' <= Base
      BY <1>8, <2>1, <2>2
    <2> QED
      BY <1>5, <1>8, <2>1, <2>3 DEF FramesNested
  <1> QED
    BY <1>6, <1>9, <1>10, <1>11 DEF IInv

\* A closed up value goes with all that refer to it.
LEMMA ForgetIInv ==
    ASSUME IInv, NEW u \in Up, Forget(u)
    PROVE  IInv'
  <1> USE DEF IInv
  <1>1. /\ location[u] = 0
        /\ location' = [location EXCEPT ![u] = Unused]
        /\ refs' = {r \in refs : r.up # u}
        /\ UNCHANGED <<stack, frames, open, closed, names, val>>
    BY DEF Forget, Closed
  <1>2. TypeOK'
    BY <1>1 DEF TypeOK, Unused
  <1>3. \A w \in Up : w # u => location'[w] = location[w]
    BY <1>1 DEF TypeOK
  <1>4. location'[u] = -1
    BY <1>1 DEF TypeOK, Unused
  <1>5. \A q \in 1 .. Len(open) : open[q] \in Up /\ open[q] # u
    BY <1>1, OpenMembers
  <1>6. OpenListExact'
    <2>1. \A j, k \in 1 .. Len(open) : j < k => location'[open[j]] > location'[open[k]]
      BY <1>3, <1>5 DEF OpenListExact
    <2>2. \A w \in Up : location'[w] > 0 <=> \E k \in 1 .. Len(open) : open[k] = w
      BY <1>1, <1>3, <1>4, <1>5 DEF OpenListExact
    <2>3. \A w \in Up : location'[w] \in Unused .. Top
      BY SMTT(30), SMTT(60), SMTT(90), <1>3, <1>4 DEF OpenListExact, TypeOK, Unused, Top
    <2> QED
      BY <1>1, <2>1, <2>2, <2>3 DEF OpenListExact, Top
  <1>7. OneUpValueEach'
    BY <1>1 DEF OneUpValueEach
  <1>8. OpenUsed'
    BY <1>1, <1>3, <1>4 DEF OpenUsed
  <1>9. RefsPlaced'
    BY <1>1, <1>3 DEF RefsPlaced, TypeOK, Top
  <1>10. StackNamed' /\ FramesNested'
    BY <1>1 DEF StackNamed, FramesNested, Top, Base
  <1> QED
    BY <1>2, <1>6, <1>7, <1>8, <1>9, <1>10

\* Every step of the machine preserves the inductive invariant.
LEMMA NextIInv ==
    ASSUME IInv, [Next]_vars
    PROVE  IInv'
  <1>1. CASE Next
    BY <1>1, DeclareIInv, SetLocalIInv, SetUpValueIInv, CaptureAgainIInv, CaptureNewIInv,
       PopLocalIInv, CloseScopeIInv, CallIInv, ReturnIInv, ForgetIInv
    DEF Next
  <1>2. CASE UNCHANGED vars
    BY SMTT(30), SMTT(60), SMTT(90), <1>2
    DEF vars, heap, history, IInv, TypeOK, OpenListExact, OneUpValueEach, RefsPlaced,
        OpenUsed, StackNamed, FramesNested, Top, Base
  <1> QED
    BY <1>1, <1>2

\* The inductive invariant holds in every reachable state.
THEOREM Invariance == Spec => []IInv
  <1> QED
    BY InitIInv, NextIInv, PTL DEF Spec

\* A variable has one value, whoever assigns and reads it, while its scope
\* lasts and after it has ended (OP_GET_UP_VALUE, OP_GET_LOCAL).
THEOREM OneValue == Spec => []SeesVariable
  <1>1. IInv => SeesVariable
    <2> SUFFICES ASSUME IInv PROVE SeesVariable
      OBVIOUS
    <2>1. ASSUME NEW r \in refs
          PROVE  location[r.up] # Unused /\ Read(r.up) = val[r.of]
      <3>1. r.up \in Up /\ location[r.up] \in 0 .. Top
        BY DEF IInv, TypeOK, OpenListExact, RefsPlaced, Unused, Top
      <3>2. CASE location[r.up] = Closed
        BY <3>2 DEF IInv, RefsPlaced, Read
      <3>3. CASE location[r.up] # Closed
        <4>1. location[r.up] \in 1 .. Top /\ names[location[r.up]] = r.of
          BY <3>1, <3>3 DEF IInv, RefsPlaced, Closed
        <4> QED
          BY <3>1, <3>3, <4>1 DEF IInv, StackNamed, Read, RefsPlaced
      <3> QED
        BY <3>2, <3>3
    <2>2. \A i \in 1 .. Top : stack[i] = val[names[i]]
      BY DEF IInv, StackNamed
    <2> QED
      BY <2>1, <2>2 DEF SeesVariable
  <1> QED
    BY <1>1, Invariance, PTL

\* Closures share a variable exactly if they share its up value
\* (capture_up_value).
THEOREM Sharing == Spec => []OneUpValueEach
  <1>1. IInv => OneUpValueEach
    BY DEF IInv
  <1> QED
    BY <1>1, Invariance, PTL

\* The list of open up values is sorted and holds exactly those that point
\* into the stack (capture_up_value, close_up_values).
THEOREM ListExact == Spec => []OpenListExact
  <1>1. IInv => OpenListExact
    BY DEF IInv
  <1> QED
    BY <1>1, Invariance, PTL
=============================================================================
