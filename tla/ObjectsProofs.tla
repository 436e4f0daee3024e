----------------------------- MODULE ObjectsProofs ----------------------------
(***************************************************************************)
(* Invariants of the built-in objects, for all arguments and bounds: of    *)
(* the dictionaries of src/src/dict.c and the byte arrays of               *)
(* src/src/bytes.c.                                                        *)
(***************************************************************************)
EXTENDS Dict, Bytes, FiniteSetTheorems, WellFoundedInduction, TLAPS

\* A leaf that names no backend is tried with each of these.
USE SMT, Zenon, SMTT(60), SMTT(90)
------------------------------------------------------------------------------
(* Byte arrays.  HoldsBytes is inductive: the proof takes one operation at  *)
(* a time, and under it the shape of the arrays, their agreement, and the   *)
(* account.                                                                 *)

\* An append of a list writes the elements before the first that is no byte,
\* behind the bytes there are, and leaves those alone.
LEMMA FilledArray ==
  ASSUME NEW l \in Seq(Byte \cup {Other}), HoldsBytes
  PROVE  /\ Filled(l) \in [0 .. count + Len(l) - 1 -> Byte \cup {Junk}]
         /\ \A i \in 0 .. count - 1 : Filled(l)[i] = array[i]
         /\ IsBytes(l) => \A k \in 1 .. Len(l) : Filled(l)[count + k - 1] = l[k]
  <1>0. /\ count \in Nat /\ size \in Nat /\ count <= size /\ Len(l) \in Nat
        /\ array \in [0 .. size - 1 -> Byte \cup {Junk}]
        /\ \A k \in 1 .. Len(l) : l[k] \in Byte \cup {Other}
    BY DEF HoldsBytes, BytesTypeOK
  <1>1. Copied(l) \subseteq 1 .. Len(l) /\ \A k \in Copied(l) : l[k] \in Byte
    BY <1>0 DEF Copied
  <1>2. \A i \in 0 .. count + Len(l) - 1 :
          GrowArray(count + Len(l))[i] = IF i < size THEN array[i] ELSE Junk
    BY <1>0 DEF GrowArray
  <1>3. \A i \in 0 .. count + Len(l) - 1 :
          Filled(l)[i] = IF i - count + 1 \in Copied(l) THEN l[i - count + 1]
                         ELSE IF i < size THEN array[i] ELSE Junk
    BY <1>0, <1>2 DEF Filled
  <1>4. ASSUME NEW i \in 0 .. count + Len(l) - 1 PROVE Filled(l)[i] \in Byte \cup {Junk}
    <2>1. CASE i - count + 1 \in Copied(l)
      BY <2>1, <1>1, <1>3
    <2>2. CASE i - count + 1 \notin Copied(l) /\ i < size
      <3>1. i \in 0 .. size - 1
        BY <1>0, <2>2
      <3> QED
        BY <2>2, <3>1, <1>0, <1>3
    <2>3. CASE i - count + 1 \notin Copied(l) /\ ~ (i < size)
      BY <2>3, <1>3
    <2> QED
      BY <2>1, <2>2, <2>3
  <1>5. Filled(l) \in [0 .. count + Len(l) - 1 -> Byte \cup {Junk}]
    BY <1>4 DEF Filled
  <1>6. \A i \in 0 .. count - 1 : Filled(l)[i] = array[i]
    <2> TAKE i \in 0 .. count - 1
    <2>1. i \in 0 .. count + Len(l) - 1 /\ i < size /\ i - count + 1 \notin 1 .. Len(l)
      BY <1>0
    <2> QED
      BY <2>1, <1>1, <1>3
  <1>7. ASSUME IsBytes(l), NEW k \in 1 .. Len(l) PROVE Filled(l)[count + k - 1] = l[k]
    <2>1. k \in Copied(l)
      BY <1>0, <1>7 DEF IsBytes, Copied
    <2>2. count + k - 1 \in 0 .. count + Len(l) - 1 /\ (count + k - 1) - count + 1 = k
      BY <1>0
    <2> QED
      BY <2>1, <2>2, <1>3
  <1> QED
    BY <1>5, <1>6, <1>7

\* The array a call of bytes makes holds what it was given.
LEMMA InitHolds == BytesInit => HoldsBytes
  <1> SUFFICES ASSUME BytesInit PROVE HoldsBytes
    OBVIOUS
  <1>1. PICK l \in Given :
          /\ size = Len(l) /\ count = Len(l) /\ counted = Len(l)
          /\ contents = [k \in 1 .. Len(l) |-> IF l[k] = Other THEN Zero ELSE l[k]]
          /\ array = [i \in 0 .. Len(l) - 1 |-> contents[i + 1]]
    BY DEF BytesInit
  <1>2. l \in Seq(Byte \cup {Other}) /\ Len(l) \in Nat
    BY BytesAssumption
  <1>3. contents \in [1 .. count -> Byte]
    BY <1>1, <1>2, BytesAssumption
  <1>4. array \in [0 .. size - 1 -> Byte \cup {Junk}]
    BY <1>1, <1>2, <1>3
  <1>5. \A k \in 1 .. count : contents[k] = array[k - 1]
    BY <1>1, <1>2
  <1> QED
    BY <1>1, <1>2, <1>3, <1>4, <1>5 DEF HoldsBytes, BytesTypeOK

\* No call, whether it returns or fails, takes the bytes from their account.
LEMMA StepHolds == HoldsBytes /\ [BytesNext]_bytesVars => HoldsBytes'
  <1> SUFFICES ASSUME HoldsBytes, [BytesNext]_bytesVars PROVE HoldsBytes'
    OBVIOUS
  <1>0. /\ count \in Nat /\ size \in Nat /\ count <= size
        /\ array \in [0 .. size - 1 -> Byte \cup {Junk}]
        /\ contents \in [1 .. count -> Byte]
        /\ \A k \in 1 .. count : contents[k] = array[k - 1]
        /\ counted \in Int /\ counted >= count
    BY DEF HoldsBytes, BytesTypeOK
  <1>1. ASSUME NEW b \in Byte, AppendByte(b) PROVE HoldsBytes'
    <2>1. /\ size' = count + 1 /\ count' = count + 1 /\ counted' = counted + 1
          /\ array' = [GrowArray(count + 1) EXCEPT ![count] = b]
          /\ contents' = [k \in 1 .. count + 1 |-> IF k <= count THEN contents[k] ELSE b]
      BY <1>0, <1>1 DEF AppendByte, Reallocates
    <2>2. \A i \in 0 .. count : array'[i] = IF i = count THEN b ELSE array[i]
      BY <1>0, <2>1 DEF GrowArray
    <2>3. array' \in [0 .. size' - 1 -> Byte \cup {Junk}]
      BY <1>0, <2>1 DEF GrowArray
    <2>4. contents' \in [1 .. count' -> Byte]
      BY <1>0, <2>1
    <2>5. \A k \in 1 .. count' : contents'[k] = array'[k - 1]
      BY <1>0, <2>1, <2>2
    <2> QED
      BY <1>0, <2>1, <2>3, <2>4, <2>5 DEF HoldsBytes, BytesTypeOK
  <1>2. ASSUME NEW l \in Given, AppendList(l) PROVE HoldsBytes'
    <2>0. l \in Seq(Byte \cup {Other}) /\ Len(l) \in Nat
      BY BytesAssumption
    <2>1. /\ size' = count + Len(l) /\ counted' = counted + Len(l) /\ array' = Filled(l)
          /\ count' = IF IsBytes(l) THEN count + Len(l) ELSE count
          /\ contents' = IF IsBytes(l)
                         THEN [k \in 1 .. count + Len(l) |->
                                 IF k <= count THEN contents[k] ELSE l[k - count]]
                         ELSE contents
      BY <1>0, <1>2, <2>0 DEF AppendList, Reallocates
    <2>2. /\ array' \in [0 .. count + Len(l) - 1 -> Byte \cup {Junk}]
          /\ \A i \in 0 .. count - 1 : array'[i] = array[i]
          /\ IsBytes(l) => \A k \in 1 .. Len(l) : array'[count + k - 1] = l[k]
      BY <2>0, <2>1, FilledArray
    <2>3. CASE IsBytes(l)
      <3>1. \A k \in 1 .. Len(l) : l[k] \in Byte
        BY <2>0, <2>3 DEF IsBytes
      <3>2. contents' \in [1 .. count' -> Byte]
        BY <1>0, <2>0, <2>1, <2>3, <3>1
      <3>3. ASSUME NEW k \in 1 .. count' PROVE contents'[k] = array'[k - 1]
        <4>1. CASE k <= count
          BY <1>0, <2>0, <2>1, <2>2, <2>3, <4>1
        <4>2. CASE k > count
          <5>1. k - count \in 1 .. Len(l) /\ count + (k - count) - 1 = k - 1
            BY <1>0, <2>0, <2>1, <2>3, <4>2
          <5>2. array'[count + (k - count) - 1] = l[k - count]
            BY <5>1, <2>2, <2>3
          <5> QED
            BY <1>0, <2>0, <2>1, <2>3, <4>2, <5>1, <5>2
        <4> QED
          BY <1>0, <2>0, <2>1, <2>3, <4>1, <4>2
      <3> QED
        BY <1>0, <2>0, <2>1, <2>2, <2>3, <3>2, <3>3 DEF HoldsBytes, BytesTypeOK
    <2>4. CASE ~ IsBytes(l)
      <3>1. \A k \in 1 .. count' : contents'[k] = array'[k - 1]
        BY <1>0, <2>1, <2>2, <2>4
      <3> QED
        BY <1>0, <2>0, <2>1, <2>2, <2>4, <3>1 DEF HoldsBytes, BytesTypeOK
    <2> QED
      BY <2>3, <2>4
  <1>3. ASSUME NEW n \in Nat, NEW b, \A k \in 1 .. n : b[k] \in Byte, ExtendBy(n, b)
        PROVE  HoldsBytes'
    <2>1. /\ size' = count + n /\ count' = count + n /\ counted' = counted + n
          /\ array' = [i \in 0 .. count + n - 1 |->
                         IF i < count THEN array[i] ELSE b[i - count + 1]]
          /\ contents' = [k \in 1 .. count + n |->
                            IF k <= count THEN contents[k] ELSE b[k - count]]
      BY <1>0, <1>3 DEF ExtendBy, Reallocates
    <2>2. contents' \in [1 .. count' -> Byte]
      BY <1>0, <1>3, <2>1
    <2>3. array' \in [0 .. size' - 1 -> Byte \cup {Junk}]
      BY <1>0, <1>3, <2>1
    <2>4. ASSUME NEW k \in 1 .. count' PROVE contents'[k] = array'[k - 1]
      <3>1. k - 1 \in 0 .. count + n - 1 /\ (k - 1) - count + 1 = k - count
        BY <1>0, <2>1
      <3> QED
        BY <1>0, <2>1, <3>1
    <2> QED
      BY <1>0, <2>1, <2>2, <2>3, <2>4 DEF HoldsBytes, BytesTypeOK
  <1>4. ASSUME NEW l \in Given, ExtendBytes(l) PROVE HoldsBytes'
    <2>1. Len(l) \in Nat /\ \A k \in 1 .. Len(l) : l[k] \in Byte
      BY <1>4, BytesAssumption DEF ExtendBytes, IsBytes
    <2> QED
      BY <2>1, <1>3, <1>4 DEF ExtendBytes
  <1>5. CASE ExtendItself
    <2> DEFINE own == [k \in 1 .. count |-> array[k - 1]]
    <2>1. \A k \in 1 .. count : own[k] \in Byte
      BY <1>0
    <2>2. ExtendBy(count, own)
      BY <1>5 DEF ExtendItself
    <2> HIDE DEF own
    <2> QED
      BY <1>0, <1>3, <2>1, <2>2
  <1>6. CASE PopByte
    <2>1. CASE count > 0
      <3>1. /\ count' = count - 1 /\ contents' = [k \in 1 .. count - 1 |-> contents[k]]
            /\ UNCHANGED <<array, size, counted>>
        BY <1>6, <2>1 DEF PopByte
      <3>2. contents' \in [1 .. count' -> Byte]
        BY <1>0, <3>1
      <3>3. \A k \in 1 .. count' : contents'[k] = array'[k - 1]
        BY <1>0, <3>1
      <3> QED
        BY <1>0, <2>1, <3>1, <3>2, <3>3 DEF HoldsBytes, BytesTypeOK
    <2>2. CASE ~ (count > 0)
      BY <1>0, <1>6, <2>2 DEF PopByte, HoldsBytes, BytesTypeOK
    <2> QED
      BY <2>1, <2>2
  <1>7. ASSUME NEW p \in Position, RemoveByte(p) PROVE HoldsBytes'
    <2>1. /\ p \in Nat /\ p < count /\ count' = count - 1 /\ UNCHANGED <<size, counted>>
          /\ array' = [i \in 0 .. size - 1 |->
                         IF i < p \/ i >= count THEN array[i]
                         ELSE IF i + 1 < size THEN array[i + 1] ELSE Junk]
          /\ contents' = [k \in 1 .. count - 1 |->
                            IF k <= p THEN contents[k] ELSE contents[k + 1]]
      BY <1>0, <1>7 DEF RemoveByte
    <2>2. array' \in [0 .. size' - 1 -> Byte \cup {Junk}]
      BY <1>0, <2>1
    <2>3. contents' \in [1 .. count' -> Byte]
      BY <1>0, <2>1
    <2>4. ASSUME NEW k \in 1 .. count' PROVE contents'[k] = array'[k - 1]
      <3>1. k - 1 \in 0 .. size - 1 /\ k - 1 < count /\ (k - 1) + 1 < size
        BY <1>0, <2>1
      <3> QED
        BY <1>0, <2>1, <3>1
    <2> QED
      BY <1>0, <2>1, <2>2, <2>3, <2>4 DEF HoldsBytes, BytesTypeOK
  <1>8. ASSUME NEW p \in Position, NEW b \in Byte, SetByte(p, b) PROVE HoldsBytes'
    <2> DEFINE position == IF p < 0 THEN count + p ELSE p
    <2>1. position \in Int /\ position < count /\ UNCHANGED <<size, count, counted>>
      BY <1>0, <1>8, BytesAssumption DEF SetByte
    <2>2. CASE position >= 0
      <3>1. /\ array' = [array EXCEPT ![position] = b]
            /\ contents' = [contents EXCEPT ![position + 1] = b]
        BY <1>8, <2>2 DEF SetByte
      <3> HIDE DEF position
      <3>2. contents' \in [1 .. count' -> Byte]
        BY Zenon, <1>0, <2>1, <3>1
      <3>3. array' \in [0 .. size' - 1 -> Byte \cup {Junk}]
        BY Zenon, <1>0, <2>1, <3>1
      <3>4. \A k \in 1 .. count' : contents'[k] = array'[k - 1]
        BY <1>0, <2>1, <2>2, <3>1
      <3> QED
        BY <1>0, <2>1, <3>2, <3>3, <3>4 DEF HoldsBytes, BytesTypeOK
    <2>3. CASE ~ (position >= 0)
      <3>1. UNCHANGED <<array, contents>>
        BY <1>8, <2>3 DEF SetByte
      <3> QED
        BY <1>0, <2>1, <3>1 DEF HoldsBytes, BytesTypeOK
    <2> QED
      BY <2>2, <2>3
  <1>9. CASE FreeByteArr
    BY <1>0, <1>9 DEF FreeByteArr, HoldsBytes, BytesTypeOK
  <1>10. CASE UNCHANGED bytesVars
    BY <1>10 DEF bytesVars, HoldsBytes, BytesTypeOK
  <1> QED
    BY <1>1, <1>2, <1>4, <1>5, <1>6, <1>7, <1>8, <1>9, <1>10 DEF BytesNext

\* Of an array of bytes, after any calls of bytes.c, failed ones included: the
\* bytes below the count are those the calls should have left, and freeing
\* them takes no more from bytes_allocated than they put there.
THEOREM BytesInvariance == BytesSpec => []HoldsBytes
  BY InitHolds, StepHolds, PTL DEF BytesSpec

------------------------------------------------------------------------------
(* Dictionaries.  What a careful program may rely on holds while no extend  *)
(* is under way; the inductive invariant says what is true of names and     *)
(* items in the loop of extend, whose names come before the items, and what *)
(* the for loop knows of the names it has been through.                     *)

\* names lists the keys of items, each once.
Lists(d) == IsInjective(names[d]) /\ Range(names[d]) = DOMAIN items[d]

DictTypes ==
  /\ names \in [Dicts -> Seq(Key)] /\ DOMAIN items = Dicts
  /\ \A d \in Dicts : Len(names[d]) <= MaxNames
  /\ extending = Idle \/ extending \in [into : Dicts, from : Dicts, left : Nat]
  /\ careless \in BOOLEAN

\* In the loop of d.extend(e) the names of e that are through are names of d;
\* if d and e had none in common, so far those that are still to come are not.
ExtendKnows ==
  LET d == extending.into
      e == extending.from
      n == Len(names[e]) - extending.left
  IN  extending # Idle =>
        /\ reply = NoReply /\ extending.left <= Len(names[e])
        /\ d # e => /\ Len(names[d]) + extending.left <= MaxNames
                    /\ \A j \in 1 .. n : names[e][j] \in Range(names[d])
        /\ ~ careless =>
             /\ \A c \in Dicts \ {d} : Lists(c)
             /\ d = e => extending.left = 0 /\ Lists(d)
             /\ d # e => /\ IsInjective(names[d])
                         /\ Range(names[d]) = DOMAIN items[d] \cup {names[e][j] : j \in 1 .. n}
                         /\ \A j \in n + 1 .. Len(names[e]) : names[e][j] \notin Range(names[d])

\* The for loop is at a name, and has visited those up to it.
LoopKnows ==
  LET ns == names[loop.on]
      visited == loop.visited
  IN  loop # NoLoop =>
        /\ loop = [on |-> loop.on, key |-> loop.key, visited |-> visited, shrunk |-> loop.shrunk]
        /\ loop.on \in Dicts /\ loop.shrunk \in BOOLEAN /\ visited \in Seq(Key)
        /\ ~ loop.shrunk /\ ~ careless =>
             /\ Len(visited) <= Len(ns) /\ \A i \in 1 .. Len(visited) : visited[i] = ns[i]
             /\ IF visited = <<>> THEN loop.key = Nil
                ELSE loop.key = ns[Len(visited)] /\ loop.key # Nil

\* The inductive invariant.
DictIInv ==
  DictTypes /\ ItemsNamed /\ NamesListKeys /\ ExtendKnows /\ LoopKnows /\ LoopVisitsAll

\* A set of numbers with a member has a least one.
LEMMA LeastMember ==
  ASSUME NEW S \in SUBSET Nat, S # {}
  PROVE  \E n \in S : \A m \in S : n <= m
<1>1. \E n \in S : \A m \in S : ~ (<<m, n>> \in OpToRel(<, Nat))
  BY Zenon, NatLessThanWellFounded, WFMin
<1>2. PICK n \in S : \A m \in S : ~ (<<m, n>> \in OpToRel(<, Nat))
  BY Zenon, <1>1
<1>3. \A m \in S : ~ (m < n)
  BY <1>2, Zenon DEF OpToRel
<1> QED
  BY <1>3

\* What append does to the names.
LEMMA AppendRange ==
  ASSUME NEW s \in Seq(Key), NEW k \in Key
  PROVE  /\ Append(s, k) \in Seq(Key) /\ Len(Append(s, k)) = Len(s) + 1
         /\ Range(Append(s, k)) = Range(s) \cup {k}
         /\ \A i \in 1 .. Len(s) : Append(s, k)[i] = s[i]
<1>1. /\ Append(s, k) \in Seq(Key) /\ Len(Append(s, k)) = Len(s) + 1 /\ Len(s) \in Nat
      /\ Append(s, k)[Len(s) + 1] = k
      /\ \A i \in 1 .. Len(s) : Append(s, k)[i] = s[i]
  OBVIOUS
<1>2. DOMAIN s = 1 .. Len(s) /\ DOMAIN Append(s, k) = 1 .. Len(s) + 1
  OBVIOUS
<1> DEFINE t == Append(s, k)
<1> HIDE DEF t
<1>3. Range(t) \subseteq Range(s) \cup {k}
  BY <1>1, <1>2 DEF Range, t
<1>4. Range(s) \cup {k} \subseteq Range(t)
  BY <1>1, <1>2 DEF Range, t
<1> QED
  BY <1>1, <1>3, <1>4 DEF t

\* A key that is not there yet, appended, leaves all keys different.
LEMMA AppendOther ==
  ASSUME NEW s \in Seq(Key), NEW k \in Key, IsInjective(s), k \notin Range(s)
  PROVE  IsInjective(Append(s, k))
<1> DEFINE t == Append(s, k)
<1>1. /\ Len(s) \in Nat /\ DOMAIN s = 1 .. Len(s) /\ DOMAIN t = 1 .. Len(s) + 1
      /\ t[Len(s) + 1] = k
      /\ \A i \in 1 .. Len(s) : t[i] = s[i]
  OBVIOUS
<1> HIDE DEF t
<1>2. \A i \in 1 .. Len(s) : s[i] # k
  BY <1>1, Zenon DEF Range
<1>3. \A i \in DOMAIN t : i \in 1 .. Len(s) \/ i = Len(s) + 1
  BY <1>1
<1>4. IsInjective(t)
  BY <1>1, <1>2, <1>3 DEF IsInjective
<1> QED
  BY <1>4 DEF t

\* What is left when the name at p is taken away.
LEMMA RemoveFacts ==
  ASSUME NEW s \in Seq(Key), NEW p \in 1 .. Len(s)
  PROVE  /\ RemoveName(s, p) \in Seq(Key) /\ Len(RemoveName(s, p)) = Len(s) - 1
         /\ \A i \in 1 .. Len(s) - 1 : RemoveName(s, p)[i] = IF i < p THEN s[i] ELSE s[i + 1]
<1>1. Len(s) \in Nat /\ p \in Nat /\ 1 <= p /\ p <= Len(s)
  OBVIOUS
<1>2. \A i \in 1 .. Len(s) - 1 : (IF i < p THEN s[i] ELSE s[i + 1]) \in Key
  BY <1>1
<1> QED
  BY <1>1, <1>2 DEF RemoveName

\* The names that are left when the first k is taken away.
LEMMA RemoveRange ==
  ASSUME NEW s \in Seq(Key), NEW p \in 1 .. Len(s)
  PROVE  /\ Range(s) \subseteq Range(RemoveName(s, p)) \cup {s[p]}
         /\ Range(RemoveName(s, p)) \subseteq Range(s)
         /\ IsInjective(s) => /\ IsInjective(RemoveName(s, p))
                              /\ Range(RemoveName(s, p)) = Range(s) \ {s[p]}
<1> DEFINE t == RemoveName(s, p)
           back(i) == IF i < p THEN i ELSE i + 1
<1>1. /\ t \in Seq(Key) /\ Len(t) = Len(s) - 1 /\ Len(s) \in Nat /\ p \in Nat
      /\ \A i \in 1 .. Len(s) - 1 : t[i] = IF i < p THEN s[i] ELSE s[i + 1]
  <2>1. Len(s) \in Nat /\ p \in Nat
    OBVIOUS
  <2> QED
    BY <2>1, RemoveFacts, Zenon
<1>2. DOMAIN s = 1 .. Len(s) /\ DOMAIN t = 1 .. Len(s) - 1
  BY <1>1
<1> HIDE DEF t
<1>3. \A i \in 1 .. Len(s) - 1 : back(i) \in 1 .. Len(s) /\ back(i) # p /\ t[i] = s[back(i)]
  BY <1>1
<1>4. \A j \in 1 .. Len(s) : j # p => \E i \in 1 .. Len(s) - 1 : j = back(i)
  <2> SUFFICES ASSUME NEW j \in 1 .. Len(s), j # p
               PROVE  \E i \in 1 .. Len(s) - 1 : j = back(i)
    OBVIOUS
  <2>1. CASE j < p
    BY <1>1, <2>1
  <2>2. CASE j > p
    <3>1. j - 1 \in 1 .. Len(s) - 1 /\ j = back(j - 1)
      BY <1>1, <2>2
    <3> QED
      BY <3>1
  <2>3. j < p \/ j > p
    BY <1>1
  <2> QED
    BY <2>1, <2>2, <2>3
<1>5. \A i, j \in 1 .. Len(s) - 1 : back(i) = back(j) => i = j
  BY <1>1
<1> HIDE DEF back
<1>6. Range(s) \subseteq Range(t) \cup {s[p]}
  <2> SUFFICES ASSUME NEW j \in 1 .. Len(s), j # p
               PROVE  s[j] \in Range(t)
    BY <1>2 DEF Range
  <2>1. PICK i \in 1 .. Len(s) - 1 : j = back(i)
    BY <1>4
  <2> QED
    BY <1>2, <1>3, <2>1, Zenon DEF Range
<1>7. Range(t) \subseteq Range(s)
  BY <1>2, <1>3 DEF Range
<1>8. ASSUME IsInjective(s)
      PROVE  IsInjective(t) /\ Range(t) = Range(s) \ {s[p]}
  <2>1. IsInjective(t)
    BY <1>2, <1>3, <1>5, <1>8 DEF IsInjective
  <2>2. s[p] \notin Range(t)
    BY <1>2, <1>3, <1>8 DEF IsInjective, Range
  <2> QED
    BY <1>6, <1>7, <2>1, <2>2
<1> QED
  BY <1>6, <1>7, <1>8 DEF t

\* Filtered has the elements that are kept, each as often as it was there.
LEMMA FilteredFacts ==
  ASSUME NEW ns \in Seq(Key), NEW kept \in SUBSET (1 .. Len(ns))
  PROVE  /\ Filtered(ns, kept) \in Seq(Key) /\ Len(Filtered(ns, kept)) <= Len(ns)
         /\ Range(Filtered(ns, kept)) = {ns[i] : i \in kept}
         /\ IsInjective(ns) => IsInjective(Filtered(ns, kept))
<1> DEFINE N == Cardinality(kept)
           upto(i) == {m \in kept : m <= i}
           rank == [i \in kept |-> Cardinality(upto(i))]
           at(j) == CHOOSE i \in kept : Cardinality(upto(i)) = j
           t == Filtered(ns, kept)
<1>1. Len(ns) \in Nat /\ kept \subseteq Nat
  OBVIOUS
<1>2. IsFiniteSet(kept) /\ N \in Nat /\ N <= Len(ns)
  <2>1. IsFiniteSet(1 .. Len(ns)) /\ Cardinality(1 .. Len(ns)) = Len(ns)
    <3> DEFINE n == Len(ns)
    <3>1. n \in Nat
      BY <1>1
    <3> HIDE DEF n
    <3>2. IsFiniteSet(1 .. n) /\ Cardinality(1 .. n) = n
      BY <3>1, FS_Interval
    <3> QED
      BY <3>2 DEF n
  <2>2. IsFiniteSet(kept) /\ Cardinality(kept) <= Cardinality(1 .. Len(ns))
    BY <2>1, FS_Subset, Zenon
  <2> QED
    BY <2>1, <2>2, FS_CardinalityType, Zenon
<1>3. \A i \in kept : upto(i) \subseteq kept /\ i \in upto(i)
  BY <1>1
<1>4. \A i, j \in kept : i < j => upto(i) \subseteq upto(j) /\ upto(i) # upto(j)
  <2> SUFFICES ASSUME NEW i \in kept, NEW j \in kept, i < j
               PROVE  upto(i) \subseteq upto(j) /\ upto(i) # upto(j)
    OBVIOUS
  <2>1. j \in upto(j) /\ j \notin upto(i)
    BY <1>1
  <2>2. \A m \in upto(i) : m \in upto(j)
    BY <1>1
  <2> QED
    BY <2>1, <2>2, Zenon
<1> HIDE DEF upto
<1>5. \A i \in kept : IsFiniteSet(upto(i)) /\ Cardinality(upto(i)) \in 1 .. N
  <2> SUFFICES ASSUME NEW i \in kept
               PROVE  IsFiniteSet(upto(i)) /\ Cardinality(upto(i)) \in 1 .. N
    OBVIOUS
  <2>1. IsFiniteSet(upto(i)) /\ Cardinality(upto(i)) <= N
    BY <1>2, <1>3, FS_Subset, Zenon
  <2>2. Cardinality(upto(i)) \in Nat
    BY <2>1, FS_CardinalityType, Zenon
  <2>3. Cardinality(upto(i)) # 0
    BY <1>3, <2>1, FS_EmptySet, Zenon
  <2> QED
    BY <1>2, <2>1, <2>2, <2>3
<1>6. \A i, j \in kept : i < j => Cardinality(upto(i)) # Cardinality(upto(j))
  BY <1>4, <1>5, FS_Subset, Zenon
<1>7. \A i, j \in kept : Cardinality(upto(i)) = Cardinality(upto(j)) => i = j
  <2>1. \A i, j \in kept : i < j \/ j < i \/ i = j
    BY <1>1
  <2> QED
    BY <1>6, <2>1, Zenon
<1>8. rank \in Injection(kept, 1 .. N)
  BY <1>5, <1>7 DEF Injection, IsInjective
<1>9. \A j \in 1 .. N : \E i \in kept : Cardinality(upto(i)) = j
  <2>1. IsFiniteSet(1 .. N) /\ Cardinality(1 .. N) = N
    BY <1>2, FS_Interval
  <2> HIDE DEF rank
  <2>2. rank \in Surjection(kept, 1 .. N)
    BY <1>8, <2>1, FS_Injection, Zenon
  <2>3. \A j \in 1 .. N : \E i \in kept : rank[i] = j
    BY <2>2, Zenon DEF Surjection
  <2> QED
    BY <2>3, Zenon DEF rank
<1>10. \A j \in 1 .. N : at(j) \in kept /\ Cardinality(upto(at(j))) = j
  BY <1>9, Zenon
<1>11. \A i \in kept : at(Cardinality(upto(i))) = i
  BY <1>5, <1>7, <1>10, Zenon
<1>12. t = [j \in 1 .. N |-> ns[at(j)]]
  BY Zenon DEF Filtered, upto
<1> HIDE DEF N, rank, at, t
<1>13. \A i \in kept : ns[i] \in Key
  OBVIOUS
<1>14. t \in Seq(Key) /\ Len(t) = N /\ DOMAIN t = 1 .. N
  <2>1. t \in [1 .. N -> Key]
    BY Zenon, <1>10, <1>12, <1>13
  <2> QED
    BY <1>2, <2>1
<1>15. Range(t) = {ns[i] : i \in kept}
  <2>1. ASSUME NEW j \in 1 .. N
        PROVE  t[j] \in {ns[i] : i \in kept}
    BY Zenon, <1>10, <1>12
  <2>2. ASSUME NEW i \in kept
        PROVE  ns[i] \in Range(t)
    <3>1. Cardinality(upto(i)) \in 1 .. N /\ t[Cardinality(upto(i))] = ns[i]
      BY <1>5, <1>11, <1>12
    <3> QED
      BY <1>14, <3>1, Zenon DEF Range
  <2> QED
    BY <1>14, <2>1, <2>2 DEF Range
<1>16. ASSUME IsInjective(ns)
       PROVE  IsInjective(t)
  <2> SUFFICES ASSUME NEW j \in 1 .. N, NEW k \in 1 .. N, t[j] = t[k]
               PROVE  j = k
    BY <1>14, Zenon DEF IsInjective
  <2>1. ns[at(j)] = ns[at(k)] /\ at(j) \in kept /\ at(k) \in kept
    BY <1>10, <1>12, Zenon
  <2>2. kept \subseteq DOMAIN ns
    OBVIOUS
  <2>3. at(j) = at(k)
    BY <1>16, <2>1, <2>2, Zenon DEF IsInjective
  <2> QED
    BY <1>10, <2>3, Zenon
<1> QED
  BY <1>2, <1>14, <1>15, <1>16 DEF t
------------------------------------------------------------------------------
(* A step that changes one dictionary *)

Changed(d, ns, it) ==
  names' = [names EXCEPT ![d] = ns] /\ items' = [items EXCEPT ![d] = it]

\* What the names ns and the table it of a dictionary have to be.
Fine(ns, it) ==
  /\ ns \in Seq(Key) /\ Len(ns) <= MaxNames /\ DOMAIN it \subseteq Range(ns)
  /\ ~ careless' => IsInjective(ns) /\ Range(ns) = DOMAIN it

\* t begins with s.
Longer(s, t) == Len(s) <= Len(t) /\ \A i \in 1 .. Len(s) : t[i] = s[i]

\* What the step does to the names a loop runs over.
LoopGoesOn(d, ns) ==
  Shrinks(d) \/ (loop' = loop /\ (loop.on # d \/ Longer(names[d], ns)))

\* The dictionaries are as they were but for d.
LEMMA ChangedFacts ==
  ASSUME DictIInv, NEW d \in Dicts, NEW ns, NEW it, Changed(d, ns, it)
  PROVE  /\ DOMAIN names' = Dicts /\ DOMAIN items' = Dicts
         /\ names'[d] = ns /\ items'[d] = it
         /\ \A c \in Dicts \ {d} : names'[c] = names[c] /\ items'[c] = items[c]
BY DEF Changed, DictIInv, DictTypes

\* A loop over the names of d goes on if they have become more, or knows that
\* they have become less.
LEMMA LoopKeeps ==
  ASSUME DictIInv, careless => careless', NEW d \in Dicts, NEW ns,
         names' = [names EXCEPT ![d] = ns], LoopGoesOn(d, ns)
  PROVE  LoopKnows'
<1>1. LoopKnows
  BY DEF DictIInv
<1>2. CASE loop = NoLoop
  <2>1. loop' = loop
    BY Zenon, <1>2 DEF LoopGoesOn, Shrinks, NoLoop
  <2> QED
    BY <1>2, <2>1 DEF LoopKnows, NoLoop
<1>3. CASE loop # NoLoop /\ loop.on = d /\ Shrinks(d)
  <2>1. loop' = [loop EXCEPT !.shrunk = TRUE, !.visited = <<>>]
    BY <1>3 DEF Shrinks
  <2>2. loop' = [on |-> loop.on, key |-> loop.key, visited |-> <<>>, shrunk |-> TRUE]
    BY Zenon, <1>1, <1>3, <2>1 DEF LoopKnows
  <2> QED
    BY <1>1, <1>3, <2>2 DEF LoopKnows
<1>4. CASE loop # NoLoop /\ loop' = loop /\ (loop.on # d \/ Longer(names[d], ns))
  <2>1. loop.on \in Dicts
    BY <1>1, <1>4 DEF LoopKnows
  <2>2. Longer(names[loop.on], names'[loop.on]) /\ Len(names[loop.on]) \in Nat
    BY <1>4, <2>1 DEF DictIInv, DictTypes, Longer
  <2> QED
    BY <1>1, <1>4, <2>1, <2>2 DEF LoopKnows, Longer
<1> QED
  BY <1>2, <1>3, <1>4 DEF LoopGoesOn, Shrinks

\* A step that ends with no extend under way keeps the invariant if the
\* dictionary it changes is fine, and the others are.
LEMMA ChangeKeeps ==
  ASSUME DictIInv, extending' = Idle, reply' = NoReply,
         careless' \in BOOLEAN, careless => careless',
         NEW d \in Dicts, NEW ns, NEW it, Changed(d, ns, it), Fine(ns, it), LoopGoesOn(d, ns),
         ~ careless' => \A c \in Dicts \ {d} : Lists(c)
  PROVE  DictIInv'
<1>1. /\ DOMAIN names' = Dicts /\ DOMAIN items' = Dicts
      /\ names'[d] = ns /\ items'[d] = it
      /\ \A c \in Dicts \ {d} : names'[c] = names[c] /\ items'[c] = items[c]
  BY ChangedFacts
<1>2. DictTypes'
  <2>1. names' = [names EXCEPT ![d] = ns]
    BY DEF Changed
  <2>2. names' \in [Dicts -> Seq(Key)]
    BY <2>1 DEF DictIInv, DictTypes, Fine
  <2>3. \A c \in Dicts : Len(names'[c]) <= MaxNames
    BY <1>1 DEF DictIInv, DictTypes, Fine
  <2> QED
    BY <1>1, <2>2, <2>3, Zenon DEF DictTypes
<1>3. ItemsNamed'
  BY <1>1, Zenon DEF ItemsNamed, DictIInv, Fine
<1>4. NamesListKeys'
  BY <1>1, Zenon DEF NamesListKeys, Lists, Fine
<1>5. ExtendKnows'
  BY Zenon DEF ExtendKnows
<1>6. LoopKnows'
  BY LoopKeeps, Zenon DEF Changed
<1>7. LoopVisitsAll'
  BY DEF LoopVisitsAll, NoReply
<1> QED
  BY <1>2, <1>3, <1>4, <1>5, <1>6, <1>7 DEF DictIInv

\* A call, which begins with no extend under way.
LEMMA CallKeeps ==
  ASSUME DictIInv, Callable, UNCHANGED extending, reply' = NoReply,
         careless' \in BOOLEAN, careless => careless',
         NEW d \in Dicts, NEW ns, NEW it, Changed(d, ns, it), Fine(ns, it), LoopGoesOn(d, ns)
  PROVE  DictIInv'
<1>1. extending = Idle /\ extending' = Idle
  BY DEF Callable
<1>2. ~ careless' => \A c \in Dicts \ {d} : Lists(c)
  BY <1>1, Zenon DEF DictIInv, NamesListKeys, Lists
<1> QED
  BY <1>1, <1>2, ChangeKeeps, Zenon

\* A call that changes no dictionary.
LEMMA ReplyKeeps ==
  ASSUME DictIInv, Callable, UNCHANGED <<names, items, extending>>, reply' = NoReply, LoopKnows',
         careless' \in BOOLEAN, careless => careless'
  PROVE  DictIInv'
<1>1. DictTypes' /\ ItemsNamed'
  BY Zenon DEF DictIInv, DictTypes, ItemsNamed
<1>2. NamesListKeys'
  BY Zenon DEF DictIInv, NamesListKeys, Callable
<1>3. ExtendKnows'
  BY Zenon DEF ExtendKnows, Callable
<1>4. LoopVisitsAll'
  BY DEF LoopVisitsAll, NoReply
<1> QED
  BY <1>1, <1>2, <1>3, <1>4 DEF DictIInv

\* dict_add_entry
LEMMA AddEntryFine ==
  ASSUME DictIInv, extending = Idle, careless => careless', NEW d \in Dicts, NEW k \in Key, NEW v,
         AddEntry(d, k, v), ~ careless' => ~ Has(items[d], k) /\ k # Nil
  PROVE  \E ns, it : /\ Changed(d, ns, it) /\ Fine(ns, it) /\ Longer(names[d], ns)
<1> DEFINE ns == Append(names[d], k)
           it == Put(items[d], k, v)
<1>1. Changed(d, ns, it) /\ Len(names[d]) + 1 <= MaxNames
  BY DEF AddEntry, Changed, Fits
<1>2. names[d] \in Seq(Key) /\ DOMAIN items[d] \subseteq Range(names[d])
  BY DEF DictIInv, DictTypes, ItemsNamed
<1>3. /\ ns \in Seq(Key) /\ Len(ns) = Len(names[d]) + 1
      /\ Range(ns) = Range(names[d]) \cup {k}
      /\ \A i \in 1 .. Len(names[d]) : ns[i] = names[d][i]
  BY <1>2, AppendRange, Zenon
<1>4. DOMAIN it = DOMAIN items[d] \cup {k}
  BY DEF Put
<1>5. ~ careless' => IsInjective(ns) /\ Range(ns) = DOMAIN it
  <2> SUFFICES ASSUME ~ careless'
               PROVE  IsInjective(ns) /\ Range(ns) = DOMAIN it
    OBVIOUS
  <2>1. IsInjective(names[d]) /\ Range(names[d]) = DOMAIN items[d]
    BY DEF DictIInv, NamesListKeys
  <2>2. k \notin Range(names[d])
    BY <2>1 DEF Has
  <2>3. IsInjective(ns)
    BY <1>2, <2>1, <2>2, AppendOther, Zenon
  <2> QED
    BY <1>3, <1>4, <2>1, <2>3
<1> HIDE DEF ns, it
<1>6. Fine(ns, it) /\ Longer(names[d], ns)
  <2>1. Len(names[d]) \in Nat
    BY <1>2
  <2> QED
    BY <1>1, <1>2, <1>3, <1>4, <1>5, <2>1 DEF Fine, Longer
<1> QED
  BY <1>1, <1>6, Zenon

\* dict_set_entry; a key that is not nil and not in names is not in items.
LEMMA SetEntryFine ==
  ASSUME DictIInv, extending = Idle, careless => careless', NEW d \in Dicts, NEW k \in Key, NEW v,
         SetEntry(d, k, v), ~ careless' => k # Nil
  PROVE  \E ns, it : /\ Changed(d, ns, it) /\ Fine(ns, it) /\ Longer(names[d], ns)
<1>1. names[d] \in Seq(Key) /\ DOMAIN items[d] \subseteq Range(names[d])
  BY DEF DictIInv, DictTypes, ItemsNamed
<1>2. CASE k \notin Range(names[d])
  <2>1. AddEntry(d, k, v)
    BY <1>2 DEF SetEntry, AddEntry
  <2>2. ~ Has(items[d], k)
    BY <1>1, <1>2 DEF Has
  <2> QED
    BY <2>1, <2>2, AddEntryFine
<1>3. CASE k \in Range(names[d])
  <2> DEFINE it == Put(items[d], k, v)
  <2>1. names' = [names EXCEPT ![d] = names[d]] /\ items' = [items EXCEPT ![d] = it]
    BY <1>3 DEF SetEntry, DictIInv, DictTypes
  <2>2. DOMAIN it = DOMAIN items[d] \cup {k}
    BY DEF Put
  <2> HIDE DEF it
  <2>3. Longer(names[d], names[d])
    BY <1>1 DEF Longer
  <2>4. Len(names[d]) <= MaxNames
    BY DEF DictIInv, DictTypes
  <2>5. ~ careless' => IsInjective(names[d]) /\ Range(names[d]) = DOMAIN items[d]
    BY Zenon DEF DictIInv, NamesListKeys
  <2>6. Fine(names[d], it)
    BY <1>1, <1>3, <2>2, <2>4, <2>5 DEF Fine
  <2> QED
    BY <2>1, <2>3, <2>6, Zenon DEF Changed
<1> QED
  BY <1>2, <1>3

\* A call that leaves the for loop alone, and only adds names.
LEMMA LongerGoesOn ==
  ASSUME UNCHANGED loop, NEW d \in Dicts, NEW ns, Longer(names[d], ns)
  PROVE  LoopGoesOn(d, ns)
BY Zenon DEF LoopGoesOn

\* What the history variable keeps.
LEMMA CarelessFacts ==
  ASSUME careless \in BOOLEAN, NEW it \in BOOLEAN, Careless(it)
  PROVE  careless' \in BOOLEAN /\ (careless => careless') /\ (~ careless' => ~ it)
BY Zenon DEF Careless

\* add
LEMMA AddKeeps ==
  ASSUME DictIInv, NEW d \in Dicts, NEW k \in Key, NEW v, Add(d, k, v), Careless(k = Nil)
  PROVE  DictIInv'
<1>1. careless' \in BOOLEAN /\ (careless => careless') /\ (~ careless' => k # Nil)
  BY Zenon, CarelessFacts DEF DictIInv, DictTypes
<1>2. /\ Callable /\ extending = Idle /\ UNCHANGED extending /\ reply' = NoReply /\ UNCHANGED loop
  BY DEF Add, Callable
<1>3. CASE Has(items[d], k)
  <2>1. UNCHANGED <<names, items>>
    BY <1>3 DEF Add
  <2>2. LoopKnows'
    BY <1>1, <1>2, <2>1, Zenon DEF DictIInv, LoopKnows
  <2> QED
    BY <1>1, <1>2, <2>1, <2>2, ReplyKeeps, Zenon
<1>4. CASE ~ Has(items[d], k)
  <2>1. PICK ns, it : Changed(d, ns, it) /\ Fine(ns, it) /\ Longer(names[d], ns)
    <3>1. AddEntry(d, k, v)
      BY <1>4 DEF Add
    <3> QED
      BY <1>1, <1>2, <1>4, <3>1, AddEntryFine, Zenon
  <2>2. LoopGoesOn(d, ns)
    BY <1>2, <2>1, LongerGoesOn, Zenon
  <2> QED
    BY <1>1, <1>2, <2>1, <2>2, CallKeeps, Zenon
<1> QED
  BY <1>3, <1>4

\* set
LEMMA SetKeeps ==
  ASSUME DictIInv, NEW d \in Dicts, NEW k \in Key, NEW v, Set(d, k, v), Careless(k = Nil)
  PROVE  DictIInv'
<1>1. careless' \in BOOLEAN /\ (careless => careless') /\ (~ careless' => k # Nil)
  BY Zenon, CarelessFacts DEF DictIInv, DictTypes
<1>2. /\ Callable /\ extending = Idle /\ UNCHANGED extending /\ reply' = NoReply /\ UNCHANGED loop
  BY DEF Set, Callable
<1>3. PICK ns, it : Changed(d, ns, it) /\ Fine(ns, it) /\ Longer(names[d], ns)
  <2>1. CASE Has(items[d], k)
    <3>1. SetEntry(d, k, v)
      BY <2>1 DEF Set
    <3> QED
      BY <1>1, <1>2, <3>1, SetEntryFine, Zenon
  <2>2. CASE ~ Has(items[d], k)
    <3>1. AddEntry(d, k, v)
      BY <2>2 DEF Set
    <3> QED
      BY <1>1, <1>2, <2>2, <3>1, AddEntryFine, Zenon
  <2> QED
    BY <2>1, <2>2
<1>4. LoopGoesOn(d, ns)
  BY <1>2, <1>3, LongerGoesOn, Zenon
<1> QED
  BY <1>1, <1>2, <1>3, <1>4, CallKeeps, Zenon

\* d[k] = v
LEMMA SetIndexKeeps ==
  ASSUME DictIInv, NEW d \in Dicts, NEW k \in Key, NEW v, SetIndex(d, k, v), Careless(k = Nil)
  PROVE  DictIInv'
<1>1. careless' \in BOOLEAN /\ (careless => careless') /\ (~ careless' => k # Nil)
  BY Zenon, CarelessFacts DEF DictIInv, DictTypes
<1>2. /\ Callable /\ extending = Idle /\ UNCHANGED extending /\ reply' = NoReply /\ UNCHANGED loop
      /\ SetEntry(d, k, v)
  BY DEF SetIndex, Callable
<1>3. PICK ns, it : Changed(d, ns, it) /\ Fine(ns, it) /\ Longer(names[d], ns)
  BY <1>1, <1>2, SetEntryFine, Zenon
<1>4. LoopGoesOn(d, ns)
  BY <1>2, <1>3, LongerGoesOn, Zenon
<1> QED
  BY <1>1, <1>2, <1>3, <1>4, CallKeeps, Zenon

\* {k1: v1, k2: v2}
LEMMA LiteralKeeps ==
  ASSUME DictIInv, NEW d \in Dicts, NEW k1 \in Key, NEW k2 \in Key, NEW v1, NEW v2,
         Literal(d, k1, v1, k2, v2), Careless(k1 = k2)
  PROVE  DictIInv'
<1> DEFINE ns == <<k1, k2>>
           it == Put(Put(<<>>, k1, v1), k2, v2)
<1>1. careless' \in BOOLEAN /\ (careless => careless') /\ (~ careless' => k1 # k2)
  BY Zenon, CarelessFacts DEF DictIInv, DictTypes
<1>2. /\ Callable /\ UNCHANGED extending /\ reply' = NoReply /\ UNCHANGED loop /\ loop.on # d
      /\ MaxNames >= 2 /\ Changed(d, ns, it)
  BY DEF Literal, Changed
<1>3. DOMAIN it = {k1, k2}
  <2>1. DOMAIN Put(<<>>, k1, v1) = {k1}
    BY DEF Put
  <2> QED
    BY <2>1 DEF Put
<1>4. Range(ns) = {k1, k2}
  BY DEF Range
<1>5. k1 # k2 => IsInjective(ns)
  BY DEF IsInjective
<1>6. ns \in Seq(Key) /\ Len(ns) = 2
  OBVIOUS
<1> HIDE DEF ns, it
<1>7. Fine(ns, it)
  BY <1>1, <1>2, <1>3, <1>4, <1>5, <1>6, DictAssumption DEF Fine
<1>8. LoopGoesOn(d, ns)
  BY <1>2, Zenon DEF LoopGoesOn
<1> QED
  BY <1>1, <1>2, <1>7, <1>8, CallKeeps, Zenon

\* clear
LEMMA ClearKeeps ==
  ASSUME DictIInv, NEW d \in Dicts, Clear(d), UNCHANGED careless
  PROVE  DictIInv'
<1> DEFINE ns == <<>>
<1>1. /\ Callable /\ UNCHANGED extending /\ reply' = NoReply /\ Shrinks(d) /\ Changed(d, ns, ns)
  BY DEF Clear, Changed
<1>2. Range(ns) = {} /\ DOMAIN ns = {} /\ IsInjective(ns) /\ ns \in Seq(Key) /\ Len(ns) = 0
  BY DEF Range, IsInjective
<1> HIDE DEF ns
<1>3. Fine(ns, ns)
  BY <1>2, DictAssumption DEF Fine
<1>4. LoopGoesOn(d, ns)
  BY <1>1, Zenon DEF LoopGoesOn
<1>5. careless' \in BOOLEAN /\ (careless => careless')
  BY Zenon DEF DictIInv, DictTypes
<1> QED
  BY <1>1, <1>3, <1>4, <1>5, CallKeeps, Zenon

\* e = d.clone()
LEMMA CloneKeeps ==
  ASSUME DictIInv, NEW d \in Dicts, NEW e \in Dicts, Clone(d, e), UNCHANGED careless
  PROVE  DictIInv'
<1>1. /\ Callable /\ UNCHANGED extending /\ reply' = NoReply /\ UNCHANGED loop /\ loop.on # e
      /\ Changed(e, names[d], items[d])
  BY DEF Clone, Changed
<1>2. Fine(names[d], items[d])
  <2>1. ~ careless' => IsInjective(names[d]) /\ Range(names[d]) = DOMAIN items[d]
    BY <1>1, Zenon DEF DictIInv, NamesListKeys, Callable
  <2> QED
    BY <2>1, Zenon DEF Fine, DictIInv, DictTypes, ItemsNamed
<1>3. LoopGoesOn(e, names[d])
  BY <1>1, Zenon DEF LoopGoesOn
<1>4. careless' \in BOOLEAN /\ (careless => careless')
  BY Zenon DEF DictIInv, DictTypes
<1> QED
  BY <1>1, <1>2, <1>3, <1>4, CallKeeps, Zenon

\* e = d.compact(): the names that are kept are the keys.
LEMMA CompactKeeps ==
  ASSUME DictIInv, NEW d \in Dicts, NEW e \in Dicts, Compact(d, e), UNCHANGED careless
  PROVE  DictIInv'
<1> DEFINE ns == names[d]
<1>1. PICK kept, it :
        /\ kept \subseteq DOMAIN ns /\ DOMAIN it = {ns[i] : i \in kept}
        /\ Changed(e, Filtered(ns, kept), it)
  <2>1. PICK tmp \in [1 .. Len(names[d]) -> Value] :
          LET kept == {i \in DOMAIN ns : tmp[i] # Nil}
              last(k) == Max({i \in kept : ns[i] = k})
          IN  /\ names' = [names EXCEPT ![e] = Filtered(ns, kept)]
              /\ items' = [items EXCEPT ![e] =
                             [k \in {ns[i] : i \in kept} |-> tmp[last(k)]]]
    BY Zenon DEF Compact
  <2> DEFINE kept == {i \in DOMAIN ns : tmp[i] # Nil}
             last(k) == Max({i \in kept : ns[i] = k})
             it == [k \in {ns[i] : i \in kept} |-> tmp[last(k)]]
  <2>2. Changed(e, Filtered(ns, kept), it)
    BY <2>1, Zenon DEF Changed
  <2>3. kept \subseteq DOMAIN ns
    OBVIOUS
  <2>4. DOMAIN it = {ns[i] : i \in kept}
    BY Zenon
  <2> QED
    BY <2>2, <2>3, <2>4, Zenon
<1>2. /\ Callable /\ UNCHANGED extending /\ reply' = NoReply /\ UNCHANGED loop /\ loop.on # e
  BY DEF Compact
<1>3. ns \in Seq(Key) /\ Len(ns) <= MaxNames /\ Len(ns) \in Nat
  BY DEF DictIInv, DictTypes
<1>4. ~ careless' => IsInjective(ns)
  BY <1>2, Zenon DEF DictIInv, NamesListKeys, Callable
<1> DEFINE f == Filtered(ns, kept)
<1> HIDE DEF ns
<1>0. kept \in SUBSET (1 .. Len(ns))
  BY <1>1, <1>3
<1>5. /\ f \in Seq(Key) /\ Len(f) <= Len(ns) /\ Range(f) = {ns[i] : i \in kept}
      /\ IsInjective(ns) => IsInjective(f)
  BY <1>0, <1>3, FilteredFacts, Zenon
<1> HIDE DEF f
<1>6. Len(f) <= MaxNames
  BY <1>3, <1>5, DictAssumption
<1>7. Fine(f, it)
  BY <1>1, <1>4, <1>5, <1>6 DEF Fine
<1>8. LoopGoesOn(e, f)
  BY <1>2, Zenon DEF LoopGoesOn
<1>9. Changed(e, f, it)
  BY <1>1 DEF f
<1>10. careless' \in BOOLEAN /\ (careless => careless')
  BY Zenon DEF DictIInv, DictTypes
<1> QED
  BY <1>2, <1>7, <1>8, <1>9, <1>10, CallKeeps, Zenon

\* remove: the key is in names, so that the index is found.
LEMMA RemoveKeyKeeps ==
  ASSUME DictIInv, NEW d \in Dicts, NEW k \in Key, RemoveKey(d, k), UNCHANGED careless
  PROVE  DictIInv'
<1>1. /\ Callable /\ UNCHANGED extending /\ reply' = NoReply
  BY DEF RemoveKey
<1>2. careless' \in BOOLEAN /\ (careless => careless')
  BY Zenon DEF DictIInv, DictTypes
<1>3. CASE ~ Has(items[d], k)
  <2>1. UNCHANGED <<names, items, loop>>
    BY <1>3 DEF RemoveKey
  <2>2. LoopKnows'
    BY <1>2, <2>1, Zenon DEF DictIInv, LoopKnows
  <2> QED
    BY <1>1, <1>2, <2>1, <2>2, ReplyKeeps, Zenon
<1>4. CASE Has(items[d], k)
  <2> DEFINE ns == names[d]
             index == CHOOSE i \in DOMAIN ns : ns[i] = k /\ \A j \in 1 .. i - 1 : ns[j] # k
             it == [j \in DOMAIN items[d] \ {k} |-> items[d][j]]
             rest == RemoveName(ns, index)
  <2>1. Changed(d, rest, it) /\ Shrinks(d)
    BY <1>4, Zenon DEF RemoveKey, Changed
  <2>2. /\ ns \in Seq(Key) /\ Len(ns) <= MaxNames /\ DOMAIN items[d] \subseteq Range(ns)
        /\ Len(ns) \in Nat
    BY DEF DictIInv, DictTypes, ItemsNamed
  <2>3. ~ careless' => IsInjective(ns) /\ Range(ns) = DOMAIN items[d]
    BY <1>1, Zenon DEF DictIInv, NamesListKeys, Callable
  <2> HIDE DEF ns
  <2>4. \E i \in DOMAIN ns : ns[i] = k /\ \A j \in 1 .. i - 1 : ns[j] # k
    <3> DEFINE S == {i \in DOMAIN ns : ns[i] = k}
    <3>1. k \in Range(ns)
      BY <1>4, <2>2 DEF Has
    <3>2. S \subseteq Nat /\ S # {}
      BY <2>2, <3>1 DEF Range
    <3>3. PICK i \in S : \A j \in S : i <= j
      <4> HIDE DEF S
      <4> QED
        BY <3>2, LeastMember, Zenon
    <3>4. i \in DOMAIN ns /\ ns[i] = k /\ DOMAIN ns = 1 .. Len(ns)
      BY <2>2, <3>3
    <3>5. \A j \in 1 .. i - 1 : ns[j] # k
      BY <2>2, <3>3, <3>4
    <3> QED
      BY <3>4, <3>5, Zenon
  <2>5. index \in DOMAIN ns /\ ns[index] = k
    BY <2>4, Zenon
  <2> HIDE DEF index
  <2>6. DOMAIN it = DOMAIN items[d] \ {k}
    BY Zenon
  <2>7. /\ rest \in Seq(Key) /\ Len(rest) = Len(ns) - 1
        /\ Range(ns) \subseteq Range(rest) \cup {k}
        /\ IsInjective(ns) => IsInjective(rest) /\ Range(rest) = Range(ns) \ {k}
    <3>1. index \in 1 .. Len(ns)
      BY <2>2, <2>5
    <3> QED
      BY <2>2, <2>5, <3>1, RemoveFacts, RemoveRange, Zenon
  <2> HIDE DEF rest, it
  <2>8. Fine(rest, it)
    BY <2>2, <2>3, <2>6, <2>7, DictAssumption DEF Fine
  <2>9. LoopGoesOn(d, rest)
    BY <2>1, Zenon DEF LoopGoesOn
  <2> QED
    BY <1>1, <1>2, <2>1, <2>8, <2>9, CallKeeps, Zenon
<1> QED
  BY <1>3, <1>4

\* extend enters its loop: the extend of a careful program is by other keys,
\* and of d by d itself only while d is empty.
LEMMA ExtendKeeps ==
  ASSUME DictIInv, NEW d \in Dicts, NEW e \in Dicts, Extend(d, e),
         Careless(Range(names[d]) \cap Range(names[e]) # {})
  PROVE  DictIInv'
<1>1. /\ careless' \in BOOLEAN /\ (careless => careless')
      /\ ~ careless' => Range(names[d]) \cap Range(names[e]) = {}
  BY Zenon, CarelessFacts DEF DictIInv, DictTypes
<1>2. /\ extending = Idle /\ UNCHANGED <<names, items, loop>> /\ reply' = NoReply
      /\ d # e => Len(names[d]) + Len(names[e]) <= MaxNames
      /\ extending' = [into |-> d, from |-> e, left |-> Len(names[e])]
  BY Zenon DEF Extend, Callable, Fits
<1>3. names[d] \in Seq(Key) /\ names[e] \in Seq(Key) /\ Len(names[e]) \in Nat
  BY DEF DictIInv, DictTypes
<1>4. extending' # Idle
  BY Zenon, <1>2 DEF Idle
<1>5. DictTypes'
  <2>1. extending' \in [into : Dicts, from : Dicts, left : Nat]
    BY <1>2, <1>3
  <2> QED
    BY <1>1, <1>2, <2>1, Zenon DEF DictIInv, DictTypes
<1>6. ExtendKnows'
  <2>1. extending'.into = d /\ extending'.from = e /\ extending'.left = Len(names[e])
    BY <1>2
  <2>2. Len(names[e]) - Len(names[e]) = 0 /\ \A j \in 1 .. 0 : FALSE
    BY <1>3
  <2>3. ~ careless' => \A c \in Dicts : Lists(c)
    BY <1>1, <1>2, Zenon DEF DictIInv, NamesListKeys, Lists
  <2>5. \A c \in Dicts : Lists(c)' <=> Lists(c)
    BY <1>2, Zenon DEF Lists
  <2>6. \A j \in 1 .. Len(names[e]) : names[e][j] \in Range(names[e])
    <3>1. DOMAIN names[e] = 1 .. Len(names[e])
      BY <1>3
    <3> QED
      BY <3>1, Zenon DEF Range
  <2>7. ~ careless' => \A j \in 1 .. Len(names[e]) : names[e][j] \notin Range(names[d])
    BY <1>1, <2>6, Zenon
  <2>9. ~ careless' /\ d = e => Len(names[e]) = 0
    BY <1>3, <2>6, <2>7
  <2>8. ~ careless' => IsInjective(names[d]) /\ Range(names[d]) = DOMAIN items[d]
    BY <2>3 DEF Lists
  <2> QED
    <3>1. /\ names'[e] = names[e] /\ names'[d] = names[d] /\ items'[d] = items[d]
          /\ Len(names[e]) <= Len(names[e]) /\ 0 + 1 = 1
      BY <1>2, <1>3
    <3>2. ~ careless' => /\ \A c \in Dicts \ {d} : Lists(c)'
                         /\ d = e => Len(names[e]) = 0 /\ Lists(d)'
                         /\ d # e => /\ IsInjective(names[d])
                                     /\ Range(names[d]) = DOMAIN items[d] \cup {names[e][j] : j \in 1 .. 0}
      <4>1. {names[e][j] : j \in 1 .. 0} = {}
        BY <2>2
      <4> QED
        BY <2>3, <2>5, <2>8, <2>9, <4>1
    <3> QED
      BY <1>2, <2>1, <2>2, <2>7, <3>1, <3>2, Zenon DEF ExtendKnows
<1>7. ItemsNamed' /\ LoopKnows'
  BY <1>1, <1>2, Zenon DEF DictIInv, ItemsNamed, LoopKnows
<1>8. NamesListKeys'
  BY <1>4, Zenon DEF NamesListKeys
<1>9. LoopVisitsAll'
  BY <1>2 DEF LoopVisitsAll, NoReply
<1> QED
  BY <1>5, <1>6, <1>7, <1>8, <1>9 DEF DictIInv

\* One turn of the loop of extend.
LEMMA ExtendNameKeeps ==
  ASSUME DictIInv, ExtendName, UNCHANGED careless
  PROVE  DictIInv'
<1> DEFINE d == extending.into
           e == extending.from
           left == extending.left
           n == Len(names[e]) - left
           x == names[e][n + 1]
           ns == IF Fits(d, 1) THEN Append(names[d], x) ELSE names[d]
<1>1. /\ extending # Idle /\ left > 0 /\ UNCHANGED <<items, loop, reply>>
      /\ names' = [names EXCEPT ![d] = ns]
      /\ extending' = [extending EXCEPT !.left = IF d = e THEN @ ELSE @ - 1]
  BY DEF ExtendName
<1>2. /\ extending \in [into : Dicts, from : Dicts, left : Nat]
      /\ names \in [Dicts -> Seq(Key)] /\ careless \in BOOLEAN
      /\ DOMAIN items = Dicts /\ \A c \in Dicts : Len(names[c]) <= MaxNames
  BY <1>1, Zenon DEF DictIInv, DictTypes
<1>3. /\ d \in Dicts /\ e \in Dicts /\ left \in Nat
      /\ names[d] \in Seq(Key) /\ names[e] \in Seq(Key)
      /\ Len(names[d]) \in Nat /\ Len(names[e]) \in Nat
  BY <1>2
<1>4. reply = NoReply /\ left <= Len(names[e])
  BY <1>1, Zenon DEF DictIInv, ExtendKnows
<1>5. x \in Key
  BY <1>1, <1>3, <1>4
<1>6. /\ ns \in Seq(Key) /\ Len(ns) <= MaxNames /\ Longer(names[d], ns)
      /\ Range(names[d]) \subseteq Range(ns)
  <2> HIDE DEF x, d
  <2>1. CASE Fits(d, 1)
    <3>1. /\ Append(names[d], x) \in Seq(Key) /\ Len(Append(names[d], x)) = Len(names[d]) + 1
          /\ Range(Append(names[d], x)) = Range(names[d]) \cup {x}
          /\ \A i \in 1 .. Len(names[d]) : Append(names[d], x)[i] = names[d][i]
      BY <1>3, <1>5, AppendRange, Zenon
    <3>2. ns = Append(names[d], x) /\ Len(names[d]) + 1 <= MaxNames
      BY <2>1 DEF Fits
    <3> QED
      BY <1>3, <3>1, <3>2, DictAssumption DEF Longer
  <2>2. CASE ~ Fits(d, 1)
    BY <1>2, <1>3, <2>2 DEF Longer
  <2> QED
    BY <2>1, <2>2
<1> HIDE DEF d, e, left, n, x, ns
<1>8. /\ DOMAIN names' = Dicts /\ names'[d] = ns
      /\ \A c \in Dicts \ {d} : names'[c] = names[c]
  BY <1>1, <1>2, <1>3
<1>9. /\ extending' \in [into : Dicts, from : Dicts, left : Nat] /\ extending' # Idle
      /\ extending'.into = d /\ extending'.from = e
      /\ extending'.left = IF d = e THEN left ELSE left - 1
  <2>1. (IF d = e THEN left ELSE left - 1) \in Nat
    BY <1>1, <1>3
  <2>2. extending = [into |-> d, from |-> e, left |-> left]
    BY <1>2 DEF d, e, left
  <2>3. extending' = [into |-> d, from |-> e, left |-> IF d = e THEN left ELSE left - 1]
    BY <1>1, <2>2
  <2> QED
    BY Zenon, <1>3, <2>1, <2>3 DEF Idle
<1>10. DictTypes'
  <2>1. names' \in [Dicts -> Seq(Key)]
    BY <1>1, <1>2, <1>3, <1>6
  <2>2. \A c \in Dicts : Len(names'[c]) <= MaxNames
    BY Zenon, <1>2, <1>6, <1>8
  <2> QED
    BY <1>1, <1>2, <1>9, <2>1, <2>2, Zenon DEF DictTypes
<1>11. ItemsNamed'
  <2>1. \A c \in Dicts : DOMAIN items[c] \subseteq Range(names[c])
    BY DEF DictIInv, ItemsNamed
  <2> QED
    BY <1>1, <1>3, <1>6, <1>8, <2>1 DEF ItemsNamed
<1>12. NamesListKeys'
  BY <1>9, Zenon DEF NamesListKeys
<1>13. LoopKnows'
  <2>1. LoopGoesOn(d, ns)
    BY <1>1, <1>6, Zenon DEF LoopGoesOn
  <2> QED
    BY <1>1, <1>3, <2>1, LoopKeeps, Zenon
<1>14. LoopVisitsAll'
  BY <1>1, <1>4 DEF LoopVisitsAll, NoReply
<1>15. ExtendKnows'
  <2>1. CASE d = e
    <3>1. careless
      BY <1>1, <2>1 DEF DictIInv, ExtendKnows, d, e, left
    <3>2. left <= Len(ns)
      BY <1>3, <1>4, <1>6, <2>1 DEF Longer
    <3> QED
      BY <1>1, <1>4, <1>8, <1>9, <2>1, <3>1, <3>2 DEF ExtendKnows
  <2>2. CASE d # e
    <3>1. /\ Len(names[d]) + left <= MaxNames
          /\ \A j \in 1 .. n : names[e][j] \in Range(names[d])
          /\ ~ careless =>
               /\ \A c \in Dicts \ {d} : Lists(c)
               /\ IsInjective(names[d])
               /\ Range(names[d]) = DOMAIN items[d] \cup {names[e][j] : j \in 1 .. n}
               /\ \A j \in n + 1 .. Len(names[e]) : names[e][j] \notin Range(names[d])
      BY <1>1, <2>2, Zenon DEF DictIInv, ExtendKnows, d, e, left, n
    <3>2. ns = Append(names[d], x)
      BY <1>1, <1>3, <3>1, DictAssumption DEF ns, Fits
    <3>3. /\ Len(ns) = Len(names[d]) + 1
          /\ Range(ns) = Range(names[d]) \cup {x}
      BY <1>3, <1>5, <3>2, AppendRange, Zenon
    <3>4. names'[e] = names[e] /\ extending'.left = left - 1
      BY <1>3, <1>8, <1>9, <2>2
    <3>5. n \in Nat /\ n + 1 \in 1 .. Len(names[e]) /\ Len(names[e]) - (left - 1) = n + 1
      BY <1>1, <1>3, <1>4 DEF n
    <3>6. \A j \in 1 .. n + 1 : names[e][j] \in Range(ns)
      BY <3>1, <3>3, <3>5 DEF x
    <3>7. ASSUME ~ careless
          PROVE  /\ \A c \in Dicts \ {d} : Lists(c)'
                 /\ IsInjective(ns)
                 /\ Range(ns) = DOMAIN items[d] \cup {names[e][j] : j \in 1 .. n + 1}
                 /\ \A j \in n + 2 .. Len(names[e]) : names[e][j] \notin Range(ns)
      <4>1. \A c \in Dicts \ {d} : Lists(c)'
        BY <1>1, <1>8, <3>1, <3>7, Zenon DEF Lists
      <4>2. x \notin Range(names[d])
        BY <3>1, <3>5, <3>7 DEF x
      <4>3. IsInjective(ns)
        BY <1>3, <1>5, <3>1, <3>2, <3>7, <4>2, AppendOther, Zenon
      <4>4. {names[e][j] : j \in 1 .. n + 1} = {names[e][j] : j \in 1 .. n} \cup {x}
        BY <3>5 DEF x
      <4>5. Range(ns) = DOMAIN items[d] \cup {names[e][j] : j \in 1 .. n + 1}
        BY Zenon, <3>1, <3>3, <3>7, <4>4
      <4>6. IsInjective(names[e])
        BY <1>3, <2>2, <3>1, <3>7 DEF Lists
      <4>7. \A j \in n + 2 .. Len(names[e]) : names[e][j] \notin Range(names[d]) /\ names[e][j] # x
        BY <1>3, <3>1, <3>5, <3>7, <4>6 DEF IsInjective, x
      <4> QED
        BY <3>3, <4>1, <4>3, <4>5, <4>7
    <3>8. /\ left - 1 <= Len(names[e]) /\ Len(ns) + (left - 1) <= MaxNames
          /\ n + 1 + 1 = n + 2
      BY <1>3, <1>4, <3>1, <3>3, <3>5, DictAssumption
    <3> QED
      BY SMTT(30), SMTT(60), SMTT(90), <1>1, <1>4, <1>8, <1>9, <2>2, <3>4, <3>5, <3>6, <3>7, <3>8
         DEF ExtendKnows
  <2> QED
    BY <2>1, <2>2
<1> QED
  BY <1>10, <1>11, <1>12, <1>13, <1>14, <1>15 DEF DictIInv

\* The loop of extend is over.
LEMMA ExtendItemsKeeps ==
  ASSUME DictIInv, ExtendItems, UNCHANGED careless
  PROVE  DictIInv'
<1> DEFINE d == extending.into
           e == extending.from
           it == AddAll(items[e], items[d])
<1>1. /\ extending # Idle /\ extending.left = 0 /\ UNCHANGED <<names, loop, reply>>
      /\ items' = [items EXCEPT ![d] = it] /\ extending' = Idle
  BY DEF ExtendItems
<1>2. /\ d \in Dicts /\ e \in Dicts /\ names \in [Dicts -> Seq(Key)] /\ careless \in BOOLEAN
      /\ \A c \in Dicts : Len(names[c]) <= MaxNames
  BY <1>1 DEF DictIInv, DictTypes
<1>3. /\ reply = NoReply
      /\ d # e => \A j \in 1 .. Len(names[e]) - 0 : names[e][j] \in Range(names[d])
      /\ ~ careless =>
           /\ \A c \in Dicts \ {d} : Lists(c)
           /\ d = e => Lists(d)
           /\ d # e => /\ IsInjective(names[d])
                       /\ Range(names[d]) = DOMAIN items[d] \cup {names[e][j] : j \in 1 .. Len(names[e]) - 0}
  BY <1>1, Zenon DEF DictIInv, ExtendKnows
<1>4. /\ Len(names[e]) - 0 = Len(names[e]) /\ DOMAIN names[e] = 1 .. Len(names[e])
  BY <1>2
<1>5. /\ DOMAIN items[d] \subseteq Range(names[d]) /\ DOMAIN items[e] \subseteq Range(names[e])
  BY <1>2, Zenon DEF DictIInv, ItemsNamed
<1>6. Range(names[e]) = {names[e][j] : j \in 1 .. Len(names[e])}
  BY <1>4, Zenon DEF Range
<1>7. DOMAIN it = DOMAIN items[e] \cup DOMAIN items[d]
  BY DEF AddAll
<1> HIDE DEF d, e, it
<1>8. Fine(names[d], it)
  <2>1. DOMAIN it \subseteq Range(names[d])
    <3>1. CASE d = e
      BY <1>5, <1>7, <3>1
    <3>2. CASE d # e
      BY <1>3, <1>4, <1>5, <1>6, <1>7, <3>2
    <3> QED
      BY <3>1, <3>2
  <2>2. ASSUME ~ careless
        PROVE  IsInjective(names[d]) /\ Range(names[d]) = DOMAIN it
    <3>1. CASE d = e
      BY <1>3, <1>7, <2>2, <3>1 DEF Lists
    <3>2. CASE d # e
      <4>1. Range(names[e]) = DOMAIN items[e]
        BY <1>2, <1>3, <2>2, <3>2 DEF Lists
      <4> QED
        BY <1>3, <1>4, <1>6, <1>7, <2>2, <3>2, <4>1
    <3> QED
      BY <3>1, <3>2
  <2> QED
    BY <1>2, <2>1, <2>2 DEF Fine
<1>9. Changed(d, names[d], it)
  BY <1>1, <1>2 DEF Changed
<1>10. LoopGoesOn(d, names[d])
  BY <1>1, <1>2 DEF LoopGoesOn, Longer
<1>11. reply' = NoReply /\ careless' \in BOOLEAN /\ (careless => careless')
  BY <1>1, <1>2, <1>3, Zenon
<1>12. ~ careless' => \A c \in Dicts \ {d} : Lists(c)
  BY <1>3, Zenon
<1> QED
  BY <1>1, <1>2, <1>8, <1>9, <1>10, <1>11, <1>12, ChangeKeeps, Zenon

\* for key, value in d
LEMMA ForStartKeeps ==
  ASSUME DictIInv, NEW d \in Dicts, ForStart(d), UNCHANGED careless
  PROVE  DictIInv'
<1>1. /\ Callable /\ UNCHANGED <<names, items, extending>> /\ reply' = NoReply
      /\ loop' = [on |-> d, key |-> Nil, visited |-> <<>>, shrunk |-> FALSE]
  BY DEF ForStart
<1>2. Len(names[d]) \in Nat
  BY DEF DictIInv, DictTypes
<1>3. LoopKnows'
  BY <1>1, <1>2 DEF LoopKnows
<1>4. careless' \in BOOLEAN /\ (careless => careless')
  BY Zenon DEF DictIInv, DictTypes
<1> QED
  BY <1>1, <1>3, <1>4, ReplyKeeps, Zenon

\* @itern leads from nil to the first name,
LEMMA IterNFirst ==
  ASSUME NEW ns \in Seq(Key)
  PROVE  IterN(ns, Nil) = IF ns = <<>> THEN False ELSE ns[1]
BY DEF IterN

\* and from each name to the next, if no name is there twice.
LEMMA IterNNext ==
  ASSUME NEW ns \in Seq(Key), IsInjective(ns), NEW p \in 1 .. Len(ns), ns[p] # Nil
  PROVE  IterN(ns, ns[p]) = IF p < Len(ns) THEN ns[p + 1] ELSE Nil
<1> DEFINE hits == {i \in 1 .. Len(ns) - 1 : ns[i] = ns[p]}
<1>1. DOMAIN ns = 1 .. Len(ns) /\ Len(ns) \in Nat /\ p \in Nat
  OBVIOUS
<1>2. \A i \in 1 .. Len(ns) : ns[i] = ns[p] => i = p
  BY <1>1 DEF IsInjective
<1>3. IterN(ns, ns[p]) = IF hits # {} THEN ns[Min(hits) + 1] ELSE Nil
  BY DEF IterN
<1>4. CASE p < Len(ns)
  <2>1. hits = {p}
    BY <1>1, <1>2, <1>4
  <2> HIDE DEF hits
  <2>2. Min({p}) = p
    BY <1>1 DEF Min
  <2> QED
    BY <1>3, <1>4, <2>1, <2>2
<1>5. CASE ~ (p < Len(ns))
  <2>1. hits = {}
    BY <1>1, <1>2, <1>5
  <2> HIDE DEF hits
  <2> QED
    BY <1>3, <1>5, <2>1
<1> QED
  BY <1>4, <1>5

\* What @itern answers is nil, false or a name.
LEMMA IterNName ==
  ASSUME NEW ns \in Seq(Key), NEW k
  PROVE  IterN(ns, k) \in Key \cup {Nil, False}
<1> DEFINE hits == {i \in 1 .. Len(ns) - 1 : ns[i] = k}
<1>1. CASE k = Nil
  BY <1>1, IterNFirst
<1>2. CASE k # Nil /\ hits = {}
  BY <1>2 DEF IterN
<1>3. CASE k # Nil /\ hits # {}
  <2>1. IterN(ns, k) = ns[Min(hits) + 1]
    BY <1>3 DEF IterN
  <2>2. hits \subseteq Nat
    OBVIOUS
  <2>3. Min(hits) \in hits
    <3> HIDE DEF hits
    <3>1. \E m \in hits : \A j \in hits : m <= j
      BY <1>3, <2>2, LeastMember, Zenon
    <3> QED
      BY <3>1, Zenon DEF Min
  <2>4. Min(hits) \in 1 .. Len(ns) - 1
    BY <2>3
  <2> HIDE DEF hits
  <2> QED
    BY <2>1, <2>4
<1> QED
  BY <1>1, <1>2, <1>3

\* Where a loop that was not disturbed gets to: past its last name, or to the
\* name that follows those it has visited.
LEMMA LoopReaches ==
  ASSUME DictIInv, Callable, loop # NoLoop, ~ loop.shrunk, ~ careless
  PROVE  LET ns == names[loop.on]
             m == Len(loop.visited)
             key == IterN(ns, loop.key)
         IN  \/ loop.visited = ns /\ key \in {Nil, False}
             \/ m + 1 \in 1 .. Len(ns) /\ key = ns[m + 1]
<1> DEFINE ns == names[loop.on]
           visited == loop.visited
           m == Len(visited)
           key == IterN(ns, loop.key)
<1>1. /\ loop.on \in Dicts /\ visited \in Seq(Key)
      /\ m <= Len(ns) /\ \A i \in 1 .. m : visited[i] = ns[i]
      /\ IF visited = <<>> THEN loop.key = Nil ELSE loop.key = ns[m] /\ loop.key # Nil
  BY Zenon DEF DictIInv, LoopKnows
<1>2. ns \in Seq(Key) /\ IsInjective(ns)
  BY <1>1, Zenon DEF DictIInv, DictTypes, NamesListKeys, Callable
<1>3. m \in Nat /\ Len(ns) \in Nat /\ (visited = <<>> <=> m = 0) /\ (ns = <<>> <=> Len(ns) = 0)
  BY <1>1, <1>2
<1>4. m = Len(ns) => visited = ns
  BY <1>1, <1>2
<1> HIDE DEF visited, m, ns, key
<1>5. CASE m = 0
  <2>1. key = IF ns = <<>> THEN False ELSE ns[1]
    BY <1>1, <1>2, <1>3, <1>5, IterNFirst DEF key
  <2>2. CASE ns = <<>>
    BY <1>3, <1>4, <1>5, <2>1, <2>2 DEF ns, visited, m, key
  <2>3. CASE ns # <<>>
    <3>1. m + 1 \in 1 .. Len(ns) /\ key = ns[m + 1]
      BY <1>3, <1>5, <2>1, <2>3
    <3> QED
      BY <3>1, Zenon DEF ns, visited, m, key
  <2> QED
    BY <2>2, <2>3
<1>6. CASE m # 0
  <2>1. m \in 1 .. Len(ns) /\ loop.key = ns[m] /\ ns[m] # Nil
    BY <1>1, <1>3, <1>6
  <2>2. key = IF m < Len(ns) THEN ns[m + 1] ELSE Nil
    BY <1>2, <2>1, IterNNext DEF key
  <2>3. CASE m < Len(ns)
    <3>1. m + 1 \in 1 .. Len(ns) /\ key = ns[m + 1]
      BY <1>3, <2>2, <2>3
    <3> QED
      BY <3>1, Zenon DEF ns, visited, m, key
  <2>4. CASE ~ (m < Len(ns))
    <3>1. m = Len(ns) /\ key = Nil
      BY <1>1, <1>3, <2>2, <2>4
    <3> QED
      BY <1>4, <3>1, Zenon DEF ns, visited, m, key
  <2> QED
    BY <2>3, <2>4
<1> QED
  BY <1>5, <1>6

\* One turn of the for loop, or its end.
LEMMA ForNextKeeps ==
  ASSUME DictIInv, ForNext, UNCHANGED careless
  PROVE  DictIInv'
<1> DEFINE ns == names[loop.on]
           visited == loop.visited
           m == Len(visited)
           key == IterN(ns, loop.key)
<1>1. Callable /\ loop # NoLoop /\ UNCHANGED <<names, items, extending>>
  BY DEF ForNext
<1>2. /\ loop = [on |-> loop.on, key |-> loop.key, visited |-> visited, shrunk |-> loop.shrunk]
      /\ loop.on \in Dicts /\ loop.shrunk \in BOOLEAN /\ visited \in Seq(Key)
  BY <1>1, Zenon DEF DictIInv, LoopKnows
<1>3. careless' \in BOOLEAN /\ (careless => careless')
  BY Zenon DEF DictIInv, DictTypes
<1>4. ~ loop.shrunk /\ ~ careless => \/ visited = ns /\ key \in {Nil, False}
                                     \/ m + 1 \in 1 .. Len(ns) /\ key = ns[m + 1]
  BY <1>1, LoopReaches, Zenon
<1>5. Len(ns) \in Nat /\ m \in Nat /\ Len(ns) <= MaxNames /\ ns \in Seq(Key)
  BY <1>2 DEF DictIInv, DictTypes
<1>6. CASE key \in Falsy
  <2>1. /\ loop' = NoLoop
        /\ reply' = [op |-> "for", on |-> loop.on, visited |-> visited, shrunk |-> loop.shrunk]
    BY <1>6, Zenon DEF ForNext
  <2>2. DictTypes' /\ ItemsNamed' /\ NamesListKeys'
    BY <1>1, Zenon DEF DictIInv, DictTypes, ItemsNamed, NamesListKeys
  <2>3. ExtendKnows'
    BY <1>1, Zenon DEF ExtendKnows, Callable
  <2>4. LoopKnows'
    BY <2>1, Zenon DEF LoopKnows
  <2>5. LoopVisitsAll'
    <3>1. reply'.on = loop.on /\ reply'.visited = visited /\ reply'.shrunk = loop.shrunk
      BY <2>1
    <3>2. ASSUME ~ loop.shrunk, ~ careless, Range(ns) \cap Falsy = {}
          PROVE  visited = ns
      <4> HIDE DEF ns, visited, m, key
      <4>1. \A i \in 1 .. Len(ns) : ns[i] \in Range(ns)
        <5>1. DOMAIN ns = 1 .. Len(ns)
          BY <1>5
        <5> QED
          BY <5>1, Zenon DEF Range
      <4> QED
        BY <1>4, <1>6, <3>2, <4>1, Zenon
    <3> QED
      BY <1>1, <3>1, <3>2, Zenon DEF LoopVisitsAll
  <2> QED
    BY <2>2, <2>3, <2>4, <2>5 DEF DictIInv
<1>7. CASE key \notin Falsy
  <2> DEFINE seen == IF loop.shrunk \/ Len(visited) > MaxNames THEN visited ELSE Append(visited, key)
  <2>1. loop' = [loop EXCEPT !.key = key, !.visited = seen] /\ reply' = NoReply
    BY <1>7, Zenon DEF ForNext
  <2>2. key # Nil /\ key # False
    BY <1>7, DictAssumption
  <2>3. key \in Key
    <3>1. key \in Key \cup {Nil, False}
      BY <1>5, IterNName, Zenon
    <3> QED
      BY <2>2, <3>1
  <2> HIDE DEF key, m, ns, visited
  <2>4. seen \in Seq(Key)
    BY <1>2, <2>3
  <2>5. ASSUME ~ loop.shrunk, ~ careless
        PROVE  /\ Len(seen) <= Len(ns) /\ \A i \in 1 .. Len(seen) : seen[i] = ns[i]
               /\ seen # <<>> /\ key = ns[Len(seen)]
    <3>1. m + 1 \in 1 .. Len(ns) /\ key = ns[m + 1]
      BY <1>4, <2>2, <2>5
    <3>2. seen = Append(visited, key)
      BY <1>5, <2>5, <3>1, DictAssumption DEF m
    <3>3. Len(seen) = m + 1 /\ seen[m + 1] = key /\ \A i \in 1 .. m : seen[i] = visited[i]
      BY <1>2, <2>3, <3>2 DEF m
    <3>4. \A i \in 1 .. m : visited[i] = ns[i]
      BY <1>1, <2>5, Zenon DEF DictIInv, LoopKnows, m, ns, visited
    <3> HIDE DEF seen
    <3>5. \A i \in 1 .. m + 1 : i = m + 1 \/ i \in 1 .. m
      BY <1>5
    <3>6. seen # <<>>
      BY <1>5, <3>3
    <3> QED
      BY <1>5, <3>1, <3>3, <3>4, <3>5, <3>6
  <2> HIDE DEF seen
  <2>6. loop' = [on |-> loop.on, key |-> key, visited |-> seen, shrunk |-> loop.shrunk]
    BY Zenon, <1>2, <2>1
  <2>7. /\ loop'.on = loop.on /\ loop'.key = key /\ loop'.visited = seen
        /\ loop'.shrunk = loop.shrunk
    BY <2>6
  <2>8. LoopKnows'
    BY <1>1, <1>2, <2>2, <2>4, <2>5, <2>6, <2>7, Zenon DEF LoopKnows, ns
  <2> QED
    BY <1>1, <1>3, <2>1, <2>8, ReplyKeeps, Zenon
<1> QED
  BY <1>6, <1>7

\* Whatever is called, the names and the table of each dictionary, the loop of
\* extend and the for loop stay as DictIInv says.
THEOREM DictInvariant == Spec => []DictIInv
<1>1. Init => DictIInv
  <2> SUFFICES ASSUME Init PROVE DictIInv
    OBVIOUS
  <2>1. /\ names = [d \in Dicts |-> <<>>] /\ items = [d \in Dicts |-> <<>>]
        /\ extending = Idle /\ loop = NoLoop /\ reply = NoReply
    BY DEF Init
  <2>2. DictTypes
    <3>1. /\ names \in [Dicts -> Seq(Key)] /\ DOMAIN items = Dicts
          /\ \A d \in Dicts : Len(names[d]) <= MaxNames
      BY <2>1, DictAssumption
    <3>2. careless \in BOOLEAN
      BY Zenon DEF Init
    <3> QED
      BY <2>1, <3>1, <3>2, Zenon DEF DictTypes
  <2>3. \A d \in Dicts : /\ IsInjective(names[d])
                         /\ DOMAIN items[d] = {} /\ Range(names[d]) = {}
    BY <2>1 DEF IsInjective, Range
  <2>4. ItemsNamed /\ NamesListKeys
    BY <2>3 DEF ItemsNamed, NamesListKeys
  <2>5. ExtendKnows /\ LoopKnows
    BY <2>1, Zenon DEF ExtendKnows, LoopKnows
  <2>6. LoopVisitsAll
    BY <2>1 DEF LoopVisitsAll, NoReply
  <2> QED
    BY <2>2, <2>4, <2>5, <2>6 DEF DictIInv
<1>2. DictIInv /\ [Next]_vars => DictIInv'
  <2> SUFFICES ASSUME DictIInv, [Next]_vars PROVE DictIInv'
    OBVIOUS
  <2>1. ASSUME NEW d \in Dicts, NEW k \in Key, NEW v \in Value,
               Add(d, k, v) \/ Set(d, k, v) \/ SetIndex(d, k, v), Careless(k = Nil)
        PROVE  DictIInv'
    BY <2>1, AddKeeps, SetKeeps, SetIndexKeeps, Zenon
  <2>2. ASSUME NEW d \in Dicts, NEW k1 \in Key, NEW k2 \in Key, NEW v1 \in Value, NEW v2 \in Value,
               Literal(d, k1, v1, k2, v2), Careless(k1 = k2)
        PROVE  DictIInv'
    BY <2>2, LiteralKeeps, Zenon
  <2>3. ASSUME NEW d \in Dicts, NEW e \in Dicts, Extend(d, e),
               Careless(Range(names[d]) \cap Range(names[e]) # {})
        PROVE  DictIInv'
    BY <2>3, ExtendKeeps, Zenon
  <2>4. ASSUME NEW d \in Dicts, Clear(d) \/ ForStart(d), UNCHANGED careless
        PROVE  DictIInv'
    BY <2>4, ClearKeeps, ForStartKeeps, Zenon
  <2>5. ASSUME NEW d \in Dicts, NEW e \in Dicts, Clone(d, e) \/ Compact(d, e), UNCHANGED careless
        PROVE  DictIInv'
    BY <2>5, CloneKeeps, CompactKeeps, Zenon
  <2>6. ASSUME NEW d \in Dicts, NEW k \in Key, RemoveKey(d, k), UNCHANGED careless
        PROVE  DictIInv'
    BY <2>6, RemoveKeyKeeps, Zenon
  <2>7. ASSUME ExtendName \/ ExtendItems \/ ForNext, UNCHANGED careless
        PROVE  DictIInv'
    BY <2>7, ExtendNameKeeps, ExtendItemsKeeps, ForNextKeeps, Zenon
  <2>8. CASE UNCHANGED vars
    <3>1. UNCHANGED <<names, items, extending, loop, reply, careless>>
      BY <2>8 DEF vars, dictVars
    <3>2. DictTypes' /\ ItemsNamed' /\ NamesListKeys' /\ LoopKnows' /\ LoopVisitsAll'
      BY <3>1, Zenon DEF DictIInv, DictTypes, ItemsNamed, NamesListKeys, LoopKnows, LoopVisitsAll
    <3>3. ExtendKnows'
      BY <3>1, Zenon DEF DictIInv, ExtendKnows, Lists
    <3> QED
      BY <3>2, <3>3 DEF DictIInv
  <2> QED
    BY <2>1, <2>2, <2>3, <2>4, <2>5, <2>6, <2>7, <2>8, Zenon DEF Next
<1> QED
  BY <1>1, <1>2, PTL DEF Spec

\* remove always finds the index it deletes, and a for loop or keys() can
\* reach every entry.
THEOREM DictItemsNamed == Spec => []ItemsNamed
<1>1. DictIInv => ItemsNamed
  BY DEF DictIInv
<1> QED
  BY <1>1, DictInvariant, PTL

\* The names of a careful program's dictionary are its keys, each once, after
\* any sequence of calls.
THEOREM DictNamesListKeys == Spec => []NamesListKeys
<1>1. DictIInv => NamesListKeys
  BY DEF DictIInv
<1> QED
  BY <1>1, DictInvariant, PTL

\* Its for loops visit every name in order, whatever the body calls that takes
\* no name away.
THEOREM DictLoopVisitsAll == Spec => []LoopVisitsAll
<1>1. DictIInv => LoopVisitsAll
  BY DEF DictIInv
<1> QED
  BY <1>1, DictInvariant, PTL
==============================================================================
