---------------------------- MODULE CallsProofs ------------------------------
(***************************************************************************)
(* Proofs about Calls: that the stack is the variables of the frames, and  *)
(* that the tables of the classes lead every call to the right method.     *)
(***************************************************************************)
EXTENDS Calls, TLAPS, WellFoundedInduction

\* A leaf that names no backend is tried with each of these.
USE SMT, Zenon, SMTT(60), SMTT(90)

(* Sequences, whatever their elements. *)

IsSeq(s) == s \in Seq({s[i] : i \in DOMAIN s})

\* A sequence over any set, such as Append and SubSeq make.
LEMMA SeqOver ==
  ASSUME NEW A, NEW s \in Seq(A)
  PROVE  IsSeq(s)
<1>1. /\ Len(s) \in Nat
      /\ DOMAIN s = 1 .. Len(s)
      /\ s = [i \in 1 .. Len(s) |-> s[i]]
  OBVIOUS
<1> DEFINE B == {s[i] : i \in DOMAIN s}
<1>2. s \in [1 .. Len(s) -> B]
  BY <1>1
<1> QED
  BY <1>1, <1>2 DEF IsSeq

\* What Len, DOMAIN and application say of a sequence.
LEMMA SeqFacts ==
  ASSUME NEW s, IsSeq(s)
  PROVE  /\ Len(s) \in Nat
         /\ DOMAIN s = 1 .. Len(s)
         /\ s = [i \in 1 .. Len(s) |-> s[i]]
<1> DEFINE B == {s[i] : i \in DOMAIN s}
<1>1. s \in Seq(B)
  BY DEF IsSeq
<1> HIDE DEF B
<1> QED
  BY <1>1

\* A function on 1 .. n is a sequence.
LEMMA FunctionSeq ==
  ASSUME NEW n \in Nat, NEW f, f = [i \in 1 .. n |-> f[i]]
  PROVE  IsSeq(f) /\ Len(f) = n
<1> DEFINE B == {f[i] : i \in DOMAIN f}
<1>1. DOMAIN f = 1 .. n
  OBVIOUS
<1>2. f \in [1 .. n -> B]
  BY <1>1
<1>3. f \in Seq(B)
  BY <1>2
<1>4. IsSeq(f)
  BY <1>3 DEF IsSeq
<1>5. Len(f) \in Nat /\ DOMAIN f = 1 .. Len(f)
  BY <1>4, SeqFacts
<1> QED
  BY <1>1, <1>4, <1>5

\* Two sequences with the same elements are equal.
LEMMA SameSeq ==
  ASSUME NEW s, NEW t, IsSeq(s), IsSeq(t), Len(s) = Len(t),
         \A i \in 1 .. Len(s) : s[i] = t[i]
  PROVE  s = t
<1>1. s = [i \in 1 .. Len(s) |-> s[i]] /\ t = [i \in 1 .. Len(t) |-> t[i]]
  BY SeqFacts
<1> QED
  BY <1>1

\* push: the value is on top and the rest stays.
LEMMA AppendFacts ==
  ASSUME NEW s, NEW v, IsSeq(s)
  PROVE  /\ IsSeq(Append(s, v)) /\ Len(Append(s, v)) = Len(s) + 1
         /\ \A i \in 1 .. Len(s) : Append(s, v)[i] = s[i]
         /\ Append(s, v)[Len(s) + 1] = v
<1> DEFINE A == {s[i] : i \in DOMAIN s} \cup {v}
<1>1. s \in Seq(A)
  <2>1. s \in [1 .. Len(s) -> A] /\ Len(s) \in Nat
    BY SeqFacts
  <2> QED
    BY <2>1
<1>2. v \in A
  OBVIOUS
<1> HIDE DEF A
<1>3. Append(s, v) \in Seq(A)
  BY <1>1, <1>2
<1>4. IsSeq(Append(s, v))
  BY <1>3, SeqOver, Zenon
<1> QED
  BY <1>1, <1>2, <1>4

\* Several pushes: the values are on top, in their order, and the rest stays.
LEMMA ConcatFacts ==
  ASSUME NEW s, NEW t, IsSeq(s), IsSeq(t)
  PROVE  /\ IsSeq(s \o t) /\ Len(s \o t) = Len(s) + Len(t)
         /\ \A i \in 1 .. Len(s) : (s \o t)[i] = s[i]
         /\ \A i \in 1 .. Len(t) : (s \o t)[Len(s) + i] = t[i]
<1> DEFINE A == {s[i] : i \in DOMAIN s} \cup {t[i] : i \in DOMAIN t}
<1>1. s \in Seq(A) /\ t \in Seq(A)
  <2>1. s \in [1 .. Len(s) -> A] /\ Len(s) \in Nat
    BY SeqFacts
  <2>2. t \in [1 .. Len(t) -> A] /\ Len(t) \in Nat
    BY SeqFacts
  <2> QED
    BY <2>1, <2>2
<1> HIDE DEF A
<1>2. s \o t \in Seq(A)
  BY <1>1
<1>3. IsSeq(s \o t)
  BY <1>2, SeqOver, Zenon
<1> QED
  BY <1>1, <1>3

\* pop_n, or a store to stack_top: what is below stays.
LEMMA KeepFacts ==
  ASSUME NEW s, IsSeq(s), NEW n \in 0 .. Len(s)
  PROVE  /\ IsSeq(Keep(s, n)) /\ Len(Keep(s, n)) = n
         /\ \A i \in 1 .. n : Keep(s, n)[i] = s[i]
<1> DEFINE A == {s[i] : i \in DOMAIN s}
<1>1. s \in Seq(A)
  BY DEF IsSeq
<1> HIDE DEF A
<1>2. Len(s) \in Nat /\ n \in Nat
  BY <1>1
<1>3. Keep(s, n) \in Seq(A) /\ Len(Keep(s, n)) = n
        /\ \A i \in 1 .. n : Keep(s, n)[i] = s[i]
  BY <1>1, <1>2 DEF Keep
<1> QED
  BY <1>3, SeqOver

\* A store into a slot of the stack, or into a frame.
LEMMA ExceptFacts ==
  ASSUME NEW s, IsSeq(s), NEW p \in 1 .. Len(s), NEW v
  PROVE  /\ IsSeq([s EXCEPT ![p] = v]) /\ Len([s EXCEPT ![p] = v]) = Len(s)
         /\ \A i \in 1 .. Len(s) : [s EXCEPT ![p] = v][i] = IF i = p THEN v ELSE s[i]
<1>1. /\ Len(s) \in Nat /\ DOMAIN s = 1 .. Len(s)
      /\ s = [i \in 1 .. Len(s) |-> s[i]]
  BY SeqFacts
<1> DEFINE f == [s EXCEPT ![p] = v]
<1>2. f = [i \in 1 .. Len(s) |-> IF i = p THEN v ELSE s[i]]
  BY <1>1, Zenon
<1>3. f = [i \in 1 .. Len(s) |-> f[i]]
  BY <1>2
<1> HIDE DEF f
<1>4. IsSeq(f) /\ Len(f) = Len(s)
  BY <1>1, <1>3, FunctionSeq
<1> QED
  BY <1>2, <1>4 DEF f
------------------------------------------------------------------------------
(* The tables of the classes.  What a recursive definition computes is      *)
(* proved from a minimal counterexample, as the induction theorems are out  *)
(* of the provers' reach.                                                   *)

\* A set of numbers with a member has a least one.
LEMMA LeastMember ==
  ASSUME NEW S \in SUBSET Nat, S # {}
  PROVE  \E n \in S : \A m \in S : n <= m
<1>1. \E n \in S : \A m \in S : ~ (<<m, n>> \in OpToRel(<, Nat))
  BY Zenon, NatLessThanWellFounded, WFMin
<1>2. PICK n \in S : \A m \in S : ~ (<<m, n>> \in OpToRel(<, Nat))
  BY Zenon, <1>1
<1>3. \A m \in S : ~ (m < n)
  BY <1>2, Zenon DEF OpToRel
<1> QED
  BY <1>3

\* What a class has of its own, over what it gets from its superclass.
Over(kind, c, inherited) ==
  Own(c, kind) \cup {m \in inherited : \A n \in Own(c, kind) : ~ SameName(m, n)}

\* T is the table of the first n classes.
TableUpTo(kind, n, T) ==
  T = [c \in 1 .. n |-> IF c = 1 THEN Own(c, kind) ELSE Over(kind, c, T[c - 1])]

\* The tables of the classes, each a copy of its superclass's with its own
\* entries stored over, exist: what Table chooses satisfies its definition.
LEMMA TableExists ==
  ASSUME NEW kind, NEW N \in Nat
  PROVE  \E T : TableUpTo(kind, N, T)
<1> DEFINE Bad == {n \in Nat : ~ \E T : TableUpTo(kind, n, T)}
<1>1. SUFFICES ASSUME Bad # {} PROVE FALSE
  OBVIOUS
<1>2. PICK n \in Bad : \A m \in Bad : n <= m
  BY <1>1, LeastMember, Zenon
<1>3. n # 0
  <2> DEFINE T == [c \in 1 .. 0 |-> {}]
  <2>1. TableUpTo(kind, 0, T)
    BY DEF TableUpTo
  <2> QED
    BY <2>1, <1>2
<1>4. PICK T : TableUpTo(kind, n - 1, T)
  BY <1>2, <1>3
<1> DEFINE U == [c \in 1 .. n |-> IF c < n THEN T[c]
                                  ELSE IF c = 1 THEN Own(c, kind) ELSE Over(kind, c, T[c - 1])]
<1>5. TableUpTo(kind, n, U)
  <2>1. ASSUME NEW c \in 1 .. n
        PROVE  U[c] = IF c = 1 THEN Own(c, kind) ELSE Over(kind, c, U[c - 1])
    <3>1. c \in Nat /\ n \in Nat /\ n - 1 \in Nat
      BY <1>2, <1>3
    <3>2. CASE c < n
      <4>1. c \in 1 .. n - 1
        BY <3>1, <3>2
      <4>2. U[c] = T[c] /\ (c # 1 => U[c - 1] = T[c - 1])
        BY <3>1, <3>2
      <4>3. T[c] = IF c = 1 THEN Own(c, kind) ELSE Over(kind, c, T[c - 1])
        BY <1>4, <4>1 DEF TableUpTo
      <4> QED
        BY <4>2, <4>3
    <3>3. CASE c = n
      <4>1. c # 1 => U[c - 1] = T[c - 1]
        BY <3>1, <3>3
      <4> QED
        BY <3>1, <3>3, <4>1
    <3> QED
      BY <3>1, <3>2, <3>3
  <2> HIDE DEF U
  <2>2. U = [c \in 1 .. n |-> U[c]]
    BY DEF U
  <2> QED
    BY <2>1, <2>2 DEF TableUpTo
<1> QED
  BY <1>2, <1>5

\* The recursive function Table is the one its definition describes.
LEMMA TableIs ==
  ASSUME NEW kind, NEW N \in Nat, Classes = 1 .. N
  PROVE  TableUpTo(kind, N, Table(kind))
<1>1. \E T : TableUpTo(kind, N, T)
  BY TableExists
<1>2. \E T : T = [c \in Classes |-> IF c = 1 THEN Own(c, kind)
                ELSE Own(c, kind) \cup {m \in T[c - 1] : \A n \in Own(c, kind) : ~ SameName(m, n)}]
  BY <1>1 DEF TableUpTo, Over
<1>3. Table(kind) = [c \in Classes |-> IF c = 1 THEN Own(c, kind)
                ELSE Own(c, kind) \cup {m \in Table(kind)[c - 1] : \A n \in Own(c, kind) : ~ SameName(m, n)}]
  BY <1>2, Zenon DEF Table
<1> QED
  BY <1>3, Zenon DEF TableUpTo, Over

\* The classes are numbered from 1, and what they declare has a signature.
LEMMA Declared ==
  ASSUME body \in Worlds
  PROVE  /\ Len(body) \in Nat /\ Classes = 1 .. Len(body)
         /\ \A c \in Classes : \A kind \in {"methods", "fields", "statics"} :
              body[c][kind] \subseteq DOMAIN Sig
<1> DEFINE R == [methods : SUBSET DOMAIN Sig, fields : SUBSET DOMAIN Sig, statics : SUBSET DOMAIN Sig]
<1>1. body \in Seq(R)
  BY CallsAssumption, Zenon
<1>2. ASSUME NEW r \in R
      PROVE  \A kind \in {"methods", "fields", "statics"} : r[kind] \subseteq DOMAIN Sig
  OBVIOUS
<1> HIDE DEF R
<1>3. Len(body) \in Nat /\ DOMAIN body = 1 .. Len(body) /\ \A c \in DOMAIN body : body[c] \in R
  BY <1>1
<1> QED
  BY <1>2, <1>3 DEF Classes

\* m, found in a table of class c, is declared by c or by a class above it,
\* and by none between the two.
Closest(kind, c, m) ==
  /\ m = [name |-> m.name, owner |-> m.owner]
  /\ m.owner \in 1 .. c /\ m.name \in body[m.owner][kind]
  /\ m.name # "ctor" => \A e \in 1 .. c : m.name \in body[e][kind] => e <= m.owner

\* What a class declares itself.
LEMMA OwnIs ==
  ASSUME NEW kind, NEW c, NEW m
  PROVE  m \in Own(c, kind) <=>
           /\ m = [name |-> m.name, owner |-> m.owner]
           /\ m.owner = c /\ m.name \in body[c][kind]
BY DEF Own

\* OP_INHERIT and OP_METHOD: the flat tables lead to the closest declaration.
LEMMA TableClosest ==
  ASSUME body \in Worlds, NEW kind, NEW c \in Classes
  PROVE  \A m \in Table(kind)[c] : Closest(kind, c, m)
<1> DEFINE N == Len(body)
           T == Table(kind)
           Bad == {n \in 1 .. N : \E m \in T[n] : ~ Closest(kind, n, m)}
<1>1. N \in Nat /\ Classes = 1 .. N
  BY Declared
<1>2. \A n \in 1 .. N : T[n] = IF n = 1 THEN Own(n, kind) ELSE Over(kind, n, T[n - 1])
  BY <1>1, TableIs DEF TableUpTo
<1> HIDE DEF N, T
<1>3. Bad = {}
  <2>1. SUFFICES ASSUME Bad # {} PROVE FALSE
    OBVIOUS
  <2>2. Bad \in SUBSET Nat
    BY <1>1
  <2>3. PICK n \in Bad : \A k \in Bad : n <= k
    BY <2>1, <2>2, LeastMember, Zenon
  <2>4. n \in 1 .. N /\ n \in Nat /\ n >= 1
    BY <2>3, <1>1
  <2>5. PICK m \in T[n] : ~ Closest(kind, n, m)
    BY <2>3
  <2>6. CASE m \in Own(n, kind)
    <3>1. m = [name |-> m.name, owner |-> m.owner] /\ m.owner = n /\ m.name \in body[n][kind]
      BY <2>6, OwnIs
    <3> QED
      BY <2>4, <2>5, <3>1 DEF Closest
  <2>7. CASE m \notin Own(n, kind)
    <3>1. n # 1 /\ m \in T[n - 1] /\ \A o \in Own(n, kind) : ~ SameName(m, o)
      BY ZenonT(60), <1>2, <2>4, <2>5, <2>7 DEF Over
    <3>2. n - 1 \in 1 .. N /\ n - 1 \notin Bad
      BY <1>1, <2>3, <2>4, <3>1
    <3>3. Closest(kind, n - 1, m)
      BY <3>1, <3>2
    <3>4. m.name # "ctor" => m.name \notin body[n][kind]
      <4>1. ASSUME m.name # "ctor", m.name \in body[n][kind]
            PROVE  FALSE
        <5> DEFINE o == [name |-> m.name, owner |-> n]
        <5>1. o \in Own(n, kind)
          BY <4>1 DEF Own
        <5>2. SameName(m, o)
          BY <4>1 DEF SameName
        <5> QED
          BY <3>1, <5>1, <5>2
      <4> QED
        BY <4>1
    <3>5. \A e \in 1 .. n : e \in 1 .. n - 1 \/ e = n
      BY <2>4
    <3> QED
      BY <2>4, <2>5, <3>3, <3>4, <3>5 DEF Closest
  <2> QED
    BY <2>6, <2>7
<1> QED
  BY <1>1, <1>3 DEF T

\* The closest declaration of a method is the one of the nearest class.
LEMMA ClosestNearest ==
  ASSUME NEW c \in Nat, NEW m, Closest("methods", c, m), m.name # "ctor"
  PROVE  m.owner = Nearest(c, m.name)
<1> DEFINE owners == {d \in 1 .. c : m.name \in body[d].methods}
<1>1. m.owner \in owners /\ \A e \in owners : e <= m.owner
  BY DEF Closest
<1>2. \A d \in owners : (\A e \in owners : e <= d) => d = m.owner
  BY <1>1
<1>3. Nearest(c, m.name) = CHOOSE d \in owners : \A e \in owners : e <= d
  BY DEF Nearest
<1> HIDE DEF owners
<1>4. Nearest(c, m.name) \in owners /\ \A e \in owners : e <= Nearest(c, m.name)
  BY <1>1, <1>3
<1> QED
  BY <1>2, <1>4
------------------------------------------------------------------------------
(* The inductive invariant *)

\* A frame, whose first variable is self (or the callee).
IsFrame(f) ==
  /\ f = [m |-> f.m, slots |-> f.slots, try |-> f.try, via |-> f.via, locals |-> f.locals]
  /\ f.m.owner \in Classes \cup {0}
  /\ f.slots \in Nat /\ f.try \in BOOLEAN
  /\ OfValues(f.locals) /\ Len(f.locals) > 0
  /\ f.locals[1].k \in {"instance", "class"} => f.locals[1].c \in Classes

\* How m came to run, called in the way via on the object self by frame g.
\* The value of self is the first variable of a frame, so that this does not
\* depend on the stack.
Origin(m, via, self, g) ==
  /\ m.name \in DOMAIN Sig
  /\ via \in {"invoke", "class", "self", "bound"} /\ m.owner # 0 =>
       m.owner = Nearest(self.c, m.name)
  /\ via = "super" => m.owner = Nearest(g.m.owner - 1, m.name) /\ self = g.locals[1]
  /\ via = "new" => self.k = "instance" /\ m.owner \in {self.c, self.c - 1}
  /\ m.name \in Private /\ m.owner # 0 /\ via # "field" =>
       g.m.owner # 0 /\ self = g.locals[1]

Came(fs, i) == Origin(fs[i].m, fs[i].via, fs[i].locals[1], fs[i - 1])

\* The frames fs on the stack st.
Framed(fs, st) ==
  /\ IsSeq(fs) /\ OfValues(st)
  /\ \A i \in 1 .. Len(fs) : IsFrame(fs[i])
  /\ Laid(fs, st)
  /\ \A i, j \in 1 .. Len(fs) : i < j => EndOf(fs[i]) <= fs[j].slots
  /\ \A i \in 2 .. Len(fs) : Came(fs, i)
  /\ Len(fs) <= MaxFrames

\* As long as no error has left values behind, the stack ends with the
\* variables of the running function, or two values above them when an error
\* was caught (the callee's slot and the exception), and nothing is protected
\* between two calls.
CallsIInv ==
  /\ body \in Worlds /\ gcProtected \in Nat /\ tidy \in BOOLEAN
  /\ callPc \in {"run", "catch", "ended"}
  /\ callPc # "ended" <=> frames # <<>>
  /\ Framed(frames, stack)
  /\ callPc # "ended" /\ tidy => gcProtected = 0
  /\ callPc = "run" /\ tidy => Len(stack) = EndOf(Top)
  /\ callPc = "catch" => Len(stack) >= EndOf(Top) + 2
  /\ callPc = "catch" /\ tidy => Len(stack) = EndOf(Top) + 2

\* The inductive invariant says what StackIsFrames, RunsNearest and
\* PrivateInside say of the running functions.
LEMMA CallsIInvImplies ==
  ASSUME CallsIInv
  PROVE  StackIsFrames /\ RunsNearest /\ PrivateInside
<1> USE DEF CallsIInv
<1>1. IsSeq(frames) /\ Len(frames) \in Nat
  BY SeqFacts DEF Framed
<1>2. \A i \in 1 .. Len(frames) : Self(i) = frames[i].locals[1]
  <2>1. \A i \in 1 .. Len(frames) : Len(frames[i].locals) \in Nat /\ Len(frames[i].locals) > 0
    BY SeqFacts, Zenon DEF Framed, IsFrame, OfValues, IsSeq
  <2> QED
    BY <2>1 DEF Framed, Laid, Self
<1>3. StackIsFrames
  BY Zenon DEF StackIsFrames, CallsTypeOK, Framed, IsFrame
<1>4. \A i \in 2 .. Len(frames) : /\ Came(frames, i)
                                  /\ Self(i) = frames[i].locals[1]
                                  /\ Self(i - 1) = frames[i - 1].locals[1]
  BY <1>1, <1>2 DEF Framed
<1>5. RunsNearest
  BY <1>4 DEF RunsNearest, Came, Origin
<1>6. PrivateInside
  BY <1>4 DEF PrivateInside, Came, Origin
<1> QED
  BY <1>3, <1>5, <1>6

\* The invariant holds when the script is called.
LEMMA CallsIInvInit ==
  ASSUME CallsInit
  PROVE  CallsIInv
<1> DEFINE v == Closure(Script)
           f == [m |-> Script, slots |-> 0, try |-> FALSE, via |-> "call", locals |-> <<v>>]
<1>1. OfValues(<<v>>) /\ Len(<<v>>) = 1 /\ <<v>>[1] = v /\ v.k = "closure"
  <2>1. <<v>> \in Seq({v}) /\ DOMAIN <<v>> = {1} /\ v.k \in Kinds /\ v.k = "closure"
    BY DEF Closure, Kinds
  <2>2. IsSeq(<<v>>)
    BY <2>1, SeqOver, Zenon
  <2> QED
    BY <2>1, <2>2 DEF OfValues, IsSeq
<1>2. IsFrame(f)
  BY <1>1 DEF IsFrame, Script
<1>3. IsSeq(<<f>>) /\ Len(<<f>>) = 1 /\ <<f>>[1] = f /\ <<f>> # <<>>
  <2>1. <<f>> \in Seq({f})
    OBVIOUS
  <2> QED
    BY <2>1, SeqOver, Zenon
<1>4. EndOf(f) = 1 /\ f.slots = 0 /\ f.locals = <<v>>
  BY <1>1 DEF EndOf
<1>5. frames = <<f>> /\ stack = <<v>> /\ Top = f
  BY <1>3 DEF CallsInit, Top
<1> HIDE DEF f, v
<1>6. Framed(<<f>>, <<v>>)
  <2>1. Laid(<<f>>, <<v>>)
    BY <1>1, <1>3, <1>4 DEF Laid
  <2>2. 1 <= MaxFrames
    BY CallsAssumption
  <2> DEFINE fs == <<f>>
  <2>3. /\ IsSeq(fs) /\ \A i \in 1 .. Len(fs) : IsFrame(fs[i])
        /\ Len(fs) = 1 /\ Laid(fs, <<v>>)
    BY <1>2, <1>3, <2>1
  <2> HIDE DEF fs
  <2>4. Framed(fs, <<v>>)
    BY <1>1, <2>2, <2>3 DEF Framed
  <2> QED
    BY <2>4 DEF fs
<1> QED
  BY <1>1, <1>3, <1>4, <1>5, <1>6, Zenon DEF CallsInit, CallsIInv
------------------------------------------------------------------------------
(* Changes of the frames and of the stack *)

\* The stacks agree up to n; the variables of f are on the stack.
Below(st2, st, n) == \A p \in 1 .. n : st2[p] = st[p]
Holds(st, f) == \A j \in 1 .. Len(f.locals) : st[f.slots + j] = f.locals[j]

\* What the arithmetic on frames needs to know.
LEMMA FrameNumbers ==
  ASSUME NEW f, IsFrame(f)
  PROVE  /\ f.slots \in Nat /\ Len(f.locals) \in Nat /\ Len(f.locals) > 0
         /\ EndOf(f) \in Nat /\ EndOf(f) = f.slots + Len(f.locals) /\ f.slots < EndOf(f)
<1>1. f.slots \in Nat /\ Len(f.locals) > 0 /\ IsSeq(f.locals)
  BY DEF IsFrame, OfValues, IsSeq
<1>2. Len(f.locals) \in Nat
  BY <1>1, SeqFacts
<1> QED
  BY <1>1, <1>2 DEF EndOf

\* The numbers of frames and stack, and those of every frame.
LEMMA FramedNumbers ==
  ASSUME NEW fs, NEW st, Framed(fs, st)
  PROVE  /\ IsSeq(fs) /\ Len(fs) \in Nat /\ DOMAIN fs = 1 .. Len(fs)
         /\ IsSeq(st) /\ Len(st) \in Nat /\ DOMAIN st = 1 .. Len(st)
         /\ \A i \in 1 .. Len(fs) :
              /\ IsFrame(fs[i]) /\ EndOf(fs[i]) <= Len(st)
              /\ EndOf(fs[i]) <= EndOf(fs[Len(fs)])
              /\ i # Len(fs) => EndOf(fs[i]) <= fs[Len(fs)].slots
<1>1. IsSeq(fs) /\ IsSeq(st)
  BY DEF Framed, OfValues, IsSeq
<1>2. /\ Len(fs) \in Nat /\ DOMAIN fs = 1 .. Len(fs)
      /\ Len(st) \in Nat /\ DOMAIN st = 1 .. Len(st)
  BY <1>1, SeqFacts
<1>3. ASSUME NEW i \in 1 .. Len(fs)
      PROVE  /\ IsFrame(fs[i]) /\ EndOf(fs[i]) <= Len(st)
             /\ EndOf(fs[i]) <= EndOf(fs[Len(fs)])
             /\ i # Len(fs) => EndOf(fs[i]) <= fs[Len(fs)].slots
  <2>0. Len(fs) \in Nat
    BY <1>2
  <2>1. Len(fs) \in 1 .. Len(fs) /\ (i # Len(fs) => i < Len(fs))
    BY <2>0
  <2>2. IsFrame(fs[i]) /\ IsFrame(fs[Len(fs)]) /\ EndOf(fs[i]) <= Len(st)
    BY <2>1 DEF Framed, Laid
  <2>3. i # Len(fs) => EndOf(fs[i]) <= fs[Len(fs)].slots
    BY <2>1 DEF Framed
  <2>4. fs[Len(fs)].slots < EndOf(fs[Len(fs)]) /\ EndOf(fs[i]) \in Nat /\ EndOf(fs[Len(fs)]) \in Nat
        /\ fs[Len(fs)].slots \in Nat
    BY <2>2, FrameNumbers
  <2> QED
    BY <2>2, <2>3, <2>4
<1> QED
  BY <1>1, <1>2, <1>3, Zenon

\* The top frame becomes g, of the same call with other variables, and the
\* stack changes above the slots of g only.
LEMMA FramedTop ==
  ASSUME NEW fs, NEW st, Framed(fs, st), Len(fs) > 0,
         NEW g, IsFrame(g),
         g.m = fs[Len(fs)].m, g.slots = fs[Len(fs)].slots, g.via = fs[Len(fs)].via,
         g.locals[1] = fs[Len(fs)].locals[1],
         NEW st2, OfValues(st2), EndOf(g) <= Len(st2),
         Holds(st2, g),
         Below(st2, st, g.slots)
  PROVE  Framed([fs EXCEPT ![Len(fs)] = g], st2)
<1> DEFINE N == Len(fs)
           gs == [fs EXCEPT ![N] = g]
<1>1. /\ IsSeq(fs) /\ N \in Nat /\ N \in 1 .. N /\ DOMAIN fs = 1 .. N
      /\ \A i \in 1 .. N : IsFrame(fs[i]) /\ (i # N => EndOf(fs[i]) <= g.slots)
  BY FramedNumbers
<1>2. IsSeq(gs) /\ Len(gs) = N /\ \A i \in 1 .. N : gs[i] = IF i = N THEN g ELSE fs[i]
  BY <1>1, ExceptFacts, Zenon
<1>0. N \in Nat
  BY <1>1, Zenon
<1> HIDE DEF gs
<1>3. EndOf(g) \in Nat /\ g.slots < EndOf(g) /\ Len(st2) \in Nat /\ g.slots \in Nat
  BY FrameNumbers, SeqFacts DEF OfValues, IsSeq
<1>4. Laid(gs, st2)
  <2>1. ASSUME NEW i \in 1 .. N
        PROVE  /\ EndOf(gs[i]) <= Len(st2)
               /\ \A j \in 1 .. Len(gs[i].locals) : st2[gs[i].slots + j] = gs[i].locals[j]
               /\ gs[i].slots = IF i = 1 THEN 0 ELSE EndOf(gs[i - 1])
    <3>1. gs[i].slots = fs[i].slots
      BY <1>2
    <3>0. i # 1 => i - 1 \in 1 .. N /\ i - 1 # N
      BY <1>0
    <3>2. i # 1 => i - 1 \in 1 .. N /\ i - 1 # N /\ gs[i - 1] = fs[i - 1]
      BY <1>2, <3>0
    <3>3. fs[i].slots = IF i = 1 THEN 0 ELSE EndOf(fs[i - 1])
      BY DEF Framed, Laid
    <3>4. gs[i].slots = IF i = 1 THEN 0 ELSE EndOf(gs[i - 1])
      BY <3>1, <3>2, <3>3
    <3>5. CASE i = N
      BY <1>2, <3>4, <3>5 DEF Holds
    <3>6. CASE i # N
      <4>1. gs[i] = fs[i] /\ EndOf(fs[i]) <= g.slots /\ EndOf(fs[i]) \in Nat
            /\ EndOf(fs[i]) = fs[i].slots + Len(fs[i].locals)
            /\ fs[i].slots \in Nat /\ Len(fs[i].locals) \in Nat
        BY <1>1, <1>2, <3>6, FrameNumbers, Zenon
      <4>2. ASSUME NEW j \in 1 .. Len(fs[i].locals)
            PROVE  st2[fs[i].slots + j] = fs[i].locals[j]
        <5>1. fs[i].slots + j \in 1 .. g.slots
          <6>1. /\ g.slots \in Nat /\ EndOf(fs[i]) <= g.slots
                /\ EndOf(fs[i]) = fs[i].slots + Len(fs[i].locals)
                /\ fs[i].slots \in Nat /\ Len(fs[i].locals) \in Nat
            BY <1>3, <4>1, Zenon
          <6> QED
            BY SMTT(30), SMTT(60), SMTT(90), <6>1
        <5>2. st[fs[i].slots + j] = fs[i].locals[j]
          BY DEF Framed, Laid
        <5> QED
          BY <5>1, <5>2 DEF Below
      <4> QED
        BY <1>3, <3>4, <4>1, <4>2
    <3> QED
      BY <3>5, <3>6
  <2> QED
    BY <1>2, <2>1 DEF Laid
<1>5. \A i \in 1 .. N : IsFrame(gs[i])
  BY <1>1, <1>2, Zenon
<1>6. \A i, j \in 1 .. N : i < j => EndOf(gs[i]) <= gs[j].slots
  <2>1. ASSUME NEW i \in 1 .. N, NEW j \in 1 .. N, i < j
        PROVE  EndOf(gs[i]) <= gs[j].slots
    <3>0. i # N
      BY <1>0, <2>1
    <3>1. gs[i] = fs[i] /\ gs[j].slots = fs[j].slots
      BY <1>2, <3>0
    <3> QED
      BY <2>1, <3>1 DEF Framed
  <2> QED
    BY <2>1
<1>7. \A i \in 2 .. N : Came(gs, i)
  <2>1. ASSUME NEW i \in 2 .. N
        PROVE  Came(gs, i)
    <3>1. i \in 1 .. N /\ i - 1 \in 1 .. N /\ i - 1 # N
      BY <1>1
    <3>2. /\ gs[i].m = fs[i].m /\ gs[i].via = fs[i].via /\ gs[i].locals[1] = fs[i].locals[1]
          /\ gs[i - 1] = fs[i - 1]
      BY <1>2, <3>1
    <3>3. Came(fs, i)
      BY DEF Framed
    <3> QED
      BY <3>2, <3>3 DEF Came
  <2> QED
    BY <2>1
<1>8. N <= MaxFrames
  BY DEF Framed
<1> QED
  BY <1>2, <1>4, <1>5, <1>6, <1>7, <1>8, Zenon DEF Framed, gs

\* The stack changes above the frames only.
LEMMA FramedOn ==
  ASSUME NEW fs, NEW st, Framed(fs, st), Len(fs) > 0,
         NEW st2, OfValues(st2), EndOf(fs[Len(fs)]) <= Len(st2),
         Below(st2, st, EndOf(fs[Len(fs)]))
  PROVE  Framed(fs, st2)
<1> DEFINE g == fs[Len(fs)]
<1>1. /\ IsSeq(fs) /\ Len(fs) \in Nat /\ DOMAIN fs = 1 .. Len(fs)
      /\ Len(fs) \in 1 .. Len(fs) /\ IsFrame(g)
  BY FramedNumbers
<1>2. /\ g.slots \in Nat /\ Len(g.locals) \in Nat /\ EndOf(g) \in Nat
      /\ EndOf(g) = g.slots + Len(g.locals) /\ g.slots < EndOf(g)
  BY <1>1, FrameNumbers
<1>3. Holds(st, g)
  BY <1>1 DEF Framed, Laid, Holds
<1>4. \A j \in 1 .. Len(g.locals) : g.slots + j \in 1 .. EndOf(g)
  BY <1>2
<1>5. Holds(st2, g)
  BY <1>3, <1>4 DEF Holds, Below
<1>6. Below(st2, st, g.slots)
  BY <1>2 DEF Below
<1>7. [fs EXCEPT ![Len(fs)] = g] = fs
  BY <1>1, SeqFacts
<1>8. Framed([fs EXCEPT ![Len(fs)] = g], st2)
  BY <1>1, <1>5, <1>6, FramedTop, Zenon
<1> QED
  BY <1>7, <1>8

\* The frames above the k-th are dropped.
LEMMA FramedPrefix ==
  ASSUME NEW fs, NEW st, Framed(fs, st), NEW k \in 1 .. Len(fs)
  PROVE  /\ Framed(Keep(fs, k), st) /\ Len(Keep(fs, k)) = k
         /\ \A i \in 1 .. k : Keep(fs, k)[i] = fs[i]
<1> DEFINE gs == Keep(fs, k)
<1>1. IsSeq(fs) /\ Len(fs) \in Nat
  BY FramedNumbers
<1>2. k \in 0 .. Len(fs) /\ k \in Nat /\ k <= Len(fs)
  BY <1>1
<1>3. IsSeq(gs) /\ Len(gs) = k /\ \A i \in 1 .. k : gs[i] = fs[i]
  BY <1>1, <1>2, KeepFacts
<1> HIDE DEF gs
<1>4. \A i \in 1 .. k : i \in 1 .. Len(fs) /\ (i # 1 => i - 1 \in 1 .. k)
  BY <1>1, <1>2
<1>5. Laid(gs, st)
  BY <1>3, <1>4 DEF Framed, Laid
<1>6. \A i \in 2 .. k : Came(gs, i)
  <2>1. \A i \in 2 .. k : i \in 1 .. k /\ i \in 2 .. Len(fs) /\ i - 1 \in 1 .. k
    BY <1>1, <1>2
  <2> QED
    BY <1>3, <2>1, Zenon DEF Framed, Came
<1>7. k <= MaxFrames
  BY <1>1, <1>2, CallsAssumption DEF Framed
<1>8. Framed(gs, st)
  BY <1>3, <1>4, <1>5, <1>6, <1>7, Zenon DEF Framed
<1> QED
  BY <1>3, <1>8 DEF gs

\* A frame is pushed, with its variables above those of the frames below.
LEMMA FramedPush ==
  ASSUME NEW fs, NEW st, Framed(fs, st), Len(fs) > 0, Len(fs) < MaxFrames,
         NEW f, IsFrame(f), f.slots = EndOf(fs[Len(fs)]),
         Origin(f.m, f.via, f.locals[1], fs[Len(fs)]),
         NEW st2, OfValues(st2), EndOf(f) <= Len(st2),
         Holds(st2, f),
         Below(st2, st, f.slots)
  PROVE  /\ Framed(Append(fs, f), st2) /\ Len(Append(fs, f)) = Len(fs) + 1
         /\ Append(fs, f)[Len(fs) + 1] = f
<1> DEFINE N == Len(fs)
           gs == Append(fs, f)
<1>1. /\ IsSeq(fs) /\ N \in Nat /\ N \in 1 .. N
      /\ \A i \in 1 .. N : IsFrame(fs[i]) /\ EndOf(fs[i]) <= f.slots
  BY FramedNumbers
<1>2. /\ IsSeq(gs) /\ Len(gs) = N + 1 /\ gs[N + 1] = f
      /\ \A i \in 1 .. N : gs[i] = fs[i]
  BY <1>1, AppendFacts
<1>3. N \in Nat /\ f.slots \in Nat /\ EndOf(f) \in Nat /\ f.slots < EndOf(f)
  BY <1>1, FrameNumbers
<1> HIDE DEF gs
<1>4. Framed(fs, st2)
  <2>1. EndOf(fs[N]) <= Len(st2)
    <3>1. Len(st2) \in Nat
      BY SeqFacts DEF OfValues, IsSeq
    <3> QED
      BY <1>3, <3>1
  <2> QED
    BY <2>1, FramedOn
<1>5. \A i \in 1 .. N + 1 : i \in 1 .. N \/ i = N + 1
  BY <1>3
<1>6. Laid(gs, st2)
  <2>1. ASSUME NEW i \in 1 .. N + 1
        PROVE  /\ EndOf(gs[i]) <= Len(st2)
               /\ \A j \in 1 .. Len(gs[i].locals) : st2[gs[i].slots + j] = gs[i].locals[j]
               /\ gs[i].slots = IF i = 1 THEN 0 ELSE EndOf(gs[i - 1])
    <3>1. CASE i \in 1 .. N
      <4>1. i # 1 => i - 1 \in 1 .. N
        BY <1>3, <3>1
      <4>2. gs[i] = fs[i] /\ (i # 1 => gs[i - 1] = fs[i - 1])
        BY <1>2, <3>1, <4>1
      <4>3. Laid(fs, st2)
        BY <1>4 DEF Framed
      <4>4. /\ EndOf(fs[i]) <= Len(st2)
            /\ \A j \in 1 .. Len(fs[i].locals) : st2[fs[i].slots + j] = fs[i].locals[j]
            /\ fs[i].slots = IF i = 1 THEN 0 ELSE EndOf(fs[i - 1])
        BY <3>1, <4>3, Zenon DEF Laid
      <4> QED
        BY <4>2, <4>4
    <3>2. CASE i = N + 1
      <4>1. i # 1 /\ i - 1 = N /\ N \in 1 .. N
        BY <1>3, <3>2
      <4> QED
        BY <1>2, <3>2, <4>1 DEF Holds
    <3> QED
      BY <1>5, <3>1, <3>2, Zenon
  <2> QED
    BY <1>2, <2>1 DEF Laid
<1>7. \A i \in 1 .. N + 1 : IsFrame(gs[i])
  BY <1>1, <1>2, <1>5
<1>8. \A i, j \in 1 .. N + 1 : i < j => EndOf(gs[i]) <= gs[j].slots
  <2>1. ASSUME NEW i \in 1 .. N + 1, NEW j \in 1 .. N + 1, i < j
        PROVE  EndOf(gs[i]) <= gs[j].slots
    <3>1. i \in 1 .. N
      BY <1>3, <2>1
    <3>2. CASE j \in 1 .. N
      BY <1>2, <2>1, <3>1, <3>2, Zenon DEF Framed
    <3>3. CASE j = N + 1
      BY <1>1, <1>2, <3>1, <3>3
    <3> QED
      BY <1>5, <3>2, <3>3
  <2> QED
    BY <2>1
<1>9. \A i \in 2 .. N + 1 : Came(gs, i)
  <2>1. ASSUME NEW i \in 2 .. N + 1
        PROVE  Came(gs, i)
    <3>1. i - 1 \in 1 .. N /\ i \in 1 .. N + 1
      BY <1>3
    <3>2. CASE i \in 1 .. N
      <4>1. i \in 2 .. N
        BY <1>3, <3>2
      <4> QED
        BY <1>2, <3>1, <3>2, <4>1 DEF Framed, Came
    <3>3. CASE i = N + 1
      <4>1. i - 1 = N
        BY <1>3, <3>3
      <4> QED
        BY <1>2, <3>1, <3>3, <4>1 DEF Came
    <3> QED
      BY <1>5, <3>1, <3>2, <3>3
  <2> QED
    BY <2>1
<1>10. N + 1 <= MaxFrames
  BY <1>3, CallsAssumption
<1> QED
  BY <1>2, <1>6, <1>7, <1>8, <1>9, <1>10, Zenon DEF Framed, gs

\* A stack of values, slot by slot.
LEMMA ValuesFacts ==
  ASSUME NEW s
  PROVE  OfValues(s) <=> IsSeq(s) /\ \A i \in 1 .. Len(s) : s[i].k \in Kinds
BY SeqFacts DEF OfValues, IsSeq

\* push keeps the stack one of values.
LEMMA ValuesAppend ==
  ASSUME NEW s, OfValues(s), NEW v, v.k \in Kinds
  PROVE  OfValues(Append(s, v))
<1>1. IsSeq(s) /\ Len(s) \in Nat /\ \A i \in 1 .. Len(s) : s[i].k \in Kinds
  BY ValuesFacts, SeqFacts
<1> DEFINE t == Append(s, v)
<1>2. /\ IsSeq(t) /\ Len(t) = Len(s) + 1 /\ t[Len(s) + 1] = v
      /\ \A i \in 1 .. Len(s) : t[i] = s[i]
  BY <1>1, AppendFacts
<1> HIDE DEF t
<1>3. \A i \in 1 .. Len(t) : i \in 1 .. Len(s) \/ i = Len(s) + 1
  BY <1>1, <1>2
<1>4. OfValues(t)
  BY <1>1, <1>2, <1>3, ValuesFacts
<1> QED
  BY <1>4 DEF t

\* Several pushes keep the stack one of values.
LEMMA ValuesConcat ==
  ASSUME NEW s, NEW t, OfValues(s), OfValues(t)
  PROVE  OfValues(s \o t)
<1>1. /\ IsSeq(s) /\ Len(s) \in Nat /\ \A i \in 1 .. Len(s) : s[i].k \in Kinds
      /\ IsSeq(t) /\ Len(t) \in Nat /\ \A i \in 1 .. Len(t) : t[i].k \in Kinds
  BY ValuesFacts, SeqFacts
<1> DEFINE u == s \o t
<1>2. /\ IsSeq(u) /\ Len(u) = Len(s) + Len(t)
      /\ \A i \in 1 .. Len(s) : u[i] = s[i]
      /\ \A i \in 1 .. Len(t) : u[Len(s) + i] = t[i]
  BY <1>1, ConcatFacts
<1> HIDE DEF u
<1>3. ASSUME NEW i \in 1 .. Len(u)
      PROVE  u[i].k \in Kinds
  <2>1. CASE i \in 1 .. Len(s)
    BY <1>1, <1>2, <2>1
  <2>2. CASE i \notin 1 .. Len(s)
    <3>1. i - Len(s) \in 1 .. Len(t) /\ Len(s) + (i - Len(s)) = i
      BY <1>1, <1>2, <2>2
    <3> QED
      BY <1>1, <1>2, <3>1, Zenon
  <2> QED
    BY <2>1, <2>2
<1>4. OfValues(u)
  BY <1>2, <1>3, ValuesFacts
<1> QED
  BY <1>4 DEF u

\* Popping keeps the stack one of values.
LEMMA ValuesKeep ==
  ASSUME NEW s, OfValues(s), NEW n \in 0 .. Len(s)
  PROVE  OfValues(Keep(s, n))
<1>1. IsSeq(s) /\ Len(s) \in Nat /\ \A i \in 1 .. Len(s) : s[i].k \in Kinds
  BY ValuesFacts, SeqFacts
<1>2. /\ IsSeq(Keep(s, n)) /\ Len(Keep(s, n)) = n
      /\ \A i \in 1 .. n : Keep(s, n)[i] = s[i]
  BY <1>1, KeepFacts
<1>3. \A i \in 1 .. n : i \in 1 .. Len(s)
  BY <1>1
<1> QED
  BY <1>1, <1>2, <1>3, ValuesFacts

\* A store of a value into a slot keeps the stack one of values.
LEMMA ValuesExcept ==
  ASSUME NEW s, OfValues(s), NEW p \in 1 .. Len(s), NEW v, v.k \in Kinds
  PROVE  OfValues([s EXCEPT ![p] = v])
<1>1. /\ IsSeq(s) /\ Len(s) \in Nat /\ DOMAIN s = 1 .. Len(s)
      /\ \A i \in 1 .. Len(s) : s[i].k \in Kinds
  BY ValuesFacts, SeqFacts
<1> DEFINE t == [s EXCEPT ![p] = v]
<1>2. IsSeq(t) /\ Len(t) = Len(s) /\ \A i \in 1 .. Len(s) : t[i] = IF i = p THEN v ELSE s[i]
  BY <1>1, ExceptFacts, Zenon
<1> HIDE DEF t
<1>3. \A i \in 1 .. Len(t) : t[i].k \in Kinds
  BY <1>1, <1>2
<1>4. OfValues(t)
  BY <1>2, <1>3, ValuesFacts
<1> QED
  BY <1>4 DEF t
------------------------------------------------------------------------------
(* What a step has to show *)

\* The classes never change.
LEMMA FramedPrime ==
  ASSUME body' = body, Framed(frames', stack')
  PROVE  Framed(frames, stack)'
<1>1. ASSUME NEW f
      PROVE  IsFrame(f)' <=> IsFrame(f)
  BY DEF IsFrame, Classes
<1>2. ASSUME NEW c, NEW name
      PROVE  Nearest(c, name)' = Nearest(c, name)
  BY DEF Nearest
<1>3. ASSUME NEW m, NEW via, NEW self, NEW g
      PROVE  Origin(m, via, self, g)' <=> Origin(m, via, self, g)
  <2>1. /\ Nearest(self.c, m.name)' = Nearest(self.c, m.name)
        /\ Nearest(g.m.owner - 1, m.name)' = Nearest(g.m.owner - 1, m.name)
    BY <1>2
  <2> QED
    BY <2>1 DEF Origin
<1> QED
  BY <1>1, <1>3 DEF Framed, Came

\* A step after which the program goes on keeps the invariant if it leaves
\* frames that lie on the stack.
LEMMA Goes ==
  ASSUME body \in Worlds, body' = body, Framed(frames', stack'), Len(frames') > 0,
         gcProtected' \in Nat, tidy' \in BOOLEAN, callPc' \in {"run", "catch"},
         tidy' => gcProtected' = 0,
         callPc' = "run" /\ tidy' => Len(stack') = EndOf(frames'[Len(frames')]),
         callPc' = "catch" => Len(stack') >= EndOf(frames'[Len(frames')]) + 2,
         callPc' = "catch" /\ tidy' => Len(stack') = EndOf(frames'[Len(frames')]) + 2
  PROVE  CallsIInv'
<1>1. Framed(frames, stack)'
  BY FramedPrime
<1>2. frames' # <<>>
  OBVIOUS
<1> QED
  BY <1>1, <1>2 DEF CallsIInv, Top, EndOf

\* A step that ends the program keeps the invariant.
LEMMA Ends ==
  ASSUME body \in Worlds, body' = body, OfValues(stack'), frames' = <<>>,
         gcProtected' \in Nat, tidy' \in BOOLEAN, callPc' = "ended"
  PROVE  CallsIInv'
<1>1. IsSeq(frames') /\ Len(frames') = 0
  <2>1. <<>> \in Seq({})
    OBVIOUS
  <2> QED
    BY <2>1, SeqOver, Zenon
<1>2. Framed(frames', stack')
  <2>1. 0 <= MaxFrames
    BY CallsAssumption
  <2> QED
    BY <1>1, <2>1 DEF Framed, Laid
<1>3. Framed(frames, stack)'
  BY <1>2, FramedPrime
<1> QED
  BY <1>3 DEF CallsIInv

\* A set of numbers up to N with a member has a greatest one.
LEMMA GreatestMember ==
  ASSUME NEW N \in Nat, NEW S \in SUBSET (1 .. N), S # {}
  PROVE  \E n \in S : \A m \in S : m <= n
<1> DEFINE R == {N - n : n \in S}
<1>1. R \in SUBSET Nat /\ R # {}
  OBVIOUS
<1>2. PICK r \in R : \A q \in R : r <= q
  BY <1>1, LeastMember, Zenon
<1>3. PICK n \in S : r = N - n
  BY <1>2
<1>4. ASSUME NEW m \in S
      PROVE  m <= n
  <2>1. N - m \in R
    OBVIOUS
  <2>2. N - n <= N - m
    BY <1>2, <1>3, <2>1, Zenon
  <2> QED
    BY <2>2
<1> QED
  BY <1>4

\* do_throw_exception, propagate_exception: the stack st is that of the calling
\* function with at least one value more.
LEMMA ThrowKeeps ==
  ASSUME NEW fs, NEW st, NEW clean \in BOOLEAN,
         body \in Worlds, body' = body, tidy \in BOOLEAN,
         Framed(fs, st), Len(fs) > 0, Len(st) >= EndOf(fs[Len(fs)]) + 1,
         gcProtected' \in Nat,
         clean => Len(st) = EndOf(fs[Len(fs)]) + 1 /\ gcProtected' = 0,
         Throw(fs, st, clean)
  PROVE  CallsIInv'
<1> DEFINE handling == {i \in 1 .. Len(fs) : fs[i].try}
           k == CHOOSE i \in handling : \A j \in handling : j <= i
<1>1. /\ IsSeq(fs) /\ Len(fs) \in Nat
      /\ IsSeq(st) /\ Len(st) \in Nat
      /\ \A i \in 1 .. Len(fs) :
           /\ IsFrame(fs[i]) /\ EndOf(fs[i]) <= Len(st) /\ EndOf(fs[i]) <= EndOf(fs[Len(fs)])
  BY FramedNumbers
<1>2. OfValues(st) /\ Exception.k \in Kinds
  BY DEF Framed, Exception, Plain, Kinds
<1>3. /\ OfValues(stack') /\ Len(stack') = Len(st) + 1
      /\ \A i \in 1 .. Len(st) : stack'[i] = st[i]
  BY <1>1, <1>2, ValuesAppend, AppendFacts DEF Throw
<1>4. CASE handling = {}
  <2>1. frames' = <<>> /\ callPc' = "ended" /\ tidy' = tidy
    BY <1>4 DEF Throw
  <2> QED
    BY <1>3, <2>1, Ends
<1>5. CASE handling # {}
  <2>1. k \in handling /\ \A j \in handling : j <= k
    <3>1. \E i \in handling : \A j \in handling : j <= i
      BY <1>1, <1>5, GreatestMember, Zenon
    <3> HIDE DEF handling
    <3> QED
      BY <3>1
  <2>2. k \in 1 .. Len(fs)
    BY <2>1
  <2>3. frames' = Keep(fs, k) /\ callPc' = "catch" /\ tidy' = (tidy /\ clean /\ k = Len(fs))
    BY <1>5, Zenon DEF Throw, Keep
  <2> HIDE DEF k, handling
  <2>4. Below(stack', st, EndOf(fs[Len(fs)]))
    <3>1. Len(fs) \in 1 .. Len(fs)
      BY <1>1
    <3>2. EndOf(fs[Len(fs)]) <= Len(st) /\ EndOf(fs[Len(fs)]) \in Nat
      BY <1>1, <3>1, FrameNumbers
    <3> QED
      BY <1>1, <1>3, <3>2 DEF Below
  <2>5. Framed(fs, stack')
    <3>1. EndOf(fs[Len(fs)]) <= Len(stack')
      <4>1. Len(fs) \in 1 .. Len(fs)
        BY <1>1
      <4> QED
        BY <1>1, <1>3, <4>1, FrameNumbers
    <3> QED
      BY <1>3, <2>4, <3>1, FramedOn, Zenon
  <2>6. /\ Framed(frames', stack') /\ Len(frames') = k /\ frames'[k] = fs[k]
    BY <2>2, <2>3, <2>5, FramedPrefix
  <2>7. EndOf(fs[k]) \in Nat /\ EndOf(fs[Len(fs)]) \in Nat /\ EndOf(fs[k]) <= EndOf(fs[Len(fs)])
    <3>1. Len(fs) \in 1 .. Len(fs)
      BY <1>1
    <3> QED
      BY <1>1, <2>2, <3>1, FrameNumbers, Zenon
  <2>8. Len(stack') >= EndOf(fs[k]) + 2
    BY <1>1, <1>3, <2>7
  <2>9. ASSUME tidy'
        PROVE  Len(stack') = EndOf(fs[k]) + 2 /\ gcProtected' = 0
    <3>1. clean /\ k = Len(fs)
      BY <2>3, <2>9, Zenon
    <3> QED
      BY <1>1, <1>3, <2>7, <3>1
  <2>10. tidy' \in BOOLEAN /\ k > 0
    BY <1>1, <2>2, <2>3
  <2> QED
    BY <2>3, <2>6, <2>8, <2>9, <2>10, Goes
<1> QED
  BY <1>4, <1>5

\* A field of a frame is set.
LEMMA FrameSet ==
  ASSUME NEW m, NEW slots, NEW try, NEW via, NEW locals, NEW f,
         f = [m |-> m, slots |-> slots, try |-> try, via |-> via, locals |-> locals],
         NEW v
  PROVE  /\ [f EXCEPT !.locals = v] =
              [m |-> m, slots |-> slots, try |-> try, via |-> via, locals |-> v]
         /\ [f EXCEPT !.try = v] =
              [m |-> m, slots |-> slots, try |-> v, via |-> via, locals |-> locals]
OBVIOUS

\* Finished is a change of the top frame.
LEMMA FinishedIs ==
  ASSUME NEW fs, IsSeq(fs), Len(fs) > 0, NEW v, IsFrame(fs[Len(fs)])
  PROVE  LET f == fs[Len(fs)]
         IN  Finished(fs, v) =
               [fs EXCEPT ![Len(fs)] = [m |-> f.m, slots |-> f.slots, try |-> FALSE,
                                        via |-> f.via, locals |-> Append(f.locals, v)]]
<1> DEFINE N == Len(fs)
           f == fs[N]
           l == Append(f.locals, v)
<1>1. N \in Nat /\ N \in 1 .. N /\ DOMAIN fs = 1 .. N
  BY SeqFacts
<1>2. f = [m |-> f.m, slots |-> f.slots, try |-> f.try, via |-> f.via, locals |-> f.locals]
  BY DEF IsFrame
<1> DEFINE g == [m |-> f.m, slots |-> f.slots, try |-> f.try, via |-> f.via, locals |-> l]
           h == [m |-> f.m, slots |-> f.slots, try |-> FALSE, via |-> f.via, locals |-> l]
<1> HIDE DEF f, l
<1>3. [f EXCEPT !.locals = l] = g
  BY <1>2, FrameSet
<1>4. [g EXCEPT !.try = FALSE] = h
  <2>1. g = [m |-> f.m, slots |-> f.slots, try |-> f.try, via |-> f.via, locals |-> l]
    OBVIOUS
  <2> HIDE DEF g
  <2>2. ASSUME NEW b
        PROVE  [g EXCEPT !.try = b] =
                 [m |-> f.m, slots |-> f.slots, try |-> b, via |-> f.via, locals |-> l]
    BY <2>1, FrameSet
  <2> QED
    BY <2>2, Zenon
<1>5. Finished(fs, v) = [[fs EXCEPT ![N] = g] EXCEPT ![N] = [g EXCEPT !.try = FALSE]]
  BY <1>1, <1>3, Zenon DEF Finished, f, l
<1>6. Finished(fs, v) = [[fs EXCEPT ![N] = g] EXCEPT ![N] = h]
  BY <1>4, <1>5, Zenon
<1> HIDE DEF g, h, f
<1>7. [[fs EXCEPT ![N] = g] EXCEPT ![N] = h] = [fs EXCEPT ![N] = h]
  BY <1>1, Zenon
<1> QED
  BY <1>6, <1>7 DEF h, f, l

\* The call is over: its value v is on the stack st2 above the variables of
\* the caller, where the compiler expects the new variable.
LEMMA FramedFinished ==
  ASSUME NEW fs, NEW st, NEW v, Framed(fs, st), Len(fs) > 0, v.k \in Kinds,
         NEW st2, OfValues(st2), Len(st2) >= EndOf(fs[Len(fs)]) + 1,
         st2[EndOf(fs[Len(fs)]) + 1] = v,
         Below(st2, st, EndOf(fs[Len(fs)]))
  PROVE  /\ Framed(Finished(fs, v), st2) /\ Len(Finished(fs, v)) = Len(fs)
         /\ EndOf(Finished(fs, v)[Len(fs)]) = EndOf(fs[Len(fs)]) + 1
<1> DEFINE N == Len(fs)
           f == fs[N]
           g == [m |-> f.m, slots |-> f.slots, try |-> FALSE, via |-> f.via,
                 locals |-> Append(f.locals, v)]
<1>1. IsSeq(fs) /\ N \in Nat /\ N \in 1 .. N /\ IsFrame(f) /\ DOMAIN fs = 1 .. N
  BY FramedNumbers
<1>2. /\ f.slots \in Nat /\ Len(f.locals) \in Nat /\ Len(f.locals) > 0
      /\ EndOf(f) = f.slots + Len(f.locals)
  BY <1>1, FrameNumbers
<1>3. IsSeq(f.locals) /\ OfValues(f.locals)
  BY <1>1 DEF IsFrame, OfValues, IsSeq
<1>4. /\ OfValues(g.locals) /\ Len(g.locals) = Len(f.locals) + 1
      /\ g.locals[Len(f.locals) + 1] = v
      /\ \A j \in 1 .. Len(f.locals) : g.locals[j] = f.locals[j]
  BY <1>3, AppendFacts, ValuesAppend
<1>5. g.m = f.m /\ g.slots = f.slots /\ g.via = f.via /\ g.locals[1] = f.locals[1]
  BY <1>2, <1>4
<1>6. Finished(fs, v) = [fs EXCEPT ![N] = g]
  BY <1>1, FinishedIs
<1>7. IsFrame(g)
  <2>1. g = [m |-> g.m, slots |-> g.slots, try |-> g.try, via |-> g.via, locals |-> g.locals]
        /\ g.try \in BOOLEAN
    OBVIOUS
  <2> HIDE DEF g, f
  <2> QED
    BY <1>1, <1>2, <1>4, <1>5, <2>1 DEF IsFrame
<1> HIDE DEF g, f
<1>8. EndOf(g) = EndOf(f) + 1 /\ EndOf(f) \in Nat /\ EndOf(g) <= Len(st2)
  <2>1. EndOf(g) = EndOf(f) + 1 /\ EndOf(f) \in Nat
    <3>1. Len(g.locals) = Len(f.locals) + 1 /\ g.slots = f.slots
      BY <1>4, <1>5
    <3>2. EndOf(g) = g.slots + Len(g.locals)
      BY DEF EndOf
    <3> QED
      BY <1>2, <3>1, <3>2
  <2> QED
    BY <2>1 DEF f
<1>9. Holds(st, f)
  BY <1>1, Zenon DEF Framed, Laid, Holds, f
<1>10. ASSUME NEW j \in 1 .. Len(g.locals)
       PROVE  st2[g.slots + j] = g.locals[j]
  <2>1. CASE j \in 1 .. Len(f.locals)
    <3>1. f.slots + j \in 1 .. EndOf(f)
      BY <1>2, <2>1
    <3> QED
      BY <1>4, <1>5, <1>9, <2>1, <3>1, Zenon DEF Holds, Below, f
  <2>2. CASE j = Len(f.locals) + 1
    <3>1. f.slots + j = EndOf(f) + 1
      BY <1>2, <2>2
    <3> QED
      BY <1>4, <1>5, <2>2, <3>1 DEF f
  <2> QED
    BY <1>2, <1>4, <2>1, <2>2
<1>11. Below(st2, st, g.slots)
  <2>1. \A p \in 1 .. g.slots : p \in 1 .. EndOf(f)
    BY <1>2, <1>5
  <2> QED
    BY <2>1 DEF Below, f
<1>12. Framed([fs EXCEPT ![N] = g], st2)
  <2>1. /\ g.m = fs[Len(fs)].m /\ g.slots = fs[Len(fs)].slots /\ g.via = fs[Len(fs)].via
        /\ g.locals[1] = fs[Len(fs)].locals[1]
    BY <1>5 DEF f
  <2> QED
    <3>1. Holds(st2, g)
      BY <1>10 DEF Holds
    <3> QED
      BY <1>7, <1>8, <1>11, <2>1, <3>1, FramedTop, Zenon
<1>13. Len([fs EXCEPT ![N] = g]) = N /\ [fs EXCEPT ![N] = g][N] = g
  BY <1>1, ExceptFacts
<1> QED
  BY <1>6, <1>8, <1>12, <1>13 DEF f

\* A call that is over, its result on the caller's stack, keeps the invariant.
LEMMA FinishedKeeps ==
  ASSUME NEW fs, NEW st, NEW v,
         body \in Worlds, body' = body, Framed(fs, st), Len(fs) > 0, v.k \in Kinds,
         OfValues(stack'), Len(stack') >= EndOf(fs[Len(fs)]) + 1,
         stack'[EndOf(fs[Len(fs)]) + 1] = v,
         Below(stack', st, EndOf(fs[Len(fs)])),
         frames' = Finished(fs, v), callPc' = "run",
         tidy' \in BOOLEAN, gcProtected' \in Nat,
         tidy' => gcProtected' = 0 /\ Len(stack') = EndOf(fs[Len(fs)]) + 1
  PROVE  CallsIInv'
<1>1. /\ Framed(frames', stack') /\ Len(frames') = Len(fs)
      /\ EndOf(frames'[Len(frames')]) = EndOf(fs[Len(fs)]) + 1
  BY FramedFinished, Zenon
<1> QED
  BY <1>1, Goes
------------------------------------------------------------------------------
(* Binding arguments to parameters *)

\* The arguments of a call, cut from the stack.
LEMMA SubFacts ==
  ASSUME NEW s, IsSeq(s), NEW a \in Nat, NEW b \in Nat, 1 <= a, b <= Len(s), a <= b + 1
  PROVE  /\ IsSeq(SubSeq(s, a, b)) /\ Len(SubSeq(s, a, b)) = b - a + 1
         /\ \A i \in 1 .. b - a + 1 : SubSeq(s, a, b)[i] = s[a + i - 1]
<1> DEFINE A == {s[i] : i \in DOMAIN s}
<1>1. s \in Seq(A)
  BY DEF IsSeq
<1> HIDE DEF A
<1>2. Len(s) \in Nat
  BY <1>1
<1>3. /\ SubSeq(s, a, b) \in Seq(A) /\ Len(SubSeq(s, a, b)) = b - a + 1
      /\ \A i \in 1 .. b - a + 1 : SubSeq(s, a, b)[i] = s[a + i - 1]
  BY <1>1, <1>2
<1> QED
  BY <1>3, SeqOver, Zenon

\* The list of the arguments from number k on is the same, taken from the
\* arguments or from the stack on which they end.
LEMMA RestOfArgs ==
  ASSUME NEW st, IsSeq(st), NEW n \in Nat, NEW k \in Nat, 1 <= k, k <= n + 1, n <= Len(st)
  PROVE  SubSeq(SubSeq(st, Len(st) - n + 1, Len(st)), k, n) = SubSeq(st, Len(st) - n + k, Len(st))
<1> DEFINE N == Len(st)
           args == SubSeq(st, N - n + 1, N)
           l1 == SubSeq(args, k, n)
           l2 == SubSeq(st, N - n + k, N)
<1>1. N \in Nat
  BY SeqFacts
<1>2. N - n + 1 \in Nat /\ 1 <= N - n + 1 /\ N - n + 1 <= N + 1 /\ N - (N - n + 1) + 1 = n
      /\ N - n + k \in Nat /\ 1 <= N - n + k /\ N - n + k <= N + 1 /\ N - (N - n + k) + 1 = n - k + 1
  BY <1>1
<1>3. IsSeq(args) /\ Len(args) = n /\ \A i \in 1 .. n : args[i] = st[N - n + 1 + i - 1]
  <2> DEFINE a == N - n + 1
  <2>1. a \in Nat /\ 1 <= a /\ a <= N + 1 /\ N - a + 1 = n /\ N \in Nat /\ N <= Len(st)
    BY <1>1, <1>2
  <2> HIDE DEF a
  <2>2. /\ IsSeq(SubSeq(st, a, N)) /\ Len(SubSeq(st, a, N)) = N - a + 1
        /\ \A i \in 1 .. N - a + 1 : SubSeq(st, a, N)[i] = st[a + i - 1]
    BY ZenonT(60), <2>1, SubFacts
  <2> QED
    BY <2>1, <2>2, Zenon DEF a
<1>4. IsSeq(l2) /\ Len(l2) = n - k + 1 /\ \A i \in 1 .. n - k + 1 : l2[i] = st[N - n + k + i - 1]
  BY <1>1, <1>2, SubFacts
<1> HIDE DEF args, l2
<1>5. IsSeq(l1) /\ Len(l1) = n - k + 1 /\ \A i \in 1 .. n - k + 1 : l1[i] = args[k + i - 1]
  <2>1. IsSeq(args) /\ n <= Len(args)
    BY <1>3
  <2> QED
    BY <2>1, SubFacts
<1> HIDE DEF l1
<1>6. ASSUME NEW i \in 1 .. n - k + 1
      PROVE  l1[i] = l2[i]
  <2>1. k + i - 1 \in 1 .. n /\ N - n + 1 + (k + i - 1) - 1 = N - n + k + i - 1
    BY <1>1
  <2>2. l1[i] = args[k + i - 1] /\ l2[i] = st[N - n + k + i - 1]
    BY <1>4, <1>5, Zenon
  <2>3. args[k + i - 1] = st[N - n + 1 + (k + i - 1) - 1]
    BY <1>3, <2>1, Zenon
  <2> QED
    BY <2>1, <2>2, <2>3, Zenon
<1>7. l1 = l2
  BY <1>4, <1>5, <1>6, SameSeq, Zenon
<1> QED
  BY <1>7 DEF l1, l2, args

\* call: what the first half makes of the stack, on which the callee's slot,
\* number e + 1, is under n arguments.
Bound1(st, bound, n, count, e) ==
  OfValues(bound) /\ Len(bound) = e + 1 + count /\ Below(bound, st, e + 1)

\* Too few arguments are filled up with nil, too many are left.
LEMMA FilledPlain ==
  ASSUME NEW st, OfValues(st), NEW n \in Nat, NEW e \in Nat, Len(st) = e + 1 + n,
         NEW f \in DOMAIN Sig, ~ Sig[f].is_variadic
  PROVE  LET bound == Filled(st, n, Sig[f])
             args == SubSeq(st, Len(st) - n + 1, Len(st))
         IN  /\ Bound1(st, bound, n, Count(n, Sig[f]), e) /\ Count(n, Sig[f]) \in Nat
             /\ Count(n, Sig[f]) = Sig[f].arity =>
                  \A j \in 1 .. Sig[f].arity : bound[e + 1 + j] = Parameters(f, args)[j]
<1> DEFINE arity == Sig[f].arity
           nils == [i \in 1 .. arity - n |-> NilValue]
           bound == Filled(st, n, Sig[f])
           args == SubSeq(st, Len(st) - n + 1, Len(st))
           count == Count(n, Sig[f])
           more == IF n < arity THEN arity - n ELSE 0
<1>1. arity \in Nat
  BY CallsAssumption
<1>2. more \in Nat /\ 1 .. arity - n = 1 .. more
  BY <1>1
<1>3. IsSeq(nils) /\ Len(nils) = more /\ \A i \in 1 .. more : nils[i] = NilValue
  <2>1. nils = [i \in 1 .. more |-> nils[i]] /\ \A i \in 1 .. more : nils[i] = NilValue
    BY <1>2
  <2> HIDE DEF nils, more
  <2> QED
    BY <1>2, <2>1, FunctionSeq
<1>4. bound = st \o nils
  BY Zenon DEF Filled
<1>5. IsSeq(st) /\ Len(st) \in Nat
  BY SeqFacts DEF OfValues, IsSeq
<1>6. OfValues(nils)
  <2>1. NilValue.k \in Kinds
    BY DEF NilValue, Plain, Kinds
  <2> HIDE DEF nils, more
  <2> QED
    BY <1>3, <2>1, ValuesFacts
<1>7. count = IF n > arity THEN n ELSE arity
  BY Zenon DEF Count
<1> HIDE DEF nils, bound, count, args
<1>8. /\ OfValues(bound) /\ Len(bound) = Len(st) + more
      /\ \A i \in 1 .. Len(st) : bound[i] = st[i]
      /\ \A i \in 1 .. more : bound[Len(st) + i] = NilValue
  <2>1. OfValues(st \o nils)
    BY <1>6, ValuesConcat
  <2>2. /\ Len(st \o nils) = Len(st) + Len(nils)
        /\ \A i \in 1 .. Len(st) : (st \o nils)[i] = st[i]
        /\ \A i \in 1 .. Len(nils) : (st \o nils)[Len(st) + i] = nils[i]
    <3>1. IsSeq(st) /\ IsSeq(nils)
      BY <1>3, <1>5
    <3> QED
      BY <3>1, ConcatFacts
  <2> HIDE DEF more
  <2>3. Len(nils) = more
    BY <1>3
  <2>4. \A i \in 1 .. more : (st \o nils)[Len(st) + i] = NilValue
    BY <1>3, <2>2, <2>3
  <2> QED
    BY <1>4, <2>1, <2>2, <2>3, <2>4
<1>9. count \in Nat /\ e + 1 + n + more = e + 1 + count
  BY <1>1, <1>7
<1>10. Bound1(st, bound, n, count, e)
  <2>1. \A p \in 1 .. e + 1 : p \in 1 .. Len(st)
    OBVIOUS
  <2>2. Len(bound) = e + 1 + count
    BY <1>8, <1>9
  <2> QED
    BY <1>8, <2>1, <2>2 DEF Bound1, Below
<1>11. ASSUME count = arity, NEW j \in 1 .. arity
       PROVE  bound[e + 1 + j] = Parameters(f, args)[j]
  <2>1. n <= arity
    BY <1>1, <1>7, <1>11
  <2>2. Len(args) = n /\ \A i \in 1 .. n : args[i] = st[e + 1 + i]
    <3>1. /\ Len(st) - n + 1 \in Nat /\ 1 <= Len(st) - n + 1 /\ Len(st) - n + 1 <= Len(st) + 1
          /\ Len(st) - (Len(st) - n + 1) + 1 = n /\ Len(st) - n + 1 = e + 2
      OBVIOUS
    <3>2. Len(args) = n /\ \A i \in 1 .. n : args[i] = st[Len(st) - n + 1 + i - 1]
      BY <1>5, <3>1, SubFacts DEF args
    <3>3. \A i \in 1 .. n : Len(st) - n + 1 + i - 1 = e + 1 + i
      OBVIOUS
    <3> QED
      BY <3>2, <3>3
  <2>3. Parameters(f, args)[j] = IF j <= n THEN args[j] ELSE NilValue
    BY <2>2 DEF Parameters
  <2>4. CASE j <= n
    <3>1. j \in 1 .. n /\ e + 1 + j \in 1 .. Len(st)
      BY <1>1, <2>4
    <3> QED
      BY <1>8, <2>2, <2>3, <2>4, <3>1
  <2>5. CASE ~ (j <= n)
    <3>1. j - n \in 1 .. more /\ Len(st) + (j - n) = e + 1 + j
      BY <1>1, <2>1, <2>5
    <3> QED
      BY <1>8, <2>3, <2>5, <3>1
  <2> QED
    BY <2>4, <2>5
<1> QED
  BY <1>9, <1>10, <1>11 DEF bound, count, args

\* The arguments for ... become a list; with too few for the parameters before
\* it nothing is done.
LEMMA FilledRest ==
  ASSUME NEW st, OfValues(st), NEW n \in Nat, NEW e \in Nat, Len(st) = e + 1 + n,
         NEW f \in DOMAIN Sig, Sig[f].is_variadic
  PROVE  LET bound == Filled(st, n, Sig[f])
             args == SubSeq(st, Len(st) - n + 1, Len(st))
         IN  /\ Bound1(st, bound, n, Count(n, Sig[f]), e) /\ Count(n, Sig[f]) \in Nat
             /\ Count(n, Sig[f]) = Sig[f].arity =>
                  \A j \in 1 .. Sig[f].arity : bound[e + 1 + j] = Parameters(f, args)[j]
<1> DEFINE arity == Sig[f].arity
           bound == Filled(st, n, Sig[f])
           args == SubSeq(st, Len(st) - n + 1, Len(st))
           count == Count(n, Sig[f])
<1>1. arity \in Nat /\ arity > 0
  BY CallsAssumption
<1>2. IsSeq(st) /\ Len(st) \in Nat
  BY SeqFacts DEF OfValues, IsSeq
<1>3. count = IF n < arity - 1 THEN n ELSE arity
  BY Zenon DEF Count
<1>4. CASE n < arity - 1
  <2>1. bound = st /\ count = n /\ count # arity
    <3>1. ~ (n >= arity - 1)
      BY <1>1, <1>4
    <3> QED
      BY <1>1, <1>3, <1>4, <3>1 DEF Filled
  <2> HIDE DEF bound, count
  <2>2. Bound1(st, bound, n, count, e)
    BY <2>1, Zenon DEF Bound1, Below
  <2> QED
    BY <2>1, <2>2 DEF bound, count
<1>5. CASE ~ (n < arity - 1)
  <2> DEFINE kept == Keep(st, Len(st) - (n - arity + 1))
             l == SubSeq(st, Len(st) - (n - arity), Len(st))
  <2>1. n >= arity - 1 /\ count = arity
    BY <1>1, <1>3, <1>5
  <2>2. bound = Append(kept, List(l))
    BY <2>1 DEF Filled, Packed, PopN
  <2>3. Len(st) - (n - arity + 1) = e + arity /\ e + arity \in 0 .. Len(st)
    BY <1>1, <2>1
  <2>4. /\ OfValues(kept) /\ IsSeq(kept) /\ Len(kept) = e + arity
        /\ \A i \in 1 .. e + arity : kept[i] = st[i]
    BY <1>2, <2>3, KeepFacts, ValuesKeep
  <2>5. List(l).k \in Kinds
    BY DEF List, Kinds
  <2> HIDE DEF kept, bound, count, l
  <2>6. /\ OfValues(bound) /\ Len(bound) = e + arity + 1
        /\ bound[e + arity + 1] = List(l)
        /\ \A i \in 1 .. e + arity : bound[i] = st[i]
    <3>1. OfValues(bound)
      BY <2>2, <2>4, <2>5, ValuesAppend
    <3>2. /\ Len(bound) = Len(kept) + 1 /\ bound[Len(kept) + 1] = List(l)
          /\ \A i \in 1 .. Len(kept) : bound[i] = kept[i]
      BY <2>2, <2>4, AppendFacts
    <3> QED
      BY <2>4, <3>1, <3>2
  <2>7. Bound1(st, bound, n, count, e)
    <3>1. \A p \in 1 .. e + 1 : p \in 1 .. e + arity
      BY <1>1
    <3>2. Len(bound) = e + 1 + count
      BY <1>1, <2>1, <2>6
    <3> QED
      BY <2>6, <3>1, <3>2 DEF Bound1, Below
  <2>8. IsSeq(args) /\ Len(args) = n /\ \A i \in 1 .. n : args[i] = st[e + 1 + i]
    <3>1. /\ Len(st) - n + 1 \in Nat /\ 1 <= Len(st) - n + 1 /\ Len(st) - n + 1 <= Len(st) + 1
          /\ Len(st) - (Len(st) - n + 1) + 1 = n
      OBVIOUS
    <3>2. /\ IsSeq(args) /\ Len(args) = n
          /\ \A i \in 1 .. n : args[i] = st[Len(st) - n + 1 + i - 1]
      BY <1>2, <3>1, SubFacts
    <3>3. \A i \in 1 .. n : Len(st) - n + 1 + i - 1 = e + 1 + i
      OBVIOUS
    <3> HIDE DEF args
    <3> QED
      BY <3>2, <3>3
  <2>9. SubSeq(args, arity, Len(args)) = l
    <3>1. 1 <= arity /\ arity <= n + 1 /\ n <= Len(st) /\ Len(st) - n + arity = Len(st) - (n - arity)
      BY <1>1, <2>1
    <3>2. SubSeq(args, arity, n) = SubSeq(st, Len(st) - n + arity, Len(st))
      BY <1>1, <1>2, <3>1, RestOfArgs, Zenon
    <3> QED
      BY <2>8, <3>1, <3>2, Zenon DEF l
  <2> HIDE DEF args
  <2>10. ASSUME NEW j \in 1 .. arity
         PROVE  bound[e + 1 + j] = Parameters(f, args)[j]
    <3>1. CASE j = arity
      <4>1. Parameters(f, args)[j] = List(SubSeq(args, arity, Len(args)))
        BY <3>1 DEF Parameters
      <4>2. e + 1 + j = e + arity + 1
        BY <1>1, <3>1
      <4> QED
        BY <2>6, <2>9, <4>1, <4>2
    <3>2. CASE j # arity
      <4>1. j <= n /\ j \in 1 .. n /\ e + 1 + j \in 1 .. e + arity
        BY <1>1, <2>1, <3>2
      <4>2. j <= Len(args)
        BY <2>8, <4>1
      <4>3. Parameters(f, args)[j] = args[j]
        BY <3>2, <4>2 DEF Parameters
      <4> QED
        BY <2>6, <2>8, <4>1, <4>3
    <3> QED
      BY <3>1, <3>2
  <2> QED
    BY <1>1, <2>1, <2>7, <2>10, Zenon DEF bound, count, args
<1> QED
  BY <1>4, <1>5

\* Whatever the signature, call binds its parameters to what Parameters says.
LEMMA FilledBinds ==
  ASSUME NEW st, OfValues(st), NEW n \in Nat, NEW e \in Nat, Len(st) = e + 1 + n,
         NEW f \in DOMAIN Sig
  PROVE  LET bound == Filled(st, n, Sig[f])
             args == SubSeq(st, Len(st) - n + 1, Len(st))
         IN  /\ Bound1(st, bound, n, Count(n, Sig[f]), e) /\ Count(n, Sig[f]) \in Nat
             /\ Count(n, Sig[f]) = Sig[f].arity =>
                  \A j \in 1 .. Sig[f].arity : bound[e + 1 + j] = Parameters(f, args)[j]
BY ZenonT(60), FilledPlain, FilledRest
------------------------------------------------------------------------------
(* The kinds of calls *)

\* A call begins: the callee's slot and n arguments are on the stack st, above
\* the variables of the caller.
Ready(fs, st, n) ==
  /\ body \in Worlds /\ callPc = "run" /\ tidy = TRUE /\ gcProtected = 0
  /\ Framed(fs, st) /\ Len(fs) > 0
  /\ n \in Nat /\ Len(st) = EndOf(fs[Len(fs)]) + 1 + n

\* The value of the callee's slot, which becomes self.
Fits(fs, m, via, self) ==
  /\ Origin(m, via, self, fs[Len(fs)])
  /\ m.owner \in Classes \cup {0}
  /\ self.k \in {"instance", "class"} => self.c \in Classes

\* The numbers of a stack on which a call is about to begin.
LEMMA ReadyFacts ==
  ASSUME NEW fs, NEW st, NEW n, Ready(fs, st, n)
  PROVE  /\ EndOf(fs[Len(fs)]) \in Nat /\ n \in Nat /\ Len(st) = EndOf(fs[Len(fs)]) + 1 + n
         /\ Len(st) - n = EndOf(fs[Len(fs)]) + 1 /\ Len(st) \in Nat
         /\ IsSeq(st) /\ OfValues(st) /\ DOMAIN st = 1 .. Len(st)
         /\ IsSeq(fs) /\ Len(fs) \in Nat /\ IsFrame(fs[Len(fs)])
<1>1. Len(fs) \in Nat /\ Len(fs) > 0 /\ n \in Nat /\ Len(st) = EndOf(fs[Len(fs)]) + 1 + n
  BY FramedNumbers DEF Ready
<1>2. Len(fs) \in 1 .. Len(fs)
  BY <1>1
<1>3. IsFrame(fs[Len(fs)]) /\ IsSeq(fs) /\ IsSeq(st) /\ DOMAIN st = 1 .. Len(st)
  BY <1>2, FramedNumbers DEF Ready
<1>4. EndOf(fs[Len(fs)]) \in Nat
  BY <1>3, FrameNumbers
<1>5. OfValues(st)
  BY DEF Ready, Framed
<1> QED
  BY <1>1, <1>3, <1>4, <1>5

\* Another value in the callee's slot.
LEMMA ReadyExcept ==
  ASSUME NEW fs, NEW st, NEW n, Ready(fs, st, n), NEW v, v.k \in Kinds
  PROVE  /\ Ready(fs, [st EXCEPT ![Len(st) - n] = v], n)
         /\ Len([st EXCEPT ![Len(st) - n] = v]) = Len(st)
         /\ [st EXCEPT ![Len(st) - n] = v][Len(st) - n] = v
<1> DEFINE e == EndOf(fs[Len(fs)])
           st2 == [st EXCEPT ![Len(st) - n] = v]
<1>1. /\ e \in Nat /\ n \in Nat /\ Len(st) = e + 1 + n /\ Len(st) - n = e + 1
      /\ IsSeq(st) /\ OfValues(st) /\ Len(st) \in Nat /\ DOMAIN st = 1 .. Len(st)
  BY ReadyFacts
<1>2. e + 1 \in 1 .. Len(st)
  BY <1>1
<1>3. st2 = [st EXCEPT ![e + 1] = v]
  BY <1>1, Zenon
<1>4. /\ Len(st2) = Len(st) /\ OfValues(st2)
      /\ \A i \in 1 .. Len(st) : st2[i] = IF i = e + 1 THEN v ELSE st[i]
  BY <1>1, <1>2, <1>3, ExceptFacts, ValuesExcept, Zenon
<1> HIDE DEF st2
<1>5. \A p \in 1 .. e : p \in 1 .. Len(st) /\ p # e + 1
  BY <1>1
<1>6. Below(st2, st, e)
  BY <1>4, <1>5 DEF Below
<1>7. e <= Len(st2)
  BY <1>1, <1>4
<1>8. Framed(fs, st2)
  BY <1>4, <1>6, <1>7, FramedOn DEF Ready
<1>9. Ready(fs, st2, n)
  BY <1>1, <1>4, <1>8 DEF Ready
<1> QED
  BY <1>1, <1>2, <1>4, <1>9 DEF st2

\* An error found before the arguments are popped.
LEMMA RefuseKeeps ==
  ASSUME NEW fs, NEW st, NEW n, Ready(fs, st, n), body' = body, Refuse(fs, st, n)
  PROVE  CallsIInv'
<1>1. /\ EndOf(fs[Len(fs)]) \in Nat /\ n \in Nat /\ Len(st) = EndOf(fs[Len(fs)]) + 1 + n
  BY ReadyFacts
<1>2. (n = 0) \in BOOLEAN /\ Throw(fs, st, n = 0) /\ gcProtected' = 0
  BY DEF Refuse, Ready
<1>3. Len(st) >= EndOf(fs[Len(fs)]) + 1 /\ ((n = 0) => Len(st) = EndOf(fs[Len(fs)]) + 1)
  BY <1>1
<1>4. body \in Worlds /\ tidy \in BOOLEAN /\ Framed(fs, st) /\ Len(fs) > 0
  BY DEF Ready
<1>5. CASE n = 0
  <2>1. Throw(fs, st, TRUE)
    BY <1>2, <1>5, Zenon DEF Throw
  <2> QED
    BY <1>2, <1>3, <1>4, <1>5, <2>1, ThrowKeeps, Zenon
<1>6. CASE n # 0
  <2>1. Throw(fs, st, FALSE)
    BY <1>2, <1>6, Zenon DEF Throw
  <2> QED
    BY <1>2, <1>3, <1>4, <2>1, ThrowKeeps, Zenon
<1> QED
  BY <1>5, <1>6

\* The variables of a function that starts: the callee's slot and the
\* parameters, as the first half of call has put them on the stack.
LEMMA NewLocals ==
  ASSUME NEW st, OfValues(st), NEW n \in Nat, NEW e \in Nat, Len(st) = e + 1 + n,
         NEW f \in DOMAIN Sig, Count(n, Sig[f]) = Sig[f].arity
  PROVE  LET bound == Filled(st, n, Sig[f])
             l == <<st[Len(st) - n]>> \o Parameters(f, SubSeq(st, Len(st) - n + 1, Len(st)))
         IN  /\ OfValues(l) /\ Len(l) = 1 + Sig[f].arity /\ l[1] = st[Len(st) - n]
             /\ \A j \in 1 .. Len(l) : bound[e + j] = l[j]
<1> DEFINE arity == Sig[f].arity
           bound == Filled(st, n, Sig[f])
           P == Parameters(f, SubSeq(st, Len(st) - n + 1, Len(st)))
           self == st[Len(st) - n]
           l == <<self>> \o P
<1>1. arity \in Nat
  BY CallsAssumption
<1>2. /\ OfValues(bound) /\ Len(bound) = e + 1 + arity /\ Below(bound, st, e + 1)
      /\ \A j \in 1 .. arity : bound[e + 1 + j] = P[j]
  <2>1. /\ Bound1(st, bound, n, Count(n, Sig[f]), e)
        /\ \A j \in 1 .. arity : bound[e + 1 + j] = P[j]
    BY FilledBinds, Zenon
  <2> HIDE DEF bound, P
  <2> QED
    BY <2>1 DEF Bound1
<1>3. IsSeq(P) /\ Len(P) = arity
  <2>1. P = [i \in 1 .. arity |-> P[i]]
    BY DEF Parameters
  <2> HIDE DEF P
  <2> QED
    BY <1>1, <2>1, FunctionSeq
<1>4. /\ IsSeq(<<self>>) /\ Len(<<self>>) = 1 /\ <<self>>[1] = self
  <2>1. <<self>> \in Seq({self})
    OBVIOUS
  <2> QED
    BY <2>1, SeqOver, Zenon
<1>5. Len(st) - n = e + 1 /\ e + 1 \in 1 .. e + 1
  OBVIOUS
<1>6. self = bound[e + 1]
  BY <1>2, <1>5 DEF Below
<1> HIDE DEF P, bound, self
<1>7. /\ IsSeq(l) /\ Len(l) = 1 + arity /\ l[1] = self
      /\ \A j \in 1 .. arity : l[1 + j] = P[j]
  <2>1. /\ IsSeq(l) /\ Len(l) = Len(<<self>>) + Len(P)
        /\ \A i \in 1 .. Len(<<self>>) : l[i] = <<self>>[i]
        /\ \A i \in 1 .. Len(P) : l[Len(<<self>>) + i] = P[i]
    <3>1. IsSeq(P) /\ IsSeq(<<self>>)
      BY <1>3, <1>4
    <3> QED
      BY <3>1, ConcatFacts
  <2> HIDE DEF l
  <2>2. 1 \in 1 .. Len(<<self>>)
    BY <1>4
  <2> QED
    BY <1>3, <1>4, <2>1, <2>2
<1> HIDE DEF l
<1>8. ASSUME NEW j \in 1 .. Len(l)
      PROVE  bound[e + j] = l[j] /\ e + j \in 1 .. Len(bound)
  <2>1. e + j \in 1 .. Len(bound)
    BY <1>1, <1>2, <1>7
  <2>2. CASE j = 1
    BY <1>6, <1>7, <2>1, <2>2, Zenon
  <2>3. CASE j # 1
    <3>1. j - 1 \in 1 .. arity /\ 1 + (j - 1) = j /\ e + 1 + (j - 1) = e + j
      BY <1>1, <1>7, <2>3
    <3> QED
      BY <1>2, <1>7, <2>1, <3>1, Zenon
  <2> QED
    BY <2>2, <2>3
<1>9. OfValues(l)
  <2>1. \A i \in 1 .. Len(bound) : bound[i].k \in Kinds
    BY <1>2, ValuesFacts
  <2>2. \A j \in 1 .. Len(l) : l[j].k \in Kinds
    BY <1>8, <2>1
  <2> QED
    BY <1>7, <2>2, ValuesFacts
<1> QED
  BY <1>7, <1>8, <1>9 DEF l, bound, P, self

\* call
LEMMA CallKeeps ==
  ASSUME NEW fs, NEW st, NEW n, NEW m, NEW via, Ready(fs, st, n),
         Fits(fs, m, via, st[Len(st) - n]), body' = body, Call(fs, st, m, n, via)
  PROVE  CallsIInv'
<1> DEFINE e == EndOf(fs[Len(fs)])
           sig == Sig[m.name]
           bound == Filled(st, n, sig)
           count == Count(n, sig)
           args == SubSeq(st, Len(st) - n + 1, Len(st))
           l == <<st[Len(st) - n]>> \o Parameters(m.name, args)
           f == [m |-> m, slots |-> Len(bound) - count - 1, try |-> FALSE, via |-> via, locals |-> l]
<1>1. /\ e \in Nat /\ n \in Nat /\ Len(st) = e + 1 + n /\ Len(st) - n = e + 1
      /\ IsSeq(st) /\ OfValues(st) /\ Len(st) \in Nat /\ IsSeq(fs) /\ Len(fs) \in Nat
  BY ReadyFacts
<1>2. m.name \in DOMAIN Sig
  BY ZenonT(60) DEF Fits, Origin
<1>3. Bound1(st, bound, n, count, e) /\ count \in Nat
  BY <1>1, <1>2, FilledBinds
<1>4. OfValues(bound) /\ Len(bound) = e + 1 + count /\ Below(bound, st, e + 1)
  BY <1>3, Zenon DEF Bound1
<1>5. Below(bound, st, e)
  BY <1>1, <1>4 DEF Below
<1>6. gcProtected' = 0 /\ body \in Worlds /\ Framed(fs, st) /\ Len(fs) > 0
  BY DEF Call, Ready
<1>7. CASE count # sig.arity \/ ~ FrameLeft(fs)
  <2>1. Throw(fs, PopN(bound, count), TRUE)
    BY <1>7, Zenon DEF Call
  <2> DEFINE st2 == PopN(bound, count)
  <2> HIDE DEF bound, count
  <2>2. Len(bound) - count = e + 1 /\ e + 1 \in 0 .. Len(bound) /\ IsSeq(bound)
    BY <1>1, <1>3, <1>4, ValuesFacts
  <2>3. /\ OfValues(st2) /\ Len(st2) = e + 1 /\ \A i \in 1 .. e + 1 : st2[i] = bound[i]
    BY <1>4, <2>2, KeepFacts, ValuesKeep DEF PopN
  <2> HIDE DEF st2
  <2>4. Below(st2, st, e)
    BY <1>1, <1>5, <2>3 DEF Below
  <2>5. Framed(fs, st2)
    BY <1>1, <1>6, <2>3, <2>4, FramedOn
  <2>6. tidy \in BOOLEAN
    BY DEF Ready
  <2>7. Throw(fs, st2, TRUE)
    BY <2>1, Zenon DEF st2
  <2>8. Len(st2) >= e + 1 /\ Len(st2) = e + 1 /\ gcProtected' \in Nat
    BY <1>1, <1>6, <2>3
  <2> QED
    BY <1>6, <2>5, <2>6, <2>7, <2>8, ThrowKeeps, Zenon
<1>8. CASE ~ (count # sig.arity \/ ~ FrameLeft(fs))
  <2>1. count = sig.arity /\ Len(fs) # MaxFrames
    BY <1>8 DEF FrameLeft
  <2>2. /\ stack' = bound /\ frames' = Append(fs, f)
        /\ callPc' = callPc /\ tidy' = tidy
    BY <1>8 DEF Call
  <2>3. /\ OfValues(l) /\ Len(l) = 1 + count /\ l[1] = st[Len(st) - n]
        /\ \A j \in 1 .. Len(l) : bound[e + j] = l[j]
    <3>0. OfValues(st) /\ n \in Nat /\ e \in Nat /\ Len(st) = e + 1 + n
      BY <1>1
    <3> HIDE DEF e
    <3>1. /\ OfValues(l) /\ Len(l) = 1 + sig.arity /\ l[1] = st[Len(st) - n]
          /\ \A j \in 1 .. Len(l) : bound[e + j] = l[j]
      BY ZenonT(60), <1>2, <2>1, <3>0, NewLocals
    <3> HIDE DEF l, bound, count
    <3> QED
      BY <2>1, <3>1
  <2>4. Len(bound) - count - 1 = e
    BY <1>1, <1>3, <1>4
  <2>5. /\ f = [m |-> f.m, slots |-> f.slots, try |-> f.try, via |-> f.via, locals |-> f.locals]
        /\ f.m = m /\ f.slots = e /\ f.try \in BOOLEAN /\ f.via = via /\ f.locals = l
    BY <2>4, Zenon
  <2> HIDE DEF f, l, bound, count, sig
  <2>6. IsFrame(f)
    BY <1>1, <1>3, <2>3, <2>5 DEF IsFrame, Fits
  <2>7. Origin(f.m, f.via, f.locals[1], fs[Len(fs)])
    BY <2>3, <2>5, Zenon DEF Fits
  <2>8. EndOf(f) = e + 1 + count /\ EndOf(f) <= Len(bound) /\ EndOf(f) \in Nat
    <3>1. EndOf(f) = e + (1 + count)
      BY <2>3, <2>5 DEF EndOf
    <3> QED
      BY <1>1, <1>3, <1>4, <3>1
  <2>9. Holds(bound, f)
    BY <2>3, <2>5, Zenon DEF Holds
  <2>10. Len(fs) < MaxFrames
    BY <1>1, <1>6, <2>1, CallsAssumption DEF Framed
  <2>11. Below(bound, st, f.slots)
    BY <1>5, <2>5, Zenon
  <2>12. /\ Framed(Append(fs, f), bound) /\ Len(Append(fs, f)) = Len(fs) + 1
         /\ Append(fs, f)[Len(fs) + 1] = f
    BY <1>4, <1>6, <2>5, <2>6, <2>7, <2>8, <2>9, <2>10, <2>11, FramedPush, Zenon
  <2>13. callPc' = "run" /\ tidy' = TRUE
    BY <2>2, Zenon DEF Ready
  <2>14. /\ Framed(frames', stack') /\ Len(frames') > 0
         /\ Len(stack') = EndOf(frames'[Len(frames')])
    BY <1>1, <1>4, <2>2, <2>8, <2>12
  <2> QED
    BY <1>6, <2>13, <2>14, Goes
<1> QED
  BY <1>7, <1>8

\* call_native_method: the native has set the callee's slot to v and pushed p
\* objects it protects, then k values are popped.
LEMMA NativeLeaves ==
  ASSUME NEW fs, NEW st, NEW n, Ready(fs, st, n), NEW v, v.k \in Kinds,
         NEW p \in Nat, NEW k, k = n \/ k = p + n,
         NEW st2,
         st2 = PopN([st EXCEPT ![Len(st) - n] = v] \o [i \in 1 .. p |-> Protected], k)
  PROVE  /\ OfValues(st2) /\ Framed(fs, st2)
         /\ Len(st2) = EndOf(fs[Len(fs)]) + 1 + (p + n - k)
         /\ st2[EndOf(fs[Len(fs)]) + 1] = v
<1> DEFINE e == EndOf(fs[Len(fs)])
           base == [st EXCEPT ![Len(st) - n] = v]
           objects == [i \in 1 .. p |-> Protected]
           called == base \o objects
           N == e + 1 + (p + n - k)
<1>1. /\ e \in Nat /\ n \in Nat /\ Len(st) = e + 1 + n /\ Len(st) - n = e + 1
  BY ReadyFacts
<1>2. Ready(fs, base, n) /\ Len(base) = e + 1 + n /\ base[e + 1] = v
  <2>1. Ready(fs, base, n) /\ Len(base) = Len(st) /\ base[Len(st) - n] = v
    BY ReadyExcept
  <2> HIDE DEF base
  <2> QED
    BY <1>1, <2>1
<1>3. IsSeq(objects) /\ Len(objects) = p /\ \A i \in 1 .. p : objects[i] = Protected
  <2>1. objects = [i \in 1 .. p |-> objects[i]] /\ \A i \in 1 .. p : objects[i] = Protected
    OBVIOUS
  <2> HIDE DEF objects
  <2> QED
    BY <2>1, FunctionSeq
<1> HIDE DEF objects, base
<1>4. OfValues(objects)
  <2>1. Protected.k \in Kinds
    BY DEF Protected, Plain, Kinds
  <2> QED
    BY <1>3, <2>1, ValuesFacts
<1>5. IsSeq(base) /\ OfValues(base) /\ Framed(fs, base) /\ Len(fs) > 0
  BY <1>2, ReadyFacts DEF Ready
<1>6. OfValues(called)
  BY <1>4, <1>5, ValuesConcat, Zenon
<1>7. /\ IsSeq(called) /\ Len(called) = Len(base) + Len(objects)
      /\ \A i \in 1 .. Len(base) : called[i] = base[i]
  BY <1>3, <1>5, ConcatFacts, Zenon
<1>16. st2 = PopN(called, k)
  BY DEF called, base, objects
<1> HIDE DEF called
<1>8. Len(called) - k = N /\ N \in 0 .. Len(called) /\ N >= e + 1 /\ Len(base) >= e + 1
  <2>1. Len(called) = e + 1 + n + p /\ Len(base) = e + 1 + n
    BY <1>2, <1>3, <1>7
  <2>2. e \in Nat /\ n \in Nat
    BY <1>1
  <2> HIDE DEF e
  <2>3. CASE k = n
    BY <2>1, <2>2, <2>3
  <2>4. CASE k = p + n
    BY <2>1, <2>2, <2>4
  <2> QED
    BY <2>3, <2>4
<1>9. /\ OfValues(st2) /\ Len(st2) = N /\ \A i \in 1 .. N : st2[i] = called[i]
  BY <1>6, <1>7, <1>8, <1>16, KeepFacts, ValuesKeep, Zenon DEF PopN
<1>10. \A i \in 1 .. e + 1 : i \in 1 .. N /\ i \in 1 .. Len(base)
  BY <1>1, <1>2, <1>8
<1>11. \A i \in 1 .. e + 1 : st2[i] = base[i]
  BY <1>7, <1>9, <1>10, Zenon
<1>12. e + 1 \in 1 .. e + 1 /\ e <= N /\ \A i \in 1 .. e : i \in 1 .. e + 1
  BY <1>1, <1>8
<1>13. st2[e + 1] = v
  BY <1>2, <1>11, <1>12, Zenon
<1>14. Below(st2, base, e)
  BY ZenonT(60), <1>11, <1>12 DEF Below
<1>15. Framed(fs, st2)
  BY <1>5, <1>9, <1>12, <1>14, FramedOn
<1> QED
  BY <1>9, <1>13, <1>15

\* call_native_method
LEMMA CallNativeKeeps ==
  ASSUME NEW fs, NEW st, NEW n, NEW native \in Natives, Ready(fs, st, n),
         body' = body, CallNative(fs, st, native, n)
  PROVE  CallsIInv'
<1> DEFINE p == native.protects
           e == EndOf(fs[Len(fs)])
           called(v) == [st EXCEPT ![Len(st) - n] = v] \o [i \in 1 .. p |-> Protected]
<1>1. p \in Nat /\ native.fails \in BOOLEAN
  BY CallsAssumption
<1>2. /\ body \in Worlds /\ callPc = "run" /\ tidy \in BOOLEAN /\ gcProtected = 0
      /\ Framed(fs, st) /\ Len(fs) > 0 /\ n \in Nat /\ e \in Nat /\ gcProtected + p = p
  <2>1. /\ body \in Worlds /\ callPc = "run" /\ tidy \in BOOLEAN /\ gcProtected = 0
        /\ Framed(fs, st) /\ Len(fs) > 0
    BY DEF Ready
  <2>2. n \in Nat /\ e \in Nat
    BY ReadyFacts
  <2> HIDE DEF p, e
  <2> QED
    BY <1>1, <2>1, <2>2
<1>3. CASE native.fails
  <2> DEFINE st2 == PopN(called(False), n)
  <2>1. gcProtected' = p /\ Throw(fs, st2, p = 0)
    BY <1>2, <1>3 DEF CallNative
  <2>2. False.k \in Kinds
    BY Zenon DEF False, Plain, Kinds
  <2>3. OfValues(st2) /\ Framed(fs, st2) /\ Len(st2) = e + 1 + (p + n - n)
    <3>1. st2 = PopN([st EXCEPT ![Len(st) - n] = False] \o [i \in 1 .. p |-> Protected], n)
      OBVIOUS
    <3>2. p \in Nat
      BY <1>1
    <3> HIDE DEF st2, p
    <3> QED
      BY <2>2, <3>1, <3>2, NativeLeaves
  <2> HIDE DEF st2, e, p
  <2>4. Len(st2) >= e + 1 /\ (p = 0 => Len(st2) = e + 1)
    BY <1>1, <1>2, <2>3
  <2>5. CASE p = 0
    <3>1. Throw(fs, st2, TRUE)
      BY <2>1, <2>5, Zenon DEF Throw
    <3> QED
      BY <1>1, <1>2, <2>1, <2>3, <2>4, <2>5, <3>1, ThrowKeeps, Zenon DEF e
  <2>6. CASE p # 0
    <3>1. Throw(fs, st2, FALSE)
      BY <2>1, <2>6, Zenon DEF Throw
    <3> QED
      BY <1>1, <1>2, <2>1, <2>3, <2>4, <3>1, ThrowKeeps, Zenon DEF e
  <2> QED
    BY <2>5, <2>6
<1>4. CASE ~ native.fails
  <2> DEFINE st2 == PopN(called(NativeResult), p + n)
  <2>1. /\ stack' = st2 /\ gcProtected' = 0 /\ frames' = Finished(fs, NativeResult)
        /\ callPc' = callPc /\ tidy' = tidy
    BY <1>2, <1>4 DEF CallNative
  <2>2. NativeResult.k \in Kinds
    BY Zenon DEF NativeResult, Plain, Kinds
  <2>3. /\ OfValues(st2) /\ Framed(fs, st2) /\ Len(st2) = e + 1 + (p + n - (p + n))
        /\ st2[e + 1] = NativeResult
    <3>1. st2 = PopN([st EXCEPT ![Len(st) - n] = NativeResult]
                       \o [i \in 1 .. p |-> Protected], p + n)
      OBVIOUS
    <3>2. p \in Nat
      BY <1>1
    <3> HIDE DEF st2, p
    <3> QED
      BY <2>2, <3>1, <3>2, NativeLeaves
  <2> HIDE DEF st2, e, p
  <2>4. Len(st2) = e + 1 /\ Len(st2) >= e + 1
    BY <1>1, <1>2, <2>3
  <2>5. Below(stack', st2, e)
    BY <2>1 DEF Below
  <2> QED
    BY <1>2, <2>1, <2>2, <2>3, <2>4, <2>5, FinishedKeeps, Zenon DEF e
<1> QED
  BY <1>1, <1>3, <1>4

\* What is found under a name in the tables of a class.
LEMMA TableNamed ==
  ASSUME body \in Worlds, NEW c \in Classes, NEW kind \in {"methods", "fields"}, NEW name,
         name # "ctor", NEW m \in Named(Table(kind)[c], name)
  PROVE  /\ m.name = name /\ name \in DOMAIN Sig /\ m.owner \in Classes /\ m.owner # 0
         /\ kind = "methods" => m.owner = Nearest(c, name)
<1>1. m.name = name /\ Closest(kind, c, m)
  BY TableClosest DEF Named
<1>2. Len(body) \in Nat /\ Classes = 1 .. Len(body)
  BY Declared
<1>3. c \in Nat /\ m.owner \in 1 .. c /\ m.name \in body[m.owner][kind]
  BY <1>1, <1>2 DEF Closest
<1>4. m.owner \in Classes /\ m.owner # 0
  BY <1>2, <1>3
<1>5. name \in DOMAIN Sig
  BY <1>1, <1>3, <1>4, Declared, Zenon
<1>6. kind = "methods" => m.owner = Nearest(c, name)
  BY <1>1, <1>3, ClosestNearest
<1> QED
  BY <1>1, <1>4, <1>5, <1>6, Zenon

\* m is the method that class c has under name.
MethodOf(c, name, m) ==
  /\ m.name = name /\ name \in DOMAIN Sig /\ m.owner \in Classes /\ m.owner # 0
  /\ m.owner = Nearest(c, name)

\* A method is the one of the nearest class.
LEMMA MethodNamed ==
  ASSUME body \in Worlds, NEW c \in Classes, NEW name, name # "ctor",
         NEW m \in Named(Table("methods")[c], name)
  PROVE  MethodOf(c, name, m)
<1> DEFINE kind == "methods"
<1>1. kind \in {"methods", "fields"} /\ m \in Named(Table(kind)[c], name) /\ kind = "methods"
  OBVIOUS
<1> HIDE DEF kind
<1> QED
  BY <1>1, TableNamed DEF MethodOf

\* A field is one of the class or of a class above it.
LEMMA FieldNamed ==
  ASSUME body \in Worlds, NEW c \in Classes, NEW name, name # "ctor",
         NEW m \in Named(Table("fields")[c], name)
  PROVE  m.name = name /\ name \in DOMAIN Sig /\ m.owner \in Classes /\ m.owner # 0
<1> DEFINE kind == "fields"
<1>1. kind \in {"methods", "fields"} /\ m \in Named(Table(kind)[c], name)
  OBVIOUS
<1> HIDE DEF kind
<1> QED
  BY <1>1, TableNamed

\* A static field is one of the class itself.
LEMMA StaticNamed ==
  ASSUME body \in Worlds, NEW c \in Classes, NEW name, NEW m \in Named(Own(c, "statics"), name)
  PROVE  m.name = name /\ name \in DOMAIN Sig /\ m.owner = c /\ c # 0
<1>1. m.name = name /\ m.owner = c /\ m.name \in body[c]["statics"]
  BY OwnIs DEF Named
<1> QED
  BY <1>1, Declared

\* The constructor of a class is the nearest there is.
LEMMA InitializerIs ==
  ASSUME body \in Worlds, NEW c \in Classes, NEW m \in Initializer(c)
  PROVE  m.name = "ctor" /\ m.name \in DOMAIN Sig /\ m.owner = c /\ c # 0 /\ c = Nearest(c, "ctor")
<1>1. m.name = "ctor" /\ m.owner = c /\ m.name \in body[c]["methods"]
  BY OwnIs DEF Initializer
<1>2. m.name \in DOMAIN Sig /\ c \in Nat /\ c # 0
  BY <1>1, Declared
<1> DEFINE owners == {d \in 1 .. c : "ctor" \in body[d].methods}
<1>3. c \in owners /\ \A e \in owners : e <= c
  BY <1>1, <1>2
<1>4. \A d \in owners : (\A e \in owners : e <= d) => d = c
  BY <1>2, <1>3
<1>5. Nearest(c, "ctor") = CHOOSE d \in owners : \A e \in owners : e <= d
  BY DEF Nearest
<1> HIDE DEF owners
<1>6. Nearest(c, "ctor") \in owners /\ \A e \in owners : e <= Nearest(c, "ctor")
  BY <1>3, <1>5, Zenon
<1> QED
  BY <1>1, <1>2, <1>4, <1>6

\* call_value of a class
LEMMA ConstructKeeps ==
  ASSUME NEW fs, NEW st, NEW n, NEW c \in Classes, Ready(fs, st, n), body' = body,
         Construct(fs, st, c, n)
  PROVE  CallsIInv'
<1> DEFINE made == [st EXCEPT ![Len(st) - n] = Instance(c)]
           e == EndOf(fs[Len(fs)])
<1>1. Instance(c).k = "instance" /\ Instance(c).k \in Kinds /\ Instance(c).c = c
  BY DEF Instance, Kinds
<1>2. Ready(fs, made, n) /\ Len(made) = Len(st) /\ made[Len(made) - n] = Instance(c)
  BY <1>1, ReadyExcept
<1>3. body \in Worlds
  BY DEF Ready
<1>4. Len(body) \in Nat /\ Classes = 1 .. Len(body)
  BY <1>3, Declared
<1> HIDE DEF made
<1>5. ASSUME NEW d \in Classes, d \in {c, c - 1}, NEW m \in Initializer(d),
             Call(fs, made, m, n, "new")
      PROVE  CallsIInv'
  <2>1. m.name = "ctor" /\ m.name \in DOMAIN Sig /\ m.owner = d
    BY <1>3, InitializerIs, Zenon
  <2>2. Fits(fs, m, "new", Instance(c))
    BY <1>1, <1>5, <2>1, Zenon DEF Fits, Origin, Private
  <2> QED
    BY <1>2, <1>5, <2>2, CallKeeps
<1>6. CASE \E m \in Initializer(c) : Call(fs, made, m, n, "new")
  BY <1>5, <1>6
<1>7. CASE c # 1 /\ \E m \in Initializer(c - 1) : Call(fs, made, m, n, "new")
  <2>1. c - 1 \in Classes
    BY <1>4, <1>7
  <2> QED
    BY <1>5, <1>7, <2>1
<1>8. CASE n # 0 /\ Refuse(fs, made, n)
  BY ZenonT(60), <1>2, <1>8, RefuseKeeps
<1>9. CASE /\ n = 0 /\ stack' = made /\ frames' = Finished(fs, Instance(c))
           /\ UNCHANGED <<gcProtected, callPc, tidy>>
  <2>1. /\ e \in Nat /\ Len(made) = e + 1 /\ OfValues(made) /\ made[e + 1] = Instance(c)
    <3>1. /\ e \in Nat /\ Len(made) = e + 1 + n /\ Len(made) - n = e + 1 /\ OfValues(made)
      BY <1>2, ReadyFacts
    <3> QED
      BY <1>2, <1>9, <3>1
  <2>2. Len(made) >= e + 1 /\ Below(stack', made, e)
    BY <1>9, <2>1 DEF Below
  <2>3. /\ Framed(fs, made) /\ Len(fs) > 0 /\ callPc' = "run" /\ tidy' \in BOOLEAN
        /\ gcProtected' = 0
    BY <1>2, <1>9, Zenon DEF Ready
  <2> QED
    BY <1>1, <1>3, <1>9, <2>1, <2>2, <2>3, FinishedKeeps
<1> QED
  BY <1>6, <1>7, <1>8, <1>9, Zenon DEF Construct, made

\* A value a program can call.
IsCallee(v, via) ==
  /\ v.k = "bound" =>
       /\ v.c \in Classes /\ v.m.owner \in Classes /\ v.m.name \in DOMAIN Sig \ Private
       /\ v.m.owner = Nearest(v.c, v.m.name)
  /\ v.k = "class" => v.c \in Classes
  /\ v.k \in {"closure", "module"} =>
       /\ v.m.name \in DOMAIN Sig
       /\ v.m.owner = 0 \/ (via = "field" /\ v.m.owner \in Classes)
  /\ v.k = "native" => v.n \in Natives

\* call_value
LEMMA CallValueKeeps ==
  ASSUME NEW fs, NEW st, NEW n, NEW v, NEW via \in {"call", "field"}, Ready(fs, st, n),
         st[Len(st) - n] = v, IsCallee(v, via), body' = body, CallValue(fs, st, v, n, via)
  PROVE  CallsIInv'
<1>1. CASE v.k = "bound"
  <2> DEFINE made == [st EXCEPT ![Len(st) - n] = Instance(v.c)]
  <2>1. Call(fs, made, v.m, n, "bound")
    BY <1>1 DEF CallValue
  <2>2. Instance(v.c).k = "instance" /\ Instance(v.c).k \in Kinds /\ Instance(v.c).c = v.c
    BY DEF Instance, Kinds
  <2>3. Ready(fs, made, n) /\ Len(made) = Len(st) /\ made[Len(made) - n] = Instance(v.c)
    BY <2>2, ReadyExcept
  <2> HIDE DEF made
  <2>4. Fits(fs, v.m, "bound", Instance(v.c))
    BY <1>1, <2>2 DEF IsCallee, Fits, Origin
  <2> QED
    BY <2>1, <2>3, <2>4, CallKeeps
<1>2. CASE v.k = "class"
  <2>1. v.c \in Classes /\ Construct(fs, st, v.c, n)
    BY <1>2 DEF CallValue, IsCallee
  <2> QED
    BY <2>1, ConstructKeeps
<1>3. CASE v.k \in {"closure", "module"}
  <2>1. Call(fs, st, v.m, n, via)
    BY <1>3, Zenon DEF CallValue
  <2>2. Fits(fs, v.m, via, v)
    BY <1>3 DEF IsCallee, Fits, Origin
  <2> QED
    BY <2>1, <2>2, CallKeeps
<1>4. CASE v.k = "native"
  <2>1. v.n \in Natives /\ CallNative(fs, st, v.n, n)
    BY <1>4 DEF CallValue, IsCallee
  <2> QED
    BY <2>1, CallNativeKeeps
<1>5. CASE v.k \notin {"bound", "class", "closure", "module", "native"}
  <2>1. Refuse(fs, st, n)
    BY <1>5 DEF CallValue
  <2> QED
    BY <2>1, RefuseKeeps
<1> QED
  BY <1>1, <1>2, <1>3, <1>4, <1>5, Zenon

\* invoke_from_class
LEMMA InvokeFromClassKeeps ==
  ASSUME NEW fs, NEW st, NEW n, NEW found, NEW via, Ready(fs, st, n),
         \A m \in found : m.name \notin Private => Fits(fs, m, via, st[Len(st) - n]),
         body' = body, InvokeFromClass(fs, st, found, n, via)
  PROVE  CallsIInv'
<1>1. CASE Refuse(fs, st, n)
  BY <1>1, RefuseKeeps
<1>2. CASE \E m \in found : m.name \notin Private /\ Call(fs, st, m, n, via)
  BY <1>2, CallKeeps, Zenon
<1> QED
  BY <1>1, <1>2 DEF InvokeFromClass

\* A field, called in the place of the receiver.
LEMMA CallFieldKeeps ==
  ASSUME NEW fs, NEW st, NEW n, NEW m, Ready(fs, st, n),
         m.name \in DOMAIN Sig, m.owner \in Classes, body' = body, CallField(fs, st, m, n)
  PROVE  CallsIInv'
<1> DEFINE made == [st EXCEPT ![Len(st) - n] = Closure(m)]
<1>1. Closure(m).k = "closure" /\ Closure(m).k \in Kinds
  BY DEF Closure, Kinds
<1>2. Ready(fs, made, n) /\ Len(made) = Len(st) /\ made[Len(made) - n] = Closure(m)
  BY <1>1, ReadyExcept
<1>3. Call(fs, made, m, n, "field")
  BY Zenon DEF CallField
<1> HIDE DEF made
<1>4. Fits(fs, m, "field", Closure(m))
  BY <1>1 DEF Fits, Origin
<1> QED
  BY <1>2, <1>3, <1>4, CallKeeps, Zenon

\* A receiver; instances and classes know their class.
IsReceiver(v) == v.k \in Kinds /\ (v.k \in {"instance", "class"} => v.c \in Classes)

\* invoke
LEMMA InvokeMethodKeeps ==
  ASSUME NEW fs, NEW st, NEW n, NEW name, Ready(fs, st, n), IsReceiver(st[Len(st) - n]),
         name # "ctor", body' = body, InvokeMethod(fs, st, name, n)
  PROVE  CallsIInv'
<1> DEFINE o == Receiver(st, n)
<1>1. body \in Worlds /\ o = st[Len(st) - n]
  BY Zenon DEF Ready, Receiver
<1>2. CASE o.k = "instance"
  <2> DEFINE fields == Named(Table("fields")[o.c], name)
             methods == Named(Table("methods")[o.c], name)
  <2>1. o.c \in Classes
    BY <1>1, <1>2 DEF IsReceiver
  <2>2. \/ \E m \in fields : CallField(fs, st, m, n)
        \/ InvokeFromClass(fs, st, methods, n, "invoke")
    BY <1>2, Zenon DEF InvokeMethod
  <2>3. ASSUME NEW m \in fields, CallField(fs, st, m, n)
        PROVE  CallsIInv'
    <3>1. m.name \in DOMAIN Sig /\ m.owner \in Classes
      BY <1>1, <2>1, FieldNamed, Zenon
    <3> QED
      BY <2>3, <3>1, CallFieldKeeps
  <2>4. ASSUME NEW m \in methods, m.name \notin Private
        PROVE  Fits(fs, m, "invoke", o)
    <3> HIDE DEF o
    <3>1. MethodOf(o.c, name, m)
      BY <1>1, <2>1, MethodNamed, Zenon
    <3> QED
      BY <1>2, <2>1, <2>4, <3>1, Zenon DEF Fits, Origin, MethodOf
  <2>5. CASE InvokeFromClass(fs, st, methods, n, "invoke")
    BY <1>1, <2>4, <2>5, InvokeFromClassKeeps
  <2> QED
    BY <2>2, <2>3, <2>5, Zenon
<1>3. CASE o.k = "class"
  <2> DEFINE statics == Named(Own(o.c, "statics"), name)
             methods == Named(Table("methods")[o.c], name)
  <2>1. o.c \in Classes
    BY <1>1, <1>3 DEF IsReceiver
  <2>2. \/ \E m \in statics : Call(fs, st, m, n, "field")
        \/ InvokeFromClass(fs, st, methods, n, "class")
    BY <1>3 DEF InvokeMethod
  <2>3. ASSUME NEW m \in statics, Call(fs, st, m, n, "field")
        PROVE  CallsIInv'
    <3>1. m.name = name /\ name \in DOMAIN Sig /\ m.owner \in Classes
      BY <1>1, <2>1, StaticNamed
    <3>2. Fits(fs, m, "field", o)
      BY <2>1, <3>1, Zenon DEF Fits, Origin
    <3> QED
      BY <1>1, <2>3, <3>2, CallKeeps
  <2>4. ASSUME NEW m \in methods, m.name \notin Private
        PROVE  Fits(fs, m, "class", o)
    <3> HIDE DEF o
    <3>1. MethodOf(o.c, name, m)
      BY <1>1, <2>1, MethodNamed, Zenon
    <3> QED
      BY <1>3, <2>1, <2>4, <3>1, Zenon DEF Fits, Origin, MethodOf
  <2>5. CASE InvokeFromClass(fs, st, methods, n, "class")
    BY <1>1, <2>4, <2>5, InvokeFromClassKeeps, Zenon
  <2> QED
    BY <2>2, <2>3, <2>5
<1>4. CASE o.k = "module"
  <2>1. \/ Refuse(fs, st, n)
        \/ name \in Functions /\ Call(fs, st, Function(name), n, "invoke")
    BY <1>4, Zenon DEF InvokeMethod
  <2>2. ASSUME name \in Functions
        PROVE  Fits(fs, Function(name), "invoke", o)
    <3>1. Function(name).name = name /\ Function(name).owner = 0 /\ name \in DOMAIN Sig
      BY <2>2, CallsAssumption, Zenon DEF Function
    <3> HIDE DEF o
    <3> QED
      BY <1>4, <3>1, Zenon DEF Fits, Origin
  <2> QED
    BY <1>1, <2>1, <2>2, CallKeeps, RefuseKeeps, Zenon
<1>5. CASE o.k \notin {"instance", "class", "module"}
  <2>1. Refuse(fs, st, n) \/ \E f \in Natives : CallNative(fs, st, f, n)
    BY <1>5, Zenon DEF InvokeMethod
  <2> QED
    BY <2>1, CallNativeKeeps, RefuseKeeps
<1> QED
  BY <1>2, <1>3, <1>4, <1>5

\* The receiver is the self of the calling method.
OfCaller(fs, self) == self = fs[Len(fs)].locals[1] /\ fs[Len(fs)].m.owner # 0

\* invoke_self
LEMMA InvokeSelfMethodKeeps ==
  ASSUME NEW fs, NEW st, NEW n, NEW name, Ready(fs, st, n), IsReceiver(st[Len(st) - n]),
         OfCaller(fs, st[Len(st) - n]),
         name # "ctor", body' = body, InvokeSelfMethod(fs, st, name, n)
  PROVE  CallsIInv'
<1> DEFINE o == Receiver(st, n)
           methods == Named(Table("methods")[o.c], name)
           fields == Named(Table("fields")[o.c], name)
<1>1. body \in Worlds /\ o = st[Len(st) - n]
  BY Zenon DEF Ready, Receiver
<1>2. \/ Refuse(fs, st, n)
      \/ o.k \in {"instance", "class"} /\ \E m \in methods : Call(fs, st, m, n, "self")
      \/ o.k = "instance" /\ \E m \in fields : CallField(fs, st, m, n)
  BY Zenon DEF InvokeSelfMethod
<1> HIDE DEF o
<1>3. ASSUME o.k \in {"instance", "class"}, NEW m \in methods, Call(fs, st, m, n, "self")
      PROVE  CallsIInv'
  <2>1. o.c \in Classes
    BY <1>1, <1>3, Zenon DEF IsReceiver
  <2>2. MethodOf(o.c, name, m)
    BY <1>1, <2>1, MethodNamed, Zenon
  <2>3. Fits(fs, m, "self", o)
    BY <1>1, <2>1, <2>2, Zenon DEF Fits, Origin, OfCaller, MethodOf
  <2> QED
    BY <1>1, <1>3, <2>3, CallKeeps, Zenon
<1>4. ASSUME o.k = "instance", NEW m \in fields, CallField(fs, st, m, n)
      PROVE  CallsIInv'
  <2>1. o.c \in Classes
    BY <1>1, <1>4, Zenon DEF IsReceiver
  <2>2. m.name \in DOMAIN Sig /\ m.owner \in Classes
    <3>1. body \in Worlds
      BY <1>1
    <3> QED
      BY <2>1, <3>1, FieldNamed, Zenon
  <2> QED
    BY <1>4, <2>2, CallFieldKeeps, Zenon
<1> QED
  BY <1>2, <1>3, <1>4, RefuseKeeps, Zenon
------------------------------------------------------------------------------
(* The instructions *)

Pushed(s, v, args) == s \o <<v>> \o args

OnTop(st, s, v, args) ==
  /\ OfValues(st) /\ Len(st) = Len(s) + 1 + Len(args) /\ st[Len(s) + 1] = v
  /\ \A i \in 1 .. Len(s) : st[i] = s[i]

\* The callee and the arguments on the stack.
LEMMA PushedFacts ==
  ASSUME NEW s, OfValues(s), NEW v, v.k \in Kinds, NEW args, OfValues(args)
  PROVE  OnTop(Pushed(s, v, args), s, v, args)
<1> DEFINE t == <<v>>
           s1 == s \o t
           st == s1 \o args
<1>1. IsSeq(t) /\ OfValues(t) /\ Len(t) = 1 /\ t[1] = v
  <2>1. t \in Seq({v}) /\ Len(t) = 1 /\ t[1] = v
    OBVIOUS
  <2>2. IsSeq(t)
    BY <2>1, SeqOver, Zenon
  <2> QED
    BY <2>1, <2>2, ValuesFacts
<1>2. IsSeq(s) /\ Len(s) \in Nat /\ IsSeq(args) /\ Len(args) \in Nat
  BY ValuesFacts, SeqFacts
<1> HIDE DEF t
<1>3. OfValues(s1) /\ OfValues(st)
  BY <1>1, ValuesConcat
<1>4. /\ IsSeq(s1) /\ Len(s1) = Len(s) + Len(t)
      /\ \A i \in 1 .. Len(s) : s1[i] = s[i]
      /\ \A i \in 1 .. Len(t) : s1[Len(s) + i] = t[i]
  <2>1. IsSeq(s) /\ IsSeq(t)
    BY <1>1, <1>2
  <2> QED
    BY <2>1, ConcatFacts
<1> HIDE DEF s1
<1>5. Len(st) = Len(s1) + Len(args) /\ \A i \in 1 .. Len(s1) : st[i] = s1[i]
  BY <1>2, <1>4, ConcatFacts, Zenon
<1> HIDE DEF st
<1>6. 1 \in 1 .. Len(t) /\ Len(s1) = Len(s) + 1
  BY <1>1, <1>4
<1>7. Len(s) + 1 \in 1 .. Len(s1) /\ \A i \in 1 .. Len(s) : i \in 1 .. Len(s1)
  BY <1>2, <1>6
<1>8. st[Len(s) + 1] = v
  BY <1>1, <1>4, <1>5, <1>6, <1>7, Zenon
<1>9. \A i \in 1 .. Len(s) : st[i] = s[i]
  BY <1>4, <1>5, <1>7, Zenon
<1>10. Len(st) = Len(s) + 1 + Len(args)
  BY <1>5, <1>6
<1>11. Pushed(s, v, args) = st
  BY Zenon DEF Pushed, st, s1, t
<1> QED
  BY <1>3, <1>8, <1>9, <1>10, <1>11 DEF OnTop

\* An instruction that calls: v and the arguments are pushed, the caller has
\* or has not a handler.
Made(fs, st, v, args) ==
  /\ Ready(fs, st, Len(args)) /\ st[Len(st) - Len(args)] = v
  /\ fs[Len(fs)].m = Top.m /\ fs[Len(fs)].locals = Top.locals

\* Such an instruction leads to call_value, invoke, ... as those expect.
LEMMA ReadyMade ==
  ASSUME CallsIInv, Room, NEW v, v.k \in Kinds, NEW args, OfValues(args), NEW try \in BOOLEAN
  PROVE  Made(Calling(try), Pushed(stack, v, args), v, args)
<1> DEFINE fs == Calling(try)
           st == Pushed(stack, v, args)
           N == Len(frames)
           f == frames[N]
           g == [m |-> f.m, slots |-> f.slots, try |-> try, via |-> f.via, locals |-> f.locals]
           e == EndOf(f)
           n == Len(args)
<1>1. /\ body \in Worlds /\ callPc = "run" /\ tidy = TRUE /\ gcProtected = 0
      /\ frames # <<>> /\ Framed(frames, stack) /\ Len(stack) = e /\ OfValues(stack)
  BY Zenon DEF CallsIInv, Room, Top, Framed
<1>2. IsSeq(frames) /\ N \in Nat /\ DOMAIN frames = 1 .. N /\ IsSeq(stack)
  BY <1>1, FramedNumbers
<1>3. N > 0
  <2>1. N # 0
    BY <1>1, <1>2, SeqFacts
  <2> QED
    BY <1>2, <2>1
<1>4. N \in 1 .. N
  BY <1>2, <1>3
<1>5. IsFrame(f)
  BY <1>1, <1>4, Zenon DEF Framed
<1>6. f.slots \in Nat /\ Len(f.locals) \in Nat /\ e \in Nat /\ f.slots < e /\ e = f.slots + Len(f.locals)
  BY <1>5, FrameNumbers
<1>7. fs = [frames EXCEPT ![N] = g]
  <2>1. f = [m |-> f.m, slots |-> f.slots, try |-> f.try, via |-> f.via, locals |-> f.locals]
    BY <1>5 DEF IsFrame
  <2>2. fs = [frames EXCEPT ![N] = [f EXCEPT !.try = try]]
    BY <1>2, <1>4 DEF Calling
  <2> HIDE DEF f, N
  <2>3. [f EXCEPT !.try = try] = g
    BY <2>1, FrameSet
  <2> QED
    BY <2>2, <2>3, Zenon
<1>8. /\ g = [m |-> g.m, slots |-> g.slots, try |-> g.try, via |-> g.via, locals |-> g.locals]
      /\ g.m = f.m /\ g.slots = f.slots /\ g.try = try /\ g.via = f.via /\ g.locals = f.locals
  BY Zenon
<1> HIDE DEF g, fs
<1>9. IsFrame(g)
  BY <1>5, <1>8, Zenon DEF IsFrame
<1>10. EndOf(g) = e
  BY <1>8 DEF EndOf
<1>11. /\ OfValues(st) /\ Len(st) = e + 1 + n /\ st[e + 1] = v
       /\ \A i \in 1 .. e : st[i] = stack[i]
  <2>1. /\ OfValues(st) /\ Len(st) = Len(stack) + 1 + n /\ st[Len(stack) + 1] = v
        /\ \A i \in 1 .. Len(stack) : st[i] = stack[i]
    <3>1. OfValues(stack)
      BY <1>1
    <3>2. OnTop(st, stack, v, args)
      BY <3>1, PushedFacts, Zenon
    <3> QED
      BY <3>2 DEF OnTop
  <2> HIDE DEF e, n
  <2> QED
    BY <1>1, <2>1, Zenon
<1> HIDE DEF st
<1>12. n \in Nat
  BY ValuesFacts, SeqFacts
<1>13. Len(st) - n = e + 1 /\ e <= Len(st)
  <2>1. e \in Nat /\ Len(st) = e + 1 + n /\ n \in Nat
    BY <1>6, <1>11, <1>12, Zenon
  <2> HIDE DEF e, n
  <2> QED
    BY <2>1
<1>14. st[Len(st) - n] = v
  BY <1>11, <1>13, Zenon
<1>15. Holds(st, g)
  <2>1. Holds(stack, f)
    BY <1>1, <1>4, Zenon DEF Framed, Laid, Holds
  <2>2. ASSUME NEW j \in 1 .. Len(f.locals)
        PROVE  st[f.slots + j] = f.locals[j]
    <3>1. f.slots + j \in 1 .. e
      BY <1>6
    <3> QED
      BY <1>11, <2>1, <3>1, Zenon DEF Holds
  <2> QED
    BY <1>8, <2>2, Zenon DEF Holds
<1>16. Below(st, stack, g.slots)
  <2>1. \A i \in 1 .. g.slots : i \in 1 .. e
    BY <1>6, <1>8
  <2> QED
    BY <1>11, <2>1, Zenon DEF Below
<1>17. Framed(fs, st)
  <2>1. EndOf(g) <= Len(st)
    BY <1>10, <1>13
  <2>2. g.locals[1] = f.locals[1]
    BY <1>8
  <2> QED
    BY <1>1, <1>3, <1>7, <1>8, <1>9, <1>11, <1>15, <1>16, <2>1, <2>2, FramedTop, Zenon
<1>18. Len(fs) = N /\ fs[N] = g
  BY <1>2, <1>4, <1>7, ExceptFacts, Zenon
<1>19. Ready(fs, st, n)
  BY <1>1, <1>3, <1>10, <1>11, <1>12, <1>17, <1>18, Zenon DEF Ready
<1> QED
  BY <1>8, <1>14, <1>18, <1>19, Zenon DEF Made, Top, fs, st

\* The functions have signatures.
LEMMA FunctionsSigned == \A f \in Functions \cup Mains : f \in DOMAIN Sig
<1>1. Functions \subseteq DOMAIN Sig /\ Mains \subseteq Functions
  BY CallsAssumption, Zenon
<1> QED
  BY <1>1, Zenon

\* OP_CALL
LEMMA CallOpKeeps ==
  ASSUME CallsIInv, NEW v \in Callees, NEW args \in Arguments, NEW try \in BOOLEAN,
         CallOp(v, args, try)
  PROVE  CallsIInv'
<1> DEFINE fs == Calling(try)
           st == Pushed(stack, v, args)
<1>1. Room /\ body' = body /\ CallValue(fs, st, v, Len(args), "call") /\ OfValues(args)
  BY CallsAssumption DEF CallOp, Pushed
<1>2. v.k \in Kinds /\ IsCallee(v, "call")
  <2>1. CASE \E f \in Functions : v = Closure(Function(f))
    <3>1. PICK f \in Functions : v = Closure(Function(f))
      BY <2>1
    <3>2. v.k = "closure" /\ v.m.name = f /\ v.m.owner = 0
      BY <3>1 DEF Closure, Function
    <3>3. f \in DOMAIN Sig
      BY FunctionsSigned, Zenon
    <3> QED
      BY <3>2, <3>3 DEF IsCallee, Kinds
  <2>2. CASE \E f \in Natives : v = Native(f)
    <3>1. PICK f \in Natives : v = Native(f)
      BY <2>2
    <3>2. v.k = "native" /\ v.n = f
      BY <3>1, Zenon DEF Native
    <3> QED
      BY <3>2 DEF IsCallee, Kinds
  <2>3. CASE \E c \in Classes : v = ClassValue(c)
    <3>1. PICK c \in Classes : v = ClassValue(c)
      BY <2>3
    <3>2. v.k = "class" /\ v.c = c
      BY <3>1, Zenon DEF ClassValue
    <3> QED
      BY <3>2 DEF IsCallee, Kinds
  <2>4. CASE \E f \in Mains : v = Module(Function(f))
    <3>1. PICK f \in Mains : v = Module(Function(f))
      BY <2>4
    <3>2. v.k = "module" /\ v.m.name = f /\ v.m.owner = 0
      BY <3>1 DEF Module, Function
    <3>3. f \in DOMAIN Sig
      BY FunctionsSigned, Zenon
    <3> QED
      BY <3>2, <3>3, Zenon DEF IsCallee, Kinds
  <2>5. CASE v = NilValue
    <3>1. v.k = "nil"
      BY <2>5, Zenon DEF NilValue, Plain
    <3> QED
      BY <3>1 DEF IsCallee, Kinds
  <2> QED
    BY <2>1, <2>2, <2>3, <2>4, <2>5, Zenon DEF Callees
<1> HIDE DEF fs, st
<1>3. Made(fs, st, v, args)
  BY <1>1, <1>2, ReadyMade, Zenon DEF fs, st
<1> QED
  BY <1>1, <1>2, <1>3, CallValueKeeps, Zenon DEF Made

\* No name a program uses is that of a constructor.
LEMMA NamesFacts ==
  ASSUME NEW name \in Names
  PROVE  name # "ctor"
BY CallsAssumption DEF Names

\* OP_GET_PROPERTY with bind_method, then OP_CALL
LEMMA CallPropertyKeeps ==
  ASSUME CallsIInv, NEW c \in Classes, NEW name \in Names, NEW args \in Arguments,
         NEW try \in BOOLEAN, CallProperty(c, name, args, try)
  PROVE  CallsIInv'
<1> DEFINE fields == Named(Table("fields")[c], name)
           methods == Named(Table("methods")[c], name)
           value == IF fields # {} THEN Closure(CHOOSE m \in fields : TRUE)
                    ELSE Bound(c, CHOOSE m \in methods : TRUE)
           fs == Calling(try)
<1>1. Room /\ body' = body /\ OfValues(args) /\ body \in Worlds
  BY CallsAssumption DEF CallProperty, CallsIInv
<1>2. name # "ctor"
  BY NamesFacts
<1>3. CASE name \in Private \/ fields \cup methods = {}
  <2> DEFINE st == Pushed(stack, Instance(c), <<>>)
  <2>1. Refuse(fs, Append(stack, Instance(c)), 0)
    BY <1>3 DEF CallProperty
  <2>2. Append(stack, Instance(c)) = st
    <3> DEFINE o == Instance(c)
               S == {stack[i] : i \in DOMAIN stack} \cup {o}
    <3>1. stack \in Seq(S) /\ o \in S
      <4>1. IsSeq(stack)
        BY DEF CallsIInv, Framed, OfValues, IsSeq
      <4> QED
        BY <4>1, SeqFacts
    <3> HIDE DEF o, S
    <3>2. Append(stack, o) = stack \o <<o>> \o <<>>
      BY <3>1
    <3> QED
      BY <3>2 DEF o, Pushed
  <2>3. Instance(c).k \in Kinds /\ OfValues(<<>>) /\ Len(<<>>) = 0
    BY DEF Instance, Kinds, OfValues
  <2>4. Ready(fs, st, 0)
    <3> HIDE DEF fs, st
    <3>1. Made(fs, st, Instance(c), <<>>)
      BY <1>1, <2>3, ReadyMade, Zenon DEF fs, st
    <3> QED
      BY <2>3, <3>1, Zenon DEF Made
  <2> QED
    BY <1>1, <2>1, <2>2, <2>4, RefuseKeeps, Zenon
<1>4. CASE ~ (name \in Private \/ fields \cup methods = {})
  <2> DEFINE st == Pushed(stack, value, args)
  <2>1. CallValue(fs, st, value, Len(args), "field")
    BY <1>4, Zenon DEF CallProperty, Pushed
  <2>2. value.k \in Kinds /\ IsCallee(value, "field")
    <3>1. CASE fields # {}
      <4>1. PICK m \in fields : value = Closure(m)
        BY <3>1, Zenon
      <4>2. value.k = "closure" /\ value.m = m
        BY <4>1 DEF Closure
      <4>3. m.name \in DOMAIN Sig /\ m.owner \in Classes
        BY <1>1, <1>2, FieldNamed, Zenon
      <4> HIDE DEF value
      <4> QED
        BY <4>2, <4>3, Zenon DEF IsCallee, Kinds
    <3>2. CASE fields = {}
      <4>1. methods # {}
        BY <1>4, <3>2, Zenon
      <4>2. PICK m \in methods : value = Bound(c, m)
        BY <3>2, <4>1, Zenon
      <4>3. value.k = "bound" /\ value.c = c /\ value.m = m
        BY <4>2 DEF Bound
      <4>4. MethodOf(c, name, m)
        BY <1>1, <1>2, MethodNamed, Zenon
      <4> HIDE DEF value
      <4> QED
        BY <1>4, <4>3, <4>4, Zenon DEF IsCallee, Kinds, MethodOf
    <3> QED
      BY <3>1, <3>2, Zenon
  <2> HIDE DEF fs, st, value
  <2>3. Made(fs, st, value, args)
    BY <1>1, <2>2, ReadyMade, Zenon DEF fs, st
  <2> QED
    BY <1>1, <2>1, <2>2, <2>3, CallValueKeeps, Zenon DEF Made
<1> QED
  BY <1>3, <1>4, Zenon

\* OP_INVOKE
LEMMA InvokeKeeps ==
  ASSUME CallsIInv, NEW o \in Receivers, NEW name \in Names, NEW args \in Arguments,
         NEW try \in BOOLEAN, Invoke(o, name, args, try)
  PROVE  CallsIInv'
<1> DEFINE fs == Calling(try)
           st == Pushed(stack, o, args)
<1>1. Room /\ body' = body /\ InvokeMethod(fs, st, name, Len(args)) /\ OfValues(args)
  BY CallsAssumption DEF Invoke, Pushed
<1>2. IsReceiver(o)
  <2>1. CASE \E c \in Classes : o = Instance(c) \/ o = ClassValue(c)
    <3>1. PICK c \in Classes : o = Instance(c) \/ o = ClassValue(c)
      BY <2>1, Zenon
    <3>2. o.k \in {"instance", "class"} /\ o.c = c
      BY <3>1 DEF Instance, ClassValue
    <3> QED
      BY <3>2, Zenon DEF IsReceiver, Kinds
  <2>2. CASE (\E f \in Mains : o = Module(Function(f))) \/ o = List(<<>>) \/ o = NilValue
    <3>1. o.k \in {"module", "list", "nil"}
      BY <2>2 DEF Module, List, NilValue, Plain
    <3> QED
      BY <3>1 DEF IsReceiver, Kinds
  <2> QED
    BY <2>1, <2>2, Zenon DEF Receivers
<1>3. o.k \in Kinds
  BY <1>2, Zenon DEF IsReceiver
<1> HIDE DEF fs, st
<1>4. Made(fs, st, o, args)
  BY <1>1, <1>3, ReadyMade, Zenon DEF fs, st
<1> QED
  BY <1>1, <1>2, <1>4, NamesFacts, InvokeMethodKeeps, Zenon DEF Made

\* In a method, self is in slot 0 and the first variable of the frame.
LEMMA SelfFacts ==
  ASSUME CallsIInv, Room, InMethod
  PROVE  /\ SlotValue(0) = Top.locals[1] /\ IsReceiver(SlotValue(0))
         /\ Top.m.owner \in Classes /\ Top.m.owner # 0
<1> DEFINE N == Len(frames)
<1>1. Framed(frames, stack) /\ frames # <<>>
  BY DEF CallsIInv, Room
<1>2. IsSeq(frames) /\ N \in Nat
  BY <1>1, FramedNumbers
<1>3. N # 0
  BY <1>1, <1>2, SeqFacts
<1>4. N \in 1 .. N
  BY <1>2, <1>3
<1>5. IsFrame(Top)
  BY <1>1, <1>4 DEF Framed, Top
<1>6. Top.slots \in Nat /\ Len(Top.locals) \in Nat /\ Len(Top.locals) > 0 /\ OfValues(Top.locals)
  BY <1>5, FrameNumbers DEF IsFrame
<1>7. 1 \in 1 .. Len(Top.locals) /\ Top.slots + 0 + 1 = Top.slots + 1
  BY <1>6
<1>8. stack[Top.slots + 1] = Top.locals[1]
  BY <1>1, <1>4, <1>7, Zenon DEF Framed, Laid, Top
<1>9. SlotValue(0) = Top.locals[1]
  BY <1>7, <1>8, Zenon DEF SlotValue
<1>10. Top.locals[1].k \in Kinds
  BY <1>6, <1>7, ValuesFacts, Zenon
<1> QED
  BY <1>5, <1>9, <1>10 DEF IsFrame, IsReceiver, InMethod

\* OP_INVOKE_SELF
LEMMA InvokeSelfKeeps ==
  ASSUME CallsIInv, NEW name \in Names, NEW args \in Arguments,
         NEW try \in BOOLEAN, InvokeSelf(name, args, try)
  PROVE  CallsIInv'
<1> DEFINE fs == Calling(try)
           self == SlotValue(0)
           st == Pushed(stack, self, args)
<1>1. /\ Room /\ InMethod /\ body' = body /\ InvokeSelfMethod(fs, st, name, Len(args))
      /\ OfValues(args)
  BY CallsAssumption, Zenon DEF InvokeSelf, Pushed
<1>2. self = Top.locals[1] /\ IsReceiver(self) /\ Top.m.owner # 0
  BY <1>1, SelfFacts, Zenon
<1>3. self.k \in Kinds
  BY <1>2, Zenon DEF IsReceiver
<1> HIDE DEF fs, st, self
<1>4. Made(fs, st, self, args)
  BY <1>1, <1>3, ReadyMade, Zenon DEF fs, st
<1>5. OfCaller(fs, self)
  BY <1>2, <1>4, Zenon DEF OfCaller, Made
<1> QED
  BY <1>1, <1>2, <1>4, <1>5, NamesFacts, InvokeSelfMethodKeeps, Zenon DEF Made

\* The superclass of the class of a method.
LEMMA SuperClass ==
  ASSUME CallsIInv, Room, InMethod, Top.m.owner > 1, body \in Worlds
  PROVE  Top.m.owner - 1 \in Classes
<1> DEFINE c == Top.m.owner
<1>1. c \in Classes
  BY SelfFacts
<1>2. Len(body) \in Nat /\ Classes = 1 .. Len(body)
  BY Declared
<1>3. c > 1
  OBVIOUS
<1> HIDE DEF c
<1>4. c - 1 \in Classes
  BY <1>1, <1>2, <1>3
<1> QED
  BY <1>4 DEF c

\* What parent. leads to: the methods found are those nearest to the
\* superclass of the class that declares the calling method.
LEMMA SuperKeeps ==
  ASSUME CallsIInv, Room, InMethod, Top.m.owner > 1, NEW args, OfValues(args),
         NEW try \in BOOLEAN, body' = body, NEW found,
         \A m \in found : /\ m.name \in DOMAIN Sig /\ m.owner \in Classes
                          /\ m.owner = Nearest(Top.m.owner - 1, m.name),
         InvokeFromClass(Calling(try), Pushed(stack, SlotValue(0), args), found, Len(args), "super")
  PROVE  CallsIInv'
<1> DEFINE fs == Calling(try)
           self == SlotValue(0)
           st == Pushed(stack, self, args)
<1>1. self = Top.locals[1] /\ IsReceiver(self) /\ Top.m.owner # 0
  BY SelfFacts, Zenon
<1>2. self.k \in Kinds
  BY <1>1, Zenon DEF IsReceiver
<1>3. InvokeFromClass(fs, st, found, Len(args), "super")
  BY Zenon
<1> HIDE DEF fs, st, self
<1>4. Made(fs, st, self, args)
  BY <1>2, ReadyMade, Zenon DEF fs, st
<1>5. \A m \in found : Fits(fs, m, "super", self)
  BY <1>1, <1>4, Zenon DEF Fits, Origin, IsReceiver, Made
<1> QED
  BY <1>3, <1>4, <1>5, InvokeFromClassKeeps, Zenon DEF Made

\* OP_SUPER_INVOKE
LEMMA SuperInvokeKeeps ==
  ASSUME CallsIInv, NEW name \in Names, NEW args \in Arguments,
         NEW try \in BOOLEAN, SuperInvoke(name, args, try)
  PROVE  CallsIInv'
<1> DEFINE c == Top.m.owner - 1
           found == Named(Table("methods")[c], name)
<1>1. /\ Room /\ InMethod /\ Top.m.owner > 1 /\ body' = body /\ OfValues(args) /\ body \in Worlds
      /\ InvokeFromClass(Calling(try), Pushed(stack, SlotValue(0), args), found, Len(args), "super")
  BY CallsAssumption, Zenon DEF SuperInvoke, Pushed, CallsIInv
<1>2. c \in Classes
  BY <1>1, SuperClass
<1> HIDE DEF c
<1>3. \A m \in found : m.name \in DOMAIN Sig /\ m.owner \in Classes /\ m.owner = Nearest(c, m.name)
  <2>1. name # "ctor" /\ body \in Worlds
    BY <1>1, NamesFacts, Zenon
  <2> SUFFICES ASSUME NEW m \in found
               PROVE  m.name \in DOMAIN Sig /\ m.owner \in Classes /\ m.owner = Nearest(c, m.name)
    BY Zenon
  <2>2. MethodOf(c, name, m)
    BY <1>2, <2>1, MethodNamed, Zenon
  <2> QED
    BY <2>2, Zenon DEF MethodOf
<1> QED
  BY <1>1, <1>3, SuperKeeps, Zenon DEF c

\* OP_SUPER_INVOKE_SELF
LEMMA SuperInvokeSelfKeeps ==
  ASSUME CallsIInv, NEW args \in Arguments, NEW try \in BOOLEAN, SuperInvokeSelf(args, try)
  PROVE  CallsIInv'
<1> DEFINE c == Top.m.owner - 1
           found == Initializer(c)
<1>1. /\ Room /\ InMethod /\ Top.m.owner > 1 /\ body' = body /\ OfValues(args) /\ body \in Worlds
      /\ InvokeFromClass(Calling(try), Pushed(stack, SlotValue(0), args), found, Len(args), "super")
  BY CallsAssumption, Zenon DEF SuperInvokeSelf, Pushed, CallsIInv
<1>2. c \in Classes
  BY <1>1, SuperClass
<1> HIDE DEF c
<1>3. \A m \in found : m.name \in DOMAIN Sig /\ m.owner \in Classes /\ m.owner = Nearest(c, m.name)
  BY <1>1, <1>2, InitializerIs, Zenon
<1> QED
  BY <1>1, <1>3, SuperKeeps, Zenon DEF c

\* The running function, when there is one.
LEMMA Running ==
  ASSUME CallsIInv, callPc # "ended"
  PROVE  /\ body \in Worlds /\ Framed(frames, stack) /\ gcProtected \in Nat /\ tidy \in BOOLEAN
         /\ (tidy => gcProtected = 0)
         /\ IsSeq(frames) /\ Len(frames) \in Nat /\ Len(frames) > 0
         /\ Len(frames) \in 1 .. Len(frames)
         /\ Top = frames[Len(frames)] /\ IsFrame(Top)
         /\ Top.slots \in Nat /\ Len(Top.locals) \in Nat /\ Len(Top.locals) > 0
         /\ EndOf(Top) \in Nat /\ EndOf(Top) = Top.slots + Len(Top.locals)
         /\ EndOf(Top) <= Len(stack) /\ Len(stack) \in Nat /\ IsSeq(stack) /\ OfValues(stack)
         /\ DOMAIN stack = 1 .. Len(stack) /\ Holds(stack, Top)
<1>1. /\ body \in Worlds /\ Framed(frames, stack) /\ gcProtected \in Nat /\ tidy \in BOOLEAN
      /\ (tidy => gcProtected = 0) /\ frames # <<>> /\ OfValues(stack)
  BY Zenon DEF CallsIInv, Framed
<1>2. IsSeq(frames) /\ Len(frames) \in Nat
  BY <1>1, FramedNumbers, Zenon
<1>3. Len(frames) # 0
  BY <1>1, <1>2, SeqFacts
<1>4. Len(frames) \in 1 .. Len(frames) /\ Len(frames) > 0
  BY <1>2, <1>3
<1>5. /\ IsFrame(Top) /\ EndOf(Top) <= Len(stack) /\ Len(stack) \in Nat /\ IsSeq(stack)
      /\ DOMAIN stack = 1 .. Len(stack) /\ Top = frames[Len(frames)]
  BY <1>1, <1>4, FramedNumbers, Zenon DEF Top
<1>6. Holds(stack, Top)
  BY <1>1, <1>4, <1>5, Zenon DEF Framed, Laid, Holds
<1> QED
  BY <1>1, <1>2, <1>4, <1>5, <1>6, FrameNumbers, Zenon

\* The start of a catch block
LEMMA CatchKeeps ==
  ASSUME CallsIInv, Catch
  PROVE  CallsIInv'
<1> DEFINE e == EndOf(Top)
           set == [stack EXCEPT ![e + 1] = Exception]
           n == Len(stack)
<1>1. /\ callPc = "catch" /\ stack' = PopN(set, 1) /\ frames' = Finished(frames, Exception)
      /\ callPc' = "run" /\ body' = body /\ gcProtected' = gcProtected /\ tidy' = tidy
  BY Zenon DEF Catch, EndOf
<1>2. /\ body \in Worlds /\ Framed(frames, stack) /\ gcProtected \in Nat /\ tidy \in BOOLEAN
      /\ (tidy => gcProtected = 0) /\ Len(frames) > 0 /\ Top = frames[Len(frames)]
      /\ e \in Nat /\ n \in Nat /\ IsSeq(stack) /\ OfValues(stack) /\ DOMAIN stack = 1 .. n
  BY <1>1, Running, Zenon
<1>3. n >= e + 2 /\ (tidy => n = e + 2)
  BY <1>1 DEF CallsIInv
<1>4. Exception.k \in Kinds
  BY DEF Exception, Plain, Kinds
<1> HIDE DEF e, n
<1>5. e + 1 \in 1 .. n /\ n - 1 \in 0 .. n /\ n - 1 >= e + 1 /\ (tidy => n - 1 = e + 1)
      /\ \A i \in 1 .. e + 1 : i \in 1 .. n - 1 /\ i \in 1 .. n
  BY <1>2, <1>3
<1>6. /\ IsSeq(set) /\ OfValues(set) /\ Len(set) = n
      /\ \A i \in 1 .. n : set[i] = IF i = e + 1 THEN Exception ELSE stack[i]
  BY <1>2, <1>4, <1>5, ExceptFacts, ValuesExcept, Zenon DEF n
<1> HIDE DEF set
<1>7. /\ OfValues(stack') /\ Len(stack') = n - 1 /\ \A i \in 1 .. n - 1 : stack'[i] = set[i]
  BY <1>1, <1>5, <1>6, KeepFacts, ValuesKeep DEF PopN
<1>8. stack'[e + 1] = Exception
  <2>1. e + 1 \in 1 .. n - 1
    BY <1>2, <1>5
  <2> QED
    BY <1>5, <1>6, <1>7, <2>1, Zenon
<1>9. Below(stack', stack, e)
  <2>1. \A i \in 1 .. e : i \in 1 .. n - 1 /\ i \in 1 .. n /\ i # e + 1
    BY <1>2, <1>5
  <2> QED
    BY <1>6, <1>7, <2>1, Zenon DEF Below
<1>10. Len(stack') >= e + 1 /\ (tidy => Len(stack') = e + 1)
  BY <1>5, <1>7, Zenon
<1> QED
  BY <1>1, <1>2, <1>4, <1>7, <1>8, <1>9, <1>10, FinishedKeeps, Zenon DEF e

\* OP_RETURN
LEMMA ReturnKeeps ==
  ASSUME CallsIInv, NEW i \in Nat, Return(i)
  PROVE  CallsIInv'
<1> DEFINE N == Len(frames)
           fs == Keep(frames, N - 1)
           v == Top.locals[i + 1]
           e == Top.slots
           kept == Keep(stack, e)
<1>1. /\ callPc = "run" /\ N > 1 /\ i < Len(Top.locals)
      /\ stack' = Append(kept, SlotValue(i)) /\ frames' = Finished(fs, v)
      /\ callPc' = callPc /\ body' = body /\ gcProtected' = gcProtected /\ tidy' = tidy
  BY Zenon DEF Return, PopN
<1>2. /\ body \in Worlds /\ Framed(frames, stack) /\ gcProtected \in Nat /\ tidy \in BOOLEAN
      /\ (tidy => gcProtected = 0) /\ N \in Nat /\ N \in 1 .. N /\ Top = frames[N]
      /\ e \in Nat /\ Len(Top.locals) \in Nat /\ EndOf(Top) = e + Len(Top.locals)
      /\ EndOf(Top) <= Len(stack) /\ Len(stack) \in Nat /\ IsSeq(stack) /\ OfValues(stack)
      /\ Holds(stack, Top) /\ IsFrame(Top)
  BY <1>1, Running, Zenon
<1>3. N - 1 \in 1 .. N /\ N # 1 /\ N - 1 > 0
  BY <1>1, <1>2
<1>4. Framed(fs, stack) /\ Len(fs) = N - 1 /\ fs[N - 1] = frames[N - 1]
  <2>1. Framed(fs, stack) /\ Len(fs) = N - 1 /\ \A j \in 1 .. N - 1 : fs[j] = frames[j]
    BY <1>2, <1>3, FramedPrefix, Zenon
  <2>2. N - 1 \in 1 .. N - 1
    BY <1>2, <1>3
  <2> QED
    BY <2>1, <2>2, Zenon
<1>5. EndOf(fs[Len(fs)]) = e
  <2>1. Laid(frames, stack)
    BY <1>2, Zenon DEF Framed
  <2>2. frames[N].slots = IF N = 1 THEN 0 ELSE EndOf(frames[N - 1])
    BY <1>2, <2>1, Zenon DEF Laid
  <2> QED
    BY <1>2, <1>3, <1>4, <2>2, Zenon
<1>6. i + 1 \in 1 .. Len(Top.locals) /\ e + i + 1 = e + (i + 1)
  <2>1. i < Len(Top.locals) /\ Len(Top.locals) \in Nat /\ e \in Nat
    BY <1>1, <1>2
  <2> HIDE DEF e
  <2> QED
    BY <2>1
<1>7. SlotValue(i) = v
  BY <1>2, <1>6, Zenon DEF SlotValue, Holds
<1>8. v.k \in Kinds
  BY <1>2, <1>6, ValuesFacts, Zenon DEF IsFrame
<1>9. e \in 0 .. Len(stack)
  BY <1>2
<1>10. /\ IsSeq(kept) /\ OfValues(kept) /\ Len(kept) = e /\ \A j \in 1 .. e : kept[j] = stack[j]
  BY <1>2, <1>9, KeepFacts, ValuesKeep, Zenon
<1> HIDE DEF kept, v, fs, e
<1>11. /\ OfValues(stack') /\ Len(stack') = e + 1 /\ stack'[e + 1] = v
       /\ \A j \in 1 .. e : stack'[j] = kept[j]
  <2>1. stack' = Append(kept, v)
    BY <1>1, <1>7, Zenon
  <2>2. OfValues(stack')
    BY <1>8, <1>10, <2>1, ValuesAppend, Zenon
  <2>3. IsSeq(kept) /\ Len(kept) = e
    BY <1>10, Zenon
  <2> QED
    BY <2>1, <2>2, <2>3, AppendFacts
<1>12. Below(stack', stack, e)
  BY <1>10, <1>11, Zenon DEF Below
<1>13. Len(stack') >= e + 1
  BY <1>2, <1>11
<1> QED
  BY <1>1, <1>2, <1>3, <1>4, <1>5, <1>8, <1>11, <1>12, <1>13, FinishedKeeps, Zenon

\* OP_RETURN at the end of the script
LEMMA ReturnLastKeeps ==
  ASSUME CallsIInv, ReturnLast
  PROVE  CallsIInv'
<1>1. /\ callPc = "run" /\ stack' = PopN(stack, 1) /\ frames' = <<>> /\ callPc' = "ended"
      /\ body' = body /\ gcProtected' = gcProtected /\ tidy' = tidy
  BY Zenon DEF ReturnLast
<1>2. /\ body \in Worlds /\ gcProtected \in Nat /\ tidy \in BOOLEAN /\ OfValues(stack)
      /\ Len(stack) \in Nat /\ EndOf(Top) <= Len(stack) /\ EndOf(Top) \in Nat
      /\ EndOf(Top) = Top.slots + Len(Top.locals) /\ Top.slots \in Nat
      /\ Len(Top.locals) \in Nat /\ Len(Top.locals) > 0
  BY <1>1, Running, Zenon
<1>3. Len(stack) - 1 \in 0 .. Len(stack)
  BY <1>2
<1>4. OfValues(stack')
  BY <1>1, <1>2, <1>3, ValuesKeep, Zenon DEF PopN
<1> QED
  BY <1>1, <1>2, <1>4, Ends, Zenon

\* OP_POP at the end of a scope: no function drops its parameters.
LEMMA EndScopeKeeps ==
  ASSUME CallsIInv, EndScope
  PROVE  CallsIInv'
<1> DEFINE N == Len(frames)
           f == Top
           k == Len(f.locals) - 1
           l == Keep(f.locals, k)
           g == [m |-> f.m, slots |-> f.slots, try |-> f.try, via |-> f.via, locals |-> l]
           n == Len(stack)
<1>1. /\ callPc = "run" /\ stack' = Keep(stack, n - 1)
      /\ frames' = [frames EXCEPT ![N].locals = PopN(@, 1)]
      /\ Len(f.locals) > 1 + (IF N = 1 THEN 0 ELSE Sig[f.m.name].arity)
      /\ callPc' = callPc /\ body' = body /\ gcProtected' = gcProtected /\ tidy' = tidy
  BY DEF EndScope, PopN
<1>2. /\ body \in Worlds /\ Framed(frames, stack) /\ gcProtected \in Nat /\ tidy \in BOOLEAN
      /\ (tidy => gcProtected = 0) /\ N \in Nat /\ N \in 1 .. N /\ N > 0 /\ f = frames[N]
      /\ f.slots \in Nat /\ Len(f.locals) \in Nat /\ EndOf(f) = f.slots + Len(f.locals)
      /\ EndOf(f) \in Nat /\ EndOf(f) <= n /\ n \in Nat /\ IsSeq(stack) /\ OfValues(stack)
      /\ Holds(stack, f) /\ IsFrame(f) /\ IsSeq(frames)
  BY <1>1, Running
<1>3. tidy => n = EndOf(f)
  BY <1>1 DEF CallsIInv
<1>4. Len(f.locals) > 1
  <2>1. CASE N = 1
    BY <1>1, <1>2, <2>1
  <2>2. CASE N # 1
    <3>1. N \in 2 .. N
      <4>1. N \in Nat /\ N > 0
        BY <1>2, Zenon
      <4> HIDE DEF N
      <4> QED
        BY <2>2, <4>1
    <3>2. Came(frames, N)
      <4>1. Framed(frames, stack)
        BY <1>2, Zenon
      <4> HIDE DEF f
      <4> QED
        BY <3>1, <4>1 DEF Framed
    <3>3. f.m.name \in DOMAIN Sig
      BY <1>2, <3>2, Zenon DEF Came, Origin
    <3>4. Sig[f.m.name].arity \in Nat
      BY <3>3, CallsAssumption
    <3>5. Len(f.locals) > 1 + Sig[f.m.name].arity
      BY <1>1, <2>2, Zenon
    <3> HIDE DEF f
    <3> QED
      BY <1>2, <3>4, <3>5
  <2> QED
    BY <2>1, <2>2
<1>5. k \in Nat /\ k > 0 /\ k \in 0 .. Len(f.locals) /\ 1 \in 1 .. k
      /\ \A j \in 1 .. k : j \in 1 .. Len(f.locals)
  BY <1>2, <1>4
<1>6. IsSeq(f.locals) /\ OfValues(f.locals)
  BY <1>2, ValuesFacts, Zenon DEF IsFrame
<1>7. /\ OfValues(l) /\ Len(l) = k /\ \A j \in 1 .. k : l[j] = f.locals[j]
  BY <1>5, <1>6, KeepFacts, ValuesKeep, Zenon
<1>8. frames' = [frames EXCEPT ![N] = g]
  <2>1. DOMAIN frames = 1 .. N
    BY <1>2, SeqFacts
  <2>2. PopN(f.locals, 1) = l
    BY DEF PopN
  <2>3. frames' = [frames EXCEPT ![N] = [f EXCEPT !.locals = PopN(f.locals, 1)]]
    BY <1>1, <1>2, <2>1
  <2>4. f = [m |-> f.m, slots |-> f.slots, try |-> f.try, via |-> f.via, locals |-> f.locals]
    BY <1>2 DEF IsFrame
  <2> HIDE DEF f, l
  <2>5. [f EXCEPT !.locals = l] = g
    BY <2>4, FrameSet
  <2> QED
    BY <2>2, <2>3, <2>5, Zenon
<1>9. /\ g = [m |-> g.m, slots |-> g.slots, try |-> g.try, via |-> g.via, locals |-> g.locals]
      /\ g.m = f.m /\ g.slots = f.slots /\ g.try = f.try /\ g.via = f.via /\ g.locals = l
  BY Zenon
<1> HIDE DEF g, l
<1>10. g.locals[1] = f.locals[1] /\ Len(g.locals) = k
  BY <1>5, <1>7, <1>9, Zenon
<1>11. IsFrame(g)
  BY <1>2, <1>5, <1>7, <1>9, <1>10, Zenon DEF IsFrame
<1>12. EndOf(g) = EndOf(f) - 1
  <2>1. EndOf(g) = f.slots + k
    BY <1>9, <1>10, Zenon DEF EndOf
  <2> QED
    BY <1>2, <2>1
<1> HIDE DEF k, f, n
<1>13. n - 1 \in 0 .. n /\ EndOf(g) <= n - 1 /\ EndOf(g) \in Nat /\ (tidy => n - 1 = EndOf(g))
       /\ \A j \in 1 .. EndOf(g) : j \in 1 .. n - 1
  <2>1. EndOf(f) > 0
    <3>1. f.slots \in Nat /\ EndOf(f) = f.slots + Len(f.locals) /\ Len(f.locals) > 1
          /\ Len(f.locals) \in Nat
      BY <1>2, <1>4, Zenon
    <3> QED
      BY <3>1
  <2>2. n \in Nat /\ EndOf(f) \in Nat /\ EndOf(f) <= n
    BY <1>2
  <2> QED
    BY <1>3, <1>12, <2>1, <2>2
<1>14. OfValues(stack') /\ Len(stack') = n - 1 /\ \A j \in 1 .. n - 1 : stack'[j] = stack[j]
  BY <1>1, <1>2, <1>13, KeepFacts, ValuesKeep, Zenon DEF n
<1>15. Holds(stack', g)
  <2>1. ASSUME NEW j \in 1 .. Len(g.locals)
        PROVE  stack'[g.slots + j] = g.locals[j]
    <3>1. j \in 1 .. k
      BY <1>10
    <3>2. g.slots + j \in 1 .. EndOf(g)
      <4>1. EndOf(g) = g.slots + k /\ g.slots \in Nat /\ k \in Nat
        BY <1>2, <1>5, <1>9, <1>10, Zenon DEF EndOf
      <4> QED
        BY <3>1, <4>1
    <3>3. stack'[g.slots + j] = stack[g.slots + j]
      BY <1>13, <1>14, <3>2, Zenon
    <3>4. stack[f.slots + j] = f.locals[j]
      BY <1>2, <1>5, <3>1, Zenon DEF Holds
    <3> QED
      BY <1>7, <1>9, <3>1, <3>3, <3>4, Zenon
  <2> QED
    BY <2>1 DEF Holds
<1>16. Below(stack', stack, g.slots)
  <2>1. g.slots \in Nat /\ g.slots < EndOf(g)
    BY <1>11, FrameNumbers, Zenon
  <2>2. \A j \in 1 .. g.slots : j \in 1 .. n - 1
    BY <1>13, <2>1
  <2> QED
    BY <1>14, <2>2 DEF Below
<1>17. Framed(frames', stack')
  <2>1. EndOf(g) <= Len(stack')
    BY <1>13, <1>14, Zenon
  <2>2. /\ g.m = frames[N].m /\ g.slots = frames[N].slots /\ g.via = frames[N].via
        /\ g.locals[1] = frames[N].locals[1]
    BY <1>2, <1>9, <1>10, Zenon
  <2>3. Framed([frames EXCEPT ![N] = g], stack')
    BY <1>2, <1>11, <1>14, <1>15, <1>16, <2>1, <2>2, FramedTop, Zenon
  <2> QED
    BY <1>8, <2>3, Zenon
<1>18. Len(frames') = N /\ frames'[N] = g
  <2>1. DOMAIN frames = 1 .. N
    BY <1>2, SeqFacts, Zenon
  <2> QED
    BY <1>2, <1>8, <2>1, ExceptFacts
<1> QED
  BY <1>1, <1>2, <1>13, <1>14, <1>17, <1>18, Goes, Zenon
------------------------------------------------------------------------------
(* The theorems *)

\* Every instruction keeps the inductive invariant.
LEMMA CallsIInvStep ==
  ASSUME CallsIInv, [CallsNext]_callVars
  PROVE  CallsIInv'
<1>1. CASE UNCHANGED callVars
  <2>1. /\ body' = body /\ stack' = stack /\ frames' = frames /\ gcProtected' = gcProtected
        /\ callPc' = callPc /\ tidy' = tidy
    BY <1>1, Zenon DEF callVars
  <2>2. Framed(frames, stack)'
    BY <2>1, FramedPrime, Zenon DEF CallsIInv
  <2> QED
    BY <2>1, <2>2, Zenon DEF CallsIInv, Top, EndOf
<1>2. ASSUME NEW args \in Arguments, NEW try \in BOOLEAN, NEW v \in Callees, CallOp(v, args, try)
      PROVE  CallsIInv'
  BY <1>2, CallOpKeeps, Zenon
<1>3. ASSUME NEW args \in Arguments, NEW try \in BOOLEAN, NEW c \in Classes, NEW name \in Names,
             CallProperty(c, name, args, try)
      PROVE  CallsIInv'
  BY <1>3, CallPropertyKeeps
<1>4. ASSUME NEW args \in Arguments, NEW try \in BOOLEAN, NEW o \in Receivers, NEW name \in Names,
             Invoke(o, name, args, try)
      PROVE  CallsIInv'
  BY <1>4, InvokeKeeps, Zenon
<1>5. ASSUME NEW args \in Arguments, NEW try \in BOOLEAN, NEW name \in Names,
             InvokeSelf(name, args, try) \/ SuperInvoke(name, args, try)
      PROVE  CallsIInv'
  BY <1>5, InvokeSelfKeeps, SuperInvokeKeeps, Zenon
<1>6. ASSUME NEW args \in Arguments, NEW try \in BOOLEAN, SuperInvokeSelf(args, try)
      PROVE  CallsIInv'
  BY <1>6, SuperInvokeSelfKeeps
<1>7. ASSUME NEW i \in 0 .. Len(stack), Return(i)
      PROVE  CallsIInv'
  <2>1. i \in Nat
    OBVIOUS
  <2> QED
    BY <1>7, <2>1, ReturnKeeps, Zenon
<1> QED
  BY <1>1, <1>2, <1>3, <1>4, <1>5, <1>6, <1>7, CatchKeeps, EndScopeKeeps, ReturnLastKeeps, Zenon
  DEF CallsNext

\* The inductive invariant holds in every state.
THEOREM CallsInvariant == CallsSpec => []CallsIInv
BY CallsIInvInit, CallsIInvStep, PTL DEF CallsSpec

\* For all classes, argument lists, functions and bounds: the stack is the
\* variables of the running functions, each where the compiler expects it and
\* with the value the language gives it (call, call_native_method, OP_RETURN,
\* do_throw_exception), and nothing else while no error has left values behind.
THEOREM CallsKeepTheStack == CallsSpec => []StackIsFrames
BY CallsInvariant, CallsIInvImplies, PTL

\* For every chain of classes: the method that runs is the nearest one, seen
\* from the class of self, or after parent. from the superclass of the class
\* the caller is declared in (OP_INHERIT, invoke, invoke_self,
\* invoke_from_class, bind_method).
THEOREM CallsRunTheNearest == CallsSpec => []RunsNearest
BY CallsInvariant, CallsIInvImplies, PTL

\* For every chain of classes: a private method runs only for a method of the
\* same object (the checks of invoke_from_class and of OP_GET_PROPERTY).
THEOREM CallsKeepPrivate == CallsSpec => []PrivateInside
BY CallsInvariant, CallsIInvImplies, PTL
==============================================================================
