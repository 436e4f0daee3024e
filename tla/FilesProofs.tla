------------------------------ MODULE FilesProofs -----------------------------
(***************************************************************************)
(* Proofs about Files, for any files, paths and contents and any bounds:   *)
(* every stream the process has open belongs to an object that can close   *)
(* it, and read answers with what is at its path.  The inductive invariant *)
(* says, of the streams that gets, puts and seek have left alone, where    *)
(* they are.                                                               *)
(***************************************************************************)
EXTENDS Files, SequenceTheorems, FiniteSetTheorems, TLAPS

\* A leaf that names no backend is tried with each of these.
USE SMT, Zenon, SMTT(60), SMTT(90)

\* A call's object holds a stream only while it is open, in the kind of its
\* mode; one that has not been moved is at its start, with nothing to write.
StreamKnown(o) ==
  o.stream # Null =>
    /\ o.isOpen /\ o.stream.kind = Kind(o.mode)
    /\ ~ o.moved => o.stream.buffer = <<>> /\ (o.mode # "a" => o.stream.pos = 0)

Dirs == [Path -> Node \cup {Null}]
Contents == [Node -> Seq(Data \cup {Hole})]
Live == {g \in File : file[g] # Null}

FilesTypes ==
  /\ dir \in Dirs /\ content \in Contents /\ file \in [File -> Object \cup {Null}]
  /\ Cardinality(Named(dir)) + Cardinality(Live) <= MaxThings
  /\ \A f \in Live : StreamKnown(file[f])

\* The inductive invariant.
FilesIInv ==
  /\ ended \in BOOLEAN /\ StreamsHeld
  /\ ~ ended => FilesTypes

\* A function has no more values than arguments.
LEMMA ImageSize ==
  ASSUME NEW S, IsFiniteSet(S), NEW g, DOMAIN g = S
  PROVE  /\ IsFiniteSet({g[x] : x \in S})
         /\ Cardinality({g[x] : x \in S}) <= Cardinality(S)
<1> DEFINE T == {g[x] : x \in S}
           h == [x \in S |-> g[x]]
<1>1. h \in Surjection(S, T)
  BY DEF Surjection
<1> HIDE DEF h
<1> QED
  BY <1>1, FS_Surjection

\* There is a node for a new file.
LEMMA FreeNode ==
  ASSUME FilesIInv, ~ ended
  PROVE  \E n \in Node : n \notin InUse(dir, file)
<1> DEFINE nodeOf == [p \in Named(dir) |-> dir[p]]
           heldBy == [g \in Streams |-> file[g].stream.node]
           A == {nodeOf[p] : p \in Named(dir)}
           B == {heldBy[g] : g \in Streams}
<1>1. /\ IsFiniteSet(Named(dir)) /\ IsFiniteSet(Live) /\ IsFiniteSet(Streams)
      /\ Cardinality(Streams) <= Cardinality(Live)
  <2>1. Named(dir) \subseteq Path /\ Live \subseteq File /\ Streams \subseteq Live
    BY DEF Named, Live, Streams
  <2>2. IsFiniteSet(Live)
    BY <2>1, FilesAssumption, FS_Subset
  <2> QED
    BY <2>1, <2>2, FilesAssumption, FS_Subset
<1>2. /\ Cardinality(Named(dir)) \in Nat /\ Cardinality(Live) \in Nat
      /\ Cardinality(Streams) \in Nat /\ Cardinality(Node) \in Nat
  BY <1>1, FilesAssumption, FS_CardinalityType
<1>3. Cardinality(Named(dir)) + Cardinality(Live) < Cardinality(Node)
  BY <1>2, FilesAssumption DEF FilesIInv, FilesTypes
<1>4. IsFiniteSet(A) /\ Cardinality(A) <= Cardinality(Named(dir))
  <2>1. DOMAIN nodeOf = Named(dir)
    OBVIOUS
  <2> HIDE DEF nodeOf
  <2> QED
    BY <1>1, <2>1, ImageSize
<1>5. IsFiniteSet(B) /\ Cardinality(B) <= Cardinality(Streams)
  <2>1. DOMAIN heldBy = Streams
    OBVIOUS
  <2> HIDE DEF heldBy
  <2> QED
    BY <1>1, <2>1, ImageSize
<1>6. InUse(dir, file) \ {Null} \subseteq A \cup B
  <2>1. \A p \in Named(dir) : dir[p] \in A
    <3>1. \A p \in Named(dir) : nodeOf[p] = dir[p]
      OBVIOUS
    <3> HIDE DEF nodeOf
    <3> QED
      BY <3>1
  <2>2. \A g \in Streams : file[g].stream.node \in B
    <3>1. \A g \in Streams : heldBy[g] = file[g].stream.node
      OBVIOUS
    <3> HIDE DEF heldBy
    <3> QED
      BY <3>1
  <2> HIDE DEF A, B
  <2> QED
    BY <2>1, <2>2 DEF InUse, Named, Streams
<1> HIDE DEF A, B
<1>7. /\ IsFiniteSet(A \cup B) /\ Cardinality(A \cup B) \in Nat
      /\ Cardinality(A \cup B) <= Cardinality(A) + Cardinality(B)
  <2>1. IsFiniteSet(A \cap B)
    BY <1>4, FS_Subset
  <2>2. Cardinality(A \cap B) \in Nat /\ Cardinality(A) \in Nat /\ Cardinality(B) \in Nat
    BY <1>4, <1>5, <2>1, FS_CardinalityType
  <2>3. /\ IsFiniteSet(A \cup B)
        /\ Cardinality(A \cup B) = Cardinality(A) + Cardinality(B) - Cardinality(A \cap B)
    BY <1>4, <1>5, FS_Union
  <2> QED
    BY <2>2, <2>3, FS_CardinalityType
<1>8. Cardinality(A \cup B) < Cardinality(Node)
  <2>1. Cardinality(A) \in Nat /\ Cardinality(B) \in Nat
    BY <1>4, <1>5, FS_CardinalityType
  <2> QED
    BY <1>1, <1>2, <1>3, <1>4, <1>5, <1>7, <2>1
<1>9. ~ (Node \subseteq A \cup B)
  <2> SUFFICES ASSUME Node \subseteq A \cup B PROVE FALSE
    OBVIOUS
  <2>1. Cardinality(Node) <= Cardinality(A \cup B)
    BY <1>7, FS_Subset
  <2> QED
    BY <1>2, <1>7, <1>8, <2>1
<1> QED
  BY <1>6, <1>9, FilesAssumption

\* What a call sees and leaves behind, and whether its object has a stream.
Calls == [dir : Dirs, content : Contents, handles : Int, o : Object \cup {Null}]
Held(o) == IF o # Null /\ o.stream # Null THEN 1 ELSE 0

\* The call has opened as many streams as it has closed, but for the object's.
Balanced(f, s) == s.handles = handles - Held(file[f]) + Held(s.o)

\* A call that is balanced keeps the invariant.
LEMMA LeavesKeeps ==
  ASSUME FilesIInv, ~ ended, NEW f \in File, NEW s \in Calls, Balanced(f, s),
         s.o # Null => StreamKnown(s.o), Leaves(f, s)
  PROVE  FilesIInv'
<1>1. /\ dir' = s.dir /\ handles' = s.handles /\ file' = [file EXCEPT ![f] = s.o] /\ ended' = ended
      /\ content' = [n \in Node |-> IF n \in InUse(dir', file') THEN s.content[n] ELSE <<>>]
      /\ Cardinality(Named(s.dir)) + Cardinality(Live \cup {f}) <= MaxThings
  BY DEF Leaves, Live
<1>2. /\ file \in [File -> Object \cup {Null}] /\ \A g \in Live : StreamKnown(file[g])
  BY DEF FilesIInv, FilesTypes
<1>3. s.dir \in Dirs /\ s.content \in Contents /\ s.handles \in Int /\ s.o \in Object \cup {Null}
  BY DEF Calls
<1>4. /\ file' \in [File -> Object \cup {Null}] /\ file'[f] = s.o
      /\ \A g \in File \ {f} : file'[g] = file[g]
  BY <1>1, <1>2, <1>3
<1>5. IsFiniteSet(Live) /\ IsFiniteSet(Streams)
  BY FilesAssumption, FS_Subset DEF Live, Streams
<1>6. Cardinality(Named(dir')) + Cardinality(Live') <= MaxThings
  <2>1. Live' \subseteq Live \cup {f}
    BY <1>4 DEF Live
  <2>2. IsFiniteSet(Live \cup {f})
    BY <1>5, FS_AddElement
  <2>3. Cardinality(Live') <= Cardinality(Live \cup {f}) /\ IsFiniteSet(Live')
    BY <2>1, <2>2, FS_Subset
  <2>4. IsFiniteSet(Named(s.dir))
    BY FilesAssumption, FS_Subset DEF Named
  <2>5. /\ Cardinality(Live') \in Nat /\ Cardinality(Live \cup {f}) \in Nat
        /\ Cardinality(Named(s.dir)) \in Nat
    BY <2>2, <2>3, <2>4, FS_CardinalityType
  <2> QED
    BY <1>1, <2>3, <2>5, FilesAssumption
<1>7. content' \in Contents
  BY <1>1, <1>3 DEF Contents
<1>8. \A g \in Live' : StreamKnown(file'[g])
  BY <1>2, <1>4 DEF Live
<1>9. FilesTypes'
  BY <1>1, <1>3, <1>4, <1>6, <1>7, <1>8, Zenon DEF FilesTypes, StreamKnown
<1>10. handles' = Cardinality(Streams')
  <2>1. handles = Cardinality(Streams) /\ handles \in Nat
    BY <1>5, FS_CardinalityType DEF FilesIInv, StreamsHeld
  <2>2. Held(file[f]) = IF f \in Streams THEN 1 ELSE 0
    BY DEF Held, Streams
  <2>3. CASE Held(s.o) = 1
    <3>1. Streams' = Streams \cup {f}
      BY <1>4, <2>3 DEF Streams, Held
    <3>2. Cardinality(Streams') = IF f \in Streams THEN Cardinality(Streams) ELSE Cardinality(Streams) + 1
      BY Zenon, <1>5, <3>1, FS_AddElement
    <3> QED
      BY <1>1, <2>1, <2>2, <2>3, <3>2 DEF Balanced
  <2>4. CASE Held(s.o) = 0
    <3>1. Streams' = Streams \ {f}
      BY <1>4, <2>4 DEF Streams, Held
    <3>2. Cardinality(Streams') = IF f \in Streams THEN Cardinality(Streams) - 1 ELSE Cardinality(Streams)
      BY Zenon, <1>5, <3>1, FS_RemoveElement
    <3> QED
      BY <1>1, <2>1, <2>2, <2>4, <3>2 DEF Balanced
  <2> QED
    BY <2>3, <2>4 DEF Held
<1>11. \A g \in Streams' : file'[g].isOpen /\ file'[g].stream.node \in Node
  <2> SUFFICES ASSUME NEW g \in Streams'
               PROVE  file'[g].isOpen /\ file'[g].stream.node \in Node
    OBVIOUS
  <2>1. g \in File /\ file'[g] # Null /\ file'[g].stream # Null
    BY DEF Streams
  <2>2. g \in Live'
    BY <2>1 DEF Live
  <2>3. file'[g].isOpen
    BY <1>8, <2>1, <2>2, Zenon DEF StreamKnown
  <2>4. file'[g] \in Object
    BY <1>4, <2>1
  <2>5. file'[g].stream \in Stream
    BY <2>1, <2>4 DEF Object
  <2>6. file'[g].stream.node \in Node
    BY <2>5 DEF Stream
  <2> QED
    BY <2>3, <2>6
<1> QED
  BY <1>1, <1>9, <1>10, <1>11, Zenon DEF FilesIInv, StreamsHeld

\* So does one that ends the process.
LEMMA EndsKeeps ==
  ASSUME NEW s, Ends(s)
  PROVE  FilesIInv'
<1>1. ended' = TRUE /\ handles' = 0 /\ file' = [g \in File |-> Null]
  BY DEF Ends
<1>2. Streams' = {}
  BY <1>1 DEF Streams
<1> QED
  BY <1>1, <1>2, FS_EmptySet, Zenon DEF FilesIInv, StreamsHeld

\* What a call sees at its start.
LEMMA SeesFacts ==
  ASSUME FilesIInv, ~ ended, NEW f \in File, Called(f)
  PROVE  /\ file[f] \in Object /\ StreamKnown(file[f])
         /\ Sees(file[f]) \in Calls /\ Balanced(f, Sees(file[f]))
<1>1. /\ dir \in Dirs /\ content \in Contents /\ file \in [File -> Object \cup {Null}]
      /\ \A g \in Live : StreamKnown(file[g])
  BY DEF FilesIInv, FilesTypes
<1>2. file[f] \in Object /\ StreamKnown(file[f])
  BY <1>1 DEF Called, Live
<1>3. handles \in Nat
  BY FilesAssumption, FS_Subset, FS_CardinalityType DEF FilesIInv, StreamsHeld, Streams
<1>4. Sees(file[f]) \in Calls
  BY <1>1, <1>2, <1>3 DEF Sees, Calls
<1>5. Balanced(f, Sees(file[f]))
  BY <1>3 DEF Balanced, Sees, Held
<1> QED
  BY <1>2, <1>4, <1>5

\* The parts of what a call on an object sees.
LEMMA SeesObject ==
  ASSUME NEW o
  PROVE  /\ Sees(o).o = o /\ Sees(o).dir = dir /\ Sees(o).content = content
         /\ Sees(o).handles = handles
BY DEF Sees

\* b written over c at a position.
LEMMA OverType ==
  ASSUME NEW c \in Seq(Data \cup {Hole}), NEW at \in Nat, NEW b \in Seq(Data)
  PROVE  Over(c, at, b) \in Seq(Data \cup {Hole})
<1> DEFINE n == IF at + Len(b) > Len(c) THEN at + Len(b) ELSE Len(c)
           e(k) == IF k \in at + 1 .. at + Len(b) THEN b[k - at] ELSE IF k <= Len(c) THEN c[k] ELSE Hole
<1>1. n \in Nat
  OBVIOUS
<1>2. \A k \in 1 .. n : e(k) \in Data \cup {Hole}
  <2> SUFFICES ASSUME NEW k \in 1 .. n PROVE e(k) \in Data \cup {Hole}
    OBVIOUS
  <2>1. CASE k \in at + 1 .. at + Len(b)
    <3>1. k - at \in 1 .. Len(b)
      BY <2>1
    <3> QED
      BY <2>1, <3>1
  <2>2. CASE k \notin at + 1 .. at + Len(b)
    BY <2>2
  <2> QED
    BY <2>1, <2>2
<1>3. Over(c, at, b) = [k \in 1 .. n |-> e(k)]
  BY DEF Over
<1> HIDE DEF n, e
<1>4. [k \in 1 .. n |-> e(k)] \in [1 .. n -> Data \cup {Hole}]
  BY <1>2
<1>5. \E m \in Nat : Over(c, at, b) \in [1 .. m -> Data \cup {Hole}]
  BY <1>1, <1>3, <1>4
<1> QED
  BY <1>5, SeqDef

\* The object with another stream.
With(o, stream) ==
  [path |-> o.path, mode |-> o.mode, isOpen |-> o.isOpen, stream |-> stream, moved |-> o.moved]

\* fflush changes what is in the file and empties the buffer; what has not
\* been written to it leaves as it is.
LEMMA FflushFacts ==
  ASSUME NEW s \in Calls, s.o \in Object, s.o.stream \in Stream
  PROVE  LET t == Fflush(s)
         IN  /\ t \in Calls /\ t.dir = s.dir /\ t.handles = s.handles /\ DOMAIN t.content = Node
             /\ t.o \in Object /\ t.o.stream \in Stream
             /\ t.o.path = s.o.path /\ t.o.mode = s.o.mode /\ t.o.isOpen = s.o.isOpen
             /\ t.o.moved = s.o.moved /\ t.o.stream.node = s.o.stream.node
             /\ t.o.stream.kind = s.o.stream.kind
             /\ s.o.stream.buffer = <<>> => t = s
<1> DEFINE st == s.o.stream
           at == IF st.kind \in {"a", "a+"} THEN Len(s.content[st.node]) ELSE st.pos
           c == Over(s.content[st.node], at, st.buffer)
           os == [node |-> st.node, kind |-> st.kind, buffer |-> <<>>, pos |-> at + Len(st.buffer)]
           oo == With(s.o, os)
           cc == [s.content EXCEPT ![st.node] = c]
           t == [dir |-> s.dir, content |-> cc, handles |-> s.handles, o |-> oo]
<1>1. /\ s.dir \in Dirs /\ s.content \in Contents /\ s.handles \in Int
      /\ s = [dir |-> s.dir, content |-> s.content, handles |-> s.handles, o |-> s.o]
  BY DEF Calls
<1>2. /\ st.node \in Node /\ st.kind \in Modes \cup {"a+"} /\ st.buffer \in Seq(Data) /\ st.pos \in Nat
      /\ st = [node |-> st.node, kind |-> st.kind, buffer |-> st.buffer, pos |-> st.pos]
  BY DEF Stream
<1>3. /\ s.o.path \in Path /\ s.o.mode \in Modes /\ s.o.isOpen \in BOOLEAN /\ s.o.moved \in BOOLEAN
      /\ s.o = [path |-> s.o.path, mode |-> s.o.mode, isOpen |-> s.o.isOpen, stream |-> st,
                moved |-> s.o.moved]
  BY DEF Object
<1>4. at \in Nat /\ s.content[st.node] \in Seq(Data \cup {Hole})
  BY <1>1, <1>2 DEF Contents
<1>5. c \in Seq(Data \cup {Hole})
  BY Zenon, <1>2, <1>4, OverType
<1>6. CASE st.buffer = <<>>
  <2>1. Fflush(s) = s
    BY <1>6 DEF Fflush
  <2>2. DOMAIN s.content = Node
    BY <1>1 DEF Contents
  <2> QED
    BY <2>1, <2>2, Zenon
<1>7. CASE st.buffer # <<>>
  <2>1. Fflush(s) = [s EXCEPT !.content[st.node] = c,
                              !.o.stream.buffer = <<>>, !.o.stream.pos = at + Len(st.buffer)]
    BY <1>7 DEF Fflush
  <2> HIDE DEF c, at
  <2>2. Fflush(s) = t
    <3> DEFINE e1 == [s EXCEPT !.content[st.node] = c]
               e2 == [e1 EXCEPT !.o.stream.buffer = <<>>]
               e3 == [e2 EXCEPT !.o.stream.pos = at + Len(st.buffer)]
    <3>1. e1 = [dir |-> s.dir, content |-> cc, handles |-> s.handles, o |-> s.o]
      BY <1>1
    <3>2. e2 = [dir |-> s.dir, content |-> cc, handles |-> s.handles,
                o |-> With(s.o, [node |-> st.node, kind |-> st.kind, buffer |-> <<>>, pos |-> st.pos])]
      <4> HIDE DEF e1
      <4> QED
        BY <1>2, <1>3, <3>1 DEF With
    <3>3. e3 = t
      <4> HIDE DEF e2
      <4> QED
        BY <1>2, <1>3, <3>2 DEF With
    <3>4. Fflush(s) = e3
      BY <2>1
    <3> QED
      BY <3>3, <3>4
  <2>3. os \in Stream
    BY <1>2, <1>4 DEF Stream
  <2>4. cc \in Contents /\ DOMAIN cc = Node
    BY <1>1, <1>2, <1>5 DEF Contents
  <2>5. oo \in Object
    BY <1>3, <2>3 DEF Object, With
  <2> HIDE DEF cc
  <2>6. t \in Calls
    BY <1>1, <2>4, <2>5 DEF Calls
  <2>7. /\ t.dir = s.dir /\ t.handles = s.handles /\ t.content = cc /\ t.o = oo /\ oo.stream = os
        /\ oo.path = s.o.path /\ oo.mode = s.o.mode /\ oo.isOpen = s.o.isOpen
        /\ oo.moved = s.o.moved /\ os.node = s.o.stream.node /\ os.kind = s.o.stream.kind
    BY DEF With
  <2> HIDE DEF t, oo, os
  <2> QED
    BY <1>7, <2>2, <2>3, <2>4, <2>5, <2>6, <2>7
<1> QED
  BY <1>6, <1>7

\* A balanced call that closes the file is balanced, whatever the stream.
LEMMA CloseFacts ==
  ASSUME NEW s \in Calls, s.o \in Object, NEW f \in File, Balanced(f, s), handles \in Int
  PROVE  LET t == FileClose(s)
         IN  /\ t \in Calls /\ t.o \in Object /\ t.o.stream = Null /\ Balanced(f, t)
             /\ t.dir = s.dir
<1> DEFINE u == Fflush(s)
           oo == [path |-> u.o.path, mode |-> u.o.mode, isOpen |-> FALSE, stream |-> Null,
                  moved |-> u.o.moved]
           t == [dir |-> u.dir, content |-> u.content, handles |-> u.handles - 1, o |-> oo]
<1>1. CASE s.o.stream = Null
  BY <1>1, Zenon DEF FileClose
<1>2. CASE s.o.stream # Null
  <2>1. s.o.stream \in Stream
    BY <1>2 DEF Object
  <2>2. /\ u \in Calls /\ u.dir = s.dir /\ u.handles = s.handles /\ u.o \in Object
    BY <2>1, FflushFacts, Zenon
  <2>3. FileClose(s) = [u EXCEPT !.o.stream = Null, !.o.isOpen = FALSE, !.handles = @ - 1]
    BY <1>2 DEF FileClose
  <2> HIDE DEF u
  <2>4. /\ u = [dir |-> u.dir, content |-> u.content, handles |-> u.handles, o |-> u.o]
        /\ u.dir \in Dirs /\ u.content \in Contents /\ u.handles \in Int
    BY <2>2 DEF Calls
  <2>5. /\ u.o = [path |-> u.o.path, mode |-> u.o.mode, isOpen |-> u.o.isOpen, stream |-> u.o.stream,
                  moved |-> u.o.moved]
        /\ u.o.path \in Path /\ u.o.mode \in Modes /\ u.o.moved \in BOOLEAN
    BY <2>2 DEF Object
  <2>6. FileClose(s) = t
    BY Zenon, <2>3, <2>4, <2>5
  <2>7. oo \in Object
    BY <2>5 DEF Object
  <2>8. t \in Calls
    BY <2>4, <2>7 DEF Calls
  <2>9. t.handles = u.handles - 1 /\ t.o = oo /\ oo.stream = Null /\ t.dir = u.dir
    OBVIOUS
  <2> HIDE DEF t, oo
  <2>10. Held(oo) = 0
    BY <2>9 DEF Held
  <2>11. Held(s.o) = 1
    BY <1>2, FilesAssumption DEF Held
  <2>12. s.handles \in Int /\ Held(file[f]) \in Int
    BY <2>2, <2>4 DEF Held
  <2>13. Balanced(f, t)
    BY <2>2, <2>9, <2>10, <2>11, <2>12 DEF Balanced
  <2> QED
    BY <2>2, <2>6, <2>7, <2>8, <2>9, <2>13
<1> QED
  BY <1>1, <1>2

\* What fopen leaves: no stream, or one at the start of the file at the path.
NotOpened(o, path, t) ==
  /\ dir[path] = Null
  /\ t = [dir |-> dir, content |-> content, handles |-> handles, o |-> With(o, Null)]

StreamAt(node, kind, pos) == [node |-> node, kind |-> kind, buffer |-> <<>>, pos |-> pos]

OpenedAt(o, path, kind, t) ==
  \E node \in Node, old \in Seq(Data \cup {Hole}), pos \in Nat :
    /\ dir[path] # Null => node = dir[path]
    /\ kind # "w" => old = content[node]
    /\ kind # "a" => pos = 0
    /\ t = [dir |-> [dir EXCEPT ![path] = node], content |-> [content EXCEPT ![node] = old],
            handles |-> handles + 1, o |-> With(o, StreamAt(node, kind, pos))]
    /\ t.content \in Contents

\* fopen opens the file at the path, or makes one unless it is to be read; it
\* fails only to read a path where there is none.
LEMMA FopenFacts ==
  ASSUME FilesIInv, ~ ended, NEW o \in Object, NEW path \in Path, NEW kind \in Modes \cup {"a+"}
  PROVE  LET t == Fopen(Sees(o), path, kind)
         IN  \/ NotOpened(o, path, t) /\ kind \in {"r", "r+"}
             \/ OpenedAt(o, path, kind, t)
<1> DEFINE s == Sees(o)
           found == s.dir[path]
           node == IF found # Null THEN found ELSE CHOOSE n \in Node : n \notin InUse(s.dir, file)
           old == IF kind = "w" THEN <<>> ELSE s.content[node]
           pos == IF kind = "a" THEN Len(old) ELSE 0
           t == Fopen(Sees(o), path, kind)
<1>1. dir \in Dirs /\ content \in Contents
  BY DEF FilesIInv, FilesTypes
<1>4. /\ s = [dir |-> dir, content |-> content, handles |-> handles, o |-> o]
      /\ s.dir = dir /\ s.content = content
  BY DEF Sees
<1> HIDE DEF s
<1>2. node \in Node
  <2>1. CASE found # Null
    BY <1>1, <1>4, <2>1 DEF Dirs
  <2>2. CASE found = Null
    <3>1. (CHOOSE n \in Node : n \notin InUse(s.dir, file)) \in Node
      BY <1>4, FreeNode, Zenon
    <3> QED
      BY <2>2, <3>1
  <2> QED
    BY <2>1, <2>2
<1>3. o = [path |-> o.path, mode |-> o.mode, isOpen |-> o.isOpen, stream |-> o.stream,
           moved |-> o.moved]
  BY DEF Object
<1>5. CASE found = Null /\ kind \in {"r", "r+"}
  <2>1. t = [s EXCEPT !.o.stream = Null]
    BY <1>5 DEF Fopen, s
  <2>2. t = [dir |-> dir, content |-> content, handles |-> handles, o |-> With(o, Null)]
    BY <1>3, <1>4, <2>1 DEF With
  <2> QED
    BY <1>4, <1>5, <2>2, Zenon DEF NotOpened
<1>6. CASE ~ (found = Null /\ kind \in {"r", "r+"})
  <2>1. t = [s EXCEPT !.dir[path] = node, !.content[node] = old, !.handles = @ + 1,
                      !.o.stream = StreamAt(node, kind, pos)]
    BY <1>6, Zenon DEF Fopen, StreamAt, s
  <2>2. old \in Seq(Data \cup {Hole})
    BY <1>1, <1>2, <1>4 DEF Contents
  <2>3. pos \in Nat /\ (kind # "a" => pos = 0) /\ (kind # "w" => old = content[node])
    BY <1>4, <2>2
  <2>4. dir[path] # Null => node = dir[path]
    BY <1>4
  <2> HIDE DEF node, old, pos
  <2> DEFINE cc == [content EXCEPT ![node] = old]
             dd == [dir EXCEPT ![path] = node]
             st == StreamAt(node, kind, pos)
  <2>5. t = [dir |-> dd, content |-> cc, handles |-> handles + 1, o |-> With(o, st)]
    <3> DEFINE e1 == [s EXCEPT !.dir[path] = node]
               e2 == [e1 EXCEPT !.content[node] = old]
               e3 == [e2 EXCEPT !.handles = @ + 1]
               e4 == [e3 EXCEPT !.o.stream = st]
    <3>0. e1 = [dir |-> dd, content |-> content, handles |-> handles, o |-> o]
      BY <1>4
    <3>2. t = e4
      BY <2>1
    <3> HIDE DEF e1, dd
    <3>1. e2 = [dir |-> dd, content |-> cc, handles |-> handles, o |-> o]
      BY <3>0
    <3> HIDE DEF e2, st, t, cc
    <3>3. e3 = [dir |-> dd, content |-> cc, handles |-> handles + 1, o |-> o]
      BY <3>1
    <3> HIDE DEF e3
    <3>4. e4 = [dir |-> dd, content |-> cc, handles |-> handles + 1, o |-> With(o, st)]
      BY <1>3, <3>3 DEF With
    <3> QED
      BY <3>2, <3>4
  <2>6. cc \in Contents
    BY <1>1, <1>2, <2>2 DEF Contents
  <2>7. t.content = cc
    BY <2>5
  <2> HIDE DEF cc, t, dd
  <2>8. OpenedAt(o, path, kind, t)
    BY <1>2, <2>2, <2>3, <2>4, <2>5, <2>6, <2>7, Zenon DEF OpenedAt, cc, dd
  <2> QED
    BY <2>8 DEF t
<1> QED
  BY <1>5, <1>6

\* file_open of an object: the stream it had, if it was open, or a new one, or
\* none.
LEMMA OpenFacts ==
  ASSUME FilesIInv, ~ ended, NEW f \in File, NEW o \in Object, StreamKnown(o),
         Held(o) = Held(file[f])
  PROVE  LET t == FileOpen(Sees(o))
         IN  /\ t \in Calls /\ t.o \in Object /\ Balanced(f, t) /\ StreamKnown(t.o)
             /\ t.o.path = o.path /\ t.o.mode = o.mode
<1> DEFINE kind == Kind(o.mode)
           u == Fopen(Sees(o), o.path, kind)
           opened(stream) == [path |-> o.path, mode |-> o.mode, isOpen |-> TRUE, stream |-> stream,
                              moved |-> FALSE]
           t == FileOpen(Sees(o))
<1>1. dir \in Dirs /\ content \in Contents /\ handles \in Nat
  BY FilesAssumption, FS_Subset, FS_CardinalityType
     DEF FilesIInv, FilesTypes, StreamsHeld, Streams
<1>2. /\ Sees(o) = [dir |-> dir, content |-> content, handles |-> handles, o |-> o]
      /\ Sees(o).o = o
  BY DEF Sees
<1>3. o.path \in Path /\ o.mode \in Modes /\ kind \in Modes \cup {"a+"}
  BY DEF Object, Kind, Modes
<1>4. Held(file[f]) \in Nat
  BY DEF Held
<1>5. CASE o.stream # Null
  <2>1. o.isOpen
    BY <1>5 DEF StreamKnown
  <2>2. t = Sees(o)
    BY <1>2, <1>5, <2>1 DEF FileOpen
  <2>3. Sees(o) \in Calls
    BY <1>1, <1>2 DEF Calls
  <2>4. Balanced(f, Sees(o))
    BY <1>1, <1>2, <1>4 DEF Balanced
  <2> QED
    BY <1>2, <2>2, <2>3, <2>4
<1>6. CASE o.stream = Null
  <2>1. t = [u EXCEPT !.o.isOpen = TRUE, !.o.moved = FALSE]
    BY <1>2, <1>6 DEF FileOpen
  <2>2. Held(file[f]) = 0
    BY <1>6 DEF Held
  <2>3. NotOpened(o, o.path, u) \/ OpenedAt(o, o.path, kind, u)
    BY <1>3, FopenFacts, Zenon
  <2> HIDE DEF u, kind
  <2>4. CASE NotOpened(o, o.path, u)
    <3>1. t = [dir |-> dir, content |-> content, handles |-> handles, o |-> opened(Null)]
      BY Zenon, <2>1, <2>4 DEF NotOpened, With
    <3>2. opened(Null) \in Object
      BY <1>3 DEF Object
    <3>3. opened(Null).stream = Null /\ opened(Null).path = o.path /\ opened(Null).mode = o.mode
      OBVIOUS
    <3> HIDE DEF opened, t
    <3>4. t \in Calls /\ t.o = opened(Null) /\ t.handles = handles
      BY <1>1, <3>1, <3>2 DEF Calls
    <3>5. Balanced(f, t)
      BY <1>1, <2>2, <3>3, <3>4 DEF Balanced, Held
    <3> QED
      BY <3>2, <3>3, <3>4, <3>5 DEF StreamKnown, t
  <2>5. CASE OpenedAt(o, o.path, kind, u)
    <3>1. PICK node \in Node, old \in Seq(Data \cup {Hole}), pos \in Nat :
            /\ kind # "a" => pos = 0
            /\ u = [dir |-> [dir EXCEPT ![o.path] = node], content |-> [content EXCEPT ![node] = old],
                    handles |-> handles + 1, o |-> With(o, StreamAt(node, kind, pos))]
            /\ u.content \in Contents
      BY <2>5, Zenon DEF OpenedAt
    <3> DEFINE dd == [dir EXCEPT ![o.path] = node]
               cc == [content EXCEPT ![node] = old]
               st == StreamAt(node, kind, pos)
               oo == opened(st)
    <3>2. dd \in Dirs /\ cc \in Contents
      BY <1>1, <1>3, <3>1 DEF Dirs
    <3>3. st \in Stream /\ st # Null /\ st.kind = kind /\ st.buffer = <<>> /\ st.pos = pos
      <4>1. kind \in Modes \cup {"a+"} /\ <<>> \in Seq(Data)
        BY <1>3
      <4>2. st \in Stream
        BY <4>1 DEF Stream, StreamAt
      <4>3. st # Null
        BY <4>2, FilesAssumption
      <4> QED
        BY <4>2, <4>3 DEF StreamAt
    <3> HIDE DEF st, dd, cc
    <3>4. t = [dir |-> dd, content |-> cc, handles |-> handles + 1, o |-> oo]
      <4>1. u = [dir |-> dd, content |-> cc, handles |-> handles + 1, o |-> With(o, st)]
        BY <3>1 DEF dd, cc, st
      <4> QED
        BY Zenon, <2>1, <4>1 DEF With
    <3>5. oo \in Object
      BY <1>3, <3>3 DEF Object
    <3>6. /\ oo.stream = st /\ oo.path = o.path /\ oo.mode = o.mode /\ oo.isOpen = TRUE
      OBVIOUS
    <3> HIDE DEF oo, t
    <3>7. t \in Calls /\ t.o = oo /\ t.handles = handles + 1
      BY <1>1, <3>2, <3>4, <3>5 DEF Calls
    <3>8. Balanced(f, t)
      <4>1. Held(oo) = 1
        BY <3>3, <3>5, <3>6, FilesAssumption DEF Held
      <4> QED
        BY <1>1, <2>2, <3>7, <4>1 DEF Balanced
    <3>9. StreamKnown(oo)
      <4>1. oo.mode # "a" => kind # "a"
        BY <3>6 DEF kind, Kind
      <4>2. oo.mode # "a" => st.pos = 0
        BY <3>1, <3>3, <4>1
      <4> QED
        BY <3>3, <3>6, <4>2 DEF StreamKnown, kind
    <3> QED
      BY <3>5, <3>6, <3>7, <3>8, <3>9 DEF t
  <2> QED
    BY <2>3, <2>4, <2>5
<1> QED
  BY <1>5, <1>6

\* The call goes on with another stream in its object.
Update(s, stream, moved) ==
  [dir |-> s.dir, content |-> s.content, handles |-> s.handles,
   o |-> [path |-> s.o.path, mode |-> s.o.mode, isOpen |-> s.o.isOpen, stream |-> stream,
          moved |-> moved]]

Updated(s, t, stream, moved) ==
  /\ t \in Calls /\ t.o \in Object /\ t.dir = s.dir /\ t.content = s.content
  /\ t.o.stream = stream /\ t.o.moved = moved
  /\ t.o.path = s.o.path /\ t.o.mode = s.o.mode /\ t.o.isOpen = s.o.isOpen
  /\ \A f \in File : Balanced(f, s) => Balanced(f, t)

\* A stream and a flag put into an object leave the rest of it alone.
LEMMA UpdateFacts ==
  ASSUME NEW s \in Calls, s.o \in Object, s.o.stream \in Stream,
         NEW stream \in Stream, NEW moved \in BOOLEAN
  PROVE  Updated(s, Update(s, stream, moved), stream, moved)
<1> DEFINE t == Update(s, stream, moved)
           oo == [path |-> s.o.path, mode |-> s.o.mode, isOpen |-> s.o.isOpen, stream |-> stream,
                  moved |-> moved]
<1>1. s.dir \in Dirs /\ s.content \in Contents /\ s.handles \in Int
  BY DEF Calls
<1>2. oo \in Object
  BY DEF Object
<1>3. /\ oo.stream = stream /\ oo.moved = moved
      /\ oo.path = s.o.path /\ oo.mode = s.o.mode /\ oo.isOpen = s.o.isOpen
  OBVIOUS
<1>4. t = [dir |-> s.dir, content |-> s.content, handles |-> s.handles, o |-> oo]
  BY DEF Update
<1> HIDE DEF oo, t
<1>5. /\ t \in Calls /\ t.dir = s.dir /\ t.content = s.content /\ t.handles = s.handles /\ t.o = oo
  BY <1>1, <1>2, <1>4 DEF Calls
<1>6. Held(oo) = Held(s.o)
  BY <1>2, <1>3, FilesAssumption DEF Held
<1>7. \A f \in File : Balanced(f, s) => Balanced(f, t)
  BY <1>5, <1>6 DEF Balanced
<1> QED
  BY <1>2, <1>3, <1>5, <1>7 DEF t, Updated

\* Streams are moved and written to.
AtPos(st, p) == [node |-> st.node, kind |-> st.kind, buffer |-> st.buffer, pos |-> p]
Buffering(st, b) == [node |-> st.node, kind |-> st.kind, buffer |-> b, pos |-> st.pos]

\* The calls' changes to a stream are such updates.
LEMMA Updates ==
  ASSUME NEW s \in Calls, s.o \in Object, s.o.stream \in Stream
  PROVE  /\ \A p \in Nat :
              /\ AtPos(s.o.stream, p) \in Stream
              /\ [s EXCEPT !.o.stream.pos = p] = Update(s, AtPos(s.o.stream, p), s.o.moved)
              /\ [s EXCEPT !.o.stream.pos = p, !.o.moved = TRUE] = Update(s, AtPos(s.o.stream, p), TRUE)
         /\ \A b \in Seq(Data) :
              /\ Buffering(s.o.stream, b) \in Stream
              /\ [s EXCEPT !.o.stream.buffer = b] = Update(s, Buffering(s.o.stream, b), s.o.moved)
<1> DEFINE st == s.o.stream
<1>1. s = [dir |-> s.dir, content |-> s.content, handles |-> s.handles, o |-> s.o]
  BY DEF Calls
<1>2. /\ st = [node |-> st.node, kind |-> st.kind, buffer |-> st.buffer, pos |-> st.pos]
      /\ st.node \in Node /\ st.kind \in Modes \cup {"a+"} /\ st.buffer \in Seq(Data) /\ st.pos \in Nat
  BY DEF Stream
<1>3. s.o = [path |-> s.o.path, mode |-> s.o.mode, isOpen |-> s.o.isOpen, stream |-> st,
             moved |-> s.o.moved]
  BY DEF Object
<1>4. ASSUME NEW p \in Nat
      PROVE  /\ AtPos(st, p) \in Stream
             /\ [s EXCEPT !.o.stream.pos = p] = Update(s, AtPos(st, p), s.o.moved)
             /\ [s EXCEPT !.o.stream.pos = p, !.o.moved = TRUE] = Update(s, AtPos(st, p), TRUE)
  <2>1. AtPos(st, p) \in Stream
    BY <1>2 DEF AtPos, Stream
  <2> DEFINE e == [s EXCEPT !.o.stream.pos = p]
  <2>2. e = Update(s, AtPos(st, p), s.o.moved)
    BY <1>1, <1>2, <1>3 DEF Update, AtPos
  <2>3. ASSUME NEW moved
        PROVE  [e EXCEPT !.o.moved = moved] = Update(s, AtPos(st, p), moved)
    <3> HIDE DEF e
    <3> QED
      BY <2>2 DEF Update
  <2>4. [e EXCEPT !.o.moved = TRUE] = Update(s, AtPos(st, p), TRUE)
    BY <2>3, Zenon
  <2> QED
    BY <2>1, <2>2, <2>4
<1>5. ASSUME NEW b \in Seq(Data)
      PROVE  /\ Buffering(st, b) \in Stream
             /\ [s EXCEPT !.o.stream.buffer = b] = Update(s, Buffering(st, b), s.o.moved)
  <2>1. Buffering(st, b) \in Stream
    BY <1>2 DEF Buffering, Stream
  <2>2. [s EXCEPT !.o.stream.buffer = b] = Update(s, Buffering(st, b), s.o.moved)
    BY <1>1, <1>2, <1>3 DEF Update, Buffering
  <2> QED
    BY <2>1, <2>2
<1> QED
  BY Zenon, <1>4, <1>5

\* What fread gets.
LEMMA FreadFacts ==
  ASSUME NEW s \in Calls, s.o \in Object, s.o.stream \in Stream, NEW n \in Nat
  PROVE  Fread(s, n) \in Seq(Data \cup {Hole})
<1> DEFINE c == s.content[s.o.stream.node]
           pos == s.o.stream.pos
           first == pos + 1
           last == pos + n
           to == IF last < Len(c) THEN last ELSE Len(c)
<1>1. c \in Seq(Data \cup {Hole}) /\ pos \in Nat
  BY DEF Calls, Contents, Stream
<1> HIDE DEF c, pos
<1>2. first \in Nat /\ to \in Int /\ \A i \in first .. to : c[i] \in Data \cup {Hole}
  <2>1. first \in Nat /\ first >= 1 /\ last \in Nat /\ Len(c) \in Nat
    BY <1>1
  <2>2. to \in Nat /\ to <= Len(c)
    BY <2>1
  <2>3. \A i \in first .. to : i \in 1 .. Len(c)
    BY <2>1, <2>2
  <2> HIDE DEF first, to
  <2>4. \A i \in first .. to : c[i] \in Data \cup {Hole}
    BY <1>1, <2>3
  <2> QED
    BY <2>1, <2>2, <2>4
<1> HIDE DEF first, to
<1>3. SubSeq(c, first, to) \in Seq(Data \cup {Hole})
  BY <1>2, SubSeqProperties
<1>4. Fread(s, n) = IF s.o.stream.kind \in {"w", "a"} THEN <<>> ELSE SubSeq(c, first, to)
  BY DEF Fread, c, pos, first, to
<1> QED
  BY <1>3, <1>4

\* A call that ends with an error closes the file.
LEMMA ErrorKeeps ==
  ASSUME FilesIInv, NEW f \in File, Called(f), NEW s \in Calls, s.o \in Object, Balanced(f, s),
         Leaves(f, FileClose(s))
  PROVE  FilesIInv'
<1>1. ~ ended /\ handles \in Int
  BY FilesAssumption, FS_Subset, FS_CardinalityType DEF Called, FilesIInv, StreamsHeld, Streams
<1> DEFINE t == FileClose(s)
<1>2. t \in Calls /\ t.o \in Object /\ t.o.stream = Null /\ Balanced(f, t)
  BY <1>1, CloseFacts, Zenon
<1>3. StreamKnown(t.o)
  BY <1>2, Zenon DEF StreamKnown
<1> HIDE DEF t
<1> QED
  BY <1>1, <1>2, <1>3, LeavesKeeps, Zenon DEF t

\* file(path, mode)
LEMMA NewKeeps ==
  ASSUME FilesIInv, NEW f \in File, NEW p \in Source, NEW m \in Mode[f], New(f, p, m)
  PROVE  FilesIInv'
<1> DEFINE o == [path |-> p, mode |-> m, isOpen |-> TRUE, stream |-> Null, moved |-> FALSE]
           t == FileOpen(Sees(o))
<1>1. ~ ended /\ Leaves(f, t)
  BY DEF New
<1>2. file[f] = Null
  <2>1. \E g \in File : file[g] = Null
    BY DEF New
  <2>2. f = CHOOSE g \in File : file[g] = Null
    BY DEF New
  <2> QED
    BY <2>1, <2>2, Zenon
<1>3. o \in Object /\ o.stream = Null
  BY FilesAssumption DEF Object
<1> HIDE DEF o
<1>4. StreamKnown(o) /\ Held(o) = Held(file[f])
  BY <1>2, <1>3 DEF StreamKnown, Held
<1>5. t \in Calls /\ Balanced(f, t) /\ StreamKnown(t.o)
  BY <1>1, <1>3, <1>4, OpenFacts, Zenon
<1> QED
  BY <1>1, <1>5, LeavesKeeps, Zenon

\* close
LEMMA CloseKeeps ==
  ASSUME FilesIInv, NEW f \in File, Close(f)
  PROVE  FilesIInv'
BY SeesFacts, SeesObject, ErrorKeeps, Zenon DEF Close, Called

\* open
LEMMA OpenKeeps ==
  ASSUME FilesIInv, NEW f \in File, Open(f)
  PROVE  FilesIInv'
<1> DEFINE t == FileOpen(Sees(file[f]))
<1>1. ~ ended /\ Called(f) /\ Leaves(f, t)
  BY DEF Open, Called
<1>2. t \in Calls /\ Balanced(f, t) /\ StreamKnown(t.o)
  BY <1>1, SeesFacts, OpenFacts, Zenon
<1> QED
  BY <1>1, <1>2, LeavesKeeps, Zenon

\* read opens the file if is_open says that it is not.
LEMMA OpenedFacts ==
  ASSUME FilesIInv, NEW f \in File, Called(f)
  PROVE  LET t == Opened(f)
         IN  /\ t \in Calls /\ t.o \in Object /\ Balanced(f, t) /\ StreamKnown(t.o)
             /\ t.o.path = file[f].path /\ t.o.mode = file[f].mode
<1>1. ~ ended
  BY DEF Called
<1>2. /\ file[f] \in Object /\ StreamKnown(file[f])
      /\ Sees(file[f]) \in Calls /\ Balanced(f, Sees(file[f]))
  BY <1>1, SeesFacts, Zenon
<1>3. CASE file[f].isOpen
  BY <1>2, <1>3, SeesObject, Zenon DEF Opened
<1>4. CASE ~ file[f].isOpen
  BY <1>1, <1>2, <1>4, OpenFacts, Zenon DEF Opened
<1> QED
  BY <1>3, <1>4

\* What read has done when it closes the file.
LEMMA ReadingFacts ==
  ASSUME FilesIInv, NEW f \in File, Called(f), Opened(f).o.stream # Null, NEW want \in Size \cup {All}
  PROVE  LET t == Reading(f, want).after IN t \in Calls /\ t.o \in Object /\ Balanced(f, t)
<1> DEFINE opened == Opened(f)
           there == opened.dir[file[f].path]
           u == Fflush(opened)
           s == IF there # Null THEN u ELSE [u EXCEPT !.o.stream.pos = 0]
           real == Len(IF there # Null THEN opened.content[there] ELSE s.content[s.o.stream.node])
           n == IF want = All \/ want > real THEN real ELSE want
           got == Fread(s, n)
<1>1. /\ opened \in Calls /\ opened.o \in Object /\ Balanced(f, opened)
      /\ opened.o.path = file[f].path
  BY OpenedFacts, Zenon
<1>2. opened.o.stream \in Stream
  BY <1>1 DEF Object
<1>3. u \in Calls /\ u.o \in Object /\ u.o.stream \in Stream /\ u.handles = opened.handles
  BY <1>1, <1>2, FflushFacts, Zenon
<1>4. Balanced(f, u)
  <2>1. Held(u.o) = Held(opened.o)
    BY <1>1, <1>2, <1>3, FilesAssumption DEF Held
  <2> QED
    BY <1>1, <1>3, <2>1, Zenon DEF Balanced
<1>5. there \in Node \cup {Null}
  BY <1>1 DEF Calls, Dirs, Object
<1>6. s \in Calls /\ s.o \in Object /\ s.o.stream \in Stream /\ Balanced(f, s)
  <2>1. 0 \in Nat
    OBVIOUS
  <2>2. AtPos(u.o.stream, 0) \in Stream /\ u.o.moved \in BOOLEAN
    <3>1. AtPos(u.o.stream, 0) \in Stream
      BY <1>3, <2>1, Updates, Zenon
    <3> HIDE DEF u
    <3> QED
      BY <1>3, <3>1 DEF Object
  <2>3. [u EXCEPT !.o.stream.pos = 0] = Update(u, AtPos(u.o.stream, 0), u.o.moved)
    BY <1>3, <2>1, Updates, Zenon
  <2> DEFINE v == Update(u, AtPos(u.o.stream, 0), u.o.moved)
  <2>4. v \in Calls /\ v.o \in Object /\ v.o.stream \in Stream /\ Balanced(f, v)
    <3> HIDE DEF u
    <3>1. Updated(u, v, AtPos(u.o.stream, 0), u.o.moved)
      BY <1>3, <2>2, UpdateFacts, Zenon
    <3> QED
      BY <1>4, <2>2, <3>1, Zenon DEF Updated
  <2> HIDE DEF v
  <2>5. s = IF there # Null THEN u ELSE v
    BY <2>3 DEF v
  <2> HIDE DEF s, u
  <2> QED
    BY <1>3, <1>4, <2>4, <2>5
<1>7. real \in Nat
  <2>1. there # Null => opened.content[there] \in Seq(Data \cup {Hole})
    BY <1>1, <1>5 DEF Calls, Contents
  <2> HIDE DEF opened, s, there
  <2>2. s.content[s.o.stream.node] \in Seq(Data \cup {Hole})
    BY <1>6 DEF Calls, Contents, Stream
  <2> QED
    BY <2>1, <2>2
<1> HIDE DEF real
<1>8. n \in Nat
  BY <1>7, FilesAssumption DEF All
<1> HIDE DEF n, s
<1>9. got \in Seq(Data \cup {Hole})
  BY <1>6, <1>8, FreadFacts
<1> HIDE DEF got
<1>10. s.o.stream.pos + Len(got) \in Nat
  <2>1. s.o.stream.pos \in Nat /\ Len(got) \in Nat
    BY <1>6, <1>9 DEF Stream
  <2> QED
    BY <2>1
<1> DEFINE p == s.o.stream.pos + Len(got)
           t == Update(s, AtPos(s.o.stream, p), s.o.moved)
<1>11. Reading(f, want).after = [s EXCEPT !.o.stream.pos = s.o.stream.pos + Len(got)]
  BY DEF Reading, s, real, n, got
<1> HIDE DEF p
<1>12. Reading(f, want).after = t
  <2>1. p \in Nat
    BY <1>10 DEF p
  <2>2. [s EXCEPT !.o.stream.pos = p] = t
    BY <1>6, <2>1, Updates, Zenon
  <2> QED
    BY <1>11, <2>2 DEF p
<1>13. t \in Calls /\ t.o \in Object /\ Balanced(f, t)
  <2>1. p \in Nat
    BY <1>10 DEF p
  <2>2. AtPos(s.o.stream, p) \in Stream /\ s.o.moved \in BOOLEAN
    <3>1. AtPos(s.o.stream, p) \in Stream
      BY <1>6, <2>1, Updates, Zenon
    <3> QED
      BY <1>6, <3>1 DEF Object
  <2>3. Updated(s, t, AtPos(s.o.stream, p), s.o.moved)
    BY <1>6, <2>2, UpdateFacts, Zenon
  <2> QED
    BY <1>6, <2>3, Zenon DEF Updated
<1> HIDE DEF t
<1> QED
  BY <1>12, <1>13

\* read
LEMMA ReadKeeps ==
  ASSUME FilesIInv, NEW f \in File, NEW want \in Size \cup {All}, Read(f, want)
  PROVE  FilesIInv'
<1>1. Called(f)
  BY DEF Read
<1>2. CASE Unreadable(f) /\ FileError(f, Sees(file[f]))
  BY <1>1, <1>2, SeesFacts, SeesObject, ErrorKeeps, Zenon DEF FileError, Called
<1>3. CASE FileError(f, Opened(f))
  BY <1>1, <1>3, OpenedFacts, ErrorKeeps, Zenon DEF FileError
<1>4. CASE Opened(f).o.stream # Null /\ Leaves(f, FileClose(Reading(f, want).after))
  BY <1>1, <1>4, ReadingFacts, ErrorKeeps, Zenon
<1> QED
  BY <1>2, <1>3, <1>4, Zenon DEF Read

\* A call that begins with its object as it is.
LEMMA CalledFacts ==
  ASSUME FilesIInv, NEW f \in File, Called(f)
  PROVE  /\ ~ ended /\ file[f] \in Object /\ StreamKnown(file[f])
         /\ Sees(file[f]) \in Calls /\ Sees(file[f]).o = file[f] /\ Balanced(f, Sees(file[f]))
BY SeesFacts, SeesObject, Zenon DEF Called

\* and one that ends with FILE_ERROR before it has done anything.
LEMMA AtOnceKeeps ==
  ASSUME FilesIInv, NEW f \in File, Called(f), FileError(f, Sees(file[f]))
  PROVE  FilesIInv'
BY CalledFacts, ErrorKeeps, Zenon DEF FileError

\* Nothing moved, nothing broken.
LEMMA NothingKeeps ==
  ASSUME FilesIInv, UNCHANGED fileVars
  PROVE  FilesIInv'
<1>1. UNCHANGED <<dir, content, file, handles, ended>>
  BY DEF fileVars
<1>2. FilesTypes' <=> FilesTypes
  BY <1>1, Zenon DEF FilesTypes, Live
<1> QED
  BY <1>1, <1>2, Zenon DEF FilesIInv, StreamsHeld, Streams

\* An object's stream flushed, as gets, flush and seek begin.
Flushed(f, s) ==
  /\ s \in Calls /\ s.o \in Object /\ s.o.stream \in Stream /\ Balanced(f, s) /\ StreamKnown(s.o)
  /\ s.o.mode = file[f].mode /\ s.o.isOpen = file[f].isOpen
  /\ s.o.stream.kind = file[f].stream.kind

\* Such a flush keeps what is known of the object and its stream.
LEMMA FlushedFacts ==
  ASSUME FilesIInv, NEW f \in File, Called(f), file[f].stream # Null
  PROVE  Flushed(f, Fflush(Sees(file[f])))
<1> DEFINE r == Sees(file[f])
           s == Fflush(r)
<1>1. /\ file[f] \in Object /\ StreamKnown(file[f]) /\ r \in Calls /\ r.o = file[f] /\ Balanced(f, r)
  BY CalledFacts, Zenon
<1>2. r.o.stream \in Stream
  BY <1>1 DEF Object
<1> HIDE DEF r
<1>3. /\ s \in Calls /\ s.dir = r.dir /\ s.handles = r.handles
      /\ s.o \in Object /\ s.o.stream \in Stream
      /\ s.o.mode = r.o.mode /\ s.o.isOpen = r.o.isOpen
      /\ s.o.moved = r.o.moved /\ s.o.stream.kind = r.o.stream.kind
      /\ r.o.stream.buffer = <<>> => s = r
  BY <1>1, <1>2, FflushFacts, Zenon
<1> HIDE DEF s
<1>4. Balanced(f, s)
  <2>1. Held(s.o) = Held(r.o)
    BY <1>1, <1>2, <1>3, FilesAssumption DEF Held
  <2> QED
    BY <1>1, <1>3, <2>1, Zenon DEF Balanced
<1>5. StreamKnown(s.o)
  <2>1. r.o.stream # Null
    BY <1>2, FilesAssumption
  <2> QED
    BY <1>1, <1>3, <2>1, Zenon DEF StreamKnown
<1>6. Flushed(f, s)
  BY <1>1, <1>3, <1>4, <1>5, Zenon DEF Flushed
<1> QED
  BY <1>6 DEF s, r

\* The stream of a flushed object is moved, which is noted.
LEMMA MovedKeeps ==
  ASSUME FilesIInv, NEW f \in File, Called(f), file[f].stream # Null, NEW p \in Nat,
         NEW s, Flushed(f, s), Leaves(f, [s EXCEPT !.o.stream.pos = p, !.o.moved = TRUE])
  PROVE  FilesIInv'
<1> DEFINE t == Update(s, AtPos(s.o.stream, p), TRUE)
<1>1. /\ s \in Calls /\ s.o \in Object /\ s.o.stream \in Stream /\ Balanced(f, s) /\ StreamKnown(s.o)
  BY Zenon DEF Flushed
<1>2. /\ AtPos(s.o.stream, p) \in Stream
      /\ [s EXCEPT !.o.stream.pos = p, !.o.moved = TRUE] = t
  BY <1>1, Updates, Zenon
<1>3. TRUE \in BOOLEAN
  BY Zenon
<1>4. Updated(s, t, AtPos(s.o.stream, p), TRUE)
  BY <1>1, <1>2, <1>3, UpdateFacts, Zenon
<1>5. AtPos(s.o.stream, p).kind = s.o.stream.kind /\ s.o.stream # Null
  BY <1>1, FilesAssumption DEF AtPos
<1> HIDE DEF t
<1>6. t \in Calls /\ Balanced(f, t)
  BY <1>1, <1>4, Zenon DEF Updated
<1>7. StreamKnown(t.o)
  BY <1>1, <1>4, <1>5, Zenon DEF StreamKnown, Updated
<1>8. ~ ended /\ Leaves(f, t)
  BY <1>2, Zenon DEF Called
<1> QED
  BY <1>6, <1>7, <1>8, LeavesKeeps, Zenon

\* gets
LEMMA GetsKeeps ==
  ASSUME FilesIInv, NEW f \in File, NEW want \in Size \cup {All}, Gets(f, want)
  PROVE  FilesIInv'
<1> DEFINE o == file[f]
           s == Fflush(Sees(o))
           n == IF want = All THEN Len(s.content[o.stream.node]) - s.o.stream.pos ELSE want
           got == Fread(s, n)
<1>1. Called(f)
  BY DEF Gets
<1>2. CASE FileError(f, Sees(o))
  BY <1>1, <1>2, AtOnceKeeps, Zenon
<1>3. CASE /\ o.stream # Null
           /\ \/ Exit(f, s)
              \/ FileError(f, s)
              \/ /\ n = 0 \/ n > 0
                 /\ Leaves(f, [s EXCEPT !.o.stream.pos = @ + Len(got), !.o.moved = TRUE])
  <2>1. Flushed(f, s)
    BY <1>1, <1>3, FlushedFacts, Zenon
  <2>2. o.stream \in Stream
    BY <1>1, <1>3, CalledFacts DEF Object
  <2> HIDE DEF s
  <2>3. s \in Calls /\ s.o \in Object /\ s.o.stream \in Stream /\ Balanced(f, s)
    BY <2>1, Zenon DEF Flushed
  <2>4. n \in Int
    <3>1. s.content[o.stream.node] \in Seq(Data \cup {Hole}) /\ s.o.stream.pos \in Nat
      BY <2>2, <2>3 DEF Calls, Contents, Stream
    <3> HIDE DEF o
    <3>2. Len(s.content[o.stream.node]) \in Nat
      BY <3>1
    <3>3. want # All => want \in Nat
      BY FilesAssumption
    <3> QED
      BY <3>1, <3>2, <3>3
  <2> HIDE DEF n, got
  <2>5. CASE Exit(f, s)
    BY <2>5, EndsKeeps, Zenon DEF Exit
  <2>6. CASE FileError(f, s)
    BY <1>1, <2>3, <2>6, ErrorKeeps, Zenon DEF FileError
  <2>7. CASE /\ n = 0 \/ n > 0
             /\ Leaves(f, [s EXCEPT !.o.stream.pos = @ + Len(got), !.o.moved = TRUE])
    <3> DEFINE p == s.o.stream.pos + Len(got)
    <3>1. n \in Nat
      BY <2>4, <2>7
    <3>2. got \in Seq(Data \cup {Hole})
      BY <2>3, <3>1, FreadFacts, Zenon DEF got
    <3>3. p \in Nat
      <4>1. s.o.stream.pos \in Nat /\ Len(got) \in Nat
        BY <2>3, <3>2 DEF Stream
      <4> QED
        BY <4>1
    <3>4. Leaves(f, [s EXCEPT !.o.stream.pos = p, !.o.moved = TRUE])
      BY <2>7
    <3> HIDE DEF p
    <3> QED
      BY <1>1, <1>3, <2>1, <3>3, <3>4, MovedKeeps, Zenon
  <2> QED
    BY <1>3, <2>5, <2>6, <2>7, Zenon
<1> QED
  BY <1>2, <1>3, Zenon DEF Gets

\* fwrite of one byte to the stream of an object.
LEMMA FwriteFacts ==
  ASSUME NEW s \in Calls, s.o \in Object, s.o.stream \in Stream, NEW d \in Data
  PROVE  \E b \in Seq(Data) : Fwrite(s, d) = Update(s, Buffering(s.o.stream, b), s.o.moved)
<1> DEFINE b == Append(s.o.stream.buffer, d)
<1>1. b \in Seq(Data)
  BY DEF Stream
<1>2. Fwrite(s, d) = [s EXCEPT !.o.stream.buffer = b]
  BY DEF Fwrite
<1> HIDE DEF b
<1>3. [s EXCEPT !.o.stream.buffer = b] = Update(s, Buffering(s.o.stream, b), s.o.moved)
  BY <1>1, Updates, Zenon
<1> QED
  BY <1>1, <1>2, <1>3, Zenon

\* write
LEMMA WriteKeeps ==
  ASSUME FilesIInv, NEW f \in File, NEW d \in Data \cup {Null}, Write(f, d)
  PROVE  FilesIInv'
<1> DEFINE o == file[f]
           s == FileOpen(Sees(o))
<1>1. Called(f)
  BY DEF Write
<1>2. s \in Calls /\ s.o \in Object /\ Balanced(f, s)
  BY <1>1, CalledFacts, OpenFacts, Zenon
<1>3. CASE FileError(f, Sees(o))
  BY <1>1, <1>3, AtOnceKeeps, Zenon
<1>4. CASE FileError(f, s)
  BY <1>1, <1>2, <1>4, ErrorKeeps, Zenon DEF FileError
<1>5. CASE d # Null /\ s.o.stream # Null /\ Leaves(f, FileClose(Fwrite(s, d)))
  <2> HIDE DEF s
  <2>1. s.o.stream \in Stream /\ s.o.moved \in BOOLEAN /\ d \in Data
    BY <1>2, <1>5 DEF Object
  <2>2. PICK b \in Seq(Data) : Fwrite(s, d) = Update(s, Buffering(s.o.stream, b), s.o.moved)
    BY <1>2, <2>1, FwriteFacts, Zenon
  <2>3. Buffering(s.o.stream, b) \in Stream
    BY <1>2, <2>1, Updates, Zenon
  <2> DEFINE t == Update(s, Buffering(s.o.stream, b), s.o.moved)
  <2>4. Updated(s, t, Buffering(s.o.stream, b), s.o.moved)
    BY <1>2, <2>1, <2>3, UpdateFacts, Zenon
  <2> HIDE DEF t
  <2>5. t \in Calls /\ t.o \in Object /\ Balanced(f, t)
    BY <1>2, <2>4, Zenon DEF Updated
  <2>6. Leaves(f, FileClose(t))
    BY <1>5, <2>2, Zenon DEF t
  <2> QED
    BY <1>1, <2>5, <2>6, ErrorKeeps, Zenon
<1> QED
  BY <1>3, <1>4, <1>5, Zenon DEF Write

\* puts
LEMMA PutsKeeps ==
  ASSUME FilesIInv, NEW f \in File, NEW d \in Data \cup {Null}, Puts(f, d)
  PROVE  FilesIInv'
<1> DEFINE o == file[f]
           s == Sees(o)
<1>1. Called(f)
  BY DEF Puts
<1>2. /\ ~ ended /\ o \in Object /\ StreamKnown(o) /\ s \in Calls /\ s.o = o /\ Balanced(f, s)
  BY <1>1, CalledFacts, Zenon
<1>3. CASE FileError(f, s)
  BY <1>1, <1>3, AtOnceKeeps, Zenon
<1>4. CASE d # Null /\ o.stream # Null /\ Leaves(f, [Fwrite(s, d) EXCEPT !.o.moved = TRUE])
  <2> HIDE DEF s
  <2>1. s.o \in Object /\ s.o.stream \in Stream /\ d \in Data /\ TRUE \in BOOLEAN
    BY <1>2, <1>4 DEF Object
  <2>2. PICK b \in Seq(Data) : Fwrite(s, d) = Update(s, Buffering(s.o.stream, b), s.o.moved)
    BY <1>2, <2>1, FwriteFacts, Zenon
  <2> DEFINE st == Buffering(s.o.stream, b)
             t == Update(s, st, TRUE)
  <2>3. st \in Stream /\ st.kind = s.o.stream.kind /\ s.o.stream # Null
    <3>1. st \in Stream
      BY <1>2, <2>1, Updates, Zenon
    <3> QED
      BY <1>2, <1>4, <3>1 DEF Buffering
  <2> HIDE DEF st
  <2>4. [Fwrite(s, d) EXCEPT !.o.moved = TRUE] = t
    <3>1. ASSUME NEW moved
          PROVE  [Fwrite(s, d) EXCEPT !.o.moved = moved] = Update(s, st, moved)
      BY <2>2 DEF Update, st
    <3> QED
      BY <3>1, Zenon
  <2>5. Updated(s, t, st, TRUE)
    BY <1>2, <2>1, <2>3, UpdateFacts, Zenon
  <2> HIDE DEF t
  <2>6. t \in Calls /\ Balanced(f, t)
    BY <1>2, <2>5, Zenon DEF Updated
  <2>7. StreamKnown(t.o)
    BY <1>2, <2>3, <2>5, Zenon DEF StreamKnown, Updated
  <2>8. Leaves(f, t)
    BY <1>4, <2>4, Zenon
  <2> QED
    BY <1>2, <2>6, <2>7, <2>8, LeavesKeeps, Zenon
<1> QED
  BY <1>3, <1>4, Zenon DEF Puts

\* flush
LEMMA FlushKeeps ==
  ASSUME FilesIInv, NEW f \in File, Flush(f)
  PROVE  FilesIInv'
<1> DEFINE o == file[f]
           s == Fflush(Sees(o))
<1>1. Called(f) /\ ~ ended
  BY DEF Flush, Called
<1>2. CASE FileError(f, Sees(o))
  BY <1>1, <1>2, AtOnceKeeps, Zenon
<1>3. CASE Ends(Sees(o))
  BY <1>3, EndsKeeps, Zenon
<1>4. CASE o.stream # Null /\ Leaves(f, s)
  <2>1. Flushed(f, s)
    BY <1>1, <1>4, FlushedFacts, Zenon
  <2> HIDE DEF s
  <2> QED
    BY <1>1, <1>4, <2>1, LeavesKeeps, Zenon DEF Flushed
<1> QED
  BY <1>2, <1>3, <1>4, Zenon DEF Flush

\* seek
LEMMA SeekKeeps ==
  ASSUME FilesIInv, NEW f \in File, NEW at \in -1 .. 1, Seek(f, at)
  PROVE  FilesIInv'
<1> DEFINE o == file[f]
           s == Fflush(Sees(o))
<1>1. Called(f) /\ ~ ended
  BY DEF Seek, Called
<1>2. CASE Ends(Sees(o))
  BY <1>2, EndsKeeps, Zenon
<1>3. CASE o.stream # Null /\ FileError(f, s)
  <2>1. Flushed(f, s)
    BY <1>1, <1>3, FlushedFacts, Zenon
  <2> HIDE DEF s
  <2> QED
    BY <1>1, <1>3, <2>1, ErrorKeeps, Zenon DEF FileError, Flushed
<1>4. CASE o.stream # Null /\ at >= 0 /\ Leaves(f, [s EXCEPT !.o.stream.pos = at, !.o.moved = TRUE])
  <2>1. Flushed(f, s)
    BY <1>1, <1>4, FlushedFacts, Zenon
  <2> HIDE DEF s
  <2>2. at \in Nat
    BY <1>4
  <2> QED
    BY <1>1, <1>4, <2>1, <2>2, MovedKeeps, Zenon
<1> QED
  BY <1>2, <1>3, <1>4, Zenon DEF Seek

\* tell
LEMMA TellKeeps ==
  ASSUME FilesIInv, NEW f \in File, Tell(f)
  PROVE  FilesIInv'
BY EndsKeeps, NothingKeeps, Zenon DEF Tell, ReturnError

\* Another file system under the same object.
LEMMA SystemFacts ==
  ASSUME NEW s \in Calls, NEW f \in File, Balanced(f, s), NEW d \in Dirs, NEW c \in Contents
  PROVE  LET t == [dir |-> d, content |-> c, handles |-> s.handles, o |-> s.o]
         IN  t \in Calls /\ t.o = s.o /\ Balanced(f, t)
BY DEF Calls, Balanced

\* delete
LEMMA DeleteKeeps ==
  ASSUME FilesIInv, NEW f \in File, Delete(f)
  PROVE  FilesIInv'
<1> DEFINE o == file[f]
           s == FileClose(Sees(o))
<1>1. Called(f) /\ ~ ended /\ handles \in Int
  BY FilesAssumption, FS_Subset, FS_CardinalityType
     DEF Delete, Called, FilesIInv, StreamsHeld, Streams
<1>2. s \in Calls /\ s.o \in Object /\ s.o.stream = Null /\ Balanced(f, s) /\ o \in Object
  BY <1>1, CalledFacts, CloseFacts, Zenon
<1>3. CASE ReturnError
  BY <1>3, NothingKeeps, Zenon DEF ReturnError
<1>4. CASE FileError(f, s)
  BY <1>1, <1>2, <1>4, ErrorKeeps, Zenon DEF FileError
<1>5. CASE Leaves(f, [s EXCEPT !.dir[o.path] = Null])
  <2> HIDE DEF s
  <2> DEFINE d == [s.dir EXCEPT ![o.path] = Null]
             t == [dir |-> d, content |-> s.content, handles |-> s.handles, o |-> s.o]
  <2>1. /\ s = [dir |-> s.dir, content |-> s.content, handles |-> s.handles, o |-> s.o]
        /\ s.dir \in Dirs /\ s.content \in Contents /\ o.path \in Path
    BY <1>2 DEF Calls, Object
  <2>2. d \in Dirs
    BY <2>1 DEF Dirs
  <2>3. [s EXCEPT !.dir[o.path] = Null] = t
    BY <2>1
  <2> HIDE DEF d
  <2>4. t \in Calls /\ t.o = s.o /\ Balanced(f, t)
    BY <1>2, <2>1, <2>2, SystemFacts, Zenon
  <2> HIDE DEF t
  <2>5. StreamKnown(t.o)
    BY <1>2, <2>4, Zenon DEF StreamKnown
  <2>6. Leaves(f, t)
    BY <1>5, <2>3
  <2> QED
    BY <1>1, <2>4, <2>5, <2>6, LeavesKeeps, Zenon
<1> QED
  BY <1>3, <1>4, <1>5, Zenon DEF Delete

\* rename
LEMMA RenameKeeps ==
  ASSUME FilesIInv, NEW f \in File, NEW p \in Path, Rename(f, p)
  PROVE  FilesIInv'
<1> DEFINE o == file[f]
           s == FileClose(Sees(o))
<1>1. Called(f) /\ ~ ended /\ handles \in Int /\ dir \in Dirs
  BY FilesAssumption, FS_Subset, FS_CardinalityType
     DEF Rename, Called, FilesIInv, StreamsHeld, Streams, FilesTypes
<1>2. s \in Calls /\ s.o \in Object /\ s.o.stream = Null /\ Balanced(f, s) /\ o \in Object
  BY <1>1, CalledFacts, CloseFacts, Zenon
<1>3. StreamKnown(s.o)
  BY <1>2, Zenon DEF StreamKnown
<1>4. CASE ReturnError
  BY <1>4, NothingKeeps, Zenon DEF ReturnError
<1>5. CASE Leaves(f, s)
  BY <1>1, <1>2, <1>3, <1>5, LeavesKeeps, Zenon
<1>6. CASE p # o.path /\ Leaves(f, [s EXCEPT !.dir[p] = dir[o.path], !.dir[o.path] = Null])
  <2> HIDE DEF s
  <2> DEFINE d == [[s.dir EXCEPT ![p] = dir[o.path]] EXCEPT ![o.path] = Null]
             t == [dir |-> d, content |-> s.content, handles |-> s.handles, o |-> s.o]
             e == [s EXCEPT !.dir[p] = dir[o.path]]
  <2>1. /\ s = [dir |-> s.dir, content |-> s.content, handles |-> s.handles, o |-> s.o]
        /\ s.dir \in Dirs /\ s.content \in Contents /\ o.path \in Path
    BY <1>2 DEF Calls, Object
  <2>2. d \in Dirs
    BY <1>1, <2>1 DEF Dirs
  <2>3. [s EXCEPT !.dir[p] = dir[o.path], !.dir[o.path] = Null] = t
    <3>1. e = [dir |-> [s.dir EXCEPT ![p] = dir[o.path]], content |-> s.content,
               handles |-> s.handles, o |-> s.o]
      BY <2>1
    <3> HIDE DEF e
    <3>2. [e EXCEPT !.dir[o.path] = Null] = t
      BY <3>1
    <3> QED
      BY <3>2 DEF e
  <2> HIDE DEF d
  <2>4. t \in Calls /\ t.o = s.o /\ Balanced(f, t)
    BY <1>2, <2>1, <2>2, SystemFacts, Zenon
  <2>5. Leaves(f, t)
    BY <1>6, <2>3
  <2> HIDE DEF t
  <2>6. StreamKnown(t.o)
    BY <1>3, <2>4, Zenon
  <2> QED
    BY <1>1, <2>4, <2>5, <2>6, LeavesKeeps, Zenon
<1> QED
  BY <1>4, <1>5, <1>6, Zenon DEF Rename

\* truncate
LEMMA TruncateKeeps ==
  ASSUME FilesIInv, NEW f \in File, NEW n \in 0 .. 1, Truncate(f, n)
  PROVE  FilesIInv'
<1> DEFINE o == file[f]
           s == Sees(o)
           cut(c) == [k \in 1 .. n |-> IF k <= Len(c) THEN c[k] ELSE Hole]
<1>1. Called(f) /\ dir \in Dirs /\ content \in Contents
  BY DEF Truncate, Called, FilesIInv, FilesTypes
<1>2. /\ ~ ended /\ o \in Object /\ StreamKnown(o) /\ s \in Calls /\ s.o = o /\ Balanced(f, s)
  BY <1>1, CalledFacts, Zenon
<1>3. CASE FileError(f, s)
  BY <1>1, <1>3, AtOnceKeeps, Zenon
<1>4. CASE Exists(o.path) /\ Leaves(f, [s EXCEPT !.content[dir[o.path]] = cut(@)])
  <2> DEFINE old == content[dir[o.path]]
             new == cut(old)
             c == [content EXCEPT ![dir[o.path]] = new]
             t == [dir |-> dir, content |-> c, handles |-> s.handles, o |-> s.o]
  <2>1. dir[o.path] \in Node
    BY Zenon, <1>1, <1>2, <1>4 DEF Exists, Dirs, Object
  <2>2. old \in Seq(Data \cup {Hole})
    BY <1>1, <2>1 DEF Contents
  <2>3. new \in Seq(Data \cup {Hole})
    <3> HIDE DEF old
    <3>1. new \in [1 .. n -> Data \cup {Hole}]
      BY <2>2
    <3>2. n \in Nat
      OBVIOUS
    <3> HIDE DEF new
    <3> QED
      BY <3>1, <3>2, SeqDef
  <2> HIDE DEF new
  <2>4. c \in Contents
    BY <1>1, <2>1, <2>3 DEF Contents
  <2>5. [s EXCEPT !.content[dir[o.path]] = cut(@)] = t
    <3>1. s = [dir |-> dir, content |-> content, handles |-> s.handles, o |-> s.o]
      BY DEF Sees
    <3>2. [s EXCEPT !.content[dir[o.path]] = cut(@)]
          = [s EXCEPT !.content[dir[o.path]] = cut(s.content[dir[o.path]])]
      OBVIOUS
    <3>3. s.content = content
      BY DEF Sees
    <3>4. cut(s.content[dir[o.path]]) = new
      BY <3>3 DEF new
    <3> HIDE DEF s, cut
    <3> QED
      BY <3>1, <3>2, <3>4
  <2> HIDE DEF c, s
  <2>6. t \in Calls /\ t.o = s.o /\ Balanced(f, t)
    BY ZenonT(60), <1>1, <1>2, <2>4, SystemFacts
  <2>7. Leaves(f, t)
    BY Zenon, <1>4, <2>5
  <2> HIDE DEF t
  <2> QED
    BY ZenonT(60), <1>2, <2>6, <2>7, LeavesKeeps
<1> QED
  BY <1>3, <1>4, Zenon DEF Truncate

\* free_object
LEMMA FreeKeeps ==
  ASSUME FilesIInv, NEW f \in File, Free(f)
  PROVE  FilesIInv'
<1> DEFINE o == file[f]
           s == FileClose(Sees(o))
           t == [s EXCEPT !.o = Null]
<1>1. Called(f) /\ ~ ended /\ handles \in Int /\ Leaves(f, t)
  BY FilesAssumption, FS_Subset, FS_CardinalityType
     DEF Free, Called, FilesIInv, StreamsHeld, Streams
<1>2. s \in Calls /\ s.o \in Object /\ s.o.stream = Null /\ Balanced(f, s)
  BY <1>1, CalledFacts, CloseFacts, Zenon
<1> HIDE DEF s
<1>3. t \in Calls /\ t.o = Null /\ t.handles = s.handles
  BY <1>2 DEF Calls
<1>4. Balanced(f, t)
  <2>1. Held(t.o) = Held(s.o)
    BY <1>2, <1>3 DEF Held
  <2> QED
    BY <1>2, <1>3, <2>1, Zenon DEF Balanced
<1> HIDE DEF t
<1> QED
  BY <1>1, <1>3, <1>4, LeavesKeeps, Zenon

\* copy
LEMMA CopyKeeps ==
  ASSUME FilesIInv, NEW f \in File, NEW p \in Path, Copy(f, p)
  PROVE  FilesIInv'
<1> DEFINE o == file[f]
           target == Fopen(Sees(o), p, "w")
           r == [target EXCEPT !.o = o]
           source == Fflush(r)
           got == Fread(source, MaxSize)
           s == [source EXCEPT !.content[target.o.stream.node] = got, !.handles = @ - 1]
<1>1. Called(f) /\ handles \in Int /\ dir \in Dirs
  BY FilesAssumption, FS_Subset, FS_CardinalityType
     DEF Copy, Called, FilesIInv, StreamsHeld, Streams, FilesTypes
<1>2. /\ ~ ended /\ o \in Object
  BY <1>1, CalledFacts, Zenon
<1>3. CASE ReturnError
  BY <1>3, NothingKeeps, Zenon DEF ReturnError
<1>4. CASE FileError(f, Sees(o))
  BY <1>1, <1>4, AtOnceKeeps, Zenon
<1>5. CASE Ends(target)
  BY <1>5, EndsKeeps, Zenon
<1>6. CASE o.stream # Null /\ Leaves(f, FileClose(s))
  <2>1. /\ target.dir \in Dirs /\ target.content \in Contents /\ target.handles = handles + 1
        /\ target.o.stream.node \in Node
        /\ target = [dir |-> target.dir, content |-> target.content, handles |-> target.handles,
                     o |-> target.o]
    <3>1. "w" \in Modes \cup {"a+"} /\ "w" \notin {"r", "r+"}
      BY DEF Modes
    <3>2. OpenedAt(o, p, "w", target)
      BY <1>2, <3>1, FopenFacts
    <3> HIDE DEF target
    <3>3. PICK node \in Node, old \in Seq(Data \cup {Hole}), pos \in Nat :
            /\ target = [dir |-> [dir EXCEPT ![p] = node], content |-> [content EXCEPT ![node] = old],
                         handles |-> handles + 1, o |-> With(o, StreamAt(node, "w", pos))]
            /\ target.content \in Contents
      BY <3>2, Zenon DEF OpenedAt
    <3>4. [dir EXCEPT ![p] = node] \in Dirs
      BY <1>1 DEF Dirs
    <3>5. With(o, StreamAt(node, "w", pos)).stream.node = node
      BY DEF With, StreamAt
    <3> QED
      BY <3>3, <3>4, <3>5
  <2> DEFINE node == target.o.stream.node
  <2> HIDE DEF target
  <2>2. r = [dir |-> target.dir, content |-> target.content, handles |-> handles + 1, o |-> o]
    BY <2>1
  <2>3. r \in Calls /\ r.o = o /\ r.handles = handles + 1
    BY <1>1, <1>2, <2>1, <2>2 DEF Calls
  <2>4. r.o \in Object /\ r.o.stream \in Stream
    BY <1>2, <1>6, <2>3 DEF Object
  <2> HIDE DEF r
  <2>5. /\ source \in Calls /\ source.o \in Object /\ source.o.stream \in Stream
        /\ source.handles = handles + 1
    BY <2>3, <2>4, FflushFacts
  <2> HIDE DEF source
  <2>6. got \in Seq(Data \cup {Hole})
    BY <2>5, FreadFacts, FilesAssumption
  <2> HIDE DEF got, node
  <2> DEFINE c == [source.content EXCEPT ![node] = got]
             e == [source EXCEPT !.content[node] = got]
             t == [dir |-> source.dir, content |-> c, handles |-> handles, o |-> source.o]
  <2>7. s = t
    <3>1. e = [dir |-> source.dir, content |-> c, handles |-> source.handles, o |-> source.o]
      BY <2>5 DEF Calls
    <3>2. s = [e EXCEPT !.handles = @ - 1]
      BY DEF node
    <3>3. source.handles - 1 = handles
      BY <1>1, <2>5
    <3> HIDE DEF e, c, s
    <3> QED
      BY <3>1, <3>2, <3>3
  <2>8. c \in Contents
    BY <2>1, <2>5, <2>6 DEF Calls, Contents, node
  <2> HIDE DEF c, s
  <2>9. t \in Calls /\ t.o = source.o /\ t.handles = handles
    BY <1>1, <2>5, <2>8 DEF Calls
  <2>10. Balanced(f, t)
    <3>1. Held(file[f]) = 1 /\ Held(source.o) = 1
      BY <1>2, <1>6, <2>5, FilesAssumption DEF Held
    <3> QED
      BY <1>1, <2>9, <3>1 DEF Balanced
  <2> HIDE DEF t
  <2>11. Leaves(f, FileClose(t))
    BY <1>6, <2>7
  <2> QED
    BY <1>1, <2>5, <2>9, <2>10, <2>11, ErrorKeeps, Zenon
<1> QED
  BY <1>3, <1>4, <1>5, <1>6, Zenon DEF Copy

\* Whatever is called, in whatever order, on whatever objects, the streams are
\* counted and known.
THEOREM FilesInvariant == FilesSpec => []FilesIInv
<1>1. FilesInit => FilesIInv
  <2> SUFFICES ASSUME FilesInit PROVE FilesIInv
    OBVIOUS
  <2>1. /\ dir = [p \in Path |-> Null] /\ content = [n \in Node |-> <<>>]
        /\ file = [f \in File |-> Null] /\ handles = 0
    BY DEF FilesInit
  <2>2. Streams = {} /\ Live = {} /\ Named(dir) = {}
    BY <2>1 DEF Streams, Live, Named
  <2>3. Cardinality({}) = 0
    BY FS_EmptySet
  <2>4. FilesTypes
    <3>1. dir \in Dirs /\ content \in Contents /\ file \in [File -> Object \cup {Null}]
      BY <2>1 DEF Dirs, Contents
    <3>2. Cardinality(Named(dir)) + Cardinality(Live) <= MaxThings
      BY <2>2, <2>3, FilesAssumption
    <3> QED
      BY <2>2, <3>1, <3>2 DEF FilesTypes
  <2>5. StreamsHeld
    BY <2>1, <2>2, <2>3 DEF StreamsHeld
  <2>6. ended \in BOOLEAN
    BY Zenon DEF FilesInit
  <2> QED
    BY <2>4, <2>5, <2>6, Zenon DEF FilesIInv
<1>2. FilesIInv /\ [FilesNext]_fileVars => FilesIInv'
  <2> SUFFICES ASSUME FilesIInv, [FilesNext]_fileVars PROVE FilesIInv'
    OBVIOUS
  <2>1. ASSUME NEW f \in File, NEW p \in Source, NEW m \in Mode[f], New(f, p, m)
        PROVE  FilesIInv'
    BY <2>1, NewKeeps, Zenon
  <2>2. ASSUME NEW f \in File,
               Close(f) \/ Open(f) \/ Flush(f) \/ Delete(f) \/ Tell(f) \/ Free(f)
        PROVE  FilesIInv'
    BY <2>2, CloseKeeps, OpenKeeps, FlushKeeps, DeleteKeeps, TellKeeps, FreeKeeps, Zenon
  <2>3. ASSUME NEW f \in File, NEW n \in Size \cup {All}, Read(f, n) \/ Gets(f, n)
        PROVE  FilesIInv'
    BY <2>3, ReadKeeps, GetsKeeps, Zenon
  <2>4. ASSUME NEW f \in File, NEW d \in Data \cup {Null}, Write(f, d) \/ Puts(f, d)
        PROVE  FilesIInv'
    BY <2>4, WriteKeeps, PutsKeeps, Zenon
  <2>5. ASSUME NEW f \in File, NEW p \in Path, Rename(f, p) \/ Copy(f, p)
        PROVE  FilesIInv'
    BY <2>5, RenameKeeps, CopyKeeps, Zenon
  <2>6. ASSUME NEW f \in File, NEW n \in 0 .. 1, Truncate(f, n)
        PROVE  FilesIInv'
    BY <2>6, TruncateKeeps, Zenon
  <2>7. ASSUME NEW f \in File, NEW n \in -1 .. 1, Seek(f, n)
        PROVE  FilesIInv'
    BY <2>7, SeekKeeps, Zenon
  <2>8. CASE UNCHANGED fileVars
    BY <2>8, NothingKeeps, Zenon
  <2> QED
    BY <2>1, <2>2, <2>3, <2>4, <2>5, <2>6, <2>7, <2>8, Zenon DEF FilesNext
<1> QED
  BY <1>1, <1>2, PTL DEF FilesSpec

\* No object loses a stream without closing it, and none closes one twice.
THEOREM FilesStreamsHeld == FilesSpec => []StreamsHeld
<1>1. FilesIInv => StreamsHeld
  BY DEF FilesIInv
<1> QED
  BY <1>1, FilesInvariant, PTL

\* The stream read has before it: at the start of the file at the path.
AtStart(t, path) ==
  /\ t \in Calls /\ t.o \in Object /\ t.o.stream \in Stream
  /\ t.dir[path] = t.o.stream.node /\ t.o.stream.node \in Node
  /\ t.o.stream.buffer = <<>> /\ t.o.stream.pos = 0 /\ t.o.stream.kind \notin {"w", "a"}

\* read's opened object is there, when nothing has moved its stream and what
\* it has open is still at the path.
LEMMA OpenedAtStart ==
  ASSUME FilesIInv, NEW f \in File, Called(f), ~ Unreadable(f), file[f].mode # "a", ~ file[f].moved,
         file[f].isOpen => f \in Streams /\ file[f].stream.node = dir[file[f].path]
  PROVE  AtStart(Opened(f), file[f].path)
<1> DEFINE o == file[f]
           kind == Kind(o.mode)
           u == Fopen(Sees(o), o.path, kind)
           t == Opened(f)
<1>1. /\ ~ ended /\ o \in Object /\ StreamKnown(o)
      /\ Sees(o) \in Calls /\ Sees(o).o = o /\ Sees(o).dir = dir
  BY CalledFacts, SeesObject, Zenon
<1>2. o.path \in Path /\ o.mode \in Modes /\ o.stream \in Stream \cup {Null}
  BY <1>1 DEF Object
<1>3. kind \notin {"w", "a"} /\ kind \in Modes \cup {"a+"}
  BY <1>2 DEF Unreadable, Kind, Modes
<1>4. t \in Calls /\ t.o \in Object
  BY OpenedFacts, Zenon
<1>5. CASE o.isOpen
  <2>1. t = Sees(o)
    BY <1>5 DEF Opened
  <2>2. o.stream # Null
    BY <1>5 DEF Streams
  <2>3. o.stream.kind = kind /\ o.stream.buffer = <<>> /\ o.stream.pos = 0
    BY <1>1, <2>2 DEF StreamKnown
  <2>4. o.stream \in Stream
    BY <1>2, <2>2
  <2>5. o.stream.node \in Node
    BY <2>4 DEF Stream
  <2> QED
    BY <1>1, <1>3, <1>4, <1>5, <2>1, <2>3, <2>4, <2>5 DEF AtStart
<1>6. CASE ~ o.isOpen
  <2>1. o.stream = Null
    BY <1>1, <1>6 DEF StreamKnown
  <2>2. t = [u EXCEPT !.o.isOpen = TRUE, !.o.moved = FALSE]
    BY <1>1, <1>6, <2>1 DEF Opened, FileOpen
  <2>3. ~ (NotOpened(o, o.path, u) /\ kind \in {"r", "r+"})
    BY <1>2 DEF NotOpened, Unreadable, Exists, Kind
  <2>4. OpenedAt(o, o.path, kind, u)
    BY <1>1, <1>2, <1>3, <2>3, FopenFacts, Zenon
  <2> HIDE DEF u, kind
  <2>5. PICK node \in Node, old \in Seq(Data \cup {Hole}), pos \in Nat :
          /\ kind # "a" => pos = 0
          /\ u = [dir |-> [dir EXCEPT ![o.path] = node], content |-> [content EXCEPT ![node] = old],
                  handles |-> handles + 1, o |-> With(o, StreamAt(node, kind, pos))]
    BY <2>4, Zenon DEF OpenedAt
  <2> DEFINE d == [dir EXCEPT ![o.path] = node]
             st == StreamAt(node, kind, pos)
  <2>6. d[o.path] = node
    BY <1>1, <1>2 DEF FilesIInv, FilesTypes, Dirs
  <2>7. st \in Stream /\ st.node = node /\ st.kind = kind /\ st.buffer = <<>> /\ st.pos = 0
    <3>1. st \in Stream
      BY <1>3 DEF StreamAt, Stream
    <3> QED
      BY <1>3, <2>5, <3>1 DEF StreamAt
  <2>8. t.dir = d /\ t.o.stream = st
    <3> HIDE DEF d, st, t
    <3>1. u.dir = d /\ u.o = With(o, st) /\ DOMAIN u = {"dir", "content", "handles", "o"}
      BY <2>5 DEF d, st
    <3>2. /\ u.o.stream = st /\ DOMAIN u.o = {"path", "mode", "isOpen", "stream", "moved"}
      BY <3>1 DEF With
    <3> DEFINE o1 == [u.o EXCEPT !.isOpen = TRUE]
               u1 == [u EXCEPT !.o = o1]
    <3>3. o1.stream = st /\ DOMAIN o1 = DOMAIN u.o
      BY <3>2
    <3> HIDE DEF o1
    <3>4. u1.dir = d /\ u1.o = o1 /\ DOMAIN u1 = DOMAIN u
      BY <3>1
    <3>5. t = [u1 EXCEPT !.o = [u1.o EXCEPT !.moved = FALSE]]
      BY <2>2, Zenon DEF o1, u1
    <3> HIDE DEF u1
    <3> DEFINE o2 == [u1.o EXCEPT !.moved = FALSE]
    <3>6. o2.stream = st
      BY <3>2, <3>3, <3>4
    <3> HIDE DEF o2
    <3>7. t = [u1 EXCEPT !.o = o2]
      BY <3>5 DEF o2
    <3>8. t.dir = d /\ t.o = o2
      BY <3>1, <3>4, <3>7
    <3> QED
      BY <3>6, <3>8
  <2>9. t = Opened(f)
    OBVIOUS
  <2> HIDE DEF d, st, t
  <2>10. AtStart(t, o.path)
    BY <1>3, <1>4, <2>6, <2>7, <2>8 DEF AtStart
  <2> QED
    BY <2>9, <2>10
<1> QED
  BY <1>5, <1>6

\* What read answers follows from where the stream is.
LEMMA ReadsFromStart ==
  ASSUME FilesIInv, NEW f \in File, NEW want \in Size \cup {All}, AtStart(Opened(f), file[f].path)
  PROVE  LET r == Reading(f, want)
             all == r.after.content[r.after.dir[file[f].path]]
         IN  ~ r.failed /\ r.got = IF want = All THEN all ELSE StartOf(all, want)
<1> DEFINE path == file[f].path
           t == Opened(f)
           c == t.content[t.dir[path]]
           real == Len(c)
           n == IF want = All \/ want > real THEN real ELSE want
           got == SubSeq(c, 1, n)
           r == Reading(f, want)
<1>1. /\ t \in Calls /\ t.o \in Object /\ t.o.stream \in Stream
      /\ t.dir[path] = t.o.stream.node /\ t.o.stream.node \in Node
      /\ t.o.stream.buffer = <<>> /\ t.o.stream.pos = 0 /\ t.o.stream.kind \notin {"w", "a"}
  BY DEF AtStart
<1>2. c \in Seq(Data \cup {Hole}) /\ t.dir[path] # Null
  BY <1>1, FilesAssumption DEF Calls, Contents
<1>3. Fflush(t) = t
  BY <1>1 DEF Fflush
<1>4. real \in Nat /\ n \in Nat /\ n <= real /\ (want # All => want \in Nat)
  <2> HIDE DEF c
  <2> QED
    BY <1>2, FilesAssumption DEF All
<1>5. Fread(t, n) = got
  <2>1. Fread(t, n) = SubSeq(c, 0 + 1, IF 0 + n < Len(c) THEN 0 + n ELSE Len(c))
    BY Zenon, <1>1 DEF Fread
  <2> HIDE DEF c
  <2>2. 0 + 1 = 1 /\ (IF 0 + n < Len(c) THEN 0 + n ELSE Len(c)) = n
    BY <1>4
  <2> HIDE DEF n
  <2> QED
    BY Zenon, <2>1, <2>2
<1>6. /\ r.got = Fread(t, n) /\ r.failed = (Fread(t, n) = <<>> /\ n # 0 /\ n = real)
      /\ r.after = [t EXCEPT !.o.stream.pos = @ + Len(Fread(t, n))]
  <2> HIDE DEF t
  <2> QED
    BY <1>2, <1>3, Zenon DEF Reading, t
<1>7. r.after.content = t.content /\ r.after.dir = t.dir
  <2> HIDE DEF t, r, n
  <2> QED
    BY <1>1, <1>6 DEF Calls
<1>8. Len(got) = n /\ (n = real => got = c)
  <2> HIDE DEF c, n
  <2> QED
    BY <1>2, <1>4
<1>9. ~ (got = <<>> /\ n # 0)
  <2> HIDE DEF got
  <2> QED
    BY Zenon, <1>8
<1>10. ~ r.failed
  <2> HIDE DEF r, n, t, got, c
  <2> QED
    BY Zenon, <1>5, <1>6, <1>9
<1>11. got = IF want = All THEN c ELSE StartOf(c, want)
  <2> HIDE DEF c
  <2>1. CASE want = All
    BY <1>8, <2>1
  <2>2. CASE want # All
    <3>1. n = IF want < Len(c) THEN want ELSE Len(c)
      BY <1>4, <2>2
    <3> HIDE DEF n
    <3> QED
      BY Zenon, <2>2, <3>1 DEF StartOf
  <2> QED
    BY <2>1, <2>2
<1>12. r.got = got /\ r.after.content[r.after.dir[path]] = c
  <2> HIDE DEF r, n, t, got
  <2> QED
    BY <1>5, <1>6, <1>7
<1> HIDE DEF n, t, got, c
<1> QED
  BY <1>10, <1>11, <1>12, Zenon

\* read answers with what the path holds, from its start, after any sequence
\* of calls.
THEOREM FilesReadsPath == FilesSpec => []ReadsPath
<1>1. FilesIInv => ReadsPath
  <2> SUFFICES ASSUME FilesIInv, NEW f \in File, NEW want \in Size \cup {All},
                      Called(f), ~ Unreadable(f), file[f].mode # "a", ~ file[f].moved,
                      IF file[f].isOpen THEN f \in Streams /\ file[f].stream.node = dir[file[f].path]
                      ELSE TRUE
               PROVE  LET r == Reading(f, want)
                          all == r.after.content[r.after.dir[file[f].path]]
                      IN  ~ r.failed /\ r.got = IF want = All THEN all ELSE StartOf(all, want)
    BY Zenon DEF ReadsPath
  <2>1. AtStart(Opened(f), file[f].path)
    BY OpenedAtStart, Zenon
  <2> QED
    BY <2>1, ReadsFromStart, Zenon
<1> QED
  BY <1>1, FilesInvariant, PTL
==============================================================================
