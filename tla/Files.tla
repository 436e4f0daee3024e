-------------------------------- MODULE Files --------------------------------
(***************************************************************************)
(* The file objects of src/src/file.c.  An object keeps the stream it got  *)
(* from fopen in the field file and a flag is_open beside it; read and     *)
(* write open the file again if need be and close it behind them, gets and *)
(* puts do neither.  Objects share the file system: several may be for one *)
(* path, which another call removes, renames or truncates under them.      *)
(*                                                                         *)
(* A file's contents are a sequence of bytes.  The mode b only decides     *)
(* between strings and bytes and is left out, and so are standard streams. *)
(* A stream buffers what it writes; it does not read ahead.                *)
(***************************************************************************)
EXTENDS Integers, Sequences, FiniteSetsExt

CONSTANTS
  File,       \* file objects
  Path,
  Source,     \* the paths file objects are made for
  Node,       \* files proper, which paths and streams refer to
  Data,       \* what a byte may be
  Hole,       \* the byte of a gap
  Mode,       \* of each object, some of "r", "r+", "w", "w+", "a"
  Size,       \* arguments of read and gets, which may have none (All)
  Null,
  MaxThings,  \* bound on objects and files with a name together
  MaxSize,    \* bound on contents
  MaxBuffer   \* bound on what a stream buffers

Modes == {"r", "r+", "w", "w+", "a"}

\* A stream of the C library, and a b_obj_file.
Stream == [node : Node, kind : Modes \cup {"a+"}, buffer : Seq(Data), pos : Nat]
Object == [path : Path, mode : Modes, isOpen : BOOLEAN, stream : Stream \cup {Null},
           moved : BOOLEAN]   \* history: gets, puts or seek have been at the stream

\* There is always a node to be had for a new file.
ASSUME FilesAssumption ==
  /\ Source \subseteq Path /\ Mode \in [File -> SUBSET Modes] /\ Size \subseteq Nat
  /\ Null \notin Node /\ Null \notin Data /\ Null \notin Stream /\ Null \notin Object
  /\ IsFiniteSet(File) /\ IsFiniteSet(Path) /\ IsFiniteSet(Node)
  /\ MaxSize \in Nat /\ MaxThings \in Nat /\ MaxThings < Cardinality(Node)

VARIABLES
  dir,      \* the node of each path, or Null
  content,  \* of each node
  file,     \* the objects, or Null
  handles,  \* streams the process has open (history)
  ended     \* the process has come to its end

fileVars == <<dir, content, file, handles, ended>>

All == -1

FilesInit ==
  /\ dir = [p \in Path |-> Null] /\ content = [n \in Node |-> <<>>]
  /\ file = [f \in File |-> Null] /\ handles = 0 /\ ended = FALSE
------------------------------------------------------------------------------
(***************************************************************************)
(* The C library and the file system, on what a call sees: dir, content,   *)
(* handles and the object o.                                               *)
(***************************************************************************)
Sees(o) == [dir |-> dir, content |-> content, handles |-> handles, o |-> o]

InUse(d, fs) ==
  {d[p] : p \in Path} \cup {fs[f].stream.node : f \in {g \in File : fs[g] # Null /\ fs[g].stream # Null}}

Named(d) == {p \in Path : d[p] # Null}

\* The call ends with what s has; a file that no path names and no stream has
\* open is gone.
Leaves(f, s) ==
  /\ \A n \in Node : Len(s.content[n]) <= MaxSize
  /\ Cardinality(Named(s.dir)) + Cardinality({g \in File : file[g] # Null} \cup {f}) <= MaxThings
  /\ dir' = s.dir /\ handles' = s.handles /\ file' = [file EXCEPT ![f] = s.o]
  /\ UNCHANGED ended
  /\ content' = [n \in Node |-> IF n \in InUse(dir', file') THEN s.content[n] ELSE <<>>]

\* fopen: "r" and "r+" want a file, "w" empties it, "a" starts at its end.
Fopen(s, path, kind) ==
  LET found == s.dir[path]
      node == IF found # Null THEN found ELSE CHOOSE n \in Node : n \notin InUse(s.dir, file)
      old == IF kind = "w" THEN <<>> ELSE s.content[node]
  IN  IF found = Null /\ kind \in {"r", "r+"}
      THEN [s EXCEPT !.o.stream = Null]
      ELSE [s EXCEPT
              !.dir[path] = node, !.content[node] = old, !.handles = @ + 1,
              !.o.stream = [node |-> node, kind |-> kind, buffer |-> <<>>,
                            pos |-> IF kind = "a" THEN Len(old) ELSE 0]]

Over(c, at, b) ==
  [k \in 1 .. (IF at + Len(b) > Len(c) THEN at + Len(b) ELSE Len(c)) |->
     IF k \in at + 1 .. at + Len(b) THEN b[k - at] ELSE IF k <= Len(c) THEN c[k] ELSE Hole]

\* fflush: what has been written goes to the end in the modes a, and to the
\* position otherwise.  Every function that moves a stream or turns to reading
\* does the same first.
Fflush(s) ==
  LET st == s.o.stream
      at == IF st.kind \in {"a", "a+"} THEN Len(s.content[st.node]) ELSE st.pos
  IN  IF st.buffer = <<>> THEN s
      ELSE [s EXCEPT !.content[st.node] = Over(@, at, st.buffer),
                     !.o.stream.buffer = <<>>, !.o.stream.pos = at + Len(st.buffer)]

\* fread: at most n bytes, none from a stream that only writes.
Fread(s, n) ==
  LET c == s.content[s.o.stream.node]
      last == s.o.stream.pos + n
  IN  IF s.o.stream.kind \in {"w", "a"} THEN <<>>
      ELSE SubSeq(c, s.o.stream.pos + 1, IF last < Len(c) THEN last ELSE Len(c))
------------------------------------------------------------------------------
\* Faulty: w+ as it is in C.
KindPlain(mode) == mode

\* The mode file_open hands to fopen.
Kind(mode) == IF mode = "w+" THEN "a+" ELSE mode

\* Faulty: the file is opened again.
FileOpenAgain(s) ==
  [Fopen(s, s.o.path, Kind(s.o.mode)) EXCEPT !.o.isOpen = TRUE, !.o.moved = FALSE]

FileOpen(s) ==
  IF s.o.stream = Null \/ ~ s.o.isOpen
  THEN [Fopen(s, s.o.path, Kind(s.o.mode)) EXCEPT !.o.isOpen = TRUE, !.o.moved = FALSE]
  ELSE s

FileClose(s) ==
  IF s.o.stream = Null THEN s
  ELSE [Fflush(s) EXCEPT !.o.stream = Null, !.o.isOpen = FALSE, !.handles = @ - 1]

Called(f) == ~ ended /\ file[f] # Null

\* FILE_ERROR closes the file; RETURN_ERROR leaves it.
FileError(f, s) == Leaves(f, FileClose(s))
ReturnError == UNCHANGED fileVars

Streams == {f \in File : file[f] # Null /\ file[f].stream # Null}

\* The process ends with what s has.  So it does when a function of the C
\* library is called with NULL; what its streams have still to write is lost.
Ends(s) ==
  /\ ended' = TRUE /\ dir' = s.dir /\ file' = [g \in File |-> Null] /\ handles' = 0
  /\ content' = [n \in Node |-> IF n \in InUse(dir', file') THEN s.content[n] ELSE <<>>]

Exists(path) == dir[path] # Null

\* file(path, mode): is_open is set before the file is opened.
New(f, p, m) ==
  /\ ~ ended /\ {g \in File : file[g] = Null} # {}
  /\ f = CHOOSE g \in File : file[g] = Null
  /\ Leaves(f, FileOpen(Sees([path |-> p, mode |-> m, isOpen |-> TRUE, stream |-> Null,
                              moved |-> FALSE])))
 

Close(f) == Called(f) /\ Leaves(f, FileClose(Sees(file[f])))

Open(f) == Called(f) /\ Leaves(f, FileOpen(Sees(file[f])))

\* The tests read and gets begin with.
Unreadable(f) == (file[f].mode \in {"r", "r+"} /\ ~ Exists(file[f].path)) \/ file[f].mode = "w"

\* What read gets from the stream, once that is open.  The size is that of the
\* file at the path now, or of the stream's if there is none (which rewinds it).
Opened(f) == IF file[f].isOpen THEN Sees(file[f]) ELSE FileOpen(Sees(file[f]))

Reading(f, want) ==
  LET opened == Opened(f)
      there == opened.dir[file[f].path]
      s == IF there # Null THEN Fflush(opened) ELSE [Fflush(opened) EXCEPT !.o.stream.pos = 0]
      real == Len(IF there # Null THEN opened.content[there] ELSE s.content[s.o.stream.node])
      n == IF want = All \/ want > real THEN real ELSE want
      got == Fread(s, n)
  IN  [got |-> got, failed |-> got = <<>> /\ n # 0 /\ n = real,
       after |-> [s EXCEPT !.o.stream.pos = @ + Len(got)], short |-> n < real]

\* Faulty: closed only if all there is has been read.
ReadKeepsOpen(f, want) ==
  /\ Called(f) /\ ~ Unreadable(f) /\ Opened(f).o.stream # Null
  /\ LET r == Reading(f, want)
     IN  Leaves(f, IF r.short THEN r.after ELSE FileClose(r.after))

\* read, which closes the file whether it has failed or not.
Read(f, want) ==
  /\ Called(f)
  /\ \/ Unreadable(f) /\ FileError(f, Sees(file[f]))
     \/ ~ Unreadable(f) /\ Opened(f).o.stream = Null /\ FileError(f, Opened(f))
     \/ /\ ~ Unreadable(f) /\ Opened(f).o.stream # Null
        /\ Leaves(f, FileClose(Reading(f, want).after))

\* exit writes what the other streams have still to write.
Exit(f, s) ==
  Ends(FoldSet(LAMBDA g, t : Fflush([t EXCEPT !.o = file[g]]), s, Streams \ {f}))

\* gets, which asks for the rest of the file by default.  A stream beyond the
\* end has a negative rest, and the buffer's size is that rest plus one as a
\* size_t: none at all, or too much.
Gets(f, want) ==
  LET o == file[f]
      s == Fflush(Sees(o))
      n == IF want = All THEN Len(s.content[o.stream.node]) - s.o.stream.pos ELSE want
      got == Fread(s, n)
  IN  /\ Called(f)
      /\ \/ (Unreadable(f) \/ ~ o.isOpen \/ o.stream = Null) /\ FileError(f, Sees(o))
         \/ /\ ~ Unreadable(f) /\ o.isOpen /\ o.stream # Null
            /\ \/ n < -1 /\ Exit(f, s)
               \/ (n = -1 \/ (n > 0 /\ got = <<>>)) /\ FileError(f, s)
               \/ /\ n = 0 \/ (n > 0 /\ got # <<>>)
                  /\ Leaves(f, [s EXCEPT !.o.stream.pos = @ + Len(got), !.o.moved = TRUE])

\* fwrite of one byte.
Fwrite(s, d) == [s EXCEPT !.o.stream.buffer = Append(@, d)]

\* write, of one byte or of none.
Write(f, d) ==
  LET o == file[f]
      opened == FileOpen(Sees(o))
  IN  /\ Called(f)
      /\ \/ (o.mode = "r" \/ d = Null) /\ FileError(f, Sees(o))
         \/ o.mode # "r" /\ d # Null /\ opened.o.stream = Null /\ FileError(f, opened)
         \/ /\ o.mode # "r" /\ d # Null /\ opened.o.stream # Null
            /\ Leaves(f, FileClose(Fwrite(opened, d)))

Puts(f, d) ==
  LET o == file[f]
  IN  /\ Called(f)
      /\ \/ (o.mode = "r" \/ d = Null \/ ~ o.isOpen \/ o.stream = Null) /\ FileError(f, Sees(o))
         \/ /\ o.mode # "r" /\ d # Null /\ o.isOpen /\ o.stream # Null
            /\ Len(o.stream.buffer) < MaxBuffer
            /\ Leaves(f, [Fwrite(Sees(o), d) EXCEPT !.o.moved = TRUE])

\* flush tests is_open only.
Flush(f) ==
  LET o == file[f]
  IN  /\ Called(f)
      /\ \/ ~ o.isOpen /\ FileError(f, Sees(o))
         \/ o.isOpen /\ o.stream = Null /\ Ends(Sees(o))
         \/ o.isOpen /\ o.stream # Null /\ Leaves(f, Fflush(Sees(o)))

\* delete, which fails if file_close does, and that if there is no stream.
Delete(f) ==
  LET o == file[f]
      s == FileClose(Sees(o))
  IN  /\ Called(f)
      /\ \/ o.stream = Null /\ ReturnError
         \/ o.stream # Null /\ ~ Exists(o.path) /\ FileError(f, s)
         \/ o.stream # Null /\ Exists(o.path) /\ Leaves(f, [s EXCEPT !.dir[o.path] = Null])

\* rename; the object keeps its path.
Rename(f, p) ==
  LET o == file[f]
      s == FileClose(Sees(o))
  IN  /\ Called(f)
      /\ \/ ~ Exists(o.path) /\ ReturnError
         \/ /\ Exists(o.path)
            /\ Leaves(f, IF p = o.path THEN s
                         ELSE [s EXCEPT !.dir[p] = dir[o.path], !.dir[o.path] = Null])
           

\* copy: the target is opened, and emptied, first; what is left to read of the
\* stream goes there.
Copy(f, p) ==
  LET o == file[f]
      target == Fopen(Sees(o), p, "w")
      source == Fflush([target EXCEPT !.o = o])
      got == Fread(source, MaxSize)
      s == [source EXCEPT !.content[target.o.stream.node] = got, !.handles = @ - 1]
  IN  /\ Called(f)
      /\ \/ ~ Exists(o.path) /\ ReturnError
         \/ Exists(o.path) /\ o.mode \notin {"r", "r+"} /\ FileError(f, Sees(o))
         \/ Exists(o.path) /\ o.mode \in {"r", "r+"} /\ o.stream = Null /\ Ends(target)
         \/ /\ Exists(o.path) /\ o.mode \in {"r", "r+"} /\ o.stream # Null
            /\ Leaves(f, FileClose(s))

\* truncate, by path.
Truncate(f, n) ==
  LET o == file[f]
      cut(c) == [k \in 1 .. n |-> IF k <= Len(c) THEN c[k] ELSE Hole]
  IN  /\ Called(f)
      /\ \/ ~ Exists(o.path) /\ FileError(f, Sees(o))
         \/ /\ Exists(o.path)
            /\ Leaves(f, [Sees(o) EXCEPT !.content[dir[o.path]] = cut(@)])

\* seek, to a place that is before the start if negative.
Seek(f, at) ==
  LET o == file[f]
      s == Fflush(Sees(o))
  IN  /\ Called(f)
      /\ \/ o.stream = Null /\ Ends(Sees(o))
         \/ o.stream # Null /\ at < 0 /\ FileError(f, s)
         \/ /\ o.stream # Null /\ at >= 0
            /\ Leaves(f, [s EXCEPT !.o.stream.pos = at, !.o.moved = TRUE])

Tell(f) ==
  /\ Called(f)
  /\ \/ file[f].stream = Null /\ Ends(Sees(file[f]))
     \/ file[f].stream # Null /\ ReturnError

\* free_object of a file closes its stream.
Free(f) ==
  /\ Called(f)
  /\ LET s == FileClose(Sees(file[f])) IN Leaves(f, [s EXCEPT !.o = Null])
 

FilesNext ==
  \E f \in File :
    \/ \E p \in Source, m \in Mode[f] : New(f, p, m)
    \/ Close(f) \/ Open(f) \/ Flush(f) \/ Delete(f) \/ Tell(f) \/ Free(f)
    \/ \E n \in Size \cup {All} : Read(f, n) \/ Gets(f, n)
    \/ \E d \in Data \cup {Null} : Write(f, d) \/ Puts(f, d)
    \/ \E p \in Path : Rename(f, p) \/ Copy(f, p)
    \/ \E n \in 0 .. 1 : Truncate(f, n)
    \/ \E n \in -1 .. 1 : Seek(f, n)

FilesSpec == FilesInit /\ [][FilesNext]_fileVars
------------------------------------------------------------------------------
StartOf(c, n) == SubSeq(c, 1, IF n < Len(c) THEN n ELSE Len(c))

\* A file object never loses a stream without closing it, nor closes one
\* twice, in whatever order its methods are called: the streams of the process
\* are those the objects hold, one each, and of objects that say they are open.
StreamsHeld ==
  /\ handles = Cardinality(Streams)
  /\ \A f \in Streams : file[f].isOpen /\ file[f].stream.node \in Node

\* "w+ does not truncate the file": as long as no object has mode w or r+,
\* whatever is in a file stays in it, at its place, although write and read
\* open the file again and again; truncate and copy excepted.
Gentle == \A f \in File : file[f] # Null => file[f].mode \in {"r", "w+", "a"}

KeepsContents ==
  [][Gentle /\ Gentle' =>
       \/ \A n \in InUse(dir', file') \ {Null} : StartOf(content'[n], Len(content[n])) = content[n]
       \/ \E f \in File : (\E n \in 0 .. 1 : Truncate(f, n)) \/ \E p \in Path : Copy(f, p)]_fileVars

\* read answers with what the path holds, from its start, however often the
\* file has been read and written before; unless gets, puts or seek have moved
\* the stream since it was opened, the path has got another file since, or the
\* file was not there when it was opened.  (Mode a is not for reading.)
ReadsPath ==
  \A f \in File : \A want \in Size \cup {All} :
    /\ Called(f) /\ ~ Unreadable(f) /\ file[f].mode # "a" /\ ~ file[f].moved
    /\ IF file[f].isOpen THEN f \in Streams /\ file[f].stream.node = dir[file[f].path] ELSE TRUE
    => LET r == Reading(f, want)
           all == r.after.content[r.after.dir[file[f].path]]
       IN  ~ r.failed /\ r.got = IF want = All THEN all ELSE StartOf(all, want)
==============================================================================
