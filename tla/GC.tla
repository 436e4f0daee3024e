--------------------------------- MODULE GC ----------------------------------
(***************************************************************************)
(* The collector of src/src/memory.c and the allocation that triggers it.  *)
(* The world is stopped while it runs, so what can go wrong is not a race: *)
(* it is an object the collector does not reach from the roots although    *)
(* the program does, one that a dying object takes along, or a mark left   *)
(* over from the last cycle, since marks are never cleared: the meaning of *)
(* the mark bit is flipped instead.                                        *)
(*                                                                         *)
(* The roots stand for the stack, the frames, the open up-values, the      *)
(* globals, the modules, the method tables and the compilers, all of which *)
(* mark_roots marks.  The list vm->objects and the gray stack are sets:    *)
(* no order in which they are walked makes a difference to what survives.  *)
(***************************************************************************)
EXTENDS Integers, FiniteSets

CONSTANTS Obj,          \* addresses
          Kinds,        \* the kinds of object the program creates
          Null

ASSUME GCAssumption ==
  /\ Null \notin Obj
  /\ Kinds \subseteq {"string", "bytes", "list", "dict", "up_value", "function",
                      "closure", "class", "instance", "bound", "module", "switch"}

\* The references a program can follow from an object of each kind.  The two
\* of a dictionary are an entry under the number 0 and any other entry; member
\* is any entry of the three tables of a class.
Fields(k) ==
  CASE k \in {"free", "string", "bytes"} -> {}
    [] k = "list" -> {"item"}
    [] k = "dict" -> {"entry", "entry_0"}
    [] k = "up_value" -> {"closed"}
    [] k = "function" -> {"name", "module", "constant"}
    [] k = "closure" -> {"function", "up_value"}
    [] k = "class" -> {"name", "initializer", "member", "superclass"}
    [] k = "instance" -> {"klass", "property"}
    [] k = "bound" -> {"receiver", "method"}
    [] k = "module" -> {"value"}
    [] k = "switch" -> {"case"}

\* Faulty: the receiver of a bound method is forgotten.
BlackensNotReceiver(k) ==
  CASE k = "dict" -> {"entry"}
    [] k = "bound" -> {"method"}
    [] OTHER -> Fields(k)

\* The references blacken_object marks.  mark_table skips an entry whose key
\* is zero as a machine word, which is how the number 0 is represented.
Blackens(k) ==
  CASE k = "dict" -> {"entry"}
    [] OTHER -> Fields(k)

\* Faulty: a closure takes its function along.
FreesWithFunction(k) ==
  CASE k = "closure" -> {"function"}
    [] OTHER -> {}

\* The references free_object frees along with the object.
FreesWith(k) ==
  CASE k = "function" -> {"name"}
    [] k = "class" -> {"name", "initializer"}
    [] OTHER -> {}

\* The kinds of object a reference of each name leads to.
Holds(f) ==
  CASE f = "name" -> {"string"}
    [] f \in {"initializer", "method"} -> {"closure"}
    [] f = "function" -> {"function"}
    [] f = "up_value" -> {"up_value"}
    [] f \in {"klass", "superclass"} -> {"class"}
    [] f = "module" -> {"module"}
    [] OTHER -> Kinds

VARIABLES kind,       \* the object at each address, or "free"
          field,      \* its references
          mark,       \* object->mark
          objects,    \* the objects linked from vm->objects
          strings,    \* the keys of the weak table vm->strings
          roots,      \* what mark_roots marks
          markValue,  \* vm->mark_value
          gray,       \* vm->gray_stack
          unswept,    \* the objects sweep has still to visit
          wanted,     \* the kind of object whose allocation started the cycle
          pc          \* "run", "trace", "sweep", "undefined" or "exited"

heap == <<kind, field, objects, strings>>
gcVars == <<mark, markValue, gray, unswept, wanted>>
vars == <<heap, gcVars, roots, pc>>

NoRefs == [f \in {} |-> Null]

Init ==
  /\ kind = [o \in Obj |-> "free"]
  /\ field = [o \in Obj |-> NoRefs]
  /\ mark = [o \in Obj |-> FALSE] /\ markValue = TRUE
  /\ objects = {} /\ strings = {} /\ roots = {}
  /\ gray = {} /\ unswept = {} /\ wanted = "free" /\ pc = "run"

Marked(o) == mark[o] = markValue

\* S holds the target of every reference of its members.
Closed(S) ==
  \A o \in S : \A f \in Fields(kind[o]) : field[o][f] \in S \cup {Null}

\* What the program can reach.
Reachable ==
  {o \in Obj : \A S \in SUBSET Obj : roots \subseteq S /\ Closed(S) => o \in S}
------------------------------------------------------------------------------
(* The program *)

Load(o) ==
  /\ pc = "run" /\ o \in Reachable
  /\ roots' = roots \cup {o}
  /\ UNCHANGED <<heap, gcVars, pc>>

Drop(o) ==
  /\ pc = "run" /\ o \in roots
  /\ roots' = roots \ {o}
  /\ UNCHANGED <<heap, gcVars, pc>>

Write(o, f, p) ==
  /\ pc = "run" /\ {o, p} \subseteq roots
  /\ f \in Fields(kind[o]) /\ kind[p] \in Holds(f)
  /\ field' = [field EXCEPT ![o][f] = p]
  /\ UNCHANGED <<kind, objects, strings, gcVars, roots, pc>>
------------------------------------------------------------------------------
(* Allocation *)

\* The tail of allocate_object, and the caller's push of the result; a string
\* is interned (allocate_string).
Link(o, k) ==
  /\ kind' = [kind EXCEPT ![o] = k]
  /\ field' = [field EXCEPT ![o] = [f \in Fields(k) |-> Null]]
  /\ objects' = objects \cup {o}
  /\ strings' = IF k = "string" THEN strings \cup {o} ELSE strings
  /\ mark' = [mark EXCEPT ![o] = ~ markValue']
  /\ roots' = roots \cup {o}

Free == {o \in Obj : kind[o] = "free"}

\* Below the threshold next_gc.
Allocate(o, k) ==
  /\ pc = "run" /\ o \in Free
  /\ UNCHANGED <<markValue, gray, unswept, wanted, pc>>
  /\ Link(o, k)

\* Faulty: vm->strings is a root like the other tables.
CollectStrings(k) ==
  /\ pc = "run"
  /\ mark' = [o \in Obj |-> IF o \in roots \cup strings THEN markValue ELSE mark[o]]
  /\ gray' = {o \in roots \cup strings : ~ Marked(o)}
  /\ wanted' = k
  /\ pc' = "trace"
  /\ UNCHANGED <<heap, markValue, unswept, roots>>

\* bytes_allocated > next_gc: collect_garbage starts and marks the roots.
Collect(k) ==
  /\ pc = "run"
  /\ mark' = [o \in Obj |-> IF o \in roots THEN markValue ELSE mark[o]]
  /\ gray' = {o \in roots : ~ Marked(o)}
  /\ wanted' = k
  /\ pc' = "trace"
  /\ UNCHANGED <<heap, markValue, unswept, roots>>
------------------------------------------------------------------------------
(* The collector *)

\* bytes, ranges, natives and pointers mark themselves.
Targets(o) ==
  ({field[o][f] : f \in Blackens(kind[o])} \ {Null})
    \cup (IF kind[o] = "bytes" THEN {o} ELSE {})

\* Faulty: mark_object does not return early at a marked object.
TraceAlways(o) ==
  /\ pc = "trace" /\ o \in gray
  /\ mark' = [p \in Obj |-> IF p \in Targets(o) THEN markValue ELSE mark[p]]
  /\ gray' = (gray \ {o}) \cup Targets(o)
  /\ UNCHANGED <<heap, markValue, unswept, wanted, roots, pc>>

\* One turn of trace_references: blacken_object, mark_object.
Trace(o) ==
  /\ pc = "trace" /\ o \in gray
  /\ mark' = [p \in Obj |-> IF p \in Targets(o) THEN markValue ELSE mark[p]]
  /\ gray' = (gray \ {o}) \cup {p \in Targets(o) : ~ Marked(p)}
  /\ UNCHANGED <<heap, markValue, unswept, wanted, roots, pc>>

\* Faulty: the string table is not cleaned.
TraceDoneKeepsStrings ==
  /\ pc = "trace" /\ gray = {}
  /\ unswept' = objects
  /\ pc' = "sweep"
  /\ UNCHANGED <<heap, mark, markValue, gray, wanted, roots>>

\* table_remove_whites, then sweep starts.
TraceDone ==
  /\ pc = "trace" /\ gray = {}
  /\ strings' = {s \in strings : Marked(s)}
  /\ unswept' = objects
  /\ pc' = "sweep"
  /\ UNCHANGED <<kind, field, objects, mark, markValue, gray, wanted, roots>>

SweepKeep(o) ==
  /\ pc = "sweep" /\ o \in unswept /\ kind[o] # "free" /\ Marked(o)
  /\ unswept' = unswept \ {o}
  /\ UNCHANGED <<heap, mark, markValue, gray, wanted, roots, pc>>

\* The object is unlinked and freed, and with it what free_object takes
\* along, which stays linked.
SweepFree(o) ==
  LET taken == {field[o][f] : f \in FreesWith(kind[o])} \ {Null}
  IN  /\ pc = "sweep" /\ o \in unswept /\ kind[o] # "free" /\ ~ Marked(o)
      /\ \A p \in taken : kind[p] # "free"
      /\ unswept' = unswept \ {o}
      /\ objects' = objects \ {o}
      /\ kind' = [p \in Obj |-> IF p \in {o} \cup taken THEN "free" ELSE kind[p]]
      /\ field' = [p \in Obj |-> IF p \in {o} \cup taken THEN NoRefs ELSE field[p]]
      /\ UNCHANGED <<strings, mark, markValue, gray, wanted, roots, pc>>

\* Sweep comes to an object that is freed already, or frees one twice.
SweepUndefined(o) ==
  /\ pc = "sweep" /\ o \in unswept
  /\ \/ kind[o] = "free"
     \/ ~ Marked(o) /\ \E f \in FreesWith(kind[o]) :
          field[o][f] # Null /\ kind[field[o][f]] = "free"
  /\ pc' = "undefined"
  /\ UNCHANGED <<heap, gcVars, roots>>

Dangling == \E o \in Reachable : kind[o] = "free"

\* The program would go on with a freed object.
ResumeUndefined ==
  /\ pc = "sweep" /\ unswept = {} /\ Dangling
  /\ pc' = "undefined"
  /\ UNCHANGED <<heap, gcVars, roots>>

\* The end of collect_garbage: the mark changes its meaning, and the
\* allocation that was waiting proceeds.
Resume(o) ==
  /\ pc = "sweep" /\ unswept = {} /\ ~ Dangling /\ o \in Free
  /\ markValue' = ~ markValue
  /\ Link(o, wanted)
  /\ wanted' = "free"
  /\ pc' = "run"
  /\ UNCHANGED <<gray, unswept>>

\* "Exit: device out of memory"
OutOfMemory ==
  /\ pc = "sweep" /\ unswept = {} /\ ~ Dangling /\ Free = {}
  /\ pc' = "exited"
  /\ UNCHANGED <<heap, gcVars, roots>>

Collector ==
  \/ \E o \in Obj : Trace(o) \/ SweepKeep(o) \/ SweepFree(o) \/ SweepUndefined(o) \/ Resume(o)
  \/ TraceDone
  \/ ResumeUndefined
  \/ OutOfMemory

Next ==
  \/ \E o \in Obj : Load(o) \/ Drop(o)
  \/ \E o, p \in Obj : \E f \in Fields(kind[o]) : Write(o, f, p)
  \/ \E k \in Kinds : Collect(k) \/ \E o \in Obj : Allocate(o, k)
  \/ Collector

Spec == Init /\ [][Next]_vars
FairSpec == Spec /\ WF_vars(Collector)
------------------------------------------------------------------------------
(* Properties *)

TypeOK ==
  /\ kind \in [Obj -> Kinds \cup {"free"}]
  /\ field = [o \in Obj |-> field[o]]
  /\ \A o \in Obj : field[o] \in [Fields(kind[o]) -> Obj \cup {Null}]
  /\ mark \in [Obj -> BOOLEAN] /\ markValue \in BOOLEAN
  /\ objects \subseteq Obj /\ strings \subseteq Obj /\ roots \subseteq Obj
  /\ gray \subseteq Obj /\ unswept \subseteq objects
  /\ wanted \in Kinds \cup {"free"}
  /\ pc \in {"run", "trace", "sweep", "undefined", "exited"}

\* No object the program can still reach is freed, in the middle of a sweep
\* or after it.
ReachableSurvive == \A o \in Reachable : kind[o] # "free"

\* Between two cycles every object counts as unreached: collect_garbage never
\* clears a mark, it relies on flipping mark_value and on allocate_object
\* giving a new object the mark that is then the unreached one.
UnmarkedAtRest == pc = "run" => \A o \in objects : ~ Marked(o)

\* The weak table vm->strings never holds a freed string.
StringsAlive == \A s \in strings : kind[s] = "string"

\* vm->objects links every object that is not freed, and no freed one, even
\* while sweep is unlinking.
LinkedExactly == objects = {o \in Obj : kind[o] # "free"}

\* A cycle leaves no garbage behind, cyclic garbage included: when sweep is
\* through, what is left is what the program can reach.
GarbageFreed == pc = "sweep" /\ unswept = {} => objects \subseteq Reachable

\* The invariant behind the two: while tracing, every reference of an object
\* that is marked and no longer gray leads to a marked object; from then on
\* the marked objects hold all the roots and refer to each other only, and
\* everything already swept is marked.  Before, no object on the list refers
\* to a freed one.
Reached == {o \in objects : Marked(o)}

TriColour ==
  /\ roots \subseteq objects
  /\ pc \in {"run", "trace"} => Closed(objects)
  /\ pc = "trace" =>
       /\ roots \subseteq Reached /\ gray \subseteq Reached
       /\ \A o \in Reached \ gray : \A f \in Fields(kind[o]) :
            field[o][f] \in Reached \cup {Null}
  /\ pc \in {"sweep", "exited"} =>
       /\ roots \subseteq Reached /\ Closed(Reached)
       /\ strings \subseteq Reached
       /\ objects \subseteq Reached \cup unswept
  /\ pc \in {"trace", "sweep", "exited"} => Reached \subseteq Reachable

\* The kinds for which blacken_object follows every reference and free_object
\* takes nothing along.
SoundKinds == \A k \in Kinds : Blackens(k) = Fields(k) /\ FreesWith(k) = {}

WantedKind == pc \in {"trace", "sweep"} => wanted \in Kinds

\* The inductive invariant of RuntimeProofs: what collect_garbage, allocate_object
\* and free_object keep between them for the kinds of SoundKinds.
IInv ==
  /\ TypeOK /\ WantedKind /\ UnmarkedAtRest /\ StringsAlive /\ LinkedExactly /\ TriColour
  /\ pc # "undefined"

\* A collection that starts comes to an end: again and again, or for good,
\* none is going on.
CollectionEnds == []<>(pc \notin {"trace", "sweep"})

\* The care free_object takes of shared functions works: the function of a
\* closure the program can reach is never freed, whatever else is.
FunctionsSurvive ==
  \A o \in Reachable : kind[o] = "closure" =>
    field[o]["function"] = Null \/ kind[field[o]["function"]] = "function"

\* get "returns the value of the key": what a dictionary the program holds
\* refers to is still there.
EntriesSurvive ==
  \A o \in roots : kind[o] = "dict" =>
    \A f \in Fields("dict") : field[o][f] # Null => kind[field[o][f]] # "free"
==============================================================================
