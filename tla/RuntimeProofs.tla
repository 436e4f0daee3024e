---------------------------- MODULE RuntimeProofs ----------------------------
(***************************************************************************)
(* Proofs about GC, Sorting and Processes.                                 *)
(*                                                                         *)
(* For every set of addresses and every program whose objects are of sound *)
(* kinds, the collector frees nothing the program can reach and everything *)
(* else.  Where free_object takes along what others may share, it still    *)
(* frees no function that a closure needs.                                 *)
(*                                                                         *)
(* sort_values sorts, for every set of values, every ranking of them and   *)
(* every length; that it ends is left to TLC.  For any number of           *)
(* processes, what await returns with, and what reads of the shared value  *)
(* and its lock can rely on.                                               *)
(***************************************************************************)
EXTENDS GC, Sorting, Processes, TLAPS

\* A leaf that names no backend is tried with each of these.
USE SMT, Zenon, SMTT(60), SMTT(90)
------------------------------------------------------------------------------
(* GC *)

\* The kinds of which blacken_object follows every reference.
FollowedKinds == \A k \in Kinds : Blackens(k) = Fields(k)

\* What a dying object takes along is no function; what a closure calls its
\* function is one.
TakenTyped ==
  \A o \in objects : \A f \in FreesWith(kind[o]) :
    field[o][f] # Null => kind[field[o][f]] # "function"

FunctionsTyped(S) ==
  \A o \in S : "function" \in Fields(kind[o]) /\ field[o]["function"] # Null =>
    kind[field[o]["function"]] = "function"

\* Before sweep no object is freed that is linked or referred to.
Whole == StringsAlive /\ LinkedExactly /\ Closed(objects) /\ FunctionsTyped(objects)

\* While tracing, what is marked and no longer gray refers to marked objects.
Tracing ==
  /\ roots \subseteq Reached /\ gray \subseteq Reached /\ Reached \subseteq Reachable
  /\ \A o \in Reached \ gray : \A f \in Fields(kind[o]) : field[o][f] \in Reached \cup {Null}

\* From then on the marked objects are what is reachable, unless one of them
\* was taken along, in which case the program reaches one that was.
Sweeping ==
  /\ roots \subseteq Reached /\ Closed(Reached) /\ (~ Dangling => Reached \subseteq Reachable)
  /\ objects \subseteq Reached \cup unswept /\ FunctionsTyped(Reached)
  /\ strings \subseteq Reached /\ \A s \in strings : kind[s] \in {"string", "free"}

\* The inductive invariant for FollowedKinds.
FollowedInv ==
  /\ TypeOK /\ WantedKind /\ UnmarkedAtRest /\ roots \subseteq objects /\ TakenTyped
  /\ \A o \in Obj : kind[o] # "free" => o \in objects
  /\ pc \in {"run", "trace"} => Whole
  /\ pc = "trace" => Tracing
  /\ pc \notin {"run", "trace"} => Sweeping

\* What the tables of kinds say of the kinds there are.
LEMMA KindFacts ==
  ASSUME FollowedKinds, NEW k \in Kinds \cup {"free"}
  PROVE  /\ Blackens(k) = Fields(k) /\ FreesWith(k) \subseteq Fields(k)
         /\ \A f \in FreesWith(k) : "function" \notin Holds(f)
         /\ Fields("free") = {} /\ FreesWith("free") = {} /\ Holds("function") = {"function"}
<1>1. Blackens(k) = Fields(k) /\ FreesWith(k) \subseteq Fields(k)
  BY Zenon DEF FollowedKinds, Blackens, FreesWith, Fields
<1>2. FreesWith(k) \subseteq {"name", "initializer"}
  BY DEF FreesWith
<1>3. Holds("name") = {"string"} /\ Holds("initializer") = {"closure"}
  BY DEF Holds
<1>4. Fields("free") = {} /\ FreesWith("free") = {} /\ Holds("function") = {"function"}
  BY DEF Fields, FreesWith, Holds
<1> QED BY <1>1, <1>2, <1>3, <1>4

\* No object is of the kind that stands for a free address.
LEMMA FreeNotAKind == "free" \notin Kinds
BY GCAssumption

\* Closed sets that hold the roots hold everything reachable.
LEMMA ReachableWithin ==
  ASSUME NEW S \in SUBSET Obj, roots \subseteq S, Closed(S)
  PROVE  Reachable \subseteq S
BY DEF Reachable

\* What the program can reach is such a set.
LEMMA ReachableClosed ==
  TypeOK => Reachable \subseteq Obj /\ roots \subseteq Reachable /\ Closed(Reachable)
<1> SUFFICES ASSUME TypeOK
             PROVE  Reachable \subseteq Obj /\ roots \subseteq Reachable /\ Closed(Reachable)
  OBVIOUS
<1>1. Reachable \subseteq Obj /\ roots \subseteq Reachable
  BY DEF Reachable, TypeOK
<1>2. ASSUME NEW o \in Reachable, NEW f \in Fields(kind[o]), field[o][f] # Null
      PROVE  field[o][f] \in Reachable
  <2>1. field[o][f] \in Obj
    BY <1>1, <1>2 DEF TypeOK
  <2> SUFFICES ASSUME NEW S \in SUBSET Obj, roots \subseteq S, Closed(S)
               PROVE  field[o][f] \in S
    BY <2>1 DEF Reachable
  <2>2. o \in S
    BY DEF Reachable
  <2> QED BY <1>2, <2>2 DEF Closed
<1>3. Closed(Reachable)
  BY <1>2 DEF Closed
<1> QED BY <1>1, <1>3

\* So it is in the next state.
LEMMA ReachableClosedNext ==
  TypeOK' => (Reachable \subseteq Obj /\ roots \subseteq Reachable /\ Closed(Reachable))'
BY ReachableClosed, PTL

\* An empty heap satisfies the inductive invariant.
LEMMA InitInv == ASSUME Init PROVE FollowedInv
<1> USE DEF Init
<1>1. TypeOK
  BY DEF TypeOK, NoRefs, Fields
<1>2. UnmarkedAtRest /\ Whole /\ TakenTyped
  BY DEF UnmarkedAtRest, StringsAlive, LinkedExactly, Whole, Closed, FunctionsTyped, TakenTyped
<1> QED BY <1>1, <1>2 DEF FollowedInv, WantedKind

\* Loading and dropping change the roots alone.
LEMMA RootsInv ==
  ASSUME FollowedInv, NEW o \in Obj, Load(o) \/ Drop(o)
  PROVE  FollowedInv'
<1>1. /\ pc = "run" /\ pc' = pc /\ UNCHANGED <<kind, field, objects, strings>>
      /\ UNCHANGED <<mark, markValue, gray, unswept, wanted>>
  BY DEF Load, Drop, heap, gcVars
<1>2. roots' \subseteq objects
  <2>1. CASE Load(o)
    <3>1. Reachable \subseteq objects
      BY <1>1, ReachableWithin DEF FollowedInv, TypeOK, Whole
    <3> QED BY <2>1, <3>1 DEF Load, FollowedInv
  <2>2. CASE Drop(o)
    BY <2>2 DEF Drop, FollowedInv
  <2> QED BY <2>1, <2>2
<1>3. TypeOK'
  BY <1>1, <1>2 DEF FollowedInv, TypeOK
<1>4. UnmarkedAtRest' /\ TakenTyped'
  BY <1>1 DEF FollowedInv, UnmarkedAtRest, TakenTyped, Marked
<1>5. Whole'
  BY <1>1 DEF FollowedInv, Whole, StringsAlive, LinkedExactly, Closed, FunctionsTyped
<1> QED BY <1>1, <1>2, <1>3, <1>4, <1>5 DEF FollowedInv, WantedKind

\* A write makes a root refer to a root, of the kind the reference is for.
LEMMA WriteInv ==
  ASSUME FollowedKinds, FollowedInv, NEW o \in Obj, NEW p \in Obj, NEW f, Write(o, f, p)
  PROVE  FollowedInv'
<1>1. /\ pc = "run" /\ pc' = pc /\ UNCHANGED <<kind, objects, strings, roots>>
      /\ UNCHANGED <<mark, markValue, gray, unswept, wanted>>
      /\ o \in roots /\ p \in roots /\ f \in Fields(kind[o]) /\ kind[p] \in Holds(f)
      /\ field' = [field EXCEPT ![o][f] = p]
  BY DEF Write, gcVars
<1>2. \A q \in Obj : field[q] \in [Fields(kind[q]) -> Obj \cup {Null}]
  BY DEF FollowedInv, TypeOK
<1>3. /\ field' = [q \in Obj |-> field'[q]]
      /\ \A q \in Obj : field'[q] \in [Fields(kind[q]) -> Obj \cup {Null}]
      /\ \A q \in Obj : \A g \in Fields(kind[q]) :
           field'[q][g] = field[q][g] \/ (field'[q][g] = p /\ g = f)
  BY Zenon, <1>1, <1>2 DEF FollowedInv, TypeOK
<1>4. TypeOK'
  BY <1>1, <1>3 DEF FollowedInv, TypeOK
<1>5. UnmarkedAtRest' /\ StringsAlive' /\ LinkedExactly'
  BY <1>1 DEF FollowedInv, Whole, UnmarkedAtRest, StringsAlive, LinkedExactly, Marked
<1>6. Closed(objects)'
  <2>1. Closed(objects) /\ p \in objects /\ objects \subseteq Obj
    BY <1>1 DEF FollowedInv, Whole, TypeOK
  <2> QED BY <1>1, <1>3, <2>1 DEF Closed
<1>7. /\ Holds("function") = {"function"}
      /\ \A q \in Obj : \A g \in FreesWith(kind[q]) :
           g \in Fields(kind[q]) /\ "function" \notin Holds(g)
  BY KindFacts DEF FollowedInv, TypeOK
<1>8. TakenTyped' /\ FunctionsTyped(objects)'
  <2>1. TakenTyped /\ FunctionsTyped(objects) /\ objects \subseteq Obj
    BY <1>1 DEF FollowedInv, Whole, TypeOK
  <2>2. TakenTyped'
    BY <1>1, <1>3, <1>7, <2>1 DEF TakenTyped
  <2>3. FunctionsTyped(objects)'
    BY <1>1, <1>3, <1>7, <2>1 DEF FunctionsTyped
  <2> QED BY <2>2, <2>3
<1> QED BY <1>1, <1>4, <1>5, <1>6, <1>8 DEF FollowedInv, WantedKind, Whole

\* What linking a new object keeps: the list stays closed.
LEMMA LinkKeeps ==
  ASSUME FollowedKinds, TypeOK, Whole, TakenTyped, roots \subseteq objects,
         NEW o \in Free, NEW k \in Kinds, Link(o, k)
  PROVE  /\ kind' \in [Obj -> Kinds \cup {"free"}]
         /\ field' = [p \in Obj |-> field'[p]]
         /\ \A p \in Obj : field'[p] \in [Fields(kind'[p]) -> Obj \cup {Null}]
         /\ objects' \subseteq Obj /\ strings' \subseteq Obj /\ roots' \subseteq objects'
         /\ Whole' /\ TakenTyped'
<1>1. /\ o \in Obj /\ kind[o] = "free" /\ o \notin objects /\ o \notin strings
  BY DEF Free, Whole, StringsAlive, LinkedExactly
<1>2. /\ \A p \in Obj : kind'[p] = IF p = o THEN k ELSE kind[p]
      /\ \A p \in Obj : field'[p] = IF p = o THEN [f \in Fields(k) |-> Null] ELSE field[p]
      /\ kind' \in [Obj -> Kinds \cup {"free"}]
      /\ field' = [p \in Obj |-> field'[p]]
  BY <1>1 DEF Link, TypeOK
<1>3. \A p \in Obj : field'[p] \in [Fields(kind'[p]) -> Obj \cup {Null}]
  BY <1>2 DEF TypeOK
<1>4. objects' = objects \cup {o} /\ roots' = roots \cup {o}
  BY DEF Link
<1>5. objects' \subseteq Obj /\ strings' \subseteq Obj /\ roots' \subseteq objects'
  BY <1>1, <1>4 DEF Link, TypeOK
<1>6. StringsAlive'
  BY <1>1, <1>2 DEF Link, Whole, StringsAlive, TypeOK
<1>7. LinkedExactly'
  BY <1>1, <1>2, <1>4, FreeNotAKind DEF Whole, LinkedExactly, TypeOK
<1>8. ASSUME NEW p \in objects', NEW f \in Fields(kind'[p])
      PROVE  \/ field'[p][f] = Null
             \/ /\ p \in objects /\ f \in Fields(kind[p]) /\ field'[p][f] = field[p][f]
                /\ field[p][f] \in objects /\ kind'[field[p][f]] = kind[field[p][f]]
  <2>1. CASE p = o
    BY <1>1, <1>2, <2>1
  <2>2. CASE p # o
    <3>1. p \in objects /\ p \in Obj /\ field'[p] = field[p] /\ kind'[p] = kind[p]
      BY <1>2, <1>4, <2>2 DEF TypeOK
    <3>2. field[p][f] \in objects \cup {Null}
      BY <3>1 DEF Whole, Closed
    <3>3. field[p][f] \in objects => field[p][f] \in Obj /\ field[p][f] # o
      BY <1>1 DEF TypeOK
    <3> QED BY <1>2, <3>1, <3>2, <3>3
  <2> QED BY <2>1, <2>2
<1>9. Closed(objects)'
  BY <1>4, <1>8 DEF Closed
<1>10. TakenTyped'
  <2>1. \A p \in objects' : FreesWith(kind'[p]) \subseteq Fields(kind'[p])
    BY <1>2, <1>5, KindFacts
  <2>2. \A p \in objects' : p \in objects => kind'[p] = kind[p]
    BY <1>1, <1>2, <1>5
  <2> QED BY <1>8, <2>1, <2>2 DEF TakenTyped
<1>11. FunctionsTyped(objects)'
  BY <1>8 DEF FunctionsTyped, Whole
<1> QED BY <1>2, <1>3, <1>5, <1>6, <1>7, <1>9, <1>10, <1>11 DEF Whole

\* An allocation below the threshold links an unmarked object.
LEMMA AllocateInv ==
  ASSUME FollowedKinds, FollowedInv, NEW o \in Obj, NEW k \in Kinds, Allocate(o, k)
  PROVE  FollowedInv'
<1>1. /\ pc = "run" /\ pc' = pc /\ UNCHANGED <<markValue, gray, unswept, wanted>>
      /\ o \in Free /\ Link(o, k)
      /\ mark' = [mark EXCEPT ![o] = ~ markValue]
  BY DEF Allocate, Link
<1>2. /\ TypeOK /\ Whole /\ TakenTyped /\ roots \subseteq objects
      /\ unswept \subseteq objects /\ UnmarkedAtRest
  BY <1>1 DEF FollowedInv, TypeOK
<1>3. /\ kind' \in [Obj -> Kinds \cup {"free"}]
      /\ field' = [p \in Obj |-> field'[p]]
      /\ \A p \in Obj : field'[p] \in [Fields(kind'[p]) -> Obj \cup {Null}]
      /\ objects' \subseteq Obj /\ strings' \subseteq Obj /\ roots' \subseteq objects'
      /\ Whole' /\ TakenTyped'
  BY <1>1, <1>2, LinkKeeps
<1>4. objects' = objects \cup {o}
  BY <1>1 DEF Link
<1>5. mark' \in [Obj -> BOOLEAN]
  BY <1>1, <1>2, Zenon DEF TypeOK
<1>6. TypeOK'
  BY <1>1, <1>2, <1>3, <1>4, <1>5 DEF TypeOK
<1>7. UnmarkedAtRest'
  BY <1>1, <1>2, <1>4, Zenon DEF UnmarkedAtRest, Marked, TypeOK
<1>8. \A p \in Obj : kind'[p] # "free" => p \in objects'
  BY <1>3 DEF Whole, LinkedExactly
<1> QED BY <1>1, <1>3, <1>6, <1>7, <1>8 DEF FollowedInv, WantedKind

\* Marking the roots: they are the marked objects.
LEMMA CollectInv ==
  ASSUME FollowedInv, NEW k \in Kinds, Collect(k)
  PROVE  FollowedInv'
<1>1. /\ pc = "run" /\ pc' = "trace"
      /\ UNCHANGED <<kind, field, objects, strings, markValue, unswept, roots>>
      /\ mark' = [o \in Obj |-> IF o \in roots THEN markValue ELSE mark[o]]
      /\ gray' = {o \in roots : ~ Marked(o)} /\ wanted' = k
  BY DEF Collect, heap
<1>2. TypeOK /\ roots \subseteq objects /\ \A o \in objects : ~ Marked(o)
  BY <1>1 DEF FollowedInv, UnmarkedAtRest
<1>3. Reached' = roots /\ gray' = roots
  BY <1>1, <1>2 DEF Reached, Marked, TypeOK
<1>4. TypeOK'
  <2>1. mark' \in [Obj -> BOOLEAN]
    BY <1>1, <1>2 DEF TypeOK
  <2> QED BY <1>1, <1>2, <1>3, <2>1 DEF TypeOK
<1>5. UnmarkedAtRest' /\ TakenTyped' /\ Whole'
  BY <1>1 DEF FollowedInv, Whole, UnmarkedAtRest, StringsAlive, LinkedExactly, TakenTyped,
              FunctionsTyped, Closed
<1>6. roots' \subseteq Reachable'
  BY <1>1, <1>2 DEF Reachable, TypeOK
<1>7. Tracing'
  BY <1>1, <1>3, <1>6 DEF Tracing
<1> QED BY <1>1, <1>4, <1>5, <1>7 DEF FollowedInv, WantedKind

\* One turn of the trace: the targets of o become marked, the new ones gray.
LEMMA TraceInv ==
  ASSUME FollowedKinds, FollowedInv, NEW o \in Obj, Trace(o)
  PROVE  FollowedInv'
<1>1. /\ pc = "trace" /\ pc' = pc /\ o \in gray
      /\ UNCHANGED <<kind, field, objects, strings, markValue, unswept, wanted, roots>>
      /\ mark' = [p \in Obj |-> IF p \in Targets(o) THEN markValue ELSE mark[p]]
      /\ gray' = (gray \ {o}) \cup {p \in Targets(o) : ~ Marked(p)}
  BY DEF Trace, heap
<1>2. /\ TypeOK /\ roots \subseteq Reached /\ gray \subseteq Reached /\ Closed(objects)
      /\ \A p \in Reached \ gray : \A f \in Fields(kind[p]) :
            field[p][f] \in Reached \cup {Null}
      /\ Reached \subseteq Reachable
  BY <1>1 DEF FollowedInv, Whole, Tracing
<1>3. o \in objects /\ o \in Reached /\ Reached \subseteq objects /\ objects \subseteq Obj
  BY <1>1, <1>2 DEF Reached, TypeOK
<1>4. /\ \A f \in Fields(kind[o]) : field[o][f] \in Targets(o) \cup {Null}
      /\ \A p \in Targets(o) : p = o \/ \E f \in Fields(kind[o]) : field[o][f] = p /\ p # Null
  <2>1. Blackens(kind[o]) = Fields(kind[o])
    BY <1>2, KindFacts DEF TypeOK
  <2> QED BY <2>1 DEF Targets
<1>5. Targets(o) \subseteq objects
  BY <1>2, <1>3, <1>4 DEF Closed
<1>6. Reached' = Reached \cup Targets(o)
  BY <1>1, <1>3, <1>5 DEF Reached, Marked
<1>7. gray' \subseteq Reached' /\ \A p \in Reached' \ gray' : p \in (Reached \ gray) \cup {o}
  BY <1>1, <1>2, <1>3, <1>5, <1>6 DEF Reached
<1>8. Targets(o) \subseteq Reachable
  <2> SUFFICES ASSUME NEW p \in Targets(o), NEW S \in SUBSET Obj, roots \subseteq S, Closed(S)
               PROVE  p \in S
    BY <1>3, <1>5 DEF Reachable
  <2>1. o \in S
    BY <1>2, <1>3 DEF Reachable
  <2> QED BY <1>4, <2>1 DEF Closed
<1>9. Reachable' = Reachable
  BY <1>1 DEF Reachable, Closed
<1>10. TypeOK'
  <2>1. mark' \in [Obj -> BOOLEAN]
    BY <1>1, <1>2 DEF TypeOK
  <2>2. gray' \subseteq Obj
    BY <1>1, <1>2, <1>3, <1>5 DEF TypeOK
  <2> QED BY <1>1, <1>2, <2>1, <2>2 DEF TypeOK
<1>11. UnmarkedAtRest' /\ TakenTyped' /\ Whole'
  BY <1>1 DEF FollowedInv, Whole, UnmarkedAtRest, StringsAlive, LinkedExactly, TakenTyped,
              FunctionsTyped, Closed
<1>12. \A p \in Reached' \ gray' : \A f \in Fields(kind'[p]) :
         field'[p][f] \in Reached' \cup {Null}
  BY <1>1, <1>2, <1>4, <1>6, <1>7
<1>13. Tracing'
  <2>1. roots' \subseteq Reached' /\ Reached' \subseteq Reachable'
    BY <1>1, <1>2, <1>6, <1>8, <1>9
  <2> QED BY <1>7, <1>12, <2>1 DEF Tracing
<1>14. roots' \subseteq objects' /\ \A p \in Obj : kind'[p] # "free" => p \in objects'
  BY <1>1 DEF FollowedInv
<1> QED BY <1>1, <1>10, <1>11, <1>13, <1>14 DEF FollowedInv, WantedKind

\* The trace is complete: the marked objects are closed.
LEMMA TraceDoneInv ==
  ASSUME FollowedInv, TraceDone
  PROVE  FollowedInv'
<1>1. /\ pc = "trace" /\ pc' = "sweep" /\ gray = {}
      /\ UNCHANGED <<kind, field, objects, mark, markValue, gray, wanted, roots>>
      /\ strings' = {s \in strings : Marked(s)} /\ unswept' = objects
  BY DEF TraceDone
<1>2. /\ TypeOK /\ roots \subseteq Reached
      /\ \A p \in Reached : \A f \in Fields(kind[p]) : field[p][f] \in Reached \cup {Null}
      /\ Reached \subseteq Reachable /\ Whole
  BY <1>1 DEF FollowedInv, Tracing
<1>3. Reached' = Reached /\ Reachable' = Reachable
  BY <1>1 DEF Reached, Marked, Reachable, Closed
<1>4. strings' \subseteq Reached /\ \A s \in strings' : kind[s] = "string"
  BY <1>1, <1>2 DEF Reached, Whole, StringsAlive, LinkedExactly, TypeOK
<1>5. TypeOK'
  BY <1>1, <1>2 DEF TypeOK
<1>6. UnmarkedAtRest' /\ TakenTyped'
  BY <1>1 DEF FollowedInv, UnmarkedAtRest, TakenTyped
<1>7. FunctionsTyped(Reached)'
  BY <1>1, <1>2, <1>3 DEF Whole, FunctionsTyped, Reached
<1>8. Sweeping'
  BY <1>1, <1>2, <1>3, <1>4, <1>7 DEF Sweeping, Closed
<1> QED BY <1>1, <1>5, <1>6, <1>8 DEF FollowedInv, WantedKind

\* Sweep passes over a marked object.
LEMMA SweepKeepInv ==
  ASSUME FollowedInv, NEW o \in Obj, SweepKeep(o)
  PROVE  FollowedInv'
<1>1. /\ pc = "sweep" /\ pc' = pc /\ o \in unswept /\ Marked(o) /\ unswept' = unswept \ {o}
      /\ UNCHANGED <<kind, field, objects, strings, mark, markValue, gray, wanted, roots>>
  BY DEF SweepKeep, heap
<1>2. /\ Reached' = Reached /\ Reachable' = Reachable /\ Closed(Reached)' = Closed(Reached)
      /\ FunctionsTyped(Reached)' = FunctionsTyped(Reached) /\ Dangling' = Dangling
  BY <1>1 DEF Reached, Marked, Reachable, Closed, FunctionsTyped, Dangling
<1>3. o \in Reached
  BY <1>1 DEF FollowedInv, TypeOK, Reached
<1>4. TypeOK'
  BY <1>1 DEF FollowedInv, TypeOK
<1>5. UnmarkedAtRest' /\ TakenTyped'
  BY <1>1 DEF FollowedInv, UnmarkedAtRest, TakenTyped
<1>6. Sweeping'
  BY <1>1, <1>2, <1>3 DEF FollowedInv, Sweeping
<1> QED BY <1>1, <1>4, <1>5, <1>6 DEF FollowedInv, WantedKind

\* Freeing an unmarked object, and others with it, frees no function the
\* marked objects refer to.
LEMMA SweepFreeInv ==
  ASSUME FollowedKinds, FollowedInv, NEW o \in Obj, SweepFree(o)
  PROVE  FollowedInv'
<1> DEFINE taken == {field[o][f] : f \in FreesWith(kind[o])} \ {Null}
<1> DEFINE dead == {o} \cup taken
<1>1. /\ TypeOK /\ TakenTyped /\ roots \subseteq objects
      /\ \A p \in Obj : kind[p] # "free" => p \in objects
      /\ roots \subseteq Reached /\ Closed(Reached) /\ (~ Dangling => Reached \subseteq Reachable)
      /\ objects \subseteq Reached \cup unswept /\ FunctionsTyped(Reached)
      /\ strings \subseteq Reached /\ \A s \in strings : kind[s] \in {"string", "free"}
  BY DEF SweepFree, FollowedInv, Sweeping
<1>2. /\ pc = "sweep" /\ pc' = pc /\ o \in unswept /\ ~ Marked(o)
      /\ \A p \in taken : kind[p] # "free"
      /\ unswept' = unswept \ {o} /\ objects' = objects \ {o}
      /\ kind' = [p \in Obj |-> IF p \in dead THEN "free" ELSE kind[p]]
      /\ field' = [p \in Obj |-> IF p \in dead THEN NoRefs ELSE field[p]]
      /\ UNCHANGED <<strings, mark, markValue, gray, wanted, roots>>
  BY DEF SweepFree
<1>3. /\ Fields("free") = {} /\ FreesWith("free") = {}
      /\ \A p \in Obj : FreesWith(kind[p]) \subseteq Fields(kind[p])
  BY <1>1, KindFacts DEF TypeOK
<1>4. taken \subseteq Obj /\ \A p \in taken : kind[p] # "function"
  <2>1. o \in objects /\ field[o] \in [Fields(kind[o]) -> Obj \cup {Null}]
    BY <1>1, <1>2 DEF TypeOK
  <2> QED BY <1>1, <1>3, <2>1 DEF TakenTyped
<1>5. Reached' = Reached /\ o \notin Reached /\ Reached \subseteq Obj
  BY <1>1, <1>2 DEF Reached, Marked, TypeOK
<1> HIDE DEF taken
<1>6. TypeOK'
  <2>1. kind' \in [Obj -> Kinds \cup {"free"}] /\ field' = [p \in Obj |-> field'[p]]
    BY <1>1, <1>2 DEF TypeOK
  <2>2. \A p \in Obj : field'[p] \in [Fields(kind'[p]) -> Obj \cup {Null}]
    BY <1>1, <1>2, <1>3 DEF TypeOK, NoRefs
  <2> QED BY <1>1, <1>2, <2>1, <2>2 DEF TypeOK
<1>7. \A q \in Obj : \A f \in Fields(kind'[q]) :
        q \notin dead /\ kind'[q] = kind[q] /\ field'[q] = field[q]
  BY <1>2, <1>3
<1>8. TakenTyped'
  <2> SUFFICES ASSUME NEW q \in objects', NEW f \in FreesWith(kind'[q]), field'[q][f] # Null
               PROVE  kind'[field'[q][f]] # "function"
    BY DEF TakenTyped
  <2>1. q \in Obj /\ q \in objects /\ q \notin dead /\ kind'[q] = kind[q] /\ field'[q] = field[q]
    BY <1>1, <1>2, <1>3 DEF TypeOK
  <2>2. field[q][f] \in Obj
    BY <1>1, <1>3, <2>1 DEF TypeOK
  <2>3. kind[field[q][f]] # "function"
    BY <1>1, <2>1 DEF TakenTyped
  <2> QED BY <1>2, <2>1, <2>2, <2>3
<1>9. roots' \subseteq objects' /\ \A p \in Obj : kind'[p] # "free" => p \in objects'
  BY <1>1, <1>2, <1>5
<1>10. Closed(Reached)'
  BY <1>1, <1>5, <1>7 DEF Closed
<1>11. FunctionsTyped(Reached)'
  <2> SUFFICES ASSUME NEW q \in Reached, "function" \in Fields(kind'[q]),
                      field'[q]["function"] # Null
               PROVE  kind'[field'[q]["function"]] = "function"
    BY <1>5 DEF FunctionsTyped
  <2>1. q \in Obj /\ "function" \in Fields(kind[q]) /\ field'[q] = field[q]
    BY <1>5, <1>7
  <2>2. field[q]["function"] \in Reached
    BY <1>1, <2>1 DEF Closed
  <2>3. kind[field[q]["function"]] = "function"
    BY <1>1, <2>1 DEF FunctionsTyped
  <2>4. field[q]["function"] \in Obj /\ field[q]["function"] \notin dead
    BY <1>4, <1>5, <2>2, <2>3
  <2> QED BY <1>2, <2>1, <2>3, <2>4
<1>12. ~ Dangling' => Reached \subseteq Reachable'
  <2> SUFFICES ASSUME ~ Dangling' PROVE Reached \subseteq Reachable'
    OBVIOUS
  <2>1. /\ Reachable' \subseteq Obj /\ roots' \subseteq Reachable'
        /\ \A p \in Reachable' : \A f \in Fields(kind'[p]) : field'[p][f] \in Reachable' \cup {Null}
    BY <1>6, ReachableClosedNext DEF Closed
  <2>2. \A p \in Reachable' : kind'[p] = kind[p] /\ field'[p] = field[p] /\ kind[p] # "free"
    BY <1>2, <2>1 DEF Dangling
  <2>3. Closed(Reachable')
    BY <2>1, <2>2 DEF Closed
  <2>4. Reachable \subseteq Reachable'
    BY <1>2, <2>1, <2>3, ReachableWithin
  <2>5. ~ Dangling
    BY <2>2, <2>4 DEF Dangling
  <2> QED BY <1>1, <2>4, <2>5
<1>13. \A s \in strings' : kind'[s] \in {"string", "free"}
  BY <1>1, <1>2, <1>5
<1>14. Sweeping'
  <2>1. objects' \subseteq Reached' \cup unswept' /\ roots' \subseteq Reached' /\ strings' \subseteq Reached'
    BY <1>1, <1>2, <1>5
  <2> QED BY <1>5, <1>10, <1>11, <1>12, <1>13, <2>1 DEF Sweeping
<1>15. UnmarkedAtRest' /\ WantedKind'
  BY <1>2 DEF UnmarkedAtRest, WantedKind, FollowedInv
<1> QED BY <1>2, <1>6, <1>8, <1>9, <1>14, <1>15 DEF FollowedInv

\* The flip turns the marked objects, which are all there are, into unmarked.
LEMMA ResumeInv ==
  ASSUME FollowedKinds, FollowedInv, NEW o \in Obj, Resume(o)
  PROVE  FollowedInv'
<1>1. /\ pc = "sweep" /\ pc' = "run" /\ unswept = {} /\ UNCHANGED <<gray, unswept>>
      /\ o \in Free /\ Link(o, wanted) /\ markValue' = ~ markValue /\ wanted' = "free"
      /\ mark' = [mark EXCEPT ![o] = ~ markValue'] /\ ~ Dangling
  BY DEF Resume, Link
<1>2. /\ TypeOK /\ TakenTyped /\ roots \subseteq objects /\ Closed(Reached)
      /\ \A p \in Obj : kind[p] # "free" => p \in objects
      /\ objects \subseteq Reached /\ Reached \subseteq Reachable /\ FunctionsTyped(Reached)
      /\ strings \subseteq Reached /\ \A s \in strings : kind[s] \in {"string", "free"}
  BY <1>1 DEF FollowedInv, Sweeping
<1>3. Reached = objects
  BY <1>2 DEF Reached
<1>4. \A p \in objects : kind[p] # "free"
  BY <1>1, <1>2 DEF Dangling
<1>5. Whole
  <2>1. StringsAlive
    BY <1>2, <1>3, <1>4 DEF StringsAlive
  <2>2. LinkedExactly
    BY <1>2, <1>4 DEF LinkedExactly, TypeOK
  <2> QED BY <1>2, <1>3, <2>1, <2>2 DEF Whole
<1>6. wanted \in Kinds
  BY <1>1 DEF FollowedInv, WantedKind
<1>7. /\ kind' \in [Obj -> Kinds \cup {"free"}]
      /\ field' = [p \in Obj |-> field'[p]]
      /\ \A p \in Obj : field'[p] \in [Fields(kind'[p]) -> Obj \cup {Null}]
      /\ objects' \subseteq Obj /\ strings' \subseteq Obj /\ roots' \subseteq objects'
      /\ Whole' /\ TakenTyped'
  BY <1>1, <1>2, <1>5, <1>6, LinkKeeps
<1>8. objects' = objects \cup {o}
  BY <1>1 DEF Link
<1>9. mark' \in [Obj -> BOOLEAN] /\ markValue' \in BOOLEAN
  BY <1>1, <1>2, Zenon DEF TypeOK
<1>10. TypeOK'
  BY <1>1, <1>2, <1>7, <1>8, <1>9 DEF TypeOK
<1>11. UnmarkedAtRest'
  <2> SUFFICES ASSUME NEW p \in objects' PROVE mark'[p] # markValue'
    BY DEF UnmarkedAtRest, Marked
  <2>1. CASE p = o
    BY <1>1, <1>2, <2>1, Zenon DEF TypeOK
  <2>2. CASE p # o
    <3>1. mark[p] = markValue /\ p \in Obj /\ mark'[p] = mark[p]
      BY <1>1, <1>2, <1>3, <1>8, <2>2 DEF Reached, Marked, TypeOK
    <3> QED BY <1>1, <1>2, <3>1, Zenon DEF TypeOK
  <2> QED BY <2>1, <2>2
<1>12. \A p \in Obj : kind'[p] # "free" => p \in objects'
  BY <1>7 DEF Whole, LinkedExactly
<1> QED BY <1>1, <1>7, <1>10, <1>11, <1>12 DEF FollowedInv, WantedKind

\* Where the collector or the program stops, nothing else changes.
LEMMA StopInv ==
  ASSUME FollowedInv, UNCHANGED <<heap, gcVars, roots>>,
         pc' = pc \/ (pc = "sweep" /\ pc' \in {"undefined", "exited"})
  PROVE  FollowedInv'
<1>1. UNCHANGED <<kind, field, objects, strings, mark, markValue, gray, unswept, wanted, roots>>
  BY DEF heap, gcVars
<1>2. TypeOK' /\ WantedKind' /\ UnmarkedAtRest' /\ TakenTyped'
  BY Zenon, <1>1 DEF FollowedInv, TypeOK, WantedKind, UnmarkedAtRest, TakenTyped, Marked
<1>3. Reached' = Reached /\ Reachable' = Reachable /\ Dangling' = Dangling
  BY <1>1 DEF Reached, Marked, Reachable, Closed, Dangling
<1>4. Whole => Whole'
  BY <1>1 DEF Whole, StringsAlive, LinkedExactly, Closed, FunctionsTyped
<1>5. Tracing => Tracing'
  BY <1>1, <1>3 DEF Tracing
<1>6. Sweeping => Sweeping'
  BY <1>1, <1>3 DEF Sweeping, Closed, FunctionsTyped
<1> QED BY <1>1, <1>2, <1>4, <1>5, <1>6 DEF FollowedInv

\* Every step of the program and of the collector preserves the invariant.
LEMMA NextInv ==
  ASSUME FollowedKinds, FollowedInv, [Next]_vars
  PROVE  FollowedInv'
<1>1. ASSUME NEW o \in Obj, Load(o) \/ Drop(o) PROVE FollowedInv'
  BY <1>1, RootsInv
<1>2. ASSUME NEW o \in Obj, NEW p \in Obj, NEW f \in Fields(kind[o]), Write(o, f, p)
      PROVE  FollowedInv'
  BY <1>2, WriteInv
<1>3. ASSUME NEW k \in Kinds, Collect(k) PROVE FollowedInv'
  BY <1>3, CollectInv
<1>4. ASSUME NEW k \in Kinds, NEW o \in Obj, Allocate(o, k) PROVE FollowedInv'
  BY <1>4, AllocateInv
<1>5. CASE Collector
  <2>1. ASSUME NEW o \in Obj, Trace(o) PROVE FollowedInv'
    BY <2>1, TraceInv
  <2>2. ASSUME NEW o \in Obj, SweepKeep(o) PROVE FollowedInv'
    BY <2>2, SweepKeepInv
  <2>3. ASSUME NEW o \in Obj, SweepFree(o) PROVE FollowedInv'
    BY <2>3, SweepFreeInv
  <2>4. ASSUME NEW o \in Obj, SweepUndefined(o) PROVE FollowedInv'
    BY <2>4, StopInv DEF SweepUndefined
  <2>5. ASSUME NEW o \in Obj, Resume(o) PROVE FollowedInv'
    BY <2>5, ResumeInv
  <2>6. CASE TraceDone
    BY <2>6, TraceDoneInv
  <2>7. CASE ResumeUndefined \/ OutOfMemory
    BY <2>7, StopInv DEF ResumeUndefined, OutOfMemory
  <2> QED BY <1>5, <2>1, <2>2, <2>3, <2>4, <2>5, <2>6, <2>7 DEF Collector
<1>6. CASE UNCHANGED vars
  BY <1>6, StopInv DEF vars
<1> QED BY <1>1, <1>2, <1>3, <1>4, <1>5, <1>6 DEF Next

\* The inductive invariant for the kinds of which every reference is followed.
THEOREM FollowedInvariance == ASSUME FollowedKinds PROVE Spec => []FollowedInv
<1>1. Init => FollowedInv
  BY InitInv
<1>2. FollowedInv /\ [Next]_vars => FollowedInv'
  BY NextInv
<1> QED BY <1>1, <1>2, PTL DEF Spec

\* The invariant says that the program reaches nothing but linked objects,
\* and from the moment the trace is done nothing but marked ones.
LEMMA ReachesLinked ==
  ASSUME FollowedInv
  PROVE  /\ Reachable \subseteq objects
         /\ pc \notin {"run", "trace"} => Reachable \subseteq Reached
<1>1. Reached \subseteq objects /\ objects \subseteq Obj
  BY DEF FollowedInv, TypeOK, Reached
<1>2. pc \in {"run", "trace"} => Reachable \subseteq objects
  BY <1>1, ReachableWithin DEF FollowedInv, Whole
<1>3. pc \notin {"run", "trace"} => Reachable \subseteq Reached
  BY <1>1, ReachableWithin DEF FollowedInv, Sweeping
<1> QED BY <1>1, <1>2, <1>3

\* free_object takes along names and initializers, which others may share, but
\* never a function: unless dictionaries hide references from blacken_object,
\* the function of a closure the program can reach is not freed.
THEOREM FunctionsKept == ASSUME FollowedKinds PROVE Spec => []FunctionsSurvive
<1>1. FollowedInv => FunctionsSurvive
  <2> SUFFICES ASSUME FollowedInv, NEW o \in Reachable, kind[o] = "closure",
                      field[o]["function"] # Null
               PROVE  kind[field[o]["function"]] = "function"
    BY DEF FunctionsSurvive
  <2>1. "function" \in Fields(kind[o])
    BY DEF Fields
  <2>2. CASE pc \in {"run", "trace"}
    BY <2>1, <2>2, ReachesLinked DEF FollowedInv, Whole, FunctionsTyped
  <2>3. CASE pc \notin {"run", "trace"}
    BY <2>1, <2>3, ReachesLinked DEF FollowedInv, Sweeping, FunctionsTyped
  <2> QED BY <2>2, <2>3
<1> QED BY <1>1, FollowedInvariance, PTL

\* Flipping mark_value makes all marks void: no cycle sees a stale one.
THEOREM MarksVoid == ASSUME FollowedKinds PROVE Spec => []UnmarkedAtRest
<1>1. FollowedInv => UnmarkedAtRest
  BY DEF FollowedInv
<1> QED BY <1>1, FollowedInvariance, PTL
------------------------------------------------------------------------------
(* Kinds of which free_object takes nothing along *)

\* What the tables of kinds say of a sound kind.
LEMMA SoundFacts ==
  ASSUME SoundKinds
  PROVE  FollowedKinds /\ \A k \in Kinds \cup {"free"} : FreesWith(k) = {}
BY DEF SoundKinds, FollowedKinds, FreesWith

\* Nothing that is linked or interned is freed, at any point of a sweep.
Sound == StringsAlive /\ LinkedExactly /\ pc # "undefined"

\* Sweep never meets a freed object, and leaves the program with none.
LEMMA SoundKept ==
  ASSUME SoundKinds, FollowedInv, Sound, [Next]_vars
  PROVE  Sound'
<1>1. FollowedInv'
  BY SoundFacts, NextInv
<1>2. CASE pc' \in {"run", "trace"}
  BY <1>1, <1>2 DEF FollowedInv, Whole, Sound
<1>3. ASSUME UNCHANGED <<heap, roots>>, pc' # "undefined" PROVE Sound'
  BY <1>3 DEF heap, Sound, StringsAlive, LinkedExactly
<1>4. ASSUME NEW o \in Obj, SweepUndefined(o) PROVE FALSE
  <2>1. o \in objects /\ kind[o] # "free"
    BY <1>4 DEF SweepUndefined, FollowedInv, TypeOK, Sound, LinkedExactly
  <2>2. FreesWith(kind[o]) = {}
    BY SoundFacts DEF FollowedInv, TypeOK
  <2> QED BY <1>4, <2>1, <2>2 DEF SweepUndefined
<1>5. ~ ResumeUndefined
  BY ReachesLinked DEF ResumeUndefined, Dangling, Sound, LinkedExactly
<1>6. CASE TraceDone
  BY <1>6 DEF TraceDone, Sound, StringsAlive, LinkedExactly
<1>7. ASSUME NEW o \in Obj, SweepFree(o) PROVE Sound'
  <2>1. FreesWith(kind[o]) = {}
    BY SoundFacts DEF FollowedInv, TypeOK
  <2>2. /\ pc = "sweep" /\ pc' = pc /\ ~ Marked(o) /\ strings' = strings
        /\ objects' = objects \ {o}
        /\ kind' = [p \in Obj |-> IF p = o THEN "free" ELSE kind[p]]
    BY <1>7, <2>1 DEF SweepFree
  <2>3. o \notin strings /\ strings \subseteq Obj
    BY <2>2 DEF FollowedInv, Sweeping, Reached, TypeOK
  <2> QED BY <2>2, <2>3 DEF Sound, StringsAlive, LinkedExactly
<1>8. CASE Collector
  <2>1. ASSUME NEW o \in Obj, Trace(o) \/ SweepKeep(o) PROVE Sound'
    BY <1>3, <2>1 DEF Trace, SweepKeep, Sound
  <2>2. CASE OutOfMemory
    BY <1>3, <2>2 DEF OutOfMemory
  <2>3. ASSUME NEW o \in Obj, Resume(o) PROVE Sound'
    BY <1>2, <2>3 DEF Resume
  <2> QED BY <1>4, <1>5, <1>6, <1>7, <1>8, <2>1, <2>2, <2>3 DEF Collector
<1>9. CASE UNCHANGED vars
  BY <1>3, <1>9 DEF vars, Sound
<1>10. (pc = "run" /\ pc' \in {"run", "trace"}) \/ Collector \/ UNCHANGED vars
  BY DEF Next, Load, Drop, Write, Collect, Allocate
<1> QED BY <1>2, <1>8, <1>9, <1>10

\* The inductive invariant.
THEOREM Invariance == ASSUME SoundKinds PROVE Spec => []IInv
<1>1. Init => FollowedInv /\ Sound
  BY InitInv DEF Init, Sound, StringsAlive, LinkedExactly
<1>2. FollowedInv /\ Sound /\ [Next]_vars => (FollowedInv /\ Sound)'
  BY SoundFacts, NextInv, SoundKept
<1>3. FollowedInv /\ Sound => IInv
  <2> SUFFICES ASSUME FollowedInv, Sound PROVE IInv
    OBVIOUS
  <2>1. ~ Dangling
    BY ReachesLinked DEF Dangling, Sound, LinkedExactly
  <2>2. TriColour
    BY <2>1 DEF FollowedInv, Sound, Whole, Tracing, Sweeping, TriColour
  <2> QED BY <2>2 DEF FollowedInv, Sound, IInv
<1> QED BY <1>1, <1>2, <1>3, PTL DEF Spec

\* collect_garbage frees nothing the program can reach, at any point of a
\* sweep: for sound kinds, whatever the object graph.
THEOREM ReachableKept == ASSUME SoundKinds PROVE Spec => []ReachableSurvive
<1>1. IInv => ReachableSurvive
  <2> SUFFICES ASSUME IInv PROVE Reachable \subseteq objects
    BY DEF ReachableSurvive, IInv, LinkedExactly
  <2>1. CASE pc \in {"run", "trace"}
    BY <2>1, ReachableWithin DEF IInv, TypeOK, TriColour
  <2>2. CASE pc \in {"sweep", "exited"}
    <3>1. Reached \subseteq Obj /\ Reached \subseteq objects /\ roots \subseteq Reached /\ Closed(Reached)
      BY <2>2 DEF IInv, TypeOK, TriColour, Reached
    <3>2. Reachable \subseteq Reached
      BY <3>1, ReachableWithin
    <3> QED BY <3>1, <3>2
  <2> QED BY <2>1, <2>2 DEF IInv, TypeOK
<1> QED BY <1>1, Invariance, PTL

\* A cycle frees every object the program cannot reach.
THEOREM GarbageGone == ASSUME SoundKinds PROVE Spec => []GarbageFreed
<1>1. IInv => GarbageFreed
  BY DEF IInv, TriColour, GarbageFreed
<1> QED BY <1>1, Invariance, PTL

\* The intern table is weak and never dangles; vm->objects is exact.
THEOREM TablesExact == ASSUME SoundKinds PROVE Spec => [](StringsAlive /\ LinkedExactly)
<1>1. IInv => StringsAlive /\ LinkedExactly
  BY DEF IInv
<1> QED BY <1>1, Invariance, PTL
------------------------------------------------------------------------------
(* Sorting *)

\* An exchange of two places.
LEMMA ExchangedFacts ==
  ASSUME NEW n \in Nat, NEW S, NEW f \in [0 .. n - 1 -> S],
         NEW p \in 0 .. n - 1, NEW q \in 0 .. n - 1
  PROVE  /\ Exchanged(f, p, q) \in [0 .. n - 1 -> S]
         /\ Exchanged(f, p, q)[p] = f[q]
         /\ Exchanged(f, p, q)[q] = f[p]
         /\ \A k \in 0 .. n - 1 : k # p /\ k # q => Exchanged(f, p, q)[k] = f[k]
  BY DEF Exchanged

\* A row begins with nothing done.
LEMMA SortInitIInv == SortInit => SortIInv
  <1> SUFFICES ASSUME SortInit PROVE SortIInv
    OBVIOUS
  <1>1. size \in Nat
    BY SortingAssumption DEF SortInit
  <1>2. SortTypeOK
    BY <1>1 DEF SortInit, SortTypeOK
  <1>3. Rearranged
    BY <1>1 DEF SortInit, Rearranged
  <1>4. RowsInOrder
    BY <1>1 DEF SortInit, RowsInOrder
  <1>5. NestedInRows
    BY <1>1 DEF SortInit, NestedInRows
  <1> QED
    BY <1>2, <1>3, <1>4, <1>5 DEF SortIInv

\* When a pair is exchanged, and when it is left.
LEMMA Compared ==
  ASSUME SortIInv, Turn
  PROVE  /\ i \in 0 .. size - 1 /\ j \in 0 .. size - 1
         /\ \A k \in 0 .. size - 1 : a[k] \in Value /\ R(k) \in Int
         /\ \/ /\ a' = Exchanged(a, i, j) /\ origin' = Exchanged(origin, i, j)
               /\ inner' = inner \cup ({a[i], a[j]} \cap Nested)
               /\ R(j) >= R(i)
            \/ UNCHANGED <<a, origin, inner>> /\ R(j) <= R(i) /\ i # j
         /\ j' = j + 1 /\ UNCHANGED <<input, size, i>>
  <1>1. i \in 0 .. size - 1 /\ j \in 0 .. size - 1 /\ size \in Nat
    BY DEF SortIInv, SortTypeOK, Turn
  <1>2. \A k \in 0 .. size - 1 : a[k] \in Value /\ R(k) \in Int
    BY ValuesAssumption DEF SortIInv, SortTypeOK, R
  <1>3. CASE a[j] = FindMaxValue(a[i], a[j])
    <2>1. R(j) >= R(i)
      BY <1>1, <1>2, <1>3 DEF FindMaxValue, R
    <2> QED
      BY <1>1, <1>2, <1>3, <2>1 DEF Turn
  <1>4. CASE a[j] # FindMaxValue(a[i], a[j])
    <2>1. R(j) <= R(i) /\ i # j
      BY <1>1, <1>2, <1>4 DEF FindMaxValue, R
    <2> QED
      BY <1>1, <1>2, <1>4, <2>1 DEF Turn
  <1> QED
    BY <1>3, <1>4

\* The rank of the element at place k after the step.
RNext(k) == Rank[a'[k]]

\* The ranks after a turn: those of places i and j are put in order, i on top.
LEMMA RanksAfterTurn ==
  ASSUME SortIInv, Turn
  PROVE  /\ i \in 0 .. size - 1 /\ j \in 0 .. size - 1 /\ size \in Nat
         /\ \A k \in 0 .. size - 1 : R(k) \in Int /\ RNext(k) \in Int
         /\ \A k \in 0 .. size - 1 : k # i /\ k # j => RNext(k) = R(k)
         /\ RNext(i) = IF R(j) >= R(i) THEN R(j) ELSE R(i)
         /\ RNext(j) = IF R(j) >= R(i) THEN R(i) ELSE R(j)
  <1>1. /\ i \in 0 .. size - 1 /\ j \in 0 .. size - 1
        /\ \A k \in 0 .. size - 1 : a[k] \in Value /\ R(k) \in Int
        /\ size \in Nat /\ a \in [0 .. size - 1 -> Value]
    BY Compared DEF SortIInv, SortTypeOK
  <1>2. CASE a' = Exchanged(a, i, j) /\ R(j) >= R(i)
    <2>1. /\ a'[i] = a[j] /\ a'[j] = a[i]
          /\ \A k \in 0 .. size - 1 : k # i /\ k # j => a'[k] = a[k]
      BY <1>1, <1>2 DEF Exchanged
    <2>2. RNext(i) = R(j) /\ RNext(j) = R(i)
      BY <2>1 DEF R, RNext
    <2>3. \A k \in 0 .. size - 1 : k # i /\ k # j => RNext(k) = R(k)
      BY <2>1 DEF R, RNext
    <2>4. \A k \in 0 .. size - 1 : RNext(k) \in Int
      BY <1>1, <2>2, <2>3
    <2> QED
      BY <1>1, <1>2, <2>2, <2>3, <2>4
  <1>3. CASE UNCHANGED a /\ R(j) <= R(i)
    <2>1. \A k : RNext(k) = R(k)
      BY <1>3 DEF R, RNext
    <2> QED
      BY <1>1, <1>3, <2>1
  <1> QED
    BY <1>2, <1>3, Compared

\* A turn keeps the rows that are done in order.
LEMMA TurnRows == ASSUME SortIInv, Turn PROVE RowsInOrder'
  <1>1. /\ i \in 0 .. size - 1 /\ j \in 0 .. size - 1 /\ size \in Nat
        /\ i' = i /\ size' = size /\ j' = j + 1
    BY Compared DEF SortIInv, SortTypeOK
  <1>2. /\ \A k \in 0 .. size - 1 : R(k) \in Int /\ RNext(k) \in Int
        /\ \A k \in 0 .. size - 1 : k # i /\ k # j => RNext(k) = R(k)
        /\ RNext(i) = IF R(j) >= R(i) THEN R(j) ELSE R(i)
        /\ RNext(j) = IF R(j) >= R(i) THEN R(i) ELSE R(j)
    BY RanksAfterTurn
  <1>3. /\ \A k, m \in 0 .. i - 1 : k <= m => R(k) <= R(m)
        /\ \A k \in 0 .. j - 1 : R(k) <= R(i)
        /\ i >= 1 /\ j < i => \A k \in 0 .. size - 1 : R(k) <= R(i - 1)
        /\ i >= 1 /\ j >= i => \A k \in 0 .. size - 1 : R(k) <= R(i)
    BY <1>1 DEF SortIInv, RowsInOrder
  <1>4. ASSUME NEW k \in 0 .. i - 1, NEW m \in 0 .. i - 1, k <= m
        PROVE  RNext(k) <= RNext(m)
    <2>1. k \in 0 .. size - 1 /\ m \in 0 .. size - 1 /\ k # i /\ m # i /\ k \in Int /\ m \in Int
      BY <1>1
    <2>2. CASE j >= i
      <3>1. k # j /\ m # j
        BY <1>1, <2>1, <2>2
      <3> QED
        BY <3>1, <2>1, <1>2, <1>3, <1>4
    <2>3. CASE j < i
      <3>1. j \in 0 .. i - 1 /\ (k # j => RNext(k) = R(k)) /\ (m # j => RNext(m) = R(m))
        BY <1>1, <1>2, <2>1, <2>3
      <3>2. R(k) <= R(m) /\ R(k) \in Int /\ R(m) \in Int
        BY <1>2, <1>3, <1>4, <2>1
      <3>3. CASE k # j /\ m # j
        BY <3>1, <3>2, <3>3
      <3>4. CASE k = j /\ m = j
        BY <1>2, <2>1, <3>4
      <3>5. CASE k = j /\ m # j
        <4>1. RNext(k) <= R(j)
          BY <1>1, <1>2, <3>5
        <4> QED
          BY <4>1, <3>1, <3>2, <3>5, <1>2, <2>1
      <3>6. CASE k # j /\ m = j
        <4>1. k \in 0 .. j - 1
          BY <1>1, <1>4, <2>1, <3>6
        <4>2. R(k) <= R(i)
          BY <4>1, <1>3
        <4> QED
          BY <4>2, <3>1, <3>2, <3>6, <1>1, <1>2, <2>1
      <3> QED
        BY <3>3, <3>4, <3>5, <3>6
    <2> QED
      BY <1>1, <2>2, <2>3
  <1>5. ASSUME NEW k \in 0 .. j PROVE RNext(k) <= RNext(i)
    <2>1. k \in 0 .. size - 1 /\ k \in Int
      BY <1>1
    <2>2. CASE k = j
      BY <1>1, <1>2, <2>2
    <2>3. CASE k # j /\ k = i
      BY <1>1, <1>2, <2>3
    <2>4. CASE k # j /\ k # i
      <3>1. k \in 0 .. j - 1
        BY <1>1, <2>1, <2>4
      <3>2. R(k) <= R(i) /\ RNext(k) = R(k)
        BY <3>1, <2>1, <2>4, <1>2, <1>3
      <3> QED
        BY <3>2, <1>1, <1>2, <2>1
    <2> QED
      BY <2>2, <2>3, <2>4
  <1>6. ASSUME i >= 1, j + 1 < i, NEW k \in 0 .. size - 1
        PROVE  RNext(k) <= RNext(i - 1)
    <2>1. i - 1 \in 0 .. size - 1 /\ i - 1 # i /\ i - 1 # j /\ j < i
      BY <1>1, <1>6
    <2>2. RNext(i - 1) = R(i - 1)
      BY <2>1, <1>2
    <2>3. R(k) <= R(i - 1) /\ R(i) <= R(i - 1) /\ R(j) <= R(i - 1)
      BY <1>1, <1>3, <1>6, <2>1
    <2>4. RNext(k) \in {R(k), R(i), R(j)}
      BY <1>1, <1>2
    <2> QED
      BY <2>2, <2>3, <2>4
  <1>7. ASSUME i >= 1, j + 1 >= i, NEW k \in 0 .. size - 1
        PROVE  RNext(k) <= RNext(i)
    <2>1. RNext(k) \in {R(k), R(i), R(j)} /\ R(k) \in Int
      BY <1>1, <1>2
    <2>2. RNext(i) >= R(i) /\ RNext(i) >= R(j) /\ R(i) \in Int /\ R(j) \in Int /\ RNext(i) \in Int
      BY <1>1, <1>2
    <2>3. CASE j >= i
      <3>1. R(k) <= R(i)
        BY <1>3, <1>7, <2>3
      <3> QED
        BY <3>1, <2>1, <2>2
    <2>4. CASE j < i
      <3>1. j = i - 1
        BY <1>1, <1>7, <2>4
      <3>2. R(k) <= R(i - 1)
        BY <1>3, <1>7, <2>4
      <3>3. R(k) <= R(j)
        BY <3>1, <3>2
      <3> QED
        BY <3>3, <2>1, <2>2
    <2> QED
      BY <1>1, <2>3, <2>4
  <1>8. (\A k, m \in 0 .. i - 1 : k <= m => R(k) <= R(m))'
    BY <1>1, <1>4 DEF R, RNext
  <1>9. (i < size => \A k \in 0 .. j - 1 : R(k) <= R(i))'
    <2>1. (0 .. j - 1)' = 0 .. j
      BY <1>1
    <2> QED
      BY <1>1, <1>5, <2>1 DEF R, RNext
  <1>10. (i >= 1 /\ j < i => \A k \in 0 .. size - 1 : R(k) <= R(i - 1))'
    BY <1>1, <1>6 DEF R, RNext
  <1>11. (i >= 1 /\ i < size /\ j >= i => \A k \in 0 .. size - 1 : R(k) <= R(i))'
    BY <1>1, <1>7 DEF R, RNext
  <1> QED
    BY <1>8, <1>9, <1>10, <1>11 DEF RowsInOrder

\* A turn loses no element, and a list it moves is sorted.
LEMMA TurnIInv == ASSUME SortIInv, Turn PROVE SortIInv'
  <1>1. /\ i \in 0 .. size - 1 /\ j \in 0 .. size - 1 /\ size \in Nat
        /\ i' = i /\ size' = size /\ j' = j + 1 /\ input' = input
        /\ input \in [0 .. size - 1 -> Value] /\ a \in [0 .. size - 1 -> Value]
        /\ origin \in [0 .. size - 1 -> 0 .. size - 1]
    BY Zenon, Compared DEF SortIInv, SortTypeOK
  <1>2. RowsInOrder'
    BY TurnRows
  <1>3. CASE /\ a' = Exchanged(a, i, j) /\ origin' = Exchanged(origin, i, j)
             /\ inner' = inner \cup ({a[i], a[j]} \cap Nested)
    <2>1. /\ a' \in [0 .. size - 1 -> Value] /\ a'[i] = a[j] /\ a'[j] = a[i]
          /\ \A k \in 0 .. size - 1 : k # i /\ k # j => a'[k] = a[k]
      BY Zenon, <1>1, <1>3 DEF Exchanged
    <2>2. /\ origin' \in [0 .. size - 1 -> 0 .. size - 1]
          /\ origin'[i] = origin[j] /\ origin'[j] = origin[i]
          /\ \A k \in 0 .. size - 1 : k # i /\ k # j => origin'[k] = origin[k]
      BY Zenon, <1>1, <1>3 DEF Exchanged
    <2>3. SortTypeOK'
      <3>1. i' \in 0 .. size /\ j' \in 0 .. size
        BY <1>1
      <3> QED
        BY <1>1, <2>1, <2>2, <3>1, Zenon DEF SortTypeOK
    <2>4. ASSUME NEW k \in 0 .. size - 1, NEW m \in 0 .. size - 1,
                 origin'[k] = origin'[m]
          PROVE  k = m
      <3>1. \A s, t \in 0 .. size - 1 : origin[s] = origin[t] => s = t
        BY DEF SortIInv, Rearranged
      <3>2. CASE k # i /\ k # j /\ m # i /\ m # j
        BY <2>2, <2>4, <3>1, <3>2, Zenon
      <3>3. CASE k = i \/ k = j \/ m = i \/ m = j
        BY <1>1, <2>2, <2>4, <3>1, <3>3, ZenonT(30)
      <3> QED
        BY <3>2, <3>3, Zenon
    <2>5. ASSUME NEW k \in 0 .. size - 1 PROVE a'[k] = input[origin'[k]]
      <3>1. \A m \in 0 .. size - 1 : a[m] = input[origin[m]]
        BY DEF SortIInv, Rearranged
      <3>2. CASE k = i
        BY <1>1, <2>1, <2>2, <3>1, <3>2, Zenon
      <3>3. CASE k = j
        BY <1>1, <2>1, <2>2, <3>1, <3>3, Zenon
      <3>4. CASE k # i /\ k # j
        BY <2>1, <2>2, <3>1, <3>4, Zenon
      <3> QED
        BY <3>2, <3>3, <3>4, Zenon
    <2>6. Rearranged'
      BY <1>1, <2>4, <2>5 DEF Rearranged
    <2>7. ASSUME NEW k \in 0 .. size - 1, a'[k] \in Nested,
                 k < i \/ (k = i /\ j + 1 > i)
          PROVE  a'[k] \in inner'
      <3>1. CASE k = i \/ k = j
        BY <1>3, <2>1, <2>7, <3>1
      <3>2. CASE k # i /\ k # j
        <4>1. a'[k] = a[k] /\ k < i
          BY <1>1, <2>1, <2>7, <3>2
        <4>2. a[k] \in inner
          BY <4>1, <2>7 DEF SortIInv, NestedInRows
        <4> QED
          BY <4>1, <4>2, <1>3
      <3> QED
        BY <3>1, <3>2
    <2>8. NestedInRows'
      BY <1>1, <2>7 DEF NestedInRows
    <2> QED
      BY <1>2, <2>3, <2>6, <2>8 DEF SortIInv
  <1>4. CASE UNCHANGED <<a, origin, inner>> /\ i # j
    <2>1. SortTypeOK'
      BY <1>1, <1>4 DEF SortTypeOK
    <2>2. Rearranged'
      BY <1>1, <1>4 DEF SortIInv, Rearranged
    <2>3. NestedInRows'
      BY <1>1, <1>4 DEF SortIInv, NestedInRows
    <2> QED
      BY <1>2, <2>1, <2>2, <2>3 DEF SortIInv
  <1> QED
    BY <1>3, <1>4, Compared

\* At the end of a row the greatest element is its last.
LEMMA NextRowIInv == ASSUME SortIInv, NextRow PROVE SortIInv'
  <1>1. /\ i \in 0 .. size - 1 /\ j = size /\ size \in Nat
        /\ i' = i + 1 /\ j' = 0
        /\ UNCHANGED <<input, a, size, origin, inner>>
    BY DEF SortIInv, SortTypeOK, NextRow
  <1>2. SortTypeOK'
    BY <1>1 DEF SortIInv, SortTypeOK
  <1>3. Rearranged'
    BY <1>1 DEF SortIInv, Rearranged
  <1>4. NestedInRows'
    BY <1>1 DEF SortIInv, NestedInRows
  <1>5. \A k \in 0 .. size - 1 : R(k) <= R(i)
    BY <1>1 DEF SortIInv, RowsInOrder
  <1>6. ASSUME NEW k \in 0 .. i, NEW m \in 0 .. i, k <= m PROVE R(k) <= R(m)
    <2>1. CASE m = i
      BY <1>1, <1>5, <2>1
    <2>2. CASE m # i
      <3>1. k \in 0 .. i - 1 /\ m \in 0 .. i - 1
        BY <1>1, <1>6, <2>2
      <3> QED
        BY <3>1, <1>6 DEF SortIInv, RowsInOrder
    <2> QED
      BY <2>1, <2>2
  <1>7. RowsInOrder'
    <2>1. i' - 1 = i /\ j' - 1 = -1
      BY <1>1
    <2> QED
      BY <1>1, <1>5, <1>6, <2>1 DEF RowsInOrder, R
  <1> QED
    BY <1>2, <1>3, <1>4, <1>7 DEF SortIInv

\* The inductive invariant of the two loops.
THEOREM SortInvariance == SortSpec => []SortIInv
  <1>1. SortIInv /\ [SortNext]_sortVars => SortIInv'
    <2> SUFFICES ASSUME SortIInv, [SortNext]_sortVars PROVE SortIInv'
      OBVIOUS
    <2>1. CASE UNCHANGED sortVars
      BY <2>1 DEF sortVars, SortIInv, SortTypeOK, Rearranged, RowsInOrder,
                  NestedInRows, R
    <2> QED
      BY <2>1, TurnIInv, NextRowIInv DEF SortNext
  <1> QED
    BY <1>1, SortInitIInv, PTL DEF SortSpec

\* list.sort() sorts: when the loops of sort_values have ended, the elements
\* are in ascending order and every list among them was sorted.
THEOREM SortSorts == SortSpec => []Sorted
  <1>1. SortIInv => Sorted
    <2> SUFFICES ASSUME SortIInv, i = size PROVE Sorted
      BY DEF Sorted
    <2>1. size \in Nat
      BY DEF SortIInv, SortTypeOK
    <2> QED
      BY <2>1 DEF SortIInv, RowsInOrder, NestedInRows, Sorted
  <1> QED
    BY <1>1, SortInvariance, PTL

\* At every moment of the sort the array is a rearrangement of what it was.
THEOREM SortRearranges == SortSpec => []Rearranged
  BY SortInvariance, PTL DEF SortIInv
------------------------------------------------------------------------------
(* Processes *)

Shown == Values \cup {Nothing}
Awaiting == [c : Children \cup {Nothing}, alone : BOOLEAN, interrupted : BOOLEAN]
Memory == [format : Shown, bytes : Shown]
Doing == [at : {"idle", "test", "format", "bytes", "unlock", "read", "rest"},
          value : Shown, got : Shown, locking : BOOLEAN]

Types ==
  /\ child \in [Children -> [state : {"none", "running", "zombie", "gone"}, status : Nat]]
  /\ waitPc \in {"run", "first", "loop"} /\ status \in Nat
  /\ awaited \in Awaiting
  /\ mem \in Memory /\ locked \in BOOLEAN /\ disturbed \in BOOLEAN
  /\ op \in [Procs -> Doing]
  /\ left \in [Procs -> 0 .. MaxOps]
  /\ frozen \in [mem : Memory, clean : BOOLEAN]

\* A process that has ended is not in the middle of a call.
OnlyAlive == \A x \in Procs : op[x].at # "idle" => Alive(x)

\* Until two calls overlap a write is alone: format and bytes differ only
\* between its two steps, and what a read has got fits the format.
WritesAlone ==
  ~ disturbed =>
    /\ \A x, y \in Procs : Writing(x) /\ x # y => ~ Writing(y) /\ ~ Reading(y)
    /\ \A x \in Procs : op[x].at = "bytes" => mem.format = op[x].value
    /\ (\A x \in Procs : op[x].at # "bytes") => mem.format = mem.bytes
    /\ \A x \in Procs : op[x].at = "rest" => op[x].got = mem.format

\* No write begins under a lock that was taken with none under way.
LockHolds ==
  locked /\ frozen.clean => mem = frozen.mem /\ \A x \in Procs : ~ Writing(x)

Left == InState("running") \cup InState("zombie")

\* What process_wait knows of a child that is the only one: until its first
\* waitpid no other is left, and then none is and status is the child's.
AwaitKnows ==
  /\ waitPc = "first" => ~ awaited.interrupted
  /\ waitPc = "first" /\ awaited.alone => Left \subseteq {awaited.c}
  /\ waitPc = "loop" /\ awaited.alone /\ ~ awaited.interrupted =>
       Left = {} /\ status = child[awaited.c].status

\* The inductive invariant.
ProcessesIInv == Types /\ OnlyAlive /\ WritesAlone /\ LockHolds /\ AwaitKnows
------------------------------------------------------------------------------
\* The invariant holds before the first call.
LEMMA NobodyStarted == ProcessesInit => ProcessesIInv
<1> SUFFICES ASSUME ProcessesInit
             PROVE  ProcessesIInv
  OBVIOUS
<1>1. Types
  <2>1. Idle \in Doing /\ mem \in Memory
    BY DEF ProcessesInit, Shown, Memory, Doing, Idle
  <2>2. op \in [Procs -> Doing]
    BY <2>1 DEF ProcessesInit
  <2>3. left \in [Procs -> 0 .. MaxOps]
    BY ProcessesAssumption DEF ProcessesInit
  <2> QED
    BY Zenon, <2>1, <2>2, <2>3 DEF ProcessesInit, Types, Awaiting
<1>2. OnlyAlive /\ WritesAlone /\ LockHolds
  BY DEF ProcessesInit, OnlyAlive, WritesAlone, LockHolds, Idle, Writing, Reading
<1>3. AwaitKnows
  BY DEF ProcessesInit, AwaitKnows
<1> QED
  BY <1>1, <1>2, <1>3 DEF ProcessesIInv

\* What a process is doing is replaced by something a process may be doing.
LEMMA DoingChanges ==
  ASSUME Types, NEW x \in Procs, NEW d \in Doing
  PROVE  [op EXCEPT ![x] = d] \in [Procs -> Doing]
BY DEF Types

\* An idle process is one.
LEMMA IdleDoing == Idle \in Doing /\ [Idle EXCEPT !.at = "unlock"] \in Doing
BY ZenonT(60) DEF Idle, Doing, Shown

\* The calls and steps on the shared value do not touch the children, and keep
\* op a function of the processes.
LEMMA SharedTypes ==
  ASSUME Types, NEW x \in Procs, Calls(x) \/ Steps(x)
  PROVE  Types' /\ UNCHANGED procVars
<1>1. UNCHANGED procVars
  BY Zenon DEF Calls, Steps, Lock, Unlock, Get, Set, LockedSet, Test, WriteFormat, WriteBytes,
         LockedSetUnlock, ReadBytes, ReadFormat
<1>2. left' \in [Procs -> 0 .. MaxOps]
  <2>1. CASE Begin(x)
    BY <2>1, ProcessesAssumption DEF Begin, Types
  <2> QED
    BY Zenon, <2>1 DEF Types, Calls, Steps, Lock, Unlock, Get, Set, LockedSet, Test, WriteFormat,
                WriteBytes, LockedSetUnlock, ReadBytes, ReadFormat
<1>3. mem' \in Memory
  <2>1. op[x].value \in Shown /\ mem \in Memory
    BY DEF Types, Doing
  <2> QED
    BY Zenon, <2>1 DEF Memory, Calls, Steps, Lock, Unlock, Get, Set, LockedSet, Test, WriteFormat,
                WriteBytes, LockedSetUnlock, ReadBytes, ReadFormat
<1>4. disturbed' \in BOOLEAN
  BY ZenonT(60) DEF Types, Calls, Steps, Lock, Unlock, Get, Set, LockedSet, Test, WriteFormat,
               WriteBytes, LockedSetUnlock, ReadBytes, ReadFormat
<1>5. locked' \in BOOLEAN /\ frozen' \in [mem : Memory, clean : BOOLEAN]
  <2>1. CASE SetLock
    <3> DEFINE clean == \A y \in Procs : ~ Writing(y)
    <3>1. clean \in BOOLEAN
      BY Zenon
    <3>2. frozen' = IF locked THEN frozen ELSE [mem |-> mem, clean |-> clean]
      BY <2>1 DEF SetLock
    <3> HIDE DEF clean
    <3> QED
      BY <2>1, <3>1, <3>2 DEF Types, SetLock
  <2> QED
    BY Zenon, <2>1 DEF Types, Calls, Steps, Lock, Unlock, Get, Set, LockedSet, Test, WriteFormat,
                WriteBytes, LockedSetUnlock, ReadBytes, ReadFormat
<1>6. op' \in [Procs -> Doing]
  <2>1. op \in [Procs -> Doing] /\ mem.bytes \in Shown
    BY DEF Types, Memory
  <2>2. CASE Done(x)
    BY <2>2, DoingChanges, IdleDoing DEF Done
  <2>3. \A v \in Values : v \in Shown
    BY DEF Shown
  <2>4. CASE Lock(x) \/ Unlock(x)
    BY <2>1, <2>4 DEF Lock, Unlock
  <2>5. ASSUME NEW v \in Values, Set(x, v) \/ LockedSet(x, v)
        PROVE  op' \in [Procs -> Doing]
    <3>1. \/ op' = [op EXCEPT ![x].at = "test", ![x].value = v]
          \/ op' = [op EXCEPT ![x].at = "test", ![x].value = v, ![x].locking = TRUE]
      BY <2>5 DEF Set, LockedSet
    <3> QED
      BY <2>1, <2>3, <3>1 DEF Doing
  <2>6. CASE Get(x) \/ WriteFormat(x) \/ ReadBytes(x)
    <3>1. \/ op' = [op EXCEPT ![x].at = "read"] \/ op' = [op EXCEPT ![x].at = "bytes"]
          \/ op' = [op EXCEPT ![x].at = "rest", ![x].got = mem.bytes]
      BY <2>6 DEF Get, WriteFormat, ReadBytes
    <3> QED
      BY <2>1, <3>1 DEF Doing
  <2>7. CASE LockedSetUnlock(x) \/ ReadFormat(x)
    BY <2>7, DoingChanges, IdleDoing DEF LockedSetUnlock, ReadFormat
  <2>8. CASE Test(x) \/ WriteBytes(x)
    <3>1. Done(x) \/ op' = [op EXCEPT ![x].at = "format"]
      BY <2>8 DEF Test, WriteBytes
    <3> QED
      BY <2>1, <2>2, <3>1 DEF Doing
  <2> QED
    BY <2>4, <2>5, <2>6, <2>7, <2>8 DEF Calls, Steps
<1> QED
  BY <1>1, <1>2, <1>3, <1>4, <1>5, <1>6 DEF Types, procVars

\* A process in the middle of a call is alive, and goes on.
LEMMA SharedAlive ==
  ASSUME Types, OnlyAlive, NEW x \in Procs, Calls(x) \/ Steps(x)
  PROVE  OnlyAlive'
<1>1. UNCHANGED procVars /\ Types'
  BY SharedTypes
<1>2. Alive(x)
  BY ZenonT(60) DEF Calls, Steps, Lock, Unlock, Get, Set, LockedSet, Begin, Test, WriteFormat, WriteBytes,
         LockedSetUnlock, ReadBytes, ReadFormat, Active
<1>3. \A y \in Procs \ {x} : op'[y] = op[y]
  BY ZenonT(60) DEF Types, Calls, Steps, Lock, Unlock, Get, Set, LockedSet, Test, WriteFormat, WriteBytes,
         LockedSetUnlock, ReadBytes, ReadFormat, Done
<1> QED
  BY <1>1, <1>2, <1>3 DEF OnlyAlive, Alive, procVars

\* Reads see a value as a whole unless a write overlaps them.
LEMMA SharedAlone ==
  ASSUME Types, WritesAlone, NEW x \in Procs, Calls(x) \/ Steps(x)
  PROVE  WritesAlone'
<1> USE DEF Types, WritesAlone, Writing, Reading
<1>1. CASE Lock(x)
  BY <1>1 DEF Lock
<1>2. CASE Unlock(x)
  BY Zenon, <1>2 DEF Unlock
<1>3. CASE Get(x)
  <2>1. ~ disturbed' => ~ disturbed /\ \A y \in Procs \ {x} : ~ Writing(y)
    BY <1>3, Zenon DEF Get
  <2>2. mem' = mem /\ op' = [op EXCEPT ![x].at = "read"] /\ op[x].at = "idle"
    BY <1>3 DEF Get, Begin
  <2> QED
    BY <2>1, <2>2
<1>4. ASSUME NEW v \in Values, Set(x, v)
      PROVE  WritesAlone'
  BY <1>4 DEF Set, Begin
<1>5. ASSUME NEW v \in Values, LockedSet(x, v)
      PROVE  WritesAlone'
  BY <1>5 DEF LockedSet, Begin
<1>6. CASE Test(x)
  <2>1. CASE locked
    BY <1>6, <2>1 DEF Test, Done, Idle
  <2>2. CASE ~ locked
    <3>1. ~ disturbed' => ~ disturbed /\ \A y \in Procs \ {x} : ~ Writing(y) /\ ~ Reading(y)
      BY <1>6, <2>2, Zenon DEF Test
    <3>2. mem' = mem /\ op' = [op EXCEPT ![x].at = "format"] /\ op[x].at = "test"
      BY <1>6, <2>2 DEF Test
    <3> QED
      BY <3>1, <3>2
  <2> QED
    BY <2>1, <2>2
<1>7. CASE WriteFormat(x)
  BY <1>7 DEF WriteFormat, Memory
<1>8. CASE WriteBytes(x)
  BY <1>8 DEF WriteBytes, Done, Idle, Memory
<1>9. CASE LockedSetUnlock(x)
  BY <1>9 DEF LockedSetUnlock, Idle
<1>10. CASE ReadBytes(x)
  BY <1>10 DEF ReadBytes
<1>11. CASE ReadFormat(x)
  BY <1>11 DEF ReadFormat, Idle
<1> QED
  BY ZenonT(60), <1>1, <1>2, <1>3, <1>4, <1>5, <1>6, <1>7, <1>8, <1>9, <1>10, <1>11 DEF Calls, Steps

\* No write begins under the lock: process_shared_write looks at it.
LEMMA SharedLock ==
  ASSUME Types, LockHolds, NEW x \in Procs, Calls(x) \/ Steps(x)
  PROVE  LockHolds'
<1> USE DEF Types, LockHolds, Writing
<1>1. CASE Lock(x)
  BY <1>1 DEF Lock, SetLock
<1>2. CASE Unlock(x)
  BY <1>2 DEF Unlock
<1>3. CASE Get(x)
  BY <1>3 DEF Get, Begin
<1>4. ASSUME NEW v \in Values, Set(x, v)
      PROVE  LockHolds'
  BY <1>4 DEF Set, Begin
<1>5. ASSUME NEW v \in Values, LockedSet(x, v)
      PROVE  LockHolds'
  BY <1>5 DEF LockedSet, SetLock, Begin
<1>6. CASE Test(x)
  BY <1>6 DEF Test, Done, Idle
<1>7. CASE WriteFormat(x)
  BY <1>7 DEF WriteFormat
<1>8. CASE WriteBytes(x)
  BY <1>8 DEF WriteBytes
<1>9. CASE LockedSetUnlock(x)
  BY <1>9 DEF LockedSetUnlock
<1>10. CASE ReadBytes(x)
  BY <1>10 DEF ReadBytes
<1>11. CASE ReadFormat(x)
  BY <1>11 DEF ReadFormat, Idle
<1> QED
  BY Zenon, <1>1, <1>2, <1>3, <1>4, <1>5, <1>6, <1>7, <1>8, <1>9, <1>10, <1>11 DEF Calls, Steps

\* The calls and steps on the shared value keep the invariant.
LEMMA SharedKeeps ==
  ASSUME ProcessesIInv, NEW x \in Procs, Calls(x) \/ Steps(x)
  PROVE  ProcessesIInv'
<1>1. Types' /\ UNCHANGED procVars
  BY SharedTypes DEF ProcessesIInv
<1>2. AwaitKnows'
  BY <1>1 DEF ProcessesIInv, AwaitKnows, Left, InState, procVars
<1> QED
  BY <1>1, <1>2, SharedAlive, SharedAlone, SharedLock DEF ProcessesIInv
------------------------------------------------------------------------------
\* A step that changes the state of the children only.
LEMMA ProcessKeeps ==
  ASSUME ProcessesIInv, UNCHANGED sharedVars, Types',
         \A c \in Children : child[c].state = "running" => child'[c].state = "running",
         AwaitKnows'
  PROVE  ProcessesIInv'
<1>1. OnlyAlive'
  BY ProcessesAssumption DEF ProcessesIInv, OnlyAlive, Alive, sharedVars, Procs
<1>2. WritesAlone' /\ LockHolds'
  BY DEF ProcessesIInv, WritesAlone, LockHolds, Writing, Reading, sharedVars
<1> QED
  BY <1>1, <1>2 DEF ProcessesIInv

\* start and await
LEMMA StartKeeps ==
  ASSUME ProcessesIInv, NEW c \in Children, Start(c) \/ Await(c)
  PROVE  ProcessesIInv'
<1> DEFINE alone == Left = {}
<1>1. /\ UNCHANGED sharedVars /\ child[c].state = "none"
      /\ child' = [child EXCEPT ![c].state = "running"]
  BY DEF Start, Await, Fork, InState, sharedVars
<1>2. \/ UNCHANGED <<waitPc, status, awaited>> /\ waitPc = "run"
      \/ /\ awaited' = [c |-> c, alone |-> alone, interrupted |-> FALSE]
         /\ waitPc' = "first" /\ status' = status
  BY DEF Start, Await, Left
<1>3. alone \in BOOLEAN /\ (alone => Left' \subseteq {c})
  <2>1. Left' \subseteq Left \cup {c}
    BY <1>1 DEF ProcessesIInv, Types, Left, InState
  <2> QED
    BY <2>1, Zenon
<1> HIDE DEF alone
<1>4. Types'
  <2>1. child' \in [Children -> [state : {"none", "running", "zombie", "gone"}, status : Nat]]
    BY <1>1 DEF ProcessesIInv, Types
  <2>2. awaited' \in Awaiting
    <3>1. PICK b \in BOOLEAN : b = alone
      BY <1>3, Zenon
    <3>2. awaited' = awaited \/ awaited' = [c |-> c, alone |-> b, interrupted |-> FALSE]
      BY <1>2, <3>1, Zenon
    <3>3. [c |-> c, alone |-> b, interrupted |-> FALSE] \in Awaiting
      BY DEF Awaiting
    <3> QED
      BY Zenon, <3>2, <3>3 DEF ProcessesIInv, Types
  <2>3. waitPc' \in {"run", "first", "loop"} /\ status' \in Nat
    BY <1>2 DEF ProcessesIInv, Types
  <2> QED
    BY <1>1, <2>1, <2>2, <2>3 DEF ProcessesIInv, Types, sharedVars
<1>5. \A d \in Children : child[d].state = "running" => child'[d].state = "running"
  BY <1>1 DEF ProcessesIInv, Types
<1>6. AwaitKnows'
  BY <1>2, <1>3 DEF AwaitKnows
<1> QED
  BY <1>1, <1>4, <1>5, <1>6, ProcessKeeps

\* waitpid, of process_wait and of is_alive
LEMMA WaitKeeps ==
  ASSUME ProcessesIInv, NEW c \in Children, WaitFirst(c) \/ WaitLoop(c) \/ IsAlive(c)
  PROVE  ProcessesIInv'
<1>1. Types' /\ UNCHANGED sharedVars
  BY DEF ProcessesIInv, Types, WaitFirst, WaitLoop, IsAlive, Reap, InState, sharedVars
<1>2. /\ child[c].state = "zombie"
      /\ child' = [child EXCEPT ![c].state = "gone"]
  BY DEF WaitFirst, WaitLoop, IsAlive, Reap, InState
<1>3. \A d \in Children : child[d].state = "running" => child'[d].state = "running"
  BY <1>2 DEF ProcessesIInv, Types
<1>4. AwaitKnows'
  <2>1. Left' = Left \ {c} /\ \A d \in Children : child'[d].status = child[d].status
    BY <1>2 DEF ProcessesIInv, Types, Left, InState
  <2>2. c \in Left
    BY <1>2 DEF Left, InState
  <2> QED
    BY <2>1, <2>2 DEF ProcessesIInv, Types, AwaitKnows, WaitFirst, WaitLoop, IsAlive
<1> QED
  BY <1>1, <1>3, <1>4, ProcessKeeps

\* The end of process_wait, and a signal
LEMMA WaitEndKeeps ==
  ASSUME ProcessesIInv, WaitOver \/ WaitInterrupted
  PROVE  ProcessesIInv'
<1>1. Types' /\ UNCHANGED sharedVars /\ child' = child
  BY Zenon DEF ProcessesIInv, Types, Awaiting, WaitOver, WaitInterrupted, sharedVars
<1>2. AwaitKnows'
  BY <1>1 DEF ProcessesIInv, Types, Awaiting, WaitOver, WaitInterrupted, AwaitKnows,
              Left, InState
<1> QED
  BY <1>1, <1>2, ProcessKeeps

\* Children that end, by themselves or killed, leave no call behind; if one was
\* writing, disturbed says so.
LEMMA EndKeeps ==
  ASSUME ProcessesIInv, NEW cs \in SUBSET Children, NEW code \in Nat,
         EndWith(cs, code), cs \subseteq InState("running"),
         UNCHANGED <<waitPc, status, awaited, mem, locked, left, frozen>>
  PROVE  ProcessesIInv'
<1> USE DEF ProcessesIInv, Types, EndWith
<1>1. Types'
  BY DEF Shown, Doing, Idle
<1>2. OnlyAlive'
  BY DEF OnlyAlive, Alive, Idle, Procs
<1>3. WritesAlone'
  BY Zenon DEF WritesAlone, Writing, Reading, Idle, Procs
<1>4. LockHolds'
  BY DEF LockHolds, Writing, Idle
<1>5. AwaitKnows'
  <2>1. Left' = Left
    BY DEF Left, InState
  <2>2. \A d \in Children : d \notin Left => child'[d] = child[d]
    BY DEF Left, InState
  <2> QED
    BY <2>1, <2>2 DEF AwaitKnows, Left
<1> QED
  BY <1>1, <1>2, <1>3, <1>4, <1>5

\* Every step keeps the invariant.
LEMMA StepInv ==
  ASSUME ProcessesIInv, [ProcessesNext]_processVars
  PROVE  ProcessesIInv'
<1>1. ASSUME NEW c \in Children, Start(c) \/ Await(c)
      PROVE  ProcessesIInv'
  BY <1>1, StartKeeps
<1>2. ASSUME NEW c \in Children, IsAlive(c) \/ WaitFirst(c) \/ WaitLoop(c)
      PROVE  ProcessesIInv'
  BY <1>2, WaitKeeps
<1>3. ASSUME NEW c \in Children, Exits(c)
      PROVE  ProcessesIInv'
  <2>1. PICK code \in {ExitOK, ExitRuntime} : Exit(c, code)
    BY <1>3 DEF Exits
  <2>2. code \in Nat
    BY DEF ExitOK, ExitRuntime, Exited
  <2>3. {c} \subseteq InState("running")
    BY <2>1, ProcessesAssumption DEF Exit, Alive, InState
  <2>4. /\ EndWith({c}, code)
        /\ UNCHANGED <<waitPc, status, awaited, mem, locked, left, frozen>>
    BY <2>1 DEF Exit
  <2> QED
    BY <2>2, <2>3, <2>4, EndKeeps
<1>4. CASE Kill
  BY <1>4, EndKeeps DEF Kill, Killed, InState
<1>5. CASE WaitOver \/ WaitInterrupted
  BY <1>5, WaitEndKeeps
<1>6. ASSUME NEW x \in Procs, Calls(x) \/ Steps(x)
      PROVE  ProcessesIInv'
  BY <1>6, SharedKeeps
<1>7. CASE UNCHANGED processVars
  BY ZenonT(60), <1>7 DEF ProcessesIInv, Types, OnlyAlive, WritesAlone, LockHolds, AwaitKnows, Left, InState,
              Alive, Writing, Reading, processVars, procVars, sharedVars
<1> QED
  BY <1>1, <1>2, <1>3, <1>4, <1>5, <1>6, <1>7 DEF ProcessesNext, Waiting
------------------------------------------------------------------------------
\* For any number of children and calls, the inductive invariant of process.c
\* holds.
THEOREM ProcessesInvariant == ProcessesSpec => []ProcessesIInv
BY NobodyStarted, StepInv, PTL DEF ProcessesSpec

\* For any number of processes, process_shared_read gets bytes with the format
\* they were written with, unless a write overlapped it or another write, or
\* was cut short.
THEOREM ProcessesReadWhole == ProcessesSpec => []ReadsWhole
<1>1. ProcessesIInv => ReadsWhole
  BY ZenonT(60) DEF ProcessesIInv, Types, Awaiting, Shown, Memory, OnlyAlive, WritesAlone, ReadsWhole,
         ProcessesTypeOK
<1> QED
  BY <1>1, ProcessesInvariant, PTL

\* For any number of processes, a value locked while no write is under way
\* stays as it is until someone unlocks it.
THEOREM ProcessesLockKeeps == ProcessesSpec => []LockKeeps
<1>1. ProcessesIInv => LockKeeps
  BY DEF ProcessesIInv, LockHolds, LockKeeps
<1> QED
  BY <1>1, ProcessesInvariant, PTL

\* For any number of children, when process_wait returns uninterrupted there
\* is no child left, and its answer is the wait status of the only one.
THEOREM ProcessesAwaitReturns == ProcessesSpec => AwaitReturns
<1> DEFINE A == Returns /\ ~ awaited'.interrupted =>
                  /\ InState("running") \cup InState("zombie") = {}
                  /\ awaited.alone => status = child[awaited.c].status
<1>1. ProcessesIInv /\ [ProcessesNext]_processVars => [A]_processVars
  <2> SUFFICES ASSUME ProcessesIInv, ProcessesNext, Returns, ~ awaited'.interrupted
               PROVE  /\ InState("running") \cup InState("zombie") = {}
                      /\ awaited.alone => status = child[awaited.c].status
    OBVIOUS
  <2>1. waitPc = "loop" /\ waitPc' = "run"
    BY DEF Returns
  <2>2. \A x \in Procs : ~ (Calls(x) \/ Steps(x))
    BY <2>1, SharedTypes DEF ProcessesIInv, procVars
  <2>3. CASE WaitOver
    BY Zenon, <2>1, <2>3 DEF WaitOver, ProcessesIInv, AwaitKnows
  <2>4. CASE WaitInterrupted
    BY <2>4 DEF WaitInterrupted, ProcessesIInv, Types
  <2> QED
    BY Zenon, <2>1, <2>2, <2>3, <2>4 DEF ProcessesNext, Waiting, Start, Await, IsAlive, Exits, Exit,
                                  WaitFirst, WaitLoop, Kill
<1> QED
  BY <1>1, ProcessesInvariant, PTL DEF ProcessesSpec, AwaitReturns
==============================================================================
