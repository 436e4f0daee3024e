------------------------------- MODULE MCHeap --------------------------------
(***************************************************************************)
(* The heap and its table of strings, in one run: a behaviour is one of    *)
(* the collector (GC), in which the table is a set, or of the table itself *)
(* (Intern), in which a collection is one step.                            *)
(***************************************************************************)
EXTENDS MCGC, Intern

CONSTANTS t1, t2, t3, t4

MCText == {t1, t2, t3, t4}

\* Two objects are possible for three of the texts.
MCString == (MCText \X {1}) \cup ({t1, t2, t3} \X {2})
MCTextOf == [s \in MCString |-> s[1]]
MCHashes == t1 :> 3 @@ t2 :> 7 @@ t3 :> 15 @@ t4 :> 0
MCStringHash == [s \in MCString |-> MCHashes[s[1]]]

VARIABLE part

HeapInit == part \in {"collector", "strings"} /\ Init /\ InternInit

HeapNext ==
  \/ part = "collector" /\ Next /\ UNCHANGED <<part, strVars>>
  \/ part = "strings" /\ InternNext /\ UNCHANGED <<part, vars>>

HeapSpec == HeapInit /\ [][HeapNext]_<<part, vars, strVars>> /\ WF_vars(Collector)
==============================================================================
