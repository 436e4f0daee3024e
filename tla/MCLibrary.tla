----------------------------- MODULE MCLibrary -------------------------------
(***************************************************************************)
(* What programs call, in one run.  A behaviour is one of a list (Lists),  *)
(* of a sort (Sorting) or of processes (Processes); the variables of the   *)
(* other components stay as they are.                                      *)
(***************************************************************************)
EXTENDS Lists, Sorting, Processes, TLC

CONSTANTS x, y, z

MCValue == {x, y, z, Nil}
MCRank == x :> 2 @@ y :> 2 @@ z :> 1 @@ Nil :> 0
MCPosition == {-3, -1, 0, 1, 4}
MCArgument == {<<>>, <<x, Nil>>}

VARIABLE part

LibraryInit ==
  /\ Init /\ SortInit /\ ProcessesInit
  /\ part \in {"list", "sort", "process"}
  /\ part # "sort" => size = 0

LibraryNext ==
  /\ \/ part = "list" /\ Next /\ UNCHANGED <<sortVars, processVars>>
     \/ part = "sort" /\ SortNext /\ UNCHANGED <<vars, processVars>>
     \/ part = "process" /\ ProcessesNext /\ UNCHANGED <<vars, sortVars>>
  /\ UNCHANGED part

\* The fairness of Processes; an idle program has no step to take.
LibrarySpec ==
  LibraryInit /\ [][LibraryNext]_<<part, vars, sortVars, processVars>> /\ Fairness
==============================================================================
