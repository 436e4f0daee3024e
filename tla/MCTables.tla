------------------------------ MODULE MCTables -------------------------------
(***************************************************************************)
(* Hash tables, and the calls that find methods in tables, in one run: a   *)
(* behaviour is one of a table (HashTable), or one of calls (Calls); the   *)
(* variables of the other component stay as they are.                      *)
(***************************************************************************)
EXTENDS MCHashTable, Calls, MCWorlds

VARIABLE part

TablesInit ==
  /\ part \in {"table", "calls"} /\ Init /\ CallsInit
  /\ part = "table" => body = CHOOSE w \in Worlds : TRUE

TablesNext ==
  /\ \/ part = "table" /\ Next /\ UNCHANGED callVars
     \/ part = "calls" /\ CallsNext /\ UNCHANGED vars
  /\ UNCHANGED part

\* The fairness of HashTable, whose actions have no step to take on calls.
TablesSpec ==
  TablesInit /\ [][TablesNext]_<<part, vars, callVars>> /\ WF_vars(MoveEntry \/ MoveDone)
==============================================================================
