----------------------------- MODULE AbstractMap -----------------------------
(***************************************************************************)
(* What the hash table of src/src/table.c promises to the rest of the      *)
(* virtual machine: a finite map from keys to values.  Every call returns  *)
(* what the C function returns, recorded in `reply'.                       *)
(***************************************************************************)
CONSTANTS Key, Value,
          Absent,   \* "table_get answered false": no value was written back
          Nil       \* NIL_VAL, which table_find_key returns for "not found"

VARIABLES map,      \* the contents, a function from Key to Value or Absent
          reply     \* the answer of the call that returned last

mapVars == <<map, reply>>

MapInit ==
  /\ map = [k \in Key |-> Absent]
  /\ reply = [op |-> "none"]

Get(k) ==
  /\ reply' = [op |-> "get", key |-> k, value |-> map[k]]
  /\ UNCHANGED map

Set(k, v) ==
  /\ reply' = [op |-> "set", key |-> k, isNew |-> map[k] = Absent]
  /\ map' = [map EXCEPT ![k] = v]

Delete(k) ==
  /\ reply' = [op |-> "delete", key |-> k, deleted |-> map[k] # Absent]
  /\ map' = [map EXCEPT ![k] = Absent]

\* Which of several keys that hold v is found is not promised.
FindKey(v) ==
  /\ \/ \E k \in Key : map[k] = v /\ reply' = [op |-> "find", key |-> k]
     \/ /\ \A k \in Key : map[k] # v
        /\ reply' = [op |-> "find", key |-> Nil]
  /\ UNCHANGED map

Clear ==
  /\ reply' = [op |-> "clear"]
  /\ map' = [k \in Key |-> Absent]

MapNext ==
  \/ \E k \in Key : Get(k) \/ Delete(k) \/ \E v \in Value : Set(k, v)
  \/ \E v \in Value : FindKey(v)
  \/ Clear

MapSpec == MapInit /\ [][MapNext]_mapVars
==============================================================================
