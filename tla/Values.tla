------------------------------- MODULE Values --------------------------------
(***************************************************************************)
(* Values as lists see them: compared by values_equal, which is the        *)
(* equality of TLA+ here, and ordered by find_max_value.                   *)
(***************************************************************************)
EXTENDS Integers

CONSTANTS Value, Nil,   \* NIL_VAL
          Rank          \* the place of a value in the hierarchy: nil, the
                        \*   Booleans, the numbers in their order, objects

ASSUME ValuesAssumption == Nil \in Value /\ Rank \in [Value -> Int]

\* find_max_value; of two values of one rank it returns the first.
FindMaxValue(a, b) == IF Rank[a] >= Rank[b] THEN a ELSE b
==============================================================================
