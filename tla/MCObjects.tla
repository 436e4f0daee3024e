------------------------------ MODULE MCObjects ------------------------------
(***************************************************************************)
(* Three kinds of objects in one run.  A behaviour is one of dictionaries  *)
(* (Dict), of an array of bytes (Bytes) or of files (Files); the variables *)
(* of the others stay as they are.  One file object has any mode, and one  *)
(* beside it mode w+.                                                      *)
(***************************************************************************)
EXTENDS Dict, Bytes, Files, TLC

CONSTANTS a, b, d1, d2, x1, f1, f2

MCKeys == {a, b, Nil}
MCValue == {x1, Nil}
MCDicts == {d1, d2}
MCFalsy == {Nil, False}
MCGiven == {<<>>, <<x1>>, <<x1, Zero>>, <<x1, Other, Zero>>}
MCPosition == -3 .. 2
MCMode == f1 :> {"r", "r+", "w", "w+", "a"} @@ f2 :> {"w+"}

VARIABLE part

ObjectsInit ==
  /\ Init /\ BytesInit /\ FilesInit /\ part \in {"dict", "bytes", "file"}
  /\ part # "bytes" => count = 0

ObjectsNext ==
  /\ \/ part = "dict" /\ Next /\ UNCHANGED <<bytesVars, fileVars>>
     \/ part = "bytes" /\ BytesNext /\ UNCHANGED <<vars, fileVars>>
     \/ part = "file" /\ FilesNext /\ UNCHANGED <<vars, bytesVars>>
  /\ UNCHANGED part

\* The fairness of Dict, whose actions have no step to take on files.
ObjectsSpec == ObjectsInit /\ [][ObjectsNext]_<<part, vars, bytesVars, fileVars>> /\ Fairness
==============================================================================
