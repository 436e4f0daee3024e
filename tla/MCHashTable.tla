----------------------------- MODULE MCHashTable -----------------------------
(* Four keys, three of which collide in the last slot of the smallest table *)
(* so that a probe wraps around; two values, one of them the True that also *)
(* marks a tombstone and the other the Nil of a pristine slot.              *)
EXTENDS HashTable, TLC

CONSTANTS k1, k2, k3, k4

MCKey == {k1, k2, k3, k4}
MCHash == k1 :> 3 @@ k2 :> 7 @@ k3 :> 15 @@ k4 :> 0
MCValue == {Nil, True}
==============================================================================
