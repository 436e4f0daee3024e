----------------------------- MODULE MCForLoop ------------------------------
(* An instance of ForLoop.tla. *)
EXTENDS ForLoop

CONSTANTS nil, item1, item2, u1, u2, x1, x2, x3, x4

MCValue == {nil, item1, item2}
MCUp == {u1, u2}
MCVariable == {x1, x2, x3, x4}
=============================================================================
