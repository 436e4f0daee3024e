----------------------------- MODULE MCUpvalues -----------------------------
(* Instances of Upvalues.tla. *)
EXTENDS Upvalues, TLC

CONSTANTS v1, v2, u1, u2, u3, x1, x2, x3, x4, x5

MCValue == {v1, v2}
MCUp == {u1, u2, u3}
MCVariable == {x1, x2, x3, x4, x5}

\* Values, up values and names are interchangeable.
Symmetry == Permutations(MCValue) \cup Permutations(MCUp) \cup Permutations(MCVariable)
=============================================================================
