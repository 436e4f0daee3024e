------------------------------ MODULE MCIntern -------------------------------
EXTENDS Intern, TLC

CONSTANTS t1, t2, t3

MCText == {t1, t2, t3}
MCHashes == t1 :> 3 @@ t2 :> 7 @@ t3 :> 15

\* Two objects are possible for each text.
MCKey == MCText \X {1, 2}
MCTextOf == [s \in MCKey |-> s[1]]
MCHash == [s \in MCKey |-> MCHashes[s[1]]]
==============================================================================
