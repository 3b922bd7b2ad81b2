-------------------------- MODULE MCPlayerCashout --------------------------
(* Values for model checking PlayerCashout.                                *)
EXTENDS PlayerCashout

CONSTANTS p1, c1, c2, s1, t1, t2, u1, k1, k2

MCRoleOf == [a \in Actors |-> IF a \in {c1, c2} THEN "coadmin" ELSE "staff"]
MCScopeOf == [a \in Actors |-> IF a = c2 THEN c2 ELSE c1]
MCCoadminOf == [p \in Players |-> c1]
MCInitialCash == [p \in Players |-> 200]
MCCashOver == [p \in Players |-> 300]
MCLegacyPlayer == [t \in LegacyTasks |-> p1]
MCLegacyAmount == [t \in LegacyTasks |-> 2]

(* Manual releases of at most one request: a release reads and writes       *)
(* nothing but its request and a key of its own.                            *)
OneReleased ==
    \A x, y \in ops : x[1] = "release" /\ y[1] = "release" => x[2] = y[2]
=============================================================================
