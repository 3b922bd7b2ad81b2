-------------------------- MODULE MCConnectionPool --------------------------
(* Values for model checking ConnectionPool.                               *)
EXTENDS ConnectionPool

CONSTANTS p1, p2, r1, r2, r3, r4, r5, r6

MCKindOf ==
    r1 :> "create" @@ r2 :> "create" @@ r3 :> "release"
        @@ r4 :> "complete" @@ r5 :> "dismissRecharge" @@ r6 :> "logout"
MCPlayerOf == [r \in Requests |-> IF r = r2 THEN p2 ELSE p1]
=============================================================================
