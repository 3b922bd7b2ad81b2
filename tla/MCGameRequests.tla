--------------------------- MODULE MCGameRequests ---------------------------
(* Values for model checking GameRequests.                                 *)
EXTENDS GameRequests, TLC

CONSTANTS p1, Recharges, Redeems

MCKindOf == [r \in Requests |-> IF r \in Recharges THEN "recharge" ELSE "redeem"]
MCPlayerOf == [r \in Requests |-> p1]
MCAmount == [r \in Requests |-> 2]
MCInitialCoin == [p \in Players |-> 5]

(* The game run follows one request, with one carer, or with two who give   *)
(* back what was taken while pages do at most two things; or two recharges  *)
(* with one carer as long as both are open and give back what they took:    *)
(* requests share nothing but the jobs, the player's balances and a carer's *)
(* session. Where a job's status was overwritten there is one request and   *)
(* one carer, pages did at most one thing, and neither a recovery of a      *)
(* silent job nor a report that the player has to leave has come.           *)
Present == {r \in Requests : request[r] # "absent"}
Working == {job[j].carer : j \in Jobs} \ {None}
FromPages == {o \in ops : o[3] \in Keys}

Explored ==
    \/ /\ Cardinality(Present) <= 1
       /\ \A r \in Present : overwrites[r] = 0
       /\ \/ Cardinality(Working) <= 1
          \/ Cardinality(FromPages) <= 2 /\ \A r \in Present : base[r] = Amount[r]
    \/ /\ Cardinality(Present) <= 1
       /\ Cardinality(Working) <= 1
       /\ Cardinality(FromPages) <= 1
       /\ waited = {} /\ \A j \in Jobs : ~job[j].suspect
       /\ \A r \in Present : base[r] = Amount[r]
    \/ /\ Present \subseteq Recharges
       /\ Cardinality(Working) <= 1
       /\ \A r \in Present :
            request[r] = "pending" /\ base[r] = Amount[r] /\ overwrites[r] = 0

(* Job ids are drawn at random; carers are alike, and so are the requests   *)
(* of the single-session run.                                               *)
Symmetry == Permutations(Jobs) \cup Permutations(Carers) \cup Permutations(Recharges)
=============================================================================
