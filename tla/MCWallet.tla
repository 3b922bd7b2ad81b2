------------------------------ MODULE MCWallet ------------------------------
(* Values for model checking Wallet.                                       *)
EXTENDS Wallet, TLC

CONSTANTS p1, p2, c1

MCScopeOf == [p \in Players |-> c1]
MCInitialBalance ==
    [p \in Players |-> IF p = p1 THEN [coin |-> 1250, cash |-> 6050, promo |-> 0]
                                 ELSE [coin |-> 550, cash |-> 0, promo |-> 0]]
MCGiftTo == [g \in Gifts |-> p1]
MCPlayerOf == [r \in Requests |-> p1]
MCAmountOf == [r \in Requests |-> 20]
MCReferrerOf == [p \in Players |-> IF p = p1 THEN p2 ELSE p1]
MCAdjustments == {-10, 10}

(* Ids are drawn at random.                                                 *)
IdSymmetry == Permutations(Ids)
=============================================================================
