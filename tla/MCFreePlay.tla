----------------------------- MODULE MCFreePlay -----------------------------
(* Values for model checking FreePlay.                                     *)
EXTENDS FreePlay

CONSTANTS s1, w1, t1, p1, p2

MCWalletOf == [a \in Staff |-> w1]
MCInitialWallet == [w \in Wallets |-> 7]
MCPlayerOf == [t \in Tabs |-> p1]
MCInitialCoin == [p \in Players |-> 50]
=============================================================================
