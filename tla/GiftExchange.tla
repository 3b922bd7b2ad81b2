---------------------------- MODULE GiftExchange ----------------------------
(* What giving and claiming promise, whoever locks what in which order. A   *)
(* gift is given in one step: to a player who has none to open, once for    *)
(* each key it is asked for with, and paid for by the staff member who      *)
(* gives it. It is opened in one step, once, and adds to the whole coins    *)
(* that are there at that moment.                                           *)
EXTENDS Integers

CONSTANTS
    Players, Givers, Staff, WalletOf, InitialWallet, InitialCoin,
    Gifts, Keys, NoKey, Nobody, GiftAmounts, StaffCost,
    Coin,           \* hundredths, in which balances are counted, of a coin
    OtherAmounts

VARIABLES
    coin,    \* coins of each player
    told,    \* what the ledger's entries add up to
    wallet,  \* coins of each staff wallet
    gift     \* the gifts

vars == <<coin, told, wallet, gift>>

Init ==
    /\ coin = InitialCoin
    /\ told = InitialCoin
    /\ wallet = InitialWallet
    /\ gift = [g \in Gifts |-> [player |-> Nobody, status |-> "none",
                                giver |-> Nobody, key |-> NoKey]]

NothingToOpen(p) ==
    \A g \in Gifts : gift[g].player = p => gift[g].status # "pending"

NewKey(k) == k # NoKey => \A g \in Gifts : gift[g].key # k

Pay(a) ==
    IF a \in Staff
    THEN /\ wallet[WalletOf[a]] >= StaffCost
         /\ wallet' = [wallet EXCEPT ![WalletOf[a]] = @ - StaffCost]
    ELSE UNCHANGED wallet

Give(a, p, k, g) ==
    /\ NothingToOpen(p)
    /\ NewKey(k)
    /\ gift[g].status = "none"
    /\ gift' = [gift EXCEPT ![g] = [player |-> p, status |-> "pending",
                                    giver |-> a, key |-> k]]
    /\ Pay(a)
    /\ UNCHANGED <<coin, told>>

Open(g, n) ==
    /\ gift[g].status = "pending"
    /\ gift' = [gift EXCEPT ![g].status = "claimed"]
    /\ LET p == gift[g].player IN
       /\ coin' = [coin EXCEPT ![p] = Coin * (@ \div Coin + n)]
       /\ told' = [told EXCEPT ![p] = @ + Coin * n]
    /\ UNCHANGED wallet

(* Coins of another origin.                                                 *)
Earn(p, c) ==
    /\ coin' = [coin EXCEPT ![p] = @ + c]
    /\ told' = [told EXCEPT ![p] = @ + c]
    /\ UNCHANGED <<wallet, gift>>

Next ==
    \/ \E a \in Givers, p \in Players, k \in Keys \cup {NoKey}, g \in Gifts :
           Give(a, p, k, g)
    \/ \E g \in Gifts, n \in GiftAmounts : Open(g, n)
    \/ \E p \in Players, c \in OtherAmounts : Earn(p, c)

Spec == Init /\ [][Next]_vars
=============================================================================
