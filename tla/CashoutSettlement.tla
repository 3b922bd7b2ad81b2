------------------------- MODULE CashoutSettlement -------------------------
(***************************************************************************)
(* What the cash-out authority promises about money, whoever claims,       *)
(* releases, retries or times out a request in between: cash leaves a      *)
(* player's purse only into a request, and every request ends at most      *)
(* once, paid to one handler or given back.                                *)
(*                                                                         *)
(* A request made today holds the player's cash from the start; one        *)
(* imported from Firestore is only owed, and takes the cash when it is     *)
(* paid.                                                                   *)
(*                                                                         *)
(* Requests are for whole coins, purses hold hundredths. Whenever coins go *)
(* into a purse or out of it, what is less than a coin in it is lost.      *)
(***************************************************************************)
EXTENDS Integers

CONSTANTS Players, Actors, Tasks, Nobody, BoxHolders, InitialCash, Redeems,
          LegacyTasks, LegacyPlayer, LegacyAmount,
          Coin,          \* hundredths in a coin
          Payout(_, _)   \* what handling a request of an amount earns an actor

VARIABLES
    purse,  \* cash of each player, in hundredths
    till,   \* cash box of each handler that has one
    deal    \* the requests

vars == <<purse, till, deal>>

Fates == {"none", "held", "owed", "paid", "refunded", "dropped"}

Deals ==
    [fate : Fates, player : Players \cup {Nobody}, amount : Nat,
     to : Actors \cup {Nobody}]

Init ==
    /\ purse = InitialCash
    /\ till = [a \in BoxHolders |-> 0]
    /\ \E imported \in SUBSET LegacyTasks :
         deal = [t \in Tasks |->
                 IF t \in imported
                 THEN [fate |-> "owed", player |-> LegacyPlayer[t],
                       amount |-> LegacyAmount[t], to |-> Nobody]
                 ELSE [fate |-> "none", player |-> Nobody,
                       amount |-> 0, to |-> Nobody]]

Coins(p) == purse[p] \div Coin

(* The player's cash goes into a new request.                              *)
Hold(p, t, n) ==
    /\ deal[t].fate = "none"
    /\ purse' = [purse EXCEPT ![p] = Coin * (Coins(p) - n)]
    /\ deal' = [deal EXCEPT ![t] = [fate |-> "held", player |-> p,
                                    amount |-> n, to |-> Nobody]]
    /\ UNCHANGED till

Credit(a, n) ==
    till' = IF a \in BoxHolders THEN [till EXCEPT ![a] = @ + Payout(a, n)]
                                ELSE till

Ended(d, fate, a) ==
    [fate |-> fate, player |-> d.player, amount |-> d.amount, to |-> a]

(* A handler paid the player out and is credited for it.                   *)
PayHeld(t, a) ==
    /\ deal[t].fate = "held"
    /\ deal' = [deal EXCEPT ![t] = Ended(@, "paid", a)]
    /\ Credit(a, deal[t].amount)
    /\ UNCHANGED purse

PayOwed(t, a) ==
    /\ deal[t].fate = "owed"
    /\ Coins(deal[t].player) >= deal[t].amount
    /\ purse' = [purse EXCEPT ![deal[t].player] =
                                Coin * (Coins(deal[t].player) - deal[t].amount)]
    /\ deal' = [deal EXCEPT ![t] = Ended(@, "paid", a)]
    /\ Credit(a, deal[t].amount)

(* The request is turned down: what it held goes back.                     *)
Refund(t) ==
    /\ deal[t].fate = "held"
    /\ purse' = [purse EXCEPT ![deal[t].player] =
                                Coin * (Coins(deal[t].player) + deal[t].amount)]
    /\ deal' = [deal EXCEPT ![t] = Ended(@, "refunded", Nobody)]
    /\ UNCHANGED till

Drop(t) ==
    /\ deal[t].fate = "owed"
    /\ deal' = [deal EXCEPT ![t] = Ended(@, "dropped", Nobody)]
    /\ UNCHANGED <<purse, till>>

(* A redeem, in whatever fractions.                                        *)
Earn(p, n) ==
    /\ purse' = [purse EXCEPT ![p] = @ + n]
    /\ UNCHANGED <<till, deal>>

Next ==
    \/ \E p \in Players, t \in Tasks : \E n \in 1 .. Coins(p) : Hold(p, t, n)
    \/ \E p \in Players, n \in Redeems : Earn(p, n)
    \/ \E t \in Tasks, a \in Actors : PayHeld(t, a) \/ PayOwed(t, a)
    \/ \E t \in Tasks : Refund(t) \/ Drop(t)

Spec == Init /\ [][Next]_vars
=============================================================================
