------------------------------ MODULE FreePlay ------------------------------
(* FreePlay gifts, lock by lock. Giving locks the player's row, then the    *)
(* marker of the player's gift, then the wallet of the staff member who     *)
(* pays; claiming locks the marker, then the gift, then the player. The two *)
(* orders cross, so that a gift given while another is claimed can wait for *)
(* each other; the database then ends one of the two transactions.          *)
(*                                                                          *)
(* A transaction reads a row when it locks it and writes on commit. Wallet  *)
(* takes the claim as one step; this module is the step's inside.           *)
EXTENDS Integers, FiniteSets

CONSTANTS
    Players,
    Givers, Staff,      \* requests by co-admins and staff to give; those of staff
    WalletOf,           \* [Staff -> Wallets]: two requests may be of one person
    Wallets, InitialWallet,
    Tabs, PlayerOf,     \* pages on which players open their gifts
    MaxGifts,           \* how many gifts are given at most
    Keys, NoKey,        \* idempotency keys of the page, which may send none
    Nobody,
    InitialCoin,        \* in hundredths, as the column holds them
    OtherAmounts, MaxOther

ASSUME FreePlayAssumption ==
    /\ IsFiniteSet(Givers) /\ Staff \subseteq Givers /\ Givers \cap Tabs = {}
    /\ WalletOf \in [Staff -> Wallets] /\ InitialWallet \in [Wallets -> Nat]
    /\ PlayerOf \in [Tabs -> Players] /\ InitialCoin \in [Players -> Nat]
    /\ Nobody \notin Players \cup Givers \cup Tabs
    /\ NoKey \notin Keys /\ Keys \cap Nat = {}
    /\ OtherAmounts \subseteq Nat /\ MaxOther \in Nat /\ MaxGifts \in Nat

(* Players' balances may have a fraction, in hundredths of a coin; a gift   *)
(* and what staff pay for it are whole coins.                               *)
Coin == 100
Whole(c) == c \div Coin

StaffCost == 3
GiftAmounts == {2, 3}

(* Gift ids are drawn at random; here they are numbered as gifts are given. *)
Gifts == 1..MaxGifts
NoGift == 0

Requests == Givers \cup Tabs
Rows == ({"player", "marker"} \X Players) \cup ({"gift"} \X Gifts)
            \cup ({"wallet"} \X Wallets) \cup ({"key"} \X Keys)

VARIABLES
    coin,     \* players_cache.coin, in hundredths
    told,     \* what the ledger's entries add up to, in hundredths
    wallet,   \* staff_coin_wallets
    gift,     \* freeplay_gifts_cache, each with the key whose operation names it
    marker,   \* freeplay_pending_gifts_cache; status "none" where there is no row
    claimed,  \* keys of gifts in authority_operations
    lock,     \* the transaction that holds each row's lock
    pc,       \* the row a request locks next
    local,    \* what it has chosen and read
    other     \* how many other operations have changed a player's coins

vars == <<coin, told, wallet, gift, marker, claimed, lock, pc, local, other>>
tables == <<coin, told, wallet, gift, marker, claimed>>

NoLocal == [player |-> Nobody, gift |-> NoGift, key |-> NoKey, seen |-> 0]

Init ==
    /\ coin = InitialCoin
    /\ told = InitialCoin
    /\ wallet = InitialWallet
    /\ gift = [g \in Gifts |-> [player |-> Nobody, status |-> "none",
                                giver |-> Nobody, key |-> NoKey]]
    /\ marker = [p \in Players |-> [gift |-> NoGift, status |-> "none"]]
    /\ claimed = {}
    /\ lock = [r \in Rows |-> Nobody]
    /\ pc = [x \in Requests |-> "idle"]
    /\ local = [x \in Requests |-> NoLocal]
    /\ other = 0

Pending(p) == marker[p].status = "pending"
Given == {g \in Gifts : gift[g].status # "none"}

(* A request goes on to lock the next row ...                               *)
Goto(x, next) == pc' = [pc EXCEPT ![x] = next]
Lock(x, row, next) ==
    /\ lock[row] = Nobody
    /\ lock' = [lock EXCEPT ![row] = x]
    /\ Goto(x, next)

(* ... or ends, by commit or rollback, and lets go of what it has locked.   *)
End(x) ==
    /\ pc' = [pc EXCEPT ![x] = "idle"]
    /\ local' = [local EXCEPT ![x] = NoLocal]
    /\ lock' = [r \in Rows |-> IF lock[r] = x THEN Nobody ELSE lock[r]]
-----------------------------------------------------------------------------
(* Giving *)

(* The player is named by the page, or drawn from those without a gift,     *)
(* before the transaction begins.                                           *)
SelectPlayer(a, p, k) ==
    /\ pc[a] = "idle"
    /\ ~Pending(p)
    /\ Cardinality(Given) + Cardinality({b \in Givers : pc[b] # "idle"}) < MaxGifts
    /\ local' = [local EXCEPT ![a] = [NoLocal EXCEPT !.player = p, !.key = k]]
    /\ Goto(a, IF k = NoKey THEN "player" ELSE "key")
    /\ UNCHANGED <<tables, lock, other>>

(* (Mutant: a look at the keys, without inserting this one.)                *)
GiveKeyUnheld(a) ==
    /\ pc[a] = "key"
    /\ IF local[a].key \in claimed
       THEN End(a)
       ELSE Goto(a, "player") /\ UNCHANGED <<lock, local>>
    /\ UNCHANGED <<tables, other>>

(* Inserting the key waits for a transaction that has inserted it and is    *)
(* still open. A duplicate is answered from the stored result.              *)
GiveKey(a) ==
    LET row == <<"key", local[a].key>> IN
    /\ pc[a] = "key"
    /\ IF local[a].key \in claimed
       THEN lock[row] = Nobody /\ End(a)
       ELSE Lock(a, row, "player") /\ UNCHANGED local
    /\ UNCHANGED <<tables, other>>

GivePlayer(a) ==
    /\ pc[a] = "player"
    /\ Lock(a, <<"player", local[a].player>>, "marker")
    /\ UNCHANGED <<tables, local, other>>

(* (Mutant: the look before the transaction is taken to be enough.)         *)
GiveMarkerUnchecked(a) ==
    LET next == IF a \in Staff THEN "wallet" ELSE "commit" IN
    /\ pc[a] = "marker"
    /\ Lock(a, <<"marker", local[a].player>>, next)
    /\ UNCHANGED <<tables, local, other>>

(* There is nothing to lock before a player's first gift.                   *)
GiveMarker(a) ==
    LET p == local[a].player
        row == <<"marker", p>>
        next == IF a \in Staff THEN "wallet" ELSE "commit" IN
    /\ pc[a] = "marker"
    /\ \/ marker[p].status = "none" /\ Goto(a, next) /\ UNCHANGED <<lock, local>>
       \/ Pending(p) /\ lock[row] = Nobody /\ End(a)
       \/ marker[p].status = "claimed" /\ Lock(a, row, next) /\ UNCHANGED local
    /\ UNCHANGED <<tables, other>>

(* (Mutant: the wallet is read without its lock.)                           *)
GiveWalletUnlocked(a) ==
    LET w == WalletOf[a] IN
    /\ pc[a] = "wallet"
    /\ IF wallet[w] < StaffCost
       THEN End(a)
       ELSE /\ Goto(a, "commit")
            /\ local' = [local EXCEPT ![a].seen = wallet[w]]
            /\ UNCHANGED lock
    /\ UNCHANGED <<tables, other>>

(* (Mutant: the wallet is not asked whether it can pay.)                    *)
GiveWalletOverdrawn(a) ==
    /\ pc[a] = "wallet"
    /\ Lock(a, <<"wallet", WalletOf[a]>>, "commit")
    /\ local' = [local EXCEPT ![a].seen = wallet[WalletOf[a]]]
    /\ UNCHANGED <<tables, other>>

GiveWallet(a) ==
    LET w == WalletOf[a] IN
    /\ pc[a] = "wallet"
    /\ IF wallet[w] < StaffCost
       THEN lock[<<"wallet", w>>] = Nobody /\ End(a)
       ELSE /\ Lock(a, <<"wallet", w>>, "commit")
            /\ local' = [local EXCEPT ![a].seen = wallet[w]]
    /\ UNCHANGED <<tables, other>>

GiveCommit(a) ==
    LET p == local[a].player
        g == Cardinality(Given) + 1 IN
    /\ pc[a] = "commit"
    /\ gift' = [gift EXCEPT ![g] = [player |-> p, status |-> "pending",
                                    giver |-> a, key |-> local[a].key]]
    /\ marker' = [marker EXCEPT ![p] = [gift |-> g, status |-> "pending"]]
    /\ wallet' = IF a \in Staff
                 THEN [wallet EXCEPT ![WalletOf[a]] = local[a].seen - StaffCost]
                 ELSE wallet
    /\ claimed' = claimed \cup ({local[a].key} \ {NoKey})
    /\ End(a)
    /\ UNCHANGED <<coin, told, other>>
-----------------------------------------------------------------------------
(* Claiming *)

(* The page shows a gift that was pending when it was read.                 *)
OpenGift(t, g) ==
    /\ pc[t] = "idle"
    /\ gift[g].player = PlayerOf[t]
    /\ local' = [local EXCEPT ![t] = [NoLocal EXCEPT !.player = PlayerOf[t], !.gift = g]]
    /\ Goto(t, "claim")
    /\ UNCHANGED <<tables, lock, other>>

(* (Mutant: the answer is returned before the transaction is closed.)       *)
ClaimMarkerLeftOpen(t) ==
    LET row == <<"marker", local[t].player>> IN
    /\ pc[t] = "claim"
    /\ Lock(t, row, IF marker[local[t].player] = [gift |-> local[t].gift, status |-> "pending"]
                    THEN "gift" ELSE "idle")
    /\ UNCHANGED <<tables, local, other>>

(* A gift that is claimed is answered with its amount, and one the marker   *)
(* no longer names is refused.                                              *)
ClaimMarker(t) ==
    LET row == <<"marker", local[t].player>> IN
    /\ pc[t] = "claim"
    /\ IF marker[local[t].player] = [gift |-> local[t].gift, status |-> "pending"]
       THEN Lock(t, row, "gift") /\ UNCHANGED local
       ELSE lock[row] = Nobody /\ End(t)
    /\ UNCHANGED <<tables, other>>

ClaimGift(t) ==
    LET g == local[t].gift IN
    /\ pc[t] = "gift"
    /\ IF gift[g].player = local[t].player /\ gift[g].status = "pending"
       THEN Lock(t, <<"gift", g>>, "owner") /\ UNCHANGED local
       ELSE lock[<<"gift", g>>] = Nobody /\ End(t)
    /\ UNCHANGED <<tables, other>>

(* (Mutant: the balance is read without its lock.)                          *)
ClaimPlayerUnlocked(t) ==
    /\ pc[t] = "owner"
    /\ Goto(t, "credit")
    /\ local' = [local EXCEPT ![t].seen = coin[local[t].player]]
    /\ UNCHANGED <<tables, lock, other>>

ClaimPlayer(t) ==
    LET p == local[t].player IN
    /\ pc[t] = "owner"
    /\ Lock(t, <<"player", p>>, "credit")
    /\ local' = [local EXCEPT ![t].seen = coin[p]]
    /\ UNCHANGED <<tables, other>>

(* The claim's own key names the gift; where it is taken already the        *)
(* transaction is rolled back and answered. The gift is added to the whole  *)
(* coins of the balance, whose fraction is dropped; the ledger tells of the *)
(* gift only.                                                               *)
ClaimCommit(t, n) ==
    LET p == local[t].player
        g == local[t].gift IN
    /\ pc[t] = "credit"
    /\ IF g \in claimed
       THEN UNCHANGED tables
       ELSE /\ coin' = [coin EXCEPT ![p] = Coin * (Whole(local[t].seen) + n)]
            /\ told' = [told EXCEPT ![p] = @ + Coin * n]
            /\ gift' = [gift EXCEPT ![g].status = "claimed"]
            /\ marker' = [marker EXCEPT ![p].status = "claimed"]
            /\ claimed' = claimed \cup {g}
            /\ UNCHANGED wallet
    /\ End(t)
    /\ UNCHANGED other
-----------------------------------------------------------------------------
(* Another operation of the player (see Wallet) adds to the coins under the *)
(* lock of the player's row, and need not add whole ones.                   *)
OtherOperation(p, c) ==
    /\ other < MaxOther
    /\ lock[<<"player", p>>] = Nobody
    /\ coin' = [coin EXCEPT ![p] = @ + c]
    /\ told' = [told EXCEPT ![p] = @ + c]
    /\ other' = other + 1
    /\ UNCHANGED <<wallet, gift, marker, claimed, lock, pc, local>>

(* The row a request waits for, if another transaction holds it.            *)
Awaited(x) ==
    CASE pc[x] = "key"                 -> {<<"key", local[x].key>>}
      [] pc[x] \in {"player", "owner"} -> {<<"player", local[x].player>>}
      [] pc[x] \in {"marker", "claim"} -> {<<"marker", local[x].player>>}
      [] pc[x] = "wallet"              -> {<<"wallet", WalletOf[x]>>}
      [] pc[x] = "gift"                -> {<<"gift", local[x].gift>>}
      [] OTHER                         -> {}
WaitsFor(x, y) == x # y /\ \E row \in Awaited(x) : lock[row] = y
Deadlocked(x) == \E y \in Requests : WaitsFor(x, y) /\ WaitsFor(y, x)

(* The database ends a transaction that waits in a cycle, and a connection  *)
(* may fail at any time: the transaction is rolled back.                    *)
Abort(x) ==
    /\ pc[x] # "idle"
    /\ End(x)
    /\ UNCHANGED <<tables, other>>

Step(x) ==
    \/ x \in Givers /\ (\/ GiveKey(x) \/ GivePlayer(x) \/ GiveMarker(x) \/ GiveWallet(x) \/ GiveCommit(x))
    \/ x \in Tabs /\ (\/ ClaimMarker(x) \/ ClaimGift(x) \/ ClaimPlayer(x)
                      \/ \E n \in GiftAmounts : ClaimCommit(x, n))
    \/ Deadlocked(x) /\ Abort(x)

Next ==
    \/ \E a \in Givers, p \in Players, k \in Keys \cup {NoKey} : SelectPlayer(a, p, k)
    \/ \E t \in Tabs, g \in Gifts : OpenGift(t, g)
    \/ \E x \in Requests : Step(x) \/ Abort(x)
    \/ \E p \in Players, c \in OtherAmounts : OtherOperation(p, c)

Spec == Init /\ [][Next]_vars
(* The server runs a request that has begun, and gives up no lock queue.    *)
FairSpec == Spec /\ \A x \in Requests : SF_vars(Step(x))
-----------------------------------------------------------------------------
TypeOK ==
    /\ coin \in [Players -> Nat] /\ told \in [Players -> Nat]
    /\ wallet \in [Wallets -> Nat]
    /\ gift \in [Gifts -> [player : Players \cup {Nobody}, giver : Givers \cup {Nobody},
                           key : Keys \cup {NoKey}, status : {"none", "pending", "claimed"}]]
    /\ marker \in [Players -> [gift : Gifts \cup {NoGift}, status : {"none", "pending", "claimed"}]]
    /\ claimed \subseteq Keys \cup Gifts
    /\ lock \in [Rows -> Requests \cup {Nobody}]
    /\ pc \in [Requests -> {"idle", "key", "player", "marker", "wallet", "commit",
                            "claim", "gift", "owner", "credit"}]
    /\ local \in [Requests -> [player : Players \cup {Nobody}, gift : Gifts \cup {NoGift},
                               key : Keys \cup {NoKey}, seen : Nat]]
    /\ other \in 0..MaxOther

(* Two requests that choose the same player give one gift: a gift that is   *)
(* pending is the one its player's marker names, and can be claimed.        *)
GiftsMatchMarkers ==
    \A p \in Players, g \in Gifts :
        gift[g].player = p /\ gift[g].status = "pending"
            <=> marker[p] = [gift |-> g, status |-> "pending"]

(* A staff member's wallet has paid for each gift, and for nothing else:    *)
(* neither a request that failed on the way nor two at a time.              *)
GiftsPaidFor ==
    \A w \in Wallets :
        wallet[w] = InitialWallet[w]
            - StaffCost * Cardinality({g \in Gifts : gift[g].giver \in Staff
                                                     /\ WalletOf[gift[g].giver] = w})

(* A claim never overwrites what another operation has added to the coins,  *)
(* nor another claim: the balance moves as the ledger says, but for the     *)
(* fraction of a coin that a claim finds in it and drops.                   *)
OnlyFractionsLost ==
    [][\A p \in Players :
          LET gap == (told'[p] - told[p]) - (coin'[p] - coin[p]) IN
          gap # 0 => gap = coin[p] % Coin /\ coin'[p] % Coin = 0]_vars

(* Whatever waits for whatever, each transaction comes to its end.          *)
EveryRequestEnds == \A x \in Requests : pc[x] # "idle" ~> pc[x] = "idle"
-----------------------------------------------------------------------------
(* The exchange that all of this implements *)

Exchange == INSTANCE GiftExchange

(* Each transaction that commits gives or opens a gift as if it had been    *)
(* alone, and one that fails has done nothing: no gift is given on a        *)
(* marker, a wallet or a key that has changed since it was read, and none   *)
(* is opened twice or onto coins that have.                                 *)
ImplementsExchange == Exchange!Spec
=============================================================================
