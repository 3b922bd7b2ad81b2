------------------------------- MODULE Wallet -------------------------------
(* A player's purses and what fills and empties them outside of game        *)
(* requests and cash-outs: cash changed into coin and back, transfer        *)
(* requests approved by staff, coins given to another player, corrections   *)
(* by staff, FreePlay gifts and referral rewards.                           *)
(*                                                                          *)
(* Each operation is one database transaction that locks the player rows it *)
(* writes before it reads them, so it is one step (FreePlay.tla models the  *)
(* locking of the one that does not begin with the player). A request that  *)
(* is refused, a duplicate that is answered from the stored result, and a   *)
(* transaction that is rolled back change nothing.                          *)
(*                                                                          *)
(* Balances are in hundredths of a coin: fees are percentages, and some     *)
(* operations drop the fraction of the balance they find.                   *)
EXTENDS Integers, FiniteSets, Functions

CONSTANTS
    Players,
    ScopeOf,          \* the co-admin a player belongs to
    InitialBalance,
    Ids,              \* transfer ids and idempotency keys drawn by callers
    Gifts, GiftTo,    \* FreePlay gifts that have been given, and to whom
    Requests, PlayerOf, AmountOf,  \* transfer requests that await approval
    ReferrerOf,       \* [Players -> Players \cup {Nobody}]
    ClaimedBefore,    \* players whose referral was rewarded before the move to SQL
    Nobody,
    Amounts,          \* whole coins a caller may ask to move
    Adjustments,      \* whole coins a correction may add (or take, if negative)
    MaxCashToCoin, MinCoinToCash, DailyLimit, MaxReward,
    CashToCoinCooldown, CoinToCashCooldown, Day, MaxTime

ASSUME AmountsAssumption == Amounts \subseteq Nat \ {0} /\ Adjustments \subseteq Int
ASSUME PeopleAssumption ==
    /\ IsFiniteSet(Players) /\ Nobody \notin Players
    /\ ReferrerOf \in [Players -> Players \cup {Nobody}]
    /\ \A p \in Players : ReferrerOf[p] # p
    /\ ClaimedBefore \subseteq Players
    /\ GiftTo \in [Gifts -> Players]
ASSUME RequestsAssumption ==
    PlayerOf \in [Requests -> Players] /\ AmountOf \in [Requests -> Nat \ {0}]
ASSUME TimesAssumption ==
    /\ CashToCoinCooldown \in Nat /\ CoinToCashCooldown \in Nat
    /\ Day \in Nat /\ MaxTime \in Nat
ASSUME LimitAssumption == DailyLimit \in Nat
ASSUME BalancesAssumption ==
    InitialBalance \in [Players -> [coin : Nat, cash : Nat, promo : Nat]]

Coin == 100
ReferralReward == 5
GiftAmounts == {2, 3}

VARIABLES
    balance,    \* players_cache and user_balance_snapshots_cache
    told,       \* what the ledger's entries add up to
    transfers,  \* financial_events_cache, both ways of transfer
    claimed,    \* authority_operations
    request,    \* transfer_requests_cache
    gift,       \* freeplay_gifts_cache and the player's marker, which agree
    referral,   \* players whose referral claim has status "claimed"
    granted,    \* history: what operations that create money have created
    moved,      \* history: the causes money has moved for
    again,      \* history: those it has moved for more than once
    now

vars == <<balance, told, transfers, claimed, request, gift, referral, granted,
          moved, again, now>>

Init ==
    /\ balance = InitialBalance
    /\ told = InitialBalance
    /\ transfers = {}
    /\ claimed = {}
    /\ request = [r \in Requests |-> "pending"]
    /\ gift = [g \in Gifts |-> "pending"]
    /\ referral = ClaimedBefore
    /\ granted = 0
    /\ moved = {}
    /\ again = {}
    /\ now = 0

(* (Mutant: the balance is rounded.)                                        *)
FloorRounds(x) == ((x + Coin \div 2) \div Coin) * Coin

(* What is left of a balance once its fraction is dropped.                  *)
Floor(x) == (x \div Coin) * Coin

(* An operation key is claimed once. An id is drawn at random for one       *)
(* request; retries of that request, and no other request, bring it again.  *)
OwnId(key) == \A k \in claimed : k[3] = key[3] => k = key
(* (Mutant: the answer of the claim is ignored.)                            *)
ClaimIgnored(key) == claimed' = claimed \cup {key}
Claim(key) ==
    /\ key \notin claimed
    /\ claimed' = claimed \cup {key}

MovesFor(cause) ==
    /\ moved' = moved \cup {cause}
    /\ again' = again \cup (moved \cap {cause})

(* New balances of one player with what the ledger is told of the change.   *)
Settle(p, coin, cash, coinDelta, cashDelta) ==
    /\ balance' = [balance EXCEPT ![p].coin = coin, ![p].cash = cash]
    /\ told' = [told EXCEPT ![p].coin = @ + coinDelta, ![p].cash = @ + cashDelta]
-----------------------------------------------------------------------------
(* Transfers between a player's own purses *)

TransfersOf(p, way) == {t \in transfers : t.player = p /\ t.way = way}
Since(age) == {t \in transfers : t.at > now - age}
Spent(ts) == SumFunctionOnSet([t \in ts |-> t.amount], ts)

(* (Mutant: the day's total is looked at without the new amount.)           *)
CashToCoinAllowedLate(p, n) ==
    LET mine == TransfersOf(p, "cash_to_coin") IN
    /\ n <= MaxCashToCoin
    /\ mine \cap Since(CashToCoinCooldown) = {}
    /\ Spent(mine \cap Since(Day)) <= DailyLimit

(* A player who has reached the rolling cash-out limit pays a higher fee    *)
(* and is let off the limits; the transfers of other days still count.      *)
CashToCoinAllowed(p, n) ==
    LET mine == TransfersOf(p, "cash_to_coin") IN
    /\ n <= MaxCashToCoin
    /\ mine \cap Since(CashToCoinCooldown) = {}
    /\ Spent(mine \cap Since(Day)) + n <= DailyLimit
CashToCoinFee(n, exempt) == ((IF exempt THEN 5 ELSE 2) * n * Coin) \div 100

(* (Mutant: one cooldown for both directions.)                              *)
CoinToCashAllowedSoon(p) ==
    TransfersOf(p, "coin_to_cash") \cap Since(CashToCoinCooldown) = {}
CoinToCashAllowed(p) ==
    TransfersOf(p, "coin_to_cash") \cap Since(CoinToCashCooldown) = {}
CoinToCashTip(n) ==
    CASE n <= 20        -> 1
      [] n \in 21..29   -> 2
      [] n \in 30..39   -> 3
      [] n \in 40..99   -> 4
      [] n \in 100..149 -> 8
      [] n \in 150..200 -> 10
      [] OTHER          -> n \div 10

Transfer(p, way, id, n, exempt) ==
    /\ OwnId(<<way, p, id>>)
    /\ Claim(<<way, p, id>>)
    /\ transfers' = transfers \cup
           {[player |-> p, way |-> way, id |-> id, amount |-> n, exempt |-> exempt, at |-> now]}
    /\ MovesFor(<<way, p, id>>)
    /\ UNCHANGED <<request, gift, referral, granted, now>>

CashToCoin(p, id, n, exempt) ==
    LET got == n * Coin - CashToCoinFee(n, exempt) IN
    /\ exempt \/ CashToCoinAllowed(p, n)
    /\ balance[p].cash >= n * Coin
    /\ Settle(p, balance[p].coin + got, balance[p].cash - n * Coin, got, -n * Coin)
    /\ Transfer(p, "cash_to_coin", id, n, exempt)

CoinToCash(p, id, n) ==
    LET got == (n - CoinToCashTip(n)) * Coin IN
    /\ n >= MinCoinToCash /\ got > 0
    /\ CoinToCashAllowed(p)
    /\ balance[p].coin >= n * Coin
    /\ Settle(p, balance[p].coin - n * Coin, balance[p].cash + got, -n * Coin, got)
    /\ Transfer(p, "coin_to_cash", id, n, FALSE)

(* Staff approve a request of the time before transfers were automatic.     *)
ApproveTransfer(r) ==
    LET p == PlayerOf[r]
        n == AmountOf[r] * Coin IN
    /\ Claim(<<"transfer_request_approve", p, r>>)
    /\ request[r] = "pending"
    /\ Floor(balance[p].cash) >= n
    /\ Settle(p, Floor(balance[p].coin) + n, Floor(balance[p].cash) - n, n, -n)
    /\ request' = [request EXCEPT ![r] = "approved"]
    /\ MovesFor(<<"request", p, r>>)
    /\ UNCHANGED <<transfers, gift, referral, granted, now>>
-----------------------------------------------------------------------------
(* Coins from one player to another, and corrections *)

RewardFee(n) ==
    LET up == (6 * n + 99) \div 100 IN IF up >= n THEN n - 1 ELSE up

(* Coins that are not locked as a promotion.                                *)
Transferable(p) ==
    LET free == Floor(balance[p].coin) - Floor(balance[p].promo) IN
    IF free < 0 THEN 0 ELSE free

(* Both rows are read before either is written.                             *)
MoveCoins(p, q, n, recipient) ==
    LET left == [balance EXCEPT ![p].coin = Floor(@) - n]
        sent == [told EXCEPT ![p].coin = @ - n] IN
    /\ balance' = [left EXCEPT ![q].coin = Floor(balance[q].coin) + recipient]
    /\ told' = [sent EXCEPT ![q].coin = @ + recipient]

(* (Mutant: nobody asks whether the two players are one.)                   *)
RewardCoinsToSelf(p, q, id, n) ==
    /\ n <= MaxReward
    /\ OwnId(<<"reward_coins", p, id>>)
    /\ Claim(<<"reward_coins", p, id>>)
    /\ ScopeOf[p] = ScopeOf[q]
    /\ Floor(balance[p].coin) >= n * Coin /\ Transferable(p) >= n * Coin
    /\ MoveCoins(p, q, n * Coin, (n - RewardFee(n)) * Coin)
    /\ MovesFor(<<"reward_coins", p, id>>)
    /\ UNCHANGED <<transfers, request, gift, referral, granted, now>>

RewardCoins(p, q, id, n) ==
    /\ q # p
    /\ n <= MaxReward
    /\ OwnId(<<"reward_coins", p, id>>)
    /\ Claim(<<"reward_coins", p, id>>)
    /\ ScopeOf[p] = ScopeOf[q]
    /\ Floor(balance[p].coin) >= n * Coin /\ Transferable(p) >= n * Coin
    /\ MoveCoins(p, q, n * Coin, (n - RewardFee(n)) * Coin)
    /\ MovesFor(<<"reward_coins", p, id>>)
    /\ UNCHANGED <<transfers, request, gift, referral, granted, now>>

(* (Mutant: what is taken is not compared with what there is.)              *)
AdjustBelowZero(p, purse, delta, id) ==
    /\ OwnId(<<"balance_adjust", Nobody, id>>)
    /\ Claim(<<"balance_adjust", Nobody, id>>)
    /\ balance' = [balance EXCEPT ![p][purse] = Floor(@) + delta * Coin]
    /\ told' = [told EXCEPT ![p][purse] = @ + delta * Coin]
    /\ granted' = granted + delta * Coin
    /\ MovesFor(<<"balance_adjust", Nobody, id>>)
    /\ UNCHANGED <<transfers, request, gift, referral, now>>

(* The key of a correction does not name the player.                        *)
Adjust(p, purse, delta, id) ==
    LET next == Floor(balance[p][purse]) + delta * Coin IN
    /\ OwnId(<<"balance_adjust", Nobody, id>>)
    /\ Claim(<<"balance_adjust", Nobody, id>>)
    /\ next >= 0
    /\ balance' = [balance EXCEPT ![p][purse] = next]
    /\ told' = [told EXCEPT ![p][purse] = @ + delta * Coin]
    /\ granted' = granted + delta * Coin
    /\ MovesFor(<<"balance_adjust", Nobody, id>>)
    /\ UNCHANGED <<transfers, request, gift, referral, now>>
-----------------------------------------------------------------------------
(* FreePlay and referral rewards *)

(* A gift is worth what is drawn when the player opens it.                  *)
ClaimFreeplay(g, n) ==
    LET p == GiftTo[g] IN
    /\ gift[g] = "pending"
    /\ Claim(<<"freeplay_claim", p, g>>)
    /\ Settle(p, Floor(balance[p].coin) + n * Coin, balance[p].cash, n * Coin, 0)
    /\ gift' = [gift EXCEPT ![g] = "claimed"]
    /\ granted' = granted + n * Coin
    /\ MovesFor(<<"gift", p, g>>)
    /\ UNCHANGED <<transfers, request, referral, now>>

(* Paid once the referred player has completed a recharge without a large   *)
(* bonus, which happens at any time. A referral that was rewarded before    *)
(* the move to SQL leaves its key behind and pays nothing.                  *)
ClaimReferral(q) ==
    LET p == ReferrerOf[q] IN
    /\ p # Nobody
    /\ Claim(<<"referral_reward", p, q>>)
    /\ IF q \in referral
       THEN UNCHANGED <<balance, told, referral, granted, moved, again>>
       ELSE /\ balance' = [balance EXCEPT ![p].coin = @ + ReferralReward * Coin,
                                          ![p].promo = @ + ReferralReward * Coin]
            /\ told' = [told EXCEPT ![p].coin = @ + ReferralReward * Coin,
                                    ![p].promo = @ + ReferralReward * Coin]
            /\ referral' = referral \cup {q}
            /\ granted' = granted + ReferralReward * Coin
            /\ MovesFor(<<"referral", p, q>>)
    /\ UNCHANGED <<transfers, request, gift, now>>
-----------------------------------------------------------------------------
Tick ==
    /\ now < MaxTime
    /\ now' = now + 1
    /\ UNCHANGED <<balance, told, transfers, claimed, request, gift, referral,
                   granted, moved, again>>

Next ==
    \/ \E p \in Players, id \in Ids, n \in Amounts :
           \/ \E exempt \in BOOLEAN : CashToCoin(p, id, n, exempt)
           \/ CoinToCash(p, id, n)
           \/ \E q \in Players : RewardCoins(p, q, id, n)
    \/ \E p \in Players, id \in Ids, purse \in {"coin", "cash"}, delta \in Adjustments :
           Adjust(p, purse, delta, id)
    \/ \E r \in Requests : ApproveTransfer(r)
    \/ \E g \in Gifts, n \in GiftAmounts : ClaimFreeplay(g, n)
    \/ \E q \in Players : ClaimReferral(q)
    \/ Tick

Spec == Init /\ [][Next]_vars
-----------------------------------------------------------------------------
Purses == [coin : Nat, cash : Nat, promo : Nat]
Transfers == [player : Players, way : {"cash_to_coin", "coin_to_cash"}, id : Ids,
              amount : Amounts, exempt : BOOLEAN, at : 0..MaxTime]

(* Balances never go negative, and every row has its type.      *)
TypeOK ==
    /\ balance \in [Players -> Purses]
    /\ told \in [Players -> [coin : Int, cash : Int, promo : Int]]
    /\ transfers \subseteq Transfers
    /\ request \in [Requests -> {"pending", "approved"}]
    /\ gift \in [Gifts -> {"pending", "claimed"}]
    /\ referral \subseteq Players
    /\ granted \in Int
    /\ now \in 0..MaxTime

(* Retries and duplicates never move money twice: one movement for each     *)
(* operation key, transfer request, gift and referred player.               *)
MovedOnce == again = {}

(* A balance and its ledger part ways by less than a coin in a step, and    *)
(* never in the player's favour: what the two differ by are the fractions   *)
(* dropped by the operations that floor the balance they find.              *)
LosesOnlyFractions ==
    [][\A p \in Players : \A purse \in {"coin", "cash"} :
          (told'[p][purse] - balance'[p][purse]) - (told[p][purse] - balance[p][purse])
              \in 0..(Coin - 1)]_vars

(* However operations interleave, the players together never hold more than *)
(* they began with and were granted by corrections, gifts and referrals:    *)
(* transfers, approvals and rewards between players create nothing.         *)
Held(b) == SumFunctionOnSet([p \in Players |-> b[p].coin + b[p].cash], Players)
NoMoneyMinted == Held(balance) <= Held(InitialBalance) + granted

(* Two transfers of one player in one direction keep the cooldown, unless   *)
(* the later one was let off the limits.                                    *)
Cooldown(way) == IF way = "cash_to_coin" THEN CashToCoinCooldown ELSE CoinToCashCooldown
CooldownsKept ==
    \A s, t \in transfers :
        /\ s # t /\ s.player = t.player /\ s.way = t.way
        /\ ~s.exempt /\ ~t.exempt
        => \/ s.at >= t.at + Cooldown(s.way)
           \/ t.at >= s.at + Cooldown(s.way)

(* What a player changes into coin within the limits never adds up to more  *)
(* than the daily limit, over any day and not only a calendar one.          *)
DailyLimitKept ==
    \A p \in Players, from \in 0..MaxTime :
        Spent({t \in TransfersOf(p, "cash_to_coin") :
                  ~t.exempt /\ t.at \in from..(from + Day - 1)}) <= DailyLimit
=============================================================================
