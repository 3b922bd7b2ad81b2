---------------------------- MODULE WalletProofs ----------------------------
(* Proofs about Wallet: types, with balances that never go negative, the    *)
(* distance between a balance and its ledger, one movement for each cause,  *)
(* the cooldowns and the daily limit, and that no money is minted.          *)
EXTENDS Wallet, SumTheorems, TLAPS

Told == [coin : Int, cash : Int, promo : Int]
MoneyTyped == balance \in [Players -> Purses] /\ told \in [Players -> Told]

(* What a step may do to the distance between a balance and the ledger.     *)
DriftOf(p, purse) ==
    (told'[p][purse] - balance'[p][purse]) - (told[p][purse] - balance[p][purse])
Drift == \A p \in Players : \A purse \in {"coin", "cash"} : DriftOf(p, purse) \in 0..(Coin - 1)

(* Dropping the fraction takes less than a coin, and never all.             *)
LEMMA FloorBounds ==
    ASSUME NEW x \in Nat
    PROVE  Floor(x) \in Nat /\ Floor(x) <= x /\ x - Floor(x) \in 0..(Coin - 1)
BY DEF Floor, Coin

LEMMA RewardFeeBounds ==
    ASSUME NEW n \in Nat \ {0}
    PROVE  RewardFee(n) \in 0..(n - 1)
BY DEF RewardFee

LEMMA CashToCoinFeeBounds ==
    ASSUME NEW n \in Nat \ {0}, NEW exempt \in BOOLEAN
    PROVE  CashToCoinFee(n, exempt) \in 0..(n * Coin)
BY DEF CashToCoinFee, Coin

LEMMA TipIsInt ==
    ASSUME NEW n \in Nat \ {0}
    PROVE  CoinToCashTip(n) \in Int
BY DEF CoinToCashTip

(* One player's row before and after.                                       *)
LEMMA RowTypes ==
    ASSUME MoneyTyped, NEW p \in Players
    PROVE  /\ balance[p] \in Purses /\ told[p] \in Told
           /\ balance[p].coin \in Nat /\ balance[p].cash \in Nat /\ balance[p].promo \in Nat
           /\ told[p].coin \in Int /\ told[p].cash \in Int /\ told[p].promo \in Int
BY DEF MoneyTyped, Purses, Told

LEMMA RowMoves ==
    ASSUME MoneyTyped, NEW p \in Players, NEW b \in Purses, NEW t \in Told,
           balance' = [balance EXCEPT ![p] = b], told' = [told EXCEPT ![p] = t],
           (t.coin - b.coin) - (told[p].coin - balance[p].coin) \in 0..(Coin - 1),
           (t.cash - b.cash) - (told[p].cash - balance[p].cash) \in 0..(Coin - 1)
    PROVE  MoneyTyped' /\ Drift
<1>1. MoneyTyped'
  BY DEF MoneyTyped
<1>2. ASSUME NEW q \in Players, NEW purse \in {"coin", "cash"}
      PROVE  DriftOf(q, purse) \in 0..(Coin - 1)
  <2>1. CASE q # p
    <3>1. balance'[q] = balance[q] /\ told'[q] = told[q]
      BY <2>1 DEF MoneyTyped
    <3>2. balance[q][purse] \in Int /\ told[q][purse] \in Int
      BY RowTypes
    <3> QED
      BY <3>1, <3>2 DEF DriftOf, Coin
  <2>2. CASE q = p
    <3>1. balance'[p] = b /\ told'[p] = t
      BY DEF MoneyTyped
    <3>2. CASE purse = "coin"
      BY <2>2, <3>1, <3>2 DEF DriftOf
    <3>3. CASE purse = "cash"
      BY <2>2, <3>1, <3>3 DEF DriftOf
    <3> QED
      BY <3>2, <3>3
  <2> QED
    BY <2>1, <2>2
<1> QED
  BY <1>1, <1>2 DEF Drift

LEMMA SettleMoves ==
    ASSUME MoneyTyped, NEW p \in Players, NEW coin \in Nat, NEW cash \in Nat,
           NEW coinDelta \in Int, NEW cashDelta \in Int,
           coinDelta - (coin - balance[p].coin) \in 0..(Coin - 1),
           cashDelta - (cash - balance[p].cash) \in 0..(Coin - 1),
           Settle(p, coin, cash, coinDelta, cashDelta)
    PROVE  MoneyTyped' /\ Drift
<1>1. /\ balance[p] \in Purses /\ told[p] \in Told
      /\ balance[p].coin \in Nat /\ balance[p].cash \in Nat
      /\ told[p].coin \in Int /\ told[p].cash \in Int
  BY RowTypes
<1> DEFINE b == [balance[p] EXCEPT !.coin = coin, !.cash = cash]
           t == [told[p] EXCEPT !.coin = told[p].coin + coinDelta,
                                !.cash = told[p].cash + cashDelta]
<1>2. b \in Purses /\ b.coin = coin /\ b.cash = cash
  BY <1>1 DEF Purses
<1>3. t \in Told /\ t.coin = told[p].coin + coinDelta /\ t.cash = told[p].cash + cashDelta
  <2>1. told[p].coin + coinDelta \in Int /\ told[p].cash + cashDelta \in Int
    BY <1>1
  <2> QED
    BY <1>1, <2>1 DEF Told
<1>4. balance' = [balance EXCEPT ![p] = b] /\ told' = [told EXCEPT ![p] = t]
  <2>1. balance' = [balance EXCEPT ![p] = b]
    BY DEF Settle, MoneyTyped
  <2>2. told' = [told EXCEPT ![p] = t]
    BY <1>1 DEF Settle, MoneyTyped
  <2> QED
    BY <2>1, <2>2
<1> HIDE DEF b, t
<1>5. /\ (t.coin - b.coin) - (told[p].coin - balance[p].coin) \in 0..(Coin - 1)
      /\ (t.cash - b.cash) - (told[p].cash - balance[p].cash) \in 0..(Coin - 1)
  BY <1>1, <1>2, <1>3 DEF Coin
<1> QED
  BY <1>2, <1>3, <1>4, <1>5, RowMoves
-----------------------------------------------------------------------------
(* Money in each operation *)

LEMMA CashToCoinMoney ==
    ASSUME TypeOK, NEW p \in Players, NEW id \in Ids, NEW n \in Amounts,
           NEW exempt \in BOOLEAN, CashToCoin(p, id, n, exempt)
    PROVE  MoneyTyped' /\ Drift
<1>1. MoneyTyped /\ n \in Nat \ {0}
  BY AmountsAssumption DEF TypeOK, MoneyTyped, Told
<1>2. balance[p].coin \in Nat /\ balance[p].cash \in Nat
  BY <1>1, RowTypes
<1> DEFINE got == n * Coin - CashToCoinFee(n, exempt)
<1>3. got \in Nat
  BY <1>1, CashToCoinFeeBounds DEF Coin
<1>4. /\ balance[p].cash >= n * Coin
      /\ Settle(p, balance[p].coin + got, balance[p].cash - n * Coin, got, -n * Coin)
  BY DEF CashToCoin
<1> HIDE DEF got
<1>5. /\ balance[p].coin + got \in Nat /\ balance[p].cash - n * Coin \in Nat
      /\ -n * Coin \in Int
      /\ got - ((balance[p].coin + got) - balance[p].coin) = 0
      /\ (-n * Coin) - ((balance[p].cash - n * Coin) - balance[p].cash) = 0
  BY <1>1, <1>2, <1>3, <1>4 DEF Coin
<1> QED
  BY <1>1, <1>3, <1>4, <1>5, SettleMoves DEF Coin

LEMMA CoinToCashMoney ==
    ASSUME TypeOK, NEW p \in Players, NEW id \in Ids, NEW n \in Amounts, CoinToCash(p, id, n)
    PROVE  MoneyTyped' /\ Drift
<1>1. MoneyTyped /\ n \in Nat \ {0}
  BY AmountsAssumption DEF TypeOK, MoneyTyped, Told
<1>2. balance[p].coin \in Nat /\ balance[p].cash \in Nat
  BY <1>1, RowTypes
<1> DEFINE got == (n - CoinToCashTip(n)) * Coin
<1>3. got > 0 /\ balance[p].coin >= n * Coin
      /\ Settle(p, balance[p].coin - n * Coin, balance[p].cash + got, -n * Coin, got)
  BY DEF CoinToCash
<1>4. got \in Nat
  BY <1>1, <1>3, TipIsInt DEF Coin
<1> HIDE DEF got
<1>5. /\ balance[p].coin - n * Coin \in Nat /\ balance[p].cash + got \in Nat
      /\ -n * Coin \in Int
      /\ got - ((balance[p].cash + got) - balance[p].cash) = 0
      /\ (-n * Coin) - ((balance[p].coin - n * Coin) - balance[p].coin) = 0
  BY <1>1, <1>2, <1>3, <1>4 DEF Coin
<1> QED
  BY <1>1, <1>3, <1>4, <1>5, SettleMoves DEF Coin

LEMMA ApproveTransferMoney ==
    ASSUME TypeOK, NEW r \in Requests, ApproveTransfer(r)
    PROVE  MoneyTyped' /\ Drift
<1> DEFINE p == PlayerOf[r]
           n == AmountOf[r] * Coin
<1>1. MoneyTyped /\ p \in Players /\ n \in Nat
  BY RequestsAssumption DEF TypeOK, MoneyTyped, Told, Coin
<1>2. balance[p].coin \in Nat /\ balance[p].cash \in Nat
  BY <1>1, RowTypes
<1>3. /\ Floor(balance[p].cash) >= n
      /\ Settle(p, Floor(balance[p].coin) + n, Floor(balance[p].cash) - n, n, -n)
  BY DEF ApproveTransfer
<1> HIDE DEF p, n
<1>4. /\ Floor(balance[p].coin) \in Nat
      /\ balance[p].coin - Floor(balance[p].coin) \in 0..(Coin - 1)
  BY <1>2, FloorBounds
<1>5. /\ Floor(balance[p].cash) \in Nat
      /\ balance[p].cash - Floor(balance[p].cash) \in 0..(Coin - 1)
  BY <1>2, FloorBounds
<1>6. /\ Floor(balance[p].coin) + n \in Nat
      /\ n - ((Floor(balance[p].coin) + n) - balance[p].coin) \in 0..(Coin - 1)
  BY <1>1, <1>2, <1>4 DEF Coin
<1>7. /\ Floor(balance[p].cash) - n \in Nat /\ -n \in Int
      /\ (-n) - ((Floor(balance[p].cash) - n) - balance[p].cash) \in 0..(Coin - 1)
  BY <1>1, <1>2, <1>3, <1>5 DEF Coin
<1> QED
  BY <1>1, <1>3, <1>6, <1>7, SettleMoves

LEMMA ClaimFreeplayMoney ==
    ASSUME TypeOK, NEW g \in Gifts, NEW n \in GiftAmounts, ClaimFreeplay(g, n)
    PROVE  MoneyTyped' /\ Drift
<1> DEFINE p == GiftTo[g]
<1>1. MoneyTyped /\ p \in Players /\ n \in Nat
  BY PeopleAssumption DEF TypeOK, MoneyTyped, Told, GiftAmounts
<1>2. balance[p].coin \in Nat /\ balance[p].cash \in Nat
  BY <1>1, RowTypes
<1>3. Settle(p, Floor(balance[p].coin) + n * Coin, balance[p].cash, n * Coin, 0)
  BY DEF ClaimFreeplay
<1> HIDE DEF p
<1>4. /\ Floor(balance[p].coin) \in Nat
      /\ balance[p].coin - Floor(balance[p].coin) \in 0..(Coin - 1)
  BY <1>2, FloorBounds
<1>5. /\ Floor(balance[p].coin) + n * Coin \in Nat /\ n * Coin \in Int
      /\ n * Coin - ((Floor(balance[p].coin) + n * Coin) - balance[p].coin) \in 0..(Coin - 1)
      /\ 0 - (balance[p].cash - balance[p].cash) \in 0..(Coin - 1)
  BY <1>1, <1>2, <1>4 DEF Coin
<1> QED
  BY <1>1, <1>2, <1>3, <1>5, SettleMoves

LEMMA RewardCoinsMoney ==
    ASSUME TypeOK, NEW p \in Players, NEW q \in Players, NEW id \in Ids, NEW n \in Amounts,
           RewardCoins(p, q, id, n)
    PROVE  MoneyTyped' /\ Drift
<1>1. MoneyTyped /\ n \in Nat \ {0} /\ p # q
  BY AmountsAssumption DEF TypeOK, MoneyTyped, Told, RewardCoins
<1> DEFINE got == (n - RewardFee(n)) * Coin
           u == Floor(balance[p].coin) - n * Coin
           v == Floor(balance[q].coin) + got
<1>2. got \in Nat
  BY <1>1, RewardFeeBounds DEF Coin
<1>3. Floor(balance[p].coin) >= n * Coin /\ MoveCoins(p, q, n * Coin, got)
  BY DEF RewardCoins
<1>4. /\ balance[p] \in Purses /\ told[p] \in Told
      /\ balance[p].coin \in Nat /\ balance[p].cash \in Nat
      /\ told[p].coin \in Int /\ told[p].cash \in Int
  BY <1>1, RowTypes
<1>5. /\ balance[q] \in Purses /\ told[q] \in Told
      /\ balance[q].coin \in Nat /\ balance[q].cash \in Nat
      /\ told[q].coin \in Int /\ told[q].cash \in Int
  BY <1>1, RowTypes
<1>6. /\ u \in Nat
      /\ (-(n * Coin)) - (u - balance[p].coin) \in 0..(Coin - 1)
  <2>1. /\ Floor(balance[p].coin) \in Nat
        /\ balance[p].coin - Floor(balance[p].coin) \in 0..(Coin - 1)
    BY <1>4, FloorBounds
  <2> QED
    BY <1>1, <1>3, <1>4, <2>1 DEF Coin
<1>7. /\ v \in Nat
      /\ got - (v - balance[q].coin) \in 0..(Coin - 1)
  <2>1. /\ Floor(balance[q].coin) \in Nat
        /\ balance[q].coin - Floor(balance[q].coin) \in 0..(Coin - 1)
    BY <1>5, FloorBounds
  <2> HIDE DEF got
  <2> QED
    BY <1>2, <1>5, <2>1 DEF Coin
<1> DEFINE bp == [balance[p] EXCEPT !.coin = u]
           bq == [balance[q] EXCEPT !.coin = v]
           tp == [told[p] EXCEPT !.coin = told[p].coin - n * Coin]
           tq == [told[q] EXCEPT !.coin = told[q].coin + got]
<1>8. /\ balance' = [balance EXCEPT ![p] = bp, ![q] = bq]
      /\ told' = [told EXCEPT ![p] = tp, ![q] = tq]
  <2> HIDE DEF got
  <2>1. balance' = [balance EXCEPT ![p] = bp, ![q] = bq]
    BY <1>1, <1>3 DEF MoveCoins, MoneyTyped
  <2>2. told' = [told EXCEPT ![p] = tp, ![q] = tq]
    BY <1>1, <1>3 DEF MoveCoins, MoneyTyped
  <2> QED
    BY <2>1, <2>2
<1> HIDE DEF got, u, v
<1>9. bp \in Purses /\ bq \in Purses
  BY <1>4, <1>5, <1>6, <1>7 DEF Purses
<1>10. /\ bp.coin = u /\ bp.cash = balance[p].cash
       /\ bq.coin = v /\ bq.cash = balance[q].cash
  BY <1>4, <1>5 DEF Purses
<1>11. tp \in Told /\ tq \in Told
  <2>1. told[p].coin - n * Coin \in Int /\ told[q].coin + got \in Int
    BY <1>1, <1>2, <1>4, <1>5 DEF Coin
  <2> QED
    BY <1>4, <1>5, <2>1 DEF Told
<1>12. /\ tp.coin = told[p].coin - n * Coin /\ tp.cash = told[p].cash
       /\ tq.coin = told[q].coin + got /\ tq.cash = told[q].cash
  BY <1>4, <1>5 DEF Told
<1> HIDE DEF bp, bq, tp, tq
<1>13. MoneyTyped'
  BY <1>1, <1>8, <1>9, <1>11 DEF MoneyTyped
<1>14. ASSUME NEW m \in Players, NEW purse \in {"coin", "cash"}
       PROVE  DriftOf(m, purse) \in 0..(Coin - 1)
  <2>1. CASE m \notin {p, q}
    <3>1. balance'[m] = balance[m] /\ told'[m] = told[m]
      BY <1>1, <1>8, <2>1 DEF MoneyTyped
    <3>2. balance[m][purse] \in Int /\ told[m][purse] \in Int
      BY <1>1, RowTypes
    <3> QED
      BY <3>1, <3>2 DEF DriftOf, Coin
  <2>2. CASE m = p
    <3>1. balance'[p] = bp /\ told'[p] = tp
      BY <1>1, <1>8 DEF MoneyTyped
    <3>2. CASE purse = "coin"
      <4>1. DriftOf(m, purse) = (tp.coin - bp.coin) - (told[p].coin - balance[p].coin)
        BY <2>2, <3>1, <3>2 DEF DriftOf
      <4> QED
        BY <1>1, <1>4, <1>6, <1>10, <1>12, <4>1 DEF Coin
    <3>3. CASE purse = "cash"
      BY <1>4, <1>10, <1>12, <2>2, <3>1, <3>3 DEF DriftOf, Coin
    <3> QED
      BY <3>2, <3>3
  <2>3. CASE m = q
    <3>1. balance'[q] = bq /\ told'[q] = tq
      BY <1>1, <1>8 DEF MoneyTyped
    <3>2. CASE purse = "coin"
      <4>1. DriftOf(m, purse) = (tq.coin - bq.coin) - (told[q].coin - balance[q].coin)
        BY <2>3, <3>1, <3>2 DEF DriftOf
      <4> QED
        BY <1>2, <1>5, <1>7, <1>10, <1>12, <4>1 DEF Coin
    <3>3. CASE purse = "cash"
      BY <1>5, <1>10, <1>12, <2>3, <3>1, <3>3 DEF DriftOf, Coin
    <3> QED
      BY <3>2, <3>3
  <2> QED
    BY <2>1, <2>2, <2>3
<1> QED
  BY <1>13, <1>14 DEF Drift

LEMMA AdjustMoney ==
    ASSUME TypeOK, NEW p \in Players, NEW purse \in {"coin", "cash"},
           NEW delta \in Adjustments, NEW id \in Ids, Adjust(p, purse, delta, id)
    PROVE  MoneyTyped' /\ Drift
<1>1. MoneyTyped /\ delta \in Int
  BY AmountsAssumption DEF TypeOK, MoneyTyped, Told
<1>2. /\ balance[p] \in Purses /\ told[p] \in Told
      /\ balance[p].coin \in Nat /\ balance[p].cash \in Nat
      /\ told[p].coin \in Int /\ told[p].cash \in Int
  BY <1>1, RowTypes
<1>3. CASE purse = "coin"
  <2> DEFINE next == Floor(balance[p].coin) + delta * Coin
             b == [balance[p] EXCEPT !.coin = next]
             t == [told[p] EXCEPT !.coin = told[p].coin + delta * Coin]
  <2>1. next >= 0
    BY <1>3 DEF Adjust
  <2>2. balance' = [balance EXCEPT ![p] = b] /\ told' = [told EXCEPT ![p] = t]
    BY <1>1, <1>3 DEF Adjust, MoneyTyped
  <2>3. /\ next \in Nat /\ told[p].coin + delta * Coin \in Int
        /\ delta * Coin - (next - balance[p].coin) \in 0..(Coin - 1)
    <3>1. /\ Floor(balance[p].coin) \in Nat
          /\ balance[p].coin - Floor(balance[p].coin) \in 0..(Coin - 1)
      BY <1>2, FloorBounds
    <3> QED
      BY <1>1, <1>2, <2>1, <3>1 DEF Coin
  <2> HIDE DEF next
  <2>4. /\ b \in Purses /\ b.coin = next /\ b.cash = balance[p].cash
        /\ t \in Told /\ t.coin = told[p].coin + delta * Coin /\ t.cash = told[p].cash
    BY <1>2, <2>3 DEF Purses, Told
  <2> HIDE DEF b, t
  <2>5. delta * Coin \in Int
    BY <1>1 DEF Coin
  <2>6. /\ (t.coin - b.coin) - (told[p].coin - balance[p].coin) \in 0..(Coin - 1)
        /\ (t.cash - b.cash) - (told[p].cash - balance[p].cash) \in 0..(Coin - 1)
    BY <1>2, <2>3, <2>4, <2>5 DEF Coin
  <2> QED
    BY <1>1, <2>2, <2>4, <2>6, RowMoves
<1>4. CASE purse = "cash"
  <2> DEFINE next == Floor(balance[p].cash) + delta * Coin
             b == [balance[p] EXCEPT !.cash = next]
             t == [told[p] EXCEPT !.cash = told[p].cash + delta * Coin]
  <2>1. next >= 0
    BY <1>4 DEF Adjust
  <2>2. balance' = [balance EXCEPT ![p] = b] /\ told' = [told EXCEPT ![p] = t]
    BY <1>1, <1>4 DEF Adjust, MoneyTyped
  <2>3. /\ next \in Nat /\ told[p].cash + delta * Coin \in Int
        /\ delta * Coin - (next - balance[p].cash) \in 0..(Coin - 1)
    <3>1. /\ Floor(balance[p].cash) \in Nat
          /\ balance[p].cash - Floor(balance[p].cash) \in 0..(Coin - 1)
      BY <1>2, FloorBounds
    <3> QED
      BY <1>1, <1>2, <2>1, <3>1 DEF Coin
  <2> HIDE DEF next
  <2>4. /\ b \in Purses /\ b.cash = next /\ b.coin = balance[p].coin
        /\ t \in Told /\ t.cash = told[p].cash + delta * Coin /\ t.coin = told[p].coin
    BY <1>2, <2>3 DEF Purses, Told
  <2> HIDE DEF b, t
  <2>5. delta * Coin \in Int
    BY <1>1 DEF Coin
  <2>6. /\ (t.coin - b.coin) - (told[p].coin - balance[p].coin) \in 0..(Coin - 1)
        /\ (t.cash - b.cash) - (told[p].cash - balance[p].cash) \in 0..(Coin - 1)
    BY <1>2, <2>3, <2>4, <2>5 DEF Coin
  <2> QED
    BY <1>1, <2>2, <2>4, <2>6, RowMoves
<1> QED
  BY <1>3, <1>4

LEMMA ClaimReferralMoney ==
    ASSUME TypeOK, NEW q \in Players, ClaimReferral(q)
    PROVE  MoneyTyped' /\ Drift
<1> DEFINE p == ReferrerOf[q]
           paid == ReferralReward * Coin
           b == [balance[p] EXCEPT !.coin = balance[p].coin + paid,
                                   !.promo = balance[p].promo + paid]
           t == [told[p] EXCEPT !.coin = told[p].coin + paid,
                                !.promo = told[p].promo + paid]
<1>1. MoneyTyped /\ p \in Players
  BY PeopleAssumption DEF TypeOK, MoneyTyped, Told, ClaimReferral
<1>2. /\ balance[p] \in Purses /\ told[p] \in Told
      /\ balance[p].coin \in Nat /\ balance[p].cash \in Nat /\ balance[p].promo \in Nat
      /\ told[p].coin \in Int /\ told[p].cash \in Int /\ told[p].promo \in Int
  BY <1>1, RowTypes
<1>3. paid = 500
  BY DEF ReferralReward, Coin
<1>4. CASE q \in referral
  <2>1. balance' = balance /\ told' = told
    BY <1>4 DEF ClaimReferral
  <2>2. balance' = [balance EXCEPT ![p] = balance[p]] /\ told' = [told EXCEPT ![p] = told[p]]
    BY <1>1, <2>1 DEF MoneyTyped
  <2>3. /\ (told[p].coin - balance[p].coin) - (told[p].coin - balance[p].coin) \in 0..(Coin - 1)
        /\ (told[p].cash - balance[p].cash) - (told[p].cash - balance[p].cash) \in 0..(Coin - 1)
    BY <1>2 DEF Coin
  <2> QED
    BY <1>1, <1>2, <2>2, <2>3, RowMoves
<1>5. CASE q \notin referral
  <2>1. balance' = [balance EXCEPT ![p] = b]
    BY <1>1, <1>5 DEF ClaimReferral, MoneyTyped
  <2>2. told' = [told EXCEPT ![p] = t]
    BY <1>1, <1>5 DEF ClaimReferral, MoneyTyped
  <2> HIDE DEF paid
  <2>3. b \in Purses /\ b.coin = balance[p].coin + paid /\ b.cash = balance[p].cash
    <3>1. balance[p].coin + paid \in Nat /\ balance[p].promo + paid \in Nat
      BY <1>2, <1>3
    <3> QED
      BY <1>2, <3>1 DEF Purses
  <2>4. t \in Told /\ t.coin = told[p].coin + paid /\ t.cash = told[p].cash
    <3>1. told[p].coin + paid \in Int /\ told[p].promo + paid \in Int
      BY <1>2, <1>3
    <3> QED
      BY <1>2, <3>1 DEF Told
  <2> HIDE DEF b, t
  <2>5. /\ (t.coin - b.coin) - (told[p].coin - balance[p].coin) \in 0..(Coin - 1)
        /\ (t.cash - b.cash) - (told[p].cash - balance[p].cash) \in 0..(Coin - 1)
    BY <1>2, <1>3, <2>3, <2>4 DEF Coin
  <2> QED
    BY <1>1, <2>1, <2>2, <2>3, <2>4, <2>5, RowMoves
<1> QED
  BY <1>4, <1>5

(* What time leaves alone does not drift.                                   *)
LEMMA TickMoney ==
    ASSUME TypeOK, UNCHANGED <<balance, told>>
    PROVE  MoneyTyped' /\ Drift
<1>1. MoneyTyped
  BY DEF TypeOK, MoneyTyped, Told
<1>2. ASSUME NEW q \in Players, NEW purse \in {"coin", "cash"}
      PROVE  balance[q][purse] \in Int /\ told[q][purse] \in Int
  BY <1>1, RowTypes
<1> QED
  BY <1>1, <1>2 DEF MoneyTyped, Drift, DriftOf, Coin

LEMMA StepMoney ==
    ASSUME TypeOK, [Next]_vars
    PROVE  MoneyTyped' /\ Drift
<1>1. CASE \E p \in Players, id \in Ids, n \in Amounts :
               \E exempt \in BOOLEAN : CashToCoin(p, id, n, exempt)
  BY <1>1, CashToCoinMoney
<1>2. CASE \E p \in Players, id \in Ids, n \in Amounts : CoinToCash(p, id, n)
  BY <1>2, CoinToCashMoney
<1>3. CASE \E p, q \in Players, id \in Ids, n \in Amounts : RewardCoins(p, q, id, n)
  BY <1>3, RewardCoinsMoney
<1>4. CASE \E p \in Players, id \in Ids, purse \in {"coin", "cash"}, delta \in Adjustments :
               Adjust(p, purse, delta, id)
  BY <1>4, AdjustMoney
<1>5. CASE \E r \in Requests : ApproveTransfer(r)
  BY <1>5, ApproveTransferMoney
<1>6. CASE \E g \in Gifts, n \in GiftAmounts : ClaimFreeplay(g, n)
  BY <1>6, ClaimFreeplayMoney
<1>7. CASE \E q \in Players : ClaimReferral(q)
  BY <1>7, ClaimReferralMoney
<1>8. CASE Tick \/ UNCHANGED vars
  BY <1>8, TickMoney DEF Tick, vars
<1> QED
  BY <1>1, <1>2, <1>3, <1>4, <1>5, <1>6, <1>7, <1>8 DEF Next
-----------------------------------------------------------------------------
(* The other rows *)

(* A transfer that is recorded is one of those that are asked for.          *)
LEMMA TransferTypes ==
    ASSUME TypeOK, NEW p \in Players, NEW way \in {"cash_to_coin", "coin_to_cash"},
           NEW id \in Ids, NEW n \in Amounts, NEW exempt \in BOOLEAN,
           Transfer(p, way, id, n, exempt)
    PROVE  transfers' \subseteq Transfers
BY DEF Transfer, TypeOK, Transfers

LEMMA StepTypes ==
    ASSUME TypeOK, [Next]_vars
    PROVE  /\ transfers' \subseteq Transfers
           /\ request' \in [Requests -> {"pending", "approved"}]
           /\ gift' \in [Gifts -> {"pending", "claimed"}]
           /\ referral' \subseteq Players
           /\ granted' \in Int
           /\ now' \in 0..MaxTime
<1>1. ASSUME NEW p \in Players, NEW id \in Ids, NEW n \in Amounts, NEW exempt \in BOOLEAN,
             CashToCoin(p, id, n, exempt)
      PROVE  /\ transfers' \subseteq Transfers
             /\ UNCHANGED <<request, gift, referral, granted, now>>
  BY <1>1, TransferTypes DEF CashToCoin, Transfer
<1>2. ASSUME NEW p \in Players, NEW id \in Ids, NEW n \in Amounts, CoinToCash(p, id, n)
      PROVE  /\ transfers' \subseteq Transfers
             /\ UNCHANGED <<request, gift, referral, granted, now>>
  BY <1>2, TransferTypes DEF CoinToCash, Transfer
<1>3. CASE \E p, q \in Players, id \in Ids, n \in Amounts : RewardCoins(p, q, id, n)
  BY <1>3 DEF RewardCoins, TypeOK
<1>4. CASE \E p \in Players, id \in Ids, purse \in {"coin", "cash"}, delta \in Adjustments :
               Adjust(p, purse, delta, id)
  BY <1>4, AmountsAssumption DEF Adjust, TypeOK, Coin
<1>5. CASE \E r \in Requests : ApproveTransfer(r)
  BY <1>5 DEF ApproveTransfer, TypeOK
<1>6. CASE \E g \in Gifts, n \in GiftAmounts : ClaimFreeplay(g, n)
  BY <1>6 DEF ClaimFreeplay, TypeOK, GiftAmounts, Coin
<1>7. CASE \E q \in Players : ClaimReferral(q)
  BY <1>7 DEF ClaimReferral, TypeOK, ReferralReward, Coin
<1>8. CASE Tick \/ UNCHANGED vars
  BY <1>8, TimesAssumption DEF Tick, vars, TypeOK
<1> QED
  BY <1>1, <1>2, <1>3, <1>4, <1>5, <1>6, <1>7, <1>8 DEF Next, TypeOK

(* Whatever is moved, corrected, given and rewarded in whatever order, no   *)
(* balance goes below zero and every row keeps its type.                    *)
THEOREM TypeCorrect == Spec => []TypeOK
<1>1. Init => TypeOK
  BY BalancesAssumption, PeopleAssumption, TimesAssumption DEF Init, TypeOK, Purses
<1>2. TypeOK /\ [Next]_vars => TypeOK'
  BY StepMoney, StepTypes DEF TypeOK, MoneyTyped, Told
<1> QED
  BY <1>1, <1>2, PTL DEF Spec

(* In every step a balance and its ledger part by less than a coin, in      *)
(* favour of the house.                                                     *)
THEOREM OnlyFractionsAreLost == Spec => LosesOnlyFractions
<1>1. TypeOK /\ [Next]_vars =>
          [\A p \in Players : \A purse \in {"coin", "cash"} :
              (told'[p][purse] - balance'[p][purse]) - (told[p][purse] - balance[p][purse])
                  \in 0..(Coin - 1)]_vars
  BY StepMoney DEF Drift, DriftOf
<1> QED
  BY <1>1, TypeCorrect, PTL DEF Spec, LosesOnlyFractions
-----------------------------------------------------------------------------
(* One movement for each cause *)

(* The operation key that is claimed when money moves for a cause.          *)
KeyKind(kind) ==
    CASE kind = "request"  -> "transfer_request_approve"
      [] kind = "gift"     -> "freeplay_claim"
      [] kind = "referral" -> "referral_reward"
      [] OTHER             -> kind
KeyOf(cause) == <<KeyKind(cause[1]), cause[2], cause[3]>>

(* Why it holds: money moves in the transaction that claims the key.        *)
MovedInv == again = {} /\ \A cause \in moved : KeyOf(cause) \in claimed

LEMMA ClaimedMovesOnce ==
    ASSUME MovedInv, NEW cause, Claim(KeyOf(cause)), MovesFor(cause)
    PROVE  MovedInv'
BY DEF MovedInv, Claim, MovesFor

LEMMA NothingMoves ==
    ASSUME MovedInv, UNCHANGED <<moved, again>>, claimed \subseteq claimed'
    PROVE  MovedInv'
BY DEF MovedInv

LEMMA StepMovesOnce ==
    ASSUME MovedInv, [Next]_vars
    PROVE  MovedInv'
<1>1. ASSUME NEW p \in Players, NEW way \in {"cash_to_coin", "coin_to_cash"}, NEW id \in Ids,
             NEW n, NEW exempt, Transfer(p, way, id, n, exempt)
      PROVE  MovedInv'
  <2> DEFINE cause == <<way, p, id>>
  <2>1. KeyOf(cause) = cause
    BY DEF KeyOf, KeyKind
  <2>2. Claim(cause) /\ MovesFor(cause)
    BY <1>1 DEF Transfer
  <2> QED
    BY <2>1, <2>2, ClaimedMovesOnce
<1>2. ASSUME NEW p \in Players, NEW id \in Ids, NEW n \in Amounts,
             \/ \E exempt \in BOOLEAN : CashToCoin(p, id, n, exempt)
             \/ CoinToCash(p, id, n)
      PROVE  MovedInv'
  BY <1>1, <1>2 DEF CashToCoin, CoinToCash
<1>3. ASSUME NEW p \in Players, NEW q \in Players, NEW id \in Ids, NEW n \in Amounts,
             RewardCoins(p, q, id, n)
      PROVE  MovedInv'
  <2> DEFINE cause == <<"reward_coins", p, id>>
  <2>1. KeyOf(cause) = cause
    BY DEF KeyOf, KeyKind
  <2>2. Claim(cause) /\ MovesFor(cause)
    BY <1>3 DEF RewardCoins
  <2> QED
    BY <2>1, <2>2, ClaimedMovesOnce
<1>4. ASSUME NEW p \in Players, NEW id \in Ids, NEW purse \in {"coin", "cash"},
             NEW delta \in Adjustments, Adjust(p, purse, delta, id)
      PROVE  MovedInv'
  <2> DEFINE cause == <<"balance_adjust", Nobody, id>>
  <2>1. KeyOf(cause) = cause
    BY DEF KeyOf, KeyKind
  <2>2. Claim(cause) /\ MovesFor(cause)
    BY <1>4 DEF Adjust
  <2> QED
    BY <2>1, <2>2, ClaimedMovesOnce
<1>5. ASSUME NEW r \in Requests, ApproveTransfer(r)
      PROVE  MovedInv'
  <2> DEFINE cause == <<"request", PlayerOf[r], r>>
  <2>1. KeyOf(cause) = <<"transfer_request_approve", PlayerOf[r], r>>
    BY DEF KeyOf, KeyKind
  <2>2. Claim(<<"transfer_request_approve", PlayerOf[r], r>>) /\ MovesFor(cause)
    BY <1>5 DEF ApproveTransfer
  <2> QED
    BY <2>1, <2>2, ClaimedMovesOnce
<1>6. ASSUME NEW g \in Gifts, NEW n \in GiftAmounts, ClaimFreeplay(g, n)
      PROVE  MovedInv'
  <2> DEFINE cause == <<"gift", GiftTo[g], g>>
  <2>1. KeyOf(cause) = <<"freeplay_claim", GiftTo[g], g>>
    BY DEF KeyOf, KeyKind
  <2>2. Claim(<<"freeplay_claim", GiftTo[g], g>>) /\ MovesFor(cause)
    BY <1>6 DEF ClaimFreeplay
  <2> QED
    BY <2>1, <2>2, ClaimedMovesOnce
<1>7. ASSUME NEW q \in Players, ClaimReferral(q)
      PROVE  MovedInv'
  <2> DEFINE cause == <<"referral", ReferrerOf[q], q>>
  <2>1. KeyOf(cause) = <<"referral_reward", ReferrerOf[q], q>>
    BY DEF KeyOf, KeyKind
  <2>2. Claim(<<"referral_reward", ReferrerOf[q], q>>)
    BY <1>7 DEF ClaimReferral
  <2>3. CASE q \in referral
    BY <1>7, <2>2, <2>3, NothingMoves DEF ClaimReferral, Claim
  <2>4. CASE q \notin referral
    <3>1. MovesFor(cause)
      BY <1>7, <2>4 DEF ClaimReferral
    <3> QED
      BY <2>1, <2>2, <3>1, ClaimedMovesOnce
  <2> QED
    BY <2>3, <2>4
<1>8. CASE Tick \/ UNCHANGED vars
  BY <1>8, NothingMoves DEF Tick, vars
<1> QED
  BY <1>2, <1>3, <1>4, <1>5, <1>6, <1>7, <1>8 DEF Next

(* Money never moves twice for one operation key, transfer request, gift or *)
(* referred player, however requests are repeated and interleaved.          *)
THEOREM MovesOnce == Spec => []MovedOnce
<1>1. Init => MovedInv
  BY DEF Init, MovedInv
<1>2. MovedInv /\ [Next]_vars => MovedInv'
  BY StepMovesOnce
<1>3. MovedInv => MovedOnce
  BY DEF MovedInv, MovedOnce
<1> QED
  BY <1>1, <1>2, <1>3, PTL DEF Spec
-----------------------------------------------------------------------------
(* Cooldowns *)

(* What is recorded has happened.                                           *)
CooldownInv == CooldownsKept /\ \A t \in transfers : t.at <= now

(* A transfer recorded now, when those of the same player and direction lie *)
(* a cooldown back or it is let off, keeps the cooldowns.                   *)
LEMMA TransferKeepsCooldown ==
    ASSUME TypeOK, CooldownInv,
           NEW p \in Players, NEW way \in {"cash_to_coin", "coin_to_cash"}, NEW id \in Ids,
           NEW n \in Amounts, NEW exempt \in BOOLEAN, Transfer(p, way, id, n, exempt),
           exempt \/ TransfersOf(p, way) \cap Since(Cooldown(way)) = {}
    PROVE  CooldownInv'
<1> DEFINE new == [player |-> p, way |-> way, id |-> id, amount |-> n,
                   exempt |-> exempt, at |-> now]
<1>1. transfers' = transfers \cup {new} /\ now' = now /\ now \in Nat
  BY TimesAssumption DEF Transfer, TypeOK
<1>2. Cooldown("cash_to_coin") \in Nat /\ Cooldown("coin_to_cash") \in Nat
  BY TimesAssumption DEF Cooldown
<1>3. ASSUME NEW t \in transfers, t.player = p, t.way = way, ~exempt
      PROVE  now >= t.at + Cooldown(way)
  <2>1. t \in TransfersOf(p, way)
    BY <1>3 DEF TransfersOf
  <2>2. t \notin Since(Cooldown(way))
    BY <1>3, <2>1
  <2>3. t.at \in Nat
    BY TimesAssumption DEF TypeOK, Transfers
  <2> QED
    BY <1>1, <1>2, <2>2, <2>3 DEF Since
<1>4. new.player = p /\ new.way = way /\ new.exempt = exempt /\ new.at = now
  OBVIOUS
<1> HIDE DEF new
<1>5. \A t \in transfers' : t.at <= now'
  BY <1>1, <1>4 DEF CooldownInv
<1>6. ASSUME NEW s \in transfers', NEW t \in transfers', s # t, s.player = t.player,
             s.way = t.way, ~s.exempt, ~t.exempt
      PROVE  s.at >= t.at + Cooldown(s.way) \/ t.at >= s.at + Cooldown(s.way)
  <2>1. CASE s \in transfers /\ t \in transfers
    BY <1>6, <2>1 DEF CooldownInv, CooldownsKept
  <2>2. CASE s = new
    BY <1>1, <1>3, <1>4, <1>6, <2>2
  <2>3. CASE t = new
    BY <1>1, <1>3, <1>4, <1>6, <2>3
  <2> QED
    BY <1>1, <2>1, <2>2, <2>3
<1>7. CooldownsKept'
  BY <1>6 DEF CooldownsKept, Cooldown
<1> QED
  BY <1>5, <1>7 DEF CooldownInv

LEMMA StepKeepsCooldowns ==
    ASSUME TypeOK, CooldownInv, [Next]_vars
    PROVE  CooldownInv'
<1>1. ASSUME NEW p \in Players, NEW id \in Ids, NEW n \in Amounts, NEW exempt \in BOOLEAN,
             CashToCoin(p, id, n, exempt)
      PROVE  CooldownInv'
  <2>1. exempt \/ TransfersOf(p, "cash_to_coin") \cap Since(Cooldown("cash_to_coin")) = {}
    BY <1>1 DEF CashToCoin, CashToCoinAllowed, Cooldown
  <2>2. Transfer(p, "cash_to_coin", id, n, exempt)
    BY <1>1 DEF CashToCoin
  <2> QED
    BY <2>1, <2>2, TransferKeepsCooldown
<1>2. ASSUME NEW p \in Players, NEW id \in Ids, NEW n \in Amounts, CoinToCash(p, id, n)
      PROVE  CooldownInv'
  <2>1. TransfersOf(p, "coin_to_cash") \cap Since(Cooldown("coin_to_cash")) = {}
    BY <1>2 DEF CoinToCash, CoinToCashAllowed, Cooldown
  <2>2. Transfer(p, "coin_to_cash", id, n, FALSE)
    BY <1>2 DEF CoinToCash
  <2> QED
    BY <2>1, <2>2, TransferKeepsCooldown
<1>3. CASE UNCHANGED <<transfers, now>>
  BY <1>3 DEF CooldownInv, CooldownsKept, Cooldown
<1>4. CASE Tick
  <2>1. transfers' = transfers /\ now' = now + 1 /\ now \in Nat
    BY <1>4, TimesAssumption DEF Tick, TypeOK
  <2>2. \A t \in transfers : t.at \in Nat
    BY TimesAssumption DEF TypeOK, Transfers
  <2>3. \A t \in transfers' : t.at <= now'
    BY <2>1, <2>2 DEF CooldownInv
  <2> QED
    BY <2>1, <2>3 DEF CooldownInv, CooldownsKept, Cooldown
<1>5. \/ \E p \in Players, id \in Ids, n \in Amounts :
             \/ \E exempt \in BOOLEAN : CashToCoin(p, id, n, exempt)
             \/ CoinToCash(p, id, n)
      \/ UNCHANGED <<transfers, now>>
      \/ Tick
  BY DEF Next, RewardCoins, Adjust, ApproveTransfer, ClaimFreeplay, ClaimReferral, vars
<1> QED
  BY <1>1, <1>2, <1>3, <1>4, <1>5

(* Two transfers of a player in one direction that are not let off lie a    *)
(* cooldown apart, although they are asked for at any time and repeated.    *)
THEOREM CooldownsAreKept == Spec => []CooldownsKept
<1>1. Init => CooldownInv
  BY DEF Init, CooldownInv, CooldownsKept
<1>2. TypeOK /\ CooldownInv /\ [Next]_vars => CooldownInv'
  BY StepKeepsCooldowns
<1>3. CooldownInv => CooldownsKept
  BY DEF CooldownInv
<1> QED
  BY <1>1, <1>2, <1>3, TypeCorrect, PTL DEF Spec
-----------------------------------------------------------------------------
(* No money is minted *)

Total(r) == r.coin + r.cash

LEMMA HeldType ==
    ASSUME NEW B \in [Players -> Purses]
    PROVE  Held(B) \in Int
<1> DEFINE v == [p \in Players |-> B[p].coin + B[p].cash]
<1>1. \A p \in Players : v[p] \in Int
  BY DEF Purses
<1> HIDE DEF v
<1>2. SumFunctionOnSet(v, Players) \in Int
  BY <1>1, PeopleAssumption, SumInt
<1> QED
  BY <1>2 DEF Held, v

(* One row changes: the players together hold as much more or less.         *)
LEMMA HeldChange ==
    ASSUME NEW B \in [Players -> Purses], NEW p \in Players, NEW b \in Purses
    PROVE  /\ Held(B) \in Int
           /\ Held([B EXCEPT ![p] = b]) = Held(B) + Total(b) - Total(B[p])
<1> DEFINE C == [B EXCEPT ![p] = b]
           v == [q \in Players |-> B[q].coin + B[q].cash]
           w == [q \in Players |-> C[q].coin + C[q].cash]
<1>1. C \in [Players -> Purses] /\ C[p] = b /\ \A q \in Players \ {p} : C[q] = B[q]
  OBVIOUS
<1> HIDE DEF C
<1>2. \A q \in Players : v[q] \in Int /\ w[q] \in Int
  BY <1>1 DEF Purses
<1>3. \A q \in Players \ {p} : w[q] = v[q]
  BY <1>1
<1>4. v[p] = Total(B[p]) /\ w[p] = Total(b)
  BY <1>1 DEF Total
<1>5. Held(B) = SumFunctionOnSet(v, Players) /\ Held(C) = SumFunctionOnSet(w, Players)
  BY DEF Held
<1>6. IsFiniteSet(Players)
  BY PeopleAssumption
<1> HIDE DEF v, w
<1>7. SumFunctionOnSet(w, Players) = SumFunctionOnSet(v, Players) + w[p] - v[p]
  BY <1>2, <1>3, <1>6, SumChange
<1>8. SumFunctionOnSet(v, Players) \in Int
  BY <1>2, <1>6, SumInt
<1> QED
  BY <1>4, <1>5, <1>7, <1>8 DEF C

(* What a step grants, and a row that gains no more than that.              *)
Grants(n) == granted' = granted + n
GainsAtMost(r, b, n) == Total(b) <= Total(r) + n

Unminted == Held(balance') - granted' <= Held(balance) - granted

LEMMA TotalType ==
    ASSUME NEW r \in Purses
    PROVE  Total(r) \in Nat
BY DEF Total, Purses

LEMMA RowUnminted ==
    ASSUME TypeOK, NEW p \in Players, NEW b \in Purses, NEW n \in Int,
           balance' = [balance EXCEPT ![p] = b], Grants(n),
           GainsAtMost(balance[p], b, n)
    PROVE  Unminted
<1>1. balance \in [Players -> Purses] /\ granted \in Int
  BY DEF TypeOK
<1>2. Held(balance) \in Int /\ Held(balance') = Held(balance) + Total(b) - Total(balance[p])
  BY <1>1, HeldChange
<1>3. Total(b) \in Nat /\ Total(balance[p]) \in Nat
  BY <1>1, TotalType
<1>4. granted' = granted + n /\ Total(b) <= Total(balance[p]) + n
  BY DEF Grants, GainsAtMost
<1> QED
  BY <1>1, <1>2, <1>3, <1>4 DEF Unminted

LEMMA SettleUnminted ==
    ASSUME TypeOK, NEW p \in Players, NEW coin \in Nat, NEW cash \in Nat, NEW n \in Int,
           NEW coinDelta, NEW cashDelta, Settle(p, coin, cash, coinDelta, cashDelta),
           Grants(n),
           GainsAtMost(balance[p], [coin |-> coin, cash |-> cash], n)
    PROVE  Unminted
<1> DEFINE b == [balance[p] EXCEPT !.coin = coin, !.cash = cash]
<1>1. balance[p] \in Purses
  BY DEF TypeOK
<1>2. b \in Purses /\ b.coin = coin /\ b.cash = cash
  BY <1>1 DEF Purses
<1>3. balance' = [balance EXCEPT ![p] = b]
  BY DEF Settle, TypeOK
<1> HIDE DEF b
<1>4. GainsAtMost(balance[p], b, n)
  BY <1>2 DEF GainsAtMost, Total
<1> QED
  BY <1>2, <1>3, <1>4, RowUnminted

LEMMA TipIsNat ==
    ASSUME NEW n \in Nat \ {0}
    PROVE  CoinToCashTip(n) \in Nat
BY DEF CoinToCashTip

(* Each operation gains no more than it grants.                             *)
LEMMA CashToCoinUnminted ==
    ASSUME TypeOK, NEW p \in Players, NEW id \in Ids, NEW n \in Amounts,
           NEW exempt \in BOOLEAN, CashToCoin(p, id, n, exempt)
    PROVE  Unminted
<1> DEFINE got == n * Coin - CashToCoinFee(n, exempt)
           coin == balance[p].coin + got
           cash == balance[p].cash - n * Coin
<1>1. n \in Nat \ {0} /\ balance[p].coin \in Nat /\ balance[p].cash \in Nat
  BY AmountsAssumption DEF TypeOK, Purses
<1>2. CashToCoinFee(n, exempt) \in 0..(n * Coin)
  BY <1>1, CashToCoinFeeBounds
<1>3. got \in Nat /\ got <= n * Coin
  BY <1>1, <1>2 DEF Coin
<1>4. /\ balance[p].cash >= n * Coin
      /\ Settle(p, coin, cash, got, -n * Coin)
      /\ granted' = granted
  BY DEF CashToCoin, Transfer
<1> HIDE DEF got
<1>5. coin \in Nat /\ cash \in Nat
  BY <1>1, <1>3, <1>4 DEF Coin
<1>6. GainsAtMost(balance[p], [coin |-> coin, cash |-> cash], 0)
  BY <1>1, <1>3 DEF GainsAtMost, Total, Coin
<1>7. Grants(0)
  BY <1>4 DEF Grants, TypeOK
<1> HIDE DEF coin, cash
<1> QED
  BY <1>4, <1>5, <1>6, <1>7, SettleUnminted

LEMMA CoinToCashUnminted ==
    ASSUME TypeOK, NEW p \in Players, NEW id \in Ids, NEW n \in Amounts, CoinToCash(p, id, n)
    PROVE  Unminted
<1> DEFINE got == (n - CoinToCashTip(n)) * Coin
           coin == balance[p].coin - n * Coin
           cash == balance[p].cash + got
<1>1. n \in Nat \ {0} /\ balance[p].coin \in Nat /\ balance[p].cash \in Nat
  BY AmountsAssumption DEF TypeOK, Purses
<1>2. CoinToCashTip(n) \in Nat
  BY <1>1, TipIsNat
<1>3. /\ got > 0 /\ balance[p].coin >= n * Coin
      /\ Settle(p, coin, cash, -n * Coin, got)
      /\ granted' = granted
  BY DEF CoinToCash, Transfer
<1>4. got \in Nat /\ got <= n * Coin
  BY <1>1, <1>2, <1>3 DEF Coin
<1> HIDE DEF got
<1>5. coin \in Nat /\ cash \in Nat
  BY <1>1, <1>3, <1>4 DEF Coin
<1>6. GainsAtMost(balance[p], [coin |-> coin, cash |-> cash], 0)
  BY <1>1, <1>4 DEF GainsAtMost, Total, Coin
<1>7. Grants(0)
  BY <1>3 DEF Grants, TypeOK
<1> HIDE DEF coin, cash
<1> QED
  BY <1>3, <1>5, <1>6, <1>7, SettleUnminted

LEMMA ApproveTransferUnminted ==
    ASSUME TypeOK, NEW r \in Requests, ApproveTransfer(r)
    PROVE  Unminted
<1> DEFINE p == PlayerOf[r]
           n == AmountOf[r] * Coin
           coin == Floor(balance[p].coin) + n
           cash == Floor(balance[p].cash) - n
<1>1. p \in Players /\ n \in Nat
  BY RequestsAssumption DEF Coin
<1>2. balance[p].coin \in Nat /\ balance[p].cash \in Nat
  BY <1>1 DEF TypeOK, Purses
<1>3. /\ Floor(balance[p].cash) >= n
      /\ Settle(p, coin, cash, n, -n)
      /\ granted' = granted
  BY DEF ApproveTransfer
<1> HIDE DEF p, n
<1>4. /\ Floor(balance[p].coin) \in Nat /\ Floor(balance[p].coin) <= balance[p].coin
      /\ Floor(balance[p].cash) \in Nat /\ Floor(balance[p].cash) <= balance[p].cash
  BY <1>2, FloorBounds
<1>5. coin \in Nat /\ cash \in Nat
  BY <1>1, <1>3, <1>4
<1>6. GainsAtMost(balance[p], [coin |-> coin, cash |-> cash], 0)
  BY <1>1, <1>2, <1>4 DEF GainsAtMost, Total
<1>7. Grants(0)
  BY <1>3 DEF Grants, TypeOK
<1> HIDE DEF coin, cash
<1> QED
  BY <1>1, <1>3, <1>5, <1>6, <1>7, SettleUnminted

LEMMA ClaimFreeplayUnminted ==
    ASSUME TypeOK, NEW g \in Gifts, NEW n \in GiftAmounts, ClaimFreeplay(g, n)
    PROVE  Unminted
<1> DEFINE p == GiftTo[g]
           coin == Floor(balance[p].coin) + n * Coin
           cash == balance[p].cash
<1>1. p \in Players /\ n \in Nat
  BY PeopleAssumption DEF GiftAmounts
<1>2. balance[p].coin \in Nat /\ balance[p].cash \in Nat
  BY <1>1 DEF TypeOK, Purses
<1>3. Settle(p, coin, cash, n * Coin, 0) /\ Grants(n * Coin)
  BY DEF ClaimFreeplay, Grants
<1> HIDE DEF p
<1>4. Floor(balance[p].coin) \in Nat /\ Floor(balance[p].coin) <= balance[p].coin
  BY <1>2, FloorBounds
<1>5. coin \in Nat /\ cash \in Nat /\ n * Coin \in Int
  BY <1>1, <1>2, <1>4 DEF Coin
<1>6. GainsAtMost(balance[p], [coin |-> coin, cash |-> cash], n * Coin)
  BY <1>1, <1>2, <1>4 DEF GainsAtMost, Total, Coin
<1> HIDE DEF coin, cash
<1> QED
  BY <1>1, <1>3, <1>5, <1>6, SettleUnminted

LEMMA AdjustUnminted ==
    ASSUME TypeOK, NEW p \in Players, NEW purse \in {"coin", "cash"},
           NEW delta \in Adjustments, NEW id \in Ids, Adjust(p, purse, delta, id)
    PROVE  Unminted
<1> DEFINE next == Floor(balance[p][purse]) + delta * Coin
           b == [balance[p] EXCEPT ![purse] = next]
<1>1. /\ balance[p] \in Purses /\ delta \in Int /\ delta * Coin \in Int
      /\ balance[p].coin \in Nat /\ balance[p].cash \in Nat
  BY AmountsAssumption DEF TypeOK, Purses, Coin
<1>2. balance[p][purse] \in Nat
  BY <1>1
<1>3. Floor(balance[p][purse]) \in Nat /\ Floor(balance[p][purse]) <= balance[p][purse]
  BY <1>2, FloorBounds
<1>4. /\ next >= 0
      /\ balance' = [balance EXCEPT ![p] = b]
      /\ Grants(delta * Coin)
  BY DEF Adjust, Grants, TypeOK
<1>5. next \in Nat /\ next <= balance[p][purse] + delta * Coin
  BY <1>1, <1>2, <1>3, <1>4
<1> HIDE DEF next
<1>6. b \in Purses /\ GainsAtMost(balance[p], b, delta * Coin)
  <2>1. CASE purse = "coin"
    <3>1. b \in Purses /\ b.coin = next /\ b.cash = balance[p].cash
      BY <1>1, <1>5, <2>1 DEF Purses
    <3> HIDE DEF b
    <3> QED
      BY <1>1, <1>5, <2>1, <3>1 DEF GainsAtMost, Total
  <2>2. CASE purse = "cash"
    <3>1. b \in Purses /\ b.cash = next /\ b.coin = balance[p].coin
      BY <1>1, <1>5, <2>2 DEF Purses
    <3> HIDE DEF b
    <3> QED
      BY <1>1, <1>5, <2>2, <3>1 DEF GainsAtMost, Total
  <2> QED
    BY <2>1, <2>2
<1> HIDE DEF b
<1> QED
  BY <1>1, <1>4, <1>6, RowUnminted

LEMMA ClaimReferralUnminted ==
    ASSUME TypeOK, NEW q \in Players, ClaimReferral(q)
    PROVE  Unminted
<1> DEFINE p == ReferrerOf[q]
           n == ReferralReward * Coin
           b == [balance[p] EXCEPT !.coin = @ + n, !.promo = @ + n]
<1>1. p \in Players /\ n \in Nat
  BY PeopleAssumption DEF ClaimReferral, ReferralReward, Coin
<1>2. /\ balance[p] \in Purses
      /\ balance[p].coin \in Nat /\ balance[p].cash \in Nat /\ balance[p].promo \in Nat
  BY <1>1 DEF TypeOK, Purses
<1>3. CASE q \in referral
  <2>1. balance' = balance /\ granted' = granted
    BY <1>3 DEF ClaimReferral
  <2>2. Held(balance) \in Int /\ granted \in Int
    BY HeldType DEF TypeOK
  <2> QED
    BY <2>1, <2>2 DEF Unminted
<1>4. CASE q \notin referral
  <2>1. balance' = [balance EXCEPT ![p].coin = @ + n, ![p].promo = @ + n] /\ Grants(n)
    BY <1>4 DEF ClaimReferral, Grants
  <2> HIDE DEF p, n
  <2>2. balance' = [balance EXCEPT ![p] = b]
    BY <1>1, <1>2, <2>1 DEF TypeOK
  <2>3. b \in Purses /\ b.coin = balance[p].coin + n /\ b.cash = balance[p].cash
    <3> DEFINE u == balance[p].coin + n
               v == balance[p].promo + n
    <3>1. b = [balance[p] EXCEPT !.coin = u, !.promo = v]
      BY <1>2 DEF Purses
    <3>2. u \in Nat /\ v \in Nat
      BY <1>1, <1>2
    <3> HIDE DEF u, v, b
    <3>3. b \in Purses /\ b.coin = u /\ b.cash = balance[p].cash
      BY <1>2, <3>1, <3>2 DEF Purses
    <3> QED
      BY <3>3 DEF u
  <2> HIDE DEF b
  <2>4. GainsAtMost(balance[p], b, n)
    BY <1>1, <1>2, <2>3 DEF GainsAtMost, Total
  <2>5. n \in Int
    BY <1>1
  <2> QED
    BY <1>1, <2>1, <2>2, <2>3, <2>4, <2>5, RowUnminted
<1> QED
  BY <1>3, <1>4

LEMMA RewardCoinsUnminted ==
    ASSUME TypeOK, NEW p \in Players, NEW q \in Players, NEW id \in Ids, NEW n \in Amounts,
           RewardCoins(p, q, id, n)
    PROVE  Unminted
<1> DEFINE got == (n - RewardFee(n)) * Coin
           u == Floor(balance[p].coin) - n * Coin
           v == Floor(balance[q].coin) + got
           bp == [balance[p] EXCEPT !.coin = u]
           bq == [balance[q] EXCEPT !.coin = v]
           left == [balance EXCEPT ![p] = bp]
<1>1. /\ balance \in [Players -> Purses] /\ granted \in Int /\ n \in Nat \ {0} /\ p # q
      /\ balance[p].coin \in Nat /\ balance[p].cash \in Nat
      /\ balance[q].coin \in Nat /\ balance[q].cash \in Nat
  BY AmountsAssumption DEF TypeOK, RewardCoins, Purses
<1>2. RewardFee(n) \in 0..(n - 1)
  BY <1>1, RewardFeeBounds
<1>3. got \in Nat /\ got <= n * Coin
  BY <1>1, <1>2 DEF Coin
<1>4. /\ Floor(balance[p].coin) >= n * Coin
      /\ balance' = [[balance EXCEPT ![p].coin = u] EXCEPT ![q].coin = v]
      /\ granted' = granted
  BY <1>1 DEF RewardCoins, MoveCoins, TypeOK
<1>5. /\ Floor(balance[p].coin) \in Nat /\ Floor(balance[p].coin) <= balance[p].coin
      /\ Floor(balance[q].coin) \in Nat /\ Floor(balance[q].coin) <= balance[q].coin
  BY <1>1, FloorBounds
<1> HIDE DEF got
<1>6. u \in Nat /\ v \in Nat
      /\ u <= balance[p].coin - n * Coin /\ v <= balance[q].coin + n * Coin
  BY <1>1, <1>3, <1>4, <1>5 DEF Coin
<1> HIDE DEF u, v
<1>7. /\ bp \in Purses /\ bp.coin = u /\ bp.cash = balance[p].cash
      /\ bq \in Purses /\ bq.coin = v /\ bq.cash = balance[q].cash
  BY <1>1, <1>6 DEF Purses
<1>8. left \in [Players -> Purses] /\ left[q] = balance[q]
  BY <1>1, <1>7
<1>9. balance' = [left EXCEPT ![q] = bq]
  BY <1>1, <1>4
<1> HIDE DEF bp, bq
<1>10. /\ Held(balance) \in Int
       /\ Held(left) = Held(balance) + Total(bp) - Total(balance[p])
  BY <1>1, <1>7, HeldChange
<1> HIDE DEF left
<1>11. Held(balance') = Held(left) + Total(bq) - Total(balance[q])
  BY <1>7, <1>8, <1>9, HeldChange
<1>12. /\ Total(bp) <= Total(balance[p]) - n * Coin
       /\ Total(bq) <= Total(balance[q]) + n * Coin
       /\ n * Coin \in Int
  BY <1>1, <1>6, <1>7 DEF Total, Coin
<1>13. /\ Total(bp) \in Int /\ Total(bq) \in Int
       /\ Total(balance[p]) \in Int /\ Total(balance[q]) \in Int
  BY <1>1, <1>7, TotalType
<1> QED
  BY <1>1, <1>4, <1>10, <1>11, <1>12, <1>13 DEF Unminted

LEMMA StepUnminted ==
    ASSUME TypeOK, [Next]_vars
    PROVE  Unminted
<1>1. CASE \E p \in Players, id \in Ids, n \in Amounts, exempt \in BOOLEAN :
               CashToCoin(p, id, n, exempt)
  BY <1>1, CashToCoinUnminted
<1>2. CASE \E p \in Players, id \in Ids, n \in Amounts : CoinToCash(p, id, n)
  BY <1>2, CoinToCashUnminted
<1>3. CASE \E p, q \in Players, id \in Ids, n \in Amounts : RewardCoins(p, q, id, n)
  BY <1>3, RewardCoinsUnminted
<1>4. CASE \E p \in Players, id \in Ids, purse \in {"coin", "cash"}, delta \in Adjustments :
               Adjust(p, purse, delta, id)
  BY <1>4, AdjustUnminted
<1>5. CASE \E r \in Requests : ApproveTransfer(r)
  BY <1>5, ApproveTransferUnminted
<1>6. CASE \E g \in Gifts, n \in GiftAmounts : ClaimFreeplay(g, n)
  BY <1>6, ClaimFreeplayUnminted
<1>7. CASE \E q \in Players : ClaimReferral(q)
  BY <1>7, ClaimReferralUnminted
<1>8. CASE Tick \/ UNCHANGED vars
  <2>1. balance' = balance /\ granted' = granted
    BY <1>8 DEF Tick, vars
  <2>2. Held(balance) \in Int /\ granted \in Int
    BY HeldType DEF TypeOK
  <2> QED
    BY <2>1, <2>2 DEF Unminted
<1> QED
  BY <1>1, <1>2, <1>3, <1>4, <1>5, <1>6, <1>7, <1>8 DEF Next

(* Whatever transfers, approvals, rewards between players, corrections,     *)
(* gifts and referrals come in whatever order, the players together hold no *)
(* more than they began with and were granted.                              *)
THEOREM NothingIsMinted == Spec => []NoMoneyMinted
<1>1. Init => NoMoneyMinted
  <2> SUFFICES ASSUME Init PROVE NoMoneyMinted
    OBVIOUS
  <2>1. Held(InitialBalance) \in Int
    BY BalancesAssumption, HeldType DEF Purses
  <2> QED
    BY <2>1 DEF Init, NoMoneyMinted
<1>2. TypeOK /\ TypeOK' /\ NoMoneyMinted /\ [Next]_vars => NoMoneyMinted'
  <2> SUFFICES ASSUME TypeOK, TypeOK', NoMoneyMinted, [Next]_vars
               PROVE  NoMoneyMinted'
    OBVIOUS
  <2>1. Held(InitialBalance) \in Int
    BY BalancesAssumption, HeldType DEF Purses
  <2>2. Held(balance) \in Int /\ granted \in Int
    BY HeldType DEF TypeOK
  <2>3. Held(balance') \in Int /\ granted' \in Int
    BY HeldType DEF TypeOK
  <2>4. Unminted
    BY StepUnminted
  <2>5. Held(balance') <= Held(InitialBalance) + granted'
    BY <2>1, <2>2, <2>3, <2>4 DEF Unminted, NoMoneyMinted
  <2> QED
    BY <2>5 DEF NoMoneyMinted, Held
<1> QED
  BY <1>1, <1>2, TypeCorrect, PTL DEF Spec
-----------------------------------------------------------------------------
(* The daily limit *)

LEMMA AmountIsInt ==
    ASSUME NEW x \in Transfers
    PROVE  x.amount \in Int
<1>1. x.amount \in Nat
  BY AmountsAssumption DEF Transfers
<1> QED
  BY <1>1

(* A part of a set of transfers adds up to no more than the set.            *)
LEMMA SpentOfPart ==
    ASSUME NEW ts \in SUBSET Transfers, IsFiniteSet(ts), NEW part \in SUBSET ts
    PROVE  Spent(part) \in Int /\ Spent(part) <= Spent(ts)
<1> DEFINE v == [t \in ts |-> t.amount]
           w == [t \in part |-> t.amount]
<1>1. \A t \in ts : v[t] \in Nat
  BY AmountsAssumption DEF Transfers
<1>2. \A t \in part : v[t] = w[t]
  OBVIOUS
<1>3. IsFiniteSet(part)
  BY FS_Subset
<1>4. Spent(ts) = SumFunctionOnSet(v, ts) /\ Spent(part) = SumFunctionOnSet(w, part)
  BY DEF Spent
<1> HIDE DEF v, w
<1>5. SumFunctionOnSet(v, part) = SumFunctionOnSet(w, part)
  BY <1>2, <1>3, SumSame
<1>6. SumFunctionOnSet(v, part) <= SumFunctionOnSet(v, ts)
  BY <1>1, SumOfPart
<1>7. SumFunctionOnSet(v, part) \in Int
  BY <1>1, <1>3, SumInt
<1> QED
  BY <1>4, <1>5, <1>6, <1>7

LEMMA SpentWith ==
    ASSUME NEW ts \in SUBSET Transfers, IsFiniteSet(ts), NEW x \in Transfers, x \notin ts
    PROVE  Spent(ts \cup {x}) = Spent(ts) + x.amount
<1> DEFINE v == [t \in ts |-> t.amount]
           w == [t \in ts \cup {x} |-> t.amount]
<1>1. \A t \in ts \cup {x} : w[t] \in Int
  BY AmountIsInt
<1>2. \A t \in ts : v[t] = w[t]
  OBVIOUS
<1>3. w[x] = x.amount
  OBVIOUS
<1>4. Spent(ts) = SumFunctionOnSet(v, ts) /\ Spent(ts \cup {x}) = SumFunctionOnSet(w, ts \cup {x})
  BY DEF Spent
<1> HIDE DEF v, w
<1>5. SumFunctionOnSet(w, ts \cup {x}) = SumFunctionOnSet(w, ts) + w[x]
  BY <1>1, SumWith
<1>6. SumFunctionOnSet(v, ts) = SumFunctionOnSet(w, ts)
  BY <1>2, SumSame
<1> QED
  BY <1>3, <1>4, <1>5, <1>6

(* The transfers a limit of one day looks at, for a day that begins at any  *)
(* time.                                                                    *)
Counted(ts, p, from) ==
    {t \in ts : /\ t.player = p /\ t.way = "cash_to_coin" /\ ~t.exempt
                /\ t.at \in from..(from + Day - 1)}

(* A transfer is not dated ahead, so that a day that has begun before now   *)
(* and is not over holds nothing the check of the limit does not see.       *)
LimitInv ==
    /\ IsFiniteSet(transfers)
    /\ \A t \in transfers : t.at <= now
    /\ \A p \in Players, from \in 0..MaxTime :
           Spent(Counted(transfers, p, from)) <= DailyLimit

WithinDay(p, n) == Spent(TransfersOf(p, "cash_to_coin") \cap Since(Day)) + n <= DailyLimit

(* A new transfer fits into every day it falls in.                          *)
LEMMA NewFits ==
    ASSUME TypeOK, LimitInv, NEW p \in Players, NEW x \in Transfers, x \notin transfers,
           x.at = now, x.player = p, WithinDay(p, x.amount), NEW from \in 0..MaxTime,
           x.at \in from..(from + Day - 1)
    PROVE  Spent(Counted(transfers, p, from) \cup {x}) <= DailyLimit
<1> DEFINE seen == TransfersOf(p, "cash_to_coin") \cap Since(Day)
           old == Counted(transfers, p, from)
<1>1. old \subseteq seen
  <2> SUFFICES ASSUME NEW t \in old PROVE t \in seen
    OBVIOUS
  <2>1. /\ t \in transfers /\ t.player = p /\ t.way = "cash_to_coin"
        /\ t.at \in from..(from + Day - 1)
    BY DEF Counted
  <2>2. t.at \in Int /\ now \in Int /\ from \in Int /\ Day \in Int
    BY <2>1, TimesAssumption DEF TypeOK, Transfers
  <2>3. t.at > now - Day
    BY <2>1, <2>2
  <2> QED
    BY <2>1, <2>3 DEF TransfersOf, Since
<1>2. seen \in SUBSET transfers /\ old \in SUBSET transfers
  BY DEF TransfersOf, Counted
<1>3. transfers \in SUBSET Transfers /\ IsFiniteSet(transfers)
  BY DEF TypeOK, LimitInv
<1>4. Spent(seen) + x.amount <= DailyLimit
  BY DEF WithinDay
<1> HIDE DEF seen, old
<1>5. IsFiniteSet(seen) /\ IsFiniteSet(old)
  BY <1>2, <1>3, FS_Subset
<1>6. Spent(old) \in Int /\ Spent(old) <= Spent(seen)
  BY <1>1, <1>2, <1>3, <1>5, SpentOfPart
<1>7. Spent(seen) \in Int
  BY <1>2, <1>3, SpentOfPart
<1>8. Spent(old \cup {x}) = Spent(old) + x.amount
  BY <1>2, <1>3, <1>5, SpentWith
<1>9. x.amount \in Int /\ DailyLimit \in Int
  BY AmountIsInt, LimitAssumption
<1>10. Spent(old \cup {x}) <= DailyLimit
  BY <1>4, <1>6, <1>7, <1>8, <1>9
<1> QED
  BY <1>10 DEF old

LEMMA TransferKeepsLimit ==
    ASSUME TypeOK, LimitInv, NEW p \in Players, NEW way \in {"cash_to_coin", "coin_to_cash"},
           NEW id \in Ids, NEW n \in Amounts, NEW exempt \in BOOLEAN,
           Transfer(p, way, id, n, exempt),
           exempt \/ way # "cash_to_coin" \/ WithinDay(p, n)
    PROVE  LimitInv'
<1> DEFINE x == [player |-> p, way |-> way, id |-> id, amount |-> n, exempt |-> exempt,
                 at |-> now]
<1>1. /\ x \in Transfers /\ x.at = now /\ x.player = p /\ x.way = way
      /\ x.amount = n /\ x.exempt = exempt
  BY DEF TypeOK, Transfers
<1>2. transfers' = transfers \cup {x} /\ now' = now
  BY DEF Transfer
<1> HIDE DEF x
<1>3. now \in Int
  BY TimesAssumption DEF TypeOK
<1>4. IsFiniteSet(transfers')
  BY <1>2, FS_AddElement DEF LimitInv
<1>5. \A t \in transfers' : t.at <= now'
  BY <1>1, <1>2, <1>3 DEF LimitInv
<1>6. ASSUME NEW q \in Players, NEW from \in 0..MaxTime
      PROVE  Spent(Counted(transfers', q, from)) <= DailyLimit
  <2>1. Spent(Counted(transfers, q, from)) <= DailyLimit
    BY DEF LimitInv
  <2>2. CASE /\ x \notin transfers
             /\ q = p /\ way = "cash_to_coin" /\ ~exempt
             /\ x.at \in from..(from + Day - 1)
    <3>1. Counted(transfers', q, from) = Counted(transfers, q, from) \cup {x}
      BY <1>1, <1>2, <2>2 DEF Counted
    <3>2. WithinDay(p, x.amount)
      BY <1>1, <2>2
    <3> QED
      BY <1>1, <2>2, <3>1, <3>2, NewFits
  <2>3. CASE ~(/\ x \notin transfers
               /\ q = p /\ way = "cash_to_coin" /\ ~exempt
               /\ x.at \in from..(from + Day - 1))
    <3>1. Counted(transfers', q, from) = Counted(transfers, q, from)
      <4>1. CASE x \in transfers
        <5>1. transfers' = transfers
          BY <1>2, <4>1
        <5> QED
          BY <5>1
      <4>2. CASE ~(q = p /\ way = "cash_to_coin" /\ ~exempt /\ x.at \in from..(from + Day - 1))
        BY <1>1, <1>2, <4>2 DEF Counted
      <4> QED
        BY <2>3, <4>1, <4>2
    <3> QED
      BY <2>1, <3>1
  <2> QED
    BY <2>2, <2>3
<1> QED
  BY <1>4, <1>5, <1>6 DEF LimitInv

LEMMA StepKeepsLimit ==
    ASSUME TypeOK, LimitInv, [Next]_vars
    PROVE  LimitInv'
<1>1. ASSUME NEW p \in Players, NEW id \in Ids, NEW n \in Amounts, NEW exempt \in BOOLEAN,
             CashToCoin(p, id, n, exempt)
      PROVE  LimitInv'
  <2>1. exempt \/ WithinDay(p, n)
    BY <1>1 DEF CashToCoin, CashToCoinAllowed, WithinDay
  <2>2. Transfer(p, "cash_to_coin", id, n, exempt)
    BY <1>1 DEF CashToCoin
  <2> QED
    BY <2>1, <2>2, TransferKeepsLimit
<1>2. ASSUME NEW p \in Players, NEW id \in Ids, NEW n \in Amounts, CoinToCash(p, id, n)
      PROVE  LimitInv'
  <2>1. Transfer(p, "coin_to_cash", id, n, FALSE)
    BY <1>2 DEF CoinToCash
  <2> QED
    BY <2>1, TransferKeepsLimit
<1>3. CASE UNCHANGED <<transfers, now>>
  BY <1>3 DEF LimitInv
<1>4. CASE Tick
  <2>1. transfers' = transfers /\ now' = now + 1 /\ now \in Nat
    BY <1>4, TimesAssumption DEF Tick, TypeOK
  <2>2. \A t \in transfers : t.at \in Nat
    BY TimesAssumption DEF TypeOK, Transfers
  <2>3. \A t \in transfers' : t.at <= now'
    BY <2>1, <2>2 DEF LimitInv
  <2> QED
    BY <2>1, <2>3 DEF LimitInv
<1>5. \/ \E p \in Players, id \in Ids, n \in Amounts :
             \/ \E exempt \in BOOLEAN : CashToCoin(p, id, n, exempt)
             \/ CoinToCash(p, id, n)
      \/ UNCHANGED <<transfers, now>>
      \/ Tick
  BY DEF Next, RewardCoins, Adjust, ApproveTransfer, ClaimFreeplay, ClaimReferral, vars
<1> QED
  BY <1>1, <1>2, <1>3, <1>4, <1>5

(* What a player changes into coin within the limits does not add up to     *)
(* more than the daily limit over any day, whenever it begins, although     *)
(* each transfer only looks back from its own moment.                       *)
THEOREM DailyLimitIsKept == Spec => []DailyLimitKept
<1>1. Init => LimitInv
  <2> SUFFICES ASSUME Init PROVE LimitInv
    OBVIOUS
  <2>1. transfers = {}
    BY DEF Init
  <2>2. IsFiniteSet(transfers)
    BY <2>1, FS_EmptySet
  <2>3. ASSUME NEW p \in Players, NEW from \in 0..MaxTime
        PROVE  Spent(Counted(transfers, p, from)) <= DailyLimit
    <3>1. Counted(transfers, p, from) = {}
      BY <2>1 DEF Counted
    <3>2. Spent({}) = 0
      BY SumEmpty DEF Spent
    <3> QED
      BY <3>1, <3>2, LimitAssumption
  <2> QED
    BY <2>1, <2>2, <2>3 DEF LimitInv
<1>2. TypeOK /\ LimitInv /\ [Next]_vars => LimitInv'
  BY StepKeepsLimit
<1>3. LimitInv => DailyLimitKept
  <2>1. \A p \in Players, from \in 0..MaxTime :
            {t \in TransfersOf(p, "cash_to_coin") :
                ~t.exempt /\ t.at \in from..(from + Day - 1)} = Counted(transfers, p, from)
    BY DEF TransfersOf, Counted
  <2> QED
    BY <2>1 DEF LimitInv, DailyLimitKept
<1> QED
  BY <1>1, <1>2, <1>3, TypeCorrect, PTL DEF Spec
=============================================================================
