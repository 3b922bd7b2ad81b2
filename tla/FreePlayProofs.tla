--------------------------- MODULE FreePlayProofs ---------------------------
(* Proofs about FreePlay: whatever requests to give and to claim interleave *)
(* at their locks, gifts match markers, wallets have paid for what was      *)
(* given and for nothing else, and no claim overwrites other coins.         *)
EXTENDS FreePlay, FiniteSetTheorems, TLAPS

Pcs == {"idle", "key", "player", "marker", "wallet", "commit",
        "claim", "gift", "owner", "credit"}
Locals == [player : Players \cup {Nobody}, gift : Gifts \cup {NoGift},
           key : Keys \cup {NoKey}, seen : Nat]
GiftRows == [player : Players \cup {Nobody}, giver : Givers \cup {Nobody},
             key : Keys \cup {NoKey}, status : {"none", "pending", "claimed"}]
Markers == [gift : Gifts \cup {NoGift}, status : {"none", "pending", "claimed"}]

(* Types of what every step of a request changes, and of the rows.          *)
ControlTyped ==
    /\ lock \in [Rows -> Requests \cup {Nobody}]
    /\ pc \in [Requests -> Pcs]
    /\ local \in [Requests -> Locals]
RowsTyped ==
    /\ coin \in [Players -> Nat] /\ told \in [Players -> Nat]
    /\ wallet \in [Wallets -> Nat]
    /\ gift \in [Gifts -> GiftRows]
    /\ marker \in [Players -> Markers]
    /\ claimed \subseteq Keys \cup Gifts
    /\ other \in 0..MaxOther

LEMMA TypeParts == TypeOK <=> ControlTyped /\ RowsTyped
BY DEF TypeOK, ControlTyped, RowsTyped, Pcs, Locals, GiftRows, Markers

(* What a request that gives holds, and knows, at each of its locks.        *)
GiverInv(a) ==
    LET p == local[a].player IN
    /\ pc[a] \in {"idle", "key", "player", "marker", "wallet", "commit"}
    /\ pc[a] # "idle" => p \in Players
    /\ pc[a] \in {"marker", "wallet", "commit"} => lock[<<"player", p>>] = a
    /\ pc[a] \in {"wallet", "commit"} => marker[p].status # "pending"
    /\ pc[a] = "wallet" => a \in Staff
    /\ pc[a] = "commit" /\ a \in Staff =>
           /\ lock[<<"wallet", WalletOf[a]>>] = a
           /\ local[a].seen = wallet[WalletOf[a]] /\ local[a].seen >= StaffCost

(* And one that claims.                                                     *)
TabInv(t) ==
    LET p == local[t].player
        g == local[t].gift IN
    /\ pc[t] \in {"idle", "claim", "gift", "owner", "credit"}
    /\ pc[t] # "idle" => p \in Players /\ g \in Gifts
    /\ pc[t] \in {"gift", "owner", "credit"} =>
           /\ lock[<<"marker", p>>] = t
           /\ marker[p] = [gift |-> g, status |-> "pending"]
    /\ pc[t] = "credit" => lock[<<"player", p>>] = t /\ local[t].seen = coin[p]

RequestInv == (\A a \in Givers : GiverInv(a)) /\ \A t \in Tabs : TabInv(t)

LEMMA RowsOf ==
    /\ \A p \in Players : <<"player", p>> \in Rows /\ <<"marker", p>> \in Rows
    /\ \A w \in Wallets : <<"wallet", w>> \in Rows
BY DEF Rows

LEMMA NobodyAsks == Nobody \notin Requests
BY FreePlayAssumption DEF Requests

(* A step of one request leaves the others where they are, with their locks.*)
Frame(x) ==
    \A y \in Requests \ {x} :
        /\ pc'[y] = pc[y] /\ local'[y] = local[y]
        /\ \A row \in Rows : lock[row] = y => lock'[row] = y

LEMMA LockTypes ==
    ASSUME ControlTyped, NEW x \in Requests, NEW row, NEW next \in Pcs, Lock(x, row, next)
    PROVE  lock' \in [Rows -> Requests \cup {Nobody}] /\ pc' \in [Requests -> Pcs]
BY DEF ControlTyped, Lock, Goto

LEMMA LockFrame ==
    ASSUME ControlTyped, NEW x \in Requests, NEW row, NEW next, Lock(x, row, next),
           \A y \in Requests \ {x} : local'[y] = local[y]
    PROVE  Frame(x)
BY NobodyAsks DEF ControlTyped, Lock, Goto, Frame

LEMMA EndTypes ==
    ASSUME ControlTyped, NEW x \in Requests, End(x)
    PROVE  ControlTyped' /\ Frame(x) /\ pc'[x] = "idle"
<1>1. NoLocal \in Locals
  BY DEF NoLocal, Locals
<1>2. ControlTyped'
  BY <1>1 DEF ControlTyped, End, Pcs
<1>3. Frame(x)
  BY DEF ControlTyped, End, Frame
<1> QED
  BY <1>2, <1>3 DEF ControlTyped, End

(* A request that has ended holds nothing and knows nothing.                *)
LEMMA IdleInv ==
    ASSUME NEW x, pc'[x] = "idle"
    PROVE  GiverInv(x)' /\ TabInv(x)'
BY DEF GiverInv, TabInv

LEMMA GiverStays ==
    ASSUME NEW a \in Givers, GiverInv(a), pc'[a] = pc[a], local'[a] = local[a],
           \A row \in Rows : lock[row] = a => lock'[row] = a,
           pc[a] \in {"wallet", "commit"} => marker'[local[a].player].status # "pending",
           a \in Staff /\ pc[a] = "commit" => wallet'[WalletOf[a]] = wallet[WalletOf[a]]
    PROVE  GiverInv(a)'
BY RowsOf, FreePlayAssumption DEF GiverInv

LEMMA TabStays ==
    ASSUME NEW t \in Tabs, TabInv(t), pc'[t] = pc[t], local'[t] = local[t],
           \A row \in Rows : lock[row] = t => lock'[row] = t,
           pc[t] \in {"gift", "owner", "credit"} =>
               marker'[local[t].player] = marker[local[t].player],
           pc[t] = "credit" => coin'[local[t].player] = coin[local[t].player]
    PROVE  TabInv(t)'
BY RowsOf DEF TabInv

(* A step that only locks or ends, of which the request itself is no worse. *)
LEMMA QuietStep ==
    ASSUME RequestInv, NEW x \in Requests, Frame(x), UNCHANGED tables,
           x \in Givers => GiverInv(x)', x \in Tabs => TabInv(x)'
    PROVE  RequestInv'
<1>1. ASSUME NEW a \in Givers, a # x PROVE GiverInv(a)'
  <2>1. GiverInv(a) /\ a \in Requests \ {x}
    BY <1>1 DEF RequestInv, Requests
  <2>2. pc[a] \in {"wallet", "commit"} => marker'[local[a].player].status # "pending"
    BY <2>1 DEF GiverInv, tables
  <2> QED
    BY <2>1, <2>2, GiverStays DEF Frame, tables
<1>2. ASSUME NEW t \in Tabs, t # x PROVE TabInv(t)'
  <2>1. TabInv(t) /\ t \in Requests \ {x}
    BY <1>2 DEF RequestInv, Requests
  <2> QED
    BY <2>1, TabStays DEF Frame, tables
<1> QED
  BY <1>1, <1>2 DEF RequestInv

LEMMA EndsQuietly ==
    ASSUME ControlTyped, RequestInv, NEW x \in Requests, End(x), UNCHANGED tables
    PROVE  ControlTyped' /\ RequestInv'
BY EndTypes, IdleInv, QuietStep

(* After a lock the request has the row, and is at the next one.            *)
LEMMA LockValues ==
    ASSUME ControlTyped, NEW x \in Requests, NEW row \in Rows, NEW next, Lock(x, row, next)
    PROVE  /\ pc'[x] = next /\ lock'[row] = x
           /\ \A r \in Rows : lock[r] = x => lock'[r] = x
BY DEF ControlTyped, Lock, Goto

LEMMA Disjoint ==
    /\ \A a \in Givers : a \in Requests /\ a \notin Tabs
    /\ \A t \in Tabs : t \in Requests /\ t \notin Givers
BY FreePlayAssumption DEF Requests
-----------------------------------------------------------------------------
(* Giving *)

LEMMA SelectPlayerStep ==
    ASSUME ControlTyped, RequestInv, NEW a \in Givers, NEW p \in Players,
           NEW k \in Keys \cup {NoKey}, SelectPlayer(a, p, k)
    PROVE  ControlTyped' /\ RequestInv'
<1>1. a \in Requests /\ a \notin Tabs
  BY Disjoint
<1> DEFINE row == [NoLocal EXCEPT !.player = p, !.key = k]
           next == IF k = NoKey THEN "player" ELSE "key"
<1>2. row \in Locals /\ row.player = p
  BY DEF NoLocal, Locals
<1>3. /\ local' = [local EXCEPT ![a] = row] /\ pc' = [pc EXCEPT ![a] = next]
      /\ UNCHANGED tables /\ UNCHANGED lock
  BY DEF SelectPlayer, Goto
<1>4. next \in {"player", "key"}
  OBVIOUS
<1> HIDE DEF row, next
<1>5. ControlTyped'
  BY <1>1, <1>2, <1>3, <1>4 DEF ControlTyped, Pcs
<1>6. Frame(a) /\ pc'[a] = next /\ local'[a] = row
  BY <1>1, <1>3 DEF Frame, ControlTyped
<1>7. GiverInv(a)'
  BY <1>2, <1>4, <1>6 DEF GiverInv
<1> QED
  BY <1>1, <1>3, <1>5, <1>6, <1>7, QuietStep

LEMMA GiveKeyStep ==
    ASSUME ControlTyped, RequestInv, NEW a \in Givers, GiveKey(a)
    PROVE  ControlTyped' /\ RequestInv'
<1>1. a \in Requests /\ a \notin Tabs /\ GiverInv(a) /\ UNCHANGED tables
  BY Disjoint DEF RequestInv, GiveKey
<1>2. CASE local[a].key \in claimed
  BY <1>1, <1>2, EndsQuietly DEF GiveKey
<1>3. CASE local[a].key \notin claimed
  <2>1. Lock(a, <<"key", local[a].key>>, "player") /\ UNCHANGED local /\ pc[a] = "key"
    BY <1>3 DEF GiveKey
  <2>2. ControlTyped' /\ Frame(a)
    BY <1>1, <2>1, LockTypes, LockFrame DEF ControlTyped, Pcs
  <2>3. pc'[a] = "player"
    BY <1>1, <2>1 DEF Lock, Goto, ControlTyped
  <2>4. GiverInv(a)'
    BY <1>1, <2>1, <2>3 DEF GiverInv
  <2> QED
    BY <1>1, <2>2, <2>4, QuietStep
<1> QED
  BY <1>2, <1>3

LEMMA GivePlayerStep ==
    ASSUME ControlTyped, RequestInv, NEW a \in Givers, GivePlayer(a)
    PROVE  ControlTyped' /\ RequestInv'
<1> DEFINE p == local[a].player
<1>1. a \in Requests /\ a \notin Tabs /\ GiverInv(a) /\ UNCHANGED tables
  BY Disjoint DEF RequestInv, GivePlayer
<1>2. Lock(a, <<"player", p>>, "marker") /\ UNCHANGED local /\ pc[a] = "player"
  BY DEF GivePlayer
<1>3. p \in Players
  BY <1>1, <1>2 DEF GiverInv
<1>4. ControlTyped' /\ Frame(a)
  BY <1>1, <1>2, LockTypes, LockFrame DEF ControlTyped, Pcs
<1>5. pc'[a] = "marker" /\ lock'[<<"player", p>>] = a
  <2>1. <<"player", p>> \in Rows
    BY <1>3, RowsOf
  <2> QED
    BY <1>1, <1>2, <2>1, LockValues
<1>6. GiverInv(a)'
  BY <1>2, <1>3, <1>5 DEF GiverInv
<1> QED
  BY <1>1, <1>4, <1>6, QuietStep

LEMMA GiveMarkerStep ==
    ASSUME ControlTyped, RequestInv, NEW a \in Givers, GiveMarker(a)
    PROVE  ControlTyped' /\ RequestInv'
<1> DEFINE p == local[a].player
           next == IF a \in Staff THEN "wallet" ELSE "commit"
<1>1. a \in Requests /\ a \notin Tabs /\ GiverInv(a) /\ UNCHANGED tables
      /\ pc[a] = "marker"
  BY Disjoint DEF RequestInv, GiveMarker
<1>2. p \in Players /\ lock[<<"player", p>>] = a
  BY <1>1 DEF GiverInv
<1>3. next \in {"wallet", "commit"} /\ (next = "wallet" <=> a \in Staff)
  OBVIOUS
<1>4. CASE Pending(p) /\ End(a)
  BY <1>1, <1>4, EndsQuietly
<1>5. CASE marker[p].status = "none" /\ Goto(a, next) /\ UNCHANGED <<lock, local>>
  <2> HIDE DEF next
  <2>1. ControlTyped' /\ Frame(a) /\ pc'[a] = next
    BY <1>1, <1>3, <1>5 DEF ControlTyped, Frame, Goto, Pcs
  <2>2. GiverInv(a)'
    BY <1>1, <1>2, <1>3, <1>5, <2>1 DEF GiverInv, tables
  <2> QED
    BY <1>1, <2>1, <2>2, QuietStep
<1>6. CASE marker[p].status = "claimed" /\ Lock(a, <<"marker", p>>, next) /\ UNCHANGED local
  <2> HIDE DEF next
  <2>1. ControlTyped' /\ Frame(a)
    BY <1>1, <1>3, <1>6, LockTypes, LockFrame DEF ControlTyped, Pcs
  <2>2. pc'[a] = next /\ lock'[<<"player", p>>] = a
    BY <1>1, <1>2, <1>6, LockValues, RowsOf
  <2>3. GiverInv(a)'
    BY <1>1, <1>2, <1>3, <1>6, <2>2 DEF GiverInv, tables
  <2> QED
    BY <1>1, <2>1, <2>3, QuietStep
<1> QED
  BY <1>4, <1>5, <1>6 DEF GiveMarker

LEMMA GiveWalletStep ==
    ASSUME ControlTyped, RowsTyped, RequestInv, NEW a \in Givers, GiveWallet(a)
    PROVE  ControlTyped' /\ RequestInv'
<1> DEFINE p == local[a].player
           w == WalletOf[a]
<1>1. a \in Requests /\ a \notin Tabs /\ GiverInv(a) /\ UNCHANGED tables
      /\ pc[a] = "wallet"
  BY Disjoint DEF RequestInv, GiveWallet
<1>2. /\ p \in Players /\ lock[<<"player", p>>] = a /\ a \in Staff
      /\ marker[p].status # "pending"
  BY <1>1 DEF GiverInv
<1>3. w \in Wallets /\ wallet[w] \in Nat
  BY <1>2, FreePlayAssumption DEF RowsTyped
<1>4. CASE wallet[w] < StaffCost
  BY <1>1, <1>4, EndsQuietly DEF GiveWallet
<1>5. CASE ~(wallet[w] < StaffCost)
  <2>1. /\ Lock(a, <<"wallet", w>>, "commit")
        /\ local' = [local EXCEPT ![a].seen = wallet[w]]
    BY <1>5 DEF GiveWallet
  <2>2. local[a] \in Locals
    BY <1>1 DEF ControlTyped
  <2>3. /\ [local[a] EXCEPT !.seen = wallet[w]] \in Locals
        /\ [local[a] EXCEPT !.seen = wallet[w]].player = p
        /\ [local[a] EXCEPT !.seen = wallet[w]].seen = wallet[w]
    BY <1>3, <2>2 DEF Locals
  <2>4. local' = [local EXCEPT ![a] = [local[a] EXCEPT !.seen = wallet[w]]]
    BY <2>1
  <2> DEFINE row == [local[a] EXCEPT !.seen = wallet[w]]
  <2> HIDE DEF row
  <2>5. /\ row \in Locals /\ row.player = p /\ row.seen = wallet[w]
        /\ local' = [local EXCEPT ![a] = row]
    BY <2>3, <2>4 DEF row
  <2>6. lock' \in [Rows -> Requests \cup {Nobody}] /\ pc' \in [Requests -> Pcs]
    BY <1>1, <2>1, LockTypes DEF Pcs
  <2>7. ControlTyped' /\ local'[a] = row /\ \A y \in Requests \ {a} : local'[y] = local[y]
    BY <1>1, <2>5, <2>6 DEF ControlTyped
  <2>8. Frame(a)
    BY <1>1, <2>1, <2>7, LockFrame
  <2>9. /\ pc'[a] = "commit" /\ lock'[<<"player", p>>] = a
        /\ lock'[<<"wallet", w>>] = a
    <3>1. <<"player", p>> \in Rows /\ <<"wallet", w>> \in Rows
      BY <1>2, <1>3, RowsOf
    <3>2. /\ pc'[a] = "commit" /\ lock'[<<"wallet", w>>] = a
          /\ \A r \in Rows : lock[r] = a => lock'[r] = a
      BY <1>1, <2>1, <3>1, LockValues
    <3> QED
      BY <1>2, <3>1, <3>2
  <2>10. wallet[w] >= StaffCost
    BY <1>3, <1>5 DEF StaffCost
  <2>11. GiverInv(a)'
    BY <1>1, <1>2, <2>5, <2>7, <2>9, <2>10 DEF GiverInv, tables
  <2> QED
    BY <1>1, <2>7, <2>8, <2>11, QuietStep
<1> QED
  BY <1>4, <1>5

(* The marker of a player changes only in a commit under the player's lock. *)
LEMMA GiveCommitStep ==
    ASSUME ControlTyped, RowsTyped, RequestInv, NEW a \in Givers, GiveCommit(a)
    PROVE  ControlTyped' /\ RequestInv'
<1> DEFINE p == local[a].player
           new == [gift |-> Cardinality(Given) + 1, status |-> "pending"]
<1>1. a \in Requests /\ a \notin Tabs /\ GiverInv(a) /\ pc[a] = "commit"
  BY Disjoint DEF RequestInv, GiveCommit
<1>2. /\ p \in Players /\ lock[<<"player", p>>] = a /\ marker[p].status # "pending"
      /\ a \in Staff => lock[<<"wallet", WalletOf[a]>>] = a
  BY <1>1 DEF GiverInv
<1>3. ControlTyped' /\ Frame(a) /\ pc'[a] = "idle"
  BY <1>1, EndTypes DEF GiveCommit
<1>4. /\ marker' = [marker EXCEPT ![p] = new] /\ UNCHANGED coin
      /\ wallet' = IF a \in Staff
                   THEN [wallet EXCEPT ![WalletOf[a]] = local[a].seen - StaffCost]
                   ELSE wallet
  BY DEF GiveCommit
<1> HIDE DEF new
<1>5. ASSUME NEW b \in Givers, b # a PROVE GiverInv(b)'
  <2>1. GiverInv(b) /\ b \in Requests \ {a}
    BY <1>5, Disjoint DEF RequestInv
  <2>2. pc[b] \in {"wallet", "commit"} => marker'[local[b].player].status # "pending"
    BY <1>2, <1>4, <1>5, <2>1 DEF GiverInv, RowsTyped
  <2>3. b \in Staff /\ pc[b] = "commit" => wallet'[WalletOf[b]] = wallet[WalletOf[b]]
    BY <1>2, <1>4, <1>5, <2>1, FreePlayAssumption DEF GiverInv, RowsTyped
  <2> QED
    BY <1>3, <2>1, <2>2, <2>3, GiverStays DEF Frame
<1>6. ASSUME NEW t \in Tabs PROVE TabInv(t)'
  <2>1. TabInv(t) /\ t \in Requests \ {a}
    BY <1>1, Disjoint DEF RequestInv
  <2>2. pc[t] \in {"gift", "owner", "credit"} =>
            marker'[local[t].player] = marker[local[t].player]
    BY <1>2, <1>4, <2>1 DEF TabInv, RowsTyped
  <2> QED
    BY <1>3, <1>4, <2>1, <2>2, TabStays DEF Frame
<1> QED
  BY <1>3, <1>5, <1>6, IdleInv DEF RequestInv
-----------------------------------------------------------------------------
(* Claiming *)

LEMMA OpenGiftStep ==
    ASSUME ControlTyped, RequestInv, NEW t \in Tabs, NEW g \in Gifts, OpenGift(t, g)
    PROVE  ControlTyped' /\ RequestInv'
<1>1. t \in Requests /\ t \notin Givers /\ PlayerOf[t] \in Players
  BY Disjoint, FreePlayAssumption
<1> DEFINE row == [NoLocal EXCEPT !.player = PlayerOf[t], !.gift = g]
<1>2. row \in Locals /\ row.player = PlayerOf[t] /\ row.gift = g
  BY <1>1 DEF NoLocal, Locals
<1>3. /\ local' = [local EXCEPT ![t] = row] /\ pc' = [pc EXCEPT ![t] = "claim"]
      /\ UNCHANGED tables /\ UNCHANGED lock
  BY DEF OpenGift, Goto
<1> HIDE DEF row
<1>4. ControlTyped'
  BY <1>1, <1>2, <1>3 DEF ControlTyped, Pcs
<1>5. Frame(t) /\ pc'[t] = "claim" /\ local'[t] = row
  BY <1>1, <1>3 DEF Frame, ControlTyped
<1>6. TabInv(t)'
  BY <1>1, <1>2, <1>5 DEF TabInv
<1> QED
  BY <1>1, <1>3, <1>4, <1>5, <1>6, QuietStep

LEMMA ClaimMarkerStep ==
    ASSUME ControlTyped, RequestInv, NEW t \in Tabs, ClaimMarker(t)
    PROVE  ControlTyped' /\ RequestInv'
<1> DEFINE p == local[t].player
           named == marker[p] = [gift |-> local[t].gift, status |-> "pending"]
<1>1. t \in Requests /\ t \notin Givers /\ TabInv(t) /\ UNCHANGED tables /\ pc[t] = "claim"
  BY Disjoint DEF RequestInv, ClaimMarker
<1>2. p \in Players /\ local[t].gift \in Gifts /\ <<"marker", p>> \in Rows
  BY <1>1, RowsOf DEF TabInv
<1>3. CASE ~named
  BY <1>1, <1>3, EndsQuietly DEF ClaimMarker
<1>4. CASE named
  <2>1. Lock(t, <<"marker", p>>, "gift") /\ UNCHANGED local
    BY <1>4 DEF ClaimMarker
  <2>2. ControlTyped' /\ Frame(t)
    BY <1>1, <2>1, LockTypes, LockFrame DEF ControlTyped, Pcs
  <2>3. pc'[t] = "gift" /\ lock'[<<"marker", p>>] = t
    BY <1>1, <1>2, <2>1, LockValues
  <2>4. TabInv(t)'
    BY <1>1, <1>2, <1>4, <2>1, <2>3 DEF TabInv, tables
  <2> QED
    BY <1>1, <2>2, <2>4, QuietStep
<1> QED
  BY <1>3, <1>4

LEMMA ClaimGiftStep ==
    ASSUME ControlTyped, RequestInv, NEW t \in Tabs, ClaimGift(t)
    PROVE  ControlTyped' /\ RequestInv'
<1> DEFINE p == local[t].player
           g == local[t].gift
<1>1. t \in Requests /\ t \notin Givers /\ TabInv(t) /\ UNCHANGED tables /\ pc[t] = "gift"
  BY Disjoint DEF RequestInv, ClaimGift
<1>2. p \in Players /\ g \in Gifts /\ <<"marker", p>> \in Rows /\ <<"gift", g>> \in Rows
  BY <1>1, RowsOf DEF TabInv, Rows
<1>3. CASE ~(gift[g].player = p /\ gift[g].status = "pending")
  BY <1>1, <1>3, EndsQuietly DEF ClaimGift
<1>4. CASE gift[g].player = p /\ gift[g].status = "pending"
  <2>1. Lock(t, <<"gift", g>>, "owner") /\ UNCHANGED local
    BY <1>4 DEF ClaimGift
  <2>2. ControlTyped' /\ Frame(t)
    BY <1>1, <2>1, LockTypes, LockFrame DEF ControlTyped, Pcs
  <2>3. pc'[t] = "owner" /\ \A r \in Rows : lock[r] = t => lock'[r] = t
    BY <1>1, <1>2, <2>1, LockValues
  <2>4. TabInv(t)'
    BY <1>1, <1>2, <2>1, <2>3 DEF TabInv, tables
  <2> QED
    BY <1>1, <2>2, <2>4, QuietStep
<1> QED
  BY <1>3, <1>4

LEMMA ClaimPlayerStep ==
    ASSUME ControlTyped, RowsTyped, RequestInv, NEW t \in Tabs, ClaimPlayer(t)
    PROVE  ControlTyped' /\ RequestInv'
<1> DEFINE p == local[t].player
           row == [local[t] EXCEPT !.seen = coin[p]]
<1>1. t \in Requests /\ t \notin Givers /\ TabInv(t) /\ UNCHANGED tables /\ pc[t] = "owner"
  BY Disjoint DEF RequestInv, ClaimPlayer
<1>2. /\ p \in Players /\ local[t].gift \in Gifts
      /\ <<"marker", p>> \in Rows /\ <<"player", p>> \in Rows
  BY <1>1, RowsOf DEF TabInv
<1>3. coin[p] \in Nat /\ local[t] \in Locals
  BY <1>1, <1>2 DEF RowsTyped, ControlTyped
<1>4. /\ row \in Locals /\ row.player = p /\ row.gift = local[t].gift
      /\ row.seen = coin[p]
  BY <1>3 DEF Locals
<1>5. Lock(t, <<"player", p>>, "credit") /\ local' = [local EXCEPT ![t] = row]
  BY DEF ClaimPlayer
<1> HIDE DEF row
<1>6. lock' \in [Rows -> Requests \cup {Nobody}] /\ pc' \in [Requests -> Pcs]
  BY <1>1, <1>5, LockTypes DEF Pcs
<1>7. ControlTyped' /\ local'[t] = row /\ \A y \in Requests \ {t} : local'[y] = local[y]
  BY <1>1, <1>4, <1>5, <1>6 DEF ControlTyped
<1>8. Frame(t)
  BY <1>1, <1>5, <1>7, LockFrame
<1>9. /\ pc'[t] = "credit" /\ lock'[<<"player", p>>] = t
      /\ \A r \in Rows : lock[r] = t => lock'[r] = t
  BY <1>1, <1>2, <1>5, LockValues
<1>10. TabInv(t)'
  BY <1>1, <1>2, <1>4, <1>7, <1>9 DEF TabInv, tables
<1> QED
  BY <1>1, <1>7, <1>8, <1>10, QuietStep

(* Coins and marker change under the locks of both.                         *)
LEMMA ClaimCommitStep ==
    ASSUME ControlTyped, RowsTyped, RequestInv, NEW t \in Tabs, NEW n \in GiftAmounts,
           ClaimCommit(t, n)
    PROVE  ControlTyped' /\ RequestInv'
<1> DEFINE p == local[t].player
           g == local[t].gift
<1>1. t \in Requests /\ t \notin Givers /\ TabInv(t) /\ pc[t] = "credit" /\ End(t)
  BY Disjoint DEF RequestInv, ClaimCommit
<1>2. p \in Players /\ lock[<<"marker", p>>] = t /\ lock[<<"player", p>>] = t
  BY <1>1 DEF TabInv
<1>3. ControlTyped' /\ Frame(t) /\ pc'[t] = "idle"
  BY <1>1, EndTypes
<1>4. CASE g \in claimed
  BY <1>1, <1>4, EndsQuietly DEF ClaimCommit
<1>5. CASE g \notin claimed
  <2>1. /\ coin' = [coin EXCEPT ![p] = Coin * (Whole(local[t].seen) + n)]
        /\ marker' = [marker EXCEPT ![p].status = "claimed"]
        /\ UNCHANGED wallet
    BY <1>5 DEF ClaimCommit
  <2>2. marker'[p].status = "claimed"
        /\ \A q \in Players \ {p} : marker'[q] = marker[q] /\ coin'[q] = coin[q]
    <3>1. marker[p] \in Markers
      BY <1>2 DEF RowsTyped
    <3>2. [marker[p] EXCEPT !.status = "claimed"].status = "claimed"
      BY <3>1 DEF Markers
    <3> QED
      BY <1>2, <2>1, <3>2 DEF RowsTyped
  <2>3. ASSUME NEW b \in Givers PROVE GiverInv(b)'
    <3>1. GiverInv(b) /\ b \in Requests \ {t}
      BY <1>1, Disjoint DEF RequestInv
    <3>2. pc[b] \in {"wallet", "commit"} => marker'[local[b].player].status # "pending"
      BY <2>2, <3>1 DEF GiverInv
    <3> QED
      BY <1>3, <2>1, <3>1, <3>2, GiverStays DEF Frame
  <2>4. ASSUME NEW u \in Tabs, u # t PROVE TabInv(u)'
    <3>1. TabInv(u) /\ u \in Requests \ {t}
      BY <2>4, Disjoint DEF RequestInv
    <3>2. pc[u] \in {"gift", "owner", "credit"} => local[u].player \in Players \ {p}
      BY <1>2, <2>4, <3>1 DEF TabInv
    <3> QED
      BY <1>3, <2>2, <3>1, <3>2, TabStays DEF Frame
  <2> QED
    BY <1>3, <2>3, <2>4, IdleInv DEF RequestInv
<1> QED
  BY <1>4, <1>5

(* The player's row is not locked, so that no claim is about to write it.   *)
LEMMA OtherOperationStep ==
    ASSUME ControlTyped, RowsTyped, RequestInv, NEW p \in Players, NEW c \in OtherAmounts,
           OtherOperation(p, c)
    PROVE  ControlTyped' /\ RequestInv'
<1>1. ControlTyped'
  BY DEF OtherOperation, ControlTyped
<1>2. /\ UNCHANGED <<wallet, marker, lock, pc, local>> /\ lock[<<"player", p>>] = Nobody
      /\ coin' = [coin EXCEPT ![p] = coin[p] + c]
  BY DEF OtherOperation
<1>3. ASSUME NEW a \in Givers PROVE GiverInv(a)'
  BY <1>2 DEF GiverInv, RequestInv
<1>4. ASSUME NEW t \in Tabs PROVE TabInv(t)'
  <2>1. TabInv(t) /\ t # Nobody
    BY Disjoint, NobodyAsks DEF RequestInv
  <2>2. pc[t] = "credit" => local[t].player \in Players \ {p}
    BY <1>2, <2>1 DEF TabInv
  <2>3. pc[t] = "credit" => coin'[local[t].player] = coin[local[t].player]
    BY <1>2, <2>2 DEF RowsTyped
  <2> QED
    BY <1>2, <2>1, <2>3, TabStays
<1> QED
  BY <1>1, <1>3, <1>4 DEF RequestInv
-----------------------------------------------------------------------------
(* The rows *)

Busy == {b \in Givers : pc[b] # "idle"}

(* Gifts are numbered without a hole, and there is one left for each        *)
(* request that may yet give.                                               *)
GivenInv ==
    /\ \E n \in Nat : Given = 1..n
    /\ Cardinality(Given) + Cardinality(Busy) <= MaxGifts
BlankInv ==
    \A g \in Gifts : gift[g].status = "none" =>
        gift[g].player = Nobody /\ gift[g].giver = Nobody
RowsInv ==
    /\ RowsTyped /\ GivenInv /\ BlankInv
    /\ GiftsMatchMarkers /\ GiftsPaidFor

LEMMA FiniteGifts ==
    /\ IsFiniteSet(Gifts) /\ IsFiniteSet(Given) /\ Cardinality(Given) \in Nat
    /\ IsFiniteSet(Busy) /\ Cardinality(Busy) \in Nat
<1>1. IsFiniteSet(Gifts)
  BY FreePlayAssumption, FS_Interval DEF Gifts
<1>2. Given \in SUBSET Gifts /\ Busy \in SUBSET Givers
  BY DEF Given, Busy
<1>3. IsFiniteSet(Given) /\ IsFiniteSet(Busy)
  BY <1>1, <1>2, FS_Subset, FreePlayAssumption
<1> QED
  BY <1>1, <1>3, FS_CardinalityType

LEMMA FewerBusy ==
    ASSUME GivenInv, UNCHANGED gift, Busy' \subseteq Busy
    PROVE  GivenInv'
<1>1. Cardinality(Busy') <= Cardinality(Busy) /\ Cardinality(Busy') \in Nat
  BY FiniteGifts, FS_Subset, FS_CardinalityType
<1>2. Given' = Given
  BY DEF Given
<1>3. Cardinality(Given) + Cardinality(Busy') <= MaxGifts
  BY <1>1, FiniteGifts, FreePlayAssumption DEF GivenInv
<1> QED
  BY <1>2, <1>3 DEF GivenInv

LEMMA RowsStay ==
    ASSUME RowsInv, GivenInv', UNCHANGED tables, UNCHANGED other
    PROVE  RowsInv'
BY DEF RowsInv, RowsTyped, BlankInv, GiftsMatchMarkers, GiftsPaidFor, Pending, tables

(* A step of a request that has begun, or of a page.                        *)
LEMMA QuietRows ==
    ASSUME ControlTyped, RowsInv, NEW x \in Requests, NEW next,
           pc' = [pc EXCEPT ![x] = next], x \in Tabs \/ pc[x] # "idle",
           UNCHANGED tables, UNCHANGED other
    PROVE  RowsInv'
<1>1. ASSUME NEW b \in Busy' PROVE b \in Busy
  <2>1. b \in Givers /\ pc'[b] # "idle" /\ b \notin Tabs /\ b \in Requests
    BY Disjoint DEF Busy
  <2> QED
    BY <2>1 DEF Busy, ControlTyped
<1>2. GivenInv'
  BY <1>1, FewerBusy DEF RowsInv, tables
<1> QED
  BY <1>2, RowsStay

LEMMA SelectPlayerRows ==
    ASSUME ControlTyped, RowsInv, NEW a \in Givers, NEW p \in Players,
           NEW k \in Keys \cup {NoKey}, SelectPlayer(a, p, k)
    PROVE  RowsInv'
<1>1. /\ pc[a] = "idle" /\ UNCHANGED tables /\ UNCHANGED other
      /\ Cardinality(Given) + Cardinality(Busy) < MaxGifts
  BY DEF SelectPlayer, Busy
<1>2. pc' = [pc EXCEPT ![a] = IF k = NoKey THEN "player" ELSE "key"]
  BY DEF SelectPlayer, Goto
<1>3. Busy' = Busy \cup {a} /\ a \notin Busy
  BY <1>1, <1>2, Disjoint DEF Busy, ControlTyped
<1>4. Cardinality(Busy') = Cardinality(Busy) + 1
  BY <1>3, FiniteGifts, FS_AddElement
<1>5. Given' = Given
  BY <1>1 DEF Given, tables
<1>6. Cardinality(Given) + Cardinality(Busy') <= MaxGifts
  BY <1>1, <1>4, FiniteGifts, FreePlayAssumption
<1>7. GivenInv'
  BY <1>5, <1>6 DEF GivenInv, RowsInv
<1> QED
  BY <1>1, <1>7, RowsStay

(* The number a gift gets is free, and next in line.                        *)
LEMMA NextGift ==
    ASSUME ControlTyped, RowsInv, NEW a \in Givers, pc[a] # "idle"
    PROVE  LET g == Cardinality(Given) + 1 IN
           /\ g \in Gifts /\ g \notin Given /\ gift[g].status = "none"
           /\ Given \cup {g} = 1..g
<1>1. PICK n \in Nat : Given = 1..n
  BY DEF RowsInv, GivenInv
<1>2. Cardinality(Given) = n
  BY <1>1, FS_Interval
<1>3. a \in Busy /\ Cardinality(Busy) # 0
  <2>1. a \in Busy
    BY DEF Busy
  <2> QED
    BY <2>1, FiniteGifts, FS_EmptySet
<1>4. n + 1 <= MaxGifts
  BY <1>2, <1>3, FiniteGifts, FreePlayAssumption DEF RowsInv, GivenInv
<1>5. n + 1 \in Gifts /\ n + 1 \notin Given /\ Given \cup {n + 1} = 1..(n + 1)
  BY <1>1, <1>4, FreePlayAssumption DEF Gifts
<1> QED
  BY <1>2, <1>5 DEF Given

LEMMA GiveCommitRows ==
    ASSUME ControlTyped, RequestInv, RowsInv, NEW a \in Givers, GiveCommit(a)
    PROVE  RowsInv'
<1> DEFINE p == local[a].player
           g == Cardinality(Given) + 1
           new == [player |-> p, status |-> "pending", giver |-> a, key |-> local[a].key]
           mark == [gift |-> g, status |-> "pending"]
<1>1. a \in Requests /\ a \notin Tabs /\ GiverInv(a) /\ pc[a] = "commit" /\ RowsTyped
  BY Disjoint DEF RequestInv, GiveCommit, RowsInv
<1>2. p \in Players /\ marker[p].status # "pending" /\ local[a] \in Locals
  BY <1>1 DEF GiverInv, ControlTyped
<1>3. g \in Gifts /\ g \notin Given /\ gift[g].status = "none" /\ Given \cup {g} = 1..g
      /\ g \in Nat
  BY <1>1, NextGift, FiniteGifts
<1>4. /\ gift' = [gift EXCEPT ![g] = new] /\ marker' = [marker EXCEPT ![p] = mark]
      /\ wallet' = IF a \in Staff
                   THEN [wallet EXCEPT ![WalletOf[a]] = local[a].seen - StaffCost]
                   ELSE wallet
      /\ claimed' = claimed \cup ({local[a].key} \ {NoKey})
      /\ UNCHANGED <<coin, told, other>>
  BY DEF GiveCommit
<1>5. pc' = [pc EXCEPT ![a] = "idle"]
  BY DEF GiveCommit, End
<1>6. /\ new \in GiftRows /\ new.player = p /\ new.giver = a /\ new.status = "pending"
      /\ mark \in Markers
  BY <1>2, <1>3 DEF GiftRows, Markers, Locals
<1>7. a \in Staff => /\ WalletOf[a] \in Wallets /\ local[a].seen = wallet[WalletOf[a]]
                     /\ local[a].seen - StaffCost \in Nat
  BY <1>1, FreePlayAssumption DEF GiverInv, RowsTyped, StaffCost
<1> HIDE DEF g, new
<1>8. gift'[g] = new /\ \A h \in Gifts \ {g} : gift'[h] = gift[h]
  BY <1>1, <1>3, <1>4 DEF RowsTyped
<1>9. RowsTyped'
  <2>1. gift' \in [Gifts -> GiftRows] /\ marker' \in [Players -> Markers]
    BY <1>1, <1>4, <1>6 DEF RowsTyped
  <2>2. wallet' \in [Wallets -> Nat]
    BY <1>1, <1>4, <1>7 DEF RowsTyped
  <2>3. claimed' \subseteq Keys \cup Gifts
    BY <1>1, <1>2, <1>4 DEF RowsTyped, Locals
  <2> QED
    BY <1>1, <1>4, <2>1, <2>2, <2>3 DEF RowsTyped
<1>10. GivenInv'
  <2>1. Given' = Given \cup {g}
    BY <1>3, <1>6, <1>8 DEF Given
  <2>2. Busy' = Busy \ {a} /\ a \in Busy
    BY <1>1, <1>5, Disjoint DEF Busy, ControlTyped
  <2>3. Cardinality(Given') = Cardinality(Given) + 1
    BY <1>3, <2>1, FiniteGifts, FS_AddElement
  <2>4. Cardinality(Busy') = Cardinality(Busy) - 1
    BY <2>2, FiniteGifts, FS_RemoveElement
  <2>5. Cardinality(Given') + Cardinality(Busy') <= MaxGifts
    BY <2>3, <2>4, FiniteGifts, FreePlayAssumption DEF RowsInv, GivenInv
  <2> QED
    BY <1>3, <2>1, <2>5 DEF GivenInv
<1>11. BlankInv'
  BY <1>6, <1>8 DEF BlankInv, RowsInv
<1>12. GiftsMatchMarkers'
  <2> SUFFICES ASSUME NEW q \in Players, NEW h \in Gifts
               PROVE  gift'[h].player = q /\ gift'[h].status = "pending"
                          <=> marker'[q] = [gift |-> h, status |-> "pending"]
    BY DEF GiftsMatchMarkers
  <2>1. /\ gift[h].player = q /\ gift[h].status = "pending"
            <=> marker[q] = [gift |-> h, status |-> "pending"]
    BY DEF RowsInv, GiftsMatchMarkers
  <2>2. CASE q = p
    <3>1. marker'[q] = mark
      BY <1>1, <1>4, <2>2 DEF RowsTyped
    <3>2. CASE h = g
      BY <1>6, <1>8, <2>2, <3>1, <3>2
    <3>3. CASE h # g
      <4>1. marker'[q] # [gift |-> h, status |-> "pending"]
        BY <3>1, <3>3
      <4>2. gift'[h] = gift[h]
        BY <1>8, <3>3
      <4> QED
        BY <1>2, <2>1, <2>2, <4>1, <4>2
    <3> QED
      BY <3>2, <3>3
  <2>3. CASE q # p
    <3>1. marker'[q] = marker[q]
      BY <1>1, <1>4, <2>3 DEF RowsTyped
    <3>2. CASE h = g
      BY <1>3, <1>6, <1>8, <2>1, <2>3, <3>1, <3>2
    <3>3. CASE h # g
      BY <1>8, <2>1, <3>1, <3>3
    <3> QED
      BY <3>2, <3>3
  <2> QED
    BY <2>2, <2>3
<1>13. GiftsPaidFor'
  <2> SUFFICES ASSUME NEW w \in Wallets
               PROVE  wallet'[w] = InitialWallet[w] - StaffCost
                          * Cardinality({h \in Gifts : gift'[h].giver \in Staff
                                                       /\ WalletOf[gift'[h].giver] = w})
    BY DEF GiftsPaidFor
  <2> DEFINE Paid == {h \in Gifts : gift[h].giver \in Staff /\ WalletOf[gift[h].giver] = w}
             PaidNow == {h \in Gifts : gift'[h].giver \in Staff /\ WalletOf[gift'[h].giver] = w}
  <2>1. wallet[w] = InitialWallet[w] - StaffCost * Cardinality(Paid)
    BY DEF RowsInv, GiftsPaidFor
  <2>2. IsFiniteSet(Paid) /\ Cardinality(Paid) \in Nat
    BY FiniteGifts, FS_Subset, FS_CardinalityType
  <2>3. g \notin Paid
    <3>1. gift[g].giver = Nobody
      BY <1>3 DEF RowsInv, BlankInv
    <3> QED
      BY <3>1, FreePlayAssumption
  <2>4. CASE a \in Staff /\ WalletOf[a] = w
    <3>1. PaidNow = Paid \cup {g}
      BY <1>3, <1>6, <1>8, <2>4
    <3>2. Cardinality(PaidNow) = Cardinality(Paid) + 1
      BY <2>2, <2>3, <3>1, FS_AddElement
    <3>3. wallet'[w] = wallet[w] - StaffCost
      BY <1>1, <1>4, <1>7, <2>4 DEF RowsTyped
    <3>4. InitialWallet[w] \in Nat
      BY FreePlayAssumption
    <3> HIDE DEF Paid, PaidNow
    <3>5. wallet'[w] = InitialWallet[w] - StaffCost * Cardinality(PaidNow)
      BY <2>1, <2>2, <3>2, <3>3, <3>4 DEF StaffCost
    <3> QED
      BY <3>5 DEF PaidNow
  <2>5. CASE ~(a \in Staff /\ WalletOf[a] = w)
    <3>1. PaidNow = Paid
      BY <1>3, <1>6, <1>8, <2>3, <2>5
    <3>2. wallet'[w] = wallet[w]
      BY <1>1, <1>4, <1>7, <2>5 DEF RowsTyped
    <3> QED
      BY <2>1, <3>1, <3>2
  <2> QED
    BY <2>4, <2>5
<1> QED
  BY <1>9, <1>10, <1>11, <1>12, <1>13 DEF RowsInv

(* What a claim makes of a balance, and tells.                              *)
LEMMA ClaimedCoins ==
    ASSUME NEW c \in Nat, NEW n \in GiftAmounts
    PROVE  /\ Coin * n \in Nat
           /\ Coin * (Whole(c) + n) \in Nat
           /\ Coin * (Whole(c) + n) % Coin = 0
           /\ Coin * n - (Coin * (Whole(c) + n) - c) = c % Coin
<1> DEFINE w == c \div 100
<1>1. w \in Nat /\ c % 100 = c - 100 * w
  OBVIOUS
<1> HIDE DEF w
<1>2. n \in Nat
  BY DEF GiftAmounts
<1>3. 100 * (w + n) % 100 = 0 /\ 100 * (w + n) \in Nat /\ 100 * n \in Nat
  BY <1>1, <1>2
<1>4. 100 * n - (100 * (w + n) - c) = c - 100 * w
  BY <1>1, <1>2
<1> QED
  BY <1>1, <1>3, <1>4 DEF w, Whole, Coin

LEMMA ClaimCommitRows ==
    ASSUME ControlTyped, RequestInv, RowsInv, NEW t \in Tabs, NEW n \in GiftAmounts,
           ClaimCommit(t, n)
    PROVE  RowsInv'
<1> DEFINE p == local[t].player
           g == local[t].gift
<1>1. /\ t \in Requests /\ t \notin Givers /\ TabInv(t) /\ pc[t] = "credit" /\ RowsTyped
      /\ pc' = [pc EXCEPT ![t] = "idle"] /\ UNCHANGED other
  BY Disjoint DEF RequestInv, ClaimCommit, RowsInv, End
<1>2. /\ p \in Players /\ g \in Gifts /\ local[t].seen = coin[p]
      /\ marker[p] = [gift |-> g, status |-> "pending"]
  BY <1>1 DEF TabInv
<1>3. CASE g \in claimed
  BY <1>1, <1>3, QuietRows DEF ClaimCommit
<1>4. CASE g \notin claimed
  <2>1. /\ coin' = [coin EXCEPT ![p] = Coin * (Whole(coin[p]) + n)]
        /\ told' = [told EXCEPT ![p] = told[p] + Coin * n]
        /\ gift' = [gift EXCEPT ![g].status = "claimed"]
        /\ marker' = [marker EXCEPT ![p].status = "claimed"]
        /\ claimed' = claimed \cup {g}
        /\ UNCHANGED wallet
    BY <1>2, <1>4 DEF ClaimCommit
  <2> DEFINE row == [gift[g] EXCEPT !.status = "claimed"]
             mark == [marker[p] EXCEPT !.status = "claimed"]
  <2>2. gift[g].player = p /\ gift[g].status = "pending"
    BY <1>2 DEF RowsInv, GiftsMatchMarkers
  <2>3. gift[g] \in GiftRows /\ marker[p] \in Markers
    BY <1>1, <1>2 DEF RowsTyped
  <2>4. /\ row \in GiftRows /\ row.player = p /\ row.giver = gift[g].giver
        /\ row.status = "claimed"
    BY <2>2, <2>3 DEF GiftRows
  <2>5. mark \in Markers /\ mark.status = "claimed"
    BY <2>3 DEF Markers
  <2>6. gift' = [gift EXCEPT ![g] = row] /\ marker' = [marker EXCEPT ![p] = mark]
    BY <1>1, <1>2, <2>1 DEF RowsTyped
  <2> HIDE DEF row, mark
  <2>7. /\ gift'[g] = row /\ \A h \in Gifts \ {g} : gift'[h] = gift[h]
        /\ marker'[p] = mark /\ \A q \in Players \ {p} : marker'[q] = marker[q]
    BY <1>1, <1>2, <2>6 DEF RowsTyped
  <2>8. RowsTyped'
    <3>1. Coin * (Whole(coin[p]) + n) \in Nat /\ told[p] + Coin * n \in Nat
      BY <1>1, <1>2, ClaimedCoins DEF RowsTyped
    <3>2. coin' \in [Players -> Nat] /\ told' \in [Players -> Nat]
      BY <1>1, <2>1, <3>1 DEF RowsTyped
    <3>3. gift' \in [Gifts -> GiftRows] /\ marker' \in [Players -> Markers]
      BY <1>1, <2>4, <2>5, <2>6 DEF RowsTyped
    <3> QED
      BY <1>1, <1>2, <2>1, <3>2, <3>3 DEF RowsTyped
  <2>9. GivenInv'
    <3>1. Given' = Given
      BY <2>2, <2>4, <2>7 DEF Given
    <3>2. Busy' = Busy
      BY <1>1, Disjoint DEF Busy, ControlTyped
    <3> QED
      BY <3>1, <3>2 DEF GivenInv, RowsInv
  <2>10. BlankInv'
    BY <2>4, <2>7 DEF BlankInv, RowsInv
  <2>11. ASSUME NEW q \in Players, NEW h \in Gifts
         PROVE  gift'[h].player = q /\ gift'[h].status = "pending"
                    <=> marker'[q] = [gift |-> h, status |-> "pending"]
    <3>1. gift[h].player = q /\ gift[h].status = "pending"
              <=> marker[q] = [gift |-> h, status |-> "pending"]
      BY DEF RowsInv, GiftsMatchMarkers
    <3>2. CASE q = p
      <4>1. marker'[q] # [gift |-> h, status |-> "pending"]
        BY <2>5, <2>7, <3>2
      <4>2. CASE h = g
        BY <2>4, <2>7, <4>1, <4>2
      <4>3. CASE h # g
        BY <1>2, <2>7, <3>1, <3>2, <4>1, <4>3
      <4> QED
        BY <4>2, <4>3
    <3>3. CASE q # p
      <4>1. CASE h = g
        BY <2>2, <2>4, <2>7, <3>1, <3>3, <4>1
      <4>2. CASE h # g
        BY <2>7, <3>1, <3>3, <4>2
      <4> QED
        BY <4>1, <4>2
    <3> QED
      BY <3>2, <3>3
  <2>12. GiftsPaidFor'
    <3>1. \A h \in Gifts : gift'[h].giver = gift[h].giver
      BY <2>4, <2>7
    <3>2. ASSUME NEW w \in Wallets
          PROVE  {h \in Gifts : gift'[h].giver \in Staff /\ WalletOf[gift'[h].giver] = w}
                     = {h \in Gifts : gift[h].giver \in Staff /\ WalletOf[gift[h].giver] = w}
      BY <3>1
    <3> QED
      BY <2>1, <3>2 DEF GiftsPaidFor, RowsInv
  <2> QED
    BY <2>8, <2>9, <2>10, <2>11, <2>12 DEF RowsInv, GiftsMatchMarkers
<1> QED
  BY <1>3, <1>4

LEMMA OtherOperationRows ==
    ASSUME RowsInv, NEW p \in Players, NEW c \in OtherAmounts, OtherOperation(p, c)
    PROVE  RowsInv'
<1>1. /\ UNCHANGED <<wallet, gift, marker, claimed, pc>> /\ other < MaxOther
      /\ coin' = [coin EXCEPT ![p] = coin[p] + c]
      /\ told' = [told EXCEPT ![p] = told[p] + c]
      /\ other' = other + 1
  BY DEF OtherOperation
<1>2. RowsTyped /\ coin[p] + c \in Nat /\ told[p] + c \in Nat
  BY FreePlayAssumption DEF RowsInv, RowsTyped
<1>3. RowsTyped'
  BY <1>1, <1>2, FreePlayAssumption DEF RowsTyped
<1>4. GivenInv'
  <2>1. Busy' = Busy
    BY <1>1 DEF Busy
  <2> QED
    BY <1>1, <2>1, FewerBusy DEF RowsInv
<1> QED
  BY <1>1, <1>3, <1>4 DEF RowsInv, BlankInv, GiftsMatchMarkers, GiftsPaidFor
-----------------------------------------------------------------------------
(* Every step *)

IInv == ControlTyped /\ RequestInv /\ RowsInv

LEMMA InitInv == Init => IInv
<1> SUFFICES ASSUME Init PROVE IInv
  OBVIOUS
<1> DEFINE blank == [player |-> Nobody, status |-> "none", giver |-> Nobody, key |-> NoKey]
           none == [gift |-> NoGift, status |-> "none"]
<1>1. NoLocal \in Locals /\ blank \in GiftRows /\ none \in Markers
  BY DEF NoLocal, Locals, GiftRows, Markers
<1>2. ControlTyped
  BY <1>1 DEF Init, ControlTyped, Pcs
<1>3. RequestInv
  BY Disjoint DEF Init, RequestInv, GiverInv, TabInv
<1>4. RowsTyped
  BY <1>1, FreePlayAssumption DEF Init, RowsTyped
<1>5. Given = {} /\ Busy = {}
  BY Disjoint DEF Init, Given, Busy
<1>6. GivenInv
  <2>1. Given = 1..0 /\ Cardinality(Given) = 0 /\ Cardinality(Busy) = 0
    BY <1>5, FS_EmptySet
  <2> QED
    BY <2>1, FreePlayAssumption DEF GivenInv
<1>7. BlankInv
  BY DEF Init, BlankInv
<1>8. GiftsMatchMarkers
  BY DEF Init, GiftsMatchMarkers
<1>9. GiftsPaidFor
  <2>1. ASSUME NEW w \in Wallets
        PROVE  {g \in Gifts : gift[g].giver \in Staff /\ WalletOf[gift[g].giver] = w} = {}
    BY FreePlayAssumption DEF Init
  <2>2. ASSUME NEW w \in Wallets
        PROVE  wallet[w] = InitialWallet[w] - StaffCost * 0
    BY FreePlayAssumption DEF Init, StaffCost
  <2> QED
    BY <2>1, <2>2, FS_EmptySet DEF GiftsPaidFor
<1> QED
  BY <1>2, <1>3, <1>4, <1>6, <1>7, <1>8, <1>9 DEF IInv, RowsInv

LEMMA AbortStep ==
    ASSUME IInv, NEW x \in Requests, Abort(x)
    PROVE  IInv'
<1>1. pc[x] # "idle" /\ End(x) /\ UNCHANGED tables /\ UNCHANGED other
  BY DEF Abort
<1>2. ControlTyped' /\ RequestInv'
  BY <1>1, EndsQuietly DEF IInv
<1>3. RowsInv'
  BY <1>1, QuietRows DEF End, IInv
<1> QED
  BY <1>2, <1>3 DEF IInv

LEMMA GiverStep ==
    ASSUME IInv, NEW a \in Givers,
           GiveKey(a) \/ GivePlayer(a) \/ GiveMarker(a) \/ GiveWallet(a) \/ GiveCommit(a)
    PROVE  IInv'
<1>1. ControlTyped' /\ RequestInv'
  BY GiveKeyStep, GivePlayerStep, GiveMarkerStep, GiveWalletStep, GiveCommitStep
     DEF IInv, RowsInv
<1>2. CASE GiveCommit(a)
  BY <1>1, <1>2, GiveCommitRows DEF IInv
<1>3. CASE GiveKey(a) \/ GivePlayer(a) \/ GiveMarker(a) \/ GiveWallet(a)
  <2>1. pc[a] # "idle" /\ UNCHANGED tables /\ UNCHANGED other
    BY <1>3 DEF GiveKey, GivePlayer, GiveMarker, GiveWallet
  <2>2. PICK next : pc' = [pc EXCEPT ![a] = next]
    BY <1>3 DEF GiveKey, GivePlayer, GiveMarker, GiveWallet, Lock, End, Goto
  <2>3. RowsInv'
    BY <2>1, <2>2, Disjoint, QuietRows DEF IInv
  <2> QED
    BY <1>1, <2>3 DEF IInv
<1> QED
  BY <1>2, <1>3

LEMMA TabStep ==
    ASSUME IInv, NEW t \in Tabs,
           \/ ClaimMarker(t) \/ ClaimGift(t) \/ ClaimPlayer(t)
           \/ \E n \in GiftAmounts : ClaimCommit(t, n)
           \/ \E g \in Gifts : OpenGift(t, g)
    PROVE  IInv'
<1>1. ControlTyped' /\ RequestInv'
  BY ClaimMarkerStep, ClaimGiftStep, ClaimPlayerStep, ClaimCommitStep, OpenGiftStep
     DEF IInv, RowsInv
<1>2. CASE \E n \in GiftAmounts : ClaimCommit(t, n)
  BY <1>1, <1>2, ClaimCommitRows DEF IInv
<1>3. CASE ClaimMarker(t) \/ ClaimGift(t) \/ ClaimPlayer(t) \/ \E g \in Gifts : OpenGift(t, g)
  <2>1. UNCHANGED tables /\ UNCHANGED other
    BY <1>3 DEF ClaimMarker, ClaimGift, ClaimPlayer, OpenGift
  <2>2. PICK next : pc' = [pc EXCEPT ![t] = next]
    BY <1>3 DEF ClaimMarker, ClaimGift, ClaimPlayer, OpenGift, Lock, End, Goto
  <2>3. RowsInv'
    BY <2>1, <2>2, Disjoint, QuietRows DEF IInv
  <2> QED
    BY <1>1, <2>3 DEF IInv
<1> QED
  BY <1>2, <1>3

LEMMA NextInv == IInv /\ [Next]_vars => IInv'
<1> SUFFICES ASSUME IInv, [Next]_vars PROVE IInv'
  OBVIOUS
<1>1. ASSUME NEW a \in Givers, NEW p \in Players, NEW k \in Keys \cup {NoKey},
             SelectPlayer(a, p, k)
      PROVE  IInv'
  BY <1>1, SelectPlayerStep, SelectPlayerRows DEF IInv
<1>2. ASSUME NEW t \in Tabs, NEW g \in Gifts, OpenGift(t, g) PROVE IInv'
  BY <1>2, TabStep
<1>3. ASSUME NEW x \in Requests, Step(x) \/ Abort(x) PROVE IInv'
  BY <1>3, GiverStep, TabStep, AbortStep DEF Step
<1>4. ASSUME NEW p \in Players, NEW c \in OtherAmounts, OtherOperation(p, c) PROVE IInv'
  BY <1>4, OtherOperationStep, OtherOperationRows DEF IInv, RowsInv
<1>5. CASE UNCHANGED vars
  <2>1. UNCHANGED tables /\ UNCHANGED <<other, lock, pc, local>>
    BY <1>5 DEF vars, tables
  <2>2. ControlTyped'
    BY <2>1 DEF ControlTyped, IInv
  <2>3. RequestInv'
    BY <2>1 DEF RequestInv, GiverInv, TabInv, IInv, tables
  <2>4. Busy' = Busy
    BY <2>1 DEF Busy
  <2>5. RowsInv'
    BY <2>1, <2>4, FewerBusy, RowsStay DEF IInv, RowsInv, tables
  <2> QED
    BY <2>2, <2>3, <2>5 DEF IInv
<1> QED
  BY <1>1, <1>2, <1>3, <1>4, <1>5 DEF Next

LEMMA AlwaysInv == Spec => []IInv
BY InitInv, NextInv, PTL DEF Spec

(* Rows, locks and requests keep their types: a gift always has a number    *)
(* and a wallet is never overdrawn.                                         *)
THEOREM TypeCorrect == Spec => []TypeOK
<1>1. IInv => TypeOK
  BY TypeParts DEF IInv, RowsInv
<1> QED
  BY <1>1, AlwaysInv, PTL

(* Requests that choose the same player before they lock give one gift, and *)
(* what is pending can be claimed.                                          *)
THEOREM MarkersMatch == Spec => []GiftsMatchMarkers
<1>1. IInv => GiftsMatchMarkers
  BY DEF IInv, RowsInv
<1> QED
  BY <1>1, AlwaysInv, PTL

(* A wallet has paid for each gift that was given from it, and for nothing  *)
(* else, whatever requests fail or read the wallet at one time.             *)
THEOREM EachGiftIsPaid == Spec => []GiftsPaidFor
<1>1. IInv => GiftsPaidFor
  BY DEF IInv, RowsInv
<1> QED
  BY <1>1, AlwaysInv, PTL

(* Coins that a step moves as it tells have no gap between the two.         *)
Gap(p) == (told'[p] - told[p]) - (coin'[p] - coin[p])
FractionStep == \A p \in Players : Gap(p) # 0 => Gap(p) = coin[p] % Coin /\ coin'[p] % Coin = 0

LEMMA NoGap ==
    ASSUME RowsTyped, UNCHANGED <<coin, told>>
    PROVE  FractionStep
BY DEF RowsTyped, FractionStep, Gap

(* A claim writes what it computed from a balance that nothing has changed  *)
(* in between.                                                              *)
LEMMA ClaimGap ==
    ASSUME IInv, NEW t \in Tabs, NEW n \in GiftAmounts, ClaimCommit(t, n)
    PROVE  FractionStep
<1> DEFINE p == local[t].player
           g == local[t].gift
           credited == Coin * (Whole(coin[p]) + n)
<1>1. RowsTyped /\ p \in Players /\ local[t].seen = coin[p]
  BY DEF IInv, RowsInv, RequestInv, TabInv, ClaimCommit
<1>2. CASE g \in claimed
  BY <1>1, <1>2, NoGap DEF ClaimCommit, tables
<1>3. CASE g \notin claimed
  <2>1. /\ coin' = [coin EXCEPT ![p] = credited]
        /\ told' = [told EXCEPT ![p] = told[p] + Coin * n]
    BY <1>1, <1>3 DEF ClaimCommit
  <2>2. /\ coin[p] \in Nat /\ told[p] \in Nat /\ Coin * n \in Nat /\ credited \in Nat
        /\ credited % Coin = 0 /\ Coin * n - (credited - coin[p]) = coin[p] % Coin
    BY <1>1, ClaimedCoins DEF RowsTyped
  <2> HIDE DEF credited
  <2>3. Gap(p) = Coin * n - (credited - coin[p]) /\ coin'[p] = credited
    <3>1. coin'[p] = credited /\ told'[p] = told[p] + Coin * n
      BY <1>1, <2>1 DEF RowsTyped
    <3> QED
      BY <2>2, <3>1 DEF Gap
  <2>4. ASSUME NEW q \in Players, q # p PROVE Gap(q) = 0
    <3>1. /\ coin'[q] = coin[q] /\ told'[q] = told[q] /\ coin[q] \in Nat /\ told[q] \in Nat
      BY <1>1, <2>1, <2>4 DEF RowsTyped
    <3> QED
      BY <3>1 DEF Gap
  <2> QED
    BY <1>1, <2>2, <2>3, <2>4 DEF FractionStep
<1> QED
  BY <1>2, <1>3

LEMMA OtherGap ==
    ASSUME IInv, NEW p \in Players, NEW c \in OtherAmounts, OtherOperation(p, c)
    PROVE  FractionStep
<1>1. /\ coin' = [coin EXCEPT ![p] = coin[p] + c]
      /\ told' = [told EXCEPT ![p] = told[p] + c]
      /\ c \in Nat /\ RowsTyped
  BY FreePlayAssumption DEF OtherOperation, IInv, RowsInv
<1>2. ASSUME NEW q \in Players PROVE Gap(q) = 0
  <2>1. coin[q] \in Nat /\ told[q] \in Nat
    BY <1>1 DEF RowsTyped
  <2>2. CASE q = p
    <3>1. coin'[q] = coin[q] + c /\ told'[q] = told[q] + c
      BY <1>1, <2>2 DEF RowsTyped
    <3> QED
      BY <1>1, <2>1, <3>1 DEF Gap
  <2>3. CASE q # p
    <3>1. coin'[q] = coin[q] /\ told'[q] = told[q]
      BY <1>1, <2>3 DEF RowsTyped
    <3> QED
      BY <2>1, <3>1 DEF Gap
  <2> QED
    BY <2>2, <2>3
<1> QED
  BY <1>2 DEF FractionStep

LEMMA FractionsStep == IInv /\ [Next]_vars => FractionStep
<1> SUFFICES ASSUME IInv, [Next]_vars PROVE FractionStep
  OBVIOUS
<1>1. CASE UNCHANGED <<coin, told>>
  BY <1>1, NoGap DEF IInv, RowsInv
<1>2. ASSUME NEW t \in Tabs, NEW n \in GiftAmounts, ClaimCommit(t, n) PROVE FractionStep
  BY <1>2, ClaimGap
<1>3. ASSUME NEW p \in Players, NEW c \in OtherAmounts, OtherOperation(p, c)
      PROVE  FractionStep
  BY <1>3, OtherGap
<1>4. ASSUME NEW x \in Requests, Step(x) \/ Abort(x) PROVE FractionStep
  BY <1>1, <1>2, <1>4 DEF Step, Abort, GiveKey, GivePlayer, GiveMarker, GiveWallet,
     GiveCommit, ClaimMarker, ClaimGift, ClaimPlayer, tables
<1> QED
  BY <1>1, <1>3, <1>4 DEF Next, SelectPlayer, OpenGift, vars, tables

(* Coins move as the ledger says but for the fraction that a claim drops,   *)
(* whatever fractions, amounts and requests there are: nothing that another *)
(* operation has added since the claim read the balance is overwritten.     *)
THEOREM OnlyFractionsAreLost == Spec => OnlyFractionsLost
<1>1. IInv /\ [Next]_vars
          => [\A p \in Players :
                 LET gap == (told'[p] - told[p]) - (coin'[p] - coin[p]) IN
                 gap # 0 => gap = coin[p] % Coin /\ coin'[p] % Coin = 0]_vars
  BY FractionsStep DEF FractionStep, Gap
<1> QED
  BY <1>1, InitInv, NextInv, PTL DEF Spec, OnlyFractionsLost
-----------------------------------------------------------------------------
(* Keys *)

(* A request that has inserted its key holds it, and nobody has committed   *)
(* with it; a gift's key is in the table.                                   *)
KeyHeld(a) ==
    LET k == local[a].key IN
    /\ pc[a] = "key" => k \in Keys
    /\ pc[a] \in {"player", "marker", "wallet", "commit"} /\ k # NoKey =>
           lock[<<"key", k>>] = a /\ k \notin claimed
KeyInv ==
    /\ \A a \in Givers : KeyHeld(a)
    /\ \A g \in Gifts : gift[g].key # NoKey => gift[g].key \in claimed

LEMMA KeyRows == \A k \in Keys : <<"key", k>> \in Rows
BY DEF Rows

LEMMA KeyStays ==
    ASSUME ControlTyped, NEW x \in Requests, Frame(x), NEW b \in Givers, b # x, KeyHeld(b),
           local[b].key \in Keys \cap claimed' => local[b].key \in claimed \/ pc[b] = "key"
    PROVE  KeyHeld(b)'
<1>1. b \in Requests \ {x} /\ local[b].key \in Keys \cup {NoKey}
  BY Disjoint DEF ControlTyped, Locals
<1>2. pc'[b] = pc[b] /\ local'[b] = local[b]
      /\ \A row \in Rows : lock[row] = b => lock'[row] = b
  BY <1>1 DEF Frame
<1>3. local[b].key # NoKey => <<"key", local[b].key>> \in Rows
  BY <1>1, KeyRows
<1> QED
  BY <1>1, <1>2, <1>3 DEF KeyHeld

(* A step that only locks or ends, which leaves the request's own key       *)
(* where it is.                                                             *)
LEMMA QuietKeys ==
    ASSUME ControlTyped, KeyInv, NEW x \in Requests, Frame(x), UNCHANGED tables,
           x \in Givers => KeyHeld(x)'
    PROVE  KeyInv'
<1>1. ASSUME NEW b \in Givers, b # x PROVE KeyHeld(b)'
  BY <1>1, KeyStays DEF KeyInv, tables
<1> QED
  BY <1>1 DEF KeyInv, tables

LEMMA EndsKeys ==
    ASSUME ControlTyped, KeyInv, NEW x \in Requests, End(x), UNCHANGED tables
    PROVE  KeyInv'
<1>1. Frame(x) /\ pc'[x] = "idle"
  BY EndTypes
<1>2. KeyHeld(x)'
  BY <1>1 DEF KeyHeld
<1> QED
  BY <1>1, <1>2, QuietKeys

LEMMA SelectPlayerKeys ==
    ASSUME ControlTyped, KeyInv, NEW a \in Givers, NEW p \in Players,
           NEW k \in Keys \cup {NoKey}, SelectPlayer(a, p, k)
    PROVE  KeyInv'
<1> DEFINE row == [NoLocal EXCEPT !.player = p, !.key = k]
<1>1. /\ local' = [local EXCEPT ![a] = row] /\ UNCHANGED tables /\ UNCHANGED lock
      /\ pc' = [pc EXCEPT ![a] = IF k = NoKey THEN "player" ELSE "key"]
  BY DEF SelectPlayer, Goto
<1>2. row.key = k
  BY DEF NoLocal
<1> HIDE DEF row
<1>3. a \in Requests
  BY Disjoint
<1>4. /\ Frame(a) /\ local'[a] = row
      /\ pc'[a] = IF k = NoKey THEN "player" ELSE "key"
  BY <1>1, <1>3 DEF Frame, ControlTyped
<1>5. KeyHeld(a)'
  BY <1>2, <1>4 DEF KeyHeld
<1> QED
  BY <1>1, <1>3, <1>4, <1>5, QuietKeys

LEMMA GiveKeyKeys ==
    ASSUME ControlTyped, KeyInv, NEW a \in Givers, GiveKey(a)
    PROVE  KeyInv'
<1> DEFINE k == local[a].key
<1>1. a \in Requests /\ UNCHANGED tables /\ pc[a] = "key" /\ k \in Keys
  BY Disjoint DEF GiveKey, KeyInv, KeyHeld
<1>2. CASE k \in claimed
  BY <1>1, <1>2, EndsKeys DEF GiveKey
<1>3. CASE k \notin claimed
  <2>1. Lock(a, <<"key", k>>, "player") /\ UNCHANGED local
    BY <1>3 DEF GiveKey
  <2>2. Frame(a) /\ pc'[a] = "player" /\ lock'[<<"key", k>>] = a
    BY <1>1, <2>1, KeyRows, LockFrame, LockValues
  <2>3. KeyHeld(a)'
    BY <1>1, <1>3, <2>1, <2>2 DEF KeyHeld, tables
  <2> QED
    BY <1>1, <2>2, <2>3, QuietKeys
<1> QED
  BY <1>2, <1>3

(* Further locks leave the key where it is.                                 *)
LEMMA GoesOnKeys ==
    ASSUME ControlTyped, KeyInv, NEW a \in Givers, UNCHANGED tables, Frame(a),
           pc[a] \in {"player", "marker", "wallet"},
           pc'[a] \in {"marker", "wallet", "commit"}, local'[a].key = local[a].key,
           \A r \in Rows : lock[r] = a => lock'[r] = a
    PROVE  KeyInv'
<1>1. a \in Requests /\ local[a].key \in Keys \cup {NoKey} /\ KeyHeld(a)
  BY Disjoint DEF ControlTyped, Locals, KeyInv
<1>2. KeyHeld(a)'
  BY <1>1, KeyRows DEF KeyHeld, tables
<1> QED
  BY <1>1, <1>2, QuietKeys

LEMMA GivePlayerKeys ==
    ASSUME ControlTyped, RequestInv, KeyInv, NEW a \in Givers, GivePlayer(a)
    PROVE  KeyInv'
<1> DEFINE row == <<"player", local[a].player>>
<1>1. /\ a \in Requests /\ UNCHANGED tables /\ pc[a] = "player"
      /\ Lock(a, row, "marker") /\ UNCHANGED local
  BY Disjoint DEF GivePlayer
<1>2. row \in Rows
  BY <1>1, RowsOf DEF RequestInv, GiverInv
<1>3. Frame(a) /\ pc'[a] = "marker" /\ \A r \in Rows : lock[r] = a => lock'[r] = a
  BY <1>1, <1>2, LockFrame, LockValues
<1> QED
  BY <1>1, <1>3, GoesOnKeys

LEMMA GiveMarkerKeys ==
    ASSUME ControlTyped, RequestInv, KeyInv, NEW a \in Givers, GiveMarker(a)
    PROVE  KeyInv'
<1> DEFINE p == local[a].player
           row == <<"marker", p>>
           next == IF a \in Staff THEN "wallet" ELSE "commit"
<1>1. a \in Requests /\ UNCHANGED tables /\ pc[a] = "marker" /\ next \in {"wallet", "commit"}
  BY Disjoint DEF GiveMarker
<1>2. row \in Rows
  BY <1>1, RowsOf DEF RequestInv, GiverInv
<1>3. CASE End(a)
  BY <1>1, <1>3, EndsKeys
<1>4. CASE Goto(a, next) /\ UNCHANGED <<lock, local>>
  <2> HIDE DEF next
  <2>1. Frame(a) /\ pc'[a] = next
    BY <1>1, <1>4 DEF ControlTyped, Frame, Goto
  <2> QED
    BY <1>1, <1>4, <2>1, GoesOnKeys
<1>5. CASE Lock(a, row, next) /\ UNCHANGED local
  <2> HIDE DEF next, row
  <2>1. Frame(a) /\ pc'[a] = next /\ \A r \in Rows : lock[r] = a => lock'[r] = a
    BY <1>1, <1>2, <1>5, LockFrame, LockValues
  <2> QED
    BY <1>1, <1>5, <2>1, GoesOnKeys
<1> QED
  BY <1>3, <1>4, <1>5 DEF GiveMarker

LEMMA GiveWalletKeys ==
    ASSUME ControlTyped, RequestInv, KeyInv, NEW a \in Givers, GiveWallet(a)
    PROVE  KeyInv'
<1> DEFINE w == WalletOf[a]
           row == <<"wallet", w>>
<1>1. a \in Requests /\ UNCHANGED tables /\ pc[a] = "wallet"
  BY Disjoint DEF GiveWallet
<1>2. row \in Rows
  BY <1>1, RowsOf, FreePlayAssumption DEF RequestInv, GiverInv
<1>3. CASE End(a)
  BY <1>1, <1>3, EndsKeys
<1>4. CASE Lock(a, row, "commit") /\ local' = [local EXCEPT ![a].seen = wallet[w]]
  <2>1. /\ \A y \in Requests \ {a} : local'[y] = local[y]
        /\ local'[a].key = local[a].key
    BY <1>1, <1>4 DEF ControlTyped, Locals
  <2> HIDE DEF row
  <2>2. Frame(a) /\ pc'[a] = "commit" /\ \A r \in Rows : lock[r] = a => lock'[r] = a
    BY <1>1, <1>2, <1>4, <2>1, LockFrame, LockValues
  <2> QED
    BY <1>1, <2>1, <2>2, GoesOnKeys
<1> QED
  BY <1>3, <1>4 DEF GiveWallet

(* Nobody else is beyond the same key.                                      *)
LEMMA GiveCommitKeys ==
    ASSUME ControlTyped, RowsTyped, RequestInv, RowsInv, KeyInv, NEW a \in Givers, GiveCommit(a)
    PROVE  KeyInv'
<1> DEFINE k == local[a].key
           g == Cardinality(Given) + 1
           new == [player |-> local[a].player, status |-> "pending", giver |-> a, key |-> k]
<1>1. /\ a \in Requests /\ pc[a] = "commit" /\ End(a) /\ KeyHeld(a)
      /\ gift' = [gift EXCEPT ![g] = new] /\ claimed' = claimed \cup ({k} \ {NoKey})
  BY Disjoint DEF GiveCommit, KeyInv
<1>2. Frame(a) /\ pc'[a] = "idle" /\ new.key = k
  BY <1>1, EndTypes
<1>3. ASSUME NEW b \in Givers, b # a PROVE KeyHeld(b)'
  <2>1. KeyHeld(b)
    BY DEF KeyInv
  <2>2. local[b].key \in claimed' => local[b].key \in claimed \/ pc[b] \in {"key", "idle"}
    BY <1>1, <1>3, <2>1, Disjoint DEF KeyHeld, RequestInv, GiverInv
  <2>3. CASE pc[b] = "idle"
    BY <1>2, <1>3, <2>3, Disjoint DEF Frame, KeyHeld
  <2> QED
    BY <1>1, <1>2, <1>3, <2>1, <2>2, <2>3, KeyStays
<1>4. KeyHeld(a)'
  BY <1>2 DEF KeyHeld
<1>5. ASSUME NEW h \in Gifts, gift'[h].key # NoKey PROVE gift'[h].key \in claimed'
  <2> HIDE DEF new, g
  <2>1. gift'[h] = IF h = g THEN new ELSE gift[h]
    BY <1>1 DEF RowsTyped
  <2> QED
    BY <1>1, <1>2, <1>5, <2>1 DEF KeyInv
<1> QED
  BY <1>3, <1>4, <1>5 DEF KeyInv

(* Opening a gift takes no request's key.                                   *)
LEMMA ClaimQuietKeys ==
    ASSUME ControlTyped, RequestInv, KeyInv, NEW t \in Tabs,
           \/ ClaimMarker(t) \/ ClaimGift(t) \/ ClaimPlayer(t)
           \/ \E g \in Gifts : OpenGift(t, g)
    PROVE  KeyInv'
<1>1. t \in Requests /\ t \notin Givers /\ UNCHANGED tables
  BY Disjoint DEF ClaimMarker, ClaimGift, ClaimPlayer, OpenGift
<1>2. CASE End(t)
  BY <1>1, <1>2, EndsKeys
<1>3. CASE /\ \E row, next : Lock(t, row, next)
           /\ UNCHANGED local \/ \E n : local' = [local EXCEPT ![t].seen = n]
  <2>1. \A y \in Requests \ {t} : local'[y] = local[y]
    BY <1>3 DEF ControlTyped
  <2>2. Frame(t)
    BY <1>1, <1>3, <2>1, LockFrame
  <2> QED
    BY <1>1, <2>2, QuietKeys
<1>4. CASE \E g \in Gifts : OpenGift(t, g)
  <2>1. Frame(t)
    BY <1>1, <1>4 DEF OpenGift, Goto, Frame, ControlTyped
  <2> QED
    BY <1>1, <2>1, QuietKeys
<1> QED
  BY <1>2, <1>3, <1>4 DEF ClaimMarker, ClaimGift, ClaimPlayer

LEMMA ClaimCommitKeys ==
    ASSUME ControlTyped, RowsTyped, RequestInv, KeyInv, NEW t \in Tabs,
           NEW n \in GiftAmounts, ClaimCommit(t, n)
    PROVE  KeyInv'
<1> DEFINE g == local[t].gift
<1>1. t \in Requests /\ t \notin Givers /\ End(t) /\ g \in Gifts
  BY Disjoint DEF ClaimCommit, RequestInv, TabInv
<1>2. CASE UNCHANGED tables
  BY <1>1, <1>2, EndsKeys
<1>3. CASE claimed' = claimed \cup {g} /\ gift' = [gift EXCEPT ![g].status = "claimed"]
  <2>1. Frame(t)
    BY <1>1, EndTypes
  <2>2. ASSUME NEW b \in Givers PROVE KeyHeld(b)'
    <3>1. local[b].key \in Keys \cup {NoKey} /\ b # t /\ KeyHeld(b)
      BY <1>1, Disjoint DEF ControlTyped, Locals, KeyInv
    <3>2. local[b].key \in Keys \cap claimed' => local[b].key \in claimed
      BY <1>1, <1>3, FreePlayAssumption DEF Gifts
    <3> QED
      BY <1>1, <2>1, <3>1, <3>2, KeyStays
  <2>3. \A h \in Gifts : gift'[h].key = gift[h].key
    BY <1>3 DEF RowsTyped, GiftRows
  <2> QED
    BY <1>3, <2>2, <2>3 DEF KeyInv
<1> QED
  BY <1>2, <1>3 DEF ClaimCommit

LEMMA InitKeys == Init => KeyInv
<1> SUFFICES ASSUME Init PROVE KeyInv
  OBVIOUS
<1>1. \A a \in Givers : pc[a] = "idle"
  BY Disjoint DEF Init
<1>2. \A g \in Gifts : gift[g].key = NoKey
  BY DEF Init
<1> QED
  BY <1>1, <1>2 DEF KeyInv, KeyHeld

LEMMA NextKeys == IInv /\ KeyInv /\ [Next]_vars => KeyInv'
<1> SUFFICES ASSUME IInv, KeyInv, [Next]_vars PROVE KeyInv'
  OBVIOUS
<1> USE DEF IInv
<1>1. ASSUME NEW a \in Givers, NEW p \in Players, NEW k \in Keys \cup {NoKey},
             SelectPlayer(a, p, k)
      PROVE  KeyInv'
  BY <1>1, SelectPlayerKeys
<1>2. ASSUME NEW t \in Tabs, NEW g \in Gifts, OpenGift(t, g) PROVE KeyInv'
  BY <1>2, ClaimQuietKeys
<1>3. ASSUME NEW x \in Requests, Abort(x) PROVE KeyInv'
  BY <1>3, EndsKeys DEF Abort
<1>4. ASSUME NEW a \in Givers,
             GiveKey(a) \/ GivePlayer(a) \/ GiveMarker(a) \/ GiveWallet(a) \/ GiveCommit(a)
      PROVE  KeyInv'
  BY <1>4, GiveKeyKeys, GivePlayerKeys, GiveMarkerKeys, GiveWalletKeys, GiveCommitKeys
     DEF RowsInv
<1>5. ASSUME NEW t \in Tabs, ClaimMarker(t) \/ ClaimGift(t) \/ ClaimPlayer(t)
      PROVE  KeyInv'
  BY <1>5, ClaimQuietKeys
<1>6. ASSUME NEW t \in Tabs, NEW n \in GiftAmounts, ClaimCommit(t, n) PROVE KeyInv'
  BY <1>6, ClaimCommitKeys DEF RowsInv
<1>7. ASSUME NEW p \in Players, NEW c \in OtherAmounts, OtherOperation(p, c) PROVE KeyInv'
  BY <1>7 DEF OtherOperation, KeyInv, KeyHeld
<1>8. CASE UNCHANGED vars
  BY <1>8 DEF vars, KeyInv, KeyHeld
<1> QED
  BY <1>1, <1>2, <1>3, <1>4, <1>5, <1>6, <1>7, <1>8 DEF Next, Step
-----------------------------------------------------------------------------
(* FreePlay implements GiftExchange *)

ExchangeVars == <<coin, told, wallet, gift>>

LEMMA GiveRefines ==
    ASSUME IInv, KeyInv, NEW a \in Givers, GiveCommit(a)
    PROVE  Exchange!Next
<1> DEFINE p == local[a].player
           k == local[a].key
           g == Cardinality(Given) + 1
<1>1. /\ pc[a] = "commit" /\ GiverInv(a) /\ KeyHeld(a) /\ a \in Requests /\ RowsTyped
      /\ UNCHANGED <<coin, told>>
      /\ gift' = [gift EXCEPT ![g] = [player |-> p, status |-> "pending",
                                      giver |-> a, key |-> k]]
      /\ wallet' = IF a \in Staff
                   THEN [wallet EXCEPT ![WalletOf[a]] = local[a].seen - StaffCost]
                   ELSE wallet
  BY Disjoint DEF IInv, RequestInv, KeyInv, GiveCommit, RowsInv
<1>2. p \in Players /\ marker[p].status # "pending" /\ k \in Keys \cup {NoKey}
  BY <1>1 DEF GiverInv, IInv, ControlTyped, Locals
<1>3. g \in Gifts /\ gift[g].status = "none"
  BY <1>1, NextGift DEF IInv
<1> HIDE DEF g
<1>4. Exchange!NothingToOpen(p)
  <2>1. ASSUME NEW h \in Gifts, gift[h].player = p, gift[h].status = "pending" PROVE FALSE
    <3>1. marker[p] = [gift |-> h, status |-> "pending"]
      BY <1>2, <2>1 DEF IInv, RowsInv, GiftsMatchMarkers
    <3> QED
      BY <1>2, <3>1
  <2> QED
    BY <2>1 DEF Exchange!NothingToOpen
<1>5. Exchange!NewKey(k)
  BY <1>1 DEF Exchange!NewKey, KeyHeld, KeyInv
<1>6. Exchange!Pay(a)
  BY <1>1 DEF Exchange!Pay, GiverInv
<1>7. Exchange!Give(a, p, k, g)
  BY <1>1, <1>3, <1>4, <1>5, <1>6 DEF Exchange!Give
<1> QED
  BY <1>2, <1>3, <1>7 DEF Exchange!Next

LEMMA ClaimRefines ==
    ASSUME IInv, NEW t \in Tabs, NEW n \in GiftAmounts, ClaimCommit(t, n)
    PROVE  [Exchange!Next]_ExchangeVars
<1> DEFINE p == local[t].player
           g == local[t].gift
<1>1. /\ g \in Gifts /\ p \in Players /\ local[t].seen = coin[p]
      /\ marker[p] = [gift |-> g, status |-> "pending"]
  BY DEF IInv, RequestInv, TabInv, ClaimCommit
<1>2. CASE g \in claimed
  BY <1>2 DEF ClaimCommit, tables, ExchangeVars
<1>3. CASE g \notin claimed
  <2>1. gift[g].player = p /\ gift[g].status = "pending"
    BY <1>1 DEF IInv, RowsInv, GiftsMatchMarkers
  <2>2. /\ coin' = [coin EXCEPT ![p] = Coin * (Whole(coin[p]) + n)]
        /\ told' = [told EXCEPT ![p] = told[p] + Coin * n]
        /\ gift' = [gift EXCEPT ![g].status = "claimed"]
        /\ UNCHANGED wallet
    BY <1>1, <1>3 DEF ClaimCommit
  <2>3. Exchange!Open(g, n)
    BY <2>1, <2>2 DEF Exchange!Open, Whole
  <2> QED
    BY <1>1, <2>3 DEF Exchange!Next
<1> QED
  BY <1>2, <1>3

LEMMA RefinesStep == IInv /\ KeyInv /\ [Next]_vars => [Exchange!Next]_ExchangeVars
<1> SUFFICES ASSUME IInv, KeyInv, [Next]_vars PROVE [Exchange!Next]_ExchangeVars
  OBVIOUS
<1>1. CASE UNCHANGED tables
  BY <1>1 DEF tables, ExchangeVars
<1>2. ASSUME NEW a \in Givers, GiveCommit(a) PROVE Exchange!Next
  BY <1>2, GiveRefines
<1>3. ASSUME NEW t \in Tabs, NEW n \in GiftAmounts, ClaimCommit(t, n)
      PROVE  [Exchange!Next]_ExchangeVars
  BY <1>3, ClaimRefines
<1>4. ASSUME NEW p \in Players, NEW c \in OtherAmounts, OtherOperation(p, c)
      PROVE  Exchange!Next
  BY <1>4 DEF OtherOperation, Exchange!Earn, Exchange!Next
<1>5. ASSUME NEW x \in Requests, Step(x) \/ Abort(x) PROVE [Exchange!Next]_ExchangeVars
  BY <1>1, <1>2, <1>3, <1>5 DEF Step, Abort, GiveKey, GivePlayer, GiveMarker, GiveWallet,
     ClaimMarker, ClaimGift, ClaimPlayer
<1> QED
  BY <1>1, <1>4, <1>5 DEF Next, SelectPlayer, OpenGift, vars, tables

LEMMA RefinesInit == Init => Exchange!Init
BY DEF Init, Exchange!Init

(* Whatever requests interleave, wait for each other or are rolled back,    *)
(* gifts are given and opened as GiftExchange says, one at a time: a marker,*)
(* a wallet, a key or coins that were read are still so at the commit.      *)
THEOREM LocksImplementExchange == Spec => ImplementsExchange
<1>1. Init => IInv /\ KeyInv
  BY InitInv, InitKeys
<1>2. IInv /\ KeyInv /\ [Next]_vars => (IInv /\ KeyInv)'
  BY NextInv, NextKeys
<1> QED
  BY <1>1, <1>2, RefinesInit, RefinesStep, PTL
     DEF Spec, ImplementsExchange, Exchange!Spec, Exchange!vars, ExchangeVars
=============================================================================
