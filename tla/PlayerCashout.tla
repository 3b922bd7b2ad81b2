--------------------------- MODULE PlayerCashout ---------------------------
(***************************************************************************)
(* Player cash-out requests as lib/sql/authorityCashout.ts runs them on    *)
(* PostgreSQL: a player turns wallet cash into a request, staff or a       *)
(* Telegram operator of the owning co-admin claims it for three minutes,   *)
(* and it is completed (the handler's cash box is credited), released,     *)
(* timed out, or declined (the cash goes back).                            *)
(*                                                                         *)
(* Every handler runs in one transaction that locks the task row first and *)
(* reads only rows it has locked, so its effect is one atomic step; a      *)
(* failed guard or a rollback leaves no trace and is a stuttering step.    *)
(* The exception is creation, which sums the rolling 24-hour usage before  *)
(* it locks the player row: it takes two steps, BeginCreate and            *)
(* CommitCreate, and other transactions commit in between.                 *)
(*                                                                         *)
(* Requests are for whole coins. Cash is in hundredths of a coin: redeems  *)
(* credit fractions, and three of the handlers drop the one they find.     *)
(***************************************************************************)
EXTENDS Integers, FiniteSets, FiniteSetsExt, Functions

CONSTANTS
    Players,        \* rows of players_cache with role player
    Actors,         \* staff, carers, co-admins and admins
    TelegramUsers,  \* Telegram operators acting for a co-admin
    Tasks,          \* the UUIDs drawn for requests: bounds how many are made
    Keys,           \* idempotency keys that callers send
    Nobody, NoUser, System,
    RoleOf,         \* Actors -> role
    ScopeOf,        \* Actors -> the co-admin whose tenant the actor serves
    CoadminOf,      \* Players -> the player's co-admin
    BoxHolders,     \* actors with a row in user_balance_snapshots_cache
    RewardBlocked,  \* actors whose handling reward is switched off
    InitialCash,    \* Players -> cash at the start, in hundredths
    Redeems,        \* what a redeem may credit, in hundredths
    MaxRedeemed,    \* bounds what a player redeems
    LegacyTasks,    \* requests that may have been imported from Firestore,
    LegacyPlayer, LegacyAmount,  \* and their player and amount
    DailyLimit      \* PLAYER_CASHOUT_MAX_NPR_PER_24_H

Roles == {"admin", "coadmin", "staff", "carer"}

ASSUME SentinelAssumption ==
    /\ Nobody \notin Actors \cup Players
    /\ System \notin Actors
    /\ NoUser \notin TelegramUsers

(* A uid is a player's or another actor's.                                  *)
ASSUME UidAssumption == Players \cap Actors = {}

ASSUME TenantAssumption ==
    /\ RoleOf \in [Actors -> Roles]
    /\ ScopeOf \in [Actors -> Actors]
    /\ CoadminOf \in [Players -> Actors]
    /\ \A p \in Players : RoleOf[CoadminOf[p]] = "coadmin"
    /\ \A a \in Actors : RoleOf[a] = "coadmin" => ScopeOf[a] = a

ASSUME MoneyAssumption ==
    /\ BoxHolders \subseteq Actors
    /\ RewardBlocked \subseteq Actors
    /\ DailyLimit \in Nat
    /\ InitialCash \in [Players -> Nat]
    /\ Redeems \subseteq Nat \ {0}
    /\ MaxRedeemed \in Nat
    /\ LegacyTasks \subseteq Tasks
    /\ LegacyPlayer \in [LegacyTasks -> Players]
    /\ LegacyAmount \in [LegacyTasks -> Nat \ {0}]

(* There are 2^122 random UUIDs.                                            *)
ASSUME TasksAssumption == IsFiniteSet(Tasks)

VARIABLES
    cash,     \* players_cache.cash, in hundredths
    redeemed, \* what redeems have credited, by player, in hundredths
    box,      \* cash_box_npr of the actors that have a snapshot row
    task,     \* player_cashout_tasks_cache
    recent,   \* tasks created within the last 24 hours
    overdue,  \* claimed tasks whose expires_at has passed
    drafts,   \* creations between their usage query and their commit
    ops,      \* authority_operations: claimed operation keys
    ledger    \* user_balance_events

vars == <<cash, redeemed, box, task, recent, overdue, drafts, ops, ledger>>

Coin == 100

(* Math.floor(cash), in coins. (Mutant: the balance is rounded.)            *)
Rounded(c) == (c + Coin \div 2) \div Coin

Whole(c) == c \div Coin

-----------------------------------------------------------------------------
(* Rows *)

Statuses == {"absent", "pending", "in_progress", "completed", "declined"}
Active   == {"pending", "in_progress"}

TaskRow ==
    [status : Statuses, player : Players \cup {Nobody}, amount : Nat,
     deducted : BOOLEAN,
     handler : Actors \cup {Nobody}, telegram : TelegramUsers \cup {NoUser}]

(* The idempotency keys, as <<operation, subject, rest of the key>>.       *)
OpKeys ==
    ({"create"} \X Players \X Keys)
        \cup ({"complete", "decline"} \X Tasks \X (Keys \cup TelegramUsers))
        \cup ({"start", "release"} \X Tasks \X Actors)
        \cup ({"timeout"} \X Tasks \X {System})

Kinds == {"request_debit", "handler_credit", "legacy_debit", "decline_refund"}

(* A balance event, in coins; key stands for the event_key column.         *)
Events ==
    [key : Kinds \X Tasks \X (OpKeys \cup Actors \cup Players),
     kind : Kinds, task : Tasks, user : Players \cup Actors, delta : Int]

Event(kind, t, u, n, id) ==
    [key |-> <<kind, t, id>>, kind |-> kind, task |-> t, user |-> u, delta |-> n]

(* INSERT ... ON CONFLICT (event_key) DO NOTHING. (Mutant: a key without the *)
(* task.)                                                                   *)
RecordedByUser(events, e) ==
    IF \E x \in events : x.kind = e.kind /\ x.user = e.user
    THEN events ELSE events \cup {e}

Recorded(events, e) ==
    IF \E x \in events : x.key = e.key THEN events ELSE events \cup {e}

-----------------------------------------------------------------------------
Unused ==
    [status |-> "absent", player |-> Nobody, amount |-> 0, deducted |-> FALSE,
     handler |-> Nobody, telegram |-> NoUser]

(* A new row, whose cash was or was not deducted on request. (Mutant: the    *)
(* flag is not stored.)                                                     *)
RequestedUnflagged(p, n, onRequest) ==
    [status |-> "pending", player |-> p, amount |-> n, deducted |-> FALSE,
     handler |-> Nobody, telegram |-> NoUser]

Requested(p, n, onRequest) ==
    [status |-> "pending", player |-> p, amount |-> n, deducted |-> onRequest,
     handler |-> Nobody, telegram |-> NoUser]

(* upsertCashoutTaskCache: a handler writes the whole row back with a new    *)
(* status and claim. (Mutant: COALESCE keeps the handler before.)           *)
UpsertedCoalesce(r, status, handler, telegram) ==
    [status |-> status, player |-> r.player, amount |-> r.amount,
     deducted |-> r.deducted, telegram |-> telegram,
     handler |-> IF r.handler = Nobody THEN handler ELSE r.handler]

Upserted(r, status, handler, telegram) ==
    [status |-> status, player |-> r.player, amount |-> r.amount,
     deducted |-> r.deducted, handler |-> handler, telegram |-> telegram]

Init ==
    /\ cash = InitialCash
    /\ redeemed = [p \in Players |-> 0]
    /\ box = [a \in BoxHolders |-> 0]
    /\ \E imported \in SUBSET LegacyTasks :
         task = [t \in Tasks |->
                 IF t \in imported
                 THEN Requested(LegacyPlayer[t], LegacyAmount[t], FALSE)
                 ELSE Unused]
    /\ recent = {}
    /\ overdue = {}
    /\ drafts = {}
    /\ ops = {}
    /\ ledger = {}

TaskCoadmin(t) == CoadminOf[task[t].player]

InScope(a, t) == RoleOf[a] = "admin" \/ ScopeOf[a] = TaskCoadmin(t)

-----------------------------------------------------------------------------
(* Creation *)

(* fetchRolling24hCashoutUsageNpr: the player's recent tasks that were not  *)
(* declined.                                                                *)
CountedTasks(p) ==
    {t \in recent : task[t].player = p /\ task[t].status # "declined"}

RollingUsed(p) == MapThenSumSet(LAMBDA t : task[t].amount, CountedTasks(p))

Quota(used) == IF used < DailyLimit THEN DailyLimit - used ELSE 0

Smaller(m, n) == IF m <= n THEN m ELSE n

(* createPlayerCashoutTaskInSql up to the lock on the player row: the        *)
(* operation key is claimed (a second call with the key waits for it) and   *)
(* the usage is summed from what has committed so far. (Mutant: the key is   *)
(* not claimed before the work.)                                            *)
BeginCreateUnclaimed(p, k) ==
    /\ drafts' = drafts \cup {[player |-> p, key |-> k, used |-> RollingUsed(p)]}
    /\ UNCHANGED <<cash, redeemed, box, task, recent, overdue, ops, ledger>>

BeginCreate(p, k) ==
    /\ <<"create", p, k>> \notin ops
    /\ \A d \in drafts : <<d.player, d.key>> # <<p, k>>
    /\ drafts' = drafts \cup {[player |-> p, key |-> k, used |-> RollingUsed(p)]}
    /\ UNCHANGED <<cash, redeemed, box, task, recent, overdue, ops, ledger>>

(* The rest of it: with the player locked, the request takes what the quota *)
(* of the earlier sum leaves of the whole coins; the fraction is dropped.   *)
CommitCreate(d, t) ==
    LET p  == d.player
        op == <<"create", p, d.key>>
    IN /\ task[t].status = "absent"
       /\ \E n \in 1 .. Whole(cash[p]) :
            /\ n = Smaller(Whole(cash[p]), Quota(d.used))
            /\ cash' = [cash EXCEPT ![p] = Coin * (Whole(@) - n)]
            /\ task' = [task EXCEPT ![t] = Requested(p, n, TRUE)]
            /\ ledger' = Recorded(ledger, Event("request_debit", t, p, -n, op))
       /\ recent' = recent \cup {t}
       /\ drafts' = drafts \ {d}
       /\ ops' = ops \cup {op}
       /\ UNCHANGED <<redeemed, box, overdue>>

(* ROLLBACK: no cash, no quota left, a maintenance break, a lost connection *)
(* or a statement timeout. The claim of the operation key goes with it.     *)
AbortCreate(d) ==
    /\ drafts' = drafts \ {d}
    /\ UNCHANGED <<cash, redeemed, box, task, recent, overdue, ops, ledger>>

-----------------------------------------------------------------------------
(* Claiming and releasing *)

(* startPlayerCashoutTaskInSql, from the staff and co-admin pages (u =      *)
(* NoUser) or for a Telegram operator, whose actor is the co-admin.         *)
CanAct(a, t, u) ==
    /\ InScope(a, t)
    /\ u # NoUser => a = TaskCoadmin(t)

Start(a, t, u) ==
    LET op == <<"start", t, a>> IN
    /\ RoleOf[a] \in {"admin", "coadmin", "staff"}
    /\ task[t].status = "pending"
    /\ task[t].handler = Nobody
    /\ CanAct(a, t, u)
    /\ op \notin ops
    /\ task' = [task EXCEPT ![t] = Upserted(@, "in_progress", a, u)]
    /\ overdue' = overdue \ {t}
    /\ ops' = ops \cup {op}
    /\ UNCHANGED <<cash, redeemed, box, recent, drafts, ledger>>

(* The three minutes of CASHOUT_TASK_DURATION_MS run out.                   *)
Expire(t) ==
    /\ task[t].status = "in_progress"
    /\ t \notin overdue
    /\ overdue' = overdue \cup {t}
    /\ UNCHANGED <<cash, redeemed, box, task, recent, drafts, ops, ledger>>

(* What a release leaves. (Mutant: the Telegram claim snapshot survives.)    *)
UnclaimedForStaff(r) == Upserted(r, "pending", Nobody, r.telegram)

Unclaimed(r) == Upserted(r, "pending", Nobody, NoUser)

(* releasePlayerCashoutTaskInSql with reason manual. A call whose operation *)
(* key is already claimed answers success and releases nothing.             *)
Release(a, t) ==
    LET op == <<"release", t, a>> IN
    /\ RoleOf[a] \in {"admin", "coadmin", "staff"}
    /\ task[t].status = "in_progress"
    /\ InScope(a, t)
    /\ task[t].handler = a \/ RoleOf[a] \in {"admin", "coadmin"}
    /\ op \notin ops
    /\ task' = [task EXCEPT ![t] = Unclaimed(@)]
    /\ overdue' = overdue \ {t}
    /\ ops' = ops \cup {op}
    /\ UNCHANGED <<cash, redeemed, box, recent, drafts, ledger>>

(* releaseExpiredPlayerCashoutTasksForCoadminInSql: one transaction over    *)
(* the co-admin's expired claims, run when a staff page polls its list.     *)
ExpiredTasks(c) ==
    {t \in overdue : task[t].status = "in_progress" /\ TaskCoadmin(t) = c}

TimeoutOp(t) == <<"timeout", t, System>>

(* Mutant: only the requests of the last day are listed.                    *)
ReleasableRecent(c) == {t \in ExpiredTasks(c) \cap recent : TimeoutOp(t) \notin ops}

Releasable(c) == {t \in ExpiredTasks(c) : TimeoutOp(t) \notin ops}

TimeoutRelease(c) ==
    /\ Releasable(c) # {}
    /\ task' = [t \in Tasks |-> IF t \in Releasable(c) THEN Unclaimed(task[t])
                                                       ELSE task[t]]
    /\ overdue' = overdue \ Releasable(c)
    /\ ops' = ops \cup {TimeoutOp(t) : t \in Releasable(c)}
    /\ UNCHANGED <<cash, redeemed, box, recent, drafts, ledger>>

-----------------------------------------------------------------------------
(* Settling *)

(* Math.max(1, Math.round(requestedAmount * 0.05))                          *)
Reward(n) == LET r == (5 * n + 50) \div 100 IN IF r < 1 THEN 1 ELSE r

Payout(a, n) == n + IF a \in RewardBlocked THEN 0 ELSE Reward(n)

(* Neither completion nor decline touches a settled request. (Mutants: one   *)
(* of the two ends is not looked for.)                                      *)
OpenOrDeclined(t) == task[t].status \in Active \cup {"declined"}
OpenOrCompleted(t) == task[t].status \in Active \cup {"completed"}

Open(t) == task[t].status \in Active

(* Cash not taken at creation has to be there at completion. (Mutant: no     *)
(* balance check.)                                                          *)
AffordableAnyway(t) == TRUE

Affordable(t) == ~task[t].deducted => Whole(cash[task[t].player]) >= task[t].amount

(* Who may complete: anyone in scope while the task is pending, afterwards  *)
(* its handler or a superior; through Telegram only the current claimant.   *)
(* (Mutant: the handler is not compared.)                                   *)
CanCompleteAnyone(a, t, u) ==
    /\ CanAct(a, t, u)
    /\ u # NoUser => task[t].status = "in_progress" /\ task[t].telegram = u

CanComplete(a, t, u) ==
    /\ CanAct(a, t, u)
    /\ \/ task[t].status = "pending"
       \/ task[t].handler = a
       \/ RoleOf[a] \in {"admin", "coadmin"}
    /\ u # NoUser => task[t].status = "in_progress" /\ task[t].telegram = u

(* completePlayerCashoutTaskInSql. The key of a Telegram completion is      *)
(* derived from the operator. An actor without a snapshot row keeps no box, *)
(* the event is recorded all the same.                                      *)
Complete(a, t, u, k) ==
    LET op  == <<"complete", t, k>>
        p   == task[t].player
        n   == task[t].amount
        pay == Payout(a, n)
        credited == Recorded(ledger, Event("handler_credit", t, a, pay, a))
    IN /\ Open(t)
       /\ CanComplete(a, t, u)
       /\ k \in IF u = NoUser THEN Keys ELSE {u}
       /\ Affordable(t)
       /\ op \notin ops
       /\ task' = [task EXCEPT ![t] = Upserted(@, "completed", a, @.telegram)]
       /\ overdue' = overdue \ {t}
       /\ box' = IF a \in BoxHolders THEN [box EXCEPT ![a] = @ + pay] ELSE box
       /\ IF task[t].deducted
          THEN /\ ledger' = credited
               /\ UNCHANGED cash
          ELSE /\ ledger' = Recorded(credited, Event("legacy_debit", t, p, -n, p))
               /\ cash' = [cash EXCEPT ![p] = Coin * (Whole(@) - n)]
       /\ ops' = ops \cup {op}
       /\ UNCHANGED <<redeemed, recent, drafts>>

(* declinePlayerCashoutTaskInSql: cash taken at creation goes back, on top  *)
(* of the whole coins that are there.                                       *)
Decline(a, t, k) ==
    LET op == <<"decline", t, k>>
        p  == task[t].player
        n  == task[t].amount
    IN /\ RoleOf[a] \in {"admin", "coadmin"}
       /\ Open(t)
       /\ InScope(a, t)
       /\ op \notin ops
       /\ task' = [task EXCEPT ![t] = Upserted(@, "declined", @.handler, @.telegram)]
       /\ overdue' = overdue \ {t}
       /\ IF task[t].deducted
          THEN /\ cash' = [cash EXCEPT ![p] = Coin * (Whole(@) + n)]
               /\ ledger' = Recorded(ledger, Event("decline_refund", t, p, n, op))
          ELSE UNCHANGED <<cash, ledger>>
       /\ ops' = ops \cup {op}
       /\ UNCHANGED <<redeemed, box, recent, drafts>>

(* completeRechargeRedeemTaskInSql of a redeem: credited as it is, with an   *)
(* entry of its own. (See GameRequests for when.)                           *)
Redeem(p, n) ==
    /\ redeemed[p] + n <= MaxRedeemed
    /\ cash' = [cash EXCEPT ![p] = @ + n]
    /\ redeemed' = [redeemed EXCEPT ![p] = @ + n]
    /\ UNCHANGED <<box, task, recent, overdue, drafts, ops, ledger>>

(* A day goes by: every request leaves the rolling window. Creations last   *)
(* seconds (statement timeout 15 s), so none is under way across it.        *)
WindowPasses ==
    /\ recent # {}
    /\ drafts = {}
    /\ recent' = {}
    /\ UNCHANGED <<cash, redeemed, box, task, overdue, drafts, ops, ledger>>

-----------------------------------------------------------------------------
Telegram == TelegramUsers \cup {NoUser}

Next ==
    \/ \E p \in Players, k \in Keys : BeginCreate(p, k)
    \/ \E d \in drafts, t \in Tasks : CommitCreate(d, t)
    \/ \E d \in drafts : AbortCreate(d)
    \/ \E a \in Actors, t \in Tasks, u \in Telegram : Start(a, t, u)
    \/ \E t \in Tasks : Expire(t)
    \/ \E a \in Actors, t \in Tasks : Release(a, t)
    \/ \E c \in Actors : TimeoutRelease(c)
    \/ \E a \in Actors, t \in Tasks, u \in Telegram, k \in Keys \cup TelegramUsers :
         Complete(a, t, u, k)
    \/ \E a \in Actors, t \in Tasks, k \in Keys : Decline(a, t, k)
    \/ \E p \in Players, n \in Redeems : Redeem(p, n)
    \/ WindowPasses

Spec == Init /\ [][Next]_vars

(* Staff pages poll their list every few seconds, and each poll times out   *)
(* what has expired. No other step is owed: people may leave a request      *)
(* alone for good.                                                          *)
PollingSpec == Spec /\ \A c \in Actors : WF_vars(TimeoutRelease(c))

-----------------------------------------------------------------------------
(* Properties *)

TypeOK ==
    /\ cash \in [Players -> Nat]
    /\ redeemed \in [Players -> Nat]
    /\ box \in [BoxHolders -> Nat]
    /\ task \in [Tasks -> TaskRow]
    /\ \A t \in Tasks : IF task[t].status = "absent" THEN task[t] = Unused
                                                   ELSE task[t].player \in Players
    /\ recent \subseteq Tasks
    /\ overdue \subseteq Tasks
    /\ \A d \in drafts : d.player \in Players /\ d.key \in Keys
    /\ ops \subseteq OpKeys
    /\ ledger \subseteq Events
    /\ \A e \in ledger : e.key[1] = e.kind /\ e.key[2] = e.task

Booked(kind, t) == {e \in ledger : e.kind = kind /\ e.task = t}

(* A request is paid out or refunded at most once and never both, over all  *)
(* interleavings of completions, declines, releases and their retries with  *)
(* the same or with fresh idempotency keys.                                 *)
SettledOnce ==
    \A t \in Tasks :
        /\ \A kind \in Kinds : \A e, f \in Booked(kind, t) : e = f
        /\ Booked("handler_credit", t) = {} \/ Booked("decline_refund", t) = {}

(* The balance events of a request tell its row: what was taken, given back *)
(* or credited for it, and to whom, is what the status and the handler say. *)
(* (scripts/compare-cashout-authority-ledger.cjs looks for rows that break  *)
(* this in a live database.)                                                *)
LedgerTellsRow ==
    \A t \in Tasks :
        LET r == task[t]
            Has(kind, user, n) ==
                \E e \in Booked(kind, t) : e.user = user /\ e.delta = n
        IN /\ IF r.deducted
              THEN Has("request_debit", r.player, -r.amount)
              ELSE Booked("request_debit", t) = {}
           /\ IF r.status = "completed"
              THEN Has("handler_credit", r.handler, Payout(r.handler, r.amount))
              ELSE Booked("handler_credit", t) = {}
           /\ IF r.status = "completed" /\ ~r.deducted
              THEN Has("legacy_debit", r.player, -r.amount)
              ELSE Booked("legacy_debit", t) = {}
           /\ IF r.status = "declined" /\ r.deducted
              THEN Has("decline_refund", r.player, r.amount)
              ELSE Booked("decline_refund", t) = {}

(* What row r says was taken from player p and not given back.              *)
Taken(r, p) ==
    IF /\ r.player = p
       /\ IF r.deducted THEN r.status # "declined" ELSE r.status = "completed"
    THEN r.amount ELSE 0

(* What is a player's: the wallet, what open requests hold and what was     *)
(* paid out, less what redeems brought in.                                  *)
Belongings(p) ==
    cash[p] - redeemed[p]
        + Coin * SumFunctionOnSet([t \in Tasks |-> Taken(task[t], p)], Tasks)

(* No step makes cash, and none loses any but the fraction of a coin that   *)
(* lies in the wallet: creation, decline and the completion of an imported  *)
(* request floor the balance they add to or take from.                      *)
OnlyFractionsLost ==
    [][\A p \in Players : Belongings(p) - Belongings(p)' \in {0, cash[p] % Coin}]_vars

(* What the events of L come to for a user, in coins.                       *)
BalanceIn(L, user) ==
    SumFunctionOnSet([e \in L |-> IF e.user = user THEN e.delta ELSE 0], L)

(* The reconciliation scripts compare the balances with the sums of their   *)
(* events. No step takes an event away, and the events that a step adds     *)
(* come to what it moves: to the coin for a cash box, but for the fraction  *)
(* it drops for a wallet, of which no event tells. A box exists only for an *)
(* actor with a snapshot row; redeems book what they credit.                *)
LedgerFollows ==
    [][LET booked == ledger' \ ledger IN
       /\ ledger \subseteq ledger'
       /\ \A a \in BoxHolders : box'[a] - box[a] = BalanceIn(booked, a)
       /\ \A p \in Players :
            LET moved == cash'[p] - cash[p] - (redeemed'[p] - redeemed[p])
            IN Coin * BalanceIn(booked, p) - moved \in {0, cash[p] % Coin}]_vars

(* A creation retried with its idempotency key takes cash only once, even   *)
(* when both calls are under way together.                                  *)
OneRequestPerKey ==
    \A e, f \in ledger :
        (e.kind = "request_debit" /\ f.kind = "request_debit" /\ e.key[3] = f.key[3])
            => e = f

(* A claim has one owner of the task's own tenant, the Telegram operator    *)
(* only under the co-admin, and a released or timed-out task keeps nothing  *)
(* of the claim before.                                                     *)
ClaimConsistent ==
    \A t \in Tasks :
        /\ task[t].status = "in_progress" =>
             /\ task[t].handler \in Actors
             /\ InScope(task[t].handler, t)
             /\ <<"start", t, task[t].handler>> \in ops
             /\ task[t].telegram # NoUser => task[t].handler = TaskCoadmin(t)
        /\ task[t].status = "completed" =>
             task[t].handler \in Actors /\ InScope(task[t].handler, t)
        /\ task[t].status \in {"absent", "pending"} =>
             /\ task[t].handler = Nobody
             /\ task[t].telegram = NoUser
        /\ t \in overdue => task[t].status = "in_progress"

(* No step takes a claim over from its owner: it is released first, and a   *)
(* claimed task is completed only by its handler or a superior.             *)
ClaimNotStolen ==
    [][\A t \in Tasks : task[t].status = "in_progress" =>
        CASE task'[t].status = "in_progress" ->
                /\ task'[t].handler = task[t].handler
                /\ task'[t].telegram = task[t].telegram
          [] task'[t].status = "completed" ->
                \/ task'[t].handler = task[t].handler
                \/ RoleOf[task'[t].handler] \in {"admin", "coadmin"}
          [] OTHER -> TRUE]_vars

(* A settled request is never touched again, by a late release, timeout,    *)
(* completion or decline, and books nothing more.                           *)
SettledForGood ==
    [][\A t \in Tasks : task[t].status \in {"completed", "declined"} =>
        /\ task'[t] = task[t]
        /\ \A e \in ledger' : e.task = t => e \in ledger]_vars

(* The first claim of a task that runs out is returned by the polls.        *)
FirstTimeoutReleases ==
    \A t \in Tasks :
        (t \in overdue /\ TimeoutOp(t) \notin ops) ~> t \notin overdue

-----------------------------------------------------------------------------
(* Claims of the repository that the code does not keep *)

(* features/cashouts/playerCashoutTasks.ts:91: the 24-hour maximum over all *)
(* requests of a player that were not declined.                             *)
RollingLimitKept == \A p \in Players : RollingUsed(p) <= DailyLimit

(* features/cashouts/playerCashoutTasks.ts:328: an expired claim counts as  *)
(* pending, for others to take; so it has to get back to pending.           *)
ExpiredClaimReleased == \A t \in Tasks : t \in overdue ~> t \notin overdue

-----------------------------------------------------------------------------
(* The settlement that all of this implements *)

Fate(r) ==
    CASE r.status = "absent"    -> "none"
      [] r.status \in Active    -> IF r.deducted THEN "held" ELSE "owed"
      [] r.status = "completed" -> "paid"
      [] r.status = "declined"  -> IF r.deducted THEN "refunded" ELSE "dropped"

Deal(r) ==
    [fate |-> Fate(r), player |-> r.player, amount |-> r.amount,
     to |-> IF r.status = "completed" THEN r.handler ELSE Nobody]

Settlement == INSTANCE CashoutSettlement
                WITH purse <- cash, till <- box,
                     deal <- [t \in Tasks |-> Deal(task[t])]

(* Every step of the handlers is a settlement step or leaves the money and  *)
(* the requests' fates alone.                                               *)
ImplementsSettlement == Settlement!Spec
=============================================================================
