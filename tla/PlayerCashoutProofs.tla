------------------------ MODULE PlayerCashoutProofs ------------------------
(***************************************************************************)
(* Proofs about PlayerCashout for every set of players, actors and tasks:  *)
(* its types, what each request and claim keep, that money and ledger add  *)
(* up, and that the handlers implement CashoutSettlement.                  *)
(***************************************************************************)
EXTENDS PlayerCashout, SumTheorems, TLAPS

USE SentinelAssumption, TenantAssumption, MoneyAssumption

(* A payout is a natural number, whatever the amount.                       *)
LEMMA PayoutType ==
    ASSUME NEW a \in Actors, NEW n \in Nat
    PROVE  Payout(a, n) \in Nat
<1>1. (5 * n + 50) \div 100 \in Int
  OBVIOUS
<1>2. Reward(n) \in Nat
  BY <1>1 DEF Reward
<1> QED
  BY <1>2 DEF Payout

(* Recording an event keeps the ledger a set of events whose key names      *)
(* their kind and task.                                                     *)
LEMMA EventType ==
    ASSUME NEW kind \in Kinds, NEW t \in Tasks, NEW u \in Players \cup Actors,
           NEW n \in Int, NEW id \in OpKeys \cup Actors \cup Players
    PROVE  /\ Event(kind, t, u, n, id) \in Events
           /\ Event(kind, t, u, n, id).key[1] = kind
           /\ Event(kind, t, u, n, id).key[2] = t
           /\ Event(kind, t, u, n, id).kind = kind
           /\ Event(kind, t, u, n, id).task = t
BY DEF Event, Events

(* So does the ON CONFLICT insert that may leave the ledger as it is.       *)
LEMMA RecordedType ==
    ASSUME NEW L, NEW e, L \subseteq Events, e \in Events,
           \A x \in L : x.key[1] = x.kind /\ x.key[2] = x.task,
           e.key[1] = e.kind, e.key[2] = e.task
    PROVE  /\ Recorded(L, e) \subseteq Events
           /\ \A x \in Recorded(L, e) : x.key[1] = x.kind /\ x.key[2] = x.task
BY DEF Recorded

(* The rows of the task table, as TypeOK has them.                           *)
Rows(T) ==
    /\ T \in [Tasks -> TaskRow]
    /\ \A t \in Tasks : IF T[t].status = "absent" THEN T[t] = Unused
                                                ELSE T[t].player \in Players

(* A handler replaces one row by a row of an existing request.              *)
LEMMA RowWritten ==
    ASSUME NEW T, Rows(T), NEW t \in Tasks, NEW r \in TaskRow,
           r.status # "absent", r.player \in Players
    PROVE  Rows([T EXCEPT ![t] = r])
BY DEF Rows

(* Writing back an existing row keeps its player, amount and origin.         *)
LEMMA UpsertedType ==
    ASSUME NEW t \in Tasks, Rows(task), task[t].status # "absent",
           NEW status \in Statuses \ {"absent"},
           NEW handler \in Actors \cup {Nobody},
           NEW telegram \in TelegramUsers \cup {NoUser}
    PROVE  LET row == Upserted(task[t], status, handler, telegram)
           IN row \in TaskRow /\ row.status # "absent" /\ row.player \in Players
<1>1. /\ task[t].player \in Players
      /\ task[t].amount \in Nat
      /\ task[t].deducted \in BOOLEAN
  BY DEF Rows, TaskRow
<1> QED
  BY <1>1 DEF Upserted, TaskRow

(* A balance is its whole coins and a fraction.                             *)
LEMMA WholeCoins ==
    ASSUME NEW c \in Nat
    PROVE  /\ Whole(c) \in Nat /\ c % Coin \in Nat
           /\ c % Coin = c - Coin * Whole(c)
<1>1. c \div 100 \in Nat /\ c % 100 \in Nat
  OBVIOUS
<1>2. c % 100 = c - 100 * (c \div 100)
  OBVIOUS
<1> QED
  BY <1>1, <1>2 DEF Whole, Coin

(* The first rows, absent or imported, have their types.                    *)
LEMMA TypeInit == Init => TypeOK
<1> SUFFICES ASSUME Init PROVE TypeOK
  OBVIOUS
<1> PICK imported \in SUBSET LegacyTasks :
      task = [t \in Tasks |->
               IF t \in imported
               THEN Requested(LegacyPlayer[t], LegacyAmount[t], FALSE)
               ELSE Unused]
  BY DEF Init
<1>1. \A t \in Tasks : task[t] \in TaskRow
  BY DEF Requested, Unused, TaskRow, Statuses
<1>2. \A t \in Tasks : IF task[t].status = "absent" THEN task[t] = Unused
                                                 ELSE task[t].player \in Players
  BY DEF Requested, Unused
<1> QED
  BY <1>1, <1>2 DEF Init, TypeOK

(* Every handler writes well-typed rows, balances, keys and events; cash     *)
(* stays a natural number because each debit is guarded by the balance.     *)
LEMMA TypeStep == TypeOK /\ [Next]_vars => TypeOK'
<1> SUFFICES ASSUME TypeOK, [Next]_vars PROVE TypeOK'
  OBVIOUS
<1> USE DEF TypeOK
<1>1. ASSUME NEW p \in Players, NEW k \in Keys, BeginCreate(p, k)
      PROVE  TypeOK'
  BY <1>1 DEF BeginCreate
<1>2. ASSUME NEW d \in drafts, NEW t \in Tasks, CommitCreate(d, t)
      PROVE  TypeOK'
  <2> DEFINE op == <<"create", d.player, d.key>>
  <2>1. PICK n \in 1 .. Whole(cash[d.player]) :
          /\ cash' = [cash EXCEPT ![d.player] = Coin * (Whole(@) - n)]
          /\ task' = [task EXCEPT ![t] = Requested(d.player, n, TRUE)]
          /\ ledger' = Recorded(ledger, Event("request_debit", t, d.player, -n, op))
    BY <1>2 DEF CommitCreate
  <2>2. /\ Whole(cash[d.player]) \in Nat /\ n \in Nat /\ -n \in Int
        /\ Whole(cash[d.player]) >= n
    BY WholeCoins
  <2>3. cash' \in [Players -> Nat]
    <3>1. Coin * (Whole(cash[d.player]) - n) \in Nat
      BY <2>2 DEF Coin
    <3> QED
      BY <2>1, <3>1
  <2>4. Requested(d.player, n, TRUE) \in TaskRow
    BY <2>2 DEF Requested, TaskRow, Statuses
  <2>5. op \in OpKeys
    BY DEF OpKeys
  <2>6. /\ ledger' \subseteq Events
        /\ \A e \in ledger' : e.key[1] = e.kind /\ e.key[2] = e.task
    <3> DEFINE e == Event("request_debit", t, d.player, -n, op)
    <3>1. e \in Events /\ e.key[1] = e.kind /\ e.key[2] = e.task
      BY <2>2, <2>5, EventType DEF Kinds
    <3> HIDE DEF e
    <3> QED
      BY <2>1, <3>1, RecordedType DEF e
  <2>7. ops' \subseteq OpKeys
    BY <2>5, <1>2 DEF CommitCreate
  <2>8. \A s \in Tasks : IF task'[s].status = "absent" THEN task'[s] = Unused
                                                 ELSE task'[s].player \in Players
    BY <2>1 DEF Requested
  <2> QED
    BY <1>2, <2>1, <2>3, <2>4, <2>6, <2>7, <2>8 DEF CommitCreate
<1>3. ASSUME NEW d \in drafts, AbortCreate(d)
      PROVE  TypeOK'
  BY <1>3 DEF AbortCreate
<1>4. ASSUME NEW a \in Actors, NEW t \in Tasks, NEW u \in Telegram, Start(a, t, u)
      PROVE  TypeOK'
  <2>1. <<"start", t, a>> \in OpKeys
    BY DEF OpKeys
  <2>2. /\ task' = [task EXCEPT ![t] = Upserted(@, "in_progress", a, u)]
        /\ task[t].status = "pending"
    BY <1>4 DEF Start
  <2>3. Rows(task')
    <3> DEFINE row == Upserted(task[t], "in_progress", a, u)
    <3>1. Rows(task)
      BY DEF Rows
    <3>2. row \in TaskRow /\ row.status # "absent" /\ row.player \in Players
      BY <2>2, <3>1, UpsertedType DEF Statuses, Telegram
    <3>3. task' = [task EXCEPT ![t] = row]
      BY <2>2
    <3> HIDE DEF row
    <3> QED
      BY <3>1, <3>2, <3>3, RowWritten
  <2>4. /\ ops' = ops \cup {<<"start", t, a>>}
        /\ overdue' = overdue \ {t}
        /\ UNCHANGED <<cash, redeemed, box, recent, drafts, ledger>>
    BY <1>4 DEF Start
  <2> QED
    BY <2>1, <2>2, <2>3, <2>4 DEF Rows
<1>5. ASSUME NEW t \in Tasks, Expire(t)
      PROVE  TypeOK'
  BY <1>5 DEF Expire
<1>6. ASSUME NEW a \in Actors, NEW t \in Tasks, Release(a, t)
      PROVE  TypeOK'
  <2>1. <<"release", t, a>> \in OpKeys
    BY DEF OpKeys
  <2>2. /\ task' = [task EXCEPT ![t] = Upserted(@, "pending", Nobody, NoUser)]
        /\ task[t].status = "in_progress"
    BY <1>6 DEF Release, Unclaimed
  <2>3. Rows(task')
    <3> DEFINE row == Upserted(task[t], "pending", Nobody, NoUser)
    <3>1. Rows(task)
      BY DEF Rows
    <3>2. row \in TaskRow /\ row.status # "absent" /\ row.player \in Players
      BY <2>2, <3>1, UpsertedType DEF Statuses, Telegram
    <3>3. task' = [task EXCEPT ![t] = row]
      BY <2>2
    <3> HIDE DEF row
    <3> QED
      BY <3>1, <3>2, <3>3, RowWritten
  <2>4. /\ ops' = ops \cup {<<"release", t, a>>}
        /\ overdue' = overdue \ {t}
        /\ UNCHANGED <<cash, redeemed, box, recent, drafts, ledger>>
    BY <1>6 DEF Release
  <2> QED
    BY <2>1, <2>2, <2>3, <2>4 DEF Rows
<1>7. ASSUME NEW c \in Actors, TimeoutRelease(c)
      PROVE  TypeOK'
  <2>1. Releasable(c) \subseteq Tasks
    BY DEF Releasable, ExpiredTasks
  <2>2. {TimeoutOp(t) : t \in Releasable(c)} \subseteq OpKeys
    BY <2>1 DEF TimeoutOp, OpKeys
  <2>3. \A t \in Releasable(c) : task[t].status = "in_progress"
    BY DEF Releasable, ExpiredTasks
  <2>4. task' = [t \in Tasks |->
                   IF t \in Releasable(c)
                   THEN Upserted(task[t], "pending", Nobody, NoUser) ELSE task[t]]
    BY <1>7 DEF TimeoutRelease, Unclaimed
  <2>5. Rows(task')
    <3>1. Rows(task)
      BY DEF Rows
    <3>2. \A t \in Releasable(c) :
            LET row == Upserted(task[t], "pending", Nobody, NoUser)
            IN row \in TaskRow /\ row.status # "absent" /\ row.player \in Players
      BY <2>1, <2>3, <3>1, UpsertedType DEF Statuses
    <3> HIDE DEF Releasable
    <3> QED
      BY <2>4, <3>1, <3>2 DEF Rows
  <2>6. /\ ops' \subseteq OpKeys
        /\ overdue' \subseteq overdue
        /\ UNCHANGED <<cash, redeemed, box, recent, drafts, ledger>>
    BY <1>7, <2>2 DEF TimeoutRelease
  <2> QED
    BY <2>5, <2>6 DEF Rows
<1>8. ASSUME NEW a \in Actors, NEW t \in Tasks, NEW u \in Telegram,
             NEW k \in Keys \cup TelegramUsers, Complete(a, t, u, k)
      PROVE  TypeOK'
  <2> DEFINE op  == <<"complete", t, k>>
             p   == task[t].player
             n   == task[t].amount
             pay == Payout(a, n)
             credit == Event("handler_credit", t, a, pay, a)
             debit  == Event("legacy_debit", t, p, -n, p)
  <2>1. op \in OpKeys
    BY DEF OpKeys
  <2>2. n \in Nat /\ -n \in Int /\ p \in Players
    BY <1>8 DEF Complete, Open, Active, TaskRow
  <2>3. pay \in Nat
    BY <2>2, PayoutType
  <2>4. cash' \in [Players -> Nat]
    <3>1. CASE task[t].deducted
      BY <1>8, <3>1 DEF Complete
    <3>2. CASE ~task[t].deducted
      <4>1. Whole(cash[p]) >= n /\ cash' = [cash EXCEPT ![p] = Coin * (Whole(@) - n)]
        BY <1>8, <3>2 DEF Complete, Affordable
      <4> HIDE DEF n, p
      <4>2. Coin * (Whole(cash[p]) - n) \in Nat
        <5>1. Whole(cash[p]) \in Nat
          BY <2>2, WholeCoins
        <5> QED
          BY <2>2, <4>1, <5>1 DEF Coin
      <4> QED
        BY <4>1, <4>2
    <3> QED
      BY <3>1, <3>2
  <2>5. box' \in [BoxHolders -> Nat]
    <3>1. box' = IF a \in BoxHolders THEN [box EXCEPT ![a] = @ + pay] ELSE box
      BY <1>8 DEF Complete
    <3> HIDE DEF pay
    <3> QED
      BY <3>1, <2>3
  <2>6. /\ ledger' \subseteq Events
        /\ \A e \in ledger' : e.key[1] = e.kind /\ e.key[2] = e.task
    <3>1. credit \in Events /\ credit.key[1] = credit.kind /\ credit.key[2] = credit.task
      BY <2>3, EventType DEF Kinds
    <3>2. debit \in Events /\ debit.key[1] = debit.kind /\ debit.key[2] = debit.task
      BY <2>2, EventType DEF Kinds
    <3>3. \/ ledger' = Recorded(ledger, credit)
          \/ ledger' = Recorded(Recorded(ledger, credit), debit)
      BY <1>8 DEF Complete
    <3> HIDE DEF credit, debit
    <3>4. /\ Recorded(ledger, credit) \subseteq Events
          /\ \A e \in Recorded(ledger, credit) : e.key[1] = e.kind /\ e.key[2] = e.task
      BY <3>1, RecordedType
    <3>5. /\ Recorded(Recorded(ledger, credit), debit) \subseteq Events
          /\ \A e \in Recorded(Recorded(ledger, credit), debit) :
               e.key[1] = e.kind /\ e.key[2] = e.task
      BY <3>2, <3>4, RecordedType
    <3> QED
      BY <3>3, <3>4, <3>5
  <2>7. /\ task' = [task EXCEPT ![t] = Upserted(@, "completed", a, @.telegram)]
        /\ task[t].status \in Active
    BY <1>8 DEF Complete, Open
  <2>8. Rows(task')
    <3> DEFINE row == Upserted(task[t], "completed", a, task[t].telegram)
    <3>1. Rows(task)
      BY DEF Rows
    <3>2. row \in TaskRow /\ row.status # "absent" /\ row.player \in Players
      BY <2>2, <2>7, <3>1, UpsertedType DEF Statuses, Telegram, TaskRow, Active
    <3>3. task' = [task EXCEPT ![t] = row]
      BY <2>2, <2>7
    <3> HIDE DEF row
    <3> QED
      BY <3>1, <3>2, <3>3, RowWritten
  <2>9. ops' \subseteq OpKeys
    BY <1>8, <2>1 DEF Complete
  <2>10. overdue' \subseteq overdue /\ UNCHANGED <<redeemed, recent, drafts>>
    BY <1>8 DEF Complete
  <2> QED
    BY <2>4, <2>5, <2>6, <2>8, <2>9, <2>10 DEF Rows
<1>9. ASSUME NEW a \in Actors, NEW t \in Tasks, NEW k \in Keys, Decline(a, t, k)
      PROVE  TypeOK'
  <2> DEFINE op == <<"decline", t, k>>
             p  == task[t].player
             n  == task[t].amount
             refund == Event("decline_refund", t, p, n, op)
  <2>1. op \in OpKeys
    BY DEF OpKeys
  <2>2. n \in Nat /\ p \in Players
    BY <1>9 DEF Decline, Open, Active, TaskRow
  <2>3. cash' \in [Players -> Nat]
    <3>1. cash' = cash \/ cash' = [cash EXCEPT ![p] = Coin * (Whole(@) + n)]
      BY <1>9 DEF Decline
    <3> HIDE DEF n, p
    <3>2. Coin * (Whole(cash[p]) + n) \in Nat
      <4>1. Whole(cash[p]) \in Nat
        BY <2>2, WholeCoins
      <4> QED
        BY <2>2, <4>1 DEF Coin
    <3> QED
      BY <3>1, <3>2
  <2>4. /\ ledger' \subseteq Events
        /\ \A e \in ledger' : e.key[1] = e.kind /\ e.key[2] = e.task
    <3>1. refund \in Events /\ refund.key[1] = refund.kind /\ refund.key[2] = refund.task
      BY <2>1, <2>2, EventType DEF Kinds
    <3>2. ledger' = ledger \/ ledger' = Recorded(ledger, refund)
      BY <1>9 DEF Decline
    <3> HIDE DEF refund
    <3> QED
      BY <3>1, <3>2, RecordedType
  <2>5. /\ task' = [task EXCEPT ![t] = Upserted(@, "declined", @.handler, @.telegram)]
        /\ task[t].status \in Active
    BY <1>9 DEF Decline, Open
  <2>6. Rows(task')
    <3> DEFINE row == Upserted(task[t], "declined", task[t].handler, task[t].telegram)
    <3>1. Rows(task)
      BY DEF Rows
    <3>2. row \in TaskRow /\ row.status # "absent" /\ row.player \in Players
      BY <2>2, <2>5, <3>1, UpsertedType DEF Statuses, Telegram, TaskRow, Active
    <3>3. task' = [task EXCEPT ![t] = row]
      BY <2>2, <2>5
    <3> HIDE DEF row
    <3> QED
      BY <3>1, <3>2, <3>3, RowWritten
  <2>7. ops' \subseteq OpKeys
    BY <1>9, <2>1 DEF Decline
  <2>8. overdue' \subseteq overdue /\ UNCHANGED <<redeemed, box, recent, drafts>>
    BY <1>9 DEF Decline
  <2> QED
    BY <2>3, <2>4, <2>6, <2>7, <2>8 DEF Rows
<1>r. ASSUME NEW p \in Players, NEW n \in Redeems, Redeem(p, n)
      PROVE  TypeOK'
  <2>1. n \in Nat
    BY MoneyAssumption
  <2> QED
    BY <1>r, <2>1 DEF Redeem
<1>10. ASSUME WindowPasses
       PROVE  TypeOK'
  BY <1>10 DEF WindowPasses
<1>11. ASSUME UNCHANGED vars
       PROVE  TypeOK'
  BY <1>11 DEF vars, Booked
<1> QED
  BY <1>1, <1>2, <1>3, <1>4, <1>5, <1>6, <1>7, <1>8, <1>9, <1>r, <1>10, <1>11
     DEF Next

(* The rows, balances, keys and events keep their types, in every reachable *)
(* state of every instance.                                                 *)
THEOREM TypeCorrect == Spec => []TypeOK
BY TypeInit, TypeStep, PTL DEF Spec

-----------------------------------------------------------------------------
(* The ledger and the rows *)

BookedIn(L, kind, t) == {e \in L : e.kind = kind /\ e.task = t}

Has(L, kind, t, user, n) ==
    \E e \in BookedIn(L, kind, t) : e.user = user /\ e.delta = n

(* One row's part of LedgerTellsRow and of SettledOnce, over any ledger.    *)
Tells(L, t, r) ==
    /\ IF r.deducted
       THEN Has(L, "request_debit", t, r.player, -r.amount)
       ELSE BookedIn(L, "request_debit", t) = {}
    /\ IF r.status = "completed"
       THEN Has(L, "handler_credit", t, r.handler, Payout(r.handler, r.amount))
       ELSE BookedIn(L, "handler_credit", t) = {}
    /\ IF r.status = "completed" /\ ~r.deducted
       THEN Has(L, "legacy_debit", t, r.player, -r.amount)
       ELSE BookedIn(L, "legacy_debit", t) = {}
    /\ IF r.status = "declined" /\ r.deducted
       THEN Has(L, "decline_refund", t, r.player, r.amount)
       ELSE BookedIn(L, "decline_refund", t) = {}

Once(L, t) == \A kind \in Kinds : \A e, f \in BookedIn(L, kind, t) : e = f

(* The two invariants, row by row.                                          *)
LEMMA RowByRow ==
    /\ LedgerTellsRow <=> \A t \in Tasks : Tells(ledger, t, task[t])
    /\ SettledOnce <=>
         \A t \in Tasks :
            /\ Once(ledger, t)
            /\ \/ BookedIn(ledger, "handler_credit", t) = {}
               \/ BookedIn(ledger, "decline_refund", t) = {}
BY DEF LedgerTellsRow, SettledOnce, Tells, Has, Once, Booked, BookedIn

(* A row that tells its events was not both paid out and refunded.          *)
LEMMA OneEnd ==
    ASSUME NEW L, NEW t, NEW r, Tells(L, t, r)
    PROVE  \/ BookedIn(L, "handler_credit", t) = {}
           \/ BookedIn(L, "decline_refund", t) = {}
BY DEF Tells

(* An event of a kind that its task has no event of yet is really inserted.  *)
LEMMA RecordedNew ==
    ASSUME NEW L, NEW e, NEW kind, NEW t,
           \A x \in L : x.key[1] = x.kind /\ x.key[2] = x.task,
           e.key[1] = kind, e.key[2] = t,
           BookedIn(L, kind, t) = {}
    PROVE  Recorded(L, e) = L \cup {e}
<1>1. \A x \in L : x.key # e.key
  BY DEF BookedIn
<1> QED
  BY <1>1 DEF Recorded

(* Claiming, releasing and timing out leave a request unsettled.            *)
LEMMA ClaimTells ==
    ASSUME NEW L, NEW t, NEW r, Tells(L, t, r), r.status \in Active,
           NEW status \in Active, NEW handler, NEW telegram
    PROVE  Tells(L, t, Upserted(r, status, handler, telegram))
BY DEF Tells, Active, Upserted

(* One row is rewritten and events of its task alone are recorded: every     *)
(* other row still tells its events.                                        *)
LEMMA OthersTell ==
    ASSUME NEW L, NEW M, NEW t \in Tasks, NEW T, NEW r,
           T \in [Tasks -> TaskRow],
           \A s \in Tasks : Tells(L, s, T[s]) /\ Once(L, s),
           \A s \in Tasks \ {t}, kind \in Kinds :
               BookedIn(M, kind, s) = BookedIn(L, kind, s),
           Tells(M, t, r) /\ Once(M, t)
    PROVE  \A s \in Tasks :
             Tells(M, s, [T EXCEPT ![t] = r][s]) /\ Once(M, s)
<1> SUFFICES ASSUME NEW s \in Tasks
             PROVE  Tells(M, s, [T EXCEPT ![t] = r][s]) /\ Once(M, s)
  OBVIOUS
<1>1. CASE s = t
  BY <1>1
<1>2. CASE s # t
  <2>1. [T EXCEPT ![t] = r][s] = T[s]
    BY <1>2
  <2>2. Once(M, s)
    BY <1>2 DEF Once
  <2>3. Tells(M, s, T[s])
    BY <1>2 DEF Tells, Has, Kinds
  <2> QED
    BY <2>1, <2>2, <2>3
<1> QED
  BY <1>1, <1>2
(* What the ledger invariant rests on: the row types, each row telling its  *)
(* events, and no event of one kind booked twice for a task.                *)
LedgerInv ==
    /\ TypeOK
    /\ \A t \in Tasks : Tells(ledger, t, task[t]) /\ Once(ledger, t)

(* At the start nothing is booked and nothing is settled.                   *)
LEMMA LedgerInit == Init => LedgerInv
<1> SUFFICES ASSUME Init PROVE LedgerInv
  OBVIOUS
<1>1. TypeOK
  BY TypeInit
<1>2. ledger = {}
  BY DEF Init
<1>3. \A t \in Tasks : task[t].deducted = FALSE /\ task[t].status \in {"absent", "pending"}
  BY DEF Init, Requested, Unused
<1>4. ASSUME NEW t \in Tasks PROVE Tells(ledger, t, task[t]) /\ Once(ledger, t)
  BY <1>2, <1>3 DEF Tells, Once, BookedIn
<1> QED
  BY <1>1, <1>4 DEF LedgerInv

(* A handler that rewrites one row and books nothing but what the new row    *)
(* tells keeps the invariant.                                               *)
LEMMA OneRowStep ==
    ASSUME LedgerInv, TypeOK', NEW t \in Tasks, NEW r,
           task' = [task EXCEPT ![t] = r],
           \A s \in Tasks \ {t}, kind \in Kinds :
               BookedIn(ledger', kind, s) = BookedIn(ledger, kind, s),
           Tells(ledger', t, r), Once(ledger', t)
    PROVE  LedgerInv'
<1>1. /\ task \in [Tasks -> TaskRow]
      /\ \A s \in Tasks : Tells(ledger, s, task[s]) /\ Once(ledger, s)
  BY DEF LedgerInv, TypeOK
<1>2. \A s \in Tasks :
        Tells(ledger', s, [task EXCEPT ![t] = r][s]) /\ Once(ledger', s)
  BY <1>1, OthersTell
<1> QED
  BY <1>2 DEF LedgerInv

(* Every step of the handlers keeps it.                                     *)
LEMMA LedgerStep == LedgerInv /\ [Next]_vars => LedgerInv'
<1> SUFFICES ASSUME LedgerInv, [Next]_vars PROVE LedgerInv'
  OBVIOUS
<1>0. TypeOK /\ TypeOK'
  BY TypeStep DEF LedgerInv
<1>a. /\ \A e \in ledger : e.key[1] = e.kind /\ e.key[2] = e.task
      /\ task \in [Tasks -> TaskRow]
      /\ \A t \in Tasks : IF task[t].status = "absent" THEN task[t] = Unused
                                                      ELSE task[t].player \in Players
  BY <1>0 DEF TypeOK
<1>b. ASSUME UNCHANGED <<task, ledger>> PROVE LedgerInv'
  BY <1>0, <1>b DEF LedgerInv
<1>c. ASSUME NEW t \in Tasks, task[t].status \in Active,
             NEW status \in Active, NEW h, NEW g,
             task' = [task EXCEPT ![t] = Upserted(@, status, h, g)],
             UNCHANGED ledger
      PROVE  LedgerInv'
  <2> DEFINE row == Upserted(task[t], status, h, g)
  <2>1. Tells(ledger, t, row) /\ Once(ledger, t)
    BY <1>c, ClaimTells DEF LedgerInv
  <2>2. task' = [task EXCEPT ![t] = row]
    BY <1>c, <1>a
  <2> HIDE DEF row
  <2> QED
    BY <1>0, <1>c, <2>1, <2>2, OneRowStep
<1>1. ASSUME NEW p \in Players, NEW k \in Keys, BeginCreate(p, k)
      PROVE  LedgerInv'
  BY <1>1, <1>b DEF BeginCreate
<1>2. ASSUME NEW d \in drafts, NEW t \in Tasks, CommitCreate(d, t)
      PROVE  LedgerInv'
  <2> DEFINE op == <<"create", d.player, d.key>>
  <2>1. PICK n \in 1 .. Whole(cash[d.player]) :
          /\ task' = [task EXCEPT ![t] = Requested(d.player, n, TRUE)]
          /\ ledger' = Recorded(ledger, Event("request_debit", t, d.player, -n, op))
    BY <1>2 DEF CommitCreate
  <2> DEFINE row == Requested(d.player, n, TRUE)
             e   == Event("request_debit", t, d.player, -n, op)
  <2>2. task[t] = Unused
    BY <1>2, <1>a DEF CommitCreate
  <2>3. /\ BookedIn(ledger, "request_debit", t) = {}
        /\ BookedIn(ledger, "handler_credit", t) = {}
        /\ BookedIn(ledger, "legacy_debit", t) = {}
        /\ BookedIn(ledger, "decline_refund", t) = {}
    BY <2>2 DEF LedgerInv, Tells, Unused
  <2>4. /\ e.key[1] = e.kind /\ e.key[2] = e.task
        /\ e.kind = "request_debit" /\ e.task = t
        /\ e.user = d.player /\ e.delta = -n
    BY DEF Event
  <2>5. row.status = "pending" /\ row.deducted /\ row.player = d.player /\ row.amount = n
    BY DEF Requested
  <2>6. task' = [task EXCEPT ![t] = row] /\ ledger' = Recorded(ledger, e)
    BY <2>1
  <2> HIDE DEF row, e
  <2>7. /\ BookedIn(ledger', "request_debit", t) = {e}
        /\ \A kind, s : (kind # "request_debit" \/ s # t) =>
             BookedIn(ledger', kind, s) = BookedIn(ledger, kind, s)
    <3>1. ledger' = ledger \cup {e}
      BY <1>a, <2>3, <2>4, <2>6, RecordedNew
    <3> QED
      BY <2>3, <2>4, <3>1 DEF BookedIn
  <2>8. Tells(ledger', t, row)
    BY <2>3, <2>4, <2>5, <2>7 DEF Tells, Has
  <2>9. Once(ledger', t)
    BY <2>3, <2>7 DEF Once, Kinds
  <2> QED
    BY <1>0, <2>6, <2>7, <2>8, <2>9, OneRowStep
<1>3. ASSUME NEW d \in drafts, AbortCreate(d)
      PROVE  LedgerInv'
  BY <1>3, <1>b DEF AbortCreate
<1>4. ASSUME NEW a \in Actors, NEW t \in Tasks, NEW u \in Telegram, Start(a, t, u)
      PROVE  LedgerInv'
  BY <1>4, <1>c DEF Start, Active
<1>5. ASSUME NEW t \in Tasks, Expire(t)
      PROVE  LedgerInv'
  BY <1>5, <1>b DEF Expire
<1>6. ASSUME NEW a \in Actors, NEW t \in Tasks, Release(a, t)
      PROVE  LedgerInv'
  BY <1>6, <1>c DEF Release, Unclaimed, Active
<1>7. ASSUME NEW c \in Actors, TimeoutRelease(c)
      PROVE  LedgerInv'
  <2>1. \A t \in Releasable(c) : task[t].status \in Active
    BY DEF Releasable, ExpiredTasks, Active
  <2>2. /\ task' = [t \in Tasks |->
                     IF t \in Releasable(c)
                     THEN Upserted(task[t], "pending", Nobody, NoUser) ELSE task[t]]
        /\ ledger' = ledger
    BY <1>7 DEF TimeoutRelease, Unclaimed
  <2>3. ASSUME NEW t \in Tasks PROVE Tells(ledger', t, task'[t]) /\ Once(ledger', t)
    <3>1. Tells(ledger, t, task[t]) /\ Once(ledger, t)
      BY DEF LedgerInv
    <3>2. CASE t \in Releasable(c)
      <4>1. Tells(ledger, t, Upserted(task[t], "pending", Nobody, NoUser))
        BY <2>1, <3>1, <3>2, ClaimTells DEF Active
      <4> QED
        BY <2>2, <3>1, <3>2, <4>1
    <3>3. CASE t \notin Releasable(c)
      BY <2>2, <3>1, <3>3
    <3> QED
      BY <3>2, <3>3
  <2> QED
    BY <1>0, <2>3 DEF LedgerInv
<1>8. ASSUME NEW a \in Actors, NEW t \in Tasks, NEW u \in Telegram,
             NEW k \in Keys \cup TelegramUsers, Complete(a, t, u, k)
      PROVE  LedgerInv'
  <2> DEFINE p   == task[t].player
             n   == task[t].amount
             pay == Payout(a, n)
             row == Upserted(task[t], "completed", a, task[t].telegram)
             credit == Event("handler_credit", t, a, pay, a)
             debit  == Event("legacy_debit", t, p, -n, p)
  <2>1. /\ task[t].status \in Active
        /\ task' = [task EXCEPT ![t] = row]
        /\ IF task[t].deducted
           THEN ledger' = Recorded(ledger, credit)
           ELSE ledger' = Recorded(Recorded(ledger, credit), debit)
    BY <1>8, <1>a DEF Complete, Open
  <2>2. /\ BookedIn(ledger, "handler_credit", t) = {}
        /\ BookedIn(ledger, "legacy_debit", t) = {}
        /\ BookedIn(ledger, "decline_refund", t) = {}
        /\ IF task[t].deducted THEN Has(ledger, "request_debit", t, p, -n)
                               ELSE BookedIn(ledger, "request_debit", t) = {}
        /\ Once(ledger, t)
    BY <2>1 DEF LedgerInv, Tells, Active
  <2>3. /\ credit.key[1] = credit.kind /\ credit.key[2] = credit.task
        /\ credit.kind = "handler_credit" /\ credit.task = t
        /\ credit.user = a /\ credit.delta = Payout(a, n)
    BY DEF Event
  <2>4. /\ debit.key[1] = debit.kind /\ debit.key[2] = debit.task
        /\ debit.kind = "legacy_debit" /\ debit.task = t
        /\ debit.user = p /\ debit.delta = -n
    BY DEF Event
  <2>5. /\ row.status = "completed" /\ row.handler = a /\ row.player = p
        /\ row.amount = n /\ row.deducted = task[t].deducted
    BY DEF Upserted
  <2>6. \A e \in Recorded(ledger, credit) : e.key[1] = e.kind /\ e.key[2] = e.task
    <3> HIDE DEF credit
    <3> QED
      BY <1>a, <2>3 DEF Recorded
  <2> HIDE DEF p, n, pay, row, credit, debit
  <2>7. /\ BookedIn(Recorded(ledger, credit), "handler_credit", t) = {credit}
        /\ \A kind, s : (kind # "handler_credit" \/ s # t) =>
             BookedIn(Recorded(ledger, credit), kind, s) = BookedIn(ledger, kind, s)
    <3>1. Recorded(ledger, credit) = ledger \cup {credit}
      BY <1>a, <2>2, <2>3, RecordedNew
    <3> QED
      BY <2>2, <2>3, <3>1 DEF BookedIn
  <2>8. CASE task[t].deducted
    <3>1. ledger' = Recorded(ledger, credit)
      BY <2>1, <2>8
    <3>2. Tells(ledger', t, row)
      BY <2>2, <2>3, <2>5, <2>7, <2>8, <3>1 DEF Tells, Has
    <3>3. Once(ledger', t)
      BY <2>2, <2>7, <3>1 DEF Once
    <3> QED
      BY <1>0, <2>1, <2>7, <3>1, <3>2, <3>3, OneRowStep
  <2>9. CASE ~task[t].deducted
    <3>1. ledger' = Recorded(Recorded(ledger, credit), debit)
      BY <2>1, <2>9
    <3>2. BookedIn(Recorded(ledger, credit), "legacy_debit", t) = {}
      BY <2>2, <2>7
    <3>3. /\ BookedIn(ledger', "legacy_debit", t) = {debit}
          /\ \A kind, s : (kind # "legacy_debit" \/ s # t) =>
               BookedIn(ledger', kind, s) = BookedIn(Recorded(ledger, credit), kind, s)
      <4>1. ledger' = Recorded(ledger, credit) \cup {debit}
        BY <2>4, <2>6, <3>1, <3>2, RecordedNew
      <4> QED
        BY <2>4, <3>2, <4>1 DEF BookedIn
    <3>4. Tells(ledger', t, row)
      BY <2>2, <2>3, <2>4, <2>5, <2>7, <2>9, <3>3 DEF Tells, Has
    <3>5. Once(ledger', t)
      BY <2>2, <2>7, <3>3 DEF Once
    <3>6. \A s \in Tasks \ {t}, kind \in Kinds :
            BookedIn(ledger', kind, s) = BookedIn(ledger, kind, s)
      BY <2>7, <3>3
    <3> QED
      BY <1>0, <2>1, <3>4, <3>5, <3>6, OneRowStep
  <2> QED
    BY <2>8, <2>9
<1>9. ASSUME NEW a \in Actors, NEW t \in Tasks, NEW k \in Keys, Decline(a, t, k)
      PROVE  LedgerInv'
  <2> DEFINE p  == task[t].player
             n  == task[t].amount
             row == Upserted(task[t], "declined", task[t].handler, task[t].telegram)
             refund == Event("decline_refund", t, p, n, <<"decline", t, k>>)
  <2>1. /\ task[t].status \in Active
        /\ task' = [task EXCEPT ![t] = row]
        /\ IF task[t].deducted THEN ledger' = Recorded(ledger, refund)
                               ELSE ledger' = ledger
    BY <1>9, <1>a DEF Decline, Open
  <2>2. /\ BookedIn(ledger, "handler_credit", t) = {}
        /\ BookedIn(ledger, "legacy_debit", t) = {}
        /\ BookedIn(ledger, "decline_refund", t) = {}
        /\ IF task[t].deducted THEN Has(ledger, "request_debit", t, p, -n)
                               ELSE BookedIn(ledger, "request_debit", t) = {}
        /\ Once(ledger, t)
    BY <2>1 DEF LedgerInv, Tells, Active
  <2>3. /\ refund.key[1] = refund.kind /\ refund.key[2] = refund.task
        /\ refund.kind = "decline_refund" /\ refund.task = t
        /\ refund.user = p /\ refund.delta = n
    BY DEF Event
  <2>4. /\ row.status = "declined" /\ row.player = p
        /\ row.amount = n /\ row.deducted = task[t].deducted
    BY DEF Upserted
  <2> HIDE DEF p, n, row, refund
  <2>5. CASE task[t].deducted
    <3>1. /\ BookedIn(ledger', "decline_refund", t) = {refund}
          /\ \A kind, s : (kind # "decline_refund" \/ s # t) =>
               BookedIn(ledger', kind, s) = BookedIn(ledger, kind, s)
      <4>1. ledger' = ledger \cup {refund}
        BY <1>a, <2>1, <2>2, <2>3, <2>5, RecordedNew
      <4> QED
        BY <2>2, <2>3, <4>1 DEF BookedIn
    <3>2. Tells(ledger', t, row)
      BY <2>2, <2>3, <2>4, <2>5, <3>1 DEF Tells, Has
    <3>3. Once(ledger', t)
      BY <2>2, <3>1 DEF Once
    <3> QED
      BY <1>0, <2>1, <3>1, <3>2, <3>3, OneRowStep
  <2>6. CASE ~task[t].deducted
    <3>1. Tells(ledger', t, row)
      BY <2>1, <2>2, <2>4, <2>6 DEF Tells
    <3> QED
      BY <1>0, <2>1, <2>2, <2>6, <3>1, OneRowStep
  <2> QED
    BY <2>5, <2>6
<1>r. ASSUME NEW p \in Players, NEW n \in Redeems, Redeem(p, n)
      PROVE  LedgerInv'
  BY <1>r, <1>b DEF Redeem
<1>10. ASSUME WindowPasses
       PROVE  LedgerInv'
  BY <1>10, <1>b DEF WindowPasses
<1>11. ASSUME UNCHANGED vars
       PROVE  LedgerInv'
  BY <1>11, <1>b DEF vars
<1> QED
  BY <1>1, <1>2, <1>3, <1>4, <1>5, <1>6, <1>7, <1>8, <1>9, <1>r, <1>10, <1>11
     DEF Next

(* However requests are claimed, retried, timed out and settled, the events  *)
(* of each tell its row.                                                    *)
THEOREM LedgerAlwaysTells == Spec => []LedgerTellsRow
<1>1. LedgerInv => LedgerTellsRow
  BY RowByRow DEF LedgerInv
<1> QED
  BY <1>1, LedgerInit, LedgerStep, PTL DEF Spec

(* No request is ever paid out twice, refunded twice, or both.              *)
THEOREM AlwaysSettledOnce == Spec => []SettledOnce
<1>1. LedgerInv => SettledOnce
  BY RowByRow, OneEnd DEF LedgerInv
<1> QED
  BY <1>1, LedgerInit, LedgerStep, PTL DEF Spec
-----------------------------------------------------------------------------
(* Claims *)

(* One row's part of ClaimConsistent.                                       *)
Scoped(r) == RoleOf[r.handler] = "admin" \/ ScopeOf[r.handler] = CoadminOf[r.player]

ClaimOf(t, r, O, late) ==
    /\ r.status = "in_progress" =>
         /\ r.handler \in Actors
         /\ Scoped(r)
         /\ <<"start", t, r.handler>> \in O
         /\ r.telegram # NoUser => r.handler = CoadminOf[r.player]
    /\ r.status = "completed" => r.handler \in Actors /\ Scoped(r)
    /\ r.status \in {"absent", "pending"} => r.handler = Nobody /\ r.telegram = NoUser
    /\ t \in late => r.status = "in_progress"

ClaimInv == TypeOK /\ \A t \in Tasks : ClaimOf(t, task[t], ops, overdue)

(* ClaimConsistent, row by row.                                             *)
LEMMA ClaimByRow ==
    ClaimConsistent <=> \A t \in Tasks : ClaimOf(t, task[t], ops, overdue)
BY DEF ClaimConsistent, ClaimOf, Scoped, InScope, TaskCoadmin

(* No request is claimed at the start.                                      *)
LEMMA ClaimInit == Init => ClaimInv
<1> SUFFICES ASSUME Init PROVE ClaimInv
  OBVIOUS
<1>1. \A t \in Tasks : /\ task[t].status \in {"absent", "pending"}
                       /\ task[t].handler = Nobody /\ task[t].telegram = NoUser
  BY DEF Init, Requested, Unused
<1>2. overdue = {}
  BY DEF Init
<1> QED
  BY <1>1, <1>2, TypeInit DEF ClaimInv, ClaimOf

(* A handler that rewrites one row, takes it off the expired claims and      *)
(* claims more operation keys keeps every other row's claim.                *)
LEMMA OneClaimStep ==
    ASSUME ClaimInv, TypeOK', NEW t \in Tasks, NEW r,
           task' = [task EXCEPT ![t] = r],
           ops \subseteq ops', overdue' \subseteq overdue \ {t},
           ClaimOf(t, r, ops', {})
    PROVE  ClaimInv'
<1>1. task \in [Tasks -> TaskRow]
  BY DEF ClaimInv, TypeOK
<1>2. ASSUME NEW s \in Tasks PROVE ClaimOf(s, task'[s], ops', overdue')
  <2>1. CASE s = t
    <3>1. task'[s] = r
      BY <1>1, <2>1
    <3> QED
      BY <2>1, <3>1 DEF ClaimOf
  <2>2. CASE s # t
    <3>1. task'[s] = task[s]
      BY <1>1, <2>2
    <3>2. ClaimOf(s, task[s], ops, overdue)
      BY DEF ClaimInv
    <3> QED
      BY <2>2, <3>1, <3>2 DEF ClaimOf
  <2> QED
    BY <2>1, <2>2
<1> QED
  BY <1>2 DEF ClaimInv

(* Every step of the handlers keeps the claims consistent.                  *)
LEMMA ClaimStep == ClaimInv /\ [Next]_vars => ClaimInv'
<1> SUFFICES ASSUME ClaimInv, [Next]_vars PROVE ClaimInv'
  OBVIOUS
<1>0. TypeOK /\ TypeOK'
  BY TypeStep DEF ClaimInv
<1>a. task \in [Tasks -> TaskRow]
  BY <1>0 DEF TypeOK
<1>b. ASSUME UNCHANGED <<task, ops, overdue>> PROVE ClaimInv'
  BY <1>0, <1>b DEF ClaimInv
<1>1. ASSUME NEW p \in Players, NEW k \in Keys, BeginCreate(p, k)
      PROVE  ClaimInv'
  BY <1>1, <1>b DEF BeginCreate
<1>2. ASSUME NEW d \in drafts, NEW t \in Tasks, CommitCreate(d, t)
      PROVE  ClaimInv'
  <2>1. PICK n : task' = [task EXCEPT ![t] = Requested(d.player, n, TRUE)]
    BY <1>2 DEF CommitCreate
  <2>2. /\ task[t].status = "absent"
        /\ ops \subseteq ops' /\ overdue' = overdue
    BY <1>2 DEF CommitCreate
  <2>3. t \notin overdue
    BY <2>2 DEF ClaimInv, ClaimOf
  <2>4. ClaimOf(t, Requested(d.player, n, TRUE), ops', {})
    BY DEF ClaimOf, Requested
  <2>5. overdue' \subseteq overdue \ {t}
    BY <2>2, <2>3
  <2> QED
    BY <1>0, <2>1, <2>2, <2>4, <2>5, OneClaimStep
<1>3. ASSUME NEW d \in drafts, AbortCreate(d)
      PROVE  ClaimInv'
  BY <1>3, <1>b DEF AbortCreate
<1>4. ASSUME NEW a \in Actors, NEW t \in Tasks, NEW u \in Telegram, Start(a, t, u)
      PROVE  ClaimInv'
  <2> DEFINE row == Upserted(task[t], "in_progress", a, u)
  <2>1. /\ task' = [task EXCEPT ![t] = row]
        /\ ops' = ops \cup {<<"start", t, a>>}
        /\ overdue' = overdue \ {t}
        /\ RoleOf[a] = "admin" \/ ScopeOf[a] = CoadminOf[task[t].player]
        /\ u # NoUser => a = CoadminOf[task[t].player]
    BY <1>4, <1>a DEF Start, CanAct, InScope, TaskCoadmin
  <2>2. ClaimOf(t, row, ops', {})
    BY <2>1 DEF ClaimOf, Scoped, Upserted
  <2> HIDE DEF row
  <2>3. ops \subseteq ops' /\ overdue' \subseteq overdue \ {t}
    BY <2>1
  <2> QED
    BY <1>0, <2>1, <2>2, <2>3, OneClaimStep
<1>5. ASSUME NEW t \in Tasks, Expire(t)
      PROVE  ClaimInv'
  <2>1. ASSUME NEW s \in Tasks PROVE ClaimOf(s, task'[s], ops', overdue')
    <3>1. ClaimOf(s, task[s], ops, overdue)
      BY DEF ClaimInv
    <3> QED
      BY <1>5, <3>1 DEF Expire, ClaimOf
  <2> QED
    BY <1>0, <2>1 DEF ClaimInv
<1>6. ASSUME NEW a \in Actors, NEW t \in Tasks, Release(a, t)
      PROVE  ClaimInv'
  <2> DEFINE row == Unclaimed(task[t])
  <2>1. /\ task' = [task EXCEPT ![t] = row]
        /\ ops \subseteq ops' /\ overdue' \subseteq overdue \ {t}
    BY <1>6, <1>a DEF Release
  <2>2. ClaimOf(t, row, ops', {})
    BY DEF ClaimOf, Unclaimed, Upserted
  <2> HIDE DEF row
  <2> QED
    BY <1>0, <2>1, <2>2, OneClaimStep
<1>7. ASSUME NEW c \in Actors, TimeoutRelease(c)
      PROVE  ClaimInv'
  <2>1. /\ task' = [t \in Tasks |-> IF t \in Releasable(c) THEN Unclaimed(task[t])
                                                           ELSE task[t]]
        /\ ops \subseteq ops' /\ overdue' = overdue \ Releasable(c)
    BY <1>7 DEF TimeoutRelease
  <2>2. ASSUME NEW s \in Tasks PROVE ClaimOf(s, task'[s], ops', overdue')
    <3>1. ClaimOf(s, task[s], ops, overdue)
      BY DEF ClaimInv
    <3>2. CASE s \in Releasable(c)
      <4>1. task'[s] = Unclaimed(task[s]) /\ s \notin overdue'
        BY <2>1, <3>2
      <4> QED
        BY <4>1 DEF ClaimOf, Unclaimed, Upserted
    <3>3. CASE s \notin Releasable(c)
      <4>1. task'[s] = task[s] /\ (s \in overdue' => s \in overdue)
        BY <2>1, <3>3
      <4> QED
        BY <2>1, <3>1, <4>1 DEF ClaimOf
    <3> QED
      BY <3>2, <3>3
  <2> QED
    BY <1>0, <2>2 DEF ClaimInv
<1>8. ASSUME NEW a \in Actors, NEW t \in Tasks, NEW u \in Telegram,
             NEW k \in Keys \cup TelegramUsers, Complete(a, t, u, k)
      PROVE  ClaimInv'
  <2> DEFINE row == Upserted(task[t], "completed", a, task[t].telegram)
  <2>1. /\ task' = [task EXCEPT ![t] = row]
        /\ ops \subseteq ops' /\ overdue' \subseteq overdue \ {t}
        /\ RoleOf[a] = "admin" \/ ScopeOf[a] = CoadminOf[task[t].player]
    BY <1>8, <1>a DEF Complete, CanComplete, CanAct, InScope, TaskCoadmin
  <2>2. row.status = "completed" /\ row.handler = a /\ row.player = task[t].player
    BY DEF Upserted
  <2> HIDE DEF row
  <2>3. ClaimOf(t, row, ops', {})
    BY <2>1, <2>2 DEF ClaimOf, Scoped
  <2> QED
    BY <1>0, <2>1, <2>3, OneClaimStep
<1>9. ASSUME NEW a \in Actors, NEW t \in Tasks, NEW k \in Keys, Decline(a, t, k)
      PROVE  ClaimInv'
  <2> DEFINE row == Upserted(task[t], "declined", task[t].handler, task[t].telegram)
  <2>1. /\ task' = [task EXCEPT ![t] = row]
        /\ ops \subseteq ops' /\ overdue' \subseteq overdue \ {t}
    BY <1>9, <1>a DEF Decline
  <2>2. ClaimOf(t, row, ops', {})
    BY DEF ClaimOf, Upserted
  <2> HIDE DEF row
  <2> QED
    BY <1>0, <2>1, <2>2, OneClaimStep
<1>r. ASSUME NEW p \in Players, NEW n \in Redeems, Redeem(p, n)
      PROVE  ClaimInv'
  BY <1>r, <1>b DEF Redeem
<1>10. ASSUME WindowPasses
       PROVE  ClaimInv'
  BY <1>10, <1>b DEF WindowPasses
<1>11. ASSUME UNCHANGED vars
       PROVE  ClaimInv'
  BY <1>11, <1>b DEF vars
<1> QED
  BY <1>1, <1>2, <1>3, <1>4, <1>5, <1>6, <1>7, <1>8, <1>9, <1>r, <1>10, <1>11
     DEF Next

(* A claim always has one owner of the request's tenant, and nothing of it   *)
(* outlives its release.                                                    *)
THEOREM ClaimAlwaysConsistent == Spec => []ClaimConsistent
<1>1. ClaimInv => ClaimConsistent
  BY ClaimByRow DEF ClaimInv
<1> QED
  BY <1>1, ClaimInit, ClaimStep, PTL DEF Spec
-----------------------------------------------------------------------------
(* What a step may never do *)

Settled == {"completed", "declined"}

(* A step that rewrites one open row and books events of its task only       *)
(* leaves every settled request alone.                                      *)
LEMMA OneOpenRow ==
    ASSUME TypeOK, NEW t \in Tasks, task[t].status \notin Settled, NEW r,
           task' = [task EXCEPT ![t] = r],
           \A e \in ledger' : e \in ledger \/ e.task = t
    PROVE  \A s \in Tasks : task[s].status \in Settled =>
             /\ task'[s] = task[s]
             /\ \A e \in ledger' : e.task = s => e \in ledger
BY DEF TypeOK

(* Every handler checks the status under the row lock before it writes.      *)
LEMMA SettledStep ==
    ASSUME TypeOK, [Next]_vars
    PROVE  \A s \in Tasks : task[s].status \in Settled =>
             /\ task'[s] = task[s]
             /\ \A e \in ledger' : e.task = s => e \in ledger
<1> DEFINE Kept == \A s \in Tasks : task[s].status \in Settled =>
                     /\ task'[s] = task[s]
                     /\ \A e \in ledger' : e.task = s => e \in ledger
<1>a. ASSUME UNCHANGED <<task, ledger>> PROVE Kept
  BY <1>a
<1>1. ASSUME NEW p \in Players, NEW k \in Keys, BeginCreate(p, k)
      PROVE  Kept
  BY <1>1, <1>a DEF BeginCreate
<1>2. ASSUME NEW d \in drafts, NEW t \in Tasks, CommitCreate(d, t)
      PROVE  Kept
  <2>1. PICK n, id :
          /\ task' = [task EXCEPT ![t] = Requested(d.player, n, TRUE)]
          /\ ledger' = Recorded(ledger, Event("request_debit", t, d.player, -n, id))
    BY <1>2 DEF CommitCreate
  <2>2. task[t].status \notin Settled
    BY <1>2 DEF CommitCreate, Settled
  <2>3. \A e \in ledger' : e \in ledger \/ e.task = t
    BY <2>1 DEF Recorded, Event
  <2> QED
    BY <2>1, <2>2, <2>3, OneOpenRow
<1>3. ASSUME NEW d \in drafts, AbortCreate(d)
      PROVE  Kept
  BY <1>3, <1>a DEF AbortCreate
<1>4. ASSUME NEW a \in Actors, NEW t \in Tasks, NEW u \in Telegram, Start(a, t, u)
      PROVE  Kept
  <2>1. /\ task' = [task EXCEPT ![t] = Upserted(task[t], "in_progress", a, u)]
        /\ task[t].status \notin Settled
        /\ ledger' = ledger
    BY <1>4 DEF Start, TypeOK, Settled
  <2> QED
    BY <2>1, OneOpenRow
<1>5. ASSUME NEW t \in Tasks, Expire(t)
      PROVE  Kept
  BY <1>5, <1>a DEF Expire
<1>6. ASSUME NEW a \in Actors, NEW t \in Tasks, Release(a, t)
      PROVE  Kept
  <2>1. /\ task' = [task EXCEPT ![t] = Unclaimed(task[t])]
        /\ task[t].status \notin Settled
        /\ ledger' = ledger
    BY <1>6 DEF Release, TypeOK, Settled
  <2> QED
    BY <2>1, OneOpenRow
<1>7. ASSUME NEW c \in Actors, TimeoutRelease(c)
      PROVE  Kept
  <2>1. \A t \in Releasable(c) : task[t].status \notin Settled
    BY DEF Releasable, ExpiredTasks, Settled
  <2>2. /\ task' = [t \in Tasks |-> IF t \in Releasable(c) THEN Unclaimed(task[t])
                                                           ELSE task[t]]
        /\ ledger' = ledger
    BY <1>7 DEF TimeoutRelease
  <2> QED
    BY <2>1, <2>2
<1>8. ASSUME NEW a \in Actors, NEW t \in Tasks, NEW u \in Telegram,
             NEW k \in Keys \cup TelegramUsers, Complete(a, t, u, k)
      PROVE  Kept
  <2> DEFINE credit == Event("handler_credit", t, a, Payout(a, task[t].amount), a)
             debit  == Event("legacy_debit", t, task[t].player, -task[t].amount,
                             task[t].player)
  <2>1. /\ task' = [task EXCEPT ![t] = Upserted(task[t], "completed", a, task[t].telegram)]
        /\ task[t].status \notin Settled
    BY <1>8 DEF Complete, Open, TypeOK, Active, Settled
  <2>2. \/ ledger' = Recorded(ledger, credit)
        \/ ledger' = Recorded(Recorded(ledger, credit), debit)
    BY <1>8 DEF Complete
  <2>3. credit.task = t /\ debit.task = t
    BY DEF Event
  <2> HIDE DEF credit, debit
  <2>4. \A e \in ledger' : e \in ledger \/ e.task = t
    BY <2>2, <2>3 DEF Recorded
  <2> QED
    BY <2>1, <2>4, OneOpenRow
<1>9. ASSUME NEW a \in Actors, NEW t \in Tasks, NEW k \in Keys, Decline(a, t, k)
      PROVE  Kept
  <2> DEFINE refund == Event("decline_refund", t, task[t].player, task[t].amount,
                             <<"decline", t, k>>)
  <2>1. /\ task' = [task EXCEPT ![t] =
                       Upserted(task[t], "declined", task[t].handler, task[t].telegram)]
        /\ task[t].status \notin Settled
    BY <1>9 DEF Decline, Open, TypeOK, Active, Settled
  <2>2. ledger' = ledger \/ ledger' = Recorded(ledger, refund)
    BY <1>9 DEF Decline
  <2>3. refund.task = t
    BY DEF Event
  <2> HIDE DEF refund
  <2>4. \A e \in ledger' : e \in ledger \/ e.task = t
    BY <2>2, <2>3 DEF Recorded
  <2> QED
    BY <2>1, <2>4, OneOpenRow
<1>r. ASSUME NEW p \in Players, NEW n \in Redeems, Redeem(p, n)
      PROVE  Kept
  BY <1>r, <1>a DEF Redeem
<1>10. ASSUME WindowPasses
       PROVE  Kept
  BY <1>10, <1>a DEF WindowPasses
<1>11. ASSUME UNCHANGED vars
       PROVE  Kept
  BY <1>11, <1>a DEF vars
<1> QED
  BY <1>1, <1>2, <1>3, <1>4, <1>5, <1>6, <1>7, <1>8, <1>9, <1>r, <1>10, <1>11
     DEF Next

(* No late release, timeout, completion or decline touches a settled         *)
(* request, nor is anything booked for it any more.                         *)
THEOREM SettledStaysSettled == Spec => SettledForGood
<1>1. TypeOK /\ [Next]_vars =>
        [\A t \in Tasks : task[t].status \in {"completed", "declined"} =>
           /\ task'[t] = task[t]
           /\ \A e \in ledger' : e.task = t => e \in ledger]_vars
  BY SettledStep DEF Settled
<1> QED
  BY <1>1, TypeInit, TypeStep, PTL DEF Spec, SettledForGood
(* A claimed row leaves its owner only by a release, or by a completion or   *)
(* decline that its owner or a superior makes.                              *)
Kept(r, q) ==
    r.status = "in_progress" =>
        CASE q.status = "in_progress" -> q.handler = r.handler /\ q.telegram = r.telegram
          [] q.status = "completed" ->
                q.handler = r.handler \/ RoleOf[q.handler] \in {"admin", "coadmin"}
          [] OTHER -> TRUE

(* Rewriting one row keeps the claims of all the others.                    *)
LEMMA OneRowKept ==
    ASSUME TypeOK, NEW t \in Tasks, NEW q, Kept(task[t], q),
           task' = [task EXCEPT ![t] = q]
    PROVE  \A s \in Tasks : Kept(task[s], task'[s])
<1>1. \A r : Kept(r, r)
  BY DEF Kept
<1>2. \A s \in Tasks : task'[s] = IF s = t THEN q ELSE task[s]
  BY DEF TypeOK
<1> QED
  BY <1>1, <1>2

(* Start takes only a pending row, and completion checks the owner.          *)
LEMMA KeptStep ==
    ASSUME TypeOK, [Next]_vars
    PROVE  \A s \in Tasks : Kept(task[s], task'[s])
<1> DEFINE Fine == \A s \in Tasks : Kept(task[s], task'[s])
<1>a. ASSUME UNCHANGED task PROVE Fine
  BY <1>a DEF Kept
<1>1. ASSUME NEW p \in Players, NEW k \in Keys, BeginCreate(p, k)
      PROVE  Fine
  BY <1>1, <1>a DEF BeginCreate
<1>2. ASSUME NEW d \in drafts, NEW t \in Tasks, CommitCreate(d, t)
      PROVE  Fine
  <2>1. PICK n : task' = [task EXCEPT ![t] = Requested(d.player, n, TRUE)]
    BY <1>2 DEF CommitCreate
  <2>2. Kept(task[t], Requested(d.player, n, TRUE))
    BY <1>2 DEF CommitCreate, Kept
  <2> QED
    BY <2>1, <2>2, OneRowKept
<1>3. ASSUME NEW d \in drafts, AbortCreate(d)
      PROVE  Fine
  BY <1>3, <1>a DEF AbortCreate
<1>4. ASSUME NEW a \in Actors, NEW t \in Tasks, NEW u \in Telegram, Start(a, t, u)
      PROVE  Fine
  <2>1. /\ task' = [task EXCEPT ![t] = Upserted(task[t], "in_progress", a, u)]
        /\ task[t].status = "pending"
    BY <1>4 DEF Start, TypeOK
  <2>2. Kept(task[t], Upserted(task[t], "in_progress", a, u))
    BY <2>1 DEF Kept
  <2> QED
    BY <2>1, <2>2, OneRowKept
<1>5. ASSUME NEW t \in Tasks, Expire(t)
      PROVE  Fine
  BY <1>5, <1>a DEF Expire
<1>6. ASSUME NEW a \in Actors, NEW t \in Tasks, Release(a, t)
      PROVE  Fine
  <2>1. task' = [task EXCEPT ![t] = Unclaimed(task[t])]
    BY <1>6 DEF Release, TypeOK
  <2>2. Kept(task[t], Unclaimed(task[t]))
    BY DEF Kept, Unclaimed, Upserted
  <2> QED
    BY <2>1, <2>2, OneRowKept
<1>7. ASSUME NEW c \in Actors, TimeoutRelease(c)
      PROVE  Fine
  <2>1. task' = [t \in Tasks |-> IF t \in Releasable(c) THEN Unclaimed(task[t])
                                                        ELSE task[t]]
    BY <1>7 DEF TimeoutRelease
  <2>2. \A r : Kept(r, r) /\ Kept(r, Unclaimed(r))
    BY DEF Kept, Unclaimed, Upserted
  <2> HIDE DEF Fine
  <2>3. ASSUME NEW s \in Tasks PROVE Kept(task[s], task'[s])
    BY <2>1, <2>2
  <2> QED
    BY <2>3 DEF Fine
<1>8. ASSUME NEW a \in Actors, NEW t \in Tasks, NEW u \in Telegram,
             NEW k \in Keys \cup TelegramUsers, Complete(a, t, u, k)
      PROVE  Fine
  <2> DEFINE row == Upserted(task[t], "completed", a, task[t].telegram)
  <2>1. /\ task' = [task EXCEPT ![t] = row]
        /\ \/ task[t].status = "pending"
           \/ task[t].handler = a
           \/ RoleOf[a] \in {"admin", "coadmin"}
    BY <1>8 DEF Complete, CanComplete, TypeOK
  <2>2. Kept(task[t], row)
    BY <2>1 DEF Kept, Upserted
  <2> QED
    BY <2>1, <2>2, OneRowKept
<1>9. ASSUME NEW a \in Actors, NEW t \in Tasks, NEW k \in Keys, Decline(a, t, k)
      PROVE  Fine
  <2> DEFINE row == Upserted(task[t], "declined", task[t].handler, task[t].telegram)
  <2>1. task' = [task EXCEPT ![t] = row]
    BY <1>9 DEF Decline, TypeOK
  <2>2. Kept(task[t], row)
    BY DEF Kept, Upserted
  <2> QED
    BY <2>1, <2>2, OneRowKept
<1>r. ASSUME NEW p \in Players, NEW n \in Redeems, Redeem(p, n)
      PROVE  Fine
  BY <1>r, <1>a DEF Redeem
<1>10. ASSUME WindowPasses
       PROVE  Fine
  BY <1>10, <1>a DEF WindowPasses
<1>11. ASSUME UNCHANGED vars
       PROVE  Fine
  BY <1>11, <1>a DEF vars
<1> QED
  BY <1>1, <1>2, <1>3, <1>4, <1>5, <1>6, <1>7, <1>8, <1>9, <1>r, <1>10, <1>11
     DEF Next

(* No claim passes from one owner to another without a release.             *)
THEOREM ClaimsAreNotStolen == Spec => ClaimNotStolen
<1>1. TypeOK /\ [Next]_vars =>
        [\A t \in Tasks : task[t].status = "in_progress" =>
          CASE task'[t].status = "in_progress" ->
                  /\ task'[t].handler = task[t].handler
                  /\ task'[t].telegram = task[t].telegram
            [] task'[t].status = "completed" ->
                  \/ task'[t].handler = task[t].handler
                  \/ RoleOf[task'[t].handler] \in {"admin", "coadmin"}
            [] OTHER -> TRUE]_vars
  BY KeptStep DEF Kept
<1> QED
  BY <1>1, TypeInit, TypeStep, PTL DEF Spec, ClaimNotStolen

-----------------------------------------------------------------------------
(* Idempotent creation *)

CreateOp(p, k) == <<"create", p, k>>

(* The debits made so far have claimed their operation keys, and creations   *)
(* under way hold keys of their own: the primary key of                     *)
(* authority_operations makes the second call wait.                         *)
KeyInv ==
    /\ TypeOK
    /\ OneRequestPerKey
    /\ \A e \in ledger : e.kind = "request_debit" => e.key[3] \in ops
    /\ \A d \in drafts : CreateOp(d.player, d.key) \notin ops
    /\ \A d, f \in drafts : (d.player = f.player /\ d.key = f.key) => d = f

(* Handlers that debit nothing and claim no creation key.                    *)
LEMMA NoCreation ==
    ASSUME KeyInv, TypeOK', drafts' \subseteq drafts, ops \subseteq ops',
           \A o \in ops' \ ops : o[1] # "create",
           \A e \in ledger' \ ledger : e.kind # "request_debit"
    PROVE  KeyInv'
BY DEF KeyInv, OneRequestPerKey, CreateOp

(* At the start no key is claimed and no creation is under way.              *)
LEMMA KeyInit == Init => KeyInv
BY TypeInit DEF Init, KeyInv, OneRequestPerKey

(* Every step of the handlers keeps it.                                     *)
LEMMA KeyStep == KeyInv /\ [Next]_vars => KeyInv'
<1> SUFFICES ASSUME KeyInv, [Next]_vars PROVE KeyInv'
  OBVIOUS
<1>0. TypeOK /\ TypeOK'
  BY TypeStep DEF KeyInv
<1>1. ASSUME NEW p \in Players, NEW k \in Keys, BeginCreate(p, k)
      PROVE  KeyInv'
  <2>1. PICK n : drafts' = drafts \cup {[player |-> p, key |-> k, used |-> n]}
    BY <1>1 DEF BeginCreate
  <2>2. /\ CreateOp(p, k) \notin ops
        /\ \A d \in drafts : d.player # p \/ d.key # k
        /\ UNCHANGED <<ops, ledger>>
    BY <1>1 DEF BeginCreate, CreateOp
  <2> QED
    BY <1>0, <2>1, <2>2 DEF KeyInv, OneRequestPerKey, CreateOp
<1>2. ASSUME NEW d \in drafts, NEW t \in Tasks, CommitCreate(d, t)
      PROVE  KeyInv'
  <2> DEFINE op == CreateOp(d.player, d.key)
  <2>1. PICK n : ledger' = Recorded(ledger, Event("request_debit", t, d.player, -n, op))
    BY <1>2 DEF CommitCreate, CreateOp
  <2> DEFINE e == Event("request_debit", t, d.player, -n, op)
  <2>2. e.key[3] = op /\ e.kind = "request_debit"
    BY DEF Event
  <2>3. ledger' = Recorded(ledger, e)
    BY <2>1
  <2> HIDE DEF e
  <2>4. ledger' = ledger \/ ledger' = ledger \cup {e}
    BY <2>3 DEF Recorded
  <2>5. drafts' = drafts \ {d} /\ ops' = ops \cup {op}
    BY <1>2 DEF CommitCreate, CreateOp
  <2>6. op \notin ops
    BY DEF KeyInv
  <2>7. \A f \in drafts' : f \in drafts /\ CreateOp(f.player, f.key) # op
    BY <2>5 DEF KeyInv, CreateOp
  <2> HIDE DEF op
  <2>8. OneRequestPerKey'
    BY <2>2, <2>4, <2>6 DEF KeyInv, OneRequestPerKey
  <2>9. \A x \in ledger' : x.kind = "request_debit" => x.key[3] \in ops'
    BY <2>2, <2>4, <2>5 DEF KeyInv
  <2>10. \A f \in drafts' : CreateOp(f.player, f.key) \notin ops'
    BY <2>5, <2>7 DEF KeyInv
  <2>11. \A f, g \in drafts' : (f.player = g.player /\ f.key = g.key) => f = g
    BY <2>7 DEF KeyInv
  <2> QED
    BY <1>0, <2>8, <2>9, <2>10, <2>11 DEF KeyInv
<1>3. ASSUME NEW d \in drafts, AbortCreate(d)
      PROVE  KeyInv'
  BY <1>0, <1>3, NoCreation DEF AbortCreate
<1>4. ASSUME NEW a \in Actors, NEW t \in Tasks, NEW u \in Telegram, Start(a, t, u)
      PROVE  KeyInv'
  BY <1>0, <1>4, NoCreation DEF Start
<1>5. ASSUME NEW t \in Tasks, Expire(t)
      PROVE  KeyInv'
  BY <1>0, <1>5, NoCreation DEF Expire
<1>6. ASSUME NEW a \in Actors, NEW t \in Tasks, Release(a, t)
      PROVE  KeyInv'
  BY <1>0, <1>6, NoCreation DEF Release
<1>7. ASSUME NEW c \in Actors, TimeoutRelease(c)
      PROVE  KeyInv'
  BY <1>0, <1>7, NoCreation DEF TimeoutRelease, TimeoutOp
<1>8. ASSUME NEW a \in Actors, NEW t \in Tasks, NEW u \in Telegram,
             NEW k \in Keys \cup TelegramUsers, Complete(a, t, u, k)
      PROVE  KeyInv'
  <2> DEFINE credit == Event("handler_credit", t, a, Payout(a, task[t].amount), a)
             debit  == Event("legacy_debit", t, task[t].player, -task[t].amount,
                             task[t].player)
  <2>1. \/ ledger' = Recorded(ledger, credit)
        \/ ledger' = Recorded(Recorded(ledger, credit), debit)
    BY <1>8 DEF Complete
  <2>2. credit.kind # "request_debit" /\ debit.kind # "request_debit"
    BY DEF Event
  <2> HIDE DEF credit, debit
  <2>3. \A e \in ledger' \ ledger : e.kind # "request_debit"
    BY <2>1, <2>2 DEF Recorded
  <2>4. ops' = ops \cup {<<"complete", t, k>>} /\ drafts' = drafts
    BY <1>8 DEF Complete
  <2> QED
    BY <1>0, <2>3, <2>4, NoCreation
<1>9. ASSUME NEW a \in Actors, NEW t \in Tasks, NEW k \in Keys, Decline(a, t, k)
      PROVE  KeyInv'
  <2> DEFINE refund == Event("decline_refund", t, task[t].player, task[t].amount,
                             <<"decline", t, k>>)
  <2>1. ledger' = ledger \/ ledger' = Recorded(ledger, refund)
    BY <1>9 DEF Decline
  <2>2. refund.kind # "request_debit"
    BY DEF Event
  <2> HIDE DEF refund
  <2>3. \A e \in ledger' \ ledger : e.kind # "request_debit"
    BY <2>1, <2>2 DEF Recorded
  <2>4. ops' = ops \cup {<<"decline", t, k>>} /\ drafts' = drafts
    BY <1>9 DEF Decline
  <2> QED
    BY <1>0, <2>3, <2>4, NoCreation
<1>r. ASSUME NEW p \in Players, NEW n \in Redeems, Redeem(p, n)
      PROVE  KeyInv'
  BY <1>0, <1>r, NoCreation DEF Redeem
<1>10. ASSUME WindowPasses
       PROVE  KeyInv'
  BY <1>0, <1>10, NoCreation DEF WindowPasses
<1>11. ASSUME UNCHANGED vars
       PROVE  KeyInv'
  BY <1>0, <1>11, NoCreation DEF vars
<1> QED
  BY <1>1, <1>2, <1>3, <1>4, <1>5, <1>6, <1>7, <1>8, <1>9, <1>r, <1>10, <1>11
     DEF Next

(* A creation key takes a player's cash at most once, whatever other calls   *)
(* and retries run beside it.                                               *)
THEOREM AlwaysOneRequestPerKey == Spec => []OneRequestPerKey
<1>1. KeyInv => OneRequestPerKey
  BY DEF KeyInv
<1> QED
  BY <1>1, KeyInit, KeyStep, PTL DEF Spec

-----------------------------------------------------------------------------
(* Conservation of the players' cash *)

TakenIn(T, p) == SumFunctionOnSet([t \in Tasks |-> Taken(T[t], p)], Tasks)

MoneyKept ==
    \A p \in Players : Belongings(p) - Belongings(p)' \in {0, cash[p] % Coin}

LEMMA TakenType ==
    ASSUME NEW r \in TaskRow, NEW p
    PROVE  Taken(r, p) \in Nat
BY DEF Taken, TaskRow

LEMMA TakenInType ==
    ASSUME TypeOK, NEW p
    PROVE  TakenIn(task, p) \in Int
<1> DEFINE v == [t \in Tasks |-> Taken(task[t], p)]
<1>1. \A t \in Tasks : v[t] \in Int
  BY TakenType DEF TypeOK
<1> HIDE DEF v
<1>2. SumFunctionOnSet(v, Tasks) \in Int
  BY <1>1, TasksAssumption, SumInt
<1> QED
  BY <1>2 DEF TakenIn, v

(* Claiming, releasing and timing out a request takes and gives nothing.     *)
LEMMA TakenClaimed ==
    ASSUME NEW r, r.status \in Active, NEW status \in Active, NEW h, NEW g, NEW p
    PROVE  Taken(Upserted(r, status, h, g), p) = Taken(r, p)
BY DEF Taken, Upserted, Active

LEMMA SameTaken ==
    ASSUME TypeOK, TypeOK',
           \A p \in Players : cash'[p] - redeemed'[p] = cash[p] - redeemed[p],
           \A t \in Tasks, p \in Players : Taken(task'[t], p) = Taken(task[t], p)
    PROVE  MoneyKept
<1> SUFFICES ASSUME NEW p \in Players
             PROVE  Belongings(p) - Belongings(p)' = 0
  BY DEF MoneyKept
<1>1. TakenIn(task', p) = TakenIn(task, p)
  <2> DEFINE v == [t \in Tasks |-> Taken(task[t], p)]
             w == [t \in Tasks |-> Taken(task'[t], p)]
  <2>1. \A t \in Tasks : v[t] = w[t]
    OBVIOUS
  <2> HIDE DEF v, w
  <2>2. SumFunctionOnSet(v, Tasks) = SumFunctionOnSet(w, Tasks)
    BY <2>1, TasksAssumption, SumSame
  <2> QED
    BY <2>2 DEF TakenIn, v, w
<1>2. TakenIn(task, p) \in Int
  BY TakenInType
<1>3. cash[p] - redeemed[p] \in Int
  BY DEF TypeOK
<1> QED
  BY <1>1, <1>2, <1>3 DEF Belongings, TakenIn, Coin

(* What the wallet gives and the request does not take is nothing, or the    *)
(* fraction of a coin.                                                      *)
CashFollows(r, q) ==
    \A p \in Players :
        cash[p] - cash'[p] + Coin * Taken(r, p) - Coin * Taken(q, p)
            \in {0, cash[p] % Coin}

(* A handler that rewrites one row moves the cash by what the row takes      *)
(* less or more.                                                            *)
LEMMA OneRowTaken ==
    ASSUME TypeOK, TypeOK', NEW t \in Tasks, NEW r, task' = [task EXCEPT ![t] = r],
           UNCHANGED redeemed, CashFollows(task[t], r)
    PROVE  MoneyKept
<1>1. \A s \in Tasks : task[s] \in TaskRow /\ task'[s] \in TaskRow
  BY DEF TypeOK
<1>2. \A s \in Tasks : task'[s] = IF s = t THEN r ELSE task[s]
  BY DEF TypeOK
<1> SUFFICES ASSUME NEW p \in Players
             PROVE  Belongings(p) - Belongings(p)' \in {0, cash[p] % Coin}
  BY DEF MoneyKept
<1>3. /\ TakenIn(task', p) = TakenIn(task, p) + Taken(r, p) - Taken(task[t], p)
      /\ TakenIn(task, p) \in Int
  <2> DEFINE v == [s \in Tasks |-> Taken(task[s], p)]
             w == [s \in Tasks |-> Taken(task'[s], p)]
  <2>1. \A s \in Tasks : v[s] \in Int /\ w[s] \in Int
    BY <1>1, TakenType
  <2>2. \A s \in Tasks \ {t} : w[s] = v[s]
    BY <1>2
  <2>3. v[t] = Taken(task[t], p) /\ w[t] = Taken(r, p)
    BY <1>2
  <2>4. TakenIn(task, p) = SumFunctionOnSet(v, Tasks)
    BY DEF TakenIn
  <2>5. TakenIn(task', p) = SumFunctionOnSet(w, Tasks)
    BY DEF TakenIn
  <2> HIDE DEF v, w
  <2>6. SumFunctionOnSet(w, Tasks) = SumFunctionOnSet(v, Tasks) + w[t] - v[t]
    BY <2>1, <2>2, TasksAssumption, SumChange
  <2>7. SumFunctionOnSet(v, Tasks) \in Int
    BY <2>1, TasksAssumption, SumInt
  <2> QED
    BY <2>3, <2>4, <2>5, <2>6, <2>7
<1>4. Taken(task[t], p) \in Nat /\ Taken(r, p) \in Nat
  BY <1>1, <1>2, TakenType
<1>5. cash[p] \in Nat /\ cash'[p] \in Nat /\ redeemed[p] \in Nat
  BY DEF TypeOK
<1>6. /\ Belongings(p) = cash[p] - redeemed[p] + Coin * TakenIn(task, p)
      /\ Belongings(p)' = cash'[p] - redeemed[p] + Coin * TakenIn(task', p)
  BY DEF Belongings, TakenIn
<1>7. Belongings(p) - Belongings(p)'
        = cash[p] - cash'[p] + Coin * Taken(task[t], p) - Coin * Taken(r, p)
  BY <1>3, <1>4, <1>5, <1>6 DEF Coin
<1> QED
  BY <1>7 DEF CashFollows

(* Every handler moves the cash with the row.                               *)
LEMMA MoneyStep == TypeOK /\ [Next]_vars => MoneyKept
<1> SUFFICES ASSUME TypeOK, [Next]_vars PROVE MoneyKept
  OBVIOUS
<1>0. TypeOK /\ TypeOK'
  BY TypeStep
<1>a. /\ task \in [Tasks -> TaskRow] /\ cash \in [Players -> Nat]
      /\ \A t \in Tasks : IF task[t].status = "absent" THEN task[t] = Unused
                                                      ELSE task[t].player \in Players
  BY <1>0 DEF TypeOK
<1>b. ASSUME UNCHANGED <<cash, redeemed, task>> PROVE MoneyKept
  BY <1>0, <1>b, SameTaken
<1>c. ASSUME NEW t \in Tasks, task[t].status \in Active,
             NEW status \in Active, NEW h, NEW g,
             task' = [task EXCEPT ![t] = Upserted(@, status, h, g)],
             UNCHANGED <<cash, redeemed>>
      PROVE  MoneyKept
  <2> DEFINE row == Upserted(task[t], status, h, g)
  <2>1. task' = [task EXCEPT ![t] = row]
    BY <1>c, <1>a
  <2>2. \A p \in Players : Taken(row, p) = Taken(task[t], p) /\ Taken(task[t], p) \in Nat
    BY <1>a, <1>c, TakenClaimed, TakenType
  <2> HIDE DEF row
  <2>3. CashFollows(task[t], row)
    BY <1>a, <1>c, <2>2 DEF CashFollows, Coin
  <2> QED
    BY <1>0, <1>c, <2>1, <2>3, OneRowTaken
<1>1. ASSUME NEW p \in Players, NEW k \in Keys, BeginCreate(p, k)
      PROVE  MoneyKept
  BY <1>1, <1>b DEF BeginCreate
<1>2. ASSUME NEW d \in drafts, NEW t \in Tasks, CommitCreate(d, t)
      PROVE  MoneyKept
  <2>1. PICK n \in 1 .. Whole(cash[d.player]) :
          /\ cash' = [cash EXCEPT ![d.player] = Coin * (Whole(@) - n)]
          /\ task' = [task EXCEPT ![t] = Requested(d.player, n, TRUE)]
    BY <1>2 DEF CommitCreate
  <2> DEFINE row == Requested(d.player, n, TRUE)
  <2>2. d.player \in Players /\ cash[d.player] \in Nat /\ n \in Nat
    BY <1>0, <1>a DEF TypeOK
  <2>3. \A p \in Players : Taken(task[t], p) = 0
    BY <1>2, <1>a DEF CommitCreate, Unused, Taken
  <2>4. \A p \in Players : Taken(row, p) = IF p = d.player THEN n ELSE 0
    BY DEF Requested, Taken
  <2>5. task' = [task EXCEPT ![t] = row]
    BY <2>1
  <2> HIDE DEF row
  <2>6. CashFollows(task[t], row)
    <3>1. ASSUME NEW p \in Players, p # d.player
          PROVE  cash'[p] = cash[p] /\ Taken(task[t], p) = 0 /\ Taken(row, p) = 0
      BY <1>a, <2>1, <2>3, <2>4, <3>1
    <3>2. /\ cash'[d.player] = Coin * Whole(cash[d.player]) - Coin * n
          /\ Taken(task[t], d.player) = 0 /\ Taken(row, d.player) = n
      <4>1. cash'[d.player] = Coin * (Whole(cash[d.player]) - n)
        BY <1>a, <2>1, <2>2
      <4>2. Whole(cash[d.player]) \in Nat
        BY <2>2, WholeCoins
      <4> QED
        BY <2>2, <2>3, <2>4, <4>1, <4>2 DEF Coin
    <3>3. ASSUME NEW p \in Players, p # d.player
          PROVE  cash[p] - cash'[p] + Coin * Taken(task[t], p) - Coin * Taken(row, p) = 0
      <4>1. cash[p] \in Nat
        BY <1>a
      <4> QED
        BY <3>1, <3>3, <4>1 DEF Coin
    <3>4. cash[d.player] - cash'[d.player] + Coin * Taken(task[t], d.player)
            - Coin * Taken(row, d.player) = cash[d.player] % Coin
      <4> DEFINE x == Coin * Whole(cash[d.player])
                 y == Coin * n
      <4>1. x \in Int /\ y \in Int
        <5>1. Whole(cash[d.player]) \in Nat
          BY <2>2, WholeCoins
        <5> QED
          BY <2>2, <5>1 DEF Coin
      <4>2. cash[d.player] % Coin = cash[d.player] - x
        BY <1>a, <2>2, WholeCoins
      <4>3. /\ cash'[d.player] = x - y /\ Coin * Taken(task[t], d.player) = 0
            /\ Coin * Taken(row, d.player) = y
        BY <3>2 DEF Coin
      <4> HIDE DEF x, y
      <4> QED
        BY <1>a, <2>2, <4>1, <4>2, <4>3
    <3> QED
      BY <3>3, <3>4 DEF CashFollows
  <2> QED
    BY <1>0, <1>2, <2>5, <2>6, OneRowTaken DEF CommitCreate
<1>3. ASSUME NEW d \in drafts, AbortCreate(d)
      PROVE  MoneyKept
  BY <1>3, <1>b DEF AbortCreate
<1>4. ASSUME NEW a \in Actors, NEW t \in Tasks, NEW u \in Telegram, Start(a, t, u)
      PROVE  MoneyKept
  BY <1>4, <1>c DEF Start, Active
<1>5. ASSUME NEW t \in Tasks, Expire(t)
      PROVE  MoneyKept
  BY <1>5, <1>b DEF Expire
<1>6. ASSUME NEW a \in Actors, NEW t \in Tasks, Release(a, t)
      PROVE  MoneyKept
  BY <1>6, <1>c DEF Release, Unclaimed, Active
<1>7. ASSUME NEW c \in Actors, TimeoutRelease(c)
      PROVE  MoneyKept
  <2>1. \A t \in Releasable(c) : task[t].status \in Active
    BY DEF Releasable, ExpiredTasks, Active
  <2>2. /\ task' = [t \in Tasks |->
                     IF t \in Releasable(c)
                     THEN Upserted(task[t], "pending", Nobody, NoUser) ELSE task[t]]
        /\ UNCHANGED <<cash, redeemed>>
    BY <1>7 DEF TimeoutRelease, Unclaimed
  <2>3. ASSUME NEW t \in Tasks, NEW p \in Players
        PROVE  Taken(task'[t], p) = Taken(task[t], p)
    <3>1. CASE t \in Releasable(c)
      <4>1. "pending" \in Active /\ task[t].status \in Active
        BY <2>1, <3>1 DEF Active
      <4>2. task'[t] = Upserted(task[t], "pending", Nobody, NoUser)
        BY <2>2, <3>1
      <4> QED
        BY <4>1, <4>2, TakenClaimed
    <3>2. CASE t \notin Releasable(c)
      BY <2>2, <3>2
    <3> QED
      BY <3>1, <3>2
  <2> QED
    BY <1>0, <2>2, <2>3, SameTaken
<1>8. ASSUME NEW a \in Actors, NEW t \in Tasks, NEW u \in Telegram,
             NEW k \in Keys \cup TelegramUsers, Complete(a, t, u, k)
      PROVE  MoneyKept
  <2> DEFINE row == Upserted(task[t], "completed", a, task[t].telegram)
             q   == task[t].player
             n   == task[t].amount
  <2>1. /\ task[t].status \in Active
        /\ task' = [task EXCEPT ![t] = row]
        /\ cash' = IF task[t].deducted
                   THEN cash ELSE [cash EXCEPT ![q] = Coin * (Whole(@) - n)]
    BY <1>8, <1>a DEF Complete, Open
  <2>2. q \in Players /\ n \in Nat
    BY <1>a, <2>1 DEF Active, TaskRow
  <2>3. \A p \in Players : Taken(task[t], p) = IF p = q /\ task[t].deducted THEN n ELSE 0
    BY <2>1 DEF Taken, Active
  <2>4. \A p \in Players : Taken(row, p) = IF p = q THEN n ELSE 0
    BY DEF Taken, Upserted
  <2> HIDE DEF row, q, n
  <2>5. CashFollows(task[t], row)
    <3>1. ASSUME NEW p \in Players, cash'[p] = cash[p],
                 Taken(task[t], p) = Taken(row, p)
          PROVE  cash[p] - cash'[p] + Coin * Taken(task[t], p) - Coin * Taken(row, p) = 0
      <4>1. cash[p] \in Nat /\ Taken(row, p) \in Nat
        BY <1>a, <2>2, <2>4
      <4> QED
        BY <3>1, <4>1 DEF Coin
    <3>2. CASE task[t].deducted
      <4>1. \A p \in Players : cash'[p] = cash[p] /\ Taken(task[t], p) = Taken(row, p)
        BY <1>a, <2>1, <2>3, <2>4, <3>2
      <4> QED
        BY <3>1, <4>1 DEF CashFollows
    <3>3. CASE ~(task[t].deducted)
      <4>1. \A p \in Players \ {q} :
              cash'[p] = cash[p] /\ Taken(task[t], p) = Taken(row, p)
        BY <1>a, <2>1, <2>3, <2>4, <3>3
      <4>2. /\ cash'[q] = Coin * Whole(cash[q]) - Coin * n
            /\ Taken(task[t], q) = 0 /\ Taken(row, q) = n
        <5>1. cash'[q] = Coin * (Whole(cash[q]) - n)
          BY <1>a, <2>1, <2>2, <3>3
        <5>2. Whole(cash[q]) \in Nat
          BY <1>a, <2>2, WholeCoins
        <5>3. Coin * (Whole(cash[q]) - n) = Coin * Whole(cash[q]) - Coin * n
          BY <2>2, <5>2 DEF Coin
        <5> QED
          BY <2>2, <2>3, <2>4, <3>3, <5>1, <5>3
      <4>3. cash[q] - cash'[q] + Coin * Taken(task[t], q) - Coin * Taken(row, q)
              = cash[q] % Coin
        <5> DEFINE x == Coin * Whole(cash[q])
                   y == Coin * n
        <5>1. x \in Int /\ y \in Int
          BY <1>a, <2>2, WholeCoins DEF Coin
        <5>2. cash[q] % Coin = cash[q] - x
          BY <1>a, <2>2, WholeCoins
        <5>3. cash'[q] = x - y /\ Coin * Taken(task[t], q) = 0 /\ Coin * Taken(row, q) = y
          BY <4>2 DEF Coin
        <5> HIDE DEF x, y
        <5> QED
          BY <1>a, <2>2, <5>1, <5>2, <5>3
      <4> QED
        BY <3>1, <4>1, <4>3 DEF CashFollows
    <3> QED
      BY <3>2, <3>3
  <2> QED
    BY <1>0, <1>8, <2>1, <2>5, OneRowTaken DEF Complete
<1>9. ASSUME NEW a \in Actors, NEW t \in Tasks, NEW k \in Keys, Decline(a, t, k)
      PROVE  MoneyKept
  <2> DEFINE row == Upserted(task[t], "declined", task[t].handler, task[t].telegram)
             q   == task[t].player
             n   == task[t].amount
  <2>1. /\ task[t].status \in Active
        /\ task' = [task EXCEPT ![t] = row]
        /\ cash' = IF task[t].deducted
                   THEN [cash EXCEPT ![q] = Coin * (Whole(@) + n)] ELSE cash
    BY <1>9, <1>a DEF Decline, Open
  <2>2. q \in Players /\ n \in Nat
    BY <1>a, <2>1 DEF Active, TaskRow
  <2>3. \A p \in Players : Taken(task[t], p) = IF p = q /\ task[t].deducted THEN n ELSE 0
    BY <2>1 DEF Taken, Active
  <2>4. \A p \in Players : Taken(row, p) = 0
    BY DEF Taken, Upserted
  <2> HIDE DEF row, q, n
  <2>5. CashFollows(task[t], row)
    <3>1. ASSUME NEW p \in Players, cash'[p] = cash[p],
                 Taken(task[t], p) = Taken(row, p)
          PROVE  cash[p] - cash'[p] + Coin * Taken(task[t], p) - Coin * Taken(row, p) = 0
      <4>1. cash[p] \in Nat /\ Taken(row, p) \in Nat
        BY <1>a, <2>2, <2>4
      <4> QED
        BY <3>1, <4>1 DEF Coin
    <3>2. CASE ~task[t].deducted
      <4>1. \A p \in Players : cash'[p] = cash[p] /\ Taken(task[t], p) = Taken(row, p)
        BY <1>a, <2>1, <2>3, <2>4, <3>2
      <4> QED
        BY <3>1, <4>1 DEF CashFollows
    <3>3. CASE ~(~task[t].deducted)
      <4>1. \A p \in Players \ {q} :
              cash'[p] = cash[p] /\ Taken(task[t], p) = Taken(row, p)
        BY <1>a, <2>1, <2>3, <2>4, <3>3
      <4>2. /\ cash'[q] = Coin * Whole(cash[q]) + Coin * n
            /\ Taken(task[t], q) = n /\ Taken(row, q) = 0
        <5>1. cash'[q] = Coin * (Whole(cash[q]) + n)
          BY <1>a, <2>1, <2>2, <3>3
        <5>2. Whole(cash[q]) \in Nat
          BY <1>a, <2>2, WholeCoins
        <5>3. Coin * (Whole(cash[q]) + n) = Coin * Whole(cash[q]) + Coin * n
          BY <2>2, <5>2 DEF Coin
        <5> QED
          BY <2>2, <2>3, <2>4, <3>3, <5>1, <5>3
      <4>3. cash[q] - cash'[q] + Coin * Taken(task[t], q) - Coin * Taken(row, q)
              = cash[q] % Coin
        <5> DEFINE x == Coin * Whole(cash[q])
                   y == Coin * n
        <5>1. x \in Int /\ y \in Int
          BY <1>a, <2>2, WholeCoins DEF Coin
        <5>2. cash[q] % Coin = cash[q] - x
          BY <1>a, <2>2, WholeCoins
        <5>3. cash'[q] = x + y /\ Coin * Taken(task[t], q) = y /\ Coin * Taken(row, q) = 0
          BY <4>2 DEF Coin
        <5> HIDE DEF x, y
        <5> QED
          BY <1>a, <2>2, <5>1, <5>2, <5>3
      <4> QED
        BY <3>1, <4>1, <4>3 DEF CashFollows
    <3> QED
      BY <3>2, <3>3
  <2> QED
    BY <1>0, <1>9, <2>1, <2>5, OneRowTaken DEF Decline
<1>r. ASSUME NEW p \in Players, NEW n \in Redeems, Redeem(p, n)
      PROVE  MoneyKept
  <2>1. redeemed \in [Players -> Nat] /\ n \in Nat
    BY <1>0, MoneyAssumption DEF TypeOK
  <2>2. \A q \in Players : cash'[q] - redeemed'[q] = cash[q] - redeemed[q]
    BY <1>a, <1>r, <2>1 DEF Redeem
  <2>3. UNCHANGED task
    BY <1>r DEF Redeem
  <2> QED
    BY <1>0, <2>2, <2>3, SameTaken
<1>10. ASSUME WindowPasses
       PROVE  MoneyKept
  BY <1>10, <1>b DEF WindowPasses
<1>11. ASSUME UNCHANGED vars
       PROVE  MoneyKept
  BY <1>11, <1>b DEF vars
<1> QED
  BY <1>1, <1>2, <1>3, <1>4, <1>5, <1>6, <1>7, <1>8, <1>9, <1>r, <1>10, <1>11
     DEF Next

(* Whatever is requested, redeemed, completed, declined and retried, a step  *)
(* makes no cash of a player, and loses at most the fraction of a coin that  *)
(* it finds in the wallet.                                                  *)
THEOREM OnlyFractionsAreLost == Spec => OnlyFractionsLost
<1>1. TypeOK /\ [Next]_vars => [MoneyKept]_vars
  BY MoneyStep
<1> QED
  BY <1>1, TypeCorrect, PTL DEF Spec, OnlyFractionsLost, MoneyKept

-----------------------------------------------------------------------------
(* The balance events follow what the handlers move *)

(* The step that LedgerFollows asks for.                                     *)
Moved(p) == cash'[p] - cash[p] - (redeemed'[p] - redeemed[p])

Accounted(n, moved, c) == Coin * n - moved \in {0, c % Coin}

Follows ==
    /\ ledger \subseteq ledger'
    /\ \A a \in BoxHolders : box'[a] - box[a] = BalanceIn(ledger' \ ledger, a)
    /\ \A p \in Players : Accounted(BalanceIn(ledger' \ ledger, p), Moved(p), cash[p])

(* An event more adds its delta to its user's balance.                      *)
LEMMA BalanceWith ==
    ASSUME NEW L \in SUBSET Events, IsFiniteSet(L), NEW e \in Events, e \notin L, NEW who
    PROVE  /\ BalanceIn(L, who) \in Int
           /\ BalanceIn(L \cup {e}, who)
                = BalanceIn(L, who) + (IF who = e.user THEN e.delta ELSE 0)
<1> DEFINE v == [x \in L \cup {e} |-> IF x.user = who THEN x.delta ELSE 0]
           w == [x \in L |-> IF x.user = who THEN x.delta ELSE 0]
<1>1. \A x \in L \cup {e} : v[x] \in Int
  BY DEF Events
<1>2. \A x \in L : v[x] = w[x]
  OBVIOUS
<1>3. v[e] = IF who = e.user THEN e.delta ELSE 0
  OBVIOUS
<1>4. BalanceIn(L, who) = SumFunctionOnSet(w, L)
  BY DEF BalanceIn
<1>5. BalanceIn(L \cup {e}, who) = SumFunctionOnSet(v, L \cup {e})
  BY DEF BalanceIn
<1> HIDE DEF v, w
<1>6. SumFunctionOnSet(v, L) = SumFunctionOnSet(w, L)
  BY <1>2, SumSame
<1>7. SumFunctionOnSet(v, L \cup {e}) = SumFunctionOnSet(v, L) + v[e]
  BY <1>1, SumWith
<1>8. SumFunctionOnSet(v, L) \in Int
  BY <1>1, SumInt
<1> QED
  BY <1>3, <1>4, <1>5, <1>6, <1>7, <1>8

LEMMA BalanceOfNone ==
    ASSUME NEW who
    PROVE  BalanceIn({}, who) = 0
BY SumEmpty DEF BalanceIn

LEMMA BalanceOfOne ==
    ASSUME NEW e \in Events, NEW who
    PROVE  BalanceIn({e}, who) = IF who = e.user THEN e.delta ELSE 0
<1>1. {} \in SUBSET Events /\ IsFiniteSet({}) /\ e \notin {} /\ {} \cup {e} = {e}
  BY FS_EmptySet
<1>2. BalanceIn({} \cup {e}, who)
        = BalanceIn({}, who) + (IF who = e.user THEN e.delta ELSE 0)
  BY <1>1, BalanceWith
<1>3. e.delta \in Int
  BY DEF Events
<1> QED
  BY <1>1, <1>2, <1>3, BalanceOfNone

LEMMA BalanceOfTwo ==
    ASSUME NEW e \in Events, NEW f \in Events, e # f, NEW who
    PROVE  BalanceIn({e, f}, who)
             = (IF who = e.user THEN e.delta ELSE 0) + (IF who = f.user THEN f.delta ELSE 0)
<1>1. {e} \in SUBSET Events /\ IsFiniteSet({e}) /\ f \notin {e} /\ {e} \cup {f} = {e, f}
  BY FS_Singleton
<1>2. BalanceIn({e} \cup {f}, who)
        = BalanceIn({e}, who) + (IF who = f.user THEN f.delta ELSE 0)
  BY <1>1, BalanceWith
<1> QED
  BY <1>1, <1>2, BalanceOfOne

Keyed(L) == /\ L \subseteq Events
            /\ \A x \in L : x.key[1] = x.kind /\ x.key[2] = x.task

(* The first event of its kind for a task is really inserted.               *)
LEMMA RecordedFirst ==
    ASSUME NEW L, Keyed(L),
           NEW kind \in Kinds, NEW t \in Tasks,
           NEW u \in Players \cup Actors, NEW n \in Int,
           NEW id \in OpKeys \cup Actors \cup Players,
           BookedIn(L, kind, t) = {}
    PROVE  LET e == Event(kind, t, u, n, id)
           IN /\ e \in Events /\ e.key[1] = kind /\ e.key[2] = t
              /\ e.kind = kind /\ e.task = t /\ e.user = u /\ e.delta = n
              /\ e \notin L
              /\ Recorded(L, e) = L \cup {e}
<1> DEFINE e == Event(kind, t, u, n, id)
<1>1. /\ e \in Events /\ e.key[1] = kind /\ e.key[2] = t /\ e.kind = kind /\ e.task = t
      /\ e.user = u /\ e.delta = n
  BY EventType DEF Event
<1> HIDE DEF e
<1>2. Recorded(L, e) = L \cup {e}
  BY <1>1, RecordedNew DEF Keyed
<1>3. e \notin L
  BY <1>1 DEF BookedIn
<1> QED
  BY <1>1, <1>2, <1>3 DEF e

(* What the ledger cannot have booked yet for a request that is not settled. *)
LEMMA NotBooked ==
    ASSUME LedgerInv, NEW t \in Tasks, task[t].status \notin {"completed", "declined"}
    PROVE  /\ BookedIn(ledger, "handler_credit", t) = {}
           /\ BookedIn(ledger, "legacy_debit", t) = {}
           /\ BookedIn(ledger, "decline_refund", t) = {}
           /\ ~task[t].deducted => BookedIn(ledger, "request_debit", t) = {}
BY DEF LedgerInv, Tells

(* A wallet that stays as it is, and one that loses its fraction besides n.  *)
LEMMA WalletStays ==
    ASSUME TypeOK, NEW p \in Players,
           cash'[p] - redeemed'[p] = cash[p] - redeemed[p],
           cash'[p] \in Nat, redeemed'[p] \in Nat
    PROVE  Accounted(0, Moved(p), cash[p])
BY DEF TypeOK, Accounted, Moved, Coin

LEMMA WalletMoves ==
    ASSUME TypeOK, NEW p \in Players, NEW n \in Int,
           cash'[p] = Coin * (Whole(cash[p]) + n), UNCHANGED redeemed
    PROVE  Accounted(n, Moved(p), cash[p])
<1>1. cash[p] \in Nat /\ redeemed[p] \in Nat
  BY DEF TypeOK
<1>2. Whole(cash[p]) \in Nat /\ cash[p] % Coin = cash[p] - Coin * Whole(cash[p])
  BY <1>1, WholeCoins
<1>4. Coin * n - (cash'[p] - cash[p] - (redeemed'[p] - redeemed[p])) = cash[p] % Coin
  <2> DEFINE m == Whole(cash[p])
             c == cash'[p]
  <2>1. m \in Nat /\ c = Coin * (m + n) /\ redeemed'[p] = redeemed[p]
    BY <1>2
  <2> HIDE DEF m, c
  <2>2. Coin * n - (c - cash[p] - (redeemed'[p] - redeemed[p])) = cash[p] - Coin * m
    BY <1>1, <2>1 DEF Coin
  <2> QED
    BY <1>2, <2>2 DEF m, c
<1> QED
  BY <1>4 DEF Accounted, Moved

(* Every handler books what it moves.                                        *)
LEMMA FollowsStep == LedgerInv /\ [Next]_vars => Follows
<1> SUFFICES ASSUME LedgerInv, [Next]_vars PROVE Follows
  OBVIOUS
<1>0. TypeOK /\ TypeOK'
  BY TypeStep DEF LedgerInv
<1>a. /\ task \in [Tasks -> TaskRow]
      /\ cash \in [Players -> Nat] /\ cash' \in [Players -> Nat]
      /\ redeemed \in [Players -> Nat] /\ redeemed' \in [Players -> Nat]
      /\ box \in [BoxHolders -> Nat]
      /\ \A t \in Tasks : IF task[t].status = "absent" THEN task[t] = Unused
                                                      ELSE task[t].player \in Players
      /\ Keyed(ledger)
  BY <1>0 DEF TypeOK, Keyed
<1>b. ASSUME UNCHANGED <<box, ledger>>,
             \A p \in Players : cash'[p] - redeemed'[p] = cash[p] - redeemed[p]
      PROVE  Follows
  <2>1. ledger' \ ledger = {}
    BY <1>b
  <2>2. \A who : BalanceIn(ledger' \ ledger, who) = 0
    BY <2>1, BalanceOfNone
  <2>3. \A p \in Players : Accounted(0, Moved(p), cash[p])
    BY <1>0, <1>a, <1>b, WalletStays
  <2> QED
    <3>1. \A a \in BoxHolders : box'[a] - box[a] = BalanceIn(ledger' \ ledger, a)
      <4>1. \A a \in BoxHolders : box'[a] - box[a] = 0
        BY <1>a, <1>b
      <4> QED
        BY <2>2, <4>1
    <3>2. \A p \in Players : Accounted(BalanceIn(ledger' \ ledger, p), Moved(p), cash[p])
      BY <2>2, <2>3
    <3>3. ledger \subseteq ledger'
      BY <1>b
    <3> QED
      BY <3>1, <3>2, <3>3 DEF Follows
<1>c. ASSUME UNCHANGED <<cash, redeemed, box, ledger>> PROVE Follows
  BY <1>a, <1>b, <1>c
<1>d. \A a \in BoxHolders : a \notin Players
  BY UidAssumption, MoneyAssumption
<1>1. ASSUME NEW p \in Players, NEW k \in Keys, BeginCreate(p, k)
      PROVE  Follows
  BY <1>1, <1>c DEF BeginCreate
<1>2. ASSUME NEW d \in drafts, NEW t \in Tasks, CommitCreate(d, t)
      PROVE  Follows
  <2> DEFINE op == <<"create", d.player, d.key>>
             q  == d.player
  <2>1. PICK n \in 1 .. Whole(cash[d.player]) :
          /\ cash' = [cash EXCEPT ![d.player] = Coin * (Whole(@) - n)]
          /\ ledger' = Recorded(ledger, Event("request_debit", t, d.player, -n, op))
    BY <1>2 DEF CommitCreate
  <2> DEFINE e == Event("request_debit", t, q, -n, op)
  <2>2. /\ op \in OpKeys /\ q \in Players /\ -n \in Int
        /\ Whole(cash[q]) - n = Whole(cash[q]) + (-n)
    BY <1>0, <1>a, WholeCoins DEF OpKeys, TypeOK
  <2>3. BookedIn(ledger, "request_debit", t) = {}
    BY <1>2, <1>a, NotBooked DEF CommitCreate, Unused
  <2>4. UNCHANGED <<box, redeemed>>
    BY <1>2 DEF CommitCreate
  <2>5. cash' = [cash EXCEPT ![q] = Coin * (Whole(@) + (-n))] /\ ledger' = Recorded(ledger, e)
    BY <2>1, <2>2
  <2> HIDE DEF op, q
  <2>6. /\ e \in Events /\ e.user = q /\ e.delta = -n
        /\ e \notin ledger /\ ledger' = ledger \cup {e}
    BY <1>a, <2>2, <2>3, <2>5, RecordedFirst DEF Kinds
  <2> HIDE DEF e
  <2>7. \A who : BalanceIn(ledger' \ ledger, who) = IF who = q THEN -n ELSE 0
    <3>1. ledger' \ ledger = {e}
      BY <2>6
    <3> QED
      BY <2>6, <3>1, BalanceOfOne
  <2>8. /\ Accounted(-n, Moved(q), cash[q])
        /\ \A p \in Players \ {q} : Accounted(0, Moved(p), cash[p])
    <3>1. Accounted(-n, Moved(q), cash[q])
      BY <1>0, <1>a, <2>2, <2>4, <2>5, WalletMoves
    <3>2. \A p \in Players \ {q} : Accounted(0, Moved(p), cash[p])
      BY <1>0, <1>a, <2>4, <2>5, WalletStays
    <3> QED
      BY <3>1, <3>2
  <2> QED
    <3>a. \A h \in BoxHolders : box'[h] - box[h] = 0
      BY <1>a, <2>4
    <3>b. \A h \in BoxHolders : BalanceIn(ledger' \ ledger, h) = 0
      BY <1>d, <2>2, <2>7
    <3>c. ASSUME NEW p \in Players
          PROVE  Accounted(BalanceIn(ledger' \ ledger, p), Moved(p), cash[p])
      <4>1. CASE p = q
        <5>1. BalanceIn(ledger' \ ledger, q) = -n
          BY <2>2, <2>7
        <5> QED
          BY <2>8, <4>1, <5>1
      <4>2. CASE p # q
        <5>1. BalanceIn(ledger' \ ledger, p) = 0
          BY <2>2, <2>7, <4>2
        <5> QED
          BY <2>8, <4>2, <5>1
      <4> QED
        BY <4>1, <4>2
    <3>d. ledger \subseteq ledger'
      BY <2>6
    <3> QED
      BY <3>a, <3>b, <3>c, <3>d DEF Follows
<1>3. ASSUME NEW d \in drafts, AbortCreate(d)
      PROVE  Follows
  BY <1>3, <1>c DEF AbortCreate
<1>4. ASSUME NEW a \in Actors, NEW t \in Tasks, NEW u \in Telegram, Start(a, t, u)
      PROVE  Follows
  BY <1>4, <1>c DEF Start
<1>5. ASSUME NEW t \in Tasks, Expire(t)
      PROVE  Follows
  BY <1>5, <1>c DEF Expire
<1>6. ASSUME NEW a \in Actors, NEW t \in Tasks, Release(a, t)
      PROVE  Follows
  BY <1>6, <1>c DEF Release
<1>7. ASSUME NEW c \in Actors, TimeoutRelease(c)
      PROVE  Follows
  BY <1>7, <1>c DEF TimeoutRelease
<1>8. ASSUME NEW a \in Actors, NEW t \in Tasks, NEW u \in Telegram,
             NEW k \in Keys \cup TelegramUsers, Complete(a, t, u, k)
      PROVE  Follows
  <2> DEFINE q   == task[t].player
             n   == task[t].amount
             pay == Payout(a, n)
             credit == Event("handler_credit", t, a, pay, a)
             debit  == Event("legacy_debit", t, q, -n, q)
  <2>1. /\ task[t].status \in Active
        /\ box' = IF a \in BoxHolders THEN [box EXCEPT ![a] = @ + pay] ELSE box
        /\ IF task[t].deducted
           THEN ledger' = Recorded(ledger, credit) /\ cash' = cash
           ELSE /\ ledger' = Recorded(Recorded(ledger, credit), debit)
                /\ cash' = [cash EXCEPT ![q] = Coin * (Whole(@) - n)]
        /\ UNCHANGED redeemed
    BY <1>8, <1>a DEF Complete, Open
  <2>2. q \in Players /\ n \in Nat /\ -n \in Int
    BY <1>a, <2>1 DEF Active, TaskRow
  <2>3. pay \in Nat
    BY <2>2, PayoutType
  <2>4. /\ BookedIn(ledger, "handler_credit", t) = {}
        /\ BookedIn(ledger, "legacy_debit", t) = {}
    BY <2>1, NotBooked DEF Active
  <2> HIDE DEF q, n, pay
  <2>5. /\ credit \in Events /\ credit.key[1] = credit.kind /\ credit.key[2] = credit.task
        /\ credit.kind = "handler_credit" /\ credit.user = a /\ credit.delta = pay
        /\ credit \notin ledger /\ Recorded(ledger, credit) = ledger \cup {credit}
    BY <1>a, <2>3, <2>4, RecordedFirst DEF Kinds
  <2>6. a \notin Players
    BY UidAssumption
  <2>7. \A h \in BoxHolders : box'[h] - box[h] = IF h = a THEN pay ELSE 0
    BY <1>a, <2>1, <2>3
  <2>8. CASE task[t].deducted
    <3>1. ledger' \ ledger = {credit} /\ ledger \subseteq ledger'
      BY <2>1, <2>5, <2>8
    <3> HIDE DEF credit
    <3>2. \A who : BalanceIn(ledger' \ ledger, who) = IF who = a THEN pay ELSE 0
      BY <2>5, <3>1, BalanceOfOne
    <3>3. \A p \in Players : Accounted(0, Moved(p), cash[p])
      BY <1>0, <1>a, <2>1, <2>8, WalletStays
    <3> QED
      <4>a. \A h \in BoxHolders : box'[h] - box[h] = IF h = a THEN pay ELSE 0
        BY <2>7
      <4>b. \A h \in BoxHolders : BalanceIn(ledger' \ ledger, h) = IF h = a THEN pay ELSE 0
        BY <3>2
      <4>c. ASSUME NEW p \in Players
            PROVE  Accounted(BalanceIn(ledger' \ ledger, p), Moved(p), cash[p])
        <5>1. p # a
          BY <2>6
        <5>2. BalanceIn(ledger' \ ledger, p) = 0
          BY <3>2, <5>1
        <5> QED
          BY <3>3, <5>2
      <4>d. ledger \subseteq ledger'
        BY <3>1
      <4> QED
        BY <4>a, <4>b, <4>c, <4>d DEF Follows
  <2>9. CASE ~task[t].deducted
    <3> DEFINE paid == ledger \cup {credit}
    <3>1. Keyed(paid) /\ BookedIn(paid, "legacy_debit", t) = {}
      <4> HIDE DEF credit
      <4> QED
        BY <1>a, <2>4, <2>5 DEF BookedIn, Keyed
    <3>2. ledger' = Recorded(paid, debit)
      BY <2>1, <2>5, <2>9
    <3> HIDE DEF paid
    <3>3. /\ debit \in Events /\ debit.user = q /\ debit.delta = -n
          /\ debit \notin paid /\ ledger' = paid \cup {debit}
      BY <2>2, <3>1, <3>2, RecordedFirst DEF Kinds
    <3> HIDE DEF credit, debit
    <3>4. /\ ledger' \ ledger = {credit, debit} /\ ledger \subseteq ledger'
          /\ credit # debit
      BY <2>5, <3>3 DEF paid
    <3>5. \A who : BalanceIn(ledger' \ ledger, who)
                     = (IF who = a THEN pay ELSE 0) + (IF who = q THEN -n ELSE 0)
      BY <2>5, <3>3, <3>4, BalanceOfTwo
    <3>6. /\ \A h \in BoxHolders : BalanceIn(ledger' \ ledger, h) = IF h = a THEN pay ELSE 0
          /\ \A p \in Players : BalanceIn(ledger' \ ledger, p) = IF p = q THEN -n ELSE 0
      <4>1. ASSUME NEW h \in BoxHolders
            PROVE  BalanceIn(ledger' \ ledger, h) = IF h = a THEN pay ELSE 0
        <5>1. h # q
          BY <1>d, <2>2
        <5>2. BalanceIn(ledger' \ ledger, h) = (IF h = a THEN pay ELSE 0) + 0
          BY <3>5, <5>1
        <5> QED
          BY <2>3, <5>2
      <4>2. ASSUME NEW p \in Players
            PROVE  BalanceIn(ledger' \ ledger, p) = IF p = q THEN -n ELSE 0
        <5>1. p # a
          BY <2>6
        <5>2. BalanceIn(ledger' \ ledger, p) = 0 + (IF p = q THEN -n ELSE 0)
          BY <3>5, <5>1
        <5> QED
          BY <2>2, <5>2
      <4> QED
        BY <4>1, <4>2
    <3>7. /\ Accounted(-n, Moved(q), cash[q])
          /\ \A p \in Players \ {q} : Accounted(0, Moved(p), cash[p])
      <4>1. cash' = [cash EXCEPT ![q] = Coin * (Whole(@) + (-n))]
        <5>1. Whole(cash[q]) - n = Whole(cash[q]) + (-n)
          BY <1>a, <2>2, WholeCoins
        <5> QED
          BY <2>1, <2>9, <5>1
      <4>2. Accounted(-n, Moved(q), cash[q])
        BY <1>0, <1>a, <2>1, <2>2, <4>1, WalletMoves
      <4>3. \A p \in Players \ {q} : Accounted(0, Moved(p), cash[p])
        BY <1>0, <1>a, <2>1, <4>1, WalletStays
      <4> QED
        BY <4>2, <4>3
    <3>8. ASSUME NEW p \in Players
          PROVE  Accounted(BalanceIn(ledger' \ ledger, p), Moved(p), cash[p])
      <4>1. CASE p = q
        <5>1. BalanceIn(ledger' \ ledger, q) = -n
          BY <2>2, <3>6
        <5> QED
          BY <3>7, <4>1, <5>1
      <4>2. CASE p # q
        <5>1. BalanceIn(ledger' \ ledger, p) = 0
          BY <2>2, <3>6, <4>2
        <5> QED
          BY <3>7, <4>2, <5>1
      <4> QED
        BY <4>1, <4>2
    <3> QED
      BY <2>7, <3>4, <3>6, <3>8 DEF Follows
  <2> QED
    BY <2>8, <2>9
<1>9. ASSUME NEW a \in Actors, NEW t \in Tasks, NEW k \in Keys, Decline(a, t, k)
      PROVE  Follows
  <2> DEFINE q  == task[t].player
             n  == task[t].amount
             op == <<"decline", t, k>>
             e  == Event("decline_refund", t, q, n, op)
  <2>1. /\ task[t].status \in Active
        /\ UNCHANGED <<box, redeemed>>
        /\ IF task[t].deducted
           THEN /\ ledger' = Recorded(ledger, e)
                /\ cash' = [cash EXCEPT ![q] = Coin * (Whole(@) + n)]
           ELSE ledger' = ledger /\ cash' = cash
    BY <1>9, <1>a DEF Decline, Open
  <2>2. q \in Players /\ n \in Int /\ op \in OpKeys
    BY <1>a, <2>1 DEF Active, TaskRow, OpKeys
  <2>3. BookedIn(ledger, "decline_refund", t) = {}
    BY <2>1, NotBooked DEF Active
  <2> HIDE DEF q, n, op
  <2>4. CASE task[t].deducted
    <3>1. /\ e \in Events /\ e.user = q /\ e.delta = n
          /\ e \notin ledger /\ ledger' = ledger \cup {e}
      BY <1>a, <2>1, <2>2, <2>3, <2>4, RecordedFirst DEF Kinds
    <3> HIDE DEF e
    <3>2. \A who : BalanceIn(ledger' \ ledger, who) = IF who = q THEN n ELSE 0
      <4>1. ledger' \ ledger = {e}
        BY <3>1
      <4> QED
        BY <3>1, <4>1, BalanceOfOne
    <3>3. /\ Accounted(n, Moved(q), cash[q])
          /\ \A p \in Players \ {q} : Accounted(0, Moved(p), cash[p])
      <4>1. cash' = [cash EXCEPT ![q] = Coin * (Whole(@) + n)]
        BY <2>1, <2>4
      <4>2. Accounted(n, Moved(q), cash[q])
        BY <1>0, <1>a, <2>1, <2>2, <4>1, WalletMoves
      <4>3. \A p \in Players \ {q} : Accounted(0, Moved(p), cash[p])
        BY <1>0, <1>a, <2>1, <4>1, WalletStays
      <4> QED
        BY <4>2, <4>3
    <3> QED
      <4>a. \A h \in BoxHolders : box'[h] - box[h] = 0
        BY <1>a, <2>1
      <4>b. \A h \in BoxHolders : BalanceIn(ledger' \ ledger, h) = 0
        BY <1>d, <2>2, <3>2
      <4>c. ASSUME NEW p \in Players
            PROVE  Accounted(BalanceIn(ledger' \ ledger, p), Moved(p), cash[p])
        <5>1. CASE p = q
          <6>1. BalanceIn(ledger' \ ledger, q) = n
            BY <2>2, <3>2
          <6> QED
            BY <3>3, <5>1, <6>1
        <5>2. CASE p # q
          <6>1. BalanceIn(ledger' \ ledger, p) = 0
            BY <2>2, <3>2, <5>2
          <6> QED
            BY <3>3, <5>2, <6>1
        <5> QED
          BY <5>1, <5>2
      <4>d. ledger \subseteq ledger'
        BY <3>1
      <4> QED
        BY <4>a, <4>b, <4>c, <4>d DEF Follows
  <2>5. CASE ~task[t].deducted
    BY <1>c, <2>1, <2>5
  <2> QED
    BY <2>4, <2>5
<1>r. ASSUME NEW p \in Players, NEW n \in Redeems, Redeem(p, n)
      PROVE  Follows
  <2>1. n \in Nat
    BY MoneyAssumption
  <2>2. \A q \in Players : cash'[q] - redeemed'[q] = cash[q] - redeemed[q]
    BY <1>a, <1>r, <2>1 DEF Redeem
  <2> QED
    BY <1>b, <1>r, <2>2 DEF Redeem
<1>10. ASSUME WindowPasses
       PROVE  Follows
  BY <1>10, <1>c DEF WindowPasses
<1>11. ASSUME UNCHANGED vars
       PROVE  Follows
  BY <1>11, <1>c DEF vars
<1> QED
  BY <1>1, <1>2, <1>3, <1>4, <1>5, <1>6, <1>7, <1>8, <1>9, <1>r, <1>10, <1>11
     DEF Next

(* The balance events of every step come to what it moves, but for the       *)
(* fraction of a coin that it drops from a wallet.                           *)
THEOREM LedgerAlwaysFollows == Spec => LedgerFollows
<1>1. LedgerInv /\ [Next]_vars => [Follows]_vars
  BY FollowsStep
<1> QED
  BY <1>1, LedgerInit, LedgerStep, PTL DEF Spec, LedgerFollows, Follows,
     Accounted, Moved
-----------------------------------------------------------------------------
(* The cash-out handlers implement CashoutSettlement *)

deal == [t \in Tasks |-> Deal(task[t])]

SettlementVars == <<cash, box, deal>>

(* Handlers that leave fates and money alone are stuttering steps.          *)
LEMMA SameDeals ==
    ASSUME TypeOK, NEW t \in Tasks, task[t].status \in Active,
           NEW status \in Active, NEW h, NEW g,
           task' = [task EXCEPT ![t] = Upserted(task[t], status, h, g)]
    PROVE  deal' = deal
<1>1. Deal(Upserted(task[t], status, h, g)) = Deal(task[t])
  BY DEF Deal, Fate, Upserted, Active
<1>2. \A s \in Tasks : Deal(task'[s]) = Deal(task[s])
  BY <1>1 DEF TypeOK
<1> QED
  BY <1>2 DEF deal

(* Rewriting one row changes one deal.                                      *)
LEMMA OneDeal ==
    ASSUME TypeOK, NEW t \in Tasks, NEW r, task' = [task EXCEPT ![t] = r]
    PROVE  deal' = [deal EXCEPT ![t] = Deal(r)]
<1>1. \A s \in Tasks : task'[s] = IF s = t THEN r ELSE task[s]
  BY DEF TypeOK
<1>2. \A s \in Tasks : Deal(task'[s]) = IF s = t THEN Deal(r) ELSE Deal(task[s])
  BY <1>1
<1> QED
  BY <1>2 DEF deal

(* The first requests are the deals' first state.                           *)
LEMMA RefinesInit == Init => Settlement!Init
<1> SUFFICES ASSUME Init PROVE Settlement!Init
  OBVIOUS
<1> PICK imported \in SUBSET LegacyTasks :
      task = [t \in Tasks |->
               IF t \in imported
               THEN Requested(LegacyPlayer[t], LegacyAmount[t], FALSE)
               ELSE Unused]
  BY DEF Init
<1>1. ASSUME NEW t \in Tasks
      PROVE  Deal(task[t]) =
               IF t \in imported
               THEN [fate |-> "owed", player |-> LegacyPlayer[t],
                     amount |-> LegacyAmount[t], to |-> Nobody]
               ELSE [fate |-> "none", player |-> Nobody,
                     amount |-> 0, to |-> Nobody]
  BY DEF Deal, Fate, Active, Requested, Unused
<1>2. cash = InitialCash /\ box = [a \in BoxHolders |-> 0]
  BY DEF Init
<1> QED
  BY <1>1, <1>2 DEF Settlement!Init
(* Every step of the handlers holds, pays, refunds or drops one request, or  *)
(* stutters.                                                                *)
LEMMA RefinesStep ==
    ASSUME TypeOK, [Next]_vars
    PROVE  [Settlement!Next]_SettlementVars
<1> DEFINE Step == [Settlement!Next]_SettlementVars
<1>a. ASSUME UNCHANGED <<cash, box, task>> PROVE Step
  BY <1>a DEF SettlementVars, deal
<1>b. ASSUME NEW t \in Tasks, task[t].status \in Active,
             NEW status \in Active, NEW h, NEW g,
             task' = [task EXCEPT ![t] = Upserted(task[t], status, h, g)],
             UNCHANGED <<cash, box>>
      PROVE  Step
  BY <1>b, SameDeals DEF SettlementVars
<1>c. deal = [t \in Tasks |-> Deal(task[t])]
  BY DEF deal
<1>d. task \in [Tasks -> TaskRow] /\ cash \in [Players -> Nat]
  BY DEF TypeOK
<1>1. ASSUME NEW p \in Players, NEW k \in Keys, BeginCreate(p, k)
      PROVE  Step
  BY <1>1, <1>a DEF BeginCreate
<1>2. ASSUME NEW d \in drafts, NEW t \in Tasks, CommitCreate(d, t)
      PROVE  Step
  <2>1. PICK n \in 1 .. Whole(cash[d.player]) :
          /\ cash' = [cash EXCEPT ![d.player] = Coin * (Whole(@) - n)]
          /\ task' = [task EXCEPT ![t] = Requested(d.player, n, TRUE)]
    BY <1>2 DEF CommitCreate
  <2>2. d.player \in Players
    BY DEF TypeOK
  <2>3. Deal(Requested(d.player, n, TRUE)) =
          [fate |-> "held", player |-> d.player, amount |-> n, to |-> Nobody]
    BY DEF Deal, Fate, Active, Requested
  <2>4. deal' = [deal EXCEPT ![t] = Deal(Requested(d.player, n, TRUE))]
    BY <2>1, OneDeal
  <2>5. deal[t].fate = "none"
    <3>1. task[t].status = "absent"
      BY <1>2 DEF CommitCreate
    <3> QED
      BY <1>c, <3>1 DEF Deal, Fate, Active
  <2>6. Settlement!Coins(d.player) = Whole(cash[d.player])
    BY DEF Settlement!Coins, Whole
  <2>7. Settlement!Hold(d.player, t, n)
    BY <1>2, <1>c, <2>1, <2>3, <2>4, <2>5, <2>6
       DEF CommitCreate, Settlement!Hold, deal
  <2> QED
    BY <2>1, <2>2, <2>6, <2>7 DEF Settlement!Next
<1>3. ASSUME NEW d \in drafts, AbortCreate(d)
      PROVE  Step
  BY <1>3, <1>a DEF AbortCreate
<1>4. ASSUME NEW a \in Actors, NEW t \in Tasks, NEW u \in Telegram, Start(a, t, u)
      PROVE  Step
  BY <1>4, <1>b DEF Start, Active
<1>5. ASSUME NEW t \in Tasks, Expire(t)
      PROVE  Step
  BY <1>5, <1>a DEF Expire
<1>6. ASSUME NEW a \in Actors, NEW t \in Tasks, Release(a, t)
      PROVE  Step
  BY <1>6, <1>b DEF Release, Unclaimed, Active
<1>7. ASSUME NEW c \in Actors, TimeoutRelease(c)
      PROVE  Step
  <2>1. \A t \in Releasable(c) : task[t].status \in Active
    BY DEF Releasable, ExpiredTasks, Active
  <2>2. /\ task' = [t \in Tasks |-> IF t \in Releasable(c)
                                   THEN Upserted(task[t], "pending", Nobody, NoUser)
                                   ELSE task[t]]
        /\ UNCHANGED <<cash, box>>
    BY <1>7 DEF TimeoutRelease, Unclaimed
  <2>3. ASSUME NEW t \in Tasks PROVE Deal(task'[t]) = Deal(task[t])
    <3>1. CASE t \in Releasable(c)
      <4>1. task[t].status = "in_progress"
        BY <3>1 DEF Releasable, ExpiredTasks
      <4>2. task'[t] = Upserted(task[t], "pending", Nobody, NoUser)
        BY <2>2, <3>1
      <4> QED
        BY <4>1, <4>2 DEF Deal, Fate, Active, Upserted
    <3>2. CASE t \notin Releasable(c)
      BY <2>2, <3>2
    <3> QED
      BY <3>1, <3>2
  <2>4. deal' = deal
    BY <2>3 DEF deal
  <2> QED
    BY <2>2, <2>4 DEF SettlementVars
<1>8. ASSUME NEW a \in Actors, NEW t \in Tasks, NEW u \in Telegram,
             NEW k \in Keys \cup TelegramUsers, Complete(a, t, u, k)
      PROVE  Step
  <2> DEFINE row == Upserted(task[t], "completed", a, task[t].telegram)
  <2>1. /\ task' = [task EXCEPT ![t] = row]
        /\ task[t].status \in Active
        /\ box' = IF a \in BoxHolders
                  THEN [box EXCEPT ![a] = @ + Payout(a, task[t].amount)] ELSE box
    BY <1>8 DEF Complete, Open
  <2>2. Deal(row) = Settlement!Ended(deal[t], "paid", a)
    BY <1>c DEF Deal, Fate, Upserted, Settlement!Ended, Active
  <2>3. deal' = [deal EXCEPT ![t] = Deal(row)]
    BY <2>1, OneDeal
  <2>4. deal[t].amount = task[t].amount /\ deal[t].player = task[t].player
    BY <1>c DEF Deal
  <2>5. Settlement!Credit(a, deal[t].amount)
    BY <2>1, <2>4 DEF Settlement!Credit, deal
  <2>6. CASE task[t].deducted
    <3>1. cash' = cash
      BY <1>8, <2>6 DEF Complete
    <3>2. deal[t].fate = "held"
      BY <1>c, <2>1, <2>6 DEF Deal, Fate, Active
    <3>3. Settlement!PayHeld(t, a)
      BY <2>2, <2>3, <2>5, <3>1, <3>2 DEF Settlement!PayHeld, deal
    <3> QED
      BY <3>3 DEF Settlement!Next
  <2>7. CASE ~task[t].deducted
    <3>1. /\ Whole(cash[task[t].player]) >= task[t].amount
          /\ cash' = [cash EXCEPT ![task[t].player] =
                                     Coin * (Whole(@) - task[t].amount)]
      BY <1>8, <2>7 DEF Complete, Affordable
    <3>2. deal[t].fate = "owed"
      BY <1>c, <2>1, <2>7 DEF Deal, Fate, Active
    <3>3. Settlement!Coins(deal[t].player) = Whole(cash[task[t].player])
      BY <2>4 DEF Settlement!Coins, Whole
    <3>4. cash' = [cash EXCEPT ![deal[t].player] =
                     Coin * (Settlement!Coins(deal[t].player) - deal[t].amount)]
      BY <1>d, <2>4, <3>1, <3>3
    <3>5. Settlement!PayOwed(t, a)
      BY <2>2, <2>3, <2>4, <2>5, <3>1, <3>2, <3>3, <3>4 DEF Settlement!PayOwed, deal
    <3> QED
      BY <3>5 DEF Settlement!Next
  <2> QED
    BY <2>6, <2>7
<1>9. ASSUME NEW a \in Actors, NEW t \in Tasks, NEW k \in Keys, Decline(a, t, k)
      PROVE  Step
  <2> DEFINE row == Upserted(task[t], "declined", task[t].handler, task[t].telegram)
  <2>1. /\ task' = [task EXCEPT ![t] = row]
        /\ task[t].status \in Active
        /\ box' = box
    BY <1>9 DEF Decline, Open
  <2>2. deal' = [deal EXCEPT ![t] = Deal(row)]
    BY <2>1, OneDeal
  <2>3. deal[t].amount = task[t].amount /\ deal[t].player = task[t].player
    BY <1>c DEF Deal
  <2>4. CASE task[t].deducted
    <3>1. cash' = [cash EXCEPT ![deal[t].player] =
                     Coin * (Settlement!Coins(deal[t].player) + deal[t].amount)]
      <4>1. cash' = [cash EXCEPT ![task[t].player] =
                                   Coin * (Whole(@) + task[t].amount)]
        BY <1>9, <2>4 DEF Decline
      <4>2. Settlement!Coins(deal[t].player) = Whole(cash[task[t].player])
        BY <2>3 DEF Settlement!Coins, Whole
      <4> QED
        BY <1>d, <2>3, <4>1, <4>2
    <3>2. deal[t].fate = "held"
      BY <1>c, <2>1, <2>4 DEF Deal, Fate, Active
    <3>3. Deal(row) = Settlement!Ended(deal[t], "refunded", Nobody)
      BY <1>c, <2>4 DEF Deal, Fate, Upserted, Settlement!Ended, Active
    <3>4. Settlement!Refund(t)
      BY <2>1, <2>2, <2>3, <3>1, <3>2, <3>3 DEF Settlement!Refund, deal
    <3> QED
      BY <3>4 DEF Settlement!Next
  <2>5. CASE ~task[t].deducted
    <3>1. cash' = cash
      BY <1>9, <2>5 DEF Decline
    <3>2. deal[t].fate = "owed"
      BY <1>c, <2>1, <2>5 DEF Deal, Fate, Active
    <3>3. Deal(row) = Settlement!Ended(deal[t], "dropped", Nobody)
      BY <1>c, <2>5 DEF Deal, Fate, Upserted, Settlement!Ended, Active
    <3>4. Settlement!Drop(t)
      BY <2>1, <2>2, <3>1, <3>2, <3>3 DEF Settlement!Drop, deal
    <3> QED
      BY <3>4 DEF Settlement!Next
  <2> QED
    BY <2>4, <2>5
<1>r. ASSUME NEW p \in Players, NEW n \in Redeems, Redeem(p, n)
      PROVE  Step
  <2>1. Settlement!Earn(p, n)
    BY <1>r DEF Redeem, Settlement!Earn, deal
  <2> QED
    BY <2>1 DEF Settlement!Next
<1>10. ASSUME WindowPasses
       PROVE  Step
  BY <1>10, <1>a DEF WindowPasses
<1>11. ASSUME UNCHANGED vars
       PROVE  Step
  BY <1>11, <1>a DEF vars
<1> QED
  BY <1>1, <1>2, <1>3, <1>4, <1>5, <1>6, <1>7, <1>8, <1>9, <1>r, <1>10, <1>11
     DEF Next

(* The handlers keep the promise of CashoutSettlement: whatever interleaving *)
(* of claims, retries and timeouts, money moves as deals begin and end.     *)
THEOREM HandlersImplementSettlement == Spec => ImplementsSettlement
<1>1. TypeOK /\ [Next]_vars => [Settlement!Next]_SettlementVars
  BY RefinesStep
<1> QED
  BY <1>1, RefinesInit, TypeInit, TypeStep, PTL
     DEF Spec, ImplementsSettlement, Settlement!Spec, Settlement!vars, SettlementVars, deal
=============================================================================
