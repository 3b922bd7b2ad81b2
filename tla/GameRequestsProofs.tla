------------------------- MODULE GameRequestsProofs -------------------------
(***************************************************************************)
(* Proofs about GameRequests for every set of players, requests, carers,   *)
(* jobs and keys.                                                          *)
(***************************************************************************)
EXTENDS GameRequests, TLAPS

(* A job that is in use names its task and its carer, and an agent has      *)
(* something to say only about such a job.                                  *)
JobsNamed ==
    /\ \A j \in Jobs : job[j].status # "unused" =>
         job[j].task \in Requests /\ job[j].carer \in Carers
    /\ \A j \in Jobs : report[j] # "none" \/ job[j].suspect =>
         job[j].status # "unused"

TypeInv == TypeOK /\ JobsNamed

-----------------------------------------------------------------------------
(* Rows that the handlers write *)

LEMMA TaskOfType ==
    ASSUME NEW status \in TaskStatuses
    PROVE  TaskOf(status) \in TaskRow
BY DEF TaskOf, TaskRow

LEMMA ClaimedByType ==
    ASSUME NEW row \in TaskRow, NEW c \in Carers, NEW j \in Jobs,
           NEW started \in BOOLEAN
    PROVE  ClaimedBy(row, c, j, started) \in TaskRow
BY DEF ClaimedBy, TaskRow, TaskStatuses

LEMMA TaskCompletedType ==
    ASSUME NEW row \in TaskRow
    PROVE  TaskCompleted(row) \in TaskRow
BY DEF TaskCompleted, TaskRow, TaskStatuses

LEMMA TombstonedType ==
    ASSUME NEW row \in TaskRow
    PROVE  Tombstoned(row) \in TaskRow
BY DEF Tombstoned, TaskRow

LEMMA ReviewedType ==
    ASSUME NEW row \in TaskRow
    PROVE  Reviewed(row) \in TaskRow
BY DEF Reviewed, TaskRow

LEMMA DismissedTaskType ==
    ASSUME NEW row \in TaskRow
    PROVE  DismissedTask(row) \in TaskRow
BY DEF DismissedTask, TaskRow, TaskStatuses

LEMMA WaitingTaskType ==
    ASSUME NEW row \in TaskRow
    PROVE  /\ WaitingTask(row) \in TaskRow
           /\ [WaitingTask(row) EXCEPT !.error = FALSE] \in TaskRow
BY DEF WaitingTask, TaskRow, TaskStatuses

LEMMA StartedType ==
    ASSUME NEW row \in TaskRow, NEW j \in Jobs, job[j].carer \in Carers
    PROVE  Started(row, j) \in TaskRow
BY DEF Started, TaskRow

(* A row that is ended keeps its task and carer.                            *)
LEMMA EndedType ==
    ASSUME NEW row \in JobRow, NEW status \in JobStatuses
    PROVE  /\ Ended(row, status) \in JobRow
           /\ Ended(row, status).status = status
           /\ Ended(row, status).task = row.task
           /\ Ended(row, status).carer = row.carer
           /\ Ended(row, status).suspect = row.suspect
BY DEF Ended, JobRow

(* A job that starts, and one that a recovery has read.                     *)
LEMMA RunningType ==
    ASSUME NEW row \in JobRow
    PROVE  LET running == [row EXCEPT !.status = "running", !.fresh = TRUE] IN
           /\ running \in JobRow
           /\ running.task = row.task /\ running.carer = row.carer
           /\ running.status = "running"
BY DEF JobRow, JobStatuses

LEMMA SuspectType ==
    ASSUME NEW row \in JobRow
    PROVE  LET suspect == [row EXCEPT !.suspect = TRUE] IN
           /\ suspect \in JobRow
           /\ suspect.task = row.task /\ suspect.carer = row.carer
           /\ suspect.status = row.status
BY DEF JobRow

(* Ending jobs that are in use keeps all jobs typed and named.              *)
LEMMA JobsEndedType ==
    ASSUME TypeInv, NEW S, NEW status \in JobStatuses \ {"unused"},
           \A j \in S \cap Jobs : job[j].status # "unused",
           job' = JobsEnded(S, status), report' \in [Jobs -> Reports],
           \A j \in Jobs : report'[j] # "none" => job[j].status # "unused"
    PROVE  job' \in [Jobs -> JobRow] /\ JobsNamed'
<1> USE DEF TypeInv, TypeOK
<1>1. ASSUME NEW j \in Jobs
      PROVE  /\ job'[j] \in JobRow
             /\ job'[j].task = job[j].task
             /\ job'[j].carer = job[j].carer
             /\ job'[j].suspect = job[j].suspect
             /\ job'[j].status # "unused" <=> job[j].status # "unused"
  <2>1. job'[j] = IF j \in S THEN Ended(job[j], status) ELSE job[j]
    BY DEF JobsEnded
  <2>2. job[j] \in JobRow
    OBVIOUS
  <2>3. CASE j \in S
    BY <2>1, <2>2, <2>3, EndedType
  <2>4. CASE j \notin S
    BY <2>1, <2>2, <2>4
  <2> QED
    BY <2>3, <2>4
<1>2. job' \in [Jobs -> JobRow]
  BY <1>1 DEF JobsEnded
<1>3. JobsNamed'
  BY <1>1 DEF JobsNamed
<1> QED
  BY <1>2, <1>3

-----------------------------------------------------------------------------
(* Steps *)

(* Balances, events, rewards and requests, as TypeOK has them.              *)
MoneyTyped ==
    /\ coin \in [Players -> Nat]
    /\ cash \in [Players -> Nat]
    /\ box \in [Actors -> Nat]
    /\ base \in [Requests -> Nat]
    /\ request \in [Requests -> RequestStatuses]
    /\ events \in [Requests -> [EventKinds -> Nat]]
    /\ rewarded \subseteq Requests \X Actors

LEMMA CountedType ==
    ASSUME MoneyTyped, NEW r \in Requests, NEW e \in EventKinds
    PROVE  Counted(r, e) \in [Requests -> [EventKinds -> Nat]]
BY DEF MoneyTyped, Counted

LEMMA CompleteType ==
    ASSUME MoneyTyped, task \in [Requests -> TaskRow],
           NEW a \in Actors, NEW r \in Requests, NEW k \in Keys \cup Jobs,
           ops \subseteq OpKeys, Complete(a, r, k)
    PROVE  MoneyTyped' /\ task' \in [Requests -> TaskRow] /\ ops' \subseteq OpKeys
<1> USE DEF MoneyTyped
<1>1. TaskCompleted(task[r]) \in TaskRow
  BY TaskCompletedType
<1>2. ops' \subseteq OpKeys
  BY DEF Complete, OpKeys
<1>3. CASE UNCHANGED money /\ UNCHANGED request
  <2>1. \/ task' = task
        \/ task' = [task EXCEPT ![r] = TaskCompleted(@)]
    BY DEF Complete, Settle
  <2>2. task' \in [Requests -> TaskRow]
    BY <1>1, <2>1
  <2>3. MoneyTyped'
    BY <1>3 DEF money
  <2> QED
    BY <1>2, <2>2, <2>3
<1>4. CASE Settle(a, r)
  <2>1. PlayerOf[r] \in Players /\ Amount[r] \in Nat
    BY KindAssumption
  <2>2. box' \in [Actors -> Nat] /\ rewarded' \subseteq Requests \X Actors
    <3>1. Reward(a, r)
      BY <1>4 DEF Settle
    <3>2. CASE a \in BoxHolders
      <4>1. /\ box' = [box EXCEPT ![a] = @ + 1]
            /\ rewarded' = rewarded \cup {<<r, a>>}
        BY <3>1, <3>2 DEF Reward
      <4>2. box' \in [Actors -> Nat]
        BY <4>1
      <4>3. rewarded' \subseteq Requests \X Actors
        BY <4>1
      <4> QED
        BY <4>2, <4>3
    <3>3. CASE a \notin BoxHolders
      BY <3>1, <3>3 DEF Reward
    <3> QED
      BY <3>2, <3>3
  <2>3. /\ Counted(r, "credit") \in [Requests -> [EventKinds -> Nat]]
        /\ Counted(r, "deposit") \in [Requests -> [EventKinds -> Nat]]
    BY CountedType DEF EventKinds
  <2>4. cash' \in [Players -> Nat] /\ events' \in [Requests -> [EventKinds -> Nat]]
    <3>1. CASE KindOf[r] = "redeem"
      <4>1. /\ cash' = [cash EXCEPT ![PlayerOf[r]] = @ + Amount[r]]
            /\ events' = Counted(r, "credit")
        BY <1>4, <3>1 DEF Settle
      <4> QED
        BY <2>1, <2>3, <4>1
    <3>2. CASE KindOf[r] # "redeem"
      <4>1. cash' = cash /\ events' = Counted(r, "deposit")
        BY <1>4, <3>2 DEF Settle
      <4> QED
        BY <2>3, <4>1
    <3> QED
      BY <3>1, <3>2
  <2>5. request' \in [Requests -> RequestStatuses] /\ coin' = coin /\ base' = base
    BY <1>4 DEF Settle, RequestStatuses
  <2>6. task' \in [Requests -> TaskRow]
    BY <1>1, <1>4 DEF Settle
  <2> QED
    BY <1>2, <2>2, <2>4, <2>5, <2>6
<1> QED
  BY <1>3, <1>4 DEF Complete

LEMMA DismissType ==
    ASSUME MoneyTyped, NEW r \in Requests, DismissRequest(r)
    PROVE  MoneyTyped'
<1> USE DEF MoneyTyped
<1>1. CASE UNCHANGED <<money, request>>
  BY <1>1 DEF money
<1>2. CASE Dismissed(r)
  <2>1. PlayerOf[r] \in Players /\ Amount[r] \in Nat
    BY KindAssumption
  <2>2. Counted(r, "refund") \in [Requests -> [EventKinds -> Nat]]
    BY CountedType DEF EventKinds
  <2> QED
    <3>1. CASE KindOf[r] = "recharge"
      <4>1. /\ coin' = [coin EXCEPT ![PlayerOf[r]] = @ + base[r]]
            /\ events' = Counted(r, "refund")
        BY <1>2, <3>1 DEF Dismissed
      <4>2. coin' \in [Players -> Nat]
        BY <2>1, <4>1
      <4> QED
        BY <1>2, <2>2, <4>1, <4>2 DEF Dismissed, RequestStatuses
    <3>2. CASE KindOf[r] # "recharge"
      BY <1>2, <3>2 DEF Dismissed, RequestStatuses
    <3> QED
      BY <3>1, <3>2
<1> QED
  BY <1>1, <1>2 DEF DismissRequest

LEMMA ReturnType ==
    ASSUME TypeInv, NEW a \in Actors, NEW r \in Requests, NEW k \in Keys \cup Jobs,
           Return(a, r, k)
    PROVE  TypeInv'
<1> USE DEF TypeInv, TypeOK
<1>1. job' \in [Jobs -> JobRow] /\ JobsNamed'
  <2>1. "cancelled" \in JobStatuses \ {"unused"}
    BY DEF JobStatuses
  <2>2. \A j \in Unfinished(r) \cap Jobs : job[j].status # "unused"
    BY DEF Unfinished
  <2>3. job' = JobsEnded(Unfinished(r), "cancelled") /\ report' = report
    BY DEF Return
  <2>4. \A j \in Jobs : report'[j] # "none" => job[j].status # "unused"
    BY <2>3 DEF JobsNamed
  <2> QED
    BY <2>1, <2>2, <2>3, <2>4, JobsEndedType
<1>2. task' \in [Requests -> TaskRow]
  <2>1. TaskOf("pending") \in TaskRow
    BY TaskOfType DEF TaskStatuses
  <2>2. [TaskOf("pending") EXCEPT !.retry = TRUE] \in TaskRow
    BY <2>1 DEF TaskRow
  <2> QED
    BY <2>2 DEF Return
<1>3. ops' \subseteq OpKeys
  BY DEF Return, OpKeys
<1> QED
  BY <1>1, <1>2, <1>3 DEF Return, money, history

LEMMA TouchedType ==
    ASSUME later \subseteq SingleSession \X SingleSession, NEW r
    PROVE  Touched(r) \subseteq SingleSession \X SingleSession
BY DEF Touched

LEMMA ClaimType ==
    ASSUME TypeInv, NEW c \in Carers, NEW r \in Requests, Claim(c, r)
    PROVE  TypeInv'
<1> USE DEF TypeInv, TypeOK
<1> DEFINE superseded == IF /\ task[r].status = "pending"
                            /\ Fresh(MyJobs(c, r)) = {}
                         THEN TheirJobs(c, r) ELSE {}
           kept == JobsEnded(superseded, "cancelled")
<1>1. PICK j \in Jobs :
        /\ task' = [task EXCEPT ![r] =
                      ClaimedBy(@, c, j, job[j].status = "running")]
        /\ job' = IF job[j].status = "unused"
                  THEN [kept EXCEPT ![j] = JobOf("queued", r, c)]
                  ELSE kept
        /\ claims' = {x \in claims : x[1] # r \/ x[2] # c} \cup {<<r, c, j>>}
  BY DEF Claim
<1>2. task' \in [Requests -> TaskRow]
  <2>1. ClaimedBy(task[r], c, j, job[j].status = "running") \in TaskRow
    BY ClaimedByType
  <2> QED
    BY <1>1, <2>1
<1>3. kept \in [Jobs -> JobRow]
  <2>1. \A x \in Jobs : Ended(job[x], "cancelled") \in JobRow
    BY EndedType DEF JobStatuses
  <2> QED
    BY <2>1 DEF JobsEnded
<1>4. \A x \in Jobs : /\ kept[x].task = job[x].task
                      /\ kept[x].carer = job[x].carer
                      /\ kept[x].suspect = job[x].suspect
                      /\ kept[x].status # "unused" <=> job[x].status # "unused"
  <2> TAKE x \in Jobs
  <2>1. kept[x] = IF x \in superseded THEN Ended(job[x], "cancelled") ELSE job[x]
    BY DEF JobsEnded
  <2>2. x \in superseded => job[x].status # "unused"
    BY DEF TheirJobs, Active
  <2>3. /\ Ended(job[x], "cancelled").status = "cancelled"
        /\ Ended(job[x], "cancelled").task = job[x].task
        /\ Ended(job[x], "cancelled").carer = job[x].carer
        /\ Ended(job[x], "cancelled").suspect = job[x].suspect
    BY EndedType DEF JobStatuses
  <2> QED
    BY <2>1, <2>2, <2>3
<1>5. JobOf("queued", r, c) \in JobRow
  BY DEF JobOf, JobRow, JobStatuses
<1> HIDE DEF kept
<1>6. job' \in [Jobs -> JobRow]
  BY <1>1, <1>3, <1>5
<1>7. report' = report /\ UNCHANGED <<money, request, ops, history>>
  BY DEF Claim
<1>8. JobsNamed'
  <2>1. CASE job[j].status = "unused"
    <3>1. job' = [kept EXCEPT ![j] = JobOf("queued", r, c)]
      BY <1>1, <2>1
    <3>2. /\ job'[j].task = r
          /\ job'[j].carer = c
          /\ job'[j].status = "queued"
      BY <1>3, <3>1 DEF JobOf
    <3>3. \A x \in Jobs \ {j} : job'[x] = kept[x]
      BY <1>3, <3>1
    <3> QED
      BY <1>4, <1>7, <3>2, <3>3 DEF JobsNamed
  <2>2. CASE job[j].status # "unused"
    BY <1>1, <1>4, <1>7, <2>2 DEF JobsNamed
  <2> QED
    BY <2>1, <2>2
<1>9. claims' \subseteq Requests \X Carers \X Jobs
  BY <1>1
<1>10. later' \subseteq SingleSession \X SingleSession
  BY TouchedType DEF Claim
<1> QED
  BY <1>2, <1>6, <1>7, <1>8, <1>9, <1>10 DEF money, history

(* Steps that end some jobs and leave what the agents say.                  *)
LEMMA EndStep ==
    ASSUME TypeInv, NEW S, NEW status \in JobStatuses \ {"unused"},
           \A j \in S \cap Jobs : job[j].status # "unused",
           job' = JobsEnded(S, status), report' = report
    PROVE  job' \in [Jobs -> JobRow] /\ JobsNamed'
BY JobsEndedType DEF TypeInv, TypeOK, JobsNamed

(* Steps by which the agent says something of a job, and may end it.        *)
LEMMA SaysType ==
    ASSUME TypeInv, NEW j \in Jobs, NEW verdict \in Reports \ {"none"}, Says(j, verdict)
    PROVE  /\ report' \in [Jobs -> Reports]
           /\ \A i \in Jobs : report'[i] # "none" => job[i].status # "unused"
           /\ job[j].status # "unused"
           /\ job[j].task \in Requests
           /\ job[j].carer \in Carers
<1> USE DEF TypeInv, TypeOK
<1>1. /\ report' = [report EXCEPT ![j] = verdict]
      /\ report[j] # "none"
  BY DEF Says
<1>2. job[j].status # "unused"
  BY <1>1 DEF JobsNamed
<1> QED
  BY <1>1, <1>2 DEF JobsNamed

LEMMA SaysAndEnds ==
    ASSUME TypeInv, NEW j \in Jobs, NEW verdict \in Reports \ {"none"}, Says(j, verdict),
           NEW status \in JobStatuses \ {"unused"}, job' = JobsEnded({j}, status)
    PROVE  /\ job' \in [Jobs -> JobRow]
           /\ report' \in [Jobs -> Reports]
           /\ JobsNamed'
BY SaysType, JobsEndedType

LEMMA LaterStep ==
    ASSUME later \subseteq SingleSession \X SingleSession, [Next]_vars
    PROVE  later' \subseteq SingleSession \X SingleSession
<1>1. later' = later \/ \E r : later' = Touched(r)
  BY DEF Next, vars, CreateRecharge, CreateRedeem, RetryRedeem, Claim, Delete, Dismiss,
     Return, PageComplete, AgentClaim, Heartbeat, GoStale, AgentComplete, CloseJob,
     AgentFail, SuspectStale, RecoverStale, ReturnFailed, PendingReview, AgentDismiss,
     WaitPlayerExit, UpdateStatus
<1> QED
  BY <1>1, TouchedType

(* Only a report to wait and an update of a status write the histories.     *)
LEMMA HistoryStep ==
    ASSUME [Next]_vars
    PROVE  \/ UNCHANGED history
           \/ \E j \in Jobs : WaitPlayerExit(j)
           \/ \E j \in Jobs, status \in JobStatuses \ {"unused"} :
                UpdateStatus(j, status)
<1>1. ASSUME NEW r \in Requests,
             \/ CreateRecharge(r) \/ CreateRedeem(r) \/ RetryRedeem(r)
             \/ \E c \in Carers : Claim(c, r)
             \/ \E k \in Keys : \/ Delete(r, k)
                                \/ Dismiss(r, k)
                                \/ \E a \in Actors : Return(a, r, k)
                                \/ \E a \in Actors : PageComplete(a, r, k)
      PROVE  UNCHANGED history
  BY <1>1 DEF CreateRecharge, CreateRedeem, RetryRedeem, Claim, Delete, Dismiss,
     Return, PageComplete
<1>2. ASSUME NEW j \in Jobs,
             \/ AgentClaim(j) \/ Heartbeat(j) \/ GoStale(j) \/ AgentComplete(j)
             \/ CloseJob(j) \/ AgentFail(j) \/ SuspectStale(j) \/ RecoverStale(j)
             \/ ReturnFailed(j) \/ PendingReview(j) \/ AgentDismiss(j)
      PROVE  UNCHANGED history
  BY <1>2 DEF AgentClaim, Heartbeat, GoStale, AgentComplete, CloseJob, AgentFail,
     SuspectStale, RecoverStale, ReturnFailed, Return, PendingReview, AgentDismiss
<1>3. CASE UNCHANGED vars
  BY <1>3 DEF vars, history
<1> QED
  BY <1>1, <1>2, <1>3 DEF Next

LEMMA HistoryType ==
    ASSUME TypeInv, [Next]_vars
    PROVE  waited' \subseteq Requests /\ overwrites' \in [Requests -> Nat]
<1> USE DEF TypeInv, TypeOK
<1>1. CASE UNCHANGED history
  BY <1>1 DEF history
<1>2. ASSUME NEW j \in Jobs, WaitPlayerExit(j)
      PROVE  waited' \subseteq Requests /\ overwrites' \in [Requests -> Nat]
  <2>1. job[j].task \in Requests
    BY <1>2, SaysType DEF WaitPlayerExit, Reports
  <2> QED
    BY <1>2, <2>1 DEF WaitPlayerExit
<1>3. ASSUME NEW j \in Jobs, NEW status, UpdateStatus(j, status)
      PROVE  waited' \subseteq Requests /\ overwrites' \in [Requests -> Nat]
  <2>1. job[j].task \in Requests
    BY <1>3 DEF UpdateStatus, JobsNamed
  <2> QED
    BY <1>3, <2>1 DEF UpdateStatus
<1> QED
  BY <1>1, <1>2, <1>3, HistoryStep

LEMMA TypeInit == Init => TypeInv
<1> SUFFICES ASSUME Init PROVE TypeInv
  OBVIOUS
<1>1. TaskOf("absent") \in TaskRow
  BY TaskOfType DEF TaskStatuses
<1>2. JobOf("unused", None, None) \in JobRow
  BY DEF JobOf, JobRow, JobStatuses
<1>3. /\ task \in [Requests -> TaskRow]
      /\ job \in [Jobs -> JobRow]
  BY <1>1, <1>2 DEF Init
<1>4. JobsNamed
  BY DEF Init, JobsNamed, JobOf
<1> QED
  BY <1>3, <1>4, KindAssumption
     DEF Init, TypeInv, TypeOK, RequestStatuses, Reports

(* Every handler writes rows, balances and keys of their types; coin never  *)
(* gets negative, since a recharge is created only with the coin for it.    *)
LEMMA TypeStep == TypeInv /\ [Next]_vars => TypeInv'
<1> SUFFICES ASSUME TypeInv, [Next]_vars PROVE TypeInv'
  OBVIOUS
<1> USE DEF TypeInv, TypeOK
<1>a. MoneyTyped
  BY DEF MoneyTyped
<1>b. later' \subseteq SingleSession \X SingleSession
  BY LaterStep
<1>c. waited' \subseteq Requests /\ overwrites' \in [Requests -> Nat]
  BY HistoryType
<1> USE <1>b, <1>c
<1>1. ASSUME NEW r \in Requests, CreateRecharge(r)
      PROVE  TypeInv'
  <2>1. PlayerOf[r] \in Players /\ Amount[r] \in Nat
    BY KindAssumption
  <2>2. coin' = [coin EXCEPT ![PlayerOf[r]] = @ - Amount[r]]
    BY <1>1 DEF CreateRecharge
  <2>3. coin[PlayerOf[r]] >= Amount[r]
    BY <1>1 DEF CreateRecharge
  <2>4. coin' \in [Players -> Nat]
    BY <2>1, <2>2, <2>3
  <2>5. Counted(r, "debit") \in [Requests -> [EventKinds -> Nat]]
    BY <1>a, CountedType DEF EventKinds
  <2>6. TaskOf("pending") \in TaskRow
    BY TaskOfType DEF TaskStatuses
  <2>7. /\ task' \in [Requests -> TaskRow]
        /\ request' \in [Requests -> RequestStatuses]
        /\ events' \in [Requests -> [EventKinds -> Nat]]
    BY <1>1, <2>5, <2>6 DEF CreateRecharge, RequestStatuses
  <2>8. /\ UNCHANGED <<cash, box, job, report, claims, ops, rewarded>>
        /\ base' \in [Requests -> Nat]
    BY <1>1, KindAssumption DEF CreateRecharge
  <2>9. JobsNamed'
    BY <2>8 DEF JobsNamed
  <2> QED
    BY <2>4, <2>7, <2>8, <2>9
<1>2. ASSUME NEW r \in Requests, CreateRedeem(r)
      PROVE  TypeInv'
  <2>1. TaskOf("pending") \in TaskRow
    BY TaskOfType DEF TaskStatuses
  <2> QED
    BY <1>2, <2>1 DEF CreateRedeem, RequestStatuses, money, JobsNamed
<1>3. ASSUME NEW r \in Requests, RetryRedeem(r)
      PROVE  TypeInv'
  <2>1. [WaitingTask(task[r]) EXCEPT !.error = FALSE] \in TaskRow
    BY WaitingTaskType
  <2>2. job' \in [Jobs -> JobRow] /\ JobsNamed'
    <3>1. "cancelled" \in JobStatuses \ {"unused"}
      BY DEF JobStatuses
    <3>2. \A j \in {i \in JobsOf(r) : Active(i)} \cap Jobs : job[j].status # "unused"
      BY DEF Active
    <3> QED
      BY <1>3, <3>1, <3>2, EndStep DEF RetryRedeem
  <2> QED
    BY <1>3, <2>1, <2>2 DEF RetryRedeem, RequestStatuses, money
<1>4. ASSUME NEW r \in Requests, NEW k \in Keys, Delete(r, k)
      PROVE  TypeInv'
  <2>1. ops' \subseteq OpKeys /\ UNCHANGED <<money, request, report, claims>>
    BY <1>4 DEF Delete, OpKeys
  <2>2. CASE UNCHANGED <<task, job>>
    BY <2>1, <2>2 DEF money, JobsNamed
  <2>3. CASE /\ job' = JobsEnded({j \in JobsOf(r) : Active(j)}, "cancelled")
             /\ task' = [task EXCEPT ![r] =
                           [TaskOf("deleted") EXCEPT !.deleted = TRUE,
                                                     !.retry = task[r].retry]]
    <3>1. "cancelled" \in JobStatuses \ {"unused"}
      BY DEF JobStatuses
    <3>2. \A j \in {i \in JobsOf(r) : Active(i)} \cap Jobs : job[j].status # "unused"
      BY DEF Active
    <3>3. job' \in [Jobs -> JobRow] /\ JobsNamed'
      BY <2>1, <2>3, <3>1, <3>2, EndStep
    <3>4. TaskOf("deleted") \in TaskRow /\ task[r].retry \in BOOLEAN
      BY TaskOfType DEF TaskStatuses, TaskRow
    <3>5. [TaskOf("deleted") EXCEPT !.deleted = TRUE, !.retry = task[r].retry] \in TaskRow
      BY <3>4 DEF TaskRow
    <3>6. task' \in [Requests -> TaskRow]
      BY <2>3, <3>5
    <3> QED
      BY <2>1, <3>3, <3>6 DEF money
  <2> QED
    BY <1>4, <2>2, <2>3 DEF Delete
<1>5. ASSUME NEW r \in Requests, NEW k \in Keys, Dismiss(r, k)
      PROVE  TypeInv'
  <2>1. MoneyTyped'
    BY <1>5, <1>a, DismissType DEF Dismiss
  <2>2. Tombstoned(task[r]) \in TaskRow
    BY TombstonedType
  <2>3. task' \in [Requests -> TaskRow]
    BY <1>5, <2>2 DEF Dismiss
  <2>4. ops' \subseteq OpKeys
    BY <1>5 DEF Dismiss, OpKeys
  <2>5. UNCHANGED <<job, report, claims>>
    BY <1>5 DEF Dismiss
  <2>6. JobsNamed'
    BY <2>5 DEF JobsNamed
  <2> QED
    BY <2>1, <2>3, <2>4, <2>5, <2>6 DEF MoneyTyped
<1>6. ASSUME NEW a \in Actors, NEW r \in Requests, NEW k \in Keys, PageComplete(a, r, k)
      PROVE  TypeInv'
  <2>1. MoneyTyped' /\ task' \in [Requests -> TaskRow] /\ ops' \subseteq OpKeys
    BY <1>6, <1>a, CompleteType DEF PageComplete
  <2> QED
    BY <1>6, <2>1 DEF PageComplete, MoneyTyped, JobsNamed
<1>7. ASSUME NEW j \in Jobs, AgentClaim(j)
      PROVE  TypeInv'
  <2>1. /\ job[j].status # "unused"
        /\ job[j].task \in Requests
        /\ job[j].carer \in Carers
    BY <1>7 DEF AgentClaim, JobsNamed
  <2>2. CASE Live(job[j].task)
    <3>1. /\ job' = [job EXCEPT ![j].status = "running", ![j].fresh = TRUE]
          /\ task' = [task EXCEPT ![job[j].task] = Started(@, j)]
          /\ report' = [report EXCEPT ![j] = "working"]
      BY <1>7, <2>2 DEF AgentClaim
    <3>2. Started(task[job[j].task], j) \in TaskRow
      BY <2>1, StartedType
    <3> DEFINE row == [job[j] EXCEPT !.status = "running", !.fresh = TRUE]
    <3>3. /\ row \in JobRow
          /\ row.task = job[j].task
          /\ row.carer = job[j].carer
          /\ row.status = "running"
      <4>1. job[j] \in JobRow
        OBVIOUS
      <4> QED
        BY <4>1, RunningType
    <3>4. job' = [job EXCEPT ![j] = row]
      BY <3>1 DEF JobRow
    <3> HIDE DEF row
    <3>5. job' \in [Jobs -> JobRow]
      BY <3>3, <3>4
    <3>6. JobsNamed'
      BY <2>1, <3>1, <3>3, <3>4 DEF JobsNamed
    <3> QED
      BY <1>7, <2>1, <3>1, <3>2, <3>5, <3>6 DEF AgentClaim, money, Reports
  <2>3. CASE ~Live(job[j].task)
    <3>1. job' = JobsEnded({j}, "cancelled") /\ UNCHANGED <<task, report>>
      BY <1>7, <2>3 DEF AgentClaim
    <3>2. "cancelled" \in JobStatuses \ {"unused"}
      BY DEF JobStatuses
    <3>3. \A i \in {j} \cap Jobs : job[i].status # "unused"
      BY <2>1
    <3>4. report' = report
      BY <3>1
    <3>5. job' \in [Jobs -> JobRow] /\ JobsNamed'
      BY <3>1, <3>2, <3>3, <3>4, EndStep
    <3> QED
      BY <1>7, <3>1, <3>5 DEF AgentClaim, money
  <2> QED
    BY <2>2, <2>3
<1>8. ASSUME NEW j \in Jobs, NEW fresh \in BOOLEAN,
             job' = [job EXCEPT ![j].fresh = fresh],
             UNCHANGED <<money, request, task, report, claims, ops>>
      PROVE  TypeInv'
  BY <1>8 DEF money, JobRow, JobsNamed
<1>9. ASSUME NEW j \in Jobs, AgentComplete(j)
      PROVE  TypeInv'
  <2>1. /\ report' \in [Jobs -> Reports]
        /\ \A i \in Jobs : report'[i] # "none" => job[i].status # "unused"
        /\ job[j].task \in Requests
        /\ job[j].carer \in Actors
    BY <1>9, SaysType DEF AgentComplete, Reports, Actors
  <2>2. MoneyTyped' /\ task' \in [Requests -> TaskRow] /\ ops' \subseteq OpKeys
    BY <1>9, <1>a, <2>1, CompleteType DEF AgentComplete
  <2>3. UNCHANGED <<job, claims>>
    BY <1>9 DEF AgentComplete
  <2> QED
    BY <2>1, <2>2, <2>3 DEF MoneyTyped, JobsNamed
<1>10. ASSUME NEW j \in Jobs, CloseJob(j)
       PROVE  TypeInv'
  <2>1. job[j].status # "unused"
    BY <1>10 DEF CloseJob, JobsNamed
  <2>2. "completed" \in JobStatuses \ {"unused"}
    BY DEF JobStatuses
  <2>3. \A i \in {j} \cap Jobs : job[i].status # "unused"
    BY <2>1
  <2>4. job' = JobsEnded({j}, "completed") /\ report' = report
    BY <1>10 DEF CloseJob
  <2>5. job' \in [Jobs -> JobRow] /\ JobsNamed'
    BY <2>2, <2>3, <2>4, EndStep
  <2> QED
    BY <1>10, <2>5 DEF CloseJob, money
<1>11. ASSUME NEW j \in Jobs, AgentFail(j)
       PROVE  TypeInv'
  <2>1. job' \in [Jobs -> JobRow] /\ report' \in [Jobs -> Reports] /\ JobsNamed'
    BY <1>11, SaysAndEnds DEF AgentFail, Reports, JobStatuses
  <2> QED
    BY <1>11, <2>1 DEF AgentFail, money
<1>12. ASSUME NEW j \in Jobs, SuspectStale(j)
       PROVE  TypeInv'
  <2>1. /\ job' = [job EXCEPT ![j].suspect = TRUE]
        /\ job[j].status # "unused"
        /\ UNCHANGED <<money, request, task, report, claims, ops>>
    BY <1>12 DEF SuspectStale
  <2>2. job' \in [Jobs -> JobRow]
    <3>1. job \in [Jobs -> JobRow]
      OBVIOUS
    <3>2. job[j] \in JobRow
      BY <3>1
    <3>3. [job[j] EXCEPT !.suspect = TRUE] \in JobRow
      BY <3>2, SuspectType
    <3> QED
      BY <2>1, <3>1, <3>3
  <2>3. JobsNamed'
    BY <2>1 DEF JobsNamed, JobRow
  <2> QED
    BY <2>1, <2>2, <2>3 DEF money
<1>13. ASSUME NEW j \in Jobs, RecoverStale(j)
       PROVE  TypeInv'
  <2>1. job[j] \in JobRow /\ job[j].status # "unused"
    BY <1>13 DEF RecoverStale, JobsNamed
  <2> DEFINE ended == Ended(job[j], "failed")
             row == [ended EXCEPT !.suspect = FALSE]
  <2>2. "failed" \in JobStatuses
    BY DEF JobStatuses
  <2>3. /\ ended \in JobRow
        /\ ended.task = job[j].task
        /\ ended.carer = job[j].carer
        /\ ended.status = "failed"
    BY <2>1, <2>2, EndedType
  <2>4. job' = [job EXCEPT ![j] = row]
    BY <1>13 DEF RecoverStale
  <2> HIDE DEF ended
  <2>5. /\ row \in JobRow
        /\ row.task = job[j].task
        /\ row.carer = job[j].carer
        /\ row.status = "failed"
    BY <2>3 DEF JobRow
  <2> HIDE DEF row
  <2>6. job' \in [Jobs -> JobRow]
    BY <2>5, <2>4
  <2>7. JobsNamed'
    BY <1>13, <2>1, <2>5, <2>4 DEF JobsNamed, RecoverStale
  <2> QED
    BY <1>13, <2>6, <2>7 DEF RecoverStale, money
<1>14. ASSUME NEW j \in Jobs, ReturnFailed(j)
       PROVE  TypeInv'
  <2>1. job[j].task \in Requests /\ job[j].carer \in Actors
    BY <1>14 DEF ReturnFailed, JobsNamed, Actors
  <2> QED
    BY <1>14, <2>1, ReturnType DEF ReturnFailed
<1>15. ASSUME NEW j \in Jobs, PendingReview(j)
       PROVE  TypeInv'
  <2>1. job' \in [Jobs -> JobRow] /\ report' \in [Jobs -> Reports] /\ JobsNamed'
    BY <1>15, SaysAndEnds DEF PendingReview, Reports, JobStatuses
  <2>2. job[j].task \in Requests
    BY <1>15, SaysType DEF PendingReview, Reports
  <2>3. task' \in [Requests -> TaskRow]
    BY <1>15, <2>2, ReviewedType DEF PendingReview
  <2> QED
    BY <1>15, <2>1, <2>3 DEF PendingReview, money
<1>16. ASSUME NEW j \in Jobs, AgentDismiss(j)
       PROVE  TypeInv'
  <2>1. job' \in [Jobs -> JobRow] /\ report' \in [Jobs -> Reports] /\ JobsNamed'
    BY <1>16, SaysAndEnds DEF AgentDismiss, Reports, JobStatuses
  <2>2. job[j].task \in Requests
    BY <1>16, SaysType DEF AgentDismiss, Reports
  <2>3. task' \in [Requests -> TaskRow]
    BY <1>16, <2>2, DismissedTaskType DEF AgentDismiss
  <2>4. MoneyTyped'
    <3>1. CASE UNCHANGED <<money, request>>
      BY <1>a, <3>1 DEF MoneyTyped, money
    <3>2. CASE DismissRequest(job[j].task)
      BY <1>a, <2>2, <3>2, DismissType
    <3> QED
      BY <1>16, <3>1, <3>2 DEF AgentDismiss
  <2>5. ops' \subseteq OpKeys
    BY <1>16, <2>2 DEF AgentDismiss, OpKeys
  <2> QED
    BY <1>16, <2>1, <2>3, <2>4, <2>5 DEF AgentDismiss, MoneyTyped
<1>17. ASSUME NEW j \in Jobs, WaitPlayerExit(j)
       PROVE  TypeInv'
  <2>1. job' \in [Jobs -> JobRow] /\ report' \in [Jobs -> Reports] /\ JobsNamed'
    BY <1>17, SaysAndEnds DEF WaitPlayerExit, Reports, JobStatuses
  <2>2. job[j].task \in Requests
    BY <1>17, SaysType DEF WaitPlayerExit, Reports
  <2>3. task' \in [Requests -> TaskRow]
    BY <1>17, <2>2, WaitingTaskType DEF WaitPlayerExit
  <2> QED
    BY <1>17, <2>1, <2>3 DEF WaitPlayerExit, money, RequestStatuses
<1>18. CASE UNCHANGED vars
  BY <1>18 DEF vars, JobsNamed
<1>19. ASSUME NEW r \in Requests, NEW k \in Keys, NEW a \in Actors, Return(a, r, k)
       PROVE  TypeInv'
  BY <1>19, ReturnType
<1>20. ASSUME NEW j \in Jobs, Heartbeat(j) \/ GoStale(j)
       PROVE  TypeInv'
  BY <1>8, <1>20 DEF Heartbeat, GoStale
<1>21. ASSUME NEW r \in Requests, NEW c \in Carers, Claim(c, r)
       PROVE  TypeInv'
  BY <1>21, ClaimType
<1>22. ASSUME NEW j \in Jobs, NEW status \in JobStatuses \ {"unused"},
              UpdateStatus(j, status)
       PROVE  TypeInv'
  <2>1. /\ \A i \in {j} \cap Jobs : job[i].status # "unused"
        /\ job' = JobsEnded({j}, status) /\ report' = report
    BY <1>22 DEF UpdateStatus
  <2>2. job' \in [Jobs -> JobRow] /\ JobsNamed'
    BY <2>1, EndStep
  <2> QED
    BY <1>22, <2>1, <2>2 DEF UpdateStatus, money
<1> QED
  BY <1>1, <1>2, <1>3, <1>4, <1>5, <1>6, <1>7, <1>9, <1>10, <1>11, <1>12, <1>13,
     <1>14, <1>15, <1>16, <1>17, <1>18, <1>19, <1>20, <1>21, <1>22 DEF Next

(* Rows, balances, keys and events keep their types, and no balance gets    *)
(* negative.                                                                *)
THEOREM TypeCorrect == Spec => []TypeOK
<1>1. TypeInv => TypeOK
  BY DEF TypeInv
<1> QED
  BY <1>1, TypeInit, TypeStep, PTL DEF Spec
-----------------------------------------------------------------------------
(* A recharge is settled once *)

(* Only a redeem waits for the player to leave the game: a recharge that    *)
(* waited could be retried, and settled a second time.                      *)
NoRechargeWaits ==
    \A r \in Requests :
        KindOf[r] = "recharge" => request[r] # "waiting_player_exit"

RechargeInv == TypeInv /\ RechargeSettledOnce /\ NoRechargeWaits

(* One event more of one request, and none of the others.                   *)
LEMMA CountedValue ==
    ASSUME MoneyTyped, NEW r \in Requests, NEW e \in EventKinds,
           events' = Counted(r, e)
    PROVE  \A q \in Requests, f \in EventKinds :
               events'[q][f] = IF q = r /\ f = e THEN events[q][f] + 1
                                                 ELSE events[q][f]
BY DEF MoneyTyped, Counted

LEMMA SettleOnce ==
    ASSUME RechargeInv, NEW a \in Actors, NEW r \in Requests, Settle(a, r)
    PROVE  RechargeSettledOnce' /\ NoRechargeWaits'
<1> USE DEF RechargeInv
<1>1. MoneyTyped
  BY DEF TypeInv, TypeOK, MoneyTyped
<1>2. request[r] = "pending" /\ request' = [request EXCEPT ![r] = "completed"]
  BY DEF Settle
<1>3. request \in [Requests -> RequestStatuses]
  BY <1>1 DEF MoneyTyped
<1>4. NoRechargeWaits'
  BY <1>2, <1>3 DEF NoRechargeWaits
<1>5. CASE KindOf[r] = "redeem"
  <2>1. events' = Counted(r, "credit")
    BY <1>5 DEF Settle
  <2>2. \A q \in Requests, f \in EventKinds \ {"credit"} : events'[q][f] = events[q][f]
    BY <1>1, <2>1, CountedValue DEF EventKinds
  <2> QED
    BY <1>2, <1>3, <1>4, <1>5, <2>2 DEF RechargeSettledOnce, EventKinds
<1>6. CASE KindOf[r] # "redeem"
  <2>1. events' = Counted(r, "deposit")
    BY <1>6 DEF Settle
  <2>2. \A q \in Requests, f \in EventKinds :
          events'[q][f] = IF q = r /\ f = "deposit" THEN events[q][f] + 1
                                                    ELSE events[q][f]
    BY <1>1, <2>1, CountedValue DEF EventKinds
  <2> QED
    BY <1>2, <1>3, <1>4, <2>2 DEF RechargeSettledOnce, EventKinds
<1> QED
  BY <1>5, <1>6

LEMMA CompleteOnce ==
    ASSUME RechargeInv, NEW a \in Actors, NEW r \in Requests, NEW k, Complete(a, r, k)
    PROVE  RechargeSettledOnce' /\ NoRechargeWaits'
<1>1. CASE UNCHANGED <<money, request>>
  BY <1>1 DEF RechargeInv, RechargeSettledOnce, NoRechargeWaits, money
<1> QED
  BY <1>1, SettleOnce DEF Complete

LEMMA DismissOnce ==
    ASSUME RechargeInv, NEW r \in Requests, DismissRequest(r)
    PROVE  RechargeSettledOnce' /\ NoRechargeWaits'
<1> USE DEF RechargeInv
<1>1. MoneyTyped
  BY DEF TypeInv, TypeOK, MoneyTyped
<1>2. CASE UNCHANGED <<money, request>>
  BY <1>2 DEF RechargeSettledOnce, NoRechargeWaits, money
<1>3. CASE request[r] = "pending" /\ Dismissed(r)
  <2>1. request' = [request EXCEPT ![r] = "dismissed"]
    BY <1>3 DEF Dismissed
  <2>2. request \in [Requests -> RequestStatuses]
    BY <1>1 DEF MoneyTyped
  <2>3. NoRechargeWaits'
    BY <2>1, <2>2 DEF NoRechargeWaits
  <2>4. CASE KindOf[r] = "recharge"
    <3>1. events' = Counted(r, "refund")
      BY <1>3, <2>4 DEF Dismissed
    <3>2. \A q \in Requests, f \in EventKinds :
            events'[q][f] = IF q = r /\ f = "refund" THEN events[q][f] + 1
                                                     ELSE events[q][f]
      BY <1>1, <3>1, CountedValue DEF EventKinds
    <3> QED
      BY <1>3, <2>1, <2>2, <2>3, <3>2 DEF RechargeSettledOnce, EventKinds
  <2>5. CASE KindOf[r] # "recharge"
    <3>1. events' = events
      BY <1>3, <2>5 DEF Dismissed
    <3> QED
      BY <2>1, <2>2, <2>3, <2>5, <3>1 DEF RechargeSettledOnce
  <2> QED
    BY <2>4, <2>5
<1> QED
  BY <1>2, <1>3 DEF DismissRequest

(* Steps that leave the money alone and change at most the request of a     *)
(* redeem.                                                                  *)
LEMMA RedeemOnly ==
    ASSUME RechargeInv, NEW r \in Requests, NEW status, KindOf[r] # "recharge",
           request' = [request EXCEPT ![r] = status], UNCHANGED money
    PROVE  RechargeSettledOnce' /\ NoRechargeWaits'
<1>1. request \in [Requests -> RequestStatuses] /\ events' = events
  BY DEF RechargeInv, TypeInv, TypeOK, money
<1> QED
  BY <1>1 DEF RechargeInv, RechargeSettledOnce, NoRechargeWaits

LEMMA SettledOnceInit == Init => RechargeInv
<1> SUFFICES ASSUME Init PROVE RechargeInv
  OBVIOUS
<1>1. TypeInv
  BY TypeInit
<1>2. RechargeSettledOnce /\ NoRechargeWaits
  BY DEF Init, RechargeSettledOnce, NoRechargeWaits, EventKinds
<1> QED
  BY <1>1, <1>2 DEF RechargeInv

LEMMA SettledOnceStep == RechargeInv /\ [Next]_vars => RechargeInv'
<1> SUFFICES ASSUME RechargeInv, [Next]_vars
             PROVE  RechargeSettledOnce' /\ NoRechargeWaits'
  BY TypeStep DEF RechargeInv
<1>1. ASSUME UNCHANGED <<money, request>>
      PROVE  RechargeSettledOnce' /\ NoRechargeWaits'
  BY <1>1 DEF RechargeInv, RechargeSettledOnce, NoRechargeWaits, money
<1>2. ASSUME NEW r \in Requests, CreateRecharge(r)
      PROVE  RechargeSettledOnce' /\ NoRechargeWaits'
  <2>1. MoneyTyped
    BY DEF RechargeInv, TypeInv, TypeOK, MoneyTyped
  <2>2. /\ request[r] = "absent"
        /\ request' = [request EXCEPT ![r] = "pending"]
        /\ events' = Counted(r, "debit")
    BY <1>2 DEF CreateRecharge
  <2>3. request \in [Requests -> RequestStatuses]
    BY <2>1 DEF MoneyTyped
  <2>4. NoRechargeWaits'
    BY <2>2, <2>3 DEF RechargeInv, NoRechargeWaits
  <2>5. \A q \in Requests, f \in EventKinds :
          events'[q][f] = IF q = r /\ f = "debit" THEN events[q][f] + 1
                                                  ELSE events[q][f]
    BY <2>1, <2>2, CountedValue DEF EventKinds
  <2> QED
    BY <2>2, <2>3, <2>4, <2>5 DEF RechargeInv, RechargeSettledOnce, EventKinds
<1>3. ASSUME NEW r \in Requests, CreateRedeem(r)
      PROVE  RechargeSettledOnce' /\ NoRechargeWaits'
  BY <1>3, RedeemOnly DEF CreateRedeem
<1>4. ASSUME NEW r \in Requests, RetryRedeem(r)
      PROVE  RechargeSettledOnce' /\ NoRechargeWaits'
  <2>1. KindOf[r] # "recharge"
    BY <1>4 DEF RetryRedeem, RechargeInv, NoRechargeWaits
  <2> QED
    BY <1>4, <2>1, RedeemOnly DEF RetryRedeem
<1>5. ASSUME NEW r \in Requests, NEW k \in Keys,
             Dismiss(r, k) \/ (\E a \in Actors : PageComplete(a, r, k))
      PROVE  RechargeSettledOnce' /\ NoRechargeWaits'
  BY <1>5, DismissOnce, CompleteOnce DEF Dismiss, PageComplete
<1>6. ASSUME NEW j \in Jobs, AgentComplete(j)
      PROVE  RechargeSettledOnce' /\ NoRechargeWaits'
  <2>1. job[j].task \in Requests /\ job[j].carer \in Actors
    BY <1>6, SaysType DEF AgentComplete, RechargeInv, Reports, Actors
  <2> QED
    BY <1>6, <2>1, CompleteOnce DEF AgentComplete
<1>7. ASSUME NEW j \in Jobs, AgentDismiss(j)
      PROVE  RechargeSettledOnce' /\ NoRechargeWaits'
  <2>1. job[j].task \in Requests
    BY <1>7, SaysType DEF AgentDismiss, RechargeInv, Reports
  <2>2. UNCHANGED <<money, request>> \/ DismissRequest(job[j].task)
    BY <1>7 DEF AgentDismiss
  <2> QED
    BY <1>1, <2>1, <2>2, DismissOnce
<1>8. ASSUME NEW j \in Jobs, WaitPlayerExit(j)
      PROVE  RechargeSettledOnce' /\ NoRechargeWaits'
  <2>1. job[j].task \in Requests
    BY <1>8, SaysType DEF WaitPlayerExit, RechargeInv, Reports
  <2> QED
    BY <1>8, <2>1, RedeemOnly DEF WaitPlayerExit
<1>9. ASSUME NEW j \in Jobs,
             \/ AgentClaim(j) \/ Heartbeat(j) \/ GoStale(j) \/ CloseJob(j)
             \/ AgentFail(j) \/ SuspectStale(j) \/ RecoverStale(j)
             \/ ReturnFailed(j) \/ PendingReview(j)
      PROVE  UNCHANGED <<money, request>>
  BY <1>9 DEF AgentClaim, Heartbeat, GoStale, CloseJob, AgentFail, SuspectStale,
     RecoverStale, ReturnFailed, Return, PendingReview
<1>10. ASSUME NEW r \in Requests,
              \/ \E c \in Carers : Claim(c, r)
              \/ \E k \in Keys : Delete(r, k) \/ (\E a \in Actors : Return(a, r, k))
       PROVE  UNCHANGED <<money, request>>
  BY <1>10 DEF Claim, Delete, Return
<1>11. CASE UNCHANGED vars
  BY <1>1, <1>11 DEF vars, money
<1>12. ASSUME NEW j \in Jobs, NEW status, UpdateStatus(j, status)
       PROVE  UNCHANGED <<money, request>>
  BY <1>12 DEF UpdateStatus
<1> QED
  BY <1>1, <1>2, <1>3, <1>4, <1>5, <1>6, <1>7, <1>8, <1>9, <1>10, <1>11, <1>12 DEF Next

(* A recharge takes the coin once and gives it back or delivers it, once    *)
(* and never both, whatever carers, staff, players and late agents do with  *)
(* keys of their own (completeRechargeRedeemTaskInSql,                      *)
(* dismissRechargeRequestInSql and the agent's reports).                    *)
THEOREM RechargeAlwaysSettledOnce == Spec => []RechargeSettledOnce
<1>1. RechargeInv => RechargeSettledOnce
  BY DEF RechargeInv
<1> QED
  BY <1>1, SettledOnceInit, SettledOnceStep, PTL DEF Spec
-----------------------------------------------------------------------------
(* A settled recharge stays settled *)

(* Creation, completion, dismissal and retry write only requests that are   *)
(* not settled; the one step that does not look at the request, the report  *)
(* that the player is in the game, is for redeems.                          *)
LEMMA StaysSettled ==
    ASSUME RechargeInv, [Next]_vars, NEW q \in Requests,
           KindOf[q] = "recharge", request[q] \in Settled
    PROVE  request'[q] = request[q]
<1>1. request \in [Requests -> RequestStatuses]
  BY DEF RechargeInv, TypeInv, TypeOK
<1>2. ASSUME NEW r \in Requests, NEW status, request' = [request EXCEPT ![r] = status],
             request[r] \notin Settled \/ KindOf[r] # "recharge"
      PROVE  request'[q] = request[q]
  BY <1>1, <1>2
<1>3. ASSUME NEW r \in Requests, DismissRequest(r)
      PROVE  request'[q] = request[q]
  <2>1. CASE request[r] = "pending" /\ Dismissed(r)
    BY <1>2, <2>1 DEF Dismissed, Settled
  <2>2. CASE UNCHANGED request
    BY <2>2
  <2> QED
    BY <1>3, <2>1, <2>2 DEF DismissRequest
<1>4. ASSUME NEW r \in Requests, NEW a, NEW k, Complete(a, r, k)
      PROVE  request'[q] = request[q]
  <2>1. CASE Settle(a, r)
    BY <1>2, <2>1 DEF Settle, Settled
  <2>2. CASE UNCHANGED request
    BY <2>2
  <2> QED
    BY <1>4, <2>1, <2>2 DEF Complete
<1>5. ASSUME NEW r \in Requests, CreateRecharge(r) \/ CreateRedeem(r) \/ RetryRedeem(r)
      PROVE  request'[q] = request[q]
  BY <1>2, <1>5 DEF CreateRecharge, CreateRedeem, RetryRedeem, Settled
<1>6. ASSUME NEW r \in Requests, NEW k \in Keys,
             Dismiss(r, k) \/ (\E a \in Actors : PageComplete(a, r, k))
      PROVE  request'[q] = request[q]
  BY <1>3, <1>4, <1>6 DEF Dismiss, PageComplete
<1>7. ASSUME NEW j \in Jobs, AgentComplete(j)
      PROVE  request'[q] = request[q]
  <2>1. job[j].task \in Requests
    BY <1>7, SaysType DEF AgentComplete, RechargeInv, Reports
  <2> QED
    BY <1>4, <1>7, <2>1 DEF AgentComplete
<1>8. ASSUME NEW j \in Jobs, AgentDismiss(j)
      PROVE  request'[q] = request[q]
  <2>1. job[j].task \in Requests
    BY <1>8, SaysType DEF AgentDismiss, RechargeInv, Reports
  <2>2. UNCHANGED request \/ DismissRequest(job[j].task)
    BY <1>8 DEF AgentDismiss
  <2> QED
    BY <1>3, <2>1, <2>2
<1>9. ASSUME NEW j \in Jobs, WaitPlayerExit(j)
      PROVE  request'[q] = request[q]
  <2>1. job[j].task \in Requests
    BY <1>9, SaysType DEF WaitPlayerExit, RechargeInv, Reports
  <2> QED
    BY <1>2, <1>9, <2>1 DEF WaitPlayerExit
<1>10. ASSUME NEW j \in Jobs,
              \/ AgentClaim(j) \/ Heartbeat(j) \/ GoStale(j) \/ CloseJob(j)
              \/ AgentFail(j) \/ SuspectStale(j) \/ RecoverStale(j)
              \/ ReturnFailed(j) \/ PendingReview(j)
       PROVE  UNCHANGED request
  BY <1>10 DEF AgentClaim, Heartbeat, GoStale, CloseJob, AgentFail, SuspectStale,
     RecoverStale, ReturnFailed, Return, PendingReview
<1>11. ASSUME NEW r \in Requests,
              \/ \E c \in Carers : Claim(c, r)
              \/ \E k \in Keys : Delete(r, k) \/ (\E a \in Actors : Return(a, r, k))
       PROVE  UNCHANGED request
  BY <1>11 DEF Claim, Delete, Return
<1>12. CASE UNCHANGED vars
  BY <1>12 DEF vars
<1>13. ASSUME NEW j \in Jobs, NEW status, UpdateStatus(j, status)
       PROVE  UNCHANGED request
  BY <1>13 DEF UpdateStatus
<1> QED
  BY <1>5, <1>6, <1>7, <1>8, <1>9, <1>10, <1>11, <1>12, <1>13 DEF Next

(* A recharge that is delivered or refunded stays so, whatever carers,      *)
(* staff, players and late agents do after it. Of redeems this is false:    *)
(* a run shows how a late report reopens one.                               *)
THEOREM RechargesStaySettled == Spec => RechargesSettledForGood
<1>1. RechargeInv /\ [Next]_vars
        => [\A r \in Requests : KindOf[r] = "recharge" /\ request[r] \in Settled
                => request'[r] = request[r]]_vars
  BY StaysSettled
<1> QED
  BY <1>1, SettledOnceInit, SettledOnceStep, PTL DEF Spec, RechargesSettledForGood
=============================================================================
