-------------------------- MODULE OpenRequestProofs --------------------------
(***************************************************************************)
(* What GameRequests promises of open requests, for every set of players,  *)
(* requests, carers, jobs and keys: one job at a time on the task, no      *)
(* theft of a task in progress, and redeems that are paid once; and that   *)
(* the financial events add up to the balances.                            *)
(***************************************************************************)
EXTENDS GameRequestsProofs, SumTheorems

-----------------------------------------------------------------------------
(* What a step does to jobs and requests *)

(* A job in use keeps its task and its carer, no other comes into use, and  *)
(* none becomes active but by an update of its status.                      *)
JobStays(i) ==
    /\ job'[i].status # "unused" <=> job[i].status # "unused"
    /\ job[i].status # "unused" =>
         job'[i].task = job[i].task /\ job'[i].carer = job[i].carer
    /\ job'[i].status \in {"queued", "running"} =>
         Active(i) \/ overwrites'[job[i].task] > 0

LEMMA EndedStays ==
    ASSUME TypeInv, NEW S, NEW status \in JobStatuses \ {"unused", "queued", "running"},
           \A j \in S \cap Jobs : job[j].status # "unused",
           job' = JobsEnded(S, status), NEW i \in Jobs
    PROVE  JobStays(i)
<1>1. job[i] \in JobRow
  BY DEF TypeInv, TypeOK
<1>2. job'[i] = IF i \in S THEN Ended(job[i], status) ELSE job[i]
  BY DEF JobsEnded
<1>3. CASE i \in S
  BY <1>1, <1>2, <1>3, EndedType DEF JobStays
<1>4. CASE i \notin S
  BY <1>2, <1>4 DEF JobStays, Active
<1> QED
  BY <1>3, <1>4

(* What a claim does: the job it settles on is new, queued and the claiming *)
(* carer's, or it is one that the carer may take over.                      *)
LEMMA ClaimEffect ==
    ASSUME TypeInv, NEW c \in Carers, NEW r \in Requests, Claim(c, r)
    PROVE  \E j \in Jobs :
             /\ IF Reusable(c, r) # {} THEN j \in Reusable(c, r)
                                       ELSE job[j].status = "unused"
             /\ Claimable(c, r, j)
             /\ task' = [task EXCEPT ![r] =
                           ClaimedBy(@, c, j, job[j].status = "running")]
             /\ claims' = {x \in claims : x[1] # r \/ x[2] # c} \cup {<<r, c, j>>}
             /\ job[j].status = "unused" => job'[j] = JobOf("queued", r, c)
             /\ \A i \in Jobs : i # j \/ job[i].status # "unused" => JobStays(i)
<1> DEFINE superseded == IF /\ task[r].status = "pending"
                            /\ Fresh(MyJobs(c, r)) = {}
                         THEN TheirJobs(c, r) ELSE {}
           kept == JobsEnded(superseded, "cancelled")
<1>1. PICK j \in Jobs :
        /\ IF Reusable(c, r) # {} THEN j \in Reusable(c, r)
                                  ELSE job[j].status = "unused"
        /\ Claimable(c, r, j)
        /\ task' = [task EXCEPT ![r] =
                      ClaimedBy(@, c, j, job[j].status = "running")]
        /\ job' = IF job[j].status = "unused"
                  THEN [kept EXCEPT ![j] = JobOf("queued", r, c)]
                  ELSE kept
        /\ claims' = {x \in claims : x[1] # r \/ x[2] # c} \cup {<<r, c, j>>}
  BY DEF Claim
<1>2. job \in [Jobs -> JobRow]
  BY DEF TypeInv, TypeOK
<1>3. ASSUME NEW i \in Jobs, i # j \/ job[i].status # "unused"
      PROVE  JobStays(i)
  <2>1. kept[i] = IF i \in superseded THEN Ended(job[i], "cancelled") ELSE job[i]
    BY DEF JobsEnded
  <2>2. job'[i] = kept[i]
    BY <1>1, <1>3 DEF JobsEnded
  <2>3. CASE i \in superseded
    BY <1>2, <2>1, <2>2, <2>3, EndedType DEF JobStays, JobStatuses, TheirJobs, Active
  <2>4. CASE i \notin superseded
    BY <2>1, <2>2, <2>4 DEF JobStays, Active
  <2> QED
    BY <2>3, <2>4
<1>4. job[j].status = "unused" => job'[j] = JobOf("queued", r, c)
  BY <1>1 DEF JobsEnded
<1> QED
  BY <1>1, <1>3, <1>4

(* Only a claim or an update of a status puts a job to work; every other    *)
(* step leaves or ends jobs.                                                *)
LEMMA JobsStay ==
    ASSUME TypeInv, [Next]_vars, ~ \E c \in Carers, r \in Requests : Claim(c, r),
           NEW i \in Jobs
    PROVE  JobStays(i)
<1>1. job \in [Jobs -> JobRow]
  BY DEF TypeInv, TypeOK
<1>2. CASE job' = job
  BY <1>2 DEF JobStays, Active
<1>3. ASSUME NEW S, NEW status \in {"cancelled", "completed", "failed", "pending_review"},
             \A j \in S \cap Jobs : job[j].status # "unused", job' = JobsEnded(S, status)
      PROVE  JobStays(i)
  BY <1>3, EndedStays DEF JobStatuses
<1>4. ASSUME NEW r \in Requests,
             \/ CreateRecharge(r) \/ CreateRedeem(r) \/ RetryRedeem(r)
             \/ \E k \in Keys : \/ Delete(r, k)
                                \/ Dismiss(r, k)
                                \/ \E a \in Actors : PageComplete(a, r, k)
      PROVE  JobStays(i)
  <2>1. \A j \in {x \in JobsOf(r) : Active(x)} \cap Jobs : job[j].status # "unused"
    BY DEF Active
  <2> QED
    BY <1>2, <1>3, <1>4, <2>1
       DEF CreateRecharge, CreateRedeem, RetryRedeem, Delete, Dismiss, PageComplete
<1>5. ASSUME NEW r, NEW a, NEW k, Return(a, r, k)
      PROVE  JobStays(i)
  <2>1. \A j \in Unfinished(r) \cap Jobs : job[j].status # "unused"
    BY DEF Unfinished
  <2> QED
    BY <1>3, <1>5, <2>1 DEF Return
<1>6. ASSUME NEW j \in Jobs,
             \/ CloseJob(j) \/ AgentFail(j) \/ PendingReview(j)
             \/ AgentDismiss(j) \/ WaitPlayerExit(j) \/ AgentComplete(j)
      PROVE  JobStays(i)
  <2>1. CASE job[j].status = "unused"
    BY <1>6, <2>1, SaysType DEF CloseJob, TypeInv, JobsNamed, AgentFail, PendingReview,
       AgentDismiss, WaitPlayerExit, AgentComplete, Reports
  <2>2. CASE job[j].status # "unused"
    BY <1>2, <1>3, <1>6, <2>2 DEF CloseJob, AgentFail, PendingReview, AgentDismiss,
       WaitPlayerExit, AgentComplete
  <2> QED
    BY <2>1, <2>2
<1>7. ASSUME NEW j \in Jobs, AgentClaim(j)
      PROVE  JobStays(i)
  <2>1. CASE Live(job[j].task)
    <3>1. /\ job[j].status = "queued"
          /\ job' = [job EXCEPT ![j].status = "running", ![j].fresh = TRUE]
      BY <1>7, <2>1 DEF AgentClaim
    <3> QED
      BY <1>1, <3>1 DEF JobStays, Active, JobRow
  <2>2. CASE ~Live(job[j].task)
    <3>1. job[j].status = "queued" /\ job' = JobsEnded({j}, "cancelled")
      BY <1>7, <2>2 DEF AgentClaim
    <3> QED
      BY <1>3, <3>1
  <2> QED
    BY <2>1, <2>2
<1>8. ASSUME NEW j \in Jobs, Heartbeat(j) \/ GoStale(j) \/ SuspectStale(j)
      PROVE  JobStays(i)
  <2>1. PICK f \in BOOLEAN :
          \/ job' = [job EXCEPT ![j].fresh = f]
          \/ job' = [job EXCEPT ![j].suspect = TRUE]
    BY <1>8 DEF Heartbeat, GoStale, SuspectStale
  <2> QED
    BY <1>1, <2>1 DEF JobStays, Active, JobRow
<1>9. ASSUME NEW j \in Jobs, RecoverStale(j)
      PROVE  JobStays(i)
  <2>1. Ended(job[j], "failed") \in JobRow /\ Ended(job[j], "failed").task = job[j].task
        /\ Ended(job[j], "failed").carer = job[j].carer
        /\ Ended(job[j], "failed").status = "failed"
    BY <1>1, EndedType DEF JobStatuses
  <2>2. job' = [job EXCEPT ![j] = [Ended(job[j], "failed") EXCEPT !.suspect = FALSE]]
    BY <1>9 DEF RecoverStale
  <2>3. job[j].status # "unused"
    BY <1>9 DEF RecoverStale, TypeInv, JobsNamed
  <2> QED
    BY <1>1, <2>1, <2>2, <2>3 DEF JobStays, Active, JobRow
<1>10. ASSUME NEW j \in Jobs, ReturnFailed(j)
       PROVE  JobStays(i)
  BY <1>5, <1>10 DEF ReturnFailed
<1>11. CASE UNCHANGED vars
  BY <1>2, <1>11 DEF vars
<1>12. ASSUME NEW j \in Jobs, NEW status \in JobStatuses \ {"unused"},
              UpdateStatus(j, status)
       PROVE  JobStays(i)
  <2>1. /\ job[j].status # "unused"
        /\ job' = JobsEnded({j}, status)
        /\ overwrites' = [overwrites EXCEPT ![job[j].task] = @ + 1]
    BY <1>12 DEF UpdateStatus
  <2>2. CASE i # j
    <3>1. job'[i] = job[i]
      BY <2>1, <2>2 DEF JobsEnded
    <3> QED
      BY <3>1 DEF JobStays, Active
  <2>3. CASE i = j
    <3>1. job'[i] = Ended(job[i], status)
      BY <2>1, <2>3 DEF JobsEnded
    <3>2. /\ job'[i].status = status
          /\ job'[i].task = job[i].task
          /\ job'[i].carer = job[i].carer
      BY <1>1, <3>1, EndedType
    <3>3. job[i].task \in Requests /\ overwrites \in [Requests -> Nat]
      BY <2>1, <2>3 DEF TypeInv, TypeOK, JobsNamed
    <3>4. overwrites'[job[i].task] > 0
      BY <2>1, <2>3, <3>3
    <3> QED
      BY <2>1, <2>3, <3>2, <3>4 DEF JobStays
  <2> QED
    BY <2>2, <2>3
<1> QED
  BY <1>4, <1>5, <1>6, <1>7, <1>8, <1>9, <1>10, <1>11, <1>12 DEF Next

(* Jobs in use keep their task and carer in every step.                     *)
LEMMA JobsKept ==
    ASSUME TypeInv, [Next]_vars, NEW i \in Jobs, job[i].status # "unused"
    PROVE  JobStays(i)
<1>1. CASE \E c \in Carers, r \in Requests : Claim(c, r)
  BY <1>1, ClaimEffect
<1>2. CASE ~ \E c \in Carers, r \in Requests : Claim(c, r)
  BY <1>2, JobsStay
<1> QED
  BY <1>1, <1>2

(* The ways of a request: created, settled while it is pending, made to     *)
(* wait by a report, and retried while it waits.                            *)
RequestStep(q) ==
    \/ request'[q] = request[q]
    \/ request[q] = "absent" /\ request'[q] = "pending" /\ task'[q].status = "pending"
    \/ request[q] = "waiting_player_exit" /\ request'[q] = "pending"
    \/ request[q] = "pending" /\ request'[q] \in Settled
    \/ request'[q] = "waiting_player_exit" /\ Waited(q)'

LEMMA CompleteRequest ==
    ASSUME request \in [Requests -> RequestStatuses], NEW a, NEW r \in Requests, NEW k,
           Complete(a, r, k), NEW q \in Requests
    PROVE  \/ request'[q] = request[q]
           \/ q = r /\ request[q] = "pending" /\ request'[q] = "completed"
BY DEF Complete, Settle

LEMMA DismissedRequest ==
    ASSUME request \in [Requests -> RequestStatuses], NEW r \in Requests,
           DismissRequest(r)
    PROVE  /\ request'[r] \in Settled
           /\ \A q \in Requests :
                \/ request'[q] = request[q]
                \/ q = r /\ request[q] = "pending" /\ request'[q] = "dismissed"
BY DEF DismissRequest, Dismissed, Settled

(* Which requests there are does not go back, and a job that reports the    *)
(* player in the game is remembered.                                        *)
LEMMA RequestSteps ==
    ASSUME TypeInv, [Next]_vars, NEW q \in Requests
    PROVE  RequestStep(q)
<1> USE DEF RequestStep
<1>1. request \in [Requests -> RequestStatuses]
  BY DEF TypeInv, TypeOK
<1>2. CASE request' = request
  BY <1>2
<1>3. ASSUME NEW r \in Requests, CreateRecharge(r) \/ CreateRedeem(r) \/ RetryRedeem(r)
      PROVE  RequestStep(q)
  <2>1. task \in [Requests -> TaskRow] /\ TaskOf("pending").status = "pending"
    BY DEF TypeInv, TypeOK, TaskOf
  <2> QED
    BY <1>1, <1>3, <2>1 DEF CreateRecharge, CreateRedeem, RetryRedeem
<1>4. ASSUME NEW r \in Requests, NEW k \in Keys,
             Dismiss(r, k) \/ (\E a \in Actors : PageComplete(a, r, k))
      PROVE  RequestStep(q)
  BY <1>1, <1>4, CompleteRequest, DismissedRequest DEF Dismiss, PageComplete, Settled
<1>5. ASSUME NEW j \in Jobs, AgentComplete(j)
      PROVE  RequestStep(q)
  BY <1>1, <1>5, SaysType, CompleteRequest DEF AgentComplete, Settled, Reports
<1>6. ASSUME NEW j \in Jobs, AgentDismiss(j)
      PROVE  RequestStep(q)
  BY <1>1, <1>6, SaysType, DismissedRequest DEF AgentDismiss, Settled, Reports
<1>7. ASSUME NEW j \in Jobs, WaitPlayerExit(j)
      PROVE  RequestStep(q)
  <2>1. /\ request' = [request EXCEPT ![job[j].task] = "waiting_player_exit"]
        /\ job[j].task \in Requests
        /\ waited' = waited \cup {job[j].task}
    BY <1>7, SaysType DEF WaitPlayerExit, Reports
  <2>2. CASE q = job[j].task
    BY <1>1, <2>1, <2>2 DEF Waited
  <2>3. CASE q # job[j].task
    BY <1>1, <2>1, <2>3
  <2> QED
    BY <2>2, <2>3
<1>8. ASSUME NEW j \in Jobs,
             \/ AgentClaim(j) \/ Heartbeat(j) \/ GoStale(j) \/ CloseJob(j)
             \/ AgentFail(j) \/ SuspectStale(j) \/ RecoverStale(j)
             \/ ReturnFailed(j) \/ PendingReview(j)
             \/ \E status : UpdateStatus(j, status)
      PROVE  UNCHANGED request
  BY <1>8 DEF AgentClaim, Heartbeat, GoStale, CloseJob, AgentFail, SuspectStale,
     RecoverStale, ReturnFailed, Return, PendingReview, UpdateStatus
<1>9. ASSUME NEW r \in Requests,
             \/ \E c \in Carers : Claim(c, r)
             \/ \E k \in Keys : Delete(r, k) \/ (\E a \in Actors : Return(a, r, k))
      PROVE  UNCHANGED request
  BY <1>9 DEF Claim, Delete, Return
<1>10. CASE UNCHANGED vars
  BY <1>10 DEF vars
<1> QED
  BY <1>2, <1>3, <1>4, <1>5, <1>6, <1>7, <1>8, <1>9, <1>10 DEF Next

-----------------------------------------------------------------------------
(* What is known of jobs and requests that wait *)

(* A request waits only because a job said so.                              *)
WaitingWaited ==
    \A r \in Requests : request[r] = "waiting_player_exit" => Waited(r)

(* Tasks and jobs are those of requests that exist.                         *)
TasksRequested ==
    \A r \in Requests : request[r] = "absent" =>
        /\ task[r].status = "absent"
        /\ \A j \in Jobs : job[j].status # "unused" => job[j].task # r

GameInv == TypeInv /\ WaitingWaited /\ TasksRequested

(* Neither a report to wait nor an update of a status is forgotten.         *)
LEMMA WaitedStays ==
    ASSUME [Next]_vars, NEW r, Waited(r)
    PROVE  Waited(r)'
BY HistoryStep DEF Waited, history, WaitPlayerExit, UpdateStatus

LEMMA OverwrittenStays ==
    ASSUME TypeInv, [Next]_vars, NEW r \in Requests, Overwritten(r)
    PROVE  Overwritten(r)'
<1>1. overwrites \in [Requests -> Nat]
  BY DEF TypeInv, TypeOK
<1>2. CASE UNCHANGED overwrites
  BY <1>2 DEF Overwritten
<1>3. ASSUME NEW j, NEW status, UpdateStatus(j, status)
      PROVE  Overwritten(r)'
  <2>1. overwrites' = [overwrites EXCEPT ![job[j].task] = @ + 1]
    BY <1>3 DEF UpdateStatus
  <2> QED
    BY <1>1, <2>1 DEF Overwritten
<1> QED
  BY <1>2, <1>3, HistoryStep DEF history, WaitPlayerExit

(* The ways of a task. The jobs named are in use.                           *)
Reporting(q, j) == job[j].status # "unused" /\ job[j].task = q

TaskStep(q) ==
    \/ task'[q] = task[q]
    \/ /\ request[q] = "absent" /\ request'[q] = "pending"
       /\ task'[q].status = "pending"
    \/ /\ request[q] = "waiting_player_exit" /\ task'[q].status = "pending"
    \/ \E c \in Carers : Claim(c, q)
    \/ \E a \in Actors, k \in Keys \cup Jobs : Return(a, q, k)
    \/ task[q].status = "pending" /\ task'[q].status = "deleted"
    \/ /\ task[q].status # "absent" /\ request'[q] = "completed"
       /\ task'[q].status = "completed"
    \/ request'[q] \in Settled /\ task'[q] = Tombstoned(task[q])
    \/ \E j \in Jobs :
         /\ Reporting(q, j)
         /\ \/ /\ job[j].status = "queued" /\ Live(q)
               /\ task'[q] = Started(task[q], j)
            \/ task'[q] = Reviewed(task[q])
            \/ /\ request'[q] \in Settled \/ <<"dismiss", q, j>> \in ops
               /\ task'[q].status = "completed"
            \/ /\ request'[q] = "waiting_player_exit"
               /\ task'[q].status = "pending"

LEMMA CompleteTask ==
    ASSUME TypeInv, NEW a, NEW r \in Requests, NEW k, Complete(a, r, k),
           NEW q \in Requests
    PROVE  \/ task'[q] = task[q]
           \/ /\ q = r /\ task[q].status # "absent" /\ request'[q] = "completed"
              /\ task'[q].status = "completed"
<1> USE DEF TypeInv, TypeOK
<1>1. TaskCompleted(task[r]).status = "completed"
  BY DEF TaskCompleted, TaskRow
<1> QED
  BY <1>1 DEF Complete, Settle

(* Every step takes each task one of these ways, or leaves it.              *)
LEMMA TaskSteps ==
    ASSUME TypeInv, [Next]_vars, NEW q \in Requests
    PROVE  TaskStep(q)
<1> USE DEF TypeInv, TypeOK
<1>1. ASSUME NEW r \in Requests, NEW row, r # q,
             task' = [task EXCEPT ![r] = row]
      PROVE  TaskStep(q)
  BY <1>1 DEF TaskStep
<1>2. CASE task' = task
  BY <1>2 DEF TaskStep
<1>3. /\ TaskOf("pending").status = "pending"
      /\ [TaskOf("deleted") EXCEPT !.deleted = TRUE, !.retry = task[q].retry].status
            = "deleted"
      /\ [WaitingTask(task[q]) EXCEPT !.error = FALSE].status = "pending"
      /\ WaitingTask(task[q]).status = "pending"
      /\ DismissedTask(task[q]).status = "completed"
  BY DEF TaskOf, WaitingTask, DismissedTask, TaskRow
<1>4. ASSUME NEW r \in Requests, CreateRecharge(r) \/ CreateRedeem(r)
      PROVE  TaskStep(q)
  <2>1. /\ request[r] = "absent"
        /\ request' = [request EXCEPT ![r] = "pending"]
        /\ task' = [task EXCEPT ![r] = TaskOf("pending")]
    BY <1>4 DEF CreateRecharge, CreateRedeem
  <2> QED
    BY <1>1, <1>3, <2>1 DEF TaskStep
<1>5. ASSUME NEW r \in Requests, RetryRedeem(r)
      PROVE  TaskStep(q)
  <2>1. /\ request[r] = "waiting_player_exit"
        /\ task' = [task EXCEPT ![r] = [WaitingTask(task[r]) EXCEPT !.error = FALSE]]
    BY <1>5 DEF RetryRedeem
  <2> QED
    BY <1>1, <1>3, <2>1 DEF TaskStep
<1>6. ASSUME NEW r \in Requests, NEW c \in Carers, Claim(c, r)
      PROVE  TaskStep(q)
  <2>1. \E row : task' = [task EXCEPT ![r] = row]
    BY <1>6 DEF Claim
  <2> QED
    BY <1>1, <1>6, <2>1 DEF TaskStep
<1>7. ASSUME NEW r \in Requests, NEW a \in Actors, NEW k \in Keys \cup Jobs,
             Return(a, r, k)
      PROVE  TaskStep(q)
  <2>1. \E row : task' = [task EXCEPT ![r] = row]
    BY <1>7 DEF Return
  <2> QED
    BY <1>1, <1>7, <2>1 DEF TaskStep
<1>8. ASSUME NEW r \in Requests, NEW k \in Keys, Delete(r, k)
      PROVE  TaskStep(q)
  <2>1. \/ task' = task
        \/ /\ task[r].status = "pending"
           /\ task' = [task EXCEPT ![r] =
                         [TaskOf("deleted") EXCEPT !.deleted = TRUE,
                                               !.retry = task[r].retry]]
    BY <1>8 DEF Delete
  <2> QED
    BY <1>1, <1>2, <1>3, <2>1 DEF TaskStep
<1>9. ASSUME NEW r \in Requests, NEW k \in Keys, Dismiss(r, k)
      PROVE  TaskStep(q)
  <2>1. request'[r] \in Settled /\ task' = [task EXCEPT ![r] = Tombstoned(task[r])]
    BY <1>9, DismissedRequest DEF Dismiss
  <2> QED
    BY <1>1, <2>1 DEF TaskStep
<1>10. ASSUME NEW r \in Requests, NEW a, NEW k, Complete(a, r, k)
       PROVE  TaskStep(q)
  BY <1>10, CompleteTask DEF TaskStep
<1>11. ASSUME NEW j \in Jobs, AgentClaim(j)
       PROVE  TaskStep(q)
  <2>1. job[j].status = "queued" /\ job[j].task \in Requests
    BY <1>11 DEF AgentClaim, JobsNamed
  <2>2. CASE Live(job[j].task)
    <3>1. task' = [task EXCEPT ![job[j].task] = Started(task[job[j].task], j)]
      BY <1>11, <2>2 DEF AgentClaim
    <3>2. CASE q = job[j].task
      <4>1. task'[q] = Started(task[q], j)
        BY <3>1, <3>2
      <4> QED
        BY <2>1, <2>2, <3>2, <4>1 DEF TaskStep, Reporting
    <3>3. CASE q # job[j].task
      BY <1>1, <2>1, <3>1, <3>3
    <3> QED
      BY <3>2, <3>3
  <2>3. CASE ~Live(job[j].task)
    BY <1>2, <1>11, <2>3 DEF AgentClaim
  <2> QED
    BY <2>2, <2>3
<1>12. ASSUME NEW j \in Jobs, AgentComplete(j)
       PROVE  TaskStep(q)
  BY <1>10, <1>12, SaysType DEF AgentComplete, Reports
<1>13. ASSUME NEW j \in Jobs, PendingReview(j)
       PROVE  TaskStep(q)
  <2>1. /\ job[j].status # "unused" /\ job[j].task \in Requests
        /\ task' = [task EXCEPT ![job[j].task] = Reviewed(task[job[j].task])]
    BY <1>13, SaysType DEF PendingReview, Reports
  <2>2. CASE q = job[j].task
    <3>1. task'[q] = Reviewed(task[q])
      BY <2>1, <2>2
    <3> QED
      BY <2>1, <2>2, <3>1 DEF TaskStep, Reporting
  <2> QED
    BY <1>1, <2>1, <2>2
<1>14. ASSUME NEW j \in Jobs, AgentDismiss(j)
       PROVE  TaskStep(q)
  <2>1. /\ job[j].status # "unused" /\ job[j].task \in Requests
        /\ task' = [task EXCEPT ![job[j].task] = DismissedTask(task[job[j].task])]
        /\ <<"dismiss", job[j].task, j>> \in ops \/ DismissRequest(job[j].task)
    BY <1>14, SaysType DEF AgentDismiss, Reports
  <2>2. CASE q = job[j].task
    <3>1. task'[q] = DismissedTask(task[q])
      BY <2>1, <2>2
    <3>2. request'[q] \in Settled \/ <<"dismiss", q, j>> \in ops
      BY <2>1, <2>2, DismissedRequest
    <3> QED
      BY <1>3, <2>1, <2>2, <3>1, <3>2 DEF TaskStep, Reporting
  <2> QED
    BY <1>1, <2>1, <2>2
<1>15. ASSUME NEW j \in Jobs, WaitPlayerExit(j)
       PROVE  TaskStep(q)
  <2>1. /\ job[j].status # "unused" /\ job[j].task \in Requests
        /\ task' = [task EXCEPT ![job[j].task] = WaitingTask(task[job[j].task])]
        /\ request' = [request EXCEPT ![job[j].task] = "waiting_player_exit"]
    BY <1>15, SaysType DEF WaitPlayerExit, Reports
  <2>2. CASE q = job[j].task
    <3>1. task'[q] = WaitingTask(task[q]) /\ request'[q] = "waiting_player_exit"
      BY <2>1, <2>2
    <3> QED
      BY <1>3, <2>1, <2>2, <3>1 DEF TaskStep, Reporting
  <2> QED
    BY <1>1, <2>1, <2>2
<1>16. ASSUME NEW j \in Jobs, ReturnFailed(j)
       PROVE  TaskStep(q)
  BY <1>7, <1>16 DEF ReturnFailed, JobsNamed, Actors
<1>17. ASSUME NEW j \in Jobs,
              \/ Heartbeat(j) \/ GoStale(j) \/ CloseJob(j) \/ AgentFail(j)
              \/ SuspectStale(j) \/ RecoverStale(j)
              \/ \E status : UpdateStatus(j, status)
       PROVE  UNCHANGED task
  BY <1>17 DEF Heartbeat, GoStale, CloseJob, AgentFail, SuspectStale, RecoverStale,
     UpdateStatus
<1>18. CASE UNCHANGED vars
  BY <1>2, <1>18 DEF vars
<1> QED
  BY <1>2, <1>4, <1>5, <1>6, <1>7, <1>8, <1>9, <1>10, <1>11, <1>12, <1>13, <1>14,
     <1>15, <1>16, <1>17, <1>18 DEF Next, PageComplete

LEMMA GameInit == Init => GameInv
<1> SUFFICES ASSUME Init PROVE GameInv
  OBVIOUS
<1>1. TypeInv
  BY TypeInit
<1>2. WaitingWaited /\ TasksRequested
  BY DEF Init, WaitingWaited, TasksRequested, JobOf, TaskOf
<1> QED
  BY <1>1, <1>2 DEF GameInv

LEMMA GameStep == GameInv /\ [Next]_vars => GameInv'
<1> SUFFICES ASSUME GameInv, [Next]_vars PROVE GameInv'
  OBVIOUS
<1> USE DEF GameInv
<1>1. TypeInv'
  BY TypeStep
<1>4. WaitingWaited'
  <2> SUFFICES ASSUME NEW r \in Requests, request'[r] = "waiting_player_exit"
               PROVE  Waited(r)'
    BY DEF WaitingWaited
  <2>1. request[r] = request'[r] \/ Waited(r)'
    BY RequestSteps DEF RequestStep, Settled
  <2> QED
    BY <2>1, WaitedStays DEF WaitingWaited
<1>5. TasksRequested'
  <2> SUFFICES ASSUME NEW r \in Requests, request'[r] = "absent"
               PROVE  /\ task'[r].status = "absent"
                      /\ \A j \in Jobs : job'[j].status # "unused" => job'[j].task # r
    BY DEF TasksRequested
  <2>1. request[r] = "absent"
    BY RequestSteps DEF RequestStep, Settled
  <2>2. /\ task[r].status = "absent"
        /\ \A j \in Jobs : job[j].status # "unused" => job[j].task # r
    BY <2>1 DEF TasksRequested
  <2>3. task'[r].status = "absent"
    <3>1. ~ \E c \in Carers : Claim(c, r)
      BY <2>2 DEF Claim, Live
    <3>2. ~ \E a \in Actors, k \in Keys \cup Jobs : Return(a, r, k)
      BY <2>2 DEF Return, Live
    <3>3. ~ \E j \in Jobs : Reporting(r, j)
      BY <2>2 DEF Reporting
    <3>4. request'[r] \notin Settled \cup {"pending"} /\ request'[r] = request[r]
      BY <2>1 DEF Settled
    <3>5. TaskStep(r)
      BY TaskSteps
    <3>6. task'[r] = task[r]
      BY <2>1, <2>2, <3>1, <3>2, <3>3, <3>4, <3>5 DEF TaskStep, Settled
    <3> QED
      BY <2>2, <3>6
  <2>4. ASSUME NEW j \in Jobs, job'[j].status # "unused"
        PROVE  job'[j].task # r
    <3>1. CASE JobStays(j)
      BY <2>2, <2>4, <3>1 DEF JobStays
    <3>2. ASSUME NEW c \in Carers, NEW q \in Requests, Claim(c, q), ~JobStays(j)
          PROVE  job'[j].task = q /\ q # r
      <4>1. q # r
        BY <2>2, <3>2 DEF Claim, Live
      <4>2. job'[j] = JobOf("queued", q, c)
        BY <3>2, ClaimEffect
      <4> QED
        BY <4>1, <4>2 DEF JobOf
    <3> QED
      BY <3>1, <3>2, JobsStay
  <2> QED
    BY <2>3, <2>4
<1> QED
  BY <1>1, <1>4, <1>5

-----------------------------------------------------------------------------
(* A redeem is paid once *)

(* A redeem is credited by the step that completes it, and by no other.     *)
CreditStep(q) ==
    \/ /\ events'[q]["credit"] = events[q]["credit"]
       /\ request'[q] = "completed" => request[q] = "completed"
    \/ /\ events'[q]["credit"] = events[q]["credit"] + 1
       /\ request[q] = "pending"
       /\ request'[q] = "completed"

LEMMA CreditSteps ==
    ASSUME TypeInv, [Next]_vars, NEW q \in Requests, KindOf[q] = "redeem"
    PROVE  CreditStep(q)
<1> USE DEF CreditStep
<1>1. MoneyTyped /\ request \in [Requests -> RequestStatuses]
  BY DEF TypeInv, TypeOK, MoneyTyped
<1>2. CASE UNCHANGED <<money, request>>
  BY <1>2 DEF money
<1>3. ASSUME NEW r \in Requests, NEW a, NEW k, Complete(a, r, k)
      PROVE  CreditStep(q)
  <2>1. CASE Settle(a, r)
    <3>1. CASE q = r
      <4>1. events' = Counted(r, "credit")
        BY <2>1, <3>1 DEF Settle
      <4>2. events'[q]["credit"] = events[q]["credit"] + 1
        BY <1>1, <3>1, <4>1, CountedValue DEF EventKinds
      <4> QED
        BY <1>1, <2>1, <3>1, <4>2 DEF Settle
    <3>2. CASE q # r
      <4>1. \E e \in EventKinds : events' = Counted(r, e)
        BY <2>1 DEF Settle, EventKinds
      <4>2. events'[q]["credit"] = events[q]["credit"]
        BY <1>1, <3>2, <4>1, CountedValue DEF EventKinds
      <4> QED
        BY <1>1, <2>1, <3>2, <4>2 DEF Settle
    <3> QED
      BY <3>1, <3>2
  <2>2. CASE UNCHANGED <<money, request>>
    BY <1>2, <2>2
  <2> QED
    BY <1>3, <2>1, <2>2 DEF Complete
<1>4. ASSUME NEW r \in Requests, DismissRequest(r)
      PROVE  CreditStep(q)
  <2>1. CASE Dismissed(r)
    <3>1. events' = events \/ events' = Counted(r, "refund")
      BY <2>1 DEF Dismissed
    <3>2. events'[q]["credit"] = events[q]["credit"]
      BY <1>1, <3>1, CountedValue DEF EventKinds
    <3> QED
      BY <1>1, <2>1, <3>2 DEF Dismissed
  <2>2. CASE UNCHANGED <<money, request>>
    BY <1>2, <2>2
  <2> QED
    BY <1>4, <2>1, <2>2 DEF DismissRequest
<1>5. ASSUME NEW r \in Requests, NEW status, status # "completed",
             request' = [request EXCEPT ![r] = status],
             events' = events \/ events' = Counted(r, "debit")
      PROVE  CreditStep(q)
  <2>1. events'[q]["credit"] = events[q]["credit"]
    BY <1>1, <1>5, CountedValue DEF EventKinds
  <2> QED
    BY <1>1, <1>5, <2>1
<1>6. ASSUME NEW r \in Requests, CreateRecharge(r) \/ CreateRedeem(r) \/ RetryRedeem(r)
      PROVE  CreditStep(q)
  BY <1>5, <1>6 DEF CreateRecharge, CreateRedeem, RetryRedeem, money
<1>7. ASSUME NEW r \in Requests, NEW k \in Keys,
             Dismiss(r, k) \/ (\E a \in Actors : PageComplete(a, r, k))
      PROVE  CreditStep(q)
  BY <1>3, <1>4, <1>7 DEF Dismiss, PageComplete
<1>8. ASSUME NEW j \in Jobs, AgentComplete(j) \/ AgentDismiss(j) \/ WaitPlayerExit(j)
      PROVE  CreditStep(q)
  <2>1. job[j].task \in Requests
    BY <1>8, SaysType DEF AgentComplete, AgentDismiss, WaitPlayerExit, Reports
  <2>2. \/ Complete(job[j].carer, job[j].task, j)
        \/ UNCHANGED <<money, request>>
        \/ DismissRequest(job[j].task)
        \/ /\ request' = [request EXCEPT ![job[j].task] = "waiting_player_exit"]
           /\ events' = events
    BY <1>8 DEF AgentComplete, AgentDismiss, WaitPlayerExit, money
  <2> QED
    BY <1>2, <1>3, <1>4, <1>5, <2>1, <2>2
<1>9. ASSUME NEW j \in Jobs,
             \/ AgentClaim(j) \/ Heartbeat(j) \/ GoStale(j) \/ CloseJob(j)
             \/ AgentFail(j) \/ SuspectStale(j) \/ RecoverStale(j)
             \/ ReturnFailed(j) \/ PendingReview(j)
             \/ \E status : UpdateStatus(j, status)
      PROVE  CreditStep(q)
  <2>1. UNCHANGED <<money, request>>
    BY <1>9 DEF AgentClaim, Heartbeat, GoStale, CloseJob, AgentFail, SuspectStale,
       RecoverStale, ReturnFailed, Return, PendingReview, UpdateStatus
  <2> QED
    BY <1>2, <2>1
<1>10. ASSUME NEW r \in Requests,
              \/ \E c \in Carers : Claim(c, r)
              \/ \E k \in Keys : Delete(r, k) \/ (\E a \in Actors : Return(a, r, k))
       PROVE  CreditStep(q)
  <2>1. UNCHANGED <<money, request>>
    BY <1>10 DEF Claim, Delete, Return
  <2> QED
    BY <1>2, <2>1
<1>11. CASE UNCHANGED vars
  BY <1>2, <1>11 DEF vars, money
<1> QED
  BY <1>6, <1>7, <1>8, <1>9, <1>10, <1>11 DEF Next

LEMMA PaidStep == GameInv /\ RedeemPaidOnce /\ [Next]_vars => RedeemPaidOnce'
<1> SUFFICES ASSUME GameInv, RedeemPaidOnce, [Next]_vars,
                    NEW r \in Requests, KindOf[r] = "redeem", ~Waited(r)'
             PROVE  events'[r]["credit"] = IF request'[r] = "completed" THEN 1 ELSE 0
  BY DEF RedeemPaidOnce
<1>1. ~Waited(r)
  BY WaitedStays DEF GameInv
<1>2. events[r]["credit"] = IF request[r] = "completed" THEN 1 ELSE 0
  BY <1>1 DEF RedeemPaidOnce
<1>3. CreditStep(r)
  BY CreditSteps DEF GameInv
<1>4. request[r] = "completed" => request'[r] = "completed"
  BY RequestSteps DEF RequestStep, GameInv
<1> QED
  BY <1>2, <1>3, <1>4 DEF CreditStep

(* A redeem pays its cash once, when it is completed, however often carers, *)
(* admins and late agents complete it with keys of their own, as long as no *)
(* job reported that the player has to leave the game first                 *)
(* (completeRechargeRedeemTaskInSql).                                       *)
THEOREM RedeemAlwaysPaidOnce == Spec => []RedeemPaidOnce
<1>1. Init => RedeemPaidOnce
  BY DEF Init, RedeemPaidOnce, EventKinds
<1> QED
  BY <1>1, GameInit, GameStep, PaidStep, PTL DEF Spec

-----------------------------------------------------------------------------
(* Coin and cash are what the events tell *)

(* Money moves with the event that tells of it, and a base is stored before *)
(* anything is given back.                                                  *)
Booking(r, e) ==
    /\ events' = Counted(r, e)
    /\ coin' = CASE e = "debit"  -> [coin EXCEPT ![PlayerOf[r]] = @ - Amount[r]]
                 [] e = "refund" -> [coin EXCEPT ![PlayerOf[r]] = @ + base[r]]
                 [] OTHER        -> coin
    /\ cash' = IF e = "credit" THEN [cash EXCEPT ![PlayerOf[r]] = @ + Amount[r]]
                               ELSE cash
    /\ \A q \in Requests \ {r} : base'[q] = base[q]
    /\ base'[r] = base[r] \/ (e = "debit" /\ events[r]["refund"] = 0)

Booked == \/ UNCHANGED <<coin, cash, base, events>>
          \/ \E r \in Requests, e \in EventKinds : Booking(r, e)

LEMMA MoneyBooked ==
    ASSUME RechargeInv, [Next]_vars
    PROVE  Booked
<1>0. TypeInv
  BY DEF RechargeInv
<1>1. ASSUME UNCHANGED money PROVE Booked
  BY <1>1 DEF Booked, money
<1>2. ASSUME NEW r \in Requests, NEW a, NEW k, Complete(a, r, k)
      PROVE  Booked
  <2>1. CASE Settle(a, r)
    <3>1. CASE KindOf[r] = "redeem"
      <4>1. Booking(r, "credit")
        BY <2>1, <3>1 DEF Settle, Booking
      <4> QED
        BY <4>1 DEF Booked, EventKinds
    <3>2. CASE KindOf[r] # "redeem"
      <4>1. Booking(r, "deposit")
        BY <2>1, <3>2 DEF Settle, Booking
      <4> QED
        BY <4>1 DEF Booked, EventKinds
    <3> QED
      BY <3>1, <3>2
  <2>2. CASE UNCHANGED money
    BY <1>1, <2>2
  <2> QED
    BY <1>2, <2>1, <2>2 DEF Complete
<1>3. ASSUME NEW r \in Requests, DismissRequest(r)
      PROVE  Booked
  <2>1. CASE Dismissed(r)
    <3>1. Booking(r, "refund") \/ UNCHANGED <<coin, cash, base, events>>
      BY <2>1 DEF Dismissed, Booking
    <3> QED
      BY <3>1 DEF Booked, EventKinds
  <2>2. CASE UNCHANGED money
    BY <1>1, <2>2
  <2> QED
    BY <1>3, <2>1, <2>2 DEF DismissRequest
<1>4. ASSUME NEW r \in Requests, CreateRecharge(r) \/ CreateRedeem(r) \/ RetryRedeem(r)
      PROVE  Booked
  <2>1. CASE CreateRecharge(r)
    <3>1. base \in [Requests -> Nat] /\ \E b : base' = [base EXCEPT ![r] = b]
      BY <1>0, <2>1 DEF CreateRecharge, TypeInv, TypeOK
    <3>2. events[r]["refund"] = 0
      BY <2>1 DEF CreateRecharge, RechargeInv, RechargeSettledOnce
    <3>3. Booking(r, "debit")
      BY <2>1, <3>1, <3>2 DEF CreateRecharge, Booking
    <3> QED
      BY <3>3 DEF Booked, EventKinds
  <2>2. CASE CreateRedeem(r) \/ RetryRedeem(r)
    BY <1>1, <2>2 DEF CreateRedeem, RetryRedeem
  <2> QED
    BY <1>4, <2>1, <2>2
<1>5. ASSUME NEW r \in Requests, NEW k \in Keys,
             Dismiss(r, k) \/ (\E a \in Actors : PageComplete(a, r, k))
      PROVE  Booked
  BY <1>2, <1>3, <1>5 DEF Dismiss, PageComplete
<1>6. ASSUME NEW j \in Jobs, AgentComplete(j) \/ AgentDismiss(j) \/ WaitPlayerExit(j)
      PROVE  Booked
  <2>1. job[j].task \in Requests
    BY <1>0, <1>6, SaysType DEF AgentComplete, AgentDismiss, WaitPlayerExit, Reports
  <2>2. \/ Complete(job[j].carer, job[j].task, j)
        \/ UNCHANGED money
        \/ DismissRequest(job[j].task)
    BY <1>6 DEF AgentComplete, AgentDismiss, WaitPlayerExit
  <2> QED
    BY <1>1, <1>2, <1>3, <2>1, <2>2
<1>7. ASSUME NEW j \in Jobs,
             \/ AgentClaim(j) \/ Heartbeat(j) \/ GoStale(j) \/ CloseJob(j)
             \/ AgentFail(j) \/ SuspectStale(j) \/ RecoverStale(j)
             \/ ReturnFailed(j) \/ PendingReview(j)
             \/ \E status : UpdateStatus(j, status)
      PROVE  Booked
  <2>1. UNCHANGED money
    BY <1>7 DEF AgentClaim, Heartbeat, GoStale, CloseJob, AgentFail, SuspectStale,
       RecoverStale, ReturnFailed, Return, PendingReview, UpdateStatus
  <2> QED
    BY <1>1, <2>1
<1>8. ASSUME NEW r \in Requests,
             \/ \E c \in Carers : Claim(c, r)
             \/ \E k \in Keys : Delete(r, k) \/ (\E a \in Actors : Return(a, r, k))
      PROVE  Booked
  <2>1. UNCHANGED money
    BY <1>8 DEF Claim, Delete, Return
  <2> QED
    BY <1>1, <2>1
<1>9. CASE UNCHANGED vars
  BY <1>1, <1>9 DEF vars, money
<1> QED
  BY <1>4, <1>5, <1>6, <1>7, <1>8, <1>9 DEF Next

CoinSum(E, B, p) ==
    SumFunctionOnSet([r \in Requests |-> CoinTold(E[r], B[r], r, p)], Requests)
CashSum(E, p) == SumFunctionOnSet([r \in Requests |-> CashTold(E[r], r, p)], Requests)

Tellings == [Requests -> [EventKinds -> Nat]]

LEMMA ToldType ==
    ASSUME NEW E \in Tellings, NEW b \in Nat, NEW r \in Requests, NEW p
    PROVE  CoinTold(E[r], b, r, p) \in Int /\ CashTold(E[r], r, p) \in Int
<1>1. E[r]["refund"] \in Nat /\ E[r]["debit"] \in Nat /\ E[r]["credit"] \in Nat
  BY DEF Tellings, EventKinds
<1>2. Amount[r] \in Nat
  BY KindAssumption
<1>3. /\ E[r]["refund"] * b \in Int
      /\ E[r]["debit"] * Amount[r] \in Int
      /\ E[r]["credit"] * Amount[r] \in Int
  BY <1>1, <1>2
<1> QED
  BY <1>3 DEF CoinTold, CashTold

(* The events and the base of one request change: the sums change by what   *)
(* they tell.                                                               *)
LEMMA OneTold ==
    ASSUME NEW E \in Tellings, NEW F \in Tellings, NEW r \in Requests, NEW p,
           NEW B \in [Requests -> Nat], NEW C \in [Requests -> Nat],
           \A q \in Requests \ {r} : F[q] = E[q] /\ C[q] = B[q]
    PROVE  /\ CoinSum(F, C, p)
                = CoinSum(E, B, p) + CoinTold(F[r], C[r], r, p)
                                   - CoinTold(E[r], B[r], r, p)
           /\ CashSum(F, p)
                = CashSum(E, p) + CashTold(F[r], r, p) - CashTold(E[r], r, p)
           /\ CoinSum(E, B, p) \in Int /\ CashSum(E, p) \in Int
<1> DEFINE v == [q \in Requests |-> CoinTold(E[q], B[q], q, p)]
           w == [q \in Requests |-> CoinTold(F[q], C[q], q, p)]
           x == [q \in Requests |-> CashTold(E[q], q, p)]
           y == [q \in Requests |-> CashTold(F[q], q, p)]
<1>1. \A q \in Requests : v[q] \in Int /\ w[q] \in Int /\ x[q] \in Int /\ y[q] \in Int
  BY ToldType
<1>2. \A q \in Requests \ {r} : w[q] = v[q] /\ y[q] = x[q]
  OBVIOUS
<1>3. /\ v[r] = CoinTold(E[r], B[r], r, p) /\ w[r] = CoinTold(F[r], C[r], r, p)
      /\ x[r] = CashTold(E[r], r, p) /\ y[r] = CashTold(F[r], r, p)
  OBVIOUS
<1>4. /\ CoinSum(E, B, p) = SumFunctionOnSet(v, Requests)
      /\ CoinSum(F, C, p) = SumFunctionOnSet(w, Requests)
      /\ CashSum(E, p) = SumFunctionOnSet(x, Requests)
      /\ CashSum(F, p) = SumFunctionOnSet(y, Requests)
  BY DEF CoinSum, CashSum
<1>5. IsFiniteSet(Requests)
  BY KindAssumption
<1> HIDE DEF v, w, x, y
<1>6. SumFunctionOnSet(w, Requests) = SumFunctionOnSet(v, Requests) + w[r] - v[r]
  BY <1>1, <1>2, <1>5, SumChange
<1>7. SumFunctionOnSet(y, Requests) = SumFunctionOnSet(x, Requests) + y[r] - x[r]
  BY <1>1, <1>2, <1>5, SumChange
<1>8. SumFunctionOnSet(v, Requests) \in Int /\ SumFunctionOnSet(x, Requests) \in Int
  BY <1>1, <1>5, SumInt
<1> QED
  BY <1>3, <1>4, <1>6, <1>7, <1>8

(* One event more tells of one amount more.                                 *)
LEMMA OneMore ==
    ASSUME NEW n \in Int, NEW m \in Int
    PROVE  (n + 1) * m = n * m + m /\ n * m \in Int
OBVIOUS

(* What is told of the cash of a request when an event is counted.          *)
LEMMA CountedCash ==
    ASSUME events \in Tellings, NEW r \in Requests, NEW e \in EventKinds, NEW p
    PROVE  CashTold(Counted(r, e)[r], r, p)
             = CashTold(events[r], r, p)
                 + (IF PlayerOf[r] = p /\ e = "credit" THEN Amount[r] ELSE 0)
<1> DEFINE n == events[r]["credit"]
<1>1. n \in Int /\ Amount[r] \in Int
  BY KindAssumption DEF Tellings, EventKinds
<1>2. Counted(r, e)[r]["credit"] = IF e = "credit" THEN n + 1 ELSE n
  BY DEF Counted, Tellings, EventKinds
<1> HIDE DEF n
<1>3. (n + 1) * Amount[r] = n * Amount[r] + Amount[r] /\ n * Amount[r] \in Int
  BY <1>1, OneMore
<1> QED
  BY <1>1, <1>2, <1>3 DEF CashTold, n

(* The same of its coin, when its base may be stored with the debit.        *)
LEMMA CountedCoin ==
    ASSUME events \in Tellings, NEW r \in Requests, NEW e \in EventKinds, NEW p,
           NEW b \in Nat, NEW c \in Nat,
           c = b \/ (e = "debit" /\ events[r]["refund"] = 0)
    PROVE  CoinTold(Counted(r, e)[r], c, r, p)
             = CoinTold(events[r], b, r, p)
                 + (IF PlayerOf[r] = p /\ e = "refund" THEN b ELSE 0)
                 - (IF PlayerOf[r] = p /\ e = "debit" THEN Amount[r] ELSE 0)
<1> DEFINE E == events[r]
           F == Counted(r, e)[r]
           refunded == IF e = "refund" THEN b ELSE 0
           taken    == IF e = "debit" THEN Amount[r] ELSE 0
<1>1. E["refund"] \in Nat /\ E["debit"] \in Nat
  BY DEF Tellings, EventKinds
<1>2. \A kind \in EventKinds : F[kind] = IF kind = e THEN E[kind] + 1 ELSE E[kind]
  BY DEF Counted, Tellings
<1>3. Amount[r] \in Int
  BY KindAssumption
<1> HIDE DEF E, F
<1>4. F["refund"] * c = E["refund"] * b + refunded
  <2>1. CASE e = "refund"
    <3>1. F["refund"] = E["refund"] + 1 /\ c = b /\ refunded = b
      BY <1>2, <2>1 DEF EventKinds
    <3>2. E["refund"] \in Int /\ b \in Int
      BY <1>1
    <3> QED
      BY <3>1, <3>2, OneMore
  <2>2. CASE e # "refund"
    <3>1. F["refund"] = E["refund"] /\ refunded = 0
      BY <1>2, <2>2 DEF EventKinds
    <3>2. c = b \/ E["refund"] = 0
      BY DEF E
    <3>3. E["refund"] * b \in Int
      BY <1>1
    <3> QED
      BY <3>1, <3>2, <3>3
  <2> QED
    BY <2>1, <2>2
<1>5. F["debit"] * Amount[r] = E["debit"] * Amount[r] + taken
  <2>1. E["debit"] \in Int /\ E["debit"] * Amount[r] \in Int
    BY <1>1, <1>3
  <2>2. CASE e = "debit"
    <3>1. F["debit"] = E["debit"] + 1 /\ taken = Amount[r]
      BY <1>2, <2>2 DEF EventKinds
    <3> QED
      BY <1>3, <2>1, <3>1, OneMore
  <2>3. CASE e # "debit"
    <3>1. F["debit"] = E["debit"] /\ taken = 0
      BY <1>2, <2>3 DEF EventKinds
    <3> QED
      BY <2>1, <3>1
  <2> QED
    BY <2>2, <2>3
<1>6. /\ E["refund"] * b \in Int /\ E["debit"] * Amount[r] \in Int
      /\ refunded \in Int /\ taken \in Int
  BY <1>1, <1>3
<1>7. CASE PlayerOf[r] # p
  BY <1>7 DEF CoinTold
<1>8. CASE PlayerOf[r] = p
  <2>1. /\ CoinTold(F, c, r, p) = F["refund"] * c - F["debit"] * Amount[r]
        /\ CoinTold(E, b, r, p) = E["refund"] * b - E["debit"] * Amount[r]
    BY <1>8 DEF CoinTold
  <2> HIDE DEF refunded, taken
  <2>2. CoinTold(F, c, r, p) = CoinTold(E, b, r, p) + refunded - taken
    BY <1>4, <1>5, <1>6, <2>1
  <2> QED
    BY <1>8, <2>2 DEF refunded, taken, E, F
<1> QED
  BY <1>7, <1>8 DEF E, F

LEMMA ToldStep == RechargeInv /\ BalancesTold /\ [Next]_vars => BalancesTold'
<1> SUFFICES ASSUME RechargeInv, BalancesTold, [Next]_vars PROVE BalancesTold'
  OBVIOUS
<1>1. /\ events \in Tellings /\ coin \in [Players -> Nat] /\ cash \in [Players -> Nat]
      /\ base \in [Requests -> Nat] /\ base' \in [Requests -> Nat]
      /\ MoneyTyped
  BY TypeStep DEF RechargeInv, TypeInv, TypeOK, Tellings, MoneyTyped
<1>2. ASSUME NEW p \in Players
      PROVE  /\ coin[p] = InitialCoin[p] + CoinSum(events, base, p)
             /\ cash[p] = CashSum(events, p)
             /\ InitialCoin[p] \in Int
  <2>1. InitialCoin[p] \in Nat
    BY KindAssumption
  <2> QED
    BY <2>1 DEF BalancesTold, CoinSum, CashSum
<1>3. CASE UNCHANGED <<coin, cash, base, events>>
  BY <1>3 DEF BalancesTold
<1>4. ASSUME NEW r \in Requests, NEW e \in EventKinds, Booking(r, e)
      PROVE  BalancesTold'
  <2>1. events' = Counted(r, e) /\ events' \in Tellings
    BY <1>1, <1>4, CountedType DEF Booking, Tellings
  <2>2. \A q \in Requests \ {r} : events'[q] = events[q] /\ base'[q] = base[q]
    BY <1>1, <1>4, <2>1 DEF Counted, Tellings, Booking
  <2>3. Amount[r] \in Int /\ PlayerOf[r] \in Players
    BY KindAssumption
  <2>4. base'[r] = base[r] \/ (e = "debit" /\ events[r]["refund"] = 0)
    BY <1>4 DEF Booking
  <2>5. base[r] \in Nat /\ base'[r] \in Nat
    BY <1>1
  <2>6. ASSUME NEW p \in Players
        PROVE  /\ coin'[p] = InitialCoin[p] + CoinSum(events', base', p)
               /\ cash'[p] = CashSum(events', p)
    <3> DEFINE e1 == CoinTold(events[r], base[r], r, p)
               e2 == CoinTold(events'[r], base'[r], r, p)
               h1 == CashTold(events[r], r, p)
               h2 == CashTold(events'[r], r, p)
               back == IF PlayerOf[r] = p /\ e = "refund" THEN base[r] ELSE 0
               taken == IF PlayerOf[r] = p /\ e = "debit" THEN Amount[r] ELSE 0
               paid == IF PlayerOf[r] = p /\ e = "credit" THEN Amount[r] ELSE 0
    <3>1. /\ CoinSum(events', base', p) = CoinSum(events, base, p) + e2 - e1
          /\ CashSum(events', p) = CashSum(events, p) + h2 - h1
          /\ CoinSum(events, base, p) \in Int /\ CashSum(events, p) \in Int
      BY <1>1, <2>1, <2>2, OneTold
    <3>2. /\ e1 \in Int /\ e2 \in Int /\ h1 \in Int /\ h2 \in Int
          /\ back \in Int /\ taken \in Int /\ paid \in Int
          /\ coin[p] \in Int /\ cash[p] \in Int
      BY <1>1, <2>1, <2>3, <2>5, ToldType
    <3>3. e2 = e1 + back - taken /\ h2 = h1 + paid
      <4>0. ASSUME NEW m \in Nat, NEW n \in Nat,
                   n = m \/ (e = "debit" /\ events[r]["refund"] = 0)
            PROVE  CoinTold(Counted(r, e)[r], n, r, p)
                     = CoinTold(events[r], m, r, p)
                         + (IF PlayerOf[r] = p /\ e = "refund" THEN m ELSE 0)
                         - (IF PlayerOf[r] = p /\ e = "debit" THEN Amount[r] ELSE 0)
        BY <1>1, <4>0, CountedCoin
      <4>1. /\ CoinTold(Counted(r, e)[r], base'[r], r, p)
                  = CoinTold(events[r], base[r], r, p) + back - taken
            /\ CashTold(Counted(r, e)[r], r, p) = CashTold(events[r], r, p) + paid
        BY <1>1, <2>4, <2>5, <4>0, CountedCash
      <4>2. events'[r] = Counted(r, e)[r]
        BY <2>1
      <4> QED
        BY <4>1, <4>2 
    <3>4. coin'[p] = coin[p] + back - taken
      BY <1>1, <1>4, <2>3 DEF Booking
    <3>5. cash'[p] = cash[p] + paid
      BY <1>1, <1>4, <2>3 DEF Booking
    <3> HIDE DEF e1, e2, h1, h2, back, taken, paid
    <3>6. coin[p] = InitialCoin[p] + CoinSum(events, base, p) /\ cash[p] = CashSum(events, p)
          /\ InitialCoin[p] \in Int
      BY <1>2
    <3> QED
      BY <3>1, <3>2, <3>3, <3>4, <3>5, <3>6
  <2> QED
    BY <2>6 DEF BalancesTold, CoinSum, CashSum
<1>5. Booked
  BY MoneyBooked
<1> QED
  BY <1>3, <1>4, <1>5 DEF Booked

(* Coin and cash of every player are what the events of its requests tell,  *)
(* although handlers, pages and agents move them in separate statements and *)
(* a dismissed recharge gives back a base that need not be what it debited. *)
THEOREM BalancesAlwaysTold == Spec => []BalancesTold
<1>1. Init => BalancesTold
  <2> SUFFICES ASSUME Init, NEW p \in Players
               PROVE  /\ coin[p] = InitialCoin[p] + CoinSum(events, base, p)
                      /\ cash[p] = CashSum(events, p)
    BY DEF BalancesTold, CoinSum, CashSum
  <2> DEFINE v == [r \in Requests |-> CoinTold(events[r], base[r], r, p)]
             w == [r \in Requests |-> CashTold(events[r], r, p)]
  <2>1. ASSUME NEW r \in Requests PROVE v[r] = 0 /\ w[r] = 0
    <3>1. events[r]["refund"] = 0 /\ events[r]["debit"] = 0 /\ events[r]["credit"] = 0
      BY DEF Init, EventKinds
    <3>2. Amount[r] \in Nat /\ base[r] \in Nat
      BY KindAssumption DEF Init
    <3> QED
      BY <3>1, <3>2 DEF CoinTold, CashTold
  <2>2. CoinSum(events, base, p) = SumFunctionOnSet(v, Requests)
        /\ CashSum(events, p) = SumFunctionOnSet(w, Requests)
    BY DEF CoinSum, CashSum
  <2> HIDE DEF v, w
  <2>3. CoinSum(events, base, p) = 0 /\ CashSum(events, p) = 0
    BY <2>1, <2>2, KindAssumption, SumOfZeros
  <2> QED
    BY <2>3, KindAssumption DEF Init
<1> QED
  BY <1>1, SettledOnceInit, SettledOnceStep, ToldStep, PTL DEF Spec

-----------------------------------------------------------------------------
(* Rewards *)

(* Only a completed task has been rewarded.                                 *)
RewardedCompleted ==
    \A r \in Requests, a \in Actors :
        <<r, a>> \in rewarded => request[r] = "completed" \/ Waited(r)

RewardInv ==
    GameInv /\ RewardedOnce /\ RewardedCompleted /\ IsFiniteSet(rewarded)

(* The step that settles a request may reward its handler; no other does.   *)
Rewarding(a, r) ==
    /\ request[r] = "pending" /\ request'[r] = "completed"
    /\ box' = [box EXCEPT ![a] = @ + 1]
    /\ rewarded' = rewarded \cup {<<r, a>>}

LEMMA RewardSteps ==
    ASSUME TypeInv, [Next]_vars
    PROVE  \/ UNCHANGED <<box, rewarded>>
           \/ \E a \in Actors, r \in Requests : Rewarding(a, r)
<1> DEFINE Goal == \/ UNCHANGED <<box, rewarded>>
                   \/ \E a \in Actors, r \in Requests : Rewarding(a, r)
<1>1. request \in [Requests -> RequestStatuses]
  BY DEF TypeInv, TypeOK
<1>2. CASE UNCHANGED money
  BY <1>2 DEF money
<1>3. ASSUME NEW r \in Requests, NEW a \in Actors, NEW k, Complete(a, r, k)
      PROVE  Goal
  <2>1. CASE Settle(a, r)
    <3>1. request[r] = "pending" /\ request'[r] = "completed"
      BY <1>1, <2>1 DEF Settle
    <3>2. CASE a \in BoxHolders
      BY <2>1, <3>1, <3>2 DEF Settle, Reward, Rewarding
    <3>3. CASE a \notin BoxHolders
      BY <2>1, <3>3 DEF Settle, Reward
    <3> QED
      BY <3>2, <3>3
  <2>2. CASE UNCHANGED money
    BY <1>2, <2>2
  <2> QED
    BY <1>3, <2>1, <2>2 DEF Complete
<1>4. ASSUME NEW r, DismissRequest(r)
      PROVE  Goal
  BY <1>4 DEF DismissRequest, Dismissed, money
<1>5. ASSUME NEW r \in Requests, CreateRecharge(r) \/ CreateRedeem(r) \/ RetryRedeem(r)
      PROVE  Goal
  BY <1>5 DEF CreateRecharge, CreateRedeem, RetryRedeem, money
<1>6. ASSUME NEW r \in Requests, NEW k \in Keys,
             Dismiss(r, k) \/ (\E a \in Actors : PageComplete(a, r, k))
      PROVE  Goal
  BY <1>3, <1>4, <1>6 DEF Dismiss, PageComplete
<1>7. ASSUME NEW j \in Jobs, AgentComplete(j) \/ AgentDismiss(j) \/ WaitPlayerExit(j)
      PROVE  Goal
  <2>1. job[j].task \in Requests /\ job[j].carer \in Actors
    BY <1>7, SaysType DEF AgentComplete, AgentDismiss, WaitPlayerExit, Reports, Actors
  <2>2. \/ Complete(job[j].carer, job[j].task, j)
        \/ UNCHANGED money
        \/ DismissRequest(job[j].task)
    BY <1>7 DEF AgentComplete, AgentDismiss, WaitPlayerExit
  <2> QED
    BY <1>2, <1>3, <1>4, <2>1, <2>2
<1>8. ASSUME NEW j \in Jobs,
             \/ AgentClaim(j) \/ Heartbeat(j) \/ GoStale(j) \/ CloseJob(j)
             \/ AgentFail(j) \/ SuspectStale(j) \/ RecoverStale(j)
             \/ ReturnFailed(j) \/ PendingReview(j)
             \/ \E status : UpdateStatus(j, status)
      PROVE  UNCHANGED money
  BY <1>8 DEF AgentClaim, Heartbeat, GoStale, CloseJob, AgentFail, SuspectStale,
     RecoverStale, ReturnFailed, Return, PendingReview, UpdateStatus
<1>9. ASSUME NEW r \in Requests,
             \/ \E c \in Carers : Claim(c, r)
             \/ \E k \in Keys : Delete(r, k) \/ (\E a \in Actors : Return(a, r, k))
      PROVE  UNCHANGED money
  BY <1>9 DEF Claim, Delete, Return
<1>10. CASE UNCHANGED vars
  BY <1>2, <1>10 DEF vars, money
<1> QED
  BY <1>2, <1>5, <1>6, <1>7, <1>8, <1>9, <1>10 DEF Next

LEMMA RewardInit == Init => RewardInv
<1> SUFFICES ASSUME Init PROVE RewardInv
  OBVIOUS
<1>1. GameInv
  BY GameInit
<1>2. rewarded = {} /\ \A a \in Actors : box[a] = 0
  BY DEF Init
<1>3. RewardedOnce
  <2>1. \A a \in Actors : {x \in rewarded : x[2] = a} = {}
    BY <1>2
  <2> QED
    BY <1>2, <2>1, FS_EmptySet DEF RewardedOnce
<1> QED
  BY <1>1, <1>2, <1>3, FS_EmptySet DEF RewardInv, RewardedCompleted

LEMMA RewardStep == RewardInv /\ [Next]_vars => RewardInv'
<1> SUFFICES ASSUME RewardInv, [Next]_vars PROVE RewardInv'
  OBVIOUS
<1> USE DEF RewardInv
<1>1. GameInv' /\ TypeInv
  BY GameStep DEF GameInv
<1>2. ASSUME NEW r \in Requests, request[r] = "completed" \/ Waited(r)
      PROVE  request'[r] = "completed" \/ Waited(r)'
  BY <1>1, <1>2, RequestSteps, WaitedStays DEF RequestStep
<1>3. (\A r \in Requests : ~Waited(r)') => \A r \in Requests : ~Waited(r)
  BY <1>1, WaitedStays
<1>4. CASE UNCHANGED <<box, rewarded>>
  <2>1. RewardedOnce'
    BY <1>3, <1>4 DEF RewardedOnce
  <2>2. RewardedCompleted'
    BY <1>2, <1>4 DEF RewardedCompleted
  <2> QED
    BY <1>1, <1>4, <2>1, <2>2
<1>5. ASSUME NEW a \in Actors, NEW r \in Requests, Rewarding(a, r)
      PROVE  RewardInv'
  <2> USE <1>5 DEF Rewarding
  <2>1. IsFiniteSet(rewarded')
    BY FS_AddElement
  <2>2. RewardedCompleted'
    BY <1>2 DEF RewardedCompleted
  <2>3. RewardedOnce'
    <3> SUFFICES ASSUME \A q \in Requests : ~Waited(q)', NEW b \in Actors
                 PROVE  box'[b] = Cardinality({x \in rewarded' : x[2] = b})
      BY DEF RewardedOnce
    <3> DEFINE Of(c) == {x \in rewarded : x[2] = c}
    <3>1. box[b] = Cardinality(Of(b))
      BY <1>3 DEF RewardedOnce
    <3>2. IsFiniteSet(Of(b))
      BY FS_Subset
    <3>3. box \in [Actors -> Nat]
      BY <1>1 DEF TypeInv, TypeOK
    <3>4. CASE b = a
      <4>1. <<r, a>> \notin rewarded
        BY <1>3 DEF RewardedCompleted
      <4>2. {x \in rewarded' : x[2] = b} = Of(b) \cup {<<r, a>>}
        BY <3>4
      <4>3. Cardinality(Of(b) \cup {<<r, a>>}) = Cardinality(Of(b)) + 1
        BY <3>2, <4>1, FS_AddElement
      <4> QED
        BY <3>1, <3>3, <3>4, <4>2, <4>3
    <3>5. CASE b # a
      <4>1. {x \in rewarded' : x[2] = b} = Of(b)
        BY <3>5
      <4> QED
        BY <3>1, <3>3, <3>5, <4>1
    <3> QED
      BY <3>4, <3>5
  <2> QED
    BY <1>1, <2>1, <2>2, <2>3
<1> QED
  BY <1>1, <1>4, <1>5, RewardSteps

(* As long as no job reported that a player has to leave, the cash box of a *)
(* handler holds one reward for each task it completed, although the box is *)
(* credited without asking whether the reward's event was new               *)
(* (completeRechargeRedeemTaskInSql).                                       *)
THEOREM HandlersRewardedOnce == Spec => []RewardedOnce
<1>1. RewardInv => RewardedOnce
  BY DEF RewardInv
<1> QED
  BY <1>1, RewardInit, RewardStep, PTL DEF Spec

-----------------------------------------------------------------------------
(* Completed tasks *)

Over(r) == request[r] \in Settled \/ Waited(r)

(* A dismissal's key is kept only with a request that is dismissed, or was  *)
(* settled already.                                                         *)
DismissalsOver ==
    \A r \in Requests, k \in Keys \cup Jobs : <<"dismiss", r, k>> \in ops => Over(r)

SettledInv == GameInv /\ DismissalsOver /\ CompletedTaskSettled

LEMMA OverStays ==
    ASSUME GameInv, [Next]_vars, NEW r \in Requests, Over(r)
    PROVE  Over(r)'
BY RequestSteps, WaitedStays DEF GameInv, Over, RequestStep, Settled

LEMMA DismissalSteps ==
    ASSUME TypeInv, [Next]_vars, NEW q \in Requests, NEW k \in Keys \cup Jobs,
           <<"dismiss", q, k>> \in ops'
    PROVE  <<"dismiss", q, k>> \in ops \/ request'[q] \in Settled
<1>1. CASE ops' = ops
  BY <1>1
<1>2. ASSUME NEW r, NEW a, NEW x, Complete(a, r, x) \/ Return(a, r, x) \/ Delete(r, x)
      PROVE  <<"dismiss", q, k>> \in ops
  <2>1. \E tag \in {"complete", "return", "delete"} : ops' = ops \cup {<<tag, r, x>>}
    BY <1>2 DEF Complete, Return, Delete
  <2> QED
    BY <2>1
<1>3. ASSUME NEW r \in Requests, NEW x,
             ops' = ops \cup {<<"dismiss", r, x>>},
             <<"dismiss", r, x>> \in ops \/ DismissRequest(r)
      PROVE  <<"dismiss", q, k>> \in ops \/ request'[q] \in Settled
  <2>1. request \in [Requests -> RequestStatuses]
    BY DEF TypeInv, TypeOK
  <2>2. CASE <<"dismiss", q, k>> = <<"dismiss", r, x>>
    BY <1>3, <2>1, <2>2, DismissedRequest
  <2> QED
    BY <1>3, <2>2
<1>4. ASSUME NEW r \in Requests,
             \/ CreateRecharge(r) \/ CreateRedeem(r) \/ RetryRedeem(r)
             \/ \E c \in Carers : Claim(c, r)
      PROVE  UNCHANGED ops
  BY <1>4 DEF CreateRecharge, CreateRedeem, RetryRedeem, Claim
<1>5. ASSUME NEW r \in Requests, NEW x \in Keys, Dismiss(r, x)
      PROVE  <<"dismiss", q, k>> \in ops \/ request'[q] \in Settled
  BY <1>3, <1>5 DEF Dismiss
<1>6. ASSUME NEW j \in Jobs, AgentDismiss(j)
      PROVE  <<"dismiss", q, k>> \in ops \/ request'[q] \in Settled
  BY <1>3, <1>6, SaysType DEF AgentDismiss, Reports
<1>7. ASSUME NEW j \in Jobs, AgentComplete(j) \/ ReturnFailed(j)
      PROVE  <<"dismiss", q, k>> \in ops
  BY <1>2, <1>7 DEF AgentComplete, ReturnFailed
<1>8. ASSUME NEW j \in Jobs,
             \/ AgentClaim(j) \/ Heartbeat(j) \/ GoStale(j) \/ CloseJob(j)
             \/ AgentFail(j) \/ SuspectStale(j) \/ RecoverStale(j)
             \/ PendingReview(j) \/ WaitPlayerExit(j)
             \/ \E status : UpdateStatus(j, status)
      PROVE  UNCHANGED ops
  BY <1>8 DEF AgentClaim, Heartbeat, GoStale, CloseJob, AgentFail, SuspectStale,
     RecoverStale, PendingReview, WaitPlayerExit, UpdateStatus
<1>9. CASE UNCHANGED vars
  BY <1>1, <1>9 DEF vars
<1> QED
  BY <1>1, <1>2, <1>4, <1>5, <1>6, <1>7, <1>8, <1>9 DEF Next, PageComplete

(* What a claim and a return make of the task.                              *)
LEMMA ClaimedTask ==
    ASSUME TypeInv, NEW c \in Carers, NEW r \in Requests, Claim(c, r)
    PROVE  /\ task'[r].status = "in_progress"
           /\ task'[r].carer = c
           /\ task'[r].claimant = c
           /\ task'[r].claim = "running"
           /\ task'[r].deleted = task[r].deleted
           /\ \A q \in Requests \ {r} : task'[q] = task[q]
<1>1. \E j, started : task' = [task EXCEPT ![r] = ClaimedBy(@, c, j, started)]
  BY DEF Claim
<1>2. task \in [Requests -> TaskRow]
  BY DEF TypeInv, TypeOK
<1>3. PICK j, started : task' = [task EXCEPT ![r] = ClaimedBy(@, c, j, started)]
  BY <1>1
<1> QED
  BY <1>2, <1>3 DEF ClaimedBy, TaskRow

LEMMA ReturnedTask ==
    ASSUME TypeInv, NEW a, NEW r \in Requests, NEW k, Return(a, r, k)
    PROVE  /\ task'[r].status = "pending"
           /\ \A j \in Jobs : Active(j)' => job'[j].task # r
<1>1. task \in [Requests -> TaskRow] /\ job \in [Jobs -> JobRow]
  BY DEF TypeInv, TypeOK
<1>2. task'[r].status = "pending"
  BY <1>1 DEF Return, TaskOf
<1>3. ASSUME NEW j \in Jobs, Active(j)'
      PROVE  job'[j].task # r
  <2>1. job'[j] = IF j \in Unfinished(r) THEN Ended(job[j], "cancelled") ELSE job[j]
    BY DEF Return, JobsEnded
  <2>2. j \notin Unfinished(r)
    BY <1>1, <1>3, <2>1, EndedType DEF Active, JobStatuses
  <2> QED
    BY <1>3, <2>1, <2>2 DEF Active, Unfinished, JobsOf
<1> QED
  BY <1>2, <1>3

LEMMA SettledInit == Init => SettledInv
BY GameInit DEF Init, SettledInv, DismissalsOver, CompletedTaskSettled, TaskOf

LEMMA SettledStep == SettledInv /\ [Next]_vars => SettledInv'
<1> SUFFICES ASSUME SettledInv, [Next]_vars PROVE SettledInv'
  OBVIOUS
<1> USE DEF SettledInv
<1>1. GameInv' /\ TypeInv
  BY GameStep DEF GameInv
<1>2. DismissalsOver'
  BY <1>1, DismissalSteps, OverStays DEF DismissalsOver, Over
<1>3. CompletedTaskSettled'
  <2> SUFFICES ASSUME NEW r \in Requests, task'[r].status = "completed"
               PROVE  Over(r)'
    BY DEF CompletedTaskSettled, Over
  <2>1. CASE Over(r)
    BY <2>1, OverStays
  <2>2. CASE ~Over(r)
    <3>1. task[r].status # "completed"
      BY <2>2 DEF CompletedTaskSettled, Over
    <3>2. TaskStep(r)
      BY <1>1, TaskSteps
    <3>3. ~ \E c \in Carers : Claim(c, r)
      BY <1>1, ClaimedTask
    <3>4. ~ \E a \in Actors, k \in Keys \cup Jobs : Return(a, r, k)
      BY <1>1, ReturnedTask
    <3>5. \A j \in Jobs : <<"dismiss", r, j>> \notin ops
      BY <2>2 DEF DismissalsOver
    <3>6. task[r] \in TaskRow
      BY <1>1 DEF TypeInv, TypeOK
    <3>7. ASSUME NEW j \in Jobs
          PROVE  /\ Started(task[r], j).status = task[r].status
                 /\ Reviewed(task[r]).status = task[r].status
                 /\ Tombstoned(task[r]).status = task[r].status
      BY <3>6 DEF Started, Reviewed, Tombstoned, TaskRow
    <3>8. Tombstoned(task[r]).status = task[r].status
      BY <3>6 DEF Tombstoned, TaskRow
    <3>9. request'[r] \in Settled
      BY <3>1, <3>2, <3>3, <3>4, <3>5, <3>7, <3>8 DEF TaskStep, Settled
    <3> QED
      BY <3>9 DEF Over
  <2> QED
    BY <2>1, <2>2
<1> QED
  BY <1>1, <1>2, <1>3

(* Nobody leaves the coin of a player behind a task that no list shows any  *)
(* more: a completed task is that of a request which is settled, or whose   *)
(* player was told to wait (completeRechargeRedeemTaskInSql and the agent's *)
(* dismissals).                                                             *)
THEOREM CompletedTasksSettled == Spec => []CompletedTaskSettled
<1>1. SettledInv => CompletedTaskSettled
  BY DEF SettledInv
<1> QED
  BY <1>1, SettledInit, SettledStep, PTL DEF Spec

-----------------------------------------------------------------------------
(* Work on open requests *)

(* The task of q is free, or in progress with one carer, and an active job  *)
(* of it is the one the task names, claimed by that carer.                  *)
Worked(q) ==
    /\ task[q].status \in {"pending", "in_progress", "deleted"}
    /\ task[q].status = "in_progress" =>
         /\ task[q].claimant = task[q].carer
         /\ task[q].claim = "running"
         /\ ~task[q].deleted
    /\ \A i \in Jobs : Active(i) /\ job[i].task = q =>
         /\ task[q].status = "in_progress"
         /\ task[q].job = i
         /\ task[q].carer = job[i].carer
         /\ <<q, job[i].carer, i>> \in claims

OpenWorked == \A q \in Requests : Open(q) => Worked(q)

WorkInv == SettledInv /\ OpenWorked

LEMMA ClaimsStay ==
    ASSUME [Next]_vars, NEW q \in Requests,
           ~ \E c \in Carers : Claim(c, q),
           ~ \E a \in Actors, k \in Keys \cup Jobs : Return(a, q, k),
           TypeInv, NEW c, NEW i, <<q, c, i>> \in claims
    PROVE  <<q, c, i>> \in claims'
<1>1. ASSUME NEW r \in Requests, NEW d \in Carers, Claim(d, r)
      PROVE  <<q, c, i>> \in claims'
  <2>1. r # q
    BY <1>1
  <2> QED
    BY <1>1, <2>1 DEF Claim
<1>2. ASSUME NEW r \in Requests, NEW a \in Actors, NEW k \in Keys \cup Jobs, Return(a, r, k)
      PROVE  <<q, c, i>> \in claims'
  <2>1. r # q
    BY <1>2
  <2> QED
    BY <1>2, <2>1 DEF Return
<1>3. ASSUME NEW r \in Requests,
             \/ CreateRecharge(r) \/ CreateRedeem(r) \/ RetryRedeem(r)
             \/ \E k \in Keys : \/ Delete(r, k)
                                \/ Dismiss(r, k)
                                \/ \E a \in Actors : PageComplete(a, r, k)
      PROVE  UNCHANGED claims
  BY <1>3 DEF CreateRecharge, CreateRedeem, RetryRedeem, Delete, Dismiss, PageComplete
<1>4. ASSUME NEW j \in Jobs, ReturnFailed(j)
      PROVE  <<q, c, i>> \in claims'
  BY <1>2, <1>4 DEF ReturnFailed, TypeInv, JobsNamed, Actors
<1>5. ASSUME NEW j \in Jobs,
             \/ AgentClaim(j) \/ Heartbeat(j) \/ GoStale(j) \/ CloseJob(j)
             \/ AgentFail(j) \/ SuspectStale(j) \/ RecoverStale(j)
             \/ PendingReview(j) \/ WaitPlayerExit(j) \/ AgentDismiss(j)
             \/ AgentComplete(j) \/ \E status : UpdateStatus(j, status)
      PROVE  UNCHANGED claims
  BY <1>5 DEF AgentClaim, Heartbeat, GoStale, CloseJob, AgentFail, SuspectStale,
     RecoverStale, PendingReview, WaitPlayerExit, AgentDismiss, AgentComplete,
     UpdateStatus
<1>6. CASE UNCHANGED vars
  BY <1>6 DEF vars
<1> QED
  BY <1>1, <1>2, <1>3, <1>4, <1>5, <1>6 DEF Next

(* A carer's claim of the task of an open request that is worked on is      *)
(* refused, or answered without a step: when it succeeds no job of the task *)
(* is active, and a task in progress is the claiming carer's.               *)
LEMMA OpenClaim ==
    ASSUME TypeInv, NEW c \in Carers, NEW r \in Requests, Claim(c, r), Worked(r)
    PROVE  /\ \A i \in Jobs : job[i].task = r => ~Active(i)
           /\ task[r].status = "in_progress" => task[r].carer = c
<1> USE DEF Worked
<1>1. PICK j \in Jobs :
        /\ IF Reusable(c, r) # {} THEN j \in Reusable(c, r)
                                  ELSE job[j].status = "unused"
        /\ Claimable(c, r, j)
  BY ClaimEffect
<1>2. CASE task[r].status # "in_progress"
  BY <1>2
<1>3. CASE task[r].status = "in_progress"
  <2>1. task[r].carer = c
    <3> SUFFICES ASSUME task[r].carer # c PROVE FALSE
      OBVIOUS
    <3>1. MyJobs(c, r) = {}
      BY <1>3 DEF MyJobs, JobsOf
    <3>2. Fresh(MyJobs(c, r)) = {}
      BY <3>1 DEF Fresh
    <3> QED
      BY <1>1, <1>3, <3>2 DEF Claimable, Mine
  <2>2. ASSUME NEW i \in Jobs, job[i].task = r, Active(i)
        PROVE  FALSE
    <3>1. task[r].job = i /\ <<r, c, i>> \in claims
      BY <2>1, <2>2
    <3>2. i # None
      BY NameAssumption
    <3> QED
      BY <1>3, <2>2, <3>1, <3>2 DEF Claim, StillClaimed
  <2> QED
    BY <2>1, <2>2
<1> QED
  BY <1>2, <1>3

LEMMA OpenedBefore ==
    ASSUME GameInv, [Next]_vars, NEW q \in Requests, Open(q)'
    PROVE  \/ Open(q)
           \/ request[q] = "absent" /\ task'[q].status = "pending"
<1>1. ~Waited(q) /\ ~Overwritten(q)
  BY WaitedStays, OverwrittenStays DEF Open, GameInv
<1>2. request[q] # "waiting_player_exit"
  BY <1>1 DEF GameInv, WaitingWaited
<1> QED
  BY <1>1, <1>2, RequestSteps DEF Open, GameInv, RequestStep, Settled

(* A step that is no claim of the task of q and no update of the status of  *)
(* a job of it makes no job of q active.                                    *)
LEMMA ActiveBefore ==
    ASSUME TypeInv, [Next]_vars, NEW q \in Requests,
           ~ \E c \in Carers : Claim(c, q),
           NEW i \in Jobs, Active(i)', job'[i].task = q
    PROVE  /\ job[i].status # "unused" /\ job[i].task = q
           /\ job[i].carer = job'[i].carer
           /\ Active(i) \/ Overwritten(q)'
<1>1. JobStays(i)
  <2> SUFFICES ASSUME ~JobStays(i) PROVE FALSE
    OBVIOUS
  <2>1. PICK c \in Carers, r \in Requests : Claim(c, r)
    BY JobsStay
  <2>2. job'[i] = JobOf("queued", r, c)
    BY <2>1, ClaimEffect
  <2>3. r # q
    BY <2>1
  <2> QED
    BY <2>2, <2>3 DEF JobOf
<1> QED
  BY <1>1 DEF JobStays, Active, Overwritten

LEMMA WorkedStep ==
    ASSUME SettledInv, [Next]_vars, NEW q \in Requests, Open(q)', Open(q), Worked(q)
    PROVE  Worked(q)'
<1> USE DEF SettledInv, GameInv
<1>1. task \in [Requests -> TaskRow] /\ job \in [Jobs -> JobRow]
  BY DEF TypeInv, TypeOK
<1>2. ASSUME NEW c \in Carers, Claim(c, q)
      PROVE  Worked(q)'
  <2>1. \A i \in Jobs : job[i].task = q => ~Active(i)
    BY <1>2, OpenClaim
  <2>2. Reusable(c, q) = {}
    BY <2>1 DEF Reusable, Queued, Fresh, MyJobs, JobsOf
  <2>3. PICK j \in Jobs :
          /\ job[j].status = "unused"
          /\ task' = [task EXCEPT ![q] =
                        ClaimedBy(@, c, j, job[j].status = "running")]
          /\ claims' = {x \in claims : x[1] # q \/ x[2] # c} \cup {<<q, c, j>>}
          /\ job[j].status = "unused" => job'[j] = JobOf("queued", q, c)
          /\ \A i \in Jobs : i # j \/ job[i].status # "unused" => JobStays(i)
    BY <1>2, <2>2, ClaimEffect
  <2>4. /\ task'[q].status = "in_progress"
        /\ task'[q].carer = c
        /\ task'[q].claimant = c
        /\ task'[q].claim = "running"
        /\ ~task'[q].deleted
        /\ task'[q].job = j
    <3>1. ~task[q].deleted
      BY <1>2 DEF Claim, Live
    <3> QED
      BY <1>1, <2>3, <3>1 DEF ClaimedBy, TaskRow
  <2>5. ASSUME NEW i \in Jobs, Active(i)', job'[i].task = q
        PROVE  i = j
    <3> SUFFICES ASSUME i # j PROVE FALSE
      OBVIOUS
    <3>1. JobStays(i)
      BY <2>3
    <3>2. Active(i) /\ job[i].task = q
      BY <2>5, <3>1 DEF JobStays, Active, Open, Overwritten
    <3> QED
      BY <2>1, <3>2
  <2>6. job'[j].carer = c
    BY <2>3 DEF JobOf
  <2> QED
    BY <2>3, <2>4, <2>5, <2>6 DEF Worked
<1>3. ASSUME NEW a \in Actors, NEW k \in Keys \cup Jobs, Return(a, q, k)
      PROVE  Worked(q)'
  BY <1>3, ReturnedTask DEF Worked
<1>4. CASE /\ ~ \E c \in Carers : Claim(c, q)
           /\ ~ \E a \in Actors, k \in Keys \cup Jobs : Return(a, q, k)
  <2>1. ASSUME NEW i \in Jobs, Active(i)', job'[i].task = q
        PROVE  /\ Active(i)
               /\ job'[i].carer = job[i].carer
               /\ task[q].status = "in_progress"
               /\ task[q].job = i
               /\ task[q].carer = job[i].carer
               /\ <<q, job[i].carer, i>> \in claims'
    <3>1. Active(i) /\ job[i].task = q /\ job[i].carer = job'[i].carer
      BY <1>4, <2>1, ActiveBefore DEF Open
    <3> QED
      BY <1>4, <3>1, ClaimsStay DEF Worked
  <2>2. CASE task'[q] = task[q]
    BY <2>1, <2>2 DEF Worked
  <2>3. CASE task[q].status = "pending" /\ task'[q].status = "deleted"
    BY <2>1, <2>3 DEF Worked
  <2>4. ASSUME NEW j \in Jobs, Reporting(q, j), job[j].status = "queued",
               task'[q] = Started(task[q], j)
        PROVE  Worked(q)'
    <3>1. /\ task[q].status = "in_progress"
          /\ task[q].job = j
          /\ task[q].carer = job[j].carer
      BY <2>4 DEF Worked, Reporting, Active
    <3>2. /\ task'[q].status = "in_progress"
          /\ task'[q].carer = task[q].carer
          /\ task'[q].claimant = job[j].carer
          /\ task'[q].claim = "running"
          /\ task'[q].deleted = task[q].deleted
          /\ task'[q].job = j
      BY <1>1, <2>4, <3>1 DEF Started, TaskRow
    <3> QED
      BY <2>1, <3>1, <3>2 DEF Worked
  <2>5. CASE task'[q] = Reviewed(task[q])
    <3>1. /\ task'[q].status = task[q].status
          /\ task'[q].carer = task[q].carer
          /\ task'[q].claimant = task[q].claimant
          /\ task'[q].claim = task[q].claim
          /\ ~task'[q].deleted
          /\ task'[q].job = task[q].job
      BY <1>1, <2>5 DEF Reviewed, TaskRow
    <3> QED
      BY <2>1, <3>1 DEF Worked
  <2>6. request[q] = "pending" /\ request'[q] = "pending" /\ ~Over(q)
    BY DEF Open, Over, Settled
  <2>7. \A j \in Jobs : <<"dismiss", q, j>> \notin ops
    BY <2>6 DEF DismissalsOver
  <2>8. TaskStep(q)
    BY TaskSteps
  <2> QED
    BY <1>4, <2>2, <2>3, <2>4, <2>5, <2>6, <2>7, <2>8 DEF TaskStep, Settled
<1> QED
  BY <1>2, <1>3, <1>4

(* A request that is created has a free task and no jobs.                   *)
LEMMA WorkedCreated ==
    ASSUME SettledInv, [Next]_vars, NEW q \in Requests,
           request[q] = "absent", task'[q].status = "pending"
    PROVE  /\ Worked(q)'
           /\ \A i \in Jobs : job'[i].task = q => ~Active(i)'
<1> USE DEF SettledInv, GameInv
<1>1. task[q].status = "absent"
  BY DEF TasksRequested
<1>2. ~ \E c \in Carers : Claim(c, q)
  BY <1>1 DEF Claim, Live
<1>3. ASSUME NEW i \in Jobs, Active(i)', job'[i].task = q
      PROVE  FALSE
  BY <1>2, <1>3, ActiveBefore DEF TasksRequested
<1> QED
  BY <1>3 DEF Worked

LEMMA WorkInit == Init => WorkInv
BY SettledInit DEF Init, WorkInv, OpenWorked, Open

LEMMA WorkStep == WorkInv /\ [Next]_vars => WorkInv'
<1> SUFFICES ASSUME WorkInv, [Next]_vars PROVE WorkInv'
  OBVIOUS
<1>1. SettledInv'
  BY SettledStep DEF WorkInv
<1>2. OpenWorked'
  <2> SUFFICES ASSUME NEW q \in Requests, Open(q)' PROVE Worked(q)'
    BY DEF OpenWorked
  <2>1. Open(q) \/ (request[q] = "absent" /\ task'[q].status = "pending")
    BY OpenedBefore DEF WorkInv, SettledInv
  <2> QED
    BY <2>1, WorkedStep, WorkedCreated DEF WorkInv, OpenWorked
<1> QED
  BY <1>1, <1>2 DEF WorkInv

(* While a request is open, and no agent has overwritten the status of one  *)
(* of its jobs, its task has at most one active job, whatever carers claim  *)
(* and return and whatever comes late from their agents                     *)
(* (claimCarerTaskInSql, returnTaskToPendingInSql,                          *)
(* claimQueuedAutomationJobForAgent).                                       *)
THEOREM OneJobAlways == Spec => []OneJobWhileOpen
<1>1. WorkInv => OneJobWhileOpen
  <2> SUFFICES ASSUME WorkInv, NEW i \in Jobs, NEW j \in Jobs, Active(i), Active(j),
                      job[i].task = job[j].task, Open(job[i].task)
               PROVE  i = j
    BY DEF OneJobWhileOpen
  <2>1. job[i].task \in Requests
    BY DEF WorkInv, SettledInv, GameInv, TypeInv, JobsNamed, Active
  <2> QED
    BY <2>1 DEF WorkInv, OpenWorked, Worked
<1> QED
  BY <1>1, WorkInit, WorkStep, PTL DEF Spec

LEMMA CarerStays ==
    ASSUME WorkInv, [Next]_vars, NEW r \in Requests, Open(r),
           task[r].status = "in_progress", task'[r].status = "in_progress"
    PROVE  task'[r].carer = task[r].carer
<1> USE DEF WorkInv, SettledInv, GameInv
<1>1. task[r] \in TaskRow
  BY DEF TypeInv, TypeOK
<1>2. ASSUME NEW c \in Carers, Claim(c, r)
      PROVE  task'[r].carer = task[r].carer
  BY <1>2, OpenClaim, ClaimedTask DEF OpenWorked
<1>3. ~ \E a \in Actors, k \in Keys \cup Jobs : Return(a, r, k)
  BY ReturnedTask
<1>4. ASSUME NEW j
      PROVE  /\ Started(task[r], j).carer = task[r].carer
             /\ Reviewed(task[r]).carer = task[r].carer
             /\ Tombstoned(task[r]).carer = task[r].carer
  BY <1>1 DEF Started, Reviewed, Tombstoned, TaskRow
<1>5. Tombstoned(task[r]).carer = task[r].carer
  BY <1>4
<1>6. TaskStep(r)
  BY TaskSteps
<1> QED
  BY <1>2, <1>3, <1>4, <1>5, <1>6 DEF TaskStep

(* The task of an open request in progress changes its carer only by being  *)
(* returned first: no carer takes it from another that still has it         *)
(* (claimCarerTaskInTxn).                                                   *)
THEOREM OpenTasksNotStolen == Spec => NotStolen
<1>1. WorkInv /\ [Next]_vars
        => [\A r \in Requests :
              Open(r) /\ task[r].status = "in_progress" /\ task'[r].status = "in_progress"
                  => task'[r].carer = task[r].carer]_vars
  BY CarerStays
<1> QED
  BY <1>1, WorkInit, WorkStep, PTL DEF Spec, NotStolen
=============================================================================
