---------------------------- MODULE GameRequests ----------------------------
(***************************************************************************)
(* Recharge and redeem requests of players, the carer tasks linked to them *)
(* and the automation jobs that carry the tasks out, as                    *)
(* lib/sql/authorityGameRequests.ts, authorityCarerTasks.ts and            *)
(* authorityAgentJobs.ts keep them on PostgreSQL.                          *)
(*                                                                         *)
(* A recharge takes the player's coin when it is created and is delivered  *)
(* (completed) or refunded (dismissed); a redeem pays cash when it is      *)
(* completed. The work is done by an external agent: a carer's claim of    *)
(* the task queues a job, the agent picks the job up, works in the game,   *)
(* and reports. Reports come late, twice or never, while carers, staff,    *)
(* players and the recovery of silent jobs go on.                          *)
(*                                                                         *)
(* Every handler is one transaction on locked rows and so one action, but  *)
(* for the two reports that the code splits in two transactions: the       *)
(* agent's completion (settle, then close the job) and its failure (close  *)
(* the job, then return the task). A failed guard or a rollback is a       *)
(* stuttering step.                                                        *)
(***************************************************************************)
EXTENDS Integers, FiniteSets, Functions

CONSTANTS
    Players,
    Requests,      \* request ids; a task is named by its request
    Carers,        \* carers of the tenant, each with its own agent
    Admin,         \* an admin, who need not be the assigned carer
    Jobs,          \* the UUIDs drawn for automation jobs: bounds the claims
    Keys,          \* idempotency keys that pages send
    None,          \* SQL NULL
    KindOf,        \* Requests -> "recharge" or "redeem"
    PlayerOf,      \* Requests -> Players
    Amount,        \* Requests -> the amount asked for
    InitialCoin,   \* Players -> coin at the start
    Bases,         \* what a page may send as the base amount of a recharge
    MaxOverwrites, \* bounds the status updates to the jobs of one request
    BoxHolders,    \* actors with a row in user_balance_snapshots_cache
    SingleSession  \* requests of one game that allows a single session

ASSUME KindAssumption ==
    /\ IsFiniteSet(Requests)
    /\ KindOf \in [Requests -> {"recharge", "redeem"}]
    /\ PlayerOf \in [Requests -> Players]
    /\ Amount \in [Requests -> Nat \ {0}]
    /\ InitialCoin \in [Players -> Nat]
    /\ Bases \subseteq Nat \ {0}
    /\ MaxOverwrites \in Nat

ASSUME NameAssumption ==
    /\ Admin \notin Carers
    /\ None \notin Carers \cup Jobs \cup Requests \cup {Admin}
    /\ Jobs \cap Keys = {}

ASSUME SessionAssumption == SingleSession \subseteq Requests

VARIABLES
    coin, cash,  \* players_cache.coin and .cash
    box,         \* rewards in cash_box_npr, counted
    base,        \* base_amount of the requests, or amount where that is NULL
    request,     \* player_game_requests_cache.status
    task,        \* carer_tasks_cache, by request
    job,         \* automation_jobs_cache
    report,      \* what the agent has to say about each job
    claims,      \* task_claim keys with the job in their payload
    ops,         \* the other claimed operation keys
    events,      \* balance and financial events, counted by kind
    rewarded,    \* event keys of handler rewards
    later,       \* pairs of single-session tasks: the second has the greater updated_at
    waited,      \* history: requests of which a job said that the player is in the game
    overwrites   \* history: status updates to the jobs of each request, counted

money == <<coin, cash, box, base, events, rewarded>>
history == <<waited, overwrites>>
vars == <<coin, cash, box, base, request, task, job, report, claims, ops, events,
          rewarded, later, waited, overwrites>>

-----------------------------------------------------------------------------
(* Rows *)

Actors == Carers \cup {Admin}

RequestStatuses ==
    {"absent", "pending", "waiting_player_exit", "completed", "dismissed"}

Settled == {"completed", "dismissed"}

TaskStatuses == {"absent", "pending", "in_progress", "completed", "deleted"}

(* carer is assigned_carer_uid, claimant is claimed_by_uid, claim is        *)
(* claimed_status. idle: automation_status is one that lets others restart  *)
(* the task; error: automation_error is set; retry is retry_pending.        *)
TaskRow ==
    [status : TaskStatuses, deleted : BOOLEAN,
     carer : Carers \cup {None}, claimant : Carers \cup {None},
     claim : {"none", "running", "completed"},
     idle : BOOLEAN, error : BOOLEAN, job : Jobs \cup {None}, retry : BOOLEAN]

JobStatuses ==
    {"unused", "queued", "running", "pending_review",
     "failed", "cancelled", "completed"}

(* fresh: the job gave a sign of life within the stale timeout. suspect: a  *)
(* recovery under way has read it as running without one.                   *)
JobRow ==
    [status : JobStatuses, task : Requests \cup {None},
     carer : Carers \cup {None}, fresh : BOOLEAN, suspect : BOOLEAN]

Reports == {"none", "working", "complete", "fail", "review", "dismiss", "wait"}

EventKinds == {"debit", "refund", "deposit", "credit"}

OpKeys ==
    {"complete", "dismiss", "return", "delete"} \X Requests \X (Keys \cup Jobs)

TaskOf(status) ==
    [status |-> status, deleted |-> FALSE, carer |-> None, claimant |-> None,
     claim |-> "none", idle |-> FALSE, error |-> FALSE, job |-> None,
     retry |-> FALSE]

JobOf(status, r, c) ==
    [status |-> status, task |-> r, carer |-> c, fresh |-> TRUE, suspect |-> FALSE]

Init ==
    /\ coin = InitialCoin
    /\ cash = [p \in Players |-> 0]
    /\ box = [a \in Actors |-> 0]
    /\ base = Amount
    /\ request = [r \in Requests |-> "absent"]
    /\ task = [r \in Requests |-> TaskOf("absent")]
    /\ job = [j \in Jobs |-> JobOf("unused", None, None)]
    /\ report = [j \in Jobs |-> "none"]
    /\ claims = {}
    /\ ops = {}
    /\ events = [r \in Requests |-> [e \in EventKinds |-> 0]]
    /\ rewarded = {}
    /\ later = {}
    /\ waited = {}
    /\ overwrites = [r \in Requests |-> 0]

Counted(r, e) == [events EXCEPT ![r][e] = @ + 1]

Live(r) == task[r].status # "absent" /\ ~task[r].deleted

JobsOf(r) == {j \in Jobs : job[j].task = r}

(* ACTIVE_JOB_STATUSES, of which only these two are ever stored.            *)
Active(j) == job[j].status \in {"queued", "running"}

(* A job that ends, or is told to: its status, and its timestamps are now.  *)
Ended(row, status) == [row EXCEPT !.status = status, !.fresh = TRUE]

JobsEnded(S, status) ==
    [j \in Jobs |-> IF j \in S THEN Ended(job[j], status) ELSE job[j]]

(* The row of task r is written: of the tasks in progress it is the one     *)
(* updated last. Recorded where a task may be in progress afterwards.       *)
Touched(r) ==
    IF r \in SingleSession
    THEN {x \in later : x[1] # r} \cup ((SingleSession \ {r}) \X {r})
    ELSE later

-----------------------------------------------------------------------------
(* Creation *)

(* createRechargeRequestInSql: request, task, coin and debit event in one   *)
(* transaction with the player row locked. It debits the amount, and stores *)
(* as the base what the page sent, the amount of a first recharge, or NULL. *)
CreateRecharge(r) ==
    LET p == PlayerOf[r] IN
    /\ KindOf[r] = "recharge"
    /\ request[r] = "absent"
    /\ coin[p] >= Amount[r]
    /\ coin' = [coin EXCEPT ![p] = @ - Amount[r]]
    /\ \E b \in {Amount[r]} \cup Bases : base' = [base EXCEPT ![r] = b]
    /\ request' = [request EXCEPT ![r] = "pending"]
    /\ task' = [task EXCEPT ![r] = TaskOf("pending")]
    /\ events' = Counted(r, "debit")
    /\ UNCHANGED <<cash, box, job, report, claims, ops, rewarded, later, history>>

(* createRedeemRequestInSql: nothing is paid yet.                           *)
CreateRedeem(r) ==
    /\ KindOf[r] = "redeem"
    /\ request[r] = "absent"
    /\ request' = [request EXCEPT ![r] = "pending"]
    /\ task' = [task EXCEPT ![r] = TaskOf("pending")]
    /\ UNCHANGED <<money, job, report, claims, ops, later, history>>

-----------------------------------------------------------------------------
(* Claiming a task *)

(* The carer's other tasks in progress in the single-session game of r.     *)
Sessions(c, r) ==
    {o \in SingleSession \ {r} : /\ r \in SingleSession
                                 /\ Live(o)
                                 /\ task[o].status = "in_progress"
                                 /\ c \in {task[o].carer, task[o].claimant}}

(* assertSingleSessionGameAvailableInTxn: of these the one updated last has *)
(* a job that is no longer active.                                          *)
LastOf(S) == {o \in S : \A x \in S \ {o} : <<x, o>> \in later}

SessionFree(c, r) ==
    \A o \in LastOf(Sessions(c, r)) :
        task[o].job # None /\ ~Active(task[o].job)

(* claimCarerTaskInSql answers a repeated claim without doing anything when *)
(* the task still runs the job of the first.                                *)
StillClaimed(c, r) ==
    /\ task[r].status = "in_progress"
    /\ task[r].job # None
    /\ <<r, c, task[r].job>> \in claims
    /\ Active(task[r].job)

MyJobs(c, r) == {j \in JobsOf(r) : Active(j) /\ job[j].carer = c}
TheirJobs(c, r) == {j \in JobsOf(r) : Active(j) /\ job[j].carer # c}
Fresh(S) == {j \in S : job[j].fresh}
Queued(S) == {j \in S : job[j].status = "queued"}

Mine(c, r) == c \in {task[r].carer, task[r].claimant}

(* Whether a task that is not pending may be claimed: by its carer, by a    *)
(* carer with a fresh job for it, or by anybody when it looks restartable;  *)
(* a claim marked running yields only to a fresh queued job. (Mutant: the   *)
(* task of a silent job is anybody's.)                                      *)
ClaimableWhenSilent(c, r, j) ==
    \/ task[r].status = "pending"
    \/ Mine(c, r)
    \/ j \in Fresh(MyJobs(c, r))
    \/ Fresh(MyJobs(c, r)) = {}

Claimable(c, r, j) ==
    \/ task[r].status = "pending"
    \/ Mine(c, r)
    \/ /\ j \in Fresh(MyJobs(c, r))
       /\ task[r].claim = "running" => job[j].status = "queued"
    \/ /\ Fresh(MyJobs(c, r)) = {}
       /\ task[r].claim # "running"
       /\ task[r].idle \/ task[r].error

(* The jobs a claim may take over instead of queueing a new one.            *)
Reusable(c, r) ==
    LET queued == Queued(MyJobs(c, r))
        fresh  == Fresh(MyJobs(c, r))
    IN IF task[r].status = "pending"
       THEN IF Fresh(queued) # {} THEN Fresh(queued) ELSE queued
       ELSE IF fresh # {} THEN fresh ELSE queued

(* A queued job is not taken over while the task waits for its retry: the   *)
(* transaction cancels it, finds it has no job to return, and rolls back.   *)
RetryBlocks(c, r) ==
    /\ task[r].retry
    /\ Reusable(c, r) # {}
    /\ task[r].status = "pending" \/ Fresh(MyJobs(c, r)) = {}

ClaimedBy(row, c, j, started) ==
    [row EXCEPT !.status = "in_progress", !.carer = c, !.claimant = c,
                !.claim = "running", !.idle = ~started, !.error = FALSE,
                !.job = j, !.retry = FALSE]

(* claimCarerTaskInSql and claimCarerTaskInTxn, from the carer's page, its  *)
(* automatic tick, or after the creation of a request.                      *)
Claim(c, r) ==
    /\ Live(r)
    /\ ~StillClaimed(c, r)
    /\ Fresh(TheirJobs(c, r)) = {}
    /\ SessionFree(c, r)
    /\ ~RetryBlocks(c, r)
    /\ \E j \in Jobs :
         LET superseded == IF /\ task[r].status = "pending"
                              /\ Fresh(MyJobs(c, r)) = {}
                           THEN TheirJobs(c, r) ELSE {}
             kept == JobsEnded(superseded, "cancelled")
         IN /\ IF Reusable(c, r) # {} THEN j \in Reusable(c, r)
                                      ELSE job[j].status = "unused"
            /\ Claimable(c, r, j)
            /\ task' = [task EXCEPT ![r] =
                          ClaimedBy(@, c, j, job[j].status = "running")]
            /\ job' = IF job[j].status = "unused"
                      THEN [kept EXCEPT ![j] = JobOf("queued", r, c)]
                      ELSE kept
            /\ claims' = {x \in claims : x[1] # r \/ x[2] # c} \cup {<<r, c, j>>}
    /\ later' = Touched(r)
    /\ UNCHANGED <<money, request, report, ops, history>>

-----------------------------------------------------------------------------
(* Returning and deleting a task *)

(* taskNeedsReturnReapply *)
NeedsReturn(r) ==
    \/ task[r].status # "pending"
    \/ task[r].carer # None
    \/ task[r].claimant # None
    \/ task[r].job # None
    \/ task[r].claim = "running"

(* A carer returns only what is assigned to it, or claimed by it when       *)
(* nobody is assigned.                                                      *)
MayReturn(a, r) ==
    a \in Carers =>
        (IF task[r].carer # None THEN task[r].carer ELSE task[r].claimant)
            \in {None, a}

(* Every job of the task that is not final goes with it.                    *)
Unfinished(r) ==
    {j \in JobsOf(r) : job[j].status \in {"queued", "running", "pending_review"}}

(* returnTaskToPendingInSql: RESETTABLE_TASK_STATUSES,                      *)
(* RESETTABLE_REQUEST_STATUSES, and the claim keys of the task are deleted. *)
Return(a, r, k) ==
    /\ Live(r)
    /\ <<"return", r, k>> \in ops => NeedsReturn(r)
    /\ task[r].status \in {"pending", "in_progress"}
    /\ MayReturn(a, r)
    /\ request[r] = "pending"
    /\ job' = JobsEnded(Unfinished(r), "cancelled")
    /\ task' = [task EXCEPT ![r] = [TaskOf("pending") EXCEPT !.retry = TRUE]]
    /\ claims' = {x \in claims : x[1] # r}
    /\ ops' = ops \cup {<<"return", r, k>>}
    /\ UNCHANGED <<money, request, report, later, history>>

(* deletePendingTaskInSql: the request is left as it is. A second key finds *)
(* the tombstone and is only recorded.                                      *)
Delete(r, k) ==
    /\ <<"delete", r, k>> \notin ops
    /\ task[r].status # "absent"
    /\ ops' = ops \cup {<<"delete", r, k>>}
    /\ \/ /\ task[r].deleted
          /\ UNCHANGED <<task, job>>
       \/ /\ Live(r)
          /\ task[r].status = "pending"
          /\ job' = JobsEnded({j \in JobsOf(r) : Active(j)}, "cancelled")
          /\ task' = [task EXCEPT ![r] =
                        [TaskOf("deleted") EXCEPT !.deleted = TRUE,
                                              !.retry = task[r].retry]]
    /\ UNCHANGED <<money, request, report, claims, later, history>>

-----------------------------------------------------------------------------
(* Settling a request *)

(* updateCarerTaskCompletedInTxn *)
TaskCompleted(row) ==
    [row EXCEPT !.status = "completed", !.claim = "completed", !.idle = FALSE]

(* The handler's reward: the cash box is credited every time, the event     *)
(* once per task and handler.                                               *)
Reward(a, r) ==
    IF a \in BoxHolders
    THEN /\ box' = [box EXCEPT ![a] = @ + 1]
         /\ rewarded' = rewarded \cup {<<r, a>>}
    ELSE UNCHANGED <<box, rewarded>>

(* What completion does once the operation key is claimed: nothing for a    *)
(* completed task, only the task for a completed request, else it settles.  *)
(* (Mutant: the request's status is not looked at.)                         *)
SettleUnchecked(a, r) ==
    LET p == PlayerOf[r] IN
    /\ request' = [request EXCEPT ![r] = "completed"]
    /\ task' = [task EXCEPT ![r] = TaskCompleted(@)]
    /\ Reward(a, r)
    /\ IF KindOf[r] = "redeem"
       THEN /\ cash' = [cash EXCEPT ![p] = @ + Amount[r]]
            /\ events' = Counted(r, "credit")
       ELSE /\ events' = Counted(r, "deposit")
            /\ UNCHANGED cash
    /\ UNCHANGED <<coin, base>>

Settle(a, r) ==
    LET p == PlayerOf[r] IN
    /\ request[r] = "pending"
    /\ request' = [request EXCEPT ![r] = "completed"]
    /\ task' = [task EXCEPT ![r] = TaskCompleted(@)]
    /\ Reward(a, r)
    /\ IF KindOf[r] = "redeem"
       THEN /\ cash' = [cash EXCEPT ![p] = @ + Amount[r]]
            /\ events' = Counted(r, "credit")
       ELSE /\ events' = Counted(r, "deposit")
            /\ UNCHANGED cash
    /\ UNCHANGED <<coin, base>>

(* completeRechargeRedeemTaskInSql. The task has to be in progress, and     *)
(* only its carer or an admin may complete it.                              *)
Complete(a, r, k) ==
    /\ <<"complete", r, k>> \notin ops
    /\ Live(r)
    /\ ops' = ops \cup {<<"complete", r, k>>}
    /\ \/ /\ task[r].status = "completed"
          /\ UNCHANGED <<money, request, task>>
       \/ /\ task[r].status = "in_progress"
          /\ a = Admin \/ task[r].carer \in {None, a}
          /\ \/ /\ request[r] = "completed"
                /\ task' = [task EXCEPT ![r] = TaskCompleted(@)]
                /\ UNCHANGED <<money, request>>
             \/ Settle(a, r)

(* The same from a page, with a key the page chose.                         *)
PageComplete(a, r, k) ==
    /\ Complete(a, r, k)
    /\ UNCHANGED <<job, report, claims, later, history>>

(* tombstoneLinkedCarerTaskInTxn leaves the row as it is but for deleted_at. *)
Tombstoned(row) == IF row.status = "absent" THEN row ELSE [row EXCEPT !.deleted = TRUE]

(* What a dismissal does to the request and to the money: of a recharge the *)
(* base is given back, whatever was taken; a redeem has taken nothing.      *)
(* (Mutant: the player gets back what was taken, and the event tells of the *)
(* base.)                                                                   *)
DismissedAmount(r) ==
    LET p == PlayerOf[r] IN
    /\ request' = [request EXCEPT ![r] = "dismissed"]
    /\ IF KindOf[r] = "recharge"
       THEN /\ coin' = [coin EXCEPT ![p] = @ + Amount[r]]
            /\ events' = Counted(r, "refund")
       ELSE UNCHANGED <<coin, events>>
    /\ UNCHANGED <<cash, box, base, rewarded>>

Dismissed(r) ==
    LET p == PlayerOf[r] IN
    /\ request' = [request EXCEPT ![r] = "dismissed"]
    /\ IF KindOf[r] = "recharge"
       THEN /\ coin' = [coin EXCEPT ![p] = @ + base[r]]
            /\ events' = Counted(r, "refund")
       ELSE UNCHANGED <<coin, events>>
    /\ UNCHANGED <<cash, box, base, rewarded>>

(* dismissRechargeRequestInSql and dismissRedeemRequestInSql after the key  *)
(* is claimed. A settled recharge, or a dismissed redeem, is left alone.    *)
(* (Mutant: a delivered recharge can still be dismissed.)                   *)
DismissUndismissed(r) ==
    \/ request[r] \in {"pending", "completed"} /\ Dismissed(r)
    \/ request[r] = "dismissed" /\ UNCHANGED <<money, request>>

DismissRequest(r) ==
    \/ request[r] = "pending" /\ Dismissed(r)
    \/ /\ request[r] \in IF KindOf[r] = "recharge" THEN Settled ELSE {"dismissed"}
       /\ UNCHANGED <<money, request>>

(* The same called by a page: the task is tombstoned, its jobs go on.       *)
Dismiss(r, k) ==
    /\ <<"dismiss", r, k>> \notin ops
    /\ DismissRequest(r)
    /\ ops' = ops \cup {<<"dismiss", r, k>>}
    /\ task' = [task EXCEPT ![r] = Tombstoned(@)]
    /\ UNCHANGED <<job, report, claims, later, history>>

-----------------------------------------------------------------------------
(* The agent *)

(* claimQueuedAutomationJobForAgent: the job starts, and the task becomes   *)
(* the carer's whatever its status is.                                      *)
Started(row, j) ==
    [row EXCEPT !.claim = "running", !.claimant = job[j].carer,
                !.idle = FALSE, !.error = FALSE, !.job = j]

AgentClaim(j) ==
    LET r == job[j].task IN
    /\ job[j].status = "queued"
    /\ \A x \in MyJobs(job[j].carer, r) : job[x].status # "running"
    /\ IF Live(r)
       THEN /\ job' = [job EXCEPT ![j].status = "running", ![j].fresh = TRUE]
            /\ task' = [task EXCEPT ![r] = Started(@, j)]
            /\ report' = [report EXCEPT ![j] = "working"]
            /\ later' = Touched(r)
       ELSE /\ job' = JobsEnded({j}, "cancelled")
            /\ UNCHANGED <<task, report, later>>
    /\ UNCHANGED <<money, request, claims, ops, history>>

(* heartbeatAutomationJobForAgent, which does not look at the status of the *)
(* job: job and task are updated now.                                       *)
Heartbeat(j) ==
    /\ report[j] = "working"
    /\ job' = [job EXCEPT ![j].fresh = TRUE]
    /\ later' = IF Live(job[j].task) THEN Touched(job[j].task) ELSE later
    /\ UNCHANGED <<money, request, task, report, claims, ops, history>>

(* The stale timeout passes without a sign of the job.                      *)
GoStale(j) ==
    /\ Active(j)
    /\ job[j].fresh
    /\ job' = [job EXCEPT ![j].fresh = FALSE]
    /\ UNCHANGED <<money, request, task, report, claims, ops, later, history>>

(* The agent decides once what to report about a job; it may report it      *)
(* again when an answer is lost.                                            *)
Says(j, verdict) ==
    /\ report[j] \in {"working", verdict}
    /\ report' = [report EXCEPT ![j] = verdict]

(* agentCompleteRechargeRedeemJob, first transaction: the completion, as    *)
(* the job's carer, with a key of the job.                                  *)
AgentComplete(j) ==
    /\ Says(j, "complete")
    /\ Complete(job[j].carer, job[j].task, j)
    /\ UNCHANGED <<job, claims, later, history>>

(* Second transaction, also when the first answers that it is a duplicate.  *)
CloseJob(j) ==
    /\ report[j] = "complete"
    /\ job[j].status # "completed"
    /\ job' = JobsEnded({j}, "completed")
    /\ UNCHANGED <<money, request, task, report, claims, ops, later, history>>

(* agentFailJobReturnPending, first transaction, for the agent's report.    *)
Failable(j) == job[j].status \notin {"completed", "cancelled", "failed"}

AgentFail(j) ==
    /\ Says(j, "fail")
    /\ Failable(j)
    /\ job' = JobsEnded({j}, "failed")
    /\ UNCHANGED <<money, request, task, claims, ops, later, history>>

(* agentRecoverStaleJobs reads the running jobs without a sign of life and  *)
(* fails them one after the other, without looking at the sign of life      *)
(* again.                                                                   *)
SuspectStale(j) ==
    /\ job[j].status = "running"
    /\ ~job[j].fresh
    /\ ~job[j].suspect
    /\ job' = [job EXCEPT ![j].suspect = TRUE]
    /\ UNCHANGED <<money, request, task, report, claims, ops, later, history>>

RecoverStale(j) ==
    /\ job[j].suspect
    /\ Failable(j)
    /\ job' = [job EXCEPT ![j] = [Ended(@, "failed") EXCEPT !.suspect = FALSE]]
    /\ UNCHANGED <<money, request, task, report, claims, ops, later, history>>

(* Second transaction; a repeated report gets here as well.                 *)
ReturnFailed(j) ==
    /\ job[j].status = "failed"
    /\ Return(job[j].carer, job[j].task, j)

(* agentMarkJobPendingReview: whatever the job's status is; the task is     *)
(* brought back if it was tombstoned.                                       *)
Reviewed(row) == [row EXCEPT !.idle = TRUE, !.error = TRUE, !.deleted = FALSE]

PendingReview(j) ==
    /\ Says(j, "review")
    /\ job' = JobsEnded({j}, "pending_review")
    /\ task' = [task EXCEPT ![job[j].task] = Reviewed(@)]
    /\ later' = Touched(job[j].task)
    /\ UNCHANGED <<money, request, claims, ops, history>>

(* agentDismissMidnightPartyBlockedRecharge, agentDismissPlayerInGame and   *)
(* agentDismissFakeRedeem: dismissal without tombstone, job and task closed.*)
(* (Mutants: the task gets the status of the request; only the request of a *)
(* task in progress is dismissed.)                                          *)
DismissedTaskAsRequest(row) ==
    [row EXCEPT !.status = "dismissed", !.claim = "completed", !.idle = FALSE,
                !.error = TRUE, !.retry = FALSE, !.deleted = FALSE]

DismissedTask(row) ==
    [row EXCEPT !.status = "completed", !.claim = "completed", !.idle = FALSE,
                !.error = TRUE, !.retry = FALSE, !.deleted = FALSE]

AgentDismissInProgress(j) ==
    LET r  == job[j].task
        op == <<"dismiss", r, j>>
    IN /\ Says(j, "dismiss")
       /\ IF op \in ops \/ task[r].status # "in_progress"
          THEN UNCHANGED <<money, request>> ELSE DismissRequest(r)
       /\ ops' = ops \cup {op}
       /\ job' = JobsEnded({j}, "completed")
       /\ task' = [task EXCEPT ![r] = DismissedTask(@)]
       /\ UNCHANGED <<claims, later, history>>

AgentDismiss(j) ==
    LET r  == job[j].task
        op == <<"dismiss", r, j>>
    IN /\ Says(j, "dismiss")
       /\ IF op \in ops THEN UNCHANGED <<money, request>> ELSE DismissRequest(r)
       /\ ops' = ops \cup {op}
       /\ job' = JobsEnded({j}, "completed")
       /\ task' = [task EXCEPT ![r] = DismissedTask(@)]
       /\ UNCHANGED <<claims, later, history>>

(* agentMarkRedeemWaitingPlayerExit: neither the request's nor the job's    *)
(* status is looked at. The assigned carer stays.                           *)
WaitingTask(row) ==
    [row EXCEPT !.status = "pending", !.claim = "none", !.claimant = None,
                !.idle = FALSE, !.error = TRUE, !.job = None,
                !.retry = TRUE, !.deleted = FALSE]

WaitPlayerExit(j) ==
    LET r == job[j].task IN
    /\ Says(j, "wait")
    /\ KindOf[r] = "redeem"
    /\ request' = [request EXCEPT ![r] = "waiting_player_exit"]
    /\ job' = JobsEnded({j}, "completed")
    /\ task' = [task EXCEPT ![r] = WaitingTask(@)]
    /\ waited' = waited \cup {r}
    /\ UNCHANGED <<money, claims, ops, later, overwrites>>

(* agentUpdateJobStatus: an agent writes a status of its choice to a job,   *)
(* whosever it is and whatever its status; nothing else is written.         *)
UpdateStatus(j, status) ==
    LET r == job[j].task IN
    /\ job[j].status # "unused"
    /\ overwrites[r] < MaxOverwrites
    /\ job' = JobsEnded({j}, status)
    /\ overwrites' = [overwrites EXCEPT ![r] = @ + 1]
    /\ UNCHANGED <<money, request, task, report, claims, ops, later, waited>>

(* The player's button, redeem-ready-for-retry/route.ts.                    *)
RetryRedeem(r) ==
    /\ request[r] = "waiting_player_exit"
    /\ request' = [request EXCEPT ![r] = "pending"]
    /\ task' = [task EXCEPT ![r] = [WaitingTask(@) EXCEPT !.error = FALSE]]
    /\ job' = JobsEnded({j \in JobsOf(r) : Active(j)}, "cancelled")
    /\ UNCHANGED <<money, report, claims, ops, later, history>>

-----------------------------------------------------------------------------
Next ==
    \/ \E r \in Requests :
         \/ CreateRecharge(r)
         \/ CreateRedeem(r)
         \/ RetryRedeem(r)
         \/ \E c \in Carers : Claim(c, r)
         \/ \E k \in Keys :
              \/ Delete(r, k)
              \/ Dismiss(r, k)
              \/ \E a \in Actors : Return(a, r, k)
              \/ \E a \in Actors : PageComplete(a, r, k)
    \/ \E j \in Jobs :
         \/ AgentClaim(j)
         \/ Heartbeat(j)
         \/ GoStale(j)
         \/ AgentComplete(j)
         \/ CloseJob(j)
         \/ AgentFail(j)
         \/ SuspectStale(j)
         \/ RecoverStale(j)
         \/ ReturnFailed(j)
         \/ PendingReview(j)
         \/ AgentDismiss(j)
         \/ WaitPlayerExit(j)
         \/ \E status \in JobStatuses \ {"unused"} : UpdateStatus(j, status)

Spec == Init /\ [][Next]_vars

-----------------------------------------------------------------------------
TypeOK ==
    /\ coin \in [Players -> Nat]
    /\ cash \in [Players -> Nat]
    /\ box \in [Actors -> Nat]
    /\ base \in [Requests -> Nat]
    /\ request \in [Requests -> RequestStatuses]
    /\ task \in [Requests -> TaskRow]
    /\ job \in [Jobs -> JobRow]
    /\ report \in [Jobs -> Reports]
    /\ claims \subseteq Requests \X Carers \X Jobs
    /\ ops \subseteq OpKeys
    /\ events \in [Requests -> [EventKinds -> Nat]]
    /\ rewarded \subseteq Requests \X Actors
    /\ later \subseteq SingleSession \X SingleSession
    /\ waited \subseteq Requests
    /\ overwrites \in [Requests -> Nat]

(* A job of the request reported that the player is still in the game. Such *)
(* a report reopens a request whatever its status, see SettledForGood.      *)
Waited(r) == r \in waited

(* The status of a job of the request was overwritten by update_status.     *)
Overwritten(r) == overwrites[r] > 0

(* A recharge takes the coin once, and gives it back or delivers it, once   *)
(* and never both, however often carers, staff, players and late agents     *)
(* complete and dismiss it with keys of their own.                          *)
RechargeSettledOnce ==
    \A r \in Requests : KindOf[r] = "recharge" =>
        /\ events[r]["debit"] = IF request[r] = "absent" THEN 0 ELSE 1
        /\ events[r]["refund"] = IF request[r] = "dismissed" THEN 1 ELSE 0
        /\ events[r]["deposit"] = IF request[r] = "completed" THEN 1 ELSE 0

(* A redeem pays once, and only when it is completed, as long as no job     *)
(* reported that it has to wait.                                            *)
RedeemPaidOnce ==
    \A r \in Requests : KindOf[r] = "redeem" /\ ~Waited(r) =>
        events[r]["credit"] = IF request[r] = "completed" THEN 1 ELSE 0

(* What the events e of request r, whose base is b, tell of player p's coin *)
(* and cash: a debit event carries the amount, a refund event the base.     *)
CoinTold(e, b, r, p) ==
    IF PlayerOf[r] = p THEN e["refund"] * b - e["debit"] * Amount[r] ELSE 0
CashTold(e, r, p) == IF PlayerOf[r] = p THEN e["credit"] * Amount[r] ELSE 0

(* Coin and cash of a player are what the events of the requests tell, also *)
(* when a dismissed recharge gives back another base than it debited.       *)
BalancesTold ==
    \A p \in Players :
        /\ coin[p] = InitialCoin[p]
             + SumFunctionOnSet(
                   [r \in Requests |-> CoinTold(events[r], base[r], r, p)], Requests)
        /\ cash[p] =
               SumFunctionOnSet([r \in Requests |-> CashTold(events[r], r, p)], Requests)

(* The cash box of a handler holds one reward per completed task, although  *)
(* the box is credited without asking whether the event was new.            *)
RewardedOnce ==
    (\A r \in Requests : ~Waited(r)) =>
        \A a \in Actors : box[a] = Cardinality({x \in rewarded : x[2] = a})

(* A task that is completed has a settled request: nobody leaves the coin   *)
(* of a player behind a task that no list shows any more.                   *)
CompletedTaskSettled ==
    \A r \in Requests :
        task[r].status = "completed" /\ ~Waited(r) => request[r] \in Settled

(* An open request: pending, nobody was told to wait for the player, and no *)
(* agent overwrote the status of a job of it. A late report about a settled *)
(* or a waiting request may do more than the properties below allow: it may *)
(* complete, reopen or free the task while another carer works on it; and   *)
(* an update_status may set an ended job going again beside a new one, or   *)
(* end one at work.                                                         *)
Open(r) == request[r] = "pending" /\ ~Waited(r) /\ ~Overwritten(r)

(* The task of an open request that is in progress changes its carer only   *)
(* by being returned first.                                                 *)
NotStolen ==
    [][\A r \in Requests :
        Open(r) /\ task[r].status = "in_progress" /\ task'[r].status = "in_progress"
            => task'[r].carer = task[r].carer]_vars

(* While a request is open at most one job of its task is active, so that   *)
(* no two agents load or take the same coins: the jobs before were          *)
(* cancelled or returned, or they still block the claim.                    *)
OneJobWhileOpen ==
    \A i, j \in Jobs :
        (Active(i) /\ Active(j) /\ job[i].task = job[j].task /\ Open(job[i].task))
            => i = j

(* A settled recharge stays as it is, whatever late agents report.          *)
RechargesSettledForGood ==
    [][\A r \in Requests :
        KindOf[r] = "recharge" /\ request[r] \in Settled => request'[r] = request[r]]_vars

(* A settled request stays as it is. Of redeems,                            *)
(* scripts/test-authority-game-requests.cjs:135 expects it                  *)
(* ("complete_blocked_after_terminal") and the code does not keep it: a     *)
(* late report that the player is in the game reopens a paid redeem.        *)
SettledForGood ==
    [][\A r \in Requests : request[r] \in Settled => request'[r] = request[r]]_vars

(* scripts/test-automation-auto-claim-loop.cjs:199: "Multiple carers cannot *)
(* process the same task".                                                  *)
OneCarerPerTask ==
    \A i, j \in Jobs :
        (/\ job[i].status = "running"
         /\ job[j].status = "running"
         /\ job[i].task = job[j].task) => job[i].carer = job[j].carer
=============================================================================
