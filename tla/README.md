# AppBeg in TLA+

AppBeg is a Next.js application over PostgreSQL that runs the tills of game
rooms: players hold *coin* and *cash*, turn one into the other, ask for recharges
and redeems of game accounts, and cash out; staff, carers, co-admins, Telegram
operators and automation agents work through the queues of requests. This
directory holds its TLA+ specifications, the TLC configurations that check them,
and proofs that TLAPS checks. Paths are relative to the repository (`src/` in the
map of `PROJECT.json`).

## Inventory

Every balance-changing handler is a function of `lib/sql/authority*.ts` that runs
one PostgreSQL transaction through the pool of `lib/sql/playerMirrorCommon.ts`.
The routes under `app/api` authenticate, work out the caller's role and tenant
(co-admin), and call it. Firestore, which these tables once mirrored, is off when
`AUTHORITY_SQL_WRITE=1`; rows imported from it remain.

| Component | State and operations | What makes it hard / correct | Module |
|---|---|---|---|
| Player cash-outs (`authorityCashout.ts`) | cash, cash box, `player_cashout_tasks_cache`: create, start (staff, co-admin, Telegram), release, polling timeout, complete, decline | retries and races around claims; one payout or one refund; ledger and balances, fractions apart; the 24-hour limit | `PlayerCashout` |
| Ledger and operation keys (`authorityLedger.ts`) | `user_balance_events`, `authority_operations`: insert on conflict do nothing, delete by prefix | exactly-once effects; keys that outlive what they guarded | in every money module |
| Connection pool (`playerMirrorCommon.ts`) | a few connections, connect timeout 5 s, statement timeout 15 s, idle timeout 30 s | nested acquisition; a connection given back inside a transaction; crossing lock orders | `ConnectionPool` |
| Transfers, corrections (`authorityTransfer.ts`, `authorityTransferRequest.ts`, `authorityRewardCoins.ts`) | purses, financial events, requests: coin to cash, cash to coin, approve, reward, adjust | fees, cooldowns, daily limits under retries; fractions against the ledger | `Wallet` |
| Game requests (`authorityGameRequests.ts`) | `player_game_requests_cache`, coin, cash: create recharge or redeem, complete, dismiss, retry | refund or payment at most once whoever completes | `GameRequests`; limit, match and bonus not |
| Carer tasks (`authorityCarerTasks.ts`) | `carer_tasks_cache`: claim, return, delete, complete | claim keys deleted on return; late completions | `GameRequests`; username and password tasks not |
| Automation jobs (`authorityAgentJobs.ts`, `lib/automation`) | `automation_jobs_cache`: enqueue, claim, heartbeat, complete, fail, review, recover | slow workers against recovery; one session per game | `GameRequests` |
| FreePlay and referral (`authorityFreeplay.ts`, `authorityReferral.ts`) | gifts, markers, wallets, claims | player chosen before the transaction; crossing lock orders; exactly-once credits | `FreePlay`, `Wallet` |
| Sessions (`sqlPlayerLoginSessions.ts`, `playerSessionWrite.ts`, `apiAuth.ts`) | sessions, profile, app sessions, two caches per process: login, resume, logout, judge | logins cross at READ COMMITTED; caches other processes cannot clear | `PlayerSessions` |
| Live outbox and stream (`liveOutbox.ts`, `liveOutboxFanout.ts`, `live/stream/route.ts`, `playerRequestSqlRead.ts`) | `live_outbox`, cursors, the page's list | ids drawn before commit; hand-over from replay to subscription; conditional refetch | `LiveEvents` |
| Automatic recharge bonus (`authorityAutomaticBonus*`) | config versions, toggles, grants | version fencing; exclusion checked at claim, grant decided at completion | not modelled |
| Carer cash-outs, staff wallets | cash boxes, `carer_cashouts` | same boxes as cash-outs | not modelled |
| Payment listeners, coin load sessions | mailboxes, photos shown for ten minutes | record keeping | not modelled |
| Chat, administration | messages, users | record keeping | balance correction in `Wallet` |
| UI, Firestore mirrors, scripts | - | - | not modelled; polling by the pages is the one scheduling fact used |

Actors and the database interact only through transactions: a handler locks rows
(`SELECT ... FOR UPDATE`), checks, writes, commits. A crash, timeout or exception
rolls back. Hence a handler that reads only what it has locked is one atomic
action, and one that reads before it locks is split at the lock. Modules that are
about the locks themselves (`FreePlay`, `PlayerSessions`, `ConnectionPool`) take a step per
lock or statement.

Nearly every hazard listed in `PROJECT.json` is one of four kinds: something read before
the lock that makes it true; a key or a cache that outlives what it stood for; a report
that comes late; two rows that must move together.

## Modules

| Module | Content |
|---|---|
| `PlayerCashout` | the cash-out handlers and their properties |
| `CashoutSettlement` | what they promise about money: `Hold`, `PayHeld`, `PayOwed`, `Refund`, `Drop` |
| `GameRequests` | recharge and redeem requests, their tasks and automation jobs |
| `Wallet` | purses: transfers, approvals, rewards, corrections, gifts, referrals |
| `FreePlay` | giving and claiming a gift, lock by lock |
| `GiftExchange` | what that promises: `Give`, `Open`, `Earn`, each in one step |
| `PlayerSessions` | logins, logouts and the judging of sessions, statement by statement |
| `LiveEvents` | outbox, notification fan-out, stream, and a page's list |
| `ConnectionPool` | connections and row locks of handlers that share a pool |
| `MC...` | values, symmetry and constraints for TLC |
| `PlayerCashoutProofs`, `GameRequestsProofs`, `WalletProofs`, `FreePlayProofs`, `PlayerSessionsProofs`, `LiveEventsProofs` | theorems about the module of that name |
| `OpenRequestProofs` | further theorems about `GameRequests`: redeems, jobs, balances, rewards |
| `SumTheorems` | sums over finite sets: one element more, one value changed, a part of the set |

The modules meet in the database, not in calls: `Wallet` takes a claimed gift as one step,
whose inside is `FreePlay`; `ConnectionPool` takes creations, completions, dismissals, releases and
logouts without what they write, which is in `PlayerCashout`, `GameRequests` and `PlayerSessions`;
`LiveEvents` begins with the commit of any of them. `GameRequests` composes three components in
one module because its handlers write the rows of all three in one transaction. In each
module, calls that a guard turns down, replays and duplicates change nothing and are
stuttering steps.

### PlayerCashout

State: `cash` (in hundredths of a coin) and `box` are the two balances the handlers move;
`redeemed` is the history of what redeems have added to cash; `task` the rows,
with status, player, amount, whether the cash was taken at creation, handler and
Telegram claimant; `recent` the tasks whose `created_at` lies within 24 hours;
`overdue` the claimed ones whose `expires_at` has passed; `ops` the claimed
operation keys; `ledger` the balance events with their keys; `drafts` the
creations between their usage query and their commit.

Actions: `BeginCreate`/`CommitCreate`/`AbortCreate` are
`createPlayerCashoutTaskInSql`, split at the player row lock because the rolling
usage is summed before it. `Start`, `Release`, `TimeoutRelease`, `Complete` and
`Decline` are the other handlers, each one transaction. `Redeem` is the
completion of a redeem (`authorityGameRequests.ts:1612`), which credits the amount as it is. `Expire` and
`WindowPasses` are the clock. A claimed key is never deleted by these handlers, so
`ops` only grows.

Keys are tuples: creation `<player, key>`, start and manual release
`<task, actor>`, timeout `<task, System>`, completion and decline
`<task, key>`; a Telegram completion derives its key from the operator. The event
key of a handler credit names the actor, not the operation, exactly as in
`insertAuthorityLedgerEvent`'s callers.

Abstracted: payment details, vendor attribution, outbox rows, the maintenance
break (an `AbortCreate`), minimum amounts of the policy (further reasons to
abort), writers of `cash` other than redeems. Cash-outs are for whole coins, but wallets
have fractions: a redeem of 50.5 is accepted and credited unrounded. Creation, decline and the
completion of an imported request floor the balance they find (`Whole`) and book whole coins
alone. So neither does money add up nor the ledger reconcile; what does hold, step by step, is that
nothing but that fraction is lost (`OnlyFractionsLost`) and that the events a step
adds come to what it moves but for it (`LedgerFollows`).

Runs (`MCPlayerCashout.tla` gives the values):

* `cashout` (`MCPlayerCashout.cfg`): a player with 2 cash, a daily limit of 2, a redeem of half a coin at any time, two
  requests of which one may have been imported with amount 2 (so that the
  creation of the other can leave too little for it), the owning co-admin
  with one Telegram operator and no reward, one staff member without a snapshot
  row, a co-admin of another tenant, two idempotency keys. It holds two concurrent
  creations, a retry, every pair of handlers on a task, both kinds of request, and
  an actor without a box. All safety properties, the refinement, and
  `FirstTimeoutReleases`: the first claim of a request that expires gets back to pending.
  `CONSTRAINT OneReleased`: manual releases of at most one request (a release reads and writes
  only its request and a key of its own).
* `cashout_limit`, `cashout_reclaim`: two statements of the repository that the code does not
  keep (see Findings).

Fairness: `PollingSpec` adds `WF(TimeoutRelease(c))` for every tenant: the staff page
polls its task list and the cache route calls
`releaseExpiredPlayerCashoutTasksForCoadminInSql` on each poll of scope `staff`.
Nobody is obliged to claim, complete or decline.

Bounds: `Tasks` bounds the requests ever made, `Keys` the distinct idempotency
keys. Handlers touch one task (the timeout sweep several, independently), so
interference needs two tasks only through one player's cash, one box or the
limit, all present; two keys give both a retry and a fresh call.

### GameRequests

State: `coin`, `cash` and `box` are the balances; `request` the status of
each request; `task` the row of its carer task (`deleted` is `deleted_at`; `idle` and
`error` are what the code reads out of `automation_status` and `automation_error`:
whether others may restart the task); `job` the automation jobs; `report` the answer
the external agent has settled on for each job it works on, which it may send again;
`claims` and `ops` the claimed operation keys (a claim key carries the job and is
deleted by a return, the others stay); `events` and `rewarded` the financial and
balance events; `later` which of the single-session tasks was written after which; `base`
the base amount of each recharge, which the page may send and a dismissal gives
back; `waited` and `overwrites` are histories of reports that the player is in the game and of status updates.

| Actions | Code |
|---|---|
| `CreateRecharge`, `CreateRedeem` | `createRechargeRequestInSql`, `createRedeemRequestInSql` |
| `Claim` | `claimCarerTaskInSql`, by a page, an automatic tick, or on creation |
| `Return`, `Delete` | `returnTaskToPendingInSql`, `deletePendingTaskInSql` |
| `PageComplete`, `Dismiss` | `completeRechargeRedeemTaskInSql`, `dismiss...RequestInSql` from a page |
| `AgentClaim`, `Heartbeat` | `claimQueuedAutomationJobForAgent`, `heartbeatAutomationJobForAgent` |
| `AgentComplete`, `CloseJob` | the two transactions of `agentCompleteRechargeRedeemJob` |
| `AgentFail`, `ReturnFailed` | the two of `agentFailJobReturnPending` |
| `SuspectStale`, `RecoverStale` | `agentRecoverStaleJobs`, which fails jobs from a list it has read before |
| `PendingReview`, `AgentDismiss`, `WaitPlayerExit` | `agentMarkJobPendingReview`, the three `agentDismiss...`, `agentMarkRedeemWaitingPlayerExit` |
| `UpdateStatus` | `agentUpdateJobStatus`, the action `update_status` of the agents' API |
| `RetryRedeem` | the player's button, `redeem-ready-for-retry/route.ts` |
| `GoStale` | the clock |

Abstracted: tenants (one), the redeem limit, first-recharge match (but for the base it stores) and automatic bonus,
minimum and maximum amounts, the amount of the reward (counted as one), the on/off
switch of automation, username and password jobs, the retry cooldown (part of
`retry`, which the same return sets), the two stale timeouts of 5 and 10 minutes
(one `GoStale`: what the longer one sees, the shorter has seen). An agent
reports one verdict per job. Statuses the code compares with but no handler on
PostgreSQL stores (`poked`, `waiting`, ...) are left out. The start of a job
checks without a lock that no other job of the carer runs for the task; a carer
never has two queued jobs for one task unless a status was overwritten, so nothing else is lost by one step.
Of the other actions of the agents' API, `repair_successful_completion` and `mark_post_success_failure` write what
`AgentComplete` and `PendingReview` write, `refresh_redeem_amount` writes the job's payload, and
`cleanup_old` deletes jobs that ended long ago.

Runs (`MCGameRequests.tla`):

* `game` (`MCGameRequests.cfg`): two recharges of one single-session game and one redeem,
  two carers, an admin, two jobs, one key per kind of call besides those of the jobs, and a
  page that may send a base of 3 with a recharge of 2.
  `CONSTRAINT Explored` follows one request with one carer; or one request with both
  carers, where the base is what was taken and pages make at most two calls; or one
  request, one of whose jobs gets a status of an agent's choice, with one carer, the base
  that was taken and at most one call of a page; or both recharges
  with one carer as long as both are open: requests share nothing but the job ids, the
  player's balances and a carer's session, so that more of both adds only
  products. Two jobs give every pair of reports, a job of the first carer that
  survives into the work of the second, and a late report after everything is
  settled. Jobs, carers and recharges are symmetric; 300,000 states.
* `redeem_reopened`, `two_carers`: two statements that the code does not keep. The second
  needs three jobs.

`RedeemPaidOnce`, `RewardedOnce` and `CompletedTaskSettled` exempt requests for which a
job has reported that the player is in the game (`Waited`): such a report
reopens the request, which is the finding `redeem_reopened`. Recharges never
wait, so for them nothing is exempt. `NotStolen` and `OneJobWhileOpen`
speak of open requests (`Open`: pending, no job has told the player to wait, and no status of its jobs was
overwritten). Beyond them they
fail: a redeem that waited and was retried may get a
second job while an older one is still active; a late dismissal of a settled request
makes its task restartable, so that another carer takes it over (`two_carers`); and
`update_status` has no guard at all, so that it may revive an ended job beside the one that took
its place, or end the one at work, whose task then looks free. Everything about money holds
without that exemption: requests are settled under locks that no job's status decides. No fairness is assumed: every property is a safety
property. Nothing obliges carers, agents or the automation to try again.

Observed, and not runs:

* The guard of single-session games (`SessionFree`) does not keep a carer to one session. It looks at one task
  in progress of the carer, the one with the greatest `updated_at` (`later` keeps that order), and every heartbeat,
  review or start writes `updated_at`, of ended jobs too. A trace with three requests: a
  first recharge is started, dismissed by a page, a second one claimed; the agent of the first
  reports a review, which brings its task back and makes it the newest; the third recharge is
  claimed, because the job of the newest task has ended, while the second one's is active. No document
  or test says what the guard is to keep, so that it is modelled and no property stated.
* A dismissed recharge gives back `base_amount`, which the page has sent and nothing compares with the
  `amount` it was charged. The events tell of both truly (`BalancesTold`), but the player ends with more or less
  than before. No statement of the repository ties the two together.

### Wallet

State: `balance` (coin, cash, promo-locked coin of each player, in hundredths of a coin), `told`
(what the ledger's entries add up to), `transfers` (the rows limits are computed from),
`claimed` operation keys, `request`, `gift`, `referral`; `granted`, `moved` and `again` are
histories: money that was created, the causes money moved for, and those it moved
for a second time.

Each action is one transaction that locks the player rows it writes before it reads them:
`CashToCoin` and `CoinToCash` (`authorityTransfer.ts`, with fee or tip, cooldown, daily
limit and the exemption), `ApproveTransfer` (`authorityTransferRequest.ts`), `RewardCoins`
(`authorityRewardCoins.ts`), `Adjust` (the correction by staff), `ClaimFreeplay`,
`ClaimReferral`, and the clock `Tick`.

Hundredths are kept because the approval and other operations floor the balance they
find while the ledger records the amount alone: `LosesOnlyFractions` says that a step never drops
a whole coin, and never in the player's favour. `CooldownsKept` and `DailyLimitKept` are about
the rows, over any window and not only the one the code happened to look at.

Run `wallet`: two players of one co-admin with fractions in both purses, two ids (a retry and
a fresh call), one request, one gift, referrals in both directions of which one was rewarded
before the move to PostgreSQL. Amounts keep the code's proportions (below and at
the maximum); limits are scaled to a clock of three steps, a day long: cooldowns of 1 and 2,
a daily limit of 30. Ids are symmetric.

Observed, and not a run: the promo lock keeps coins from being given to others, but coin to
cash does not look at it; the documents may mean transfers to others only.

### FreePlay

State: `coin` and `told` (in hundredths), `wallet`, `gift` (with the key it was asked for with: the operation of that key
names the gift in its payload), `marker` (the player's pending gift), `claimed` keys; `lock`, `pc`
and `local` are the row locks, the row each request locks next, and what it has read. `SelectPlayer` chooses a player before any lock (`authorityFreeplay.ts:515`); `GiveKey`,
`GivePlayer`, `GiveMarker`, `GiveWallet`, `GiveCommit` follow; `OpenGift`, `ClaimMarker`, `ClaimGift`,
`ClaimPlayer`, `ClaimCommit` are the page's claim, which floors the balance before it adds the gift
(`authorityFreeplay.ts:944`). `OtherOperation` stands for any other
transaction that credits the player in between, fractions included; `Abort` rolls a request back at any point.

Fairness: `SF(Step(x))` for each request: the server runs what it has begun, PostgreSQL
hands a released lock to whoever waits, and ends one of two transactions that wait for each
other (`Deadlocked`). Other failures are not fair, and nobody is obliged to begin.

`GiftExchange` is the same exchange without markers, locks and claimed keys: a gift is given, or opened, in
one step. `ImplementsExchange` says that `FreePlay` is no more than that, with the four variables mapped to
themselves: every commit is a `Give` or an `Open` that was allowed at that moment, and all other
steps, rollbacks included, are invisible. It fails when a key is looked up and not inserted first, when
a marker is not looked at again under the lock, and when coins are read without theirs. Balance and
ledger agree in each step but for the fraction that a claim finds and drops (`OnlyFractionsLost`).

Run `freeplay`: two requests of one staff member, which may carry the same key, two players, a page,
three gifts, half a coin to begin with and one other credit of three quarters: two givers on one player or one wallet, and a giver
against a claimer in the crossing order. All the giver kinds of the code (staff who pay;
co-admins, who do not) differ only by `GiveWallet`; the theorems hold for both.

### PlayerSessions

State: `indexed` (whether the unique index on active sessions was applied: the migration skips it
over duplicates), `session`, `profile`, `app` as committed; `pc` and `local` of each
login with what it has written and not committed; `leaving` of each logout; `cache` and `appCache`
of one process with the remaining life of each entry; `reading` the requests it judges; `age`
is the history of how long a session has been over.

A login is `Lookup` (resume the session of the same device), `SeeSessions` and `EndPrevious` (one UPDATE
at READ COMMITTED: its snapshot, then its waits), `Insert` (session and profile in one
statement; the index waits or fails), `SeeApps`, `InsertApp`, `Commit`, `Invalidate`. A logout
is `StartEnd`, `EndSession`, `EndProfile`, two statements outside any transaction. `AskApi`,
`AskStatus`, `ReadRow`, `Write` are the check of an API request and the polled status.
`LoginFails` and `EndFails` are failures in between.

One process that judges one request at a time suffices: processes share only the tables, and each cache
entry is written from one read. That it may not be told of a login or a logout is in `Invalidate` and
`StartEnd`. `RefusedInTime` bounds by `QueryTime + SessionLife` how long an ended session is
accepted (15 s and 20 s in the code; app sessions live 30 s in their cache). Run `sessions`: a player
logged in on one device, who logs in on a second and again on the first, each of them logging
out at any time; one tick for each duration, which the theorems generalise.

Observed, and not a run: a login that resumes a session takes no lock, so a login of another device may
end it in between; the first device then has an app session whose player session has ended
while the app session of the second has been ended by the first. Both must log in again.

### LiveEvents

State: `kinds` (ids drawn, and what they tell of), `open` and `events` (uncommitted and committed
rows), `notified`, `listening`, `degraded`, `polled` (the fan-out), `stream`, `cursor`, `pending`,
`replay`, `start` (the stream), `wire`, and `page`, `last`, `view`, `fetch` (the browser).
An event id is also the version of the row it tells of: the row lock orders the
transactions of one row.

`Insert`, `Commit`, `Rollback` are the outbox; `Listen`, `RouteNotified`, `FallbackPoll`, `FallbackRoute` the
fan-out, with `FetchRowFails`, `ConnectFails`, `ListenerClosed`; `ReplayQuery`, `ReplayDone`, `StreamPoll` the
stream, which subscribes before it replays; `Bootstrap`, `Connect`, `Handle`, `SafetyFetch`,
`ReconnectFetch` and the stages `SendFetch`, `ReadLatest`, `ReadRows`, `ApplyFetch` of one fetch the page, with
`FetchFails`, `BrowserReconnects`, `Close`.

* `live_events`: two rows, two ids, a replay of one row (so that it is cut off), every fault, with and
  without fan-out. `SentInOrder` holds through all of it; `NewestIsSent` says that subscribing
  before replaying leaves no hole. Two ids are the least with which one may overtake the other.
  That a row whose id was passed over is dropped for good is how the code works; no
  property says otherwise.
* `live_missed`: one row, one event, no fault, page open. Fairness: timers fire, queries are answered, the
  browser dispatches what comes in, and safety refetches, which need the page to have no
  fetch under way, find it so now and again (SF). `PageCatchesUp` fails all the same (see Findings).

### ConnectionPool

State: `queue` and `idle` (pg Pool: first come first served; the last connection given back is given
out first), `tx` (what the server knows of each connection: no transaction, an open one, a failed
one), `locked` (rows per connection), and for each call `at`, `using`, `next`.

`Connect` and `Connected` ask for a connection and get it (BEGIN in an open transaction is only a
warning; in a failed one an error). `ReadMaintenance` is the second connection a
creation asks for while it holds its own (`readCoadminMaintenanceBreakFromSql`); without one in time
it goes on as if there were no maintenance break. `ConnectTimeout`, `LockWaitEnds` (statement timeout or
deadlock detection) and `IdleTimeout` are the timers. `LockRow` takes the rows in the order of the
handler (`LocksOf`): completion locks the task first, dismissal the request. `Update` is the single statement
of a logout. `Finish` commits or rolls back. `ReleaseNothing` is
`releasePlayerCashoutTaskInSql` of a task that is not in progress, which gives the connection back with its
transaction open (`authorityCashout.ts:1889`; the only such return we found).

Fairness: only that something happens as long as something can; no timer is favoured and no
call is promised its turn. Run `pool`: two connections, the least with which two creations that each hold
one can wait for each other (the code allows 1 to 10, 3 unless set: it takes as many creations
as connections), two creations of two players, a release, a completion, a dismissal and a
logout. `Recovers` fails without the connect timeout.

Observed, and not a run: a statement acknowledged on a connection that was left in a
transaction is undone when that is rolled back or the idle timeout closes it. The keep-alive of
the pool (off unless set) is not modelled: its `SELECT 1` would use the connection, and so keep the row
locked as long as nobody else gets it.

`CHECK_DEADLOCK FALSE` wherever the identifiers, gifts or calls of an instance are used up and the
system rests; `sessions` checks for deadlock.

## Findings

Each is a run that TLC must find violated, by a short trace of the code's own steps.

* `redeem_reopened`: `agentMarkRedeemWaitingPlayerExit` sets the request to
  `waiting_player_exit` whatever it was. Trace: a job runs, the admin completes
  the redeem, the agent's report comes late. The player's retry then makes the
  request pending, and a further job pays it again: with `Waited` dropped,
  `RedeemPaidOnce` fails in the run `game`.
* `two_carers`: a claim looks at neither the task's completion nor the request. Trace: a
  job runs for the first carer; the task is returned and claimed again by it, with
  a second job; the first job reports a dismissal, which closes request and task and
  sets the error that makes the task restartable; the second job goes silent, the
  other carer claims, and both agents start. While the request is open this cannot
  happen (`OneJobWhileOpen`), and money is safe (`RechargeSettledOnce`), but two
  automations work in one game account for a request that is settled.
* `cashout_limit`: two creations that both read the usage before either commits
  pass the 24-hour maximum. Trace: two `BeginCreate`, two `CommitCreate`.
* `cashout_reclaim`: the timeout release key `cashout_release:<task>:timeout:system` is
  claimed once and for all; the second claim that expires stays `in_progress`
  and the staff list hides it until a manual release. The same holds for a second manual
  release by one actor, which the page reports as a success. The key
  `cashout_start:<task>:<actor>` survives as well: whoever claimed a task once cannot
  claim it again, and Telegram operators share the key of their co-admin.
* `live_missed`: the page moves `lastEventId` to the event's id before it refetches, the fetch
  sends that cursor, and the server answers `unchanged`, because there is nothing newer
  than the event itself. So does every later safety refetch. Only another event, or a
  full fetch after a reconnect, brings the row. Trace: commit, route, handle, fetch.

## Proofs

For all values of the constants that satisfy the named assumptions. Where a property is not
inductive alone, what it is joined with is named.

`PlayerCashout` (`SentinelAssumption`: the markers for nobody are not actors;
`TenantAssumption`: roles and tenants are total functions, a co-admin is its own
tenant; `MoneyAssumption`: initial amounts, in hundredths, are natural numbers, imported ones positive;
`UidAssumption`: a uid is a player's or another actor's; `TasksAssumption`: there are finitely many
ids of requests, without which a sum over them is not defined):

* `TypeCorrect`: `TypeOK`, which includes that no balance gets negative. Proved by one
  step per action; the creation takes `n \in 1..Whole(cash)`, the legacy debit is guarded.
* `LedgerAlwaysTells`, `AlwaysSettledOnce`: neither is inductive alone, because a handler
  may book only what has not been booked, and that it has not follows from the row.
  `LedgerInv` joins types, each row telling its events, and one event per kind and
  task. `RecordedNew` shows that then the ON CONFLICT insert really inserts.
* `LedgerAlwaysFollows`: from `LedgerInv` an event a handler books is new, so that what a step adds to the
  ledger is one event or two, of one user each, of the amount by which the handler changes the whole coins.
* `OnlyFractionsAreLost`, from `TypeOK`: every step changes at most one row, and what the row says was
  taken changes by what the wallet loses less its fraction (`WholeCoins`).
* `ClaimAlwaysConsistent` from `ClaimInv`, row by row.
* `SettledStaysSettled`, `ClaimsAreNotStolen`: action properties; each handler rewrites one
  row whose status it checked under the lock.
* `AlwaysOneRequestPerKey` from `KeyInv`: debits made hold a claimed key, creations under
  way hold distinct unclaimed ones.
* `HandlersImplementSettlement`: claims, releases, timeouts and reads
  stutter; creation, completion and decline map to one settlement step.

`GameRequests` (`KindAssumption`, with finitely many requests, `NameAssumption`, `SessionAssumption`; any number of recharges,
redeems, players, carers, jobs and keys), in `GameRequestsProofs`:

* `TypeCorrect`: `TypeOK`, from `TypeInv`, which adds `JobsNamed`: a job in use names its
  task and its carer, and the agent reports only on a job in use. Without it a report
  could write under a task or a carer that does not exist. `JobsEndedType` covers every
  handler that ends jobs; no balance gets negative because a recharge is created only
  with the coin for it, under the player's row lock.
* `RechargeAlwaysSettledOnce`: `RechargeSettledOnce` ties the three event counts of a
  recharge to its status. It needs `NoRechargeWaits`: a recharge that waited for the
  player could be retried and settled again, and only the check of the type in
  `agentMarkRedeemWaitingPlayerExit` keeps it from that.
* `RechargesStaySettled`: `SettledForGood` where all requests are recharges. For redeems
  the run `redeem_reopened` refutes it.

and in `OpenRequestProofs`, each invariant on top of the one before:

* `RedeemAlwaysPaidOnce`, from `GameInv`: nobody answers for a job that is still queued (`QueuedSilent`),
  only a reported job makes a request wait (`WaitingWaited`), tasks and jobs belong to
  requests that exist (`TasksRequested`). Whether a redeem has waited is never forgotten
  (`WaitedStays`), and the one step that pays finds the request pending.
* `HandlersRewardedOnce`, from `RewardInv`: `RewardedCompleted` says that a reward event stands for a completed
  request. This is what excludes the second credit: the handlers add to the box
  without asking whether the event was new.
* `BalancesAlwaysTold`: each step changes the events of one request and one balance by the same amount (`Booking`), and
  a base is stored with the debit, before any refund.
* `CompletedTasksSettled`, from `SettledInv`: a page's dismissal does nothing when its key is claimed, so that the
  key must imply that the request is over (`DismissalsOver`).
* `OneJobAlways`, `OpenTasksNotStolen`, from `WorkInv`: the task of an open request is free, or in progress with one carer
  who holds it, and an active job of it is the one it names, by that carer, whose
  claim key is still there (`Worked`). A new claim would have to find the task free. Requests whose jobs
  `UpdateStatus` touches are not open, and it touches nothing else.

`Wallet` (`AmountsAssumption`, `PeopleAssumption`, with finitely many players, `RequestsAssumption`, `TimesAssumption`,
`LimitAssumption`, `BalancesAssumption`; any players, amounts, fees' inputs and limits):

* `TypeCorrect`, `OnlyFractionsAreLost`: one lemma per operation shows `MoneyTyped' /\ Drift`, by
  `SettleMoves` (a step that writes one row and its ledger entry) and `RowMoves`; `Drift` is the
  action property without its subscript. The fees lie within the amount (`CashToCoinFeeBounds`,
  `RewardFeeBounds`), and `FloorBounds` is where "less than a coin" comes from.
* `MovesOnce`: `MovedInv` adds that the key of each cause that has moved money is claimed, which
  holds because money moves in the transaction that claims the key.
* `CooldownsAreKept`: `CooldownInv` adds that no transfer lies in the future, so that the newest
  one is the one a new transfer must keep away from.
* `NothingIsMinted`: each operation writes one purse or two (`HeldChange`), and adds no more than it grants (`Unminted`).
* `DailyLimitIsKept`, from `LimitInv`: the code looks at the day that ends now, the property at any day. A transfer is
  not dated ahead, so the day a new one falls into holds nothing more than the check
  has seen (`SpentOfPart`: a part of the transfers spends no more than all).

`FreePlay` (`FreePlayAssumption`): `TypeCorrect`, `MarkersMatch`, `EachGiftIsPaid`, `OnlyFractionsAreLost` come from one
inductive invariant, `IInv`. `ControlTyped` types locks and requests; `RequestInv` says what a
request knows at each lock and that it still holds the locks that keep it true (`GiverInv`:
the marker is not pending, the wallet is as it was read; `TabInv`: the marker names the gift, the
coins are as they were read); `RowsInv` joins the properties with `GivenInv` (gifts are numbered
without a gap, and there are numbers left for requests under way) and `BlankInv`. `QuietStep` and
`Frame` show once that a request which only locks or ends disturbs nobody. `LocksImplementExchange`
needs `KeyInv` besides: a request that has inserted its key still holds it, and nobody has committed with
that key, so that no gift has it. A commit of `FreePlay` then meets the guards of `Give` or
`Open` (`GiveRefines`, `ClaimRefines`).

`PlayerSessions` (`SessionsAssumption`; any logins, devices and durations):

* `TypeCorrect`.
* `ActiveIsNamed`: `LoginInv` adds `Stage` (what a login at each statement has written), `OneWriter`
  (one uncommitted login at a time holds the profile) and `AllEnded` (where the index exists, that
  login has ended every active session). The profile row, locked by the statement that
  inserts the session, is what serialises crossing logins.
* `EndedIsRefused`, `ActiveIsAccepted`: `AnswerInv` bounds each cache entry and each answer on its way by
  the age of the session's end. `Onward` is what every step keeps: a session never
  becomes active again, and a login that has returned keeps its session.

`LiveEvents` (`LiveAssumption`; any rows and bounds):

* `TypeCorrect`: one lemma per part of the system (outbox, fan-out, stream, fetch, page). `SortedOnce` shows that
  the rows of a query, put in the order of their ids, are an increasing sequence of those.
* `AlwaysSentInOrder`, from `OrderInv`: what is sent is an increasing `Line` that ends at the cursor, rows of the replay lie
  behind it, and a stream that is live has no replay left. A row the cursor has passed is
  dropped by every way of sending, which is why any order of arrival will do.
* `NewestAlwaysSent`, from `CoverInv`: while nothing was lost, every committed row beyond the cursor is in the replay, among
  the rows kept meanwhile, or in a notification. It is here that the subscription must
  come before the replay's query.

`SumTheorems`: `SumFunctionOnSet` of the community modules is a recursive function that takes the elements out in
an order of its own. Induction theorems that take a predicate are out of the provers'
reach, so each fact is proved on the set of its counterexamples among the subsets of a
finite set, which has a minimal element (`NoMinimalCounterexample`, from the well-foundedness of proper inclusion).

Only model-checked: `FirstTimeoutReleases`, `EveryRequestEnds`, `Recovers` and the refuted liveness claims (fairness and
ENABLED). Every invariant and every action property of the passing runs is a theorem; the
inductive invariants were checked by TLC on the instances of those runs before they were proved.

## Plan

Done: cash-outs with their abstract specification; game requests, tasks and jobs; wallets;
FreePlay with its abstract specification; sessions; live events; the connection pool; the proofs above.

Left to prove: that the step `Wallet` takes for a claimed gift is the `Open` of `GiftExchange`; an abstract
`RequestSettlement` (coin taken, then delivered or refunded; a redeem paid or dismissed) that
`GameRequests` implements, up to the redeems that wait.

Left to model, in this order: the redeem limit of 24 hours, read before the player row is locked as
in `cashout_limit`, and the first-recharge match; versions, toggles and grants of the automatic
bonus; carer cash-outs and staff wallets over the same boxes; username and password tasks.

## Not modelled

* Carer cash-outs and staff wallets. Reading them showed a pattern of their own: creation empties
  the whole box whatever amount the page names, with a random key for each call; completion sets
  the box to the amount less what was done, over earnings since, closes all pending requests and
  writes no ledger event; a decline adds the amount back.
* Automatic recharge bonus and bonus events: the exclusion of other bonuses is checked when a
  carer claims, the grant is decided at completion. The arithmetic of tiers and caps is pure and
  has unit tests.
* The redeem limit, first-recharge match beyond its base, minimum and maximum amounts of requests.
* Username and password tasks: the jobs share the machinery of `GameRequests`, the handlers write
  only texts.
* Sessions of staff, impersonation, the start route of the Firebase sign-in, heartbeats (they write times
  no decision reads) and the gate in the browser.
* The lists of other pages, which use the machinery of `LiveEvents` each with its own reader.
* Payment listeners and coin load sessions: records of mailboxes and of photos; what reads the
  mailboxes is not in the repository, and no balance moves.
* Chat, administration of accounts: storage with little control state.
* Firestore code paths: off with `AUTHORITY_SQL_WRITE`; imported rows are initial states.
* The user interface, about two thirds of the lines: presentation, and calls of the routes. It is
  why the map covers a small share of the repository's lines, and most of what decides about money.
* Maintenance scripts: offline checks of a live database; what they compare is stated as
  `LedgerTellsRow` and `LedgerFollows`. They would report a wallet whose fraction a handler has dropped.
