---------------------------- MODULE ConnectionPool ----------------------------
(* The pool of connections that every handler of a process shares, and the  *)
(* row locks handlers hold while they wait for more. Three patterns of the  *)
(* code meet here: creations, which ask the pool for a second connection in *)
(* the middle of a transaction; the release of a cash-out task that nobody  *)
(* has claimed, which gives its connection back with the transaction open;  *)
(* and handlers that lock the same rows in different orders.                *)
(*                                                                          *)
(* What the handlers write is in PlayerCashout, GameRequests and            *)
(* PlayerSessions; here are only their connections and locks.               *)
EXTENDS Naturals, Sequences, SequencesExt

CONSTANTS
    Connections,  \* at most PG_POOL_MAX connections, 3 unless it is set
    NoConnection,
    Requests,     \* calls of handlers, one each
    KindOf,       \* which handler
    Players,
    PlayerOf      \* the player it is about

Kinds == {"create", "release", "complete", "dismissRecharge", "dismissRedeem", "logout"}

ASSUME PoolAssumption ==
    /\ NoConnection \notin Connections
    /\ KindOf \in [Requests -> Kinds]
    /\ PlayerOf \in [Requests -> Players]

(* One cash-out task, one game request and the carer's task for it.         *)
Rows == ({"player"} \X Players) \cup {<<"cashout">>, <<"request">>, <<"task">>}

(* The rows a handler locks, in order. Creations of cash-outs, recharges    *)
(* and redeems are alike. A logout clears the profile outside any           *)
(* transaction of its own. Balance snapshots, always locked last, hold      *)
(* nobody up for good; they are left out, as are the other cash-out calls.  *)
LocksOf(r) ==
    LET player == <<"player", PlayerOf[r]>>
        cashout == <<"cashout">>   request == <<"request">>   task == <<"task">>
    IN  CASE KindOf[r] \in {"create", "logout"} -> <<player>>
          [] KindOf[r] = "release"              -> <<cashout>>
          [] KindOf[r] = "complete"             -> <<task, request, player>>
          [] KindOf[r] = "dismissRecharge"      -> <<request, task, player>>
          [] KindOf[r] = "dismissRedeem"        -> <<request, player, task>>

VARIABLES
    queue,   \* requests that wait for a connection
    idle,    \* connections that nobody uses; the last one is given first
    tx,      \* what the server knows of a connection: no transaction, an open
             \* one, or one that an error has ended but nobody has closed
    locked,  \* the rows each connection's transaction has locked
    at,      \* what a request does or waits for
    using,   \* its connection
    next     \* which of its rows it locks next

vars == <<queue, idle, tx, locked, at, using, next>>

Init ==
    /\ queue = <<>> /\ idle = <<>>
    /\ tx = [c \in Connections |-> "none"] /\ locked = [c \in Connections |-> {}]
    /\ at = [r \in Requests |-> "new"]
    /\ using = [r \in Requests |-> NoConnection]
    /\ next = [r \in Requests |-> 1]

(* Connections are opened when they are needed, and closed when they idle:  *)
(* which of the closed ones is opened makes no difference.                  *)
Idle == {idle[i] : i \in DOMAIN idle}
Closed == Connections \ (Idle \cup {using[r] : r \in Requests})
Offered ==
    IF idle # <<>> THEN {Last(idle)}
    ELSE IF Closed # {} THEN {CHOOSE c \in Closed : TRUE} ELSE {}
OthersIdle == IF idle = <<>> THEN <<>> ELSE Front(idle)

(* The call is answered, well or not, and its connection put back as it is. *)
GiveBack(r) ==
    /\ at' = [at EXCEPT ![r] = "ended"]
    /\ using' = [using EXCEPT ![r] = NoConnection]
    /\ idle' = Append(idle, using[r])

(* COMMIT, ROLLBACK and the end of a connection let go of the locks.        *)
EndTransaction(c) ==
    /\ tx' = [tx EXCEPT ![c] = "none"]
    /\ locked' = [locked EXCEPT ![c] = {}]
-----------------------------------------------------------------------------
Connect(r) ==
    /\ at[r] = "new"
    /\ at' = [at EXCEPT ![r] = "connecting"]
    /\ queue' = Append(queue, r)
    /\ UNCHANGED <<idle, tx, locked, using, next>>

(* In a transaction that is open already, BEGIN is a warning; in one that   *)
(* has failed, an error, which ends the call with a ROLLBACK.               *)
Begin(r, c) ==
    IF tx[c] = "failed"
    THEN /\ at' = [at EXCEPT ![r] = "ended"]
         /\ idle' = Append(OthersIdle, c)
         /\ EndTransaction(c)
         /\ UNCHANGED using
    ELSE /\ at' = [at EXCEPT ![r] = "locking"]
         /\ using' = [using EXCEPT ![r] = c]
         /\ idle' = OthersIdle
         /\ tx' = [tx EXCEPT ![c] = "open"]
         /\ UNCHANGED locked

Connected(r, c) ==
    /\ queue # <<>> /\ r = Head(queue) /\ at[r] = "connecting"
    /\ queue' = Tail(queue)
    /\ IF KindOf[r] # "logout" THEN Begin(r, c)
       ELSE /\ at' = [at EXCEPT ![r] = "updating"]
            /\ using' = [using EXCEPT ![r] = c]
            /\ idle' = OthersIdle
            /\ UNCHANGED <<tx, locked>>
    /\ UNCHANGED next

(* In the middle of a creation: the maintenance break is read through the   *)
(* pool, on a connection that is given back at once.                        *)
ReadMaintenance(r, c) ==
    /\ queue # <<>> /\ r = Head(queue) /\ at[r] = "asking"
    /\ queue' = Tail(queue)
    /\ at' = [at EXCEPT ![r] = "deciding"]
    /\ idle' = Append(OthersIdle, c)
    /\ UNCHANGED <<tx, locked, using, next>>

(* A pool without connectionTimeoutMillis.                                  *)
ConnectTimeoutNever(r) ==
    /\ at[r] \in {"connecting", "asking"} /\ FALSE
    /\ UNCHANGED vars

(* Without a connection in time the call fails; but where the connection    *)
(* was for the maintenance break, the error is caught and the handler goes  *)
(* on as if there were none.                                                *)
ConnectTimeout(r) ==
    /\ at[r] \in {"connecting", "asking"}
    /\ queue' = Remove(queue, r)
    /\ at' = [at EXCEPT ![r] = IF @ = "connecting" THEN "ended" ELSE "deciding"]
    /\ UNCHANGED <<idle, tx, locked, using, next>>

Row(r) == LocksOf(r)[next[r]]
Taken(r) == \E c \in Connections \ {using[r]} : Row(r) \in locked[c]

(* With all its rows locked, a creation asks the pool for a connection      *)
(* while it holds one.                                                      *)
LockRow(r) ==
    /\ at[r] = "locking" /\ ~Taken(r)
    /\ locked' = [locked EXCEPT ![using[r]] = @ \cup {Row(r)}]
    /\ IF next[r] < Len(LocksOf(r))
       THEN next' = [next EXCEPT ![r] = @ + 1] /\ UNCHANGED <<at, queue>>
       ELSE IF KindOf[r] = "create"
       THEN at' = [at EXCEPT ![r] = "asking"] /\ queue' = Append(queue, r) /\ UNCHANGED next
       ELSE at' = [at EXCEPT ![r] = "deciding"] /\ UNCHANGED <<queue, next>>
    /\ UNCHANGED <<idle, tx, using>>

(* The statement timeout or the deadlock detection ends a wait: the handler *)
(* rolls back. A logout does not, and leaves a transaction that it found    *)
(* open as one that has failed.                                             *)
LockWaitEnds(r) ==
    /\ at[r] \in {"locking", "updating"} /\ Taken(r)
    /\ IF KindOf[r] # "logout" \/ tx[using[r]] = "none"
       THEN EndTransaction(using[r])
       ELSE /\ tx' = [tx EXCEPT ![using[r]] = "failed"]
            /\ locked' = [locked EXCEPT ![using[r]] = {}]
    /\ GiveBack(r)
    /\ UNCHANGED <<queue, next>>

(* The statement of a logout commits by itself, unless its connection is in *)
(* a transaction someone else has left: then the lock stays, and what it    *)
(* wrote shares the fate of that transaction.                               *)
Update(r) ==
    /\ at[r] = "updating"
    /\ tx[using[r]] = "failed" \/ ~Taken(r)
    /\ GiveBack(r)
    /\ locked' = IF tx[using[r]] = "open"
                 THEN [locked EXCEPT ![using[r]] = @ \cup {Row(r)}] ELSE locked
    /\ UNCHANGED <<queue, tx, next>>

(* COMMIT once all is decided, or ROLLBACK: checks before and between the   *)
(* locks fail as well.                                                      *)
Finish(r) ==
    /\ at[r] = "deciding" \/ (at[r] = "locking" /\ ~Taken(r))
    /\ EndTransaction(using[r])
    /\ GiveBack(r)
    /\ UNCHANGED <<queue, next>>

(* A task that is not in progress needs no release: the handler returns at  *)
(* once, and neither commits nor rolls back.                                *)
ReleaseNothing(r) ==
    /\ at[r] = "deciding" /\ KindOf[r] = "release"
    /\ GiveBack(r)
    /\ UNCHANGED <<queue, tx, locked, next>>

IdleTimeout(c) ==
    /\ c \in Idle
    /\ idle' = Remove(idle, c)
    /\ EndTransaction(c)
    /\ UNCHANGED <<queue, at, using, next>>

Step(r) ==
    \/ \E c \in Offered : Connected(r, c) \/ ReadMaintenance(r, c)
    \/ ConnectTimeout(r) \/ LockRow(r) \/ LockWaitEnds(r) \/ Update(r)
    \/ Finish(r) \/ ReleaseNothing(r)

Next ==
    \/ \E r \in Requests : Connect(r) \/ Step(r)
    \/ \E c \in Connections : IdleTimeout(c)

Spec == Init /\ [][Next]_vars
(* As long as something can go on, something does: no order among requests  *)
(* and timers is assumed.                                                   *)
FairSpec ==
    Spec /\ WF_vars((\E r \in Requests : Step(r)) \/ (\E c \in Connections : IdleTimeout(c)))
-----------------------------------------------------------------------------
AtRest ==
    /\ \A r \in Requests : at[r] \in {"new", "ended"}
    /\ \A c \in Connections : locked[c] = {}

(* Whether creations use the pool up and wait for it, two handlers wait for *)
(* each other's rows, or a row is left locked by a connection nobody uses:  *)
(* every call is answered, and every row is free again.                     *)
Recovers == ~AtRest ~> AtRest
=============================================================================
