---------------------------- MODULE LiveEvents ----------------------------
(* How a change of a row reaches the page of a player: the handler's        *)
(* transaction adds events to live_outbox (lib/sql/liveOutbox.ts), the       *)
(* fan-out of the server process listens for them (liveOutboxFanout.ts), a   *)
(* stream carries them to the browser (app/api/live/stream/route.ts), and    *)
(* the page re-reads its list (features/live/playerRequestSqlRead.ts).       *)
(*                                                                          *)
(* An event id doubles as the version of the row it tells of: the row lock   *)
(* orders the transactions of one row, so their ids grow with its commits.   *)
(* One page, one stream; the other browsers of the process only keep the     *)
(* listener busy.                                                            *)
EXTENDS Naturals, Sequences, FiniteSets, FiniteSetsExt, SequencesExt

CONSTANTS
    Items,        \* rows of player_game_requests_cache the page lists
    MaxId,        \* bound: ids drawn from the sequence of live_outbox
    ReplayLimit,  \* rows of the replay of a new stream (200)
    Faults        \* whether connections, queries and fetches may fail

ASSUME LiveAssumption ==
    /\ MaxId \in Nat /\ ReplayLimit \in Nat \ {0} /\ Faults \in BOOLEAN

VARIABLES
    fanout,     \* the deployment's LIVE_OUTBOX_FANOUT flags
    kinds,      \* what the ids drawn so far tell of, by id
    open,       \* item -> ids drawn by the transaction that holds its row
    events,     \* committed event ids -> item
    notified,   \* ids whose NOTIFY or whose row is on the way to the fan-out
    listening,  \* the LISTEN connection is up
    degraded,   \* the fan-out polls until it listens
    polled,     \* rows a fallback poll has read and not routed
    stream,     \* "none", "subscribed", "replaying", "live"
    cursor,     \* id of the last row the stream has sent
    pending,    \* rows routed while the replay was under way
    replay,     \* rows the replay query returned
    wire,       \* ids sent and not handled by the page
    start,      \* lastEventId in the URL of the stream
    page,       \* "boot", "closed", "open", "fallback"
    last,       \* the page's lastEventId
    view,       \* item -> version the page shows
    fetch,      \* the snapshot fetch under way
    covered     \* history: nothing was lost since the stream subscribed

outboxVars == <<kinds, open, events>>
listenerVars == <<listening, degraded>>
streamVars == <<stream, cursor, pending, replay, start>>
pageVars == <<page, last, view, fetch>>
vars == <<fanout, outboxVars, notified, listenerVars, polled, streamVars,
          wire, pageVars, covered>>

Ids == 1..MaxId
NoPoll == {0}
Committed == DOMAIN events
Newest == Max(Committed \cup {0})
After(n) == {id \in Committed : id > n}
(* A request's event changes its row; the others (a gift, a login, an        *)
(* authoritative balance; a cash-out) belong to other lists of the page.     *)
Kinds == {"request", "quiet", "cashout"}
Rows == [i \in Items |->
    Max({id \in Committed : events[id] = i /\ kinds[id] = "request"} \cup {0})]

Idle == [stage |-> "idle", full |-> FALSE, known |-> 0,
         latest |-> {}, rows |-> {}]

(* Types of the variables.                                                  *)
TypeOK ==
    /\ fanout \in BOOLEAN /\ listening \in BOOLEAN /\ degraded \in BOOLEAN
    /\ kinds \in Seq(Kinds) /\ Len(kinds) \in 0..MaxId
    /\ open \in [Items -> SUBSET Ids]
    /\ Committed \subseteq Ids /\ \A id \in Committed : events[id] \in Items
    /\ notified \subseteq Ids
    /\ polled \subseteq Ids \/ polled = NoPoll
    /\ stream \in {"none", "subscribed", "replaying", "live"}
    /\ cursor \in 0..MaxId /\ start \in 0..MaxId
    /\ pending \subseteq Ids /\ replay \subseteq Ids
    /\ wire \in Seq(Ids)
    /\ page \in {"boot", "closed", "open", "fallback"}
    /\ last \in 0..MaxId /\ view \in [Items -> 0..MaxId]
    /\ fetch \in [stage : {"idle", "headers", "asked"}, full : BOOLEAN,
                  known : 0..MaxId, latest : SUBSET (0..MaxId),
                  rows : SUBSET [Items -> 0..MaxId]]
    /\ covered \in BOOLEAN

Init ==
    /\ fanout \in BOOLEAN
    /\ kinds = << >> /\ open = [i \in Items |-> {}] /\ events = << >>
    /\ notified = {} /\ listening = FALSE /\ degraded = FALSE
    /\ polled = NoPoll
    /\ stream = "none" /\ cursor = 0 /\ pending = {} /\ replay = {}
    /\ wire = << >> /\ start = 0
    /\ page = "boot" /\ last = 0 /\ view = [i \in Items |-> 0] /\ fetch = Idle
    /\ covered = FALSE
----------------------------------------------------------------------------
(* The outbox.  An id is drawn when the handler inserts the event; the row   *)
(* is visible, and its NOTIFY sent, when the transaction commits.            *)
Insert(i, kind) ==
    /\ Len(kinds) < MaxId
    /\ kinds' = Append(kinds, kind)
    /\ open' = [open EXCEPT ![i] = @ \cup {Len(kinds')}]
    /\ UNCHANGED <<fanout, events, notified, listenerVars, polled, streamVars,
                   wire, pageVars, covered>>

Commit(i) ==
    /\ open[i] # {}
    /\ events' = [id \in Committed \cup open[i] |->
                    IF id \in open[i] THEN i ELSE events[id]]
    /\ open' = [open EXCEPT ![i] = {}]
    /\ notified' = IF listening THEN notified \cup open[i] ELSE notified
    /\ UNCHANGED <<fanout, kinds, listenerVars, polled, streamVars,
                   wire, pageVars, covered>>

Rollback(i) ==
    /\ open[i] # {}
    /\ open' = [open EXCEPT ![i] = {}]
    /\ UNCHANGED <<fanout, kinds, events, notified, listenerVars, polled,
                   streamVars, wire, pageVars, covered>>

----------------------------------------------------------------------------
(* The fan-out of the server process.                                       *)

(* Rows a stream accepts from the set, given what it has sent already.       *)
(* (Mutant: the row sent last passes once more.)                            *)
PassingAgain(ids, sent) == {id \in ids : id >= sent}
Passing(ids, sent) == {id \in ids : id > sent}
InOrder(ids) ==
    CHOOSE s \in [1..Cardinality(ids) -> ids] : \A j, k \in DOMAIN s : j < k => s[j] < s[k]

(* routeRow, in ascending order for every row of the set.                    *)
(* (Mutant: a row that comes before the replay is over is not kept.)         *)
RoutedUnbuffered(ids) ==
    IF stream = "live"
      THEN /\ wire' = wire \o InOrder(Passing(ids, cursor))
           /\ cursor' = Max(ids \cup {cursor})
           /\ UNCHANGED <<stream, pending, replay, start>>
      ELSE UNCHANGED <<streamVars, wire>>

Routed(ids) ==
    IF stream = "live"
      THEN /\ wire' = wire \o InOrder(Passing(ids, cursor))
           /\ cursor' = Max(ids \cup {cursor})
           /\ UNCHANGED <<stream, pending, replay, start>>
      ELSE /\ pending' = IF stream = "none" THEN pending
                         ELSE pending \cup Passing(ids, cursor)
           /\ UNCHANGED <<stream, cursor, replay, start, wire>>

(* The row of a notification arrives; fetches are not ordered.               *)
RouteNotified(id) ==
    /\ id \in notified
    /\ notified' = notified \ {id}
    /\ Routed({id})
    /\ UNCHANGED <<fanout, outboxVars, listenerVars, polled, pageVars, covered>>

(* The query for the row fails: the notification is forgotten.               *)
FetchRowFails(id) ==
    /\ Faults
    /\ id \in notified
    /\ notified' = notified \ {id}
    /\ covered' = FALSE
    /\ UNCHANGED <<fanout, outboxVars, listenerVars, polled, streamVars, wire,
                   pageVars>>

Listen ==
    /\ fanout /\ ~listening
    /\ listening' = TRUE /\ degraded' = FALSE
    /\ UNCHANGED <<fanout, outboxVars, notified, polled, streamVars, wire,
                   pageVars, covered>>

ConnectFails ==
    /\ Faults /\ fanout /\ ~listening /\ ~degraded
    /\ degraded' = TRUE
    /\ UNCHANGED <<fanout, outboxVars, notified, listening, polled, streamVars,
                   wire, pageVars, covered>>

(* Notifications that were on their way may be lost with the connection.     *)
ListenerClosed ==
    /\ Faults /\ listening
    /\ listening' = FALSE /\ degraded' = TRUE
    /\ notified' \in SUBSET notified
    /\ covered' = FALSE
    /\ UNCHANGED <<fanout, outboxVars, polled, streamVars, wire, pageVars>>

FallbackPoll ==
    /\ degraded /\ ~listening /\ polled = NoPoll /\ stream # "none"
    /\ polled' = After(cursor)
    /\ UNCHANGED <<fanout, outboxVars, notified, listenerVars, streamVars, wire,
                   pageVars, covered>>

FallbackRoute ==
    /\ polled # NoPoll
    /\ polled' = NoPoll
    /\ Routed(polled)
    /\ UNCHANGED <<fanout, outboxVars, notified, listenerVars, pageVars, covered>>

----------------------------------------------------------------------------
(* The stream.                                                              *)

(* The first rows after the cursor, at most so many.                         *)
FirstRows(n, limit) ==
    {id \in After(n) : Cardinality({j \in After(n) : j <= id}) <= limit}

(* A request with this lastEventId; the connection before it is gone with    *)
(* what it still carried.                                                    *)
Opened(from) ==
    /\ stream' = "subscribed" /\ cursor' = from /\ start' = from
    /\ pending' = {} /\ replay' = {} /\ wire' = << >>
    /\ covered' = listening

ReplayQuery ==
    /\ stream = "subscribed"
    /\ \E rows \in {FirstRows(cursor, ReplayLimit)} \cup (IF Faults THEN {{}} ELSE {}) :
         /\ replay' = rows
         /\ covered' = (covered /\ rows = After(cursor))
    /\ stream' = "replaying"
    /\ UNCHANGED <<fanout, outboxVars, notified, listenerVars, polled, cursor,
                   pending, start, wire, pageVars>>

(* Replayed rows first, then what was routed meanwhile, each once.           *)
(* (Mutant: the cursor is the next id expected.)                            *)
ReplayDoneNext ==
    /\ stream = "replaying"
    /\ stream' = "live"
    /\ LET flushed == Passing(pending, Max(replay \cup {cursor})) IN
         /\ wire' = wire \o InOrder(replay) \o InOrder(flushed)
         /\ cursor' = Max(replay \cup flushed \cup {cursor}) + 1
    /\ replay' = {} /\ pending' = {}
    /\ UNCHANGED <<fanout, outboxVars, notified, listenerVars, polled, start,
                   pageVars, covered>>

ReplayDone ==
    /\ stream = "replaying"
    /\ stream' = "live"
    /\ LET flushed == Passing(pending, Max(replay \cup {cursor})) IN
         /\ wire' = wire \o InOrder(replay) \o InOrder(flushed)
         /\ cursor' = Max(replay \cup flushed \cup {cursor})
    /\ replay' = {} /\ pending' = {}
    /\ UNCHANGED <<fanout, outboxVars, notified, listenerVars, polled, start,
                   pageVars, covered>>

(* Without fan-out the stream polls the outbox itself.                       *)
StreamPoll ==
    /\ ~fanout /\ stream = "live"
    /\ After(cursor) # {}
    /\ LET rows == FirstRows(cursor, ReplayLimit) IN
         /\ wire' = wire \o InOrder(rows)
         /\ cursor' = Max(rows)
    /\ UNCHANGED <<fanout, outboxVars, notified, listenerVars, polled, stream,
                   pending, replay, start, pageVars, covered>>

----------------------------------------------------------------------------
(* The page.                                                                *)

Asking(full) == [Idle EXCEPT !.stage = "headers", !.full = full]

(* refetchSnapshotNow: a fetch under way serves later callers as well.       *)
StartFetch(full) ==
    /\ fetch.stage = "idle"
    /\ fetch' = Asking(full)
    /\ UNCHANGED <<fanout, outboxVars, notified, listenerVars, polled,
                   streamVars, wire, page, last, view, covered>>

Bootstrap == page = "boot" /\ StartFetch(TRUE)
(* After a stall or when the page is looked at again, also beside the new    *)
(* stream.                                                                  *)
ReconnectFetch ==
    /\ page = "closed" \/ (Faults /\ page = "open")
    /\ StartFetch(TRUE)

SafetyFetch == page \in {"open", "closed"} /\ StartFetch(FALSE)

(* The headers are there and the URL is built, with the cursor of now.       *)
SendFetch ==
    /\ fetch.stage = "headers"
    /\ fetch' = [fetch EXCEPT !.stage = "asked", !.known = last]
    /\ UNCHANGED <<fanout, outboxVars, notified, listenerVars, polled,
                   streamVars, wire, page, last, view, covered>>

(* The server reads the newest id: before the rows, which it leaves out if   *)
(* the caller knows the id; beside them for a full snapshot.                 *)
ReadLatest ==
    /\ fetch.stage = "asked" /\ fetch.latest = {}
    /\ fetch' = [fetch EXCEPT !.latest = {Newest}]
    /\ UNCHANGED <<fanout, outboxVars, notified, listenerVars, polled,
                   streamVars, wire, page, last, view, covered>>

Unchanged == ~fetch.full /\ fetch.latest = {fetch.known}

ReadRows ==
    /\ fetch.stage = "asked" /\ fetch.rows = {}
    /\ fetch.full \/ (fetch.latest # {} /\ ~Unchanged)
    /\ fetch' = [fetch EXCEPT !.rows = {Rows}]
    /\ UNCHANGED <<fanout, outboxVars, notified, listenerVars, polled,
                   streamVars, wire, page, last, view, covered>>

Answered == fetch.latest # {} /\ (fetch.rows # {} \/ Unchanged)

ApplyFetch ==
    /\ fetch.stage = "asked" /\ Answered
    /\ last' = Max(fetch.latest \cup {last})
    /\ view' = IF Unchanged THEN view ELSE CHOOSE r \in fetch.rows : TRUE
    /\ page' = IF page = "boot" THEN "closed" ELSE page
    /\ fetch' = Idle
    /\ UNCHANGED <<fanout, outboxVars, notified, listenerVars, polled,
                   streamVars, wire, covered>>

FetchFails ==
    /\ Faults
    /\ fetch.stage # "idle"
    /\ fetch' = Idle
    /\ page' = IF page = "boot" THEN "fallback" ELSE page
    /\ UNCHANGED <<fanout, outboxVars, notified, listenerVars, polled,
                   streamVars, wire, last, view, covered>>

Connect ==
    /\ page = "closed"
    /\ page' = "open"
    /\ Opened(last)
    /\ UNCHANGED <<fanout, outboxVars, notified, listenerVars, polled,
                   last, view, fetch>>

(* The browser repeats the request by itself, with the URL it has.           *)
BrowserReconnects ==
    /\ Faults
    /\ page = "open"
    /\ Opened(start)
    /\ UNCHANGED <<fanout, outboxVars, notified, listenerVars, polled, pageVars>>

(* An error answer, a stall or the page becoming visible again.              *)
Close ==
    /\ Faults
    /\ page = "open"
    /\ page' = "closed"
    /\ stream' = "none" /\ pending' = {} /\ replay' = {} /\ wire' = << >>
    /\ covered' = FALSE
    /\ UNCHANGED <<fanout, outboxVars, notified, listenerVars, polled, cursor,
                   start, last, view, fetch>>

(* handleStreamMessage: the cursor moves first, then the list is read again, *)
(* unless a fetch is under way or the event belongs to another list.         *)
Handle ==
    /\ wire # << >>
    /\ LET id == Head(wire) IN
         /\ last' = IF kinds[id] = "cashout" THEN last ELSE Max({last, id})
         /\ fetch' = IF kinds[id] = "request" /\ fetch.stage = "idle"
                       THEN Asking(FALSE) ELSE fetch
    /\ wire' = Tail(wire)
    /\ UNCHANGED <<fanout, outboxVars, notified, listenerVars, polled,
                   streamVars, page, view, covered>>

----------------------------------------------------------------------------
OutboxStep == \E i \in Items : \/ \E kind \in Kinds : Insert(i, kind)
                               \/ Commit(i)
                               \/ Rollback(i)
FanoutStep == \/ \E id \in Ids : RouteNotified(id) \/ FetchRowFails(id)
              \/ Listen \/ ConnectFails \/ ListenerClosed
              \/ FallbackPoll \/ FallbackRoute
StreamStep == ReplayQuery \/ ReplayDone \/ StreamPoll
FetchStep == SendFetch \/ ReadLatest \/ ReadRows \/ ApplyFetch
PageStep == \/ Bootstrap \/ ReconnectFetch \/ SafetyFetch \/ FetchFails
            \/ Connect \/ BrowserReconnects \/ Close \/ Handle

Next == OutboxStep \/ FanoutStep \/ StreamStep \/ FetchStep \/ PageStep

Spec == Init /\ [][Next]_vars

(* Timers fire, queries are answered and the browser dispatches what comes   *)
(* in.  A safety refetch finds the page without a fetch now and again.       *)
Fairness ==
    /\ WF_vars(FetchStep) /\ WF_vars(Handle) /\ WF_vars(StreamStep)
    /\ WF_vars(\E id \in Ids : RouteNotified(id))
    /\ WF_vars(FallbackPoll) /\ WF_vars(FallbackRoute) /\ WF_vars(Listen)
    /\ WF_vars(Bootstrap) /\ WF_vars(Connect) /\ SF_vars(SafetyFetch)

FairSpec == Spec /\ Fairness
----------------------------------------------------------------------------
(* A stream sends every row once and in the order of the ids, although the   *)
(* replay, the notifications and the fallback polls bring rows in any order  *)
(* and more than once.                                                      *)
SentInOrder ==
    /\ \A j, k \in DOMAIN wire : j < k => wire[j] < wire[k]
    /\ wire # << >> => Last(wire) = cursor

(* The overlap of replay and subscription leaves no hole: if the fan-out has *)
(* listened since the stream subscribed, and no query came back empty or cut *)
(* off, then the newest event has been sent once nothing is on its way.      *)
NewestIsSent ==
    (fanout /\ covered /\ stream = "live" /\ notified = {}) => cursor >= Newest

(* "safety refetch and stall watch retained for missed events/reconnects":   *)
(* when the requests have come to rest, the page shows them in the end.      *)
PageCatchesUp == <>[](view = Rows)
=============================================================================
