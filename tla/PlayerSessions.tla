--------------------------- MODULE PlayerSessions ---------------------------
(* The single active session of a player: logins that replace or resume it, *)
(* logouts, and the two places that judge a session, the check of every API *)
(* request and the status the page polls, with what a server process caches *)
(* of them. There are several processes that share nothing but the tables:  *)
(* the module has the caches of one, which handles some of the requests and *)
(* is not told of the others.                                               *)
(*                                                                          *)
(* A login is one transaction at READ COMMITTED: each of its statements     *)
(* sees what is committed when it begins, waits for the rows it updates,    *)
(* and then looks at those rows alone again. What a transaction has written *)
(* is kept with the login until it commits. A heartbeat changes nothing but *)
(* times that no decision reads, and is left out.                           *)
(*                                                                          *)
(* Durations are in ticks. A cached answer has a remaining life and an      *)
(* ended session an age, so that no clock is needed.                        *)
EXTENDS Integers, FiniteSets

CONSTANTS
    Logins,          \* login requests, and the sessions and app sessions they draw
    Devices, DeviceOf,
    Before,          \* the login, if any, that was made before
    Requests,        \* requests whose session the process judges at a time
    NoSession,
    QueryTime,       \* how long a query may take before it is given up
    SessionLife, AppLife    \* time to live in the two caches

ASSUME SessionsAssumption ==
    /\ DeviceOf \in [Logins -> Devices]
    /\ NoSession \notin Logins /\ Before \in Logins \cup {NoSession}
    /\ QueryTime \in Nat \ {0} /\ SessionLife \in Nat \ {0} /\ AppLife \in Nat \ {0}

VARIABLES
    indexed,   \* whether the unique index on active sessions was applied
    session,   \* player_sessions_cache: status of the sessions that logins start
    age,       \* history: ticks since a session has ended
    profile,   \* players_cache.active_session_id
    app,       \* app_sessions: status
    pc, local, \* login requests
    leaving,   \* logouts of the sessions that logins have returned
    cache,     \* playerSessionAuthCache
    appCache,  \* appSessionAuthCache, with the profile that was read
    reading    \* requests that are being judged

vars == <<indexed, session, age, profile, app, pc, local, leaving, cache, appCache, reading>>
tables == <<indexed, session, age, profile, app>>
caches == <<cache, appCache>>

NoLocal == [session |-> NoSession, new |-> FALSE, seen |-> {}, ended |-> {}, apps |-> {}]
NoEntry == [verdict |-> "none", life |-> 0]
NoApp == [profile |-> NoSession, life |-> 0]
NotReading == [step |-> "idle", login |-> NoSession, status |-> FALSE,
               verdict |-> "none", wait |-> 0]
Oldest == QueryTime + SessionLife

(* The index is applied after a check for duplicates, or skipped.           *)
Init ==
    /\ indexed \in BOOLEAN
    /\ session = [s \in Logins |-> IF s = Before THEN "active" ELSE "none"]
    /\ age = [s \in Logins |-> 0]
    /\ profile = Before
    /\ app = [l \in Logins |-> IF l = Before THEN "active" ELSE "none"]
    /\ pc = [l \in Logins |-> IF l = Before THEN "done" ELSE "idle"]
    /\ local = [l \in Logins |-> IF l = Before THEN [NoLocal EXCEPT !.session = Before] ELSE NoLocal]
    /\ leaving = [l \in Logins |-> "no"]
    /\ cache = [s \in Logins |-> NoEntry]
    /\ appCache = [l \in Logins |-> NoApp]
    /\ reading = [r \in Requests |-> NotReading]

Active == {s \in Logins : session[s] = "active"}
ActiveApps == {l \in Logins : app[l] = "active"}

(* Rows that transactions have written and not yet committed.               *)
Open(l) == pc[l] \notin {"idle", "invalidate", "done"}
HoldsSession(l, s) == Open(l) /\ s \in local[l].ended
HoldsProfile(l) == Open(l) /\ local[l].new
HoldsApp(l, a) == Open(l) /\ a \in local[l].apps
Goto(l, next) == pc' = [pc EXCEPT ![l] = next]
-----------------------------------------------------------------------------
(* Login *)

(* A session of the same device, which a page also knows by its id, is      *)
(* resumed; it is read without a lock.                                      *)
Lookup(l) ==
    /\ pc[l] = "idle"
    /\ LET same == {s \in Active : DeviceOf[s] = DeviceOf[l]} IN
       \/ same = {} /\ Goto(l, "see") /\ UNCHANGED local
       \/ \E s \in same :
              Goto(l, "seeApps") /\ local' = [local EXCEPT ![l].session = s]
    /\ UNCHANGED <<tables, leaving, caches, reading>>

(* The statement that ends the previous sessions begins ...                 *)
SeeSessions(l) ==
    /\ pc[l] = "see"
    /\ local' = [local EXCEPT ![l].seen = Active]
    /\ Goto(l, "end")
    /\ UNCHANGED <<tables, leaving, caches, reading>>

(* ... and waits for their rows. One that has ended meanwhile is passed     *)
(* over, and one that has begun meanwhile is not seen.                      *)
EndPrevious(l) ==
    /\ pc[l] = "end"
    /\ \A s \in local[l].seen, m \in Logins \ {l} : ~HoldsSession(m, s)
    /\ local' = [local EXCEPT ![l].ended = local[l].seen \cap Active, ![l].seen = {}]
    /\ Goto(l, "insert")
    /\ UNCHANGED <<tables, leaving, caches, reading>>

(* Session and profile are written by one statement. With the index it      *)
(* waits for whoever may yet end or start an active session, and fails if   *)
(* one remains.                                                             *)
Insert(l) ==
    LET others == Active \ local[l].ended IN
    /\ pc[l] = "insert"
    /\ \A m \in Logins \ {l} : ~HoldsProfile(m)
    /\ indexed => \A s \in others, m \in Logins \ {l} : ~HoldsSession(m, s)
    /\ IF indexed /\ others # {}
       THEN Goto(l, "idle") /\ local' = [local EXCEPT ![l] = NoLocal]
       ELSE /\ Goto(l, "seeApps")
            /\ local' = [local EXCEPT ![l].session = l, ![l].new = TRUE]
    /\ UNCHANGED <<tables, leaving, caches, reading>>

SeeApps(l) ==
    /\ pc[l] = "seeApps"
    /\ local' = [local EXCEPT ![l].seen = ActiveApps]
    /\ Goto(l, "app")
    /\ UNCHANGED <<tables, leaving, caches, reading>>

InsertApp(l) ==
    /\ pc[l] = "app"
    /\ \A a \in local[l].seen, m \in Logins \ {l} : ~HoldsApp(m, a)
    /\ local' = [local EXCEPT ![l].apps = local[l].seen \cap ActiveApps, ![l].seen = {}]
    /\ Goto(l, "commit")
    /\ UNCHANGED <<tables, leaving, caches, reading>>

Commit(l) ==
    LET mine == local[l] IN
    /\ pc[l] = "commit"
    /\ session' = [s \in Logins |-> IF s \in mine.ended THEN "ended"
                                    ELSE IF s = l /\ mine.new THEN "active" ELSE session[s]]
    /\ profile' = IF mine.new THEN l ELSE profile
    /\ app' = [a \in Logins |-> IF a = l THEN "active"
                                ELSE IF a \in mine.apps THEN "ended" ELSE app[a]]
    /\ local' = [local EXCEPT ![l] = [NoLocal EXCEPT !.session = mine.session]]
    /\ Goto(l, "invalidate")
    /\ UNCHANGED <<indexed, age, leaving, caches, reading>>

(* The process that has handled the request forgets the player's sessions.  *)
Forget == cache' = [s \in Logins |-> NoEntry]

Invalidate(l) ==
    /\ pc[l] = "invalidate"
    /\ Forget \/ UNCHANGED cache
    /\ Goto(l, "done")
    /\ UNCHANGED <<tables, local, leaving, appCache, reading>>

(* A query or the connection fails, and the player tries again.             *)
LoginFails(l) ==
    /\ Open(l)
    /\ Goto(l, "idle")
    /\ local' = [local EXCEPT ![l] = NoLocal]
    /\ UNCHANGED <<tables, leaving, caches, reading>>
-----------------------------------------------------------------------------
(* Logout *)

(* The cache is cleared first, and the two rows are then written by two     *)
(* statements without a transaction.                                        *)
StartEnd(l) ==
    /\ pc[l] = "done" /\ leaving[l] = "no"
    /\ leaving' = [leaving EXCEPT ![l] = "session"]
    /\ Forget \/ UNCHANGED cache
    /\ UNCHANGED <<tables, pc, local, appCache, reading>>

EndSession(l) ==
    LET s == local[l].session IN
    /\ leaving[l] = "session"
    /\ \A m \in Logins : ~HoldsSession(m, s)
    /\ session' = [session EXCEPT ![s] = "ended"]
    /\ leaving' = [leaving EXCEPT ![l] = "profile"]
    /\ UNCHANGED <<indexed, age, profile, app, pc, local, caches, reading>>

(* (Mutant: the profile is cleared whatever it names.)                      *)
EndProfileBlindly(l) ==
    /\ leaving[l] = "profile"
    /\ \A m \in Logins : ~HoldsProfile(m)
    /\ profile' = NoSession
    /\ leaving' = [leaving EXCEPT ![l] = "no"]
    /\ UNCHANGED <<indexed, session, age, app, pc, local, caches, reading>>

EndProfile(l) ==
    /\ leaving[l] = "profile"
    /\ \A m \in Logins : ~HoldsProfile(m)
    /\ profile' = IF profile = local[l].session THEN NoSession ELSE profile
    /\ leaving' = [leaving EXCEPT ![l] = "no"]
    /\ UNCHANGED <<indexed, session, age, app, pc, local, caches, reading>>

(* The page, or another of the same session, may send it again.             *)
EndFails(l) ==
    /\ leaving[l] \in {"session", "profile"}
    /\ leaving' = [leaving EXCEPT ![l] = "no"]
    /\ UNCHANGED <<tables, pc, local, caches, reading>>
-----------------------------------------------------------------------------
(* Judging a session *)

(* (Mutant: the cache is kept by player and not by app session.)            *)
ProfileReadOfPlayer(l) ==
    IF \E m \in Logins : appCache[m].life > 0
    THEN appCache[CHOOSE m \in Logins : appCache[m].life > 0].profile
    ELSE profile

(* The app session is looked up, or taken with its profile from the cache.  *)
ProfileRead(l) == IF appCache[l].life > 0 THEN appCache[l].profile ELSE profile

(* A request whose session the cache does not know. (One that it knows is   *)
(* answered from it and changes nothing.)                                   *)
Missed(r, l) ==
    /\ pc[l] = "done" /\ reading[r].step = "idle"
    /\ cache[local[l].session].life = 0
    /\ appCache[l].life > 0 \/ app[l] = "active"
    /\ appCache' = IF appCache[l].life > 0 THEN appCache
                   ELSE [appCache EXCEPT ![l] = [profile |-> profile, life |-> AppLife]]

AskApi(r, l) ==
    /\ Missed(r, l)
    /\ reading' = [reading EXCEPT ![r] = [NotReading EXCEPT !.step = "row", !.login = l]]
    /\ UNCHANGED <<tables, pc, local, leaving, cache>>

(* The status goes by the profile first.                                    *)
AskStatus(r, l) ==
    LET named == ProfileRead(l) = local[l].session IN
    /\ Missed(r, l)
    /\ reading' = [reading EXCEPT ![r] =
           [step |-> IF named THEN "row" ELSE "write", login |-> l, status |-> TRUE,
            verdict |-> IF named THEN "none" ELSE "refused", wait |-> 0]]
    /\ UNCHANGED <<tables, pc, local, leaving, cache>>

(* (Mutant: the profile vouches for a session whose row has ended, and not  *)
(* only for one without a row.)                                             *)
ReadRowOrProfile(r) ==
    LET s == local[reading[r].login].session IN
    /\ reading[r].step = "row"
    /\ reading' = [reading EXCEPT ![r].step = "write",
           ![r].verdict = IF session[s] = "active" \/ profile = s THEN "ok" ELSE "refused"]
    /\ UNCHANGED <<tables, pc, local, leaving, caches>>

ReadRow(r) ==
    LET s == local[reading[r].login].session IN
    /\ reading[r].step = "row"
    /\ reading' = [reading EXCEPT ![r].step = "write",
           ![r].verdict = IF session[s] = "active" THEN "ok" ELSE "refused"]
    /\ UNCHANGED <<tables, pc, local, leaving, caches>>

(* The API check caches what it accepts, the status every answer.           *)
Write(r) ==
    LET judged == reading[r] IN
    /\ judged.step = "write"
    /\ cache' = IF judged.verdict = "ok" \/ judged.status
                THEN [cache EXCEPT ![local[judged.login].session] =
                          [verdict |-> judged.verdict, life |-> SessionLife]]
                ELSE cache
    /\ reading' = [reading EXCEPT ![r] = NotReading]
    /\ UNCHANGED <<tables, pc, local, leaving, appCache>>
-----------------------------------------------------------------------------
(* What is left of the caches a tick later.                                 *)
Older(entry, none) == IF entry.life > 1 THEN [entry EXCEPT !.life = @ - 1] ELSE none

(* (Mutant: queries are not limited.)                                       *)
TickUnlimited ==
    /\ reading' = [r \in Requests |->
           IF reading[r].step = "write" THEN [reading[r] EXCEPT !.wait = @ + 1] ELSE reading[r]]
    /\ cache' = [s \in Logins |-> Older(cache[s], NoEntry)]
    /\ appCache' = [l \in Logins |-> Older(appCache[l], NoApp)]
    /\ age' = [s \in Logins |->
           IF session[s] = "ended" /\ age[s] < Oldest THEN age[s] + 1 ELSE age[s]]
    /\ UNCHANGED <<indexed, session, profile, app, pc, local, leaving>>

(* Time passes, but a query is given up at its limit.                       *)
Tick ==
    /\ \A r \in Requests : reading[r].step = "write" => reading[r].wait < QueryTime
    /\ reading' = [r \in Requests |->
           IF reading[r].step = "write" THEN [reading[r] EXCEPT !.wait = @ + 1] ELSE reading[r]]
    /\ cache' = [s \in Logins |-> Older(cache[s], NoEntry)]
    /\ appCache' = [l \in Logins |-> Older(appCache[l], NoApp)]
    /\ age' = [s \in Logins |->
           IF session[s] = "ended" /\ age[s] < Oldest THEN age[s] + 1 ELSE age[s]]
    /\ UNCHANGED <<indexed, session, profile, app, pc, local, leaving>>

Next ==
    \/ \E l \in Logins :
           \/ Lookup(l) \/ SeeSessions(l) \/ EndPrevious(l) \/ Insert(l)
           \/ SeeApps(l) \/ InsertApp(l) \/ Commit(l) \/ LoginFails(l)
           \/ EndSession(l) \/ EndProfile(l) \/ EndFails(l)
           \/ Invalidate(l) \/ StartEnd(l)
           \/ \E r \in Requests : AskApi(r, l) \/ AskStatus(r, l)
    \/ \E r \in Requests : ReadRow(r) \/ Write(r)
    \/ Tick

Spec == Init /\ [][Next]_vars
-----------------------------------------------------------------------------
Status == {"none", "active", "ended"}
TypeOK ==
    /\ indexed \in BOOLEAN
    /\ session \in [Logins -> Status] /\ app \in [Logins -> Status]
    /\ age \in [Logins -> 0..Oldest]
    /\ profile \in Logins \cup {NoSession}
    /\ pc \in [Logins -> {"idle", "see", "end", "insert", "seeApps", "app", "commit",
                          "invalidate", "done"}]
    /\ local \in [Logins -> [session : Logins \cup {NoSession}, new : BOOLEAN,
                             seen : SUBSET Logins, ended : SUBSET Logins, apps : SUBSET Logins]]
    /\ leaving \in [Logins -> {"no", "session", "profile"}]
    /\ cache \in [Logins -> [verdict : {"none", "ok", "refused"}, life : 0..SessionLife]]
    /\ appCache \in [Logins -> [profile : Logins \cup {NoSession}, life : 0..AppLife]]
    /\ reading \in [Requests -> [step : {"idle", "row", "write"}, login : Logins \cup {NoSession},
                                 status : BOOLEAN, verdict : {"none", "ok", "refused"},
                                 wait : 0..QueryTime]]

(* Where the index was applied, logins and logouts that cross leave at most *)
(* one active session, and the profile names it: the API, which goes by the *)
(* row, and the status, which goes by the profile, then agree.              *)
ProfileNamesActive == indexed => \A s \in Active : profile = s

(* A session that was replaced or ended is refused by every process, told   *)
(* or not, once a query's time and a cache entry's life have passed.        *)
RefusedInTime ==
    \A s \in Logins :
        cache[s].verdict = "ok" /\ session[s] = "ended" => age[s] < QueryTime + SessionLife

(* The session that is active is never told that it was replaced, by a      *)
(* status answer formed from a cached profile or before a logout ran.       *)
ActiveNotRefused ==
    indexed => \A s \in Active : cache[s].verdict # "refused"
=============================================================================
