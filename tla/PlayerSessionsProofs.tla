------------------------ MODULE PlayerSessionsProofs ------------------------
(***************************************************************************)
(* Proofs about PlayerSessions for every set of logins, devices and        *)
(* requests and every duration.                                            *)
(***************************************************************************)
EXTENDS PlayerSessions, TLAPS

Returned(l) == pc[l] \in {"invalidate", "done"}

Readings == [step : {"idle", "row", "write"}, login : Logins \cup {NoSession},
             status : BOOLEAN, verdict : {"none", "ok", "refused"}, wait : 0..QueryTime]
Locals == [session : Logins \cup {NoSession}, new : BOOLEAN,
           seen : SUBSET Logins, ended : SUBSET Logins, apps : SUBSET Logins]

-----------------------------------------------------------------------------
(* Types *)

LEMMA InitTyped == Init => TypeOK
<1> SUFFICES ASSUME Init PROVE TypeOK
  OBVIOUS
<1> USE SessionsAssumption DEF Init
<1>1. session \in [Logins -> Status] /\ app \in [Logins -> Status]
  BY DEF Status
<1>2. age \in [Logins -> 0..Oldest]
  BY DEF Oldest
<1>3. pc \in [Logins -> {"idle", "see", "end", "insert", "seeApps", "app", "commit",
                         "invalidate", "done"}]
  OBVIOUS
<1>4. local \in [Logins -> Locals]
  BY DEF Locals, NoLocal
<1>5. cache \in [Logins -> [verdict : {"none", "ok", "refused"}, life : 0..SessionLife]]
  BY DEF NoEntry
<1>6. appCache \in [Logins -> [profile : Logins \cup {NoSession}, life : 0..AppLife]]
  BY DEF NoApp
<1>7. reading \in [Requests -> Readings]
  BY DEF Readings, NotReading
<1> QED
  BY <1>1, <1>2, <1>3, <1>4, <1>5, <1>6, <1>7 DEF TypeOK, Locals, Readings

LEMMA OlderSessionTyped ==
    ASSUME NEW entry \in [verdict : {"none", "ok", "refused"}, life : 0..SessionLife]
    PROVE  /\ Older(entry, NoEntry) \in [verdict : {"none", "ok", "refused"}, life : 0..SessionLife]
           /\ entry.life > 1 => /\ Older(entry, NoEntry).verdict = entry.verdict
                                /\ Older(entry, NoEntry).life = entry.life - 1
           /\ ~(entry.life > 1) => Older(entry, NoEntry) = NoEntry
BY SessionsAssumption DEF Older, NoEntry

LEMMA OlderAppTyped ==
    ASSUME NEW entry \in [profile : Logins \cup {NoSession}, life : 0..AppLife]
    PROVE  /\ Older(entry, NoApp) \in [profile : Logins \cup {NoSession}, life : 0..AppLife]
           /\ entry.life > 1 => Older(entry, NoApp).profile = entry.profile
           /\ ~(entry.life > 1) => Older(entry, NoApp) = NoApp
BY SessionsAssumption DEF Older, NoApp

LEMMA LocalChanges ==
    ASSUME NEW row \in Locals
    PROVE  /\ \A s \in Logins : [row EXCEPT !.session = s] \in Locals
           /\ \A s \in Logins : [row EXCEPT !.session = s, !.new = TRUE] \in Locals
           /\ \A S \in SUBSET Logins : /\ [row EXCEPT !.seen = S] \in Locals
                                       /\ [row EXCEPT !.ended = S, !.seen = {}] \in Locals
                                       /\ [row EXCEPT !.apps = S, !.seen = {}] \in Locals
           /\ NoLocal \in Locals
BY DEF Locals, NoLocal

LEMMA LoginTyped ==
    ASSUME TypeOK, NEW l \in Logins,
           \/ Lookup(l) \/ SeeSessions(l) \/ EndPrevious(l) \/ Insert(l)
           \/ SeeApps(l) \/ InsertApp(l) \/ LoginFails(l)
    PROVE  TypeOK'
<1>1. local \in [Logins -> Locals] /\ local[l] \in Locals
  BY DEF TypeOK, Locals
<1>2. Active \subseteq Logins /\ ActiveApps \subseteq Logins
  BY DEF Active, ActiveApps
<1>3. local' \in [Logins -> Locals]
  <2>1. CASE Lookup(l)
    <3>1. PICK s \in Logins : local' = local \/ local' = [local EXCEPT ![l] = [@ EXCEPT !.session = s]]
      BY <1>2, <2>1 DEF Lookup
    <3> QED
      BY <1>1, <3>1, LocalChanges
  <2>2. CASE SeeSessions(l)
    BY <1>1, <1>2, <2>2, LocalChanges DEF SeeSessions
  <2>3. CASE EndPrevious(l)
    <3>1. local[l].seen \cap Active \subseteq Logins
      BY <1>2
    <3> QED
      BY <1>1, <2>3, <3>1, LocalChanges DEF EndPrevious
  <2>4. CASE Insert(l)
    BY <1>1, <2>4, LocalChanges DEF Insert
  <2>5. CASE SeeApps(l)
    BY <1>1, <1>2, <2>5, LocalChanges DEF SeeApps
  <2>6. CASE InsertApp(l)
    <3>1. local[l].seen \cap ActiveApps \subseteq Logins
      BY <1>2
    <3> QED
      BY <1>1, <2>6, <3>1, LocalChanges DEF InsertApp
  <2>7. CASE LoginFails(l)
    BY <1>1, <2>7, LocalChanges DEF LoginFails
  <2> QED
    BY <2>1, <2>2, <2>3, <2>4, <2>5, <2>6, <2>7
<1>4. pc' \in [Logins -> {"idle", "see", "end", "insert", "seeApps", "app", "commit",
                          "invalidate", "done"}]
  <2>1. \E next \in {"idle", "see", "end", "insert", "seeApps", "app", "commit"} : Goto(l, next)
    BY DEF Lookup, SeeSessions, EndPrevious, Insert, SeeApps, InsertApp, LoginFails
  <2> QED
    BY <2>1 DEF TypeOK, Goto
<1>5. UNCHANGED <<tables, leaving, caches, reading>>
  BY DEF Lookup, SeeSessions, EndPrevious, Insert, SeeApps, InsertApp, LoginFails
<1> QED
  BY <1>3, <1>4, <1>5 DEF TypeOK, Locals, tables, caches

LEMMA CommitTyped ==
    ASSUME TypeOK, NEW l \in Logins, Commit(l)
    PROVE  TypeOK'
BY DEF TypeOK, Commit, Goto, caches, Status, NoLocal

LEMMA EndTyped ==
    ASSUME TypeOK, NEW l \in Logins,
           Invalidate(l) \/ StartEnd(l) \/ EndSession(l) \/ EndProfile(l) \/ EndFails(l)
    PROVE  TypeOK'
<1> USE DEF TypeOK, Goto, tables, caches, Status
<1>1. CASE Invalidate(l)
  BY <1>1, SessionsAssumption DEF Invalidate, Forget, NoEntry
<1>2. CASE StartEnd(l)
  BY <1>2, SessionsAssumption DEF StartEnd, Forget, NoEntry
<1>3. CASE EndSession(l)
  BY <1>3 DEF EndSession
<1>4. CASE EndProfile(l)
  BY <1>4 DEF EndProfile
<1>5. CASE EndFails(l)
  BY <1>5 DEF EndFails
<1> QED
  BY <1>1, <1>2, <1>3, <1>4, <1>5

LEMMA JudgeTyped ==
    ASSUME TypeOK, NEW r \in Requests,
           \/ \E l \in Logins : AskApi(r, l) \/ AskStatus(r, l)
           \/ ReadRow(r) \/ Write(r)
    PROVE  TypeOK'
<1> USE DEF TypeOK, tables, caches
<1>1. ASSUME NEW l \in Logins, AskApi(r, l) \/ AskStatus(r, l)
      PROVE  TypeOK'
  <2>1. appCache' \in [Logins -> [profile : Logins \cup {NoSession}, life : 0..AppLife]]
    <3>1. [profile |-> profile, life |-> AppLife]
              \in [profile : Logins \cup {NoSession}, life : 0..AppLife]
      BY SessionsAssumption
    <3>2. Missed(r, l)
      BY <1>1 DEF AskApi, AskStatus
    <3> QED
      BY <3>1, <3>2 DEF Missed
  <2>2. reading' \in [Requests -> Readings]
    <3>1. CASE AskApi(r, l)
      <4>1. NotReading \in Readings
        BY SessionsAssumption DEF NotReading, Readings
      <4>2. [NotReading EXCEPT !.step = "row", !.login = l] \in Readings
        BY <4>1 DEF Readings
      <4> QED
        BY <3>1, <4>2 DEF AskApi, Readings
    <3>2. CASE AskStatus(r, l)
      <4>1. \A named \in BOOLEAN :
                [step |-> IF named THEN "row" ELSE "write", login |-> l, status |-> TRUE,
                 verdict |-> IF named THEN "none" ELSE "refused", wait |-> 0] \in Readings
        BY SessionsAssumption DEF Readings
      <4> QED
        BY <3>2, <4>1 DEF AskStatus, Readings
    <3> QED
      BY <1>1, <3>1, <3>2
  <2> QED
    BY <1>1, <2>1, <2>2 DEF AskApi, AskStatus, Readings
<1>3. CASE ReadRow(r)
  <2>1. reading[r] \in Readings
    BY DEF Readings
  <2>2. \A v \in {"ok", "refused"} :
            [reading[r] EXCEPT !.step = "write", !.verdict = v] \in Readings
    BY <2>1 DEF Readings
  <2>3. reading' \in [Requests -> Readings]
    BY <1>3, <2>2 DEF ReadRow, Readings
  <2> QED
    BY <1>3, <2>3 DEF ReadRow, Readings
<1>4. CASE Write(r)
  <2>1. reading[r] \in Readings /\ NotReading \in Readings
    BY SessionsAssumption DEF Readings, NotReading
  <2>2. reading' \in [Requests -> Readings]
    BY <1>4, <2>1 DEF Write, Readings
  <2>3. [verdict |-> reading[r].verdict, life |-> SessionLife]
            \in [verdict : {"none", "ok", "refused"}, life : 0..SessionLife]
    BY <2>1, SessionsAssumption DEF Readings
  <2>4. cache' \in [Logins -> [verdict : {"none", "ok", "refused"}, life : 0..SessionLife]]
    BY <1>4, <2>3 DEF Write
  <2> QED
    BY <1>4, <2>2, <2>4 DEF Write, Readings
<1> QED
  BY <1>1, <1>3, <1>4

LEMMA TickTyped ==
    ASSUME TypeOK, Tick
    PROVE  TypeOK'
<1> USE DEF TypeOK, Tick
<1>1. cache' \in [Logins -> [verdict : {"none", "ok", "refused"}, life : 0..SessionLife]]
  BY OlderSessionTyped
<1>2. appCache' \in [Logins -> [profile : Logins \cup {NoSession}, life : 0..AppLife]]
  BY OlderAppTyped
<1>3. age' \in [Logins -> 0..Oldest]
  BY SessionsAssumption DEF Oldest
<1>4. ASSUME NEW r \in Requests
      PROVE  reading'[r] \in Readings
  <2>1. reading[r] \in Readings
    BY DEF Readings
  <2>2. reading[r].step = "write" => reading[r].wait + 1 \in 0..QueryTime
    <3>1. reading[r].wait \in 0..QueryTime
      BY <2>1 DEF Readings
    <3>2. reading[r].step = "write" => reading[r].wait < QueryTime
      OBVIOUS
    <3> QED
      BY <3>1, <3>2, SessionsAssumption
  <2>3. reading[r].step = "write" => [reading[r] EXCEPT !.wait = @ + 1] \in Readings
    BY <2>1, <2>2 DEF Readings
  <2> QED
    BY <2>1, <2>3
<1>5. reading' \in [Requests -> Readings]
  BY <1>4
<1> QED
  BY <1>1, <1>2, <1>3, <1>5 DEF Readings

(* The variables keep their types: no cached answer outlives its time, and  *)
(* no query its limit.                                                      *)
THEOREM TypeCorrect == Spec => []TypeOK
<1>1. TypeOK /\ [Next]_vars => TypeOK'
  <2> SUFFICES ASSUME TypeOK, [Next]_vars PROVE TypeOK'
    OBVIOUS
  <2>1. CASE UNCHANGED vars
    BY <2>1 DEF TypeOK, vars
  <2>2. CASE Next
    BY <2>2, LoginTyped, CommitTyped, EndTyped, JudgeTyped, TickTyped DEF Next
  <2> QED
    BY <2>1, <2>2
<1> QED
  BY InitTyped, <1>1, PTL DEF Spec
-----------------------------------------------------------------------------
(* Logins and logouts *)

(* What a login has done by the place it has come to. A session is its own  *)
(* from the commit on, and it never starts again one that has ended.        *)
Stage(l) ==
    /\ session[l] # "none" => Returned(l)
    /\ local[l].new => pc[l] \in {"seeApps", "app", "commit"} /\ local[l].session = l
    /\ local[l].ended # {} => pc[l] = "insert" \/ local[l].new
    /\ \A s \in local[l].ended : session[s] # "none"
    /\ pc[l] \in {"seeApps", "app", "commit"} =>
         local[l].new \/ (local[l].session \in Logins /\ session[local[l].session] # "none")
    /\ Returned(l) => local[l].session \in Logins /\ session[local[l].session] # "none"
    /\ leaving[l] # "no" => pc[l] = "done"
    /\ leaving[l] = "profile" => session[local[l].session] = "ended"

(* One login at a time has written the profile, and it has ended whatever   *)
(* was active.                                                              *)
OneWriter == \A l, m \in Logins : local[l].new /\ local[m].new => l = m
AllEnded == indexed => \A l \in Logins : local[l].new => Active \subseteq local[l].ended

LoginInv ==
    /\ \A l \in Logins : Stage(l)
    /\ OneWriter
    /\ AllEnded
    /\ ProfileNamesActive

LEMMA InitLogins == Init => LoginInv
BY SessionsAssumption
DEF Init, LoginInv, Stage, OneWriter, AllEnded, ProfileNamesActive, Active, Returned, NoLocal

LEMMA LoginKeepsLogins ==
    ASSUME TypeOK, LoginInv, NEW l \in Logins,
           \/ Lookup(l) \/ SeeSessions(l) \/ EndPrevious(l) \/ Insert(l)
           \/ SeeApps(l) \/ InsertApp(l) \/ LoginFails(l)
    PROVE  LoginInv'
<1>1. /\ UNCHANGED <<tables, leaving>>
      /\ Active' = Active
      /\ \A m \in Logins \ {l} : pc'[m] = pc[m] /\ local'[m] = local[m]
  BY DEF TypeOK, Lookup, SeeSessions, EndPrevious, Insert, SeeApps, InsertApp, LoginFails,
         Goto, tables, Active
<1>2. \A m \in Logins \ {l} : Stage(m)'
  BY <1>1 DEF LoginInv, Stage, Returned, tables
<1>3. /\ Stage(l)'
      /\ local'[l].new => local[l].new \/ Insert(l)
      /\ local'[l].new /\ ~Insert(l) => local'[l].ended = local[l].ended
  <2>1. Stage(l)
    BY DEF LoginInv
  <2>2. leaving[l] = "no" /\ ~Returned(l) /\ session[l] = "none"
    BY <2>1 DEF Lookup, SeeSessions, EndPrevious, Insert, SeeApps, InsertApp, LoginFails,
                Open, Stage, Returned
  <2>3. CASE Lookup(l)
    <3>1. /\ local'[l].new = local[l].new /\ local'[l].ended = local[l].ended
          /\ pc'[l] = "see" \/ (pc'[l] = "seeApps" /\ local'[l].session \in Active)
      BY <2>3 DEF Lookup, Goto, TypeOK
    <3> QED
      BY <1>1, <2>1, <2>2, <2>3, <3>1 DEF Lookup, Stage, Returned, Active, tables, Insert
  <2>4. CASE SeeSessions(l)
    <3>1. /\ local'[l].new = local[l].new /\ local'[l].ended = local[l].ended
          /\ pc'[l] = "end"
      BY <2>4 DEF SeeSessions, Goto, TypeOK
    <3> QED
      BY <1>1, <2>1, <2>2, <2>4, <3>1 DEF SeeSessions, Stage, Returned, tables
  <2>5. CASE EndPrevious(l)
    <3>1. /\ local'[l].new = local[l].new /\ local'[l].ended \subseteq Active
          /\ pc[l] = "end" /\ pc'[l] = "insert"
      BY <2>5 DEF EndPrevious, Goto, TypeOK
    <3>2. \A s \in Active : session[s] # "none"
      BY DEF Active
    <3> QED
      BY <1>1, <2>1, <2>2, <2>5, <3>1, <3>2 DEF EndPrevious, Stage, Returned, tables
  <2>6. CASE Insert(l)
    <3>1. \/ pc'[l] = "idle" /\ local'[l] = NoLocal
          \/ /\ pc'[l] = "seeApps" /\ local'[l].new /\ local'[l].session = l
             /\ local'[l].ended = local[l].ended
      BY <2>6 DEF Insert, Goto, TypeOK
    <3> QED
      BY <1>1, <2>1, <2>2, <2>6, <3>1 DEF Stage, Returned, tables, NoLocal
  <2>7. CASE SeeApps(l) \/ InsertApp(l)
    <3>1. /\ local'[l].new = local[l].new /\ local'[l].ended = local[l].ended
          /\ local'[l].session = local[l].session
          /\ pc[l] \in {"seeApps", "app"} /\ pc'[l] \in {"app", "commit"}
      BY <2>7 DEF SeeApps, InsertApp, Goto, TypeOK
    <3> QED
      BY <1>1, <2>1, <2>2, <3>1 DEF Stage, Returned, tables
  <2>8. CASE LoginFails(l)
    <3>1. local'[l] = NoLocal /\ pc'[l] = "idle"
      BY <2>8 DEF LoginFails, Goto, TypeOK
    <3> QED
      BY <1>1, <2>1, <2>2, <3>1 DEF Stage, Returned, tables, NoLocal
  <2> QED
    BY <2>3, <2>4, <2>5, <2>6, <2>7, <2>8
<1>4. ASSUME Insert(l), local'[l].new
      PROVE  /\ \A m \in Logins \ {l} : ~local[m].new
             /\ indexed => Active \subseteq local'[l].ended
  <2>1. pc[l] = "insert" /\ ~local[l].new
    BY <1>4 DEF Insert, LoginInv, Stage
  <2>2. \A m \in Logins \ {l} : ~local[m].new
    BY <1>4 DEF Insert, HoldsProfile, Open, LoginInv, Stage
  <2>3. /\ indexed => Active \ local[l].ended = {}
        /\ local'[l].ended = local[l].ended
    BY <1>4, <2>1 DEF Insert, TypeOK, NoLocal
  <2> QED
    BY <2>2, <2>3
<1>5. OneWriter'
  BY <1>1, <1>3, <1>4 DEF LoginInv, OneWriter
<1>6. AllEnded'
  BY <1>1, <1>3, <1>4 DEF LoginInv, AllEnded, tables
<1>7. ProfileNamesActive'
  BY <1>1 DEF LoginInv, ProfileNamesActive, tables
<1> QED
  BY <1>2, <1>3, <1>5, <1>6, <1>7 DEF LoginInv

(* A commit ends sessions and starts the login's own, if it is new.         *)
LEMMA CommitChanges ==
    ASSUME TypeOK, LoginInv, NEW l \in Logins, Commit(l)
    PROVE  /\ \A s \in Logins : session[s] = "ended" => session'[s] = "ended"
           /\ \A s \in Logins : session[s] # "none" => session'[s] # "none"
           /\ \A s \in Logins \ {l} : session'[s] # "none" => session[s] # "none"
           /\ ~local[l].new => session' = session /\ profile' = profile
           /\ local[l].new => profile' = l /\ session'[l] # "none"
           /\ local[l].new /\ indexed => Active' \subseteq {l}
           /\ \A m \in Logins \ {l} : pc'[m] = pc[m] /\ local'[m] = local[m]
           /\ local'[l] = [NoLocal EXCEPT !.session = local[l].session]
           /\ pc'[l] = "invalidate" /\ pc[l] = "commit"
           /\ session[l] = "none"
<1>1. /\ pc[l] = "commit" /\ session[l] = "none"
      /\ ~local[l].new => local[l].ended = {}
      /\ \A s \in local[l].ended : session[s] # "none"
  BY DEF Commit, LoginInv, Stage, Returned
<1>2. \A s \in Logins : session'[s] = IF s \in local[l].ended THEN "ended"
                                     ELSE IF s = l /\ local[l].new THEN "active" ELSE session[s]
  BY DEF Commit
<1>3. ~local[l].new => session' = session /\ profile' = profile
  BY <1>1 DEF Commit, TypeOK
<1>4. ASSUME local[l].new, indexed
      PROVE  Active' \subseteq {l}
  BY <1>2, <1>4 DEF LoginInv, AllEnded, Active
<1>5. \A m \in Logins \ {l} : pc'[m] = pc[m] /\ local'[m] = local[m]
  BY DEF Commit, Goto, TypeOK
<1>6. local'[l] = [NoLocal EXCEPT !.session = local[l].session] /\ pc'[l] = "invalidate"
  BY DEF Commit, Goto, TypeOK
<1>7. local[l].new => profile' = l
  BY DEF Commit
<1> QED
  BY <1>1, <1>2, <1>3, <1>4, <1>5, <1>6, <1>7

LEMMA CommitKeepsLogins ==
    ASSUME TypeOK, LoginInv, NEW l \in Logins, Commit(l)
    PROVE  LoginInv'
<1>1. leaving' = leaving /\ indexed' = indexed
  BY DEF Commit
<1>2. ASSUME NEW m \in Logins \ {l}
      PROVE  Stage(m)'
  <2>1. Stage(m)
    BY DEF LoginInv
  <2>2. session'[m] # "none" => Returned(m)
    BY CommitChanges, <1>2, <2>1 DEF Stage
  <2>3. /\ pc'[m] = pc[m] /\ local'[m] = local[m]
        /\ \A s \in Logins : session[s] = "ended" => session'[s] = "ended"
        /\ \A s \in Logins : session[s] # "none" => session'[s] # "none"
    BY CommitChanges
  <2>4. local[m].ended \subseteq Logins
    BY DEF TypeOK
  <2> QED
    BY <1>1, <2>1, <2>2, <2>3, <2>4 DEF Stage, Returned
<1>3. Stage(l)'
  <2>1. Stage(l) /\ leaving[l] = "no"
    BY CommitChanges DEF LoginInv, Stage
  <2>2. local[l].session \in Logins /\ session'[local[l].session] # "none"
    BY <2>1, CommitChanges DEF Stage
  <2>3. /\ local'[l].session = local[l].session
        /\ ~local'[l].new
        /\ local'[l].ended = {}
    BY CommitChanges DEF NoLocal
  <2> QED
    BY <1>1, <2>1, <2>2, <2>3, CommitChanges DEF Stage, Returned
<1>4. ~local'[l].new
  BY CommitChanges DEF NoLocal
<1>5. OneWriter'
  <2>1. \A m \in Logins : local'[m].new => local[m].new
    BY <1>4, CommitChanges
  <2> QED
    BY <2>1 DEF LoginInv, OneWriter
<1>6. AllEnded'
  <2>1. CASE local[l].new
    BY <1>4, <2>1, CommitChanges DEF LoginInv, OneWriter, AllEnded
  <2>2. CASE ~local[l].new
    <3>1. Active' = Active
      BY <2>2, CommitChanges DEF Active
    <3> QED
      BY <1>1, <1>4, <3>1, CommitChanges DEF LoginInv, AllEnded
  <2> QED
    BY <2>1, <2>2
<1>7. ProfileNamesActive'
  <2>1. CASE local[l].new
    BY <1>1, <2>1, CommitChanges DEF ProfileNamesActive
  <2>2. CASE ~local[l].new
    <3>1. Active' = Active /\ profile' = profile
      BY <2>2, CommitChanges DEF Active
    <3> QED
      BY <1>1, <3>1 DEF LoginInv, ProfileNamesActive
  <2> QED
    BY <2>1, <2>2
<1> QED
  BY <1>2, <1>3, <1>5, <1>6, <1>7 DEF LoginInv

LEMMA EndKeepsLogins ==
    ASSUME TypeOK, LoginInv, NEW l \in Logins,
           Invalidate(l) \/ StartEnd(l) \/ EndSession(l) \/ EndProfile(l) \/ EndFails(l)
    PROVE  LoginInv'
<1> USE DEF TypeOK, LoginInv, Stage, Returned, OneWriter, AllEnded, ProfileNamesActive, Active,
            tables, Goto
<1>1. CASE Invalidate(l)
  BY <1>1 DEF Invalidate
<1>2. CASE StartEnd(l)
  BY <1>2 DEF StartEnd
<1>3. CASE EndSession(l)
  BY <1>3 DEF EndSession
<1>4. CASE EndProfile(l)
  BY <1>4 DEF EndProfile
<1>5. CASE EndFails(l)
  BY <1>5 DEF EndFails
<1> QED
  BY <1>1, <1>2, <1>3, <1>4, <1>5

LEMMA LoginInvStep == TypeOK /\ LoginInv /\ [Next]_vars => LoginInv'
<1> SUFFICES ASSUME TypeOK, LoginInv, [Next]_vars PROVE LoginInv'
  OBVIOUS
<1>1. ASSUME UNCHANGED <<indexed, session, profile, pc, local, leaving>>
      PROVE  LoginInv'
  BY <1>1 DEF LoginInv, Stage, Returned, OneWriter, AllEnded, ProfileNamesActive, Active
<1>2. CASE UNCHANGED vars
  BY <1>1, <1>2 DEF vars
<1>3. ASSUME NEW r \in Requests,
             (\E l \in Logins : AskApi(r, l) \/ AskStatus(r, l)) \/ ReadRow(r) \/ Write(r)
      PROVE  LoginInv'
  BY <1>1, <1>3 DEF AskApi, AskStatus, ReadRow, Write, tables
<1>4. CASE Tick
  BY <1>1, <1>4 DEF Tick
<1> QED
  BY <1>2, <1>3, <1>4, LoginKeepsLogins, CommitKeepsLogins, EndKeepsLogins DEF Next

(* With the index, an active session is the one the profile names.          *)
THEOREM ActiveIsNamed == Spec => []ProfileNamesActive
<1>1. LoginInv => ProfileNamesActive
  BY DEF LoginInv
<1> QED
  BY InitLogins, LoginInvStep, TypeCorrect, <1>1, PTL DEF Spec
-----------------------------------------------------------------------------
(* Answers and what is cached of them *)

(* An answer under way is about a session that has begun. One that refuses  *)
(* it has found it ended, and one that accepts it is not younger than the   *)
(* end of the session.                                                      *)
Answer(r) ==
    LET judged == reading[r]
        s == local[judged.login].session IN
    judged.step # "idle" =>
        /\ judged.login \in Logins /\ pc[judged.login] = "done"
        /\ judged.step = "write" /\ judged.verdict = "refused" /\ indexed => session[s] = "ended"
        /\ judged.step = "write" /\ judged.verdict = "ok" /\ session[s] = "ended"
               => age[s] <= judged.wait

Entry(s) ==
    /\ cache[s].verdict = "refused" /\ indexed => session[s] = "ended"
    /\ cache[s].verdict # "none" => cache[s].life > 0
    /\ cache[s].verdict = "ok" /\ session[s] = "ended"
           => age[s] + cache[s].life <= QueryTime + SessionLife

(* A cached profile names the session of its login for as long as that is   *)
(* active.                                                                  *)
AppEntry(l) ==
    appCache[l].life > 0 =>
        /\ pc[l] = "done"
        /\ indexed /\ session[local[l].session] = "active"
               => appCache[l].profile = local[l].session

AnswerInv ==
    /\ \A s \in Logins : session[s] # "ended" => age[s] = 0
    /\ \A s \in Logins : Entry(s)
    /\ \A l \in Logins : AppEntry(l)
    /\ \A r \in Requests : Answer(r)

LEMMA InitAnswers == Init => AnswerInv
BY SessionsAssumption
DEF Init, AnswerInv, Entry, AppEntry, Answer, NoEntry, NoApp, NotReading

LEMMA AnswersImply == TypeOK /\ AnswerInv => RefusedInTime /\ ActiveNotRefused
<1> SUFFICES ASSUME TypeOK, AnswerInv PROVE RefusedInTime /\ ActiveNotRefused
  OBVIOUS
<1>1. ASSUME NEW s \in Logins
      PROVE  /\ cache[s].life \in Nat /\ age[s] \in Nat
             /\ cache[s].verdict = "ok" /\ session[s] = "ended" => age[s] < QueryTime + SessionLife
             /\ indexed /\ session[s] = "active" => cache[s].verdict # "refused"
  <2>1. Entry(s) /\ cache[s].life \in Nat /\ age[s] \in Nat
    BY SessionsAssumption DEF TypeOK, AnswerInv, Oldest
  <2> QED
    BY <2>1, SessionsAssumption DEF Entry
<1> QED
  BY <1>1 DEF RefusedInTime, ActiveNotRefused, Active

(* What a login or a logout does to sessions, seen by the answers: those    *)
(* that have begun stay begun, only end, and the logins that have returned  *)
(* keep their session.                                                      *)
Onward ==
    /\ \A s \in Logins : /\ session[s] = "ended" => session'[s] = "ended"
                         /\ session[s] # "none" /\ session'[s] = "active" => session[s] = "active"
                         /\ session[s] # "none" => session'[s] # "none"
    /\ \A l \in Logins : pc[l] = "done" => pc'[l] = "done" /\ local'[l] = local[l]

LEMMA TablesMoveOn ==
    ASSUME TypeOK, LoginInv, NEW l \in Logins,
           \/ Lookup(l) \/ SeeSessions(l) \/ EndPrevious(l) \/ Insert(l)
           \/ SeeApps(l) \/ InsertApp(l) \/ LoginFails(l) \/ Commit(l)
           \/ Invalidate(l) \/ StartEnd(l) \/ EndSession(l) \/ EndProfile(l) \/ EndFails(l)
    PROVE  /\ Onward
           /\ UNCHANGED <<indexed, age, appCache, reading>>
           /\ cache' = cache \/ Forget
<1>1. UNCHANGED <<indexed, age, appCache, reading>>
  BY DEF Lookup, SeeSessions, EndPrevious, Insert, SeeApps, InsertApp, LoginFails, Commit,
         Invalidate, StartEnd, EndSession, EndProfile, EndFails, tables, caches
<1>2. cache' = cache \/ Forget
  BY DEF Lookup, SeeSessions, EndPrevious, Insert, SeeApps, InsertApp, LoginFails, Commit,
         Invalidate, StartEnd, EndSession, EndProfile, EndFails, tables, caches
<1>3. CASE Commit(l)
  <2>1. /\ \A s \in Logins : session[s] = "ended" => session'[s] = "ended"
        /\ \A s \in Logins : session[s] # "none" => session'[s] # "none"
        /\ \A m \in Logins \ {l} : pc'[m] = pc[m] /\ local'[m] = local[m]
        /\ pc[l] = "commit"
    BY <1>3, CommitChanges
  <2>2. \A s \in Logins : session[s] \in Status
    BY DEF TypeOK
  <2> QED
    BY <1>1, <1>2, <2>1, <2>2 DEF Onward, Status
<1>4. CASE EndSession(l)
  <2>1. \A s \in Logins : session'[s] = session[s] \/ session'[s] = "ended"
    BY <1>4 DEF EndSession, TypeOK
  <2>2. pc' = pc /\ local' = local
    BY <1>4 DEF EndSession
  <2> QED
    BY <1>1, <1>2, <2>1, <2>2 DEF Onward
<1>5. CASE ~Commit(l) /\ ~EndSession(l)
  <2>1. session' = session
    BY <1>5 DEF Lookup, SeeSessions, EndPrevious, Insert, SeeApps, InsertApp, LoginFails,
                Invalidate, StartEnd, EndProfile, EndFails, tables
  <2>2. \A m \in Logins : pc[m] = "done" => pc'[m] = "done" /\ local'[m] = local[m]
    BY <1>5 DEF Lookup, SeeSessions, EndPrevious, Insert, SeeApps, InsertApp, LoginFails,
                Invalidate, StartEnd, EndProfile, EndFails, Goto, TypeOK, Open
  <2> QED
    BY <1>1, <1>2, <2>1, <2>2 DEF Onward
<1> QED
  BY <1>3, <1>4, <1>5

LEMMA OnwardKeepsAnswers ==
    ASSUME TypeOK, LoginInv, AnswerInv, Onward,
           UNCHANGED <<indexed, age, appCache, reading>>, cache' = cache \/ Forget
    PROVE  AnswerInv'
<1>1. ASSUME NEW l \in Logins, pc[l] = "done"
      PROVE  /\ local[l].session \in Logins /\ session[local[l].session] # "none"
             /\ pc'[l] = "done" /\ local'[l] = local[l]
  BY <1>1 DEF LoginInv, Stage, Returned, Onward
<1>2. ASSUME NEW s \in Logins
      PROVE  /\ session'[s] # "ended" => age'[s] = 0
             /\ session[s] # "ended" => age[s] = 0
  BY DEF AnswerInv, Onward
<1>3. ASSUME NEW s \in Logins
      PROVE  Entry(s)'
  <2>1. Entry(s)
    BY DEF AnswerInv
  <2>2. CASE Forget
    BY <2>2 DEF Forget, Entry, NoEntry
  <2>3. CASE cache' = cache
    <3>1. /\ cache[s].life \in 0..SessionLife
          /\ session[s] = "ended" => session'[s] = "ended"
      BY DEF TypeOK, Onward
    <3>2. session[s] # "ended" => age[s] + cache[s].life <= QueryTime + SessionLife
      BY <1>2, <3>1, SessionsAssumption
    <3> QED
      BY <2>1, <2>3, <3>1, <3>2 DEF Entry
  <2> QED
    BY <2>2, <2>3
<1>4. ASSUME NEW l \in Logins
      PROVE  AppEntry(l)'
  <2>1. AppEntry(l)
    BY DEF AnswerInv
  <2>2. CASE appCache[l].life > 0
    <3>1. pc[l] = "done"
      BY <2>1, <2>2 DEF AppEntry
    <3>2. session'[local[l].session] = "active" => session[local[l].session] = "active"
      BY <1>1, <3>1 DEF Onward
    <3> QED
      BY <1>1, <2>1, <2>2, <3>1, <3>2 DEF AppEntry
  <2>3. CASE ~(appCache[l].life > 0)
    BY <2>3 DEF AppEntry
  <2> QED
    BY <2>2, <2>3
<1>5. ASSUME NEW r \in Requests
      PROVE  Answer(r)'
  <2> DEFINE l == reading[r].login
             s == local[l].session
  <2>1. Answer(r)
    BY DEF AnswerInv
  <2>2. CASE reading[r].step # "idle"
    <3>1. l \in Logins /\ pc[l] = "done"
      BY <2>1, <2>2 DEF Answer
    <3>2. s \in Logins /\ local'[l] = local[l] /\ pc'[l] = "done"
      BY <1>1, <3>1
    <3>3. session[s] = "ended" => session'[s] = "ended"
      BY <3>2 DEF Onward
    <3>4. reading[r].wait \in Nat
      BY SessionsAssumption DEF TypeOK
    <3> HIDE DEF s
    <3> QED
      BY <1>2, <2>1, <2>2, <3>1, <3>2, <3>3, <3>4 DEF Answer, s
  <2>3. CASE reading[r].step = "idle"
    BY <2>3 DEF Answer
  <2> QED
    BY <2>2, <2>3
<1> QED
  BY <1>2, <1>3, <1>4, <1>5 DEF AnswerInv

LEMMA AskKeepsAnswers ==
    ASSUME TypeOK, LoginInv, AnswerInv, NEW r \in Requests, NEW l \in Logins,
           AskApi(r, l) \/ AskStatus(r, l)
    PROVE  AnswerInv'
<1>1. /\ Missed(r, l)
      /\ UNCHANGED <<tables, pc, local, leaving, cache>>
  BY DEF AskApi, AskStatus
<1>2. /\ pc[l] = "done" /\ local[l].session \in Logins
      /\ session[local[l].session] \in {"active", "ended"}
      /\ indexed /\ session[local[l].session] = "active" => profile = local[l].session
  <2>1. pc[l] = "done"
    BY <1>1 DEF Missed
  <2>2. local[l].session \in Logins /\ session[local[l].session] # "none"
    BY <2>1 DEF LoginInv, Stage, Returned
  <2>3. session[local[l].session] \in Status
    BY <2>2 DEF TypeOK
  <2> QED
    BY <2>1, <2>2, <2>3 DEF Status, LoginInv, ProfileNamesActive, Active
<1>3. ASSUME NEW s \in Logins
      PROVE  Entry(s)' /\ (session'[s] # "ended" => age'[s] = 0)
  BY <1>1 DEF AnswerInv, Entry, tables
<1>4. ASSUME NEW m \in Logins
      PROVE  AppEntry(m)'
  <2>1. AppEntry(m)
    BY DEF AnswerInv
  <2>2. \/ appCache'[m] = appCache[m]
        \/ (m = l /\ appCache'[m] = [profile |-> profile, life |-> AppLife])
    <3>1. m \in DOMAIN appCache
      BY DEF TypeOK
    <3>2. CASE appCache[l].life > 0
      BY <1>1, <3>2 DEF Missed
    <3>3. CASE ~(appCache[l].life > 0)
      <4>1. appCache' = [appCache EXCEPT ![l] = [profile |-> profile, life |-> AppLife]]
        BY <1>1, <3>3 DEF Missed
      <4> QED
        BY <3>1, <4>1
    <3> QED
      BY <3>2, <3>3
  <2> QED
    BY <1>1, <1>2, <2>1, <2>2 DEF AppEntry, tables
<1>5. ProfileRead(l) # local[l].session /\ indexed => session[local[l].session] = "ended"
  BY <1>2 DEF ProfileRead, AnswerInv, AppEntry
<1>6. ASSUME NEW q \in Requests
      PROVE  Answer(q)'
  <2>1. Answer(q)
    BY DEF AnswerInv
  <2>2. CASE q # r
    <3>1. reading'[q] = reading[q]
      BY <2>2 DEF AskApi, AskStatus, TypeOK
    <3> QED
      BY <1>1, <2>1, <3>1 DEF Answer, tables
  <2>3. CASE q = r
    <3>1. \/ /\ reading'[q].step = "row" /\ reading'[q].login = l
          \/ /\ reading'[q].step = "write" /\ reading'[q].login = l
             /\ reading'[q].verdict = "refused"
             /\ ProfileRead(l) # local[l].session
      <4>1. r \in DOMAIN reading
        BY DEF TypeOK
      <4>2. CASE AskApi(r, l)
        BY <2>3, <4>1, <4>2 DEF AskApi, NotReading
      <4>3. CASE AskStatus(r, l) /\ ProfileRead(l) = local[l].session
        BY <2>3, <4>1, <4>3 DEF AskStatus
      <4>4. CASE AskStatus(r, l) /\ ProfileRead(l) # local[l].session
        BY <2>3, <4>1, <4>4 DEF AskStatus
      <4> QED
        BY <4>2, <4>3, <4>4
    <3> QED
      BY <1>1, <1>2, <1>5, <3>1 DEF Answer, tables
  <2> QED
    BY <2>2, <2>3
<1> QED
  BY <1>3, <1>4, <1>6 DEF AnswerInv

LEMMA ReadKeepsAnswers ==
    ASSUME TypeOK, LoginInv, AnswerInv, NEW r \in Requests, ReadRow(r)
    PROVE  AnswerInv'
<1>1. UNCHANGED <<tables, pc, local, leaving, caches>>
  BY DEF ReadRow
<1>2. (\A s \in Logins : Entry(s)' /\ (session'[s] # "ended" => age'[s] = 0))
      /\ \A l \in Logins : AppEntry(l)'
  BY <1>1 DEF AnswerInv, Entry, AppEntry, tables, caches
<1>3. ASSUME NEW q \in Requests \ {r}
      PROVE  Answer(q)'
  <2>1. Answer(q) /\ reading'[q] = reading[q]
    BY DEF AnswerInv, ReadRow, TypeOK
  <2> QED
    BY <1>1, <2>1 DEF Answer, tables
<1>4. Answer(r)'
  <2> DEFINE l == reading[r].login
             s == local[l].session
  <2>1. l \in Logins /\ pc[l] = "done"
    BY DEF ReadRow, AnswerInv, Answer
  <2>2. s \in Logins /\ session[s] # "none"
    BY <2>1 DEF LoginInv, Stage, Returned
  <2>3. session[s] \in Status
    BY <2>2 DEF TypeOK
  <2>4. /\ reading'[r].login = l /\ reading'[r].step = "write"
        /\ reading'[r].verdict = IF session[s] = "active" THEN "ok" ELSE "refused"
    BY DEF ReadRow, TypeOK
  <2>5. session[s] = "active" \/ session[s] = "ended"
    BY <2>2, <2>3 DEF Status
  <2> HIDE DEF s
  <2> QED
    BY <1>1, <2>1, <2>4, <2>5 DEF Answer, tables, s
<1> QED
  BY <1>2, <1>3, <1>4 DEF AnswerInv

LEMMA WriteKeepsAnswers ==
    ASSUME TypeOK, LoginInv, AnswerInv, NEW r \in Requests, Write(r)
    PROVE  AnswerInv'
<1>1. UNCHANGED <<tables, pc, local, leaving, appCache>>
  BY DEF Write
<1>2. (\A s \in Logins : session'[s] # "ended" => age'[s] = 0)
      /\ \A l \in Logins : AppEntry(l)'
  BY <1>1 DEF AnswerInv, AppEntry, tables
<1>3. ASSUME NEW q \in Requests
      PROVE  Answer(q)'
  <2>1. Answer(q) /\ (reading'[q] = reading[q] \/ reading'[q].step = "idle")
    BY DEF AnswerInv, Write, TypeOK, NotReading
  <2> QED
    BY <1>1, <2>1 DEF Answer, tables
<1>4. ASSUME NEW s \in Logins
      PROVE  Entry(s)'
  <2>1. Entry(s)
    BY DEF AnswerInv
  <2>2. CASE cache'[s] = cache[s]
    BY <1>1, <2>1, <2>2 DEF Entry, tables
  <2>3. CASE cache'[s] # cache[s]
    <3>1. /\ s = local[reading[r].login].session
          /\ cache'[s] = [verdict |-> reading[r].verdict, life |-> SessionLife]
          /\ reading[r].step = "write"
      BY <2>3 DEF Write, TypeOK
    <3>2. /\ reading[r].verdict = "refused" /\ indexed => session[s] = "ended"
          /\ reading[r].verdict = "ok" /\ session[s] = "ended" => age[s] <= reading[r].wait
      BY <3>1 DEF AnswerInv, Answer
    <3>3. reading[r].wait \in 0..QueryTime /\ age[s] \in 0..Oldest
      BY DEF TypeOK
    <3> QED
      BY <1>1, <3>1, <3>2, <3>3, SessionsAssumption DEF Entry, tables, Oldest
  <2> QED
    BY <2>2, <2>3
<1> QED
  BY <1>2, <1>3, <1>4 DEF AnswerInv

LEMMA TickKeepsAnswers ==
    ASSUME TypeOK, LoginInv, AnswerInv, Tick
    PROVE  AnswerInv'
<1>1. UNCHANGED <<indexed, session, profile, app, pc, local, leaving>>
  BY DEF Tick
<1>2. ASSUME NEW s \in Logins
      PROVE  /\ age[s] \in Nat /\ age'[s] \in Nat /\ age'[s] <= age[s] + 1
             /\ session[s] # "ended" => age'[s] = age[s]
  BY SessionsAssumption DEF Tick, TypeOK, Oldest
<1>3. ASSUME NEW s \in Logins
      PROVE  Entry(s)' /\ (session'[s] # "ended" => age'[s] = 0)
  <2>1. Entry(s) /\ (session[s] # "ended" => age[s] = 0)
    BY DEF AnswerInv
  <2>2. /\ cache[s] \in [verdict : {"none", "ok", "refused"}, life : 0..SessionLife]
        /\ cache'[s] = Older(cache[s], NoEntry)
    BY DEF Tick, TypeOK
  <2>3. CASE cache[s].life > 1
    <3>1. cache'[s].verdict = cache[s].verdict /\ cache'[s].life = cache[s].life - 1
      BY <2>2, <2>3, OlderSessionTyped
    <3> QED
      BY <1>1, <1>2, <2>1, <2>2, <2>3, <3>1, SessionsAssumption DEF Entry
  <2>4. CASE ~(cache[s].life > 1)
    <3>1. cache'[s] = NoEntry
      BY <2>2, <2>4, OlderSessionTyped
    <3> QED
      BY <1>1, <1>2, <2>1, <3>1 DEF Entry, NoEntry
  <2> QED
    BY <2>3, <2>4
<1>4. ASSUME NEW l \in Logins
      PROVE  AppEntry(l)'
  <2>1. AppEntry(l)
    BY DEF AnswerInv
  <2>2. /\ appCache[l] \in [profile : Logins \cup {NoSession}, life : 0..AppLife]
        /\ appCache'[l] = Older(appCache[l], NoApp)
    BY DEF Tick, TypeOK
  <2>3. appCache'[l] = NoApp \/ (appCache[l].life > 0 /\ appCache'[l].profile = appCache[l].profile)
    <3>1. appCache[l].life \in Nat /\ (appCache[l].life > 1 => appCache[l].life > 0)
      BY <2>2, SessionsAssumption
    <3> QED
      BY <2>2, <3>1, OlderAppTyped
  <2> QED
    BY <1>1, <2>1, <2>3 DEF AppEntry, NoApp
<1>5. ASSUME NEW r \in Requests
      PROVE  Answer(r)'
  <2>1. Answer(r)
    BY DEF AnswerInv
  <2>2. CASE reading[r].step = "write"
    <3>1. reading'[r] = [reading[r] EXCEPT !.wait = @ + 1]
      BY <2>2 DEF Tick, TypeOK
    <3>2. /\ reading'[r].login = reading[r].login /\ reading'[r].verdict = reading[r].verdict
          /\ reading'[r].step = "write" /\ reading'[r].wait = reading[r].wait + 1
          /\ reading[r].wait \in Nat
      BY <2>2, <3>1, SessionsAssumption DEF TypeOK
    <3>3. local[reading[r].login].session \in Logins
      BY <2>1, <2>2 DEF Answer, LoginInv, Stage, Returned
    <3>4. /\ age[local[reading[r].login].session] \in Nat
          /\ age'[local[reading[r].login].session] \in Nat
          /\ age'[local[reading[r].login].session] <= age[local[reading[r].login].session] + 1
      BY <1>2, <3>3
    <3> QED
      BY <1>1, <2>1, <2>2, <3>2, <3>4 DEF Answer
  <2>3. CASE reading[r].step # "write"
    <3>1. reading'[r] = reading[r]
      BY <2>3 DEF Tick, TypeOK
    <3> QED
      BY <1>1, <2>1, <2>3, <3>1 DEF Answer
  <2> QED
    BY <2>2, <2>3
<1> QED
  BY <1>3, <1>4, <1>5 DEF AnswerInv

LEMMA AnswerInvStep == TypeOK /\ LoginInv /\ AnswerInv /\ [Next]_vars => AnswerInv'
<1> SUFFICES ASSUME TypeOK, LoginInv, AnswerInv, [Next]_vars PROVE AnswerInv'
  OBVIOUS
<1>1. CASE UNCHANGED vars
  BY <1>1 DEF vars, AnswerInv, Entry, AppEntry, Answer
<1>2. ASSUME NEW l \in Logins,
             \/ Lookup(l) \/ SeeSessions(l) \/ EndPrevious(l) \/ Insert(l)
             \/ SeeApps(l) \/ InsertApp(l) \/ LoginFails(l) \/ Commit(l)
             \/ Invalidate(l) \/ StartEnd(l) \/ EndSession(l) \/ EndProfile(l) \/ EndFails(l)
      PROVE  AnswerInv'
  BY <1>2, TablesMoveOn, OnwardKeepsAnswers
<1> QED
  BY <1>1, <1>2, AskKeepsAnswers, ReadKeepsAnswers, WriteKeepsAnswers, TickKeepsAnswers DEF Next

LEMMA AnswersAlways == Spec => [](TypeOK /\ AnswerInv)
<1>1. Spec => []LoginInv
  BY InitLogins, LoginInvStep, TypeCorrect, PTL DEF Spec
<1> QED
  BY <1>1, InitAnswers, AnswerInvStep, TypeCorrect, PTL DEF Spec

(* Whatever a process has been told, an ended session is refused once a     *)
(* query's time and an entry's life have passed.                            *)
THEOREM EndedIsRefused == Spec => []RefusedInTime
BY AnswersAlways, AnswersImply, PTL

(* With the index, the active session is never answered as replaced.        *)
THEOREM ActiveIsAccepted == Spec => []ActiveNotRefused
BY AnswersAlways, AnswersImply, PTL
=============================================================================
