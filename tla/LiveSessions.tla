---------------------------- MODULE LiveSessions ----------------------------
(***************************************************************************)
(* internal/playground, live.go: the live sessions of the playground API.   *)
(* Each owns one live.Watcher, which polls until it is closed.  Creating    *)
(* requests, stop requests, manifest readers, the janitor and Server.Close  *)
(* run concurrently; liveMu guards the table of sessions, but every one of  *)
(* them takes it more than once.                                            *)
(***************************************************************************)
EXTENDS Naturals, FiniteSets

CONSTANTS
  Ids,                \* creating requests; each names its session by randomID
  Readers,            \* concurrent manifest or ad-segment requests
  MaxConcurrentLive,  \* Config.MaxConcurrentLive
  MaxLiveDuration     \* Config.MaxLiveDuration, in clock ticks

ASSUME LiveSessionsAssumption ==
  /\ IsFiniteSet(Ids) /\ Ids # {}
  /\ MaxConcurrentLive \in Nat
  /\ MaxLiveDuration \in Nat

VARIABLES
  creating,   \* where each handleCreateLive request stands
  session,    \* s.liveSessions; status "none" for an id not in the map
  polling,    \* ids whose watcher's poller goroutine runs
  closes,     \* history: how often Watcher.Close was called
  age,        \* time since the session's CreatedAt, up to MaxLiveDuration + 1
  stopping,   \* handleStopLive requests that hold the session's pointer
  janitor,    \* the janitor goroutine runs
  expired,    \* what the janitor's current sweep has still to stop
  closed,     \* Server.Close was called
  shutting,   \* what Server.Close has still to stop
  reader      \* where each reader stands, and the session it looked up

vars == <<creating, session, polling, closes, age, stopping, janitor, expired,
          closed, shutting, reader>>

(* A definition named X_Y is a mutant of X: X with a plausible bug in it,    *)
(* used only to show that the properties would notice.                      *)

NoSession == [status |-> "none", watcher |-> FALSE]

Registered == {i \in Ids : session[i].status # "none"}
Running == {i \in Ids : session[i].status = "running"}

Init ==
  /\ creating = [i \in Ids |-> "request"]
  /\ session = [i \in Ids |-> NoSession]
  /\ polling = {} /\ closes = [i \in Ids |-> 0] /\ age = [i \in Ids |-> 0]
  /\ stopping = {} /\ janitor = TRUE /\ expired = {}
  /\ closed = FALSE /\ shutting = {}
  /\ reader = [r \in Readers |-> [pc |-> "idle", id |-> CHOOSE i \in Ids : TRUE]]

----------------------------------------------------------------------------
(* handleCreateLive: count under liveMu, unlock; start a watcher; register  *)
(* it under liveMu again.                                                   *)
CountRunning(i) ==
  /\ creating[i] = "request"
  /\ creating' = [creating EXCEPT ![i] =
       IF Cardinality(Running) >= MaxConcurrentLive THEN "rejected" ELSE "counted"]
  /\ UNCHANGED <<session, polling, closes, age, stopping, janitor, expired, closed,
                 shutting, reader>>

StartWatcher(i) ==
  /\ creating[i] = "counted"
  /\ \/ /\ creating' = [creating EXCEPT ![i] = "watching"]
        /\ polling' = polling \cup {i}
     \/ /\ creating' = [creating EXCEPT ![i] = "failed"]
        /\ UNCHANGED polling
  /\ UNCHANGED <<session, closes, age, stopping, janitor, expired, closed, shutting,
                 reader>>

Register(i) ==
  /\ creating[i] = "watching"
  /\ creating' = [creating EXCEPT ![i] = "created"]
  /\ session' = [session EXCEPT ![i] = [status |-> "running", watcher |-> TRUE]]
  /\ UNCHANGED <<polling, closes, age, stopping, janitor, expired, closed, shutting,
                 reader>>

(* stopLiveSession, one critical section of liveMu; Watcher.Close closes a  *)
(* channel, which panics the second time.                                   *)
Stopped_Forgotten == NoSession
Stopped == [status |-> "stopped", watcher |-> FALSE]

StopSession_KeepsWatcher(i) ==
  /\ session' = [session EXCEPT ![i].status = "stopped"]
  /\ closes' = [closes EXCEPT ![i] = @ + 1]
  /\ polling' = polling \ {i}

StopSession_NoClose(i) ==
  /\ session' = [session EXCEPT ![i] = Stopped]
  /\ UNCHANGED <<closes, polling>>

StopSession(i) ==
  /\ session' = [session EXCEPT ![i] = Stopped]
  /\ IF session[i].watcher
       THEN /\ closes' = [closes EXCEPT ![i] = @ + 1]
            /\ polling' = polling \ {i}
       ELSE UNCHANGED <<closes, polling>>

(* handleStopLive (DELETE, or the tab's sendBeacon): look the session up,   *)
(* then stop it.                                                            *)
BeginStop(i) ==
  /\ i \in Registered
  /\ stopping' = stopping \cup {i}
  /\ UNCHANGED <<creating, session, polling, closes, age, janitor, expired, closed,
                 shutting, reader>>

FinishStop(i) ==
  /\ i \in stopping
  /\ StopSession(i)
  /\ stopping' = stopping \ {i}
  /\ UNCHANGED <<creating, age, janitor, expired, closed, shutting, reader>>

----------------------------------------------------------------------------
(* The clock.  CreatedAt is read once live.New has returned.                *)
Tick ==
  /\ age' = [i \in Ids |-> IF i \in polling /\ age[i] <= MaxLiveDuration
                             THEN age[i] + 1 ELSE age[i]]
  /\ age' # age
  /\ UNCHANGED <<creating, session, polling, closes, stopping, janitor, expired,
                 closed, shutting, reader>>

(* sweepExpiredLive: collect under liveMu, then stop one by one.            *)
TooOld_Reversed(i) == age[i] < MaxLiveDuration
TooOld(i) == age[i] > MaxLiveDuration

Sweep ==
  /\ janitor /\ expired = {}
  /\ expired' = {i \in Running : TooOld(i)}
  /\ UNCHANGED <<creating, session, polling, closes, age, stopping, janitor, closed,
                 shutting, reader>>

StopExpired(i) ==
  /\ i \in expired
  /\ StopSession(i)
  /\ expired' = expired \ {i}
  /\ UNCHANGED <<creating, age, stopping, janitor, closed, shutting, reader>>

JanitorReturns ==
  /\ janitor /\ closed /\ expired = {}
  /\ janitor' = FALSE
  /\ UNCHANGED <<creating, session, polling, closes, age, stopping, expired, closed,
                 shutting, reader>>

(* Server.Close: stops the janitor, copies the table under liveMu, then     *)
(* stops the sessions it copied.                                            *)
Close ==
  /\ ~closed /\ closed' = TRUE
  /\ shutting' = Registered
  /\ UNCHANGED <<creating, session, polling, closes, age, stopping, janitor, expired,
                 reader>>

StopOnClose(i) ==
  /\ i \in shutting
  /\ StopSession(i)
  /\ shutting' = shutting \ {i}
  /\ UNCHANGED <<creating, age, stopping, janitor, expired, closed, reader>>

----------------------------------------------------------------------------
(* handleLiveManifest and handleLiveAdSegment: look up the session under    *)
(* liveMu, then read its watcher field twice without it - once to test it   *)
(* for nil, once to call it.                                                *)
LookUp(r) ==
  /\ reader[r].pc = "idle"
  /\ \E i \in Registered : reader' = [reader EXCEPT ![r] = [pc |-> "found", id |-> i]]
  /\ UNCHANGED <<creating, session, polling, closes, age, stopping, janitor, expired,
                 closed, shutting>>

CheckWatcher(r) ==
  /\ reader[r].pc = "found"
  /\ reader' = [reader EXCEPT ![r].pc =
       IF session[reader[r].id].watcher THEN "checked" ELSE "idle"]
  /\ UNCHANGED <<creating, session, polling, closes, age, stopping, janitor, expired,
                 closed, shutting>>

UseWatcher(r) ==
  /\ reader[r].pc = "checked"
  /\ reader' = [reader EXCEPT ![r].pc =
       IF session[reader[r].id].watcher THEN "idle" ELSE "panicked"]
  /\ UNCHANGED <<creating, session, polling, closes, age, stopping, janitor, expired,
                 closed, shutting>>

----------------------------------------------------------------------------
Create(i) == CountRunning(i) \/ StartWatcher(i) \/ Register(i)
Janitor == Sweep \/ (\E i \in Ids : StopExpired(i)) \/ JanitorReturns
Shutdown == \E i \in Ids : StopOnClose(i)

Next ==
  \/ \E i \in Ids : Create(i) \/ BeginStop(i) \/ FinishStop(i)
  \/ Tick \/ Janitor \/ Close \/ Shutdown
  \/ \E r \in Readers : LookUp(r) \/ CheckWatcher(r) \/ UseWatcher(r)

Spec == Init /\ [][Next]_vars

(* Time passes; the janitor's ticker fires every JanitorInterval and its    *)
(* goroutine runs; Server.Close runs to its end.  No client is assumed to   *)
(* send anything.                                                           *)
FairSpec == Spec /\ WF_vars(Tick) /\ WF_vars(Janitor) /\ WF_vars(Shutdown)

----------------------------------------------------------------------------
TypeOK ==
  /\ creating \in [Ids -> {"request", "counted", "rejected", "watching", "failed", "created"}]
  /\ session \in [Ids -> [status : {"none", "running", "stopped"}, watcher : BOOLEAN]]
  /\ polling \subseteq Ids
  /\ closes \in [Ids -> Nat]
  /\ age \in [Ids -> 0 .. MaxLiveDuration + 1]
  /\ stopping \subseteq Ids /\ expired \subseteq Ids /\ shutting \subseteq Ids
  /\ janitor \in BOOLEAN /\ closed \in BOOLEAN
  /\ reader \in [Readers -> [pc : {"idle", "found", "checked", "panicked"}, id : Ids]]

(* No poller is leaked and none is cut off: a watcher polls exactly while   *)
(* its session is running, or while its creator is about to register it.    *)
PollersAreOwned ==
  \A i \in Ids :
    /\ i \in polling <=> session[i].watcher \/ creating[i] = "watching"
    /\ session[i].watcher <=> session[i].status = "running"

(* Watcher.Close closes a channel unguarded: whatever stop requests, sweeps *)
(* and Close do concurrently, no watcher is closed twice (a panic).         *)
ClosedAtMostOnce == \A i \in Ids : closes[i] <= 1

(* A session whose watcher was closed stays listed as stopped: its record   *)
(* is neither dropped nor revived by a late registration, sweep or stop.    *)
StoppedStaysStopped ==
  [][\A i \in Ids : closes[i] > 0 => session'[i].status = "stopped"]_vars

(* A session that is registered before Close copies the table is stopped in *)
(* the end, by a client, by the janitor or by Close itself, even when Close *)
(* ends the janitor.  (One whose creation is still under way then registers *)
(* later and is never stopped, though Close is to stop "every running live  *)
(* watcher", playground.go:235-237.)                                        *)
SessionsEnd == \A i \in Ids : i \in Running /\ ~closed ~> i \notin Running

----------------------------------------------------------------------------
(* Statements of the source that the code does not keep.                    *)

(* Config.MaxConcurrentLive "bounds how many live channels can be watched   *)
(* at once".                                                                *)
AtMostMaxLive == Cardinality(Running) <= MaxConcurrentLive

(* LiveSession.watcher is "nil once Status is LiveStatusStopped", which     *)
(* handleLiveManifest answers with 404: no reader calls a nil watcher.      *)
ReadersNeverPanic == \A r \in Readers : reader[r].pc # "panicked"
=============================================================================
