------------------------- MODULE LiveSessionsProofs -------------------------
(***************************************************************************)
(* Proofs about LiveSessions, for any number of creating requests, readers  *)
(* and limits.                                                              *)
(***************************************************************************)
EXTENDS LiveSessions, TLAPS

(* A request that has not registered its session has touched no record;     *)
(* from then on the record exists.                                          *)
RecordsFollowCreation ==
  \A i \in Ids : IF creating[i] = "created" THEN session[i].status # "none"
                   ELSE session[i] = NoSession /\ closes[i] = 0

(* The pointers that stop requests, sweeps and Close hold are to registered *)
(* sessions: none of them can stop a watcher that is not registered yet.    *)
PointersAreRegistered ==
  stopping \subseteq Registered /\ expired \subseteq Registered /\ shutting \subseteq Registered

(* The watcher field is cleared in the critical section that closes it, so  *)
(* a watcher that can still be closed never was.                            *)
WatcherIsOpen ==
  \A i \in Ids : closes[i] = IF session[i].status = "stopped" THEN 1 ELSE 0

IInv ==
  TypeOK /\ PollersAreOwned /\ RecordsFollowCreation /\ PointersAreRegistered /\ WatcherIsOpen

----------------------------------------------------------------------------
SessionsOK == session \in [Ids -> [status : {"none", "running", "stopped"}, watcher : BOOLEAN]]

(* Stopping a registered session, whoever does it and however often.        *)
LEMMA StopSessionKeeps ==
  ASSUME IInv, NEW i \in Ids, i \in Registered, StopSession(i), creating' = creating
  PROVE  /\ SessionsOK' /\ polling' \subseteq Ids /\ closes' \in [Ids -> Nat]
         /\ PollersAreOwned' /\ RecordsFollowCreation' /\ WatcherIsOpen'
         /\ Registered' = Registered
<1> USE DEF IInv
<1>1. session' = [session EXCEPT ![i] = Stopped]
  BY DEF StopSession
<1>2. SessionsOK /\ closes \in [Ids -> Nat] /\ polling \subseteq Ids
  BY DEF TypeOK, SessionsOK
<1>3. session'[i] = Stopped /\ \A j \in Ids \ {i} : session'[j] = session[j]
  BY <1>1, <1>2 DEF SessionsOK
<1>4. SessionsOK'
  BY <1>1, <1>2 DEF SessionsOK, Stopped
<1>5. creating[i] = "created" /\ session[i].status # "none"
  BY DEF RecordsFollowCreation, Registered, NoSession
<1>6. session[i].watcher <=> session[i].status = "running"
  BY DEF PollersAreOwned
<1>7. closes' = [closes EXCEPT ![i] = 1]
  <2>1. CASE session[i].watcher
    BY <1>2, <1>6, <2>1 DEF StopSession, WatcherIsOpen
  <2>2. CASE ~session[i].watcher
    <3>1. session[i].status = "stopped"
      BY <1>2, <1>5, <1>6, <2>2 DEF SessionsOK
    <3> QED BY <1>2, <2>2, <3>1 DEF StopSession, WatcherIsOpen
  <2> QED BY <2>1, <2>2
<1>8. polling' = polling \ {i}
  BY <1>2, <1>5 DEF StopSession, PollersAreOwned
<1>9. PollersAreOwned'
  BY <1>3, <1>5, <1>8 DEF PollersAreOwned, Stopped
<1>10. RecordsFollowCreation'
  BY <1>2, <1>3, <1>5, <1>7 DEF RecordsFollowCreation, Stopped
<1>11. WatcherIsOpen'
  BY <1>2, <1>3, <1>7 DEF WatcherIsOpen, Stopped
<1>12. Registered' = Registered
  BY <1>3, <1>5 DEF Registered, Stopped
<1> QED BY <1>2, <1>4, <1>7, <1>8, <1>9, <1>10, <1>11, <1>12

LEMMA RegisterKeeps ==
  ASSUME IInv, NEW i \in Ids, Register(i)
  PROVE  IInv'
<1> USE DEF IInv
<1>1. /\ creating' = [creating EXCEPT ![i] = "created"]
      /\ session' = [session EXCEPT ![i] = [status |-> "running", watcher |-> TRUE]]
      /\ UNCHANGED <<polling, closes, age, stopping, janitor, expired, closed, shutting, reader>>
      /\ creating[i] = "watching"
  BY DEF Register
<1>2. TypeOK'
  BY <1>1 DEF TypeOK
<1>3. /\ session'[i] = [status |-> "running", watcher |-> TRUE] /\ creating'[i] = "created"
      /\ \A j \in Ids \ {i} : session'[j] = session[j] /\ creating'[j] = creating[j]
  BY <1>1 DEF TypeOK
<1>4. closes[i] = 0 /\ i \in polling
  BY <1>1 DEF RecordsFollowCreation, PollersAreOwned
<1>5. PollersAreOwned'
  BY <1>1, <1>3, <1>4 DEF PollersAreOwned
<1>6. RecordsFollowCreation'
  BY <1>1, <1>3 DEF RecordsFollowCreation
<1>7. WatcherIsOpen'
  BY <1>1, <1>3, <1>4 DEF WatcherIsOpen
<1>8. Registered \subseteq Registered'
  BY <1>3 DEF Registered
<1>9. PointersAreRegistered'
  BY <1>1, <1>8 DEF PointersAreRegistered
<1> QED BY <1>2, <1>5, <1>6, <1>7, <1>9

(* CountRunning and StartWatcher: the request advances, no record changes.  *)
LEMMA CreationKeeps ==
  ASSUME IInv, NEW i \in Ids, CountRunning(i) \/ StartWatcher(i)
  PROVE  IInv'
<1> USE DEF IInv
<1>1. UNCHANGED <<session, closes, age, stopping, janitor, expired, closed, shutting, reader>>
  BY DEF CountRunning, StartWatcher
<1>2. \A j \in Ids : creating'[j] = "created" <=> creating[j] = "created"
  BY DEF CountRunning, StartWatcher, TypeOK
<1>3. polling' \subseteq Ids /\ creating' \in [Ids -> {"request", "counted", "rejected", "watching", "failed", "created"}]
  BY DEF CountRunning, StartWatcher, TypeOK
<1>4. \A j \in Ids : /\ j # i => (j \in polling' <=> j \in polling) /\ creating'[j] = creating[j]
                     /\ creating[i] # "watching"
                     /\ i \in polling' <=> i \in polling \/ creating'[i] = "watching"
  BY DEF CountRunning, StartWatcher, TypeOK
<1>5. TypeOK'
  BY <1>1, <1>3 DEF TypeOK
<1>6. PollersAreOwned'
  BY <1>1, <1>4 DEF PollersAreOwned
<1>7. RecordsFollowCreation'
  BY <1>1, <1>2 DEF RecordsFollowCreation
<1>8. PointersAreRegistered' /\ WatcherIsOpen'
  BY <1>1 DEF PointersAreRegistered, WatcherIsOpen, Registered
<1> QED BY <1>5, <1>6, <1>7, <1>8

(* A stop by a request, by the janitor or by Close.                         *)
LEMMA StopKeeps ==
  ASSUME IInv, NEW i \in Ids, FinishStop(i) \/ StopExpired(i) \/ StopOnClose(i)
  PROVE  IInv'
<1> USE DEF IInv
<1>1. i \in Registered /\ StopSession(i) /\ UNCHANGED <<creating, age, janitor, closed, reader>>
  BY DEF FinishStop, StopExpired, StopOnClose, PointersAreRegistered
<1>2. stopping' \subseteq stopping /\ expired' \subseteq expired /\ shutting' \subseteq shutting
  BY DEF FinishStop, StopExpired, StopOnClose
<1>3. /\ SessionsOK' /\ polling' \subseteq Ids /\ closes' \in [Ids -> Nat]
      /\ PollersAreOwned' /\ RecordsFollowCreation' /\ WatcherIsOpen'
      /\ Registered' = Registered
  BY <1>1, StopSessionKeeps
<1>4. TypeOK'
  BY <1>1, <1>2, <1>3 DEF TypeOK, SessionsOK
<1>5. PointersAreRegistered'
  BY <1>2, <1>3 DEF PointersAreRegistered
<1> QED BY <1>3, <1>4, <1>5

(* Every other step leaves the sessions and their watchers alone.           *)
LEMMA OthersKeep ==
  ASSUME IInv, UNCHANGED <<creating, session, polling, closes>>, TypeOK',
         stopping' \subseteq Registered, expired' \subseteq Registered,
         shutting' \subseteq Registered
  PROVE  IInv'
BY DEF IInv, PollersAreOwned, RecordsFollowCreation, PointersAreRegistered, WatcherIsOpen, Registered

LEMMA StutteringKeeps == TypeOK /\ UNCHANGED vars => TypeOK'
BY Zenon DEF TypeOK, vars

LEMMA Invariance == IInv /\ [Next]_vars => IInv'
<1> SUFFICES ASSUME IInv, [Next]_vars PROVE IInv'
  OBVIOUS
<1>1. TypeOK /\ PointersAreRegistered /\ Registered \subseteq Ids
  BY DEF IInv, Registered
<1>2. ASSUME NEW i \in Ids, Create(i)
      PROVE  IInv'
  BY <1>2, CreationKeeps, RegisterKeeps DEF Create
<1>3. ASSUME NEW i \in Ids, FinishStop(i) \/ StopExpired(i) \/ StopOnClose(i)
      PROVE  IInv'
  BY <1>3, StopKeeps
<1>4. ASSUME NEW i \in Ids, BeginStop(i)
      PROVE  IInv'
  <2>1. TypeOK'
    BY <1>1, <1>4 DEF BeginStop, TypeOK
  <2> QED BY <1>1, <1>4, <2>1, OthersKeep DEF BeginStop, PointersAreRegistered
<1>5. CASE Tick
  <2>1. TypeOK'
    BY <1>1, <1>5, LiveSessionsAssumption DEF Tick, TypeOK, LiveSessionsAssumption
  <2> QED BY <1>1, <1>5, <2>1, OthersKeep DEF Tick, PointersAreRegistered
<1>6. CASE Sweep \/ JanitorReturns \/ Close
  <2>1. TypeOK'
    BY <1>1, <1>6 DEF Sweep, JanitorReturns, Close, TypeOK, Running
  <2>2. expired' \subseteq Registered /\ shutting' \subseteq Registered
    BY <1>1, <1>6 DEF Sweep, JanitorReturns, Close, PointersAreRegistered, Registered, Running
  <2> QED BY <1>1, <1>6, <2>1, <2>2, OthersKeep DEF Sweep, JanitorReturns, Close, PointersAreRegistered
<1>7. ASSUME NEW r \in Readers, LookUp(r) \/ CheckWatcher(r) \/ UseWatcher(r)
      PROVE  IInv'
  <2> DEFINE Places == [pc : {"idle", "found", "checked", "panicked"}, id : Ids]
  <2>1. reader' \in [Readers -> Places]
    <3>1. reader \in [Readers -> Places]
      BY <1>1 DEF TypeOK
    <3>2. PICK p \in {"idle", "found", "checked", "panicked"}, i \in Ids :
            reader' = [reader EXCEPT ![r] = [pc |-> p, id |-> i]]
      BY <1>1, <1>7, <3>1 DEF LookUp, CheckWatcher, UseWatcher
    <3> QED BY <3>1, <3>2
  <2>2. TypeOK'
    BY <1>1, <1>7, <2>1 DEF LookUp, CheckWatcher, UseWatcher, TypeOK
  <2> QED BY <1>1, <1>7, <2>2, OthersKeep DEF LookUp, CheckWatcher, UseWatcher, PointersAreRegistered
<1>8. CASE UNCHANGED vars
  BY <1>1, <1>8, StutteringKeeps, OthersKeep DEF vars, PointersAreRegistered
<1> QED BY <1>2, <1>3, <1>4, <1>5, <1>6, <1>7, <1>8 DEF Next, Janitor, Shutdown

LEMMA InvariantHolds == Spec => []IInv
<1>1. ASSUME Init
      PROVE  IInv
  <2>1. (CHOOSE i \in Ids : TRUE) \in Ids
    BY LiveSessionsAssumption DEF LiveSessionsAssumption
  <2>2. TypeOK
    <3>1. PICK first \in Ids : first = CHOOSE i \in Ids : TRUE
      BY <2>1
    <3>2. reader \in [Readers -> [pc : {"idle", "found", "checked", "panicked"}, id : Ids]]
      BY <1>1, <3>1 DEF Init
    <3>3. janitor \in BOOLEAN /\ closed \in BOOLEAN
      BY <1>1, Zenon DEF Init
    <3>4. age \in [Ids -> 0 .. MaxLiveDuration + 1]
      BY <1>1, LiveSessionsAssumption DEF LiveSessionsAssumption, Init
    <3> QED BY <1>1, <3>2, <3>3, <3>4 DEF Init, TypeOK, NoSession
  <2>3. PollersAreOwned /\ RecordsFollowCreation /\ WatcherIsOpen
    BY <1>1 DEF Init, PollersAreOwned, RecordsFollowCreation, WatcherIsOpen, NoSession
  <2>4. PointersAreRegistered
    BY <1>1 DEF Init, PointersAreRegistered
  <2> QED BY <2>2, <2>3, <2>4 DEF IInv
<1> QED BY <1>1, Invariance, PTL DEF Spec

(* The types of the sessions, their watchers and the readers, and with them *)
(* that every session is either running with a watcher or stopped without.  *)
THEOREM TypeCorrect == Spec => []TypeOK
<1>1. IInv => TypeOK
  BY DEF IInv
<1> QED BY <1>1, InvariantHolds, PTL

(* No interleaving of creations, stops, sweeps and Close leaves a poller    *)
(* without a session or cuts one off under a running session.               *)
THEOREM NoPollerLeaks == Spec => []PollersAreOwned
<1>1. IInv => PollersAreOwned
  BY DEF IInv
<1> QED BY <1>1, InvariantHolds, PTL

(* However stop requests, sweeps and Close race, no watcher is closed twice.*)
THEOREM NoDoubleClose == Spec => []ClosedAtMostOnce
<1>1. IInv => ClosedAtMostOnce
  BY DEF IInv, WatcherIsOpen, ClosedAtMostOnce
<1> QED BY <1>1, InvariantHolds, PTL

(* A session is stopped for good once its watcher was closed.               *)
THEOREM StopIsFinal == Spec => StoppedStaysStopped
<1> DEFINE Stays == \A i \in Ids : closes[i] > 0 => session'[i].status = "stopped"
<1>1. IInv /\ [Next]_vars => [Stays]_vars
  <2> SUFFICES ASSUME IInv, Next, NEW i \in Ids, closes[i] > 0
               PROVE  session'[i].status = "stopped"
    OBVIOUS
  <2>1. IInv' /\ session[i].status = "stopped" /\ creating[i] = "created"
    BY Invariance DEF IInv, WatcherIsOpen, RecordsFollowCreation
  <2>2. closes'[i] = 1
    <3>1. SessionsOK /\ closes \in [Ids -> Nat]
      BY DEF IInv, TypeOK, SessionsOK
    <3>2. closes[i] = 1
      BY <2>1 DEF IInv, WatcherIsOpen
    <3>3. ASSUME NEW j \in Ids, StopSession(j)
          PROVE  closes'[i] = 1
      <4>1. session[i].watcher = FALSE
        BY <2>1, <3>1 DEF IInv, PollersAreOwned, SessionsOK
      <4> QED BY <3>1, <3>2, <3>3, <4>1 DEF StopSession
    <3>4. CASE closes' = closes
      BY <3>2, <3>4
    <3> QED BY <3>3, <3>4 DEF Next, Create, CountRunning, StartWatcher, Register, BeginStop,
          FinishStop, Tick, Janitor, Sweep, StopExpired, JanitorReturns, Close, Shutdown,
          StopOnClose, LookUp, CheckWatcher, UseWatcher
  <2> QED BY <2>1, <2>2 DEF IInv, WatcherIsOpen
<1>2. Spec => [][Stays]_vars
  BY <1>1, InvariantHolds, PTL DEF Spec
<1> QED BY <1>2 DEF StoppedStaysStopped
=============================================================================
