---------------------------- MODULE ServerProofs ----------------------------
(***************************************************************************)
(* Proofs about Server, for any clients, any finite set of requests and any *)
(* limits; and about Process: what is proved of the server holds of it      *)
(* inside its process, and a graceful shutdown loses nothing.               *)
(***************************************************************************)
EXTENDS Process, FiniteSetTheorems, TLAPS

LimiterProofs == INSTANCE RateLimiterProofs

(* The types of everything but the limiter, whose own are proved there.     *)
ServerTypeOK ==
  /\ pc \in [Requests -> {"request", "queued", "admitted", "working", "ready",
                          "release", "done"}]
  /\ sem \in 0 .. MaxConcurrentSessions
  /\ sessions \subseteq Requests /\ removing \subseteq Requests
  /\ dir \in [Requests -> {"none", "partial", "complete"}]
  /\ age \in [Requests -> 0 .. SessionTTL + 1]

Working == {r \in Requests : pc[r] \in {"admitted", "working", "ready", "release"}}

(* A record, or the sweep that follows it, exists only after the handler    *)
(* registered the session; the two never overlap.                           *)
RecordsFollowHandlers ==
  /\ \A r \in sessions \cup removing : pc[r] \in {"release", "done"}
  /\ sessions \cap removing = {}

DirsFollowHandlers ==
  \A r \in Requests :
    /\ pc[r] \in {"request", "queued", "admitted"} => dir[r] = "none"
    /\ pc[r] = "ready" => dir[r] = "complete"

IInv ==
  /\ ServerTypeOK /\ SlotsAreHeld /\ RecordsFollowHandlers /\ DirsFollowHandlers
  /\ SessionsAreServable /\ DirsAreOwned

----------------------------------------------------------------------------
LEMMA WorkingIsFinite == IsFiniteSet(Working) /\ Cardinality(Working) \in Nat
<1>1. Working \in SUBSET Requests
  BY DEF Working
<1> QED BY <1>1, ServerAssumption, FS_Subset, FS_CardinalityType DEF ServerAssumption

LEMMA SlotsUnmoved ==
  ASSUME SlotsAreHeld, sem' = sem, Working' = Working
  PROVE  SlotsAreHeld'
BY DEF SlotsAreHeld, Working

(* Enter: the request waits for a slot and owns nothing yet.                *)
LEMMA EnterKeeps ==
  ASSUME IInv, NEW r \in Requests, Enter(r)
  PROVE  IInv'
<1> USE DEF IInv
<1>1. pc[r] = "request" /\ pc' = [pc EXCEPT ![r] = "queued"]
      /\ UNCHANGED <<sem, sessions, dir, age, removing, panicked, undeleted>>
  BY DEF Enter
<1>2. ServerTypeOK'
  BY <1>1 DEF ServerTypeOK
<1>3. Working' = Working
  BY <1>1 DEF Working, ServerTypeOK
<1>4. SlotsAreHeld'
  BY <1>1, <1>3, SlotsUnmoved
<1>5. RecordsFollowHandlers' /\ DirsFollowHandlers'
  BY <1>1 DEF RecordsFollowHandlers, DirsFollowHandlers, ServerTypeOK
<1>6. SessionsAreServable' /\ DirsAreOwned'
  BY <1>1 DEF SessionsAreServable, DirsAreOwned, DirsFollowHandlers, ServerTypeOK
<1> QED BY <1>2, <1>4, <1>5, <1>6

LEMMA AcquireKeeps ==
  ASSUME IInv, NEW r \in Requests, Acquire(r)
  PROVE  IInv'
<1> USE DEF IInv
<1>1. /\ pc[r] = "queued" /\ pc' = [pc EXCEPT ![r] = "admitted"]
      /\ sem' = sem + 1 /\ sem < MaxConcurrentSessions
      /\ UNCHANGED <<sessions, dir, age, removing, panicked, undeleted>>
  BY DEF Acquire
<1>2. ServerTypeOK'
  BY <1>1, ServerAssumption DEF ServerTypeOK, ServerAssumption
<1>3. Working' = Working \cup {r} /\ r \notin Working
  BY <1>1 DEF Working, ServerTypeOK
<1>4. sem' = Cardinality(Working')
  BY <1>1, <1>3, WorkingIsFinite, FS_AddElement DEF SlotsAreHeld, Working
<1>5. RecordsFollowHandlers' /\ DirsFollowHandlers'
  BY <1>1 DEF RecordsFollowHandlers, DirsFollowHandlers, ServerTypeOK
<1>6. SessionsAreServable' /\ DirsAreOwned'
  BY <1>1 DEF SessionsAreServable, DirsAreOwned, DirsFollowHandlers, ServerTypeOK
<1> QED BY <1>2, <1>4, <1>5, <1>6 DEF SlotsAreHeld, Working

(* The steps between taking the slot and releasing it.                      *)
LEMMA WorkKeeps ==
  ASSUME IInv, NEW r \in Requests,
         MakeDir(r) \/ Succeed(r) \/ Fail(r) \/ Panic(r) \/ Register(r)
  PROVE  IInv'
<1> USE DEF IInv
<1>1. /\ pc[r] \in {"admitted", "working", "ready"} /\ UNCHANGED <<sem, age, removing>>
      /\ pc' = [pc EXCEPT ![r] = pc'[r]] /\ pc'[r] \in {"working", "ready", "release"}
      /\ dir' = [dir EXCEPT ![r] = dir'[r]] /\ dir'[r] \in {"none", "partial", "complete"}
      /\ sessions \subseteq sessions' /\ sessions' \subseteq sessions \cup {r}
      /\ panicked \subseteq panicked' /\ undeleted \subseteq undeleted'
  BY DEF MakeDir, Succeed, Fail, RemoveSessionDir, Panic, Register, Unwind, ServerTypeOK
<1>2. /\ r \in sessions' => pc'[r] = "release" /\ dir'[r] = "complete"
      /\ pc'[r] = "ready" => dir'[r] = "complete"
      /\ dir'[r] # "none" => pc'[r] \in {"working", "ready"} 
                             \/ r \in sessions' \cup panicked' \cup undeleted'
  <2>1. r \notin sessions \cup removing
    BY <1>1 DEF RecordsFollowHandlers
  <2>2. CASE MakeDir(r)
    BY <2>1, <2>2 DEF MakeDir, ServerTypeOK, DirsFollowHandlers
  <2>3. CASE Succeed(r) \/ Fail(r) \/ Panic(r)
    BY <2>1, <2>3 DEF Succeed, Fail, RemoveSessionDir, Panic, Unwind, ServerTypeOK
  <2>4. CASE Register(r)
    BY <2>1, <2>4 DEF Register, ServerTypeOK, DirsFollowHandlers
  <2> QED BY <2>2, <2>3, <2>4
<1>3. ServerTypeOK'
  BY <1>1 DEF ServerTypeOK
<1>4. Working' = Working
  BY <1>1 DEF Working, ServerTypeOK
<1>5. SlotsAreHeld'
  BY <1>1, <1>4, SlotsUnmoved
<1>6. RecordsFollowHandlers'
  BY <1>1, <1>2 DEF RecordsFollowHandlers, ServerTypeOK
<1>7. DirsFollowHandlers'
  BY <1>1, <1>2 DEF DirsFollowHandlers, ServerTypeOK
<1>8. SessionsAreServable'
  BY <1>1, <1>2 DEF SessionsAreServable, ServerTypeOK
<1>9. DirsAreOwned'
  BY <1>1, <1>2 DEF DirsAreOwned, ServerTypeOK
<1> QED BY <1>3, <1>5, <1>6, <1>7, <1>8, <1>9

LEMMA ReleaseKeeps ==
  ASSUME IInv, NEW r \in Requests, Release(r)
  PROVE  IInv'
<1> USE DEF IInv
<1>1. /\ pc[r] = "release" /\ pc' = [pc EXCEPT ![r] = "done"] /\ sem' = sem - 1
      /\ UNCHANGED <<sessions, dir, age, removing, panicked, undeleted>>
  BY DEF Release
<1>2. Working' = Working \ {r} /\ r \in Working
  BY <1>1 DEF Working, ServerTypeOK
<1>3. Cardinality(Working') = Cardinality(Working) - 1 /\ Cardinality(Working') \in Nat
  <2>1. IsFiniteSet(Working \ {r}) /\ Cardinality(Working \ {r}) = Cardinality(Working) - 1
    BY <1>2, WorkingIsFinite, FS_RemoveElement
  <2> QED BY <1>2, <2>1, FS_CardinalityType
<1>4. sem' = Cardinality(Working')
  BY <1>1, <1>3 DEF SlotsAreHeld, Working
<1>5. ServerTypeOK'
  BY <1>1, <1>3, <1>4, ServerAssumption DEF ServerTypeOK, ServerAssumption
<1>6. RecordsFollowHandlers' /\ DirsFollowHandlers'
  BY <1>1 DEF RecordsFollowHandlers, DirsFollowHandlers, ServerTypeOK
<1>7. SessionsAreServable' /\ DirsAreOwned'
  BY <1>1 DEF SessionsAreServable, DirsAreOwned, ServerTypeOK
<1> QED BY <1>4, <1>5, <1>6, <1>7 DEF SlotsAreHeld, Working

LEMMA SweepKeeps ==
  ASSUME IInv, Sweep \/ \E r \in Requests : RemoveDir(r)
  PROVE  IInv'
<1> USE DEF IInv
<1>1. pc' = pc /\ sem' = sem /\ age' = age /\ panicked' = panicked
  BY DEF Sweep, RemoveDir
<1>2. SlotsAreHeld'
  BY <1>1, SlotsUnmoved DEF Working
<1>3. CASE Sweep
  <2>1. /\ sessions' = sessions \ Expired /\ removing' = Expired /\ removing = {} /\ dir' = dir
        /\ undeleted' = undeleted /\ Expired \subseteq sessions
    BY <1>3 DEF Sweep, Forgotten, Expired
  <2>2. ServerTypeOK' /\ RecordsFollowHandlers' /\ DirsFollowHandlers'
    BY <1>1, <2>1 DEF ServerTypeOK, RecordsFollowHandlers, DirsFollowHandlers
  <2>3. SessionsAreServable' /\ DirsAreOwned'
    BY <1>1, <2>1 DEF SessionsAreServable, DirsAreOwned
  <2> QED BY <1>2, <2>2, <2>3
<1>4. ASSUME NEW r \in Requests, RemoveDir(r)
      PROVE  IInv'
  <2>1. /\ r \in removing /\ removing' = removing \ {r} /\ sessions' = sessions
        /\ dir' = [dir EXCEPT ![r] = dir'[r]] /\ dir'[r] \in {"none", "partial", "complete"}
        /\ undeleted \subseteq undeleted' /\ (dir'[r] = "none" \/ r \in undeleted')
    BY <1>4 DEF RemoveDir, RemoveSessionDir, ServerTypeOK
  <2>2. ServerTypeOK' /\ RecordsFollowHandlers'
    BY <1>1, <2>1 DEF ServerTypeOK, RecordsFollowHandlers
  <2>3. DirsFollowHandlers'
    BY <1>1, <2>1 DEF DirsFollowHandlers, RecordsFollowHandlers, ServerTypeOK
  <2>4. SessionsAreServable' /\ DirsAreOwned'
    BY <1>1, <2>1 DEF SessionsAreServable, DirsAreOwned, RecordsFollowHandlers, ServerTypeOK
  <2> QED BY <1>2, <2>2, <2>3, <2>4
<1> QED BY <1>3, <1>4

(* Everything else touches neither handlers, nor records, nor directories.  *)
LEMMA OthersKeep ==
  ASSUME IInv, UNCHANGED <<pc, sem, sessions, dir, removing, panicked, undeleted>>,
         age' \in [Requests -> 0 .. SessionTTL + 1]
  PROVE  IInv'
<1>1. ServerTypeOK'
  BY DEF IInv, ServerTypeOK
<1> QED BY <1>1 DEF IInv, SlotsAreHeld, RecordsFollowHandlers, DirsFollowHandlers,
          SessionsAreServable, DirsAreOwned

LEMMA InvariantHolds == Spec => []IInv
<1>1. Init => IInv
  <2> SUFFICES ASSUME Init PROVE IInv
    OBVIOUS
  <2>1. ServerTypeOK
    BY ServerAssumption DEF Init, ServerTypeOK, ServerAssumption
  <2>2. Working = {}
    BY DEF Init, Working
  <2>3. SlotsAreHeld
    BY <2>2, FS_EmptySet DEF Init, SlotsAreHeld, Working
  <2>4. RecordsFollowHandlers /\ DirsFollowHandlers /\ SessionsAreServable /\ DirsAreOwned
    BY DEF Init, RecordsFollowHandlers, DirsFollowHandlers, SessionsAreServable, DirsAreOwned
  <2> QED BY <2>1, <2>3, <2>4 DEF IInv
<1>2. IInv /\ [Next]_vars => IInv'
  <2> SUFFICES ASSUME IInv, [Next]_vars PROVE IInv'
    OBVIOUS
  <2>1. age \in [Requests -> 0 .. SessionTTL + 1]
    BY DEF IInv, ServerTypeOK
  <2>2. CASE \E r \in Requests : Enter(r) \/ Handler(r)
    BY <2>2, EnterKeeps, AcquireKeeps, WorkKeeps, ReleaseKeeps DEF Handler
  <2>3. CASE Sweep \/ \E r \in Requests : RemoveDir(r)
    BY <2>3, SweepKeeps
  <2>4. CASE (\E c \in Clients : Invalid(c)) \/ SweepLimiter \/ Close \/ JanitorReturns
    BY <2>1, <2>4, OthersKeep DEF Invalid, SweepLimiter, Close, JanitorReturns
  <2>5. CASE Tick
    <3>1. age' \in [Requests -> 0 .. SessionTTL + 1]
      BY <2>1, <2>5, ServerAssumption DEF Tick, ServerAssumption
    <3> QED BY <2>5, <3>1, OthersKeep DEF Tick
  <2>6. CASE UNCHANGED vars
    BY <2>1, <2>6, OthersKeep DEF vars
  <2> QED BY <2>2, <2>3, <2>4, <2>5, <2>6 DEF Next, Janitor
<1> QED BY <1>1, <1>2, PTL DEF Spec

----------------------------------------------------------------------------
(* Whichever return or panic ends a handler, its slot is given back, once.  *)
THEOREM ServerSlotsAreHeld == Spec => []SlotsAreHeld
<1>1. IInv => SlotsAreHeld
  BY DEF IInv
<1> QED BY <1>1, InvariantHolds, PTL

(* A session that can be looked up has its complete output on disk, through *)
(* every interleaving of handlers and sweeps.                               *)
THEOREM SessionsStayServable == Spec => []SessionsAreServable
<1>1. IInv => SessionsAreServable
  BY DEF IInv
<1> QED BY <1>1, InvariantHolds, PTL

(* No directory is left without an owner but by a panic or by a removal that *)
(* failed: neither an error return nor the sweep forgets one.               *)
THEOREM DirsStayOwned == Spec => []DirsAreOwned
<1>1. IInv => DirsAreOwned
  BY DEF IInv
<1> QED BY <1>1, InvariantHolds, PTL

(* Every step of the server is one of the limiter's or leaves it alone.     *)
LEMMA ServerRunsLimiter == Spec => LimiterProofs!Spec
<1>1. Init => LimiterProofs!Init
  BY DEF Init, Limiter!Init, LimiterProofs!Init, Limiter!NoBucket, LimiterProofs!NoBucket
<1>2. [Next]_vars => [LimiterProofs!Next]_(LimiterProofs!vars)
  <2> SUFFICES ASSUME [Next]_vars
               PROVE  LimiterProofs!Next \/ UNCHANGED <<counts, recent>>
    BY DEF LimiterProofs!vars
  <2>1. ASSUME NEW c \in Clients, Limiter!Admit(c)
        PROVE  LimiterProofs!Admit(c)
    BY <2>1 DEF Limiter!Admit, Limiter!Admits, Limiter!Absent, Limiter!Over, Limiter!Fresh,
       LimiterProofs!Admit, LimiterProofs!Admits, LimiterProofs!Absent, LimiterProofs!Over, LimiterProofs!Fresh
  <2>2. ASSUME Limiter!Tick
        PROVE  LimiterProofs!Tick
    BY <2>2 DEF Limiter!Tick, Limiter!Older, LimiterProofs!Tick, LimiterProofs!Older
  <2>3. ASSUME Limiter!Sweep
        PROVE  LimiterProofs!Sweep
    BY <2>3 DEF Limiter!Sweep, Limiter!Stale, Limiter!NoBucket, LimiterProofs!Sweep, LimiterProofs!Stale, LimiterProofs!NoBucket
  <2>4. CASE (\E c \in Clients : Invalid(c)) \/ \E r \in Requests : Enter(r)
    BY <2>1, <2>4 DEF Invalid, Enter, LimiterProofs!Next
  <2>5. CASE Tick \/ SweepLimiter
    BY <2>2, <2>3, <2>5 DEF Tick, SweepLimiter, LimiterProofs!Next
  <2>6. CASE (\E r \in Requests : Handler(r)) \/ Janitor \/ Close \/ UNCHANGED vars
    BY <2>6 DEF Handler, Acquire, MakeDir, Succeed, Fail, Panic, Register, Release, Janitor, Sweep,
       RemoveDir, JanitorReturns, Close, vars, limiterVars
  <2> QED BY <2>4, <2>5, <2>6 DEF Next
<1> QED BY <1>1, <1>2, PTL DEF Spec, LimiterProofs!Spec

(* The types of the whole server, its limiter included: in particular no    *)
(* more slots are ever taken than there are.                                *)
THEOREM TypeCorrect == Spec => []TypeOK
<1> DEFINE Flags == /\ panicked \subseteq Requests /\ undeleted \subseteq Requests
                    /\ janitor \in BOOLEAN /\ closed \in BOOLEAN
<1>1. Init => Flags
  BY DEF Init
<1>2. Flags /\ [Next]_vars => Flags'
  <2> SUFFICES ASSUME Flags, [Next]_vars PROVE Flags'
    OBVIOUS
  <2>1. CASE \E r \in Requests : Panic(r) \/ Fail(r) \/ RemoveDir(r)
    BY <2>1 DEF Panic, Unwind, Fail, RemoveDir, RemoveSessionDir
  <2>2. CASE Close \/ JanitorReturns
    BY <2>2 DEF Close, JanitorReturns
  <2>3. CASE UNCHANGED <<panicked, undeleted, janitor, closed>>
    BY <2>3
  <2>4. ASSUME NEW r \in Requests, Enter(r) \/ Handler(r)
        PROVE  Panic(r) \/ Fail(r) \/ UNCHANGED <<panicked, undeleted, janitor, closed>>
    BY <2>4 DEF Enter, Handler, Acquire, MakeDir, Succeed, Register, Release
  <2>5. CASE Tick \/ SweepLimiter \/ Sweep \/ \E c \in Clients : Invalid(c)
    BY <2>3, <2>5 DEF Tick, SweepLimiter, Sweep, Invalid
  <2>6. CASE UNCHANGED vars
    BY <2>3, <2>6 DEF vars
  <2> QED BY <2>1, <2>2, <2>3, <2>4, <2>5, <2>6 DEF Next, Janitor
<1>3. LimiterProofs!PositiveLimits
  BY ServerAssumption DEF ServerAssumption, LimiterProofs!PositiveLimits
<1>4. LimiterProofs!Spec => []LimiterProofs!TypeOK
  BY <1>3, LimiterProofs!LimiterTypeCorrect
<1>5. LimiterProofs!TypeOK => Limiter!TypeOK
  BY DEF LimiterProofs!TypeOK, Limiter!TypeOK
<1>6. IInv /\ Flags /\ Limiter!TypeOK => TypeOK
  BY DEF IInv, ServerTypeOK, TypeOK
<1> QED BY <1>1, <1>2, <1>4, <1>5, <1>6, InvariantHolds, ServerRunsLimiter, PTL DEF Spec

(* Behind the server's middleware, with sweeps stopped by Close at any      *)
(* moment, the limiter still implements its quota.                          *)
THEOREM ServerKeepsQuota == Spec => ImplementsQuota
<1>1. LimiterProofs!PositiveLimits
  BY ServerAssumption DEF ServerAssumption, LimiterProofs!PositiveLimits
<1>2. LimiterProofs!Spec => LimiterProofs!ImplementsQuota
  BY <1>1, LimiterProofs!LimiterImplementsQuota
<1>3. Spec => LimiterProofs!ImplementsQuota
  BY <1>2, ServerRunsLimiter
<1>4. LimiterProofs!Promise!Init => Limiter!Promise!Init
  BY DEF LimiterProofs!Promise!Init, Limiter!Promise!Init, LimiterProofs!Promise!Quiet, Limiter!Promise!Quiet,
     LimiterProofs!OpenWindow, Limiter!OpenWindow
<1>5. [LimiterProofs!Promise!Next]_([c \in Clients |-> LimiterProofs!OpenWindow(counts[c])])
        => [Limiter!Promise!Next]_([c \in Clients |-> Limiter!OpenWindow(counts[c])])
  BY DEF LimiterProofs!Promise!Next, Limiter!Promise!Next, LimiterProofs!Promise!Admit, Limiter!Promise!Admit,
     LimiterProofs!Promise!Tick, Limiter!Promise!Tick, LimiterProofs!Promise!Older, Limiter!Promise!Older,
     LimiterProofs!Promise!Quiet, Limiter!Promise!Quiet, LimiterProofs!OpenWindow, Limiter!OpenWindow
<1> QED BY <1>3, <1>4, <1>5, PTL DEF ImplementsQuota, Limiter!ImplementsQuota, Limiter!Promise!Spec,
          LimiterProofs!ImplementsQuota, LimiterProofs!Promise!Spec

(* Nor does the server, whatever its handlers, its janitor and Close do in   *)
(* between, ever let a client's bursts beyond the limiter's bound.          *)
THEOREM ServerBoundsBursts == Spec => []BurstBound
<1>1. LimiterProofs!PositiveLimits
  BY ServerAssumption DEF ServerAssumption, LimiterProofs!PositiveLimits
<1>2. LimiterProofs!Spec => []LimiterProofs!BurstBound
  BY <1>1, LimiterProofs!LimiterBoundsBursts
<1>3. LimiterProofs!BurstBound => BurstBound
  BY DEF LimiterProofs!BurstBound, BurstBound, Limiter!BurstBound
<1> QED BY <1>2, <1>3, ServerRunsLimiter, PTL

----------------------------------------------------------------------------
(* The process around it (Process).                                          *)
(* After a drain that ended well, no handler moves again.                    *)
DrainedIsQuiet ==
  /\ result = "nil" => InFlight = {}
  /\ process \in {"serving", "draining"} => result = "none"

----------------------------------------------------------------------------
(* The process only ever takes the server's own steps, or leaves it alone.  *)
THEOREM ProcessImplementsServer == ProcessSpec => Spec
<1>1. ProcessInit => Init
  BY DEF ProcessInit
<1>2. [ProcessNext]_<<vars, processVars>> => [Next]_vars
  BY DEF ProcessNext, Requested, Handling, Sweeping, Cleaning, Time, ListenerFails, Signal,
         Drained, DrainTimesOut, CloseServer, Exit, Kill, Next
<1> QED BY <1>1, <1>2, PTL DEF ProcessSpec, Spec

LEMMA QuietStart == ProcessInit => DrainedIsQuiet
BY DEF ProcessInit, DrainedIsQuiet

(* Only a handler's own step, or its entry, changes where it stands.         *)
LEMMA QuietStep ==
  ASSUME DrainedIsQuiet, [ProcessNext]_<<vars, processVars>>
  PROVE  DrainedIsQuiet'
<1>1. CASE Requested
  BY <1>1 DEF Requested, Connected, processVars, DrainedIsQuiet
<1>2. CASE \E r \in Requests : Handling(r)
  <2>1. PICK r \in Requests : Handling(r)
    BY <1>2
  <2>2. r \in InFlight
    BY <2>1 DEF Handling, Handler, Acquire, MakeDir, Succeed, Fail, Panic, Register, Release,
                InFlight
  <2> QED BY <2>1, <2>2 DEF Handling, processVars, DrainedIsQuiet
<1>3. CASE Sweeping \/ Cleaning \/ Time \/ CloseServer
  <2>1. pc' = pc /\ UNCHANGED processVars
    BY <1>3 DEF Sweeping, Cleaning, Time, CloseServer, SweepLimiter, Janitor, Sweep, RemoveDir,
                JanitorReturns, Tick, Close
  <2> QED BY <2>1 DEF DrainedIsQuiet, InFlight, processVars
<1>4. CASE ListenerFails \/ Signal \/ Drained \/ DrainTimesOut \/ Exit \/ Kill
  <2>1. pc' = pc
    BY <1>4 DEF ListenerFails, Signal, Drained, DrainTimesOut, Exit, Kill, vars
  <2>2. InFlight' = InFlight
    BY <2>1 DEF InFlight
  <2> QED BY <1>4, <2>2 DEF ListenerFails, Signal, Drained, DrainTimesOut, Exit, Kill, Quiet,
                            DrainedIsQuiet
<1>5. CASE UNCHANGED <<vars, processVars>>
  BY <1>5 DEF vars, processVars, DrainedIsQuiet, InFlight
<1> QED BY <1>1, <1>2, <1>3, <1>4, <1>5 DEF ProcessNext

(* When Serve returns without an error every request that had come in has    *)
(* been answered, its slot is free, and what is on disk is whole sessions,   *)
(* what the sweep has still to delete, and what a panic or a removal that    *)
(* failed had left.                                                          *)
THEOREM GracefulShutdownLosesNothing == ProcessSpec => []GracefulLosesNothing
<1>1. ProcessSpec => []DrainedIsQuiet
  BY QuietStart, QuietStep, PTL DEF ProcessSpec
<1>2. ProcessSpec => []IInv
  BY ProcessImplementsServer, InvariantHolds, PTL
<1>3. IInv /\ DrainedIsQuiet => GracefulLosesNothing
  <2> SUFFICES ASSUME IInv, DrainedIsQuiet, result = "nil"
               PROVE  /\ sem = 0 /\ \A r \in Requests : pc[r] \in {"request", "done"}
                      /\ \A r \in Requests : dir[r] # "none" =>
                           \/ r \in sessions /\ dir[r] = "complete"
                           \/ r \in removing \cup panicked \cup undeleted
    BY DEF GracefulLosesNothing
  <2>1. \A r \in Requests : pc[r] \in {"request", "done"}
    BY DEF DrainedIsQuiet, InFlight
  <2>2. Working = {}
    BY <2>1 DEF Working
  <2>3. sem = 0
    BY <2>2, FS_EmptySet DEF IInv, SlotsAreHeld, Working
  <2>4. \A r \in Requests : dir[r] # "none" =>
          \/ r \in sessions /\ dir[r] = "complete"
          \/ r \in removing \cup panicked \cup undeleted
    BY <2>1 DEF IInv, DirsAreOwned, SessionsAreServable
  <2> QED BY <2>1, <2>3, <2>4
<1> QED BY <1>1, <1>2, <1>3, PTL

(* Nor does the process let more pipelines run than there are slots.         *)
THEOREM ProcessSlotsAreHeld == ProcessSpec => []SlotsAreHeld
BY ProcessImplementsServer, ServerSlotsAreHeld, PTL
=============================================================================
