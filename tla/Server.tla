------------------------------- MODULE Server -------------------------------
(***************************************************************************)
(* internal/server: dynamic VOD insertion.  GET /vod/manifest goes through  *)
(* the rate limiter, waits for one of MaxConcurrentSessions slots, makes a  *)
(* session directory, runs VAST, download, encode and splice into it, and   *)
(* only then registers the session; the janitor forgets sessions older than *)
(* SessionTTL and then deletes their directories.                           *)
(***************************************************************************)
EXTENDS Naturals, FiniteSets

CONSTANTS
  Clients,                 \* client IPs
  MaxRequests, Window,     \* the limiter's, see RateLimiter
  Requests,                \* requests that pass the checks of their parameters
  MaxConcurrentSessions,
  SessionTTL               \* Config.SessionTTL, in clock ticks

ASSUME ServerAssumption ==
  /\ MaxRequests \in Nat \ {0} /\ Window \in Nat \ {0}
  /\ IsFiniteSet(Requests)
  /\ MaxConcurrentSessions \in Nat \ {0} /\ SessionTTL \in Nat

VARIABLES
  counts, recent,   \* the rate limiter
  pc,               \* where each request's handler stands
  sem,              \* slots of s.sem in use
  sessions,         \* s.sessions, named by the request that made them
  dir,              \* directories under SessionDir: "none", "partial", "complete"
  age,              \* time since a session's createdAt, up to SessionTTL + 1
  janitor,          \* the janitor goroutine runs
  removing,         \* directories the current sweep has still to delete
  panicked,         \* history: requests whose handler panicked
  undeleted,        \* history: requests whose directory could not be deleted
  closed            \* Server.Close was called

limiterVars == <<counts, recent>>
vars == <<counts, recent, pc, sem, sessions, dir, age, janitor, removing, panicked,
          undeleted, closed>>

Limiter == INSTANCE RateLimiter

(* A definition named X_Y is a mutant of X: X with a plausible bug in it,    *)
(* used only to show that the properties would notice.                      *)

Init ==
  /\ Limiter!Init
  /\ pc = [r \in Requests |-> "request"]
  /\ sem = 0 /\ sessions = {}
  /\ dir = [r \in Requests |-> "none"]
  /\ age = [r \in Requests |-> 0]
  /\ janitor = TRUE /\ removing = {} /\ panicked = {} /\ undeleted = {}
  /\ closed = FALSE

----------------------------------------------------------------------------
(* The middleware comes first: a request that handleStartSession refuses as *)
(* invalid has used up quota like any other.  A 429 changes nothing.        *)
Invalid(c) ==
  /\ Limiter!Admit(c)
  /\ UNCHANGED <<pc, sem, sessions, dir, age, janitor, removing, panicked, undeleted, closed>>

Enter(r) ==
  /\ pc[r] = "request"
  /\ \E c \in Clients : Limiter!Admit(c)
  /\ pc' = [pc EXCEPT ![r] = "queued"]
  /\ UNCHANGED <<sem, sessions, dir, age, janitor, removing, panicked, undeleted, closed>>

Acquire(r) ==
  /\ pc[r] = "queued" /\ sem < MaxConcurrentSessions
  /\ sem' = sem + 1
  /\ pc' = [pc EXCEPT ![r] = "admitted"]
  /\ UNCHANGED <<limiterVars, sessions, dir, age, janitor, removing, panicked, undeleted, closed>>

MakeDir(r) ==
  /\ pc[r] = "admitted"
  /\ \/ /\ dir' = [dir EXCEPT ![r] = "partial"]
        /\ pc' = [pc EXCEPT ![r] = "working"]
     \/ /\ pc' = [pc EXCEPT ![r] = "release"]
        /\ UNCHANGED dir
  /\ UNCHANGED <<limiterVars, sem, sessions, age, janitor, removing, panicked, undeleted, closed>>

(* removeSessionDir tries os.RemoveAll once; when that fails, part of the    *)
(* directory may be gone, the error is logged, and nobody tries again.      *)
RemoveSessionDir(r) ==
  \/ dir' = [dir EXCEPT ![r] = "none"] /\ UNCHANGED undeleted
  \/ dir' \in {dir, [dir EXCEPT ![r] = "partial"]} /\ undeleted' = undeleted \cup {r}

(* resolveAndEncodeAd, spliceForSession and the manifest; on any error, a   *)
(* no-fill included, the directory is removed.                              *)
Succeed(r) ==
  /\ pc[r] = "working"
  /\ dir' = [dir EXCEPT ![r] = "complete"]
  /\ pc' = [pc EXCEPT ![r] = "ready"]
  /\ UNCHANGED <<limiterVars, sem, sessions, age, janitor, removing, panicked, undeleted, closed>>

Fail_KeepsDir(r) ==
  /\ pc[r] = "working"
  /\ pc' = [pc EXCEPT ![r] = "release"]
  /\ UNCHANGED <<limiterVars, sem, sessions, dir, age, janitor, removing, panicked, undeleted, closed>>

Fail(r) ==
  /\ pc[r] = "working"
  /\ RemoveSessionDir(r)
  /\ pc' = [pc EXCEPT ![r] = "release"]
  /\ UNCHANGED <<limiterVars, sem, sessions, age, janitor, removing, panicked, closed>>

(* A panic unwinds to net/http, which recovers it: the deferred release     *)
(* runs, the removal of the directory does not.                             *)
Unwind_KeepsSlot == "done"
Unwind == "release"

Panic(r) ==
  /\ pc[r] = "working"
  /\ pc' = [pc EXCEPT ![r] = Unwind]
  /\ panicked' = panicked \cup {r}
  /\ UNCHANGED <<limiterVars, sem, sessions, dir, age, janitor, removing, undeleted, closed>>

Register(r) ==
  /\ pc[r] = "ready"
  /\ sessions' = sessions \cup {r}
  /\ pc' = [pc EXCEPT ![r] = "release"]
  /\ UNCHANGED <<limiterVars, sem, dir, age, janitor, removing, panicked, undeleted, closed>>

Release(r) ==
  /\ pc[r] = "release"
  /\ sem' = sem - 1
  /\ pc' = [pc EXCEPT ![r] = "done"]
  /\ UNCHANGED <<limiterVars, sessions, dir, age, janitor, removing, panicked, undeleted, closed>>

----------------------------------------------------------------------------
Tick ==
  /\ Limiter!Tick
  /\ age' = [r \in Requests |->
       IF r \in sessions /\ age[r] <= SessionTTL THEN age[r] + 1 ELSE age[r]]
  /\ UNCHANGED <<pc, sem, sessions, dir, janitor, removing, panicked, undeleted, closed>>

(* The limiter's own goroutine, stopped by Server.Close.                    *)
SweepLimiter ==
  /\ ~closed /\ Limiter!Sweep
  /\ UNCHANGED <<pc, sem, sessions, dir, age, janitor, removing, panicked, undeleted, closed>>

(* sweepExpiredSessions: forget under s.mu, then delete without it.         *)
Expired_Reversed == {r \in sessions : age[r] < SessionTTL}
Expired == {r \in sessions : age[r] > SessionTTL}

Forgotten_Later == sessions
Forgotten == sessions \ Expired

Sweep ==
  /\ janitor /\ removing = {} /\ Expired # {}
  /\ sessions' = Forgotten
  /\ removing' = Expired
  /\ UNCHANGED <<limiterVars, pc, sem, dir, age, janitor, panicked, undeleted, closed>>

RemoveDir(r) ==
  /\ r \in removing
  /\ RemoveSessionDir(r)
  /\ removing' = removing \ {r}
  /\ UNCHANGED <<limiterVars, pc, sem, sessions, age, janitor, panicked, closed>>

Close ==
  /\ ~closed /\ closed' = TRUE
  /\ UNCHANGED <<limiterVars, pc, sem, sessions, dir, age, janitor, removing, panicked, undeleted>>

JanitorReturns ==
  /\ janitor /\ closed /\ removing = {}
  /\ janitor' = FALSE
  /\ UNCHANGED <<limiterVars, pc, sem, sessions, dir, age, removing, panicked, undeleted, closed>>

----------------------------------------------------------------------------
Handler(r) ==
  Acquire(r) \/ MakeDir(r) \/ Succeed(r) \/ Fail(r) \/ Panic(r) \/ Register(r) \/ Release(r)

Janitor == Sweep \/ (\E r \in Requests : RemoveDir(r)) \/ JanitorReturns

Next ==
  \/ \E c \in Clients : Invalid(c)
  \/ \E r \in Requests : Enter(r) \/ Handler(r)
  \/ Tick \/ SweepLimiter \/ Janitor \/ Close

Spec == Init /\ [][Next]_vars

----------------------------------------------------------------------------
TypeOK ==
  /\ Limiter!TypeOK
  /\ pc \in [Requests -> {"request", "queued", "admitted", "working", "ready",
                          "release", "done"}]
  /\ sem \in 0 .. MaxConcurrentSessions
  /\ sessions \subseteq Requests /\ removing \subseteq Requests
  /\ panicked \subseteq Requests /\ undeleted \subseteq Requests
  /\ dir \in [Requests -> {"none", "partial", "complete"}]
  /\ age \in [Requests -> 0 .. SessionTTL + 1]
  /\ janitor \in BOOLEAN /\ closed \in BOOLEAN

(* No pipeline runs without a slot and no slot is lost, whichever of the    *)
(* handler's many returns, or a panic, ends it.                             *)
SlotsAreHeld ==
  sem = Cardinality({r \in Requests : pc[r] \in {"admitted", "working", "ready", "release"}})

(* A session a client can look up is complete on disk until it is forgotten.*)
SessionsAreServable == \A r \in sessions : dir[r] = "complete"

(* No directory is forgotten: each belongs to a handler at work, to a       *)
(* session, or to the sweep about to delete it.  Two things leave one       *)
(* behind for good: a panic between MkdirAll and the registration, and a    *)
(* removal that failed, whether the handler's or the sweep's.               *)
DirsAreOwned ==
  \A r \in Requests :
    dir[r] # "none" =>
      pc[r] \in {"working", "ready"} \/ r \in sessions \cup removing \cup panicked \cup undeleted

(* The limiter keeps its promises inside the server, see RateLimiter.       *)
BurstBound == Limiter!BurstBound
ImplementsQuota == Limiter!ImplementsQuota
=============================================================================
