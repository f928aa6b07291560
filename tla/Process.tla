------------------------------ MODULE Process -------------------------------
(***************************************************************************)
(* `stitchpoint serve`: the insertion server inside its process, which       *)
(* internal/httpserve runs until a signal.  Then the listener closes,        *)
(* requests in flight may finish for shutdownTimeout, Server.Close stops the *)
(* background goroutines and main returns, which ends whatever still runs.   *)
(* A second signal, or a crash, ends the process at once.                    *)
(***************************************************************************)
EXTENDS Server

VARIABLES
  process,  \* "serving", "draining", "returned" (Serve has) or "gone"
  result    \* what Serve returned: "none" yet, "nil" or "error"

processVars == <<process, result>>

ProcessInit == Init /\ process = "serving" /\ result = "none"

(* Handlers that a request is in.                                            *)
InFlight == {r \in Requests : pc[r] \notin {"request", "done"}}

(* A connection is there to bring a request until the drain is over; if the  *)
(* listener failed, or the drain was cut short, until the process ends.      *)
Connected == process # "gone" /\ result # "nil"

Requested ==
  /\ Connected
  /\ \/ \E c \in Clients : Invalid(c)
     \/ \E r \in Requests : Enter(r)
  /\ UNCHANGED processVars

Handling(r) == process # "gone" /\ Handler(r) /\ UNCHANGED processVars

Sweeping == process # "gone" /\ SweepLimiter /\ UNCHANGED processVars
Cleaning == process # "gone" /\ Janitor /\ UNCHANGED processVars
Time == process # "gone" /\ Tick /\ UNCHANGED processVars

----------------------------------------------------------------------------
(* serve: the listener fails, or the context is done and Shutdown waits for  *)
(* the handlers, as long as shutdownTimeout allows.                          *)
ListenerFails ==
  /\ process = "serving"
  /\ process' = "returned" /\ result' = "error" /\ UNCHANGED vars

Signal ==
  /\ process = "serving"
  /\ process' = "draining" /\ UNCHANGED <<vars, result>>

Quiet_IgnoresQueued == \A r \in InFlight : pc[r] = "queued"
Quiet == InFlight = {}

Drained ==
  /\ process = "draining" /\ Quiet
  /\ process' = "returned" /\ result' = "nil" /\ UNCHANGED vars

DrainTimesOut ==
  /\ process = "draining"
  /\ process' = "returned" /\ result' = "error" /\ UNCHANGED vars

CloseServer == process = "returned" /\ Close /\ UNCHANGED processVars

Exit ==
  /\ process = "returned" /\ closed
  /\ process' = "gone" /\ UNCHANGED <<vars, result>>

Kill ==
  /\ process # "gone"
  /\ process' = "gone" /\ UNCHANGED <<vars, result>>

ProcessNext ==
  \/ Requested \/ (\E r \in Requests : Handling(r)) \/ Sweeping \/ Cleaning \/ Time
  \/ ListenerFails \/ Signal \/ Drained \/ DrainTimesOut \/ CloseServer \/ Exit \/ Kill

ProcessSpec == ProcessInit /\ [][ProcessNext]_<<vars, processVars>>

(* The goroutines of the process are scheduled and time passes; nothing is   *)
(* assumed of signals, the listener or crashes, nor that a drain ends well.  *)
FairProcessSpec ==
  /\ ProcessSpec
  /\ WF_<<vars, processVars>>(Time) /\ WF_<<vars, processVars>>(Cleaning)
  /\ \A r \in Requests : WF_<<vars, processVars>>(Handling(r))

----------------------------------------------------------------------------
(* A shutdown that Serve reports as graceful lost nothing: every request     *)
(* that had come in was answered, and what is left on disk is what clients   *)
(* were promised, whole sessions; the rest is what the sweep has still to    *)
(* delete, and what panics and removals that failed had left behind ("so     *)
(* none of them drop in-flight requests on a routine restart",               *)
(* httpserve.go:1-3; a drain that is cut short can).                         *)
GracefulLosesNothing ==
  result = "nil" =>
    /\ sem = 0 /\ \A r \in Requests : pc[r] \in {"request", "done"}
    /\ \A r \in Requests : dir[r] # "none" =>
         \/ r \in sessions /\ dir[r] = "complete"
         \/ r \in removing \cup panicked \cup undeleted

(* A request that was let in is answered, however many queue for a slot and  *)
(* whether or not the server is shutting down, unless the process ends.      *)
RequestsAreAnswered ==
  \A r \in Requests : pc[r] = "queued" ~> pc[r] = "done" \/ process = "gone"

(* A session goes away in the end, and so does its directory if it can be    *)
(* deleted, which is tried once; unless the server is closed or its process  *)
(* ends first: no other process looks after the directory.                   *)
SessionsExpire ==
  \A r \in Requests :
    r \in sessions ~> \/ r \notin sessions /\ (dir[r] = "none" \/ r \in undeleted)
                      \/ closed \/ process = "gone"
=============================================================================
