-------------------------------- MODULE Jobs --------------------------------
(***************************************************************************)
(* internal/playground, playground.go: the upload and demo jobs.  A handler *)
(* creates the job's directory and record and starts a goroutine that waits *)
(* for one of MaxConcurrentJobs slots, runs the pipeline stage by stage and *)
(* records the outcome; the janitor forgets jobs older than JobTTL and then *)
(* deletes their directories.  s.mu guards the records, nothing guards the  *)
(* directories.                                                             *)
(***************************************************************************)
EXTENDS Naturals, FiniteSets

CONSTANTS
  Uploads,            \* POST /api/jobs requests
  Demos,              \* POST /api/demo requests
  MaxConcurrentJobs,  \* Config.MaxConcurrentJobs
  JobTTL              \* Config.JobTTL, in clock ticks

Jobs == Uploads \cup Demos

ASSUME JobsAssumption ==
  /\ IsFiniteSet(Jobs) /\ Uploads \cap Demos = {}
  /\ MaxConcurrentJobs \in Nat \ {0}
  /\ JobTTL \in Nat

(* A definition named X_Y is a mutant of X: X with a plausible bug in it,    *)
(* used only to show that the properties would notice.                      *)

VARIABLES
  pc,         \* where the job's handler, and then its goroutine, stands
  status,     \* Job.Status
  jobs,       \* s.jobs: the ids that still have a record
  dir,        \* jobs whose directory exists under WorkDir
  sem,        \* slots of s.sem in use
  age,        \* time since Job.CreatedAt, up to JobTTL + 1
  kept,       \* history: time since the job was ready or failed, likewise
  janitor,    \* the janitor goroutine runs
  removing,   \* directories the current sweep has still to delete
  early,      \* history: jobs swept before they were ready or failed
  undeleted,  \* history: jobs whose directory could not be deleted
  closed      \* Server.Close was called

vars == <<pc, status, jobs, dir, sem, age, kept, janitor, removing, early, undeleted,
          closed>>

(* The stages of runUploadJob, runCuedContentJob and spliceAndFinish; probe *)
(* includes the checks of InjectBreaks, inject is what it encodes.          *)
Stages == {"probe", "inject", "parse", "fetch", "encode", "write"}
FirstStage(j) == IF j \in Uploads THEN "probe" ELSE "parse"
After == [probe |-> "inject", inject |-> "fetch", parse |-> "fetch",
          fetch |-> "encode", encode |-> "write", write |-> "release"]

Finished(j) == status[j] \in {"ready", "failed"}

Init ==
  /\ pc = [j \in Jobs |-> "request"]
  /\ status = [j \in Jobs |-> "none"]
  /\ jobs = {} /\ dir = {} /\ sem = 0
  /\ age = [j \in Jobs |-> 0] /\ kept = [j \in Jobs |-> 0]
  /\ janitor = TRUE /\ removing = {} /\ early = {} /\ undeleted = {}
  /\ closed = FALSE

----------------------------------------------------------------------------
(* newJob: make the directory, register the job as pending.                 *)
NewJob(j) ==
  /\ pc[j] = "request"
  /\ dir' = dir \cup {j}
  /\ jobs' = jobs \cup {j}
  /\ status' = [status EXCEPT ![j] = "pending"]
  /\ pc' = [pc EXCEPT ![j] = IF j \in Uploads THEN "save" ELSE "queued"]
  /\ UNCHANGED <<sem, age, kept, janitor, removing, early, undeleted, closed>>

(* handleCreateJob saves the upload after the job is registered; when that  *)
(* fails it answers 500 and leaves the record pending, without a goroutine. *)
SaveUpload(j) ==
  /\ pc[j] = "save"
  /\ \/ j \in dir /\ pc' = [pc EXCEPT ![j] = "queued"]
     \/ pc' = [pc EXCEPT ![j] = "abandoned"]
  /\ UNCHANGED <<status, jobs, dir, sem, age, kept, janitor, removing, early, undeleted, closed>>

(* The goroutine takes a slot, then reports processing.                     *)
Acquire(j) ==
  /\ pc[j] = "queued" /\ sem < MaxConcurrentJobs
  /\ sem' = sem + 1
  /\ status' = [status EXCEPT ![j] = "processing"]
  /\ pc' = [pc EXCEPT ![j] = FirstStage(j)]
  /\ UNCHANGED <<jobs, dir, age, kept, janitor, removing, early, undeleted, closed>>

(* EncodeHLS, which encodes both the cued content (inject) and the ad, runs *)
(* MkdirAll before it reads its input: it brings a deleted job directory    *)
(* back.                                                                    *)
DirAfter(j) == IF pc[j] \in {"inject", "encode"} THEN dir \cup {j} ELSE dir

(* A stage reads what the stages before it wrote: it needs the directory.   *)
StageSucceeds(j) ==
  /\ pc[j] \in Stages /\ (j \in dir \/ pc[j] = "parse")
  /\ dir' = DirAfter(j)
  /\ pc' = [pc EXCEPT ![j] = After[pc[j]]]
  /\ status' = [status EXCEPT ![j] = IF pc[j] = "write" THEN "ready" ELSE @]
  /\ UNCHANGED <<jobs, sem, age, kept, janitor, removing, early, undeleted, closed>>

(* s.fail, or recoverJob after a panic, before or after the MkdirAll.       *)
AfterFailure_Returns(j) == "done"
AfterFailure(j) == "release"

StageFails(j) ==
  /\ pc[j] \in Stages
  /\ dir' \in {dir, DirAfter(j)}
  /\ pc' = [pc EXCEPT ![j] = AfterFailure(j)]
  /\ status' = [status EXCEPT ![j] = "failed"]
  /\ UNCHANGED <<jobs, sem, age, kept, janitor, removing, early, undeleted, closed>>

(* The deferred <-s.sem.                                                    *)
Release_SetsFailed(j) ==
  /\ pc[j] = "release"
  /\ sem' = sem - 1
  /\ pc' = [pc EXCEPT ![j] = "done"]
  /\ status' = [status EXCEPT ![j] = "failed"]
  /\ UNCHANGED <<jobs, dir, age, kept, janitor, removing, early, undeleted, closed>>

Release(j) ==
  /\ pc[j] = "release"
  /\ sem' = sem - 1
  /\ pc' = [pc EXCEPT ![j] = "done"]
  /\ UNCHANGED <<status, jobs, dir, age, kept, janitor, removing, early, undeleted, closed>>

----------------------------------------------------------------------------
Older(n) == IF n <= JobTTL THEN n + 1 ELSE n

Tick ==
  /\ age' = [j \in Jobs |-> IF j \in jobs THEN Older(age[j]) ELSE age[j]]
  /\ kept' = [j \in Jobs |-> IF j \in jobs /\ Finished(j) THEN Older(kept[j]) ELSE kept[j]]
  /\ age' # age \/ kept' # kept
  /\ UNCHANGED <<pc, status, jobs, dir, sem, janitor, removing, early, undeleted, closed>>

(* sweepExpiredJobs: forget the expired jobs under s.mu, then delete their  *)
(* directories without it.  Only the age counts, not the status.            *)
Expired_OnlyFinished == {j \in jobs : age[j] > JobTTL /\ Finished(j)}
Expired == {j \in jobs : age[j] > JobTTL}

Sweep_DirsFirst ==
  /\ janitor /\ removing = {} /\ Expired # {}
  /\ dir' = dir \ Expired
  /\ removing' = Expired
  /\ UNCHANGED <<pc, status, jobs, sem, age, kept, janitor, early, undeleted, closed>>

Sweep ==
  /\ janitor /\ removing = {} /\ Expired # {}
  /\ jobs' = jobs \ Expired
  /\ removing' = Expired
  /\ early' = early \cup {j \in Expired : ~Finished(j)}
  /\ UNCHANGED <<pc, status, dir, sem, age, kept, janitor, undeleted, closed>>

RemoveDir_Forgotten(j) ==
  /\ j \in removing
  /\ removing' = removing \ {j}
  /\ UNCHANGED <<pc, status, jobs, dir, sem, age, kept, janitor, early, undeleted, closed>>

(* os.RemoveAll is tried once: its error is logged, and with the record     *)
(* gone nobody tries again.                                                 *)
RemoveDir(j) ==
  /\ j \in removing
  /\ removing' = removing \ {j}
  /\ \/ dir' = dir \ {j} /\ UNCHANGED undeleted
     \/ j \in dir /\ undeleted' = undeleted \cup {j} /\ UNCHANGED dir
  /\ UNCHANGED <<pc, status, jobs, sem, age, kept, janitor, early, closed>>

Close ==
  /\ ~closed /\ closed' = TRUE
  /\ UNCHANGED <<pc, status, jobs, dir, sem, age, kept, janitor, removing, early, undeleted>>

JanitorReturns ==
  /\ janitor /\ closed /\ removing = {}
  /\ janitor' = FALSE
  /\ UNCHANGED <<pc, status, jobs, dir, sem, age, kept, removing, early, undeleted, closed>>

----------------------------------------------------------------------------
Handler(j) == NewJob(j) \/ SaveUpload(j)
Pipeline(j) == Acquire(j) \/ StageSucceeds(j) \/ StageFails(j) \/ Release(j)
Janitor == Sweep \/ (\E j \in Jobs : RemoveDir(j)) \/ JanitorReturns

Next == (\E j \in Jobs : Handler(j) \/ Pipeline(j)) \/ Janitor \/ Tick \/ Close

Spec == Init /\ [][Next]_vars

(* Time passes and the janitor runs.  A goroutine runs while it can, and a  *)
(* stage ends: HTTP requests have a 30s timeout and FFmpeg reads a finite   *)
(* file.  Handlers need no fairness.                                        *)
FairSpec == Spec /\ WF_vars(Tick) /\ WF_vars(Janitor) /\ \A j \in Jobs : WF_vars(Pipeline(j))

----------------------------------------------------------------------------
Holding == {j \in Jobs : pc[j] \in Stages \cup {"release"}}

TypeOK ==
  /\ pc \in [Jobs -> Stages \cup {"request", "save", "abandoned", "queued", "release", "done"}]
  /\ status \in [Jobs -> {"none", "pending", "processing", "ready", "failed"}]
  /\ jobs \subseteq Jobs /\ dir \subseteq Jobs /\ removing \subseteq Jobs
  /\ early \subseteq Jobs /\ undeleted \subseteq Jobs
  /\ sem \in 0 .. MaxConcurrentJobs
  /\ age \in [Jobs -> 0 .. JobTTL + 1] /\ kept \in [Jobs -> 0 .. JobTTL + 1]
  /\ janitor \in BOOLEAN /\ closed \in BOOLEAN

(* No slot leaks and none is freed twice: the slots in use are those of the *)
(* goroutines between acquiring and the deferred release, however a         *)
(* pipeline ends.                                                           *)
SlotsAreHeld == sem = Cardinality(Holding)

(* A job the API reports as ready still has its files: the record goes      *)
(* before the directory does, and an outdated pipeline cannot report ready. *)
ReadyHasFiles == \A j \in jobs : status[j] = "ready" => j \in dir

(* A job that finished in time and whose files could be deleted leaves      *)
(* nothing behind: a directory without a record is about to be deleted, or  *)
(* its job was swept before it finished and the pipeline may have made it   *)
(* anew, or its one removal failed.                                         *)
OrphansAreExplained ==
  \A j \in dir : j \in jobs \cup removing \cup early \cup undeleted

(* ready and failed are final (a client stops polling at either).           *)
OutcomeIsFinal ==
  [][\A j \in Jobs : Finished(j) => status'[j] = status[j]]_vars

(* Every queued job gets a slot and an outcome, whatever the others do, and *)
(* gives the slot back.                                                     *)
QueuedJobsFinish == \A j \in Jobs : pc[j] = "queued" ~> pc[j] = "done" /\ Finished(j)

(* Every record is swept in the end, that of an upload that could not be    *)
(* saved included, unless the server is closed.                             *)
RecordsExpire == \A j \in Jobs : j \in jobs ~> j \notin jobs \/ closed

----------------------------------------------------------------------------
(* Config.JobTTL "is how long a completed (or failed) job's output is kept  *)
(* before the janitor removes it": a job that has finished is not swept     *)
(* until JobTTL has passed since.  (The sweep counts from CreatedAt.)       *)
OutputKeptForTTL ==
  [][\A j \in jobs \ jobs' : Finished(j) => kept[j] >= JobTTL]_vars
=============================================================================
