----------------------------- MODULE JobsProofs -----------------------------
(***************************************************************************)
(* Proofs about Jobs, for any finite set of jobs, any number of slots and   *)
(* any JobTTL.                                                              *)
(***************************************************************************)
EXTENDS Jobs, FiniteSetTheorems, TLAPS

(* What a client can read of a job goes with where its goroutine stands.    *)
StatusFollowsPc ==
  \A j \in Jobs :
    /\ pc[j] = "request" => status[j] = "none" /\ j \notin jobs /\ j \notin dir /\ j \notin removing
    /\ pc[j] \in {"save", "abandoned", "queued"} => status[j] = "pending"
    /\ pc[j] \in Stages => status[j] = "processing"
    /\ pc[j] \in {"release", "done"} => Finished(j)

(* The janitor deletes only what it has forgotten, and only a job that is   *)
(* swept early runs without a record.                                       *)
RecordsOutlive ==
  /\ removing \cap jobs = {}
  /\ \A j \in Jobs : pc[j] # "request" => j \in jobs \/ Finished(j) \/ j \in early

IInv ==
  /\ TypeOK /\ SlotsAreHeld /\ StatusFollowsPc /\ RecordsOutlive
  /\ ReadyHasFiles /\ OrphansAreExplained

----------------------------------------------------------------------------
LEMMA AfterStages ==
  \A stage \in Stages :
    IF stage = "write" THEN After[stage] = "release" ELSE After[stage] \in Stages
BY DEF Stages, After

LEMMA FirstStageType == \A j \in Jobs : FirstStage(j) \in Stages
BY DEF FirstStage, Stages

LEMMA HoldingIsFinite == IsFiniteSet(Holding) /\ Cardinality(Holding) \in Nat
<1>1. Holding \in SUBSET Jobs
  BY DEF Holding
<1> QED BY <1>1, JobsAssumption, FS_Subset, FS_CardinalityType DEF JobsAssumption

(* A goroutine that moves without taking or releasing a slot.               *)
LEMMA SlotsUnmoved ==
  ASSUME SlotsAreHeld, sem' = sem, Holding' = Holding
  PROVE  SlotsAreHeld'
BY DEF SlotsAreHeld

LEMMA NewJobKeeps ==
  ASSUME IInv, NEW j \in Jobs, NewJob(j)
  PROVE  IInv'
<1> USE DEF IInv
<1>1. TypeOK'
  BY DEF NewJob, TypeOK
<1>2. pc' = [pc EXCEPT ![j] = pc'[j]] /\ pc'[j] \in {"save", "queued"} /\ pc[j] = "request"
  BY DEF NewJob, TypeOK
<1>3. Holding' = Holding
  BY <1>2 DEF Holding, Stages, TypeOK
<1>4. SlotsAreHeld'
  BY <1>3, SlotsUnmoved DEF NewJob
<1>5. j \notin jobs /\ j \notin dir /\ j \notin removing
  BY <1>2 DEF StatusFollowsPc
<1>6. StatusFollowsPc'
  BY <1>2 DEF NewJob, StatusFollowsPc, Finished, TypeOK, Stages
<1>7. RecordsOutlive'
  BY <1>2, <1>5 DEF NewJob, RecordsOutlive, Finished, TypeOK
<1>8. ReadyHasFiles'
  BY <1>2 DEF NewJob, ReadyHasFiles, TypeOK
<1>9. OrphansAreExplained'
  BY DEF NewJob, OrphansAreExplained
<1> QED BY <1>1, <1>4, <1>6, <1>7, <1>8, <1>9

LEMMA SaveUploadKeeps ==
  ASSUME IInv, NEW j \in Jobs, SaveUpload(j)
  PROVE  IInv'
<1> USE DEF IInv
<1>1. UNCHANGED <<status, jobs, dir, sem, age, kept, janitor, removing, early, undeleted, closed>>
  BY DEF SaveUpload
<1>2. pc' = [pc EXCEPT ![j] = pc'[j]] /\ pc'[j] \in {"abandoned", "queued"} /\ pc[j] = "save"
  BY DEF SaveUpload, TypeOK
<1>3. TypeOK'
  BY DEF SaveUpload, TypeOK
<1>4. Holding' = Holding
  BY <1>2 DEF Holding, Stages, TypeOK
<1>5. SlotsAreHeld'
  BY <1>1, <1>4, SlotsUnmoved
<1>6. StatusFollowsPc'
  BY <1>1, <1>2 DEF StatusFollowsPc, Finished, TypeOK, Stages
<1>7. RecordsOutlive'
  BY <1>1, <1>2 DEF RecordsOutlive, Finished, TypeOK
<1>8. ReadyHasFiles' /\ OrphansAreExplained'
  BY <1>1 DEF ReadyHasFiles, OrphansAreExplained
<1> QED BY <1>3, <1>5, <1>6, <1>7, <1>8

LEMMA AcquireKeeps ==
  ASSUME IInv, NEW j \in Jobs, Acquire(j)
  PROVE  IInv'
<1> USE DEF IInv
<1>1. UNCHANGED <<jobs, dir, age, kept, janitor, removing, early, undeleted, closed>>
  BY DEF Acquire
<1>2. /\ pc[j] = "queued" /\ pc' = [pc EXCEPT ![j] = FirstStage(j)] /\ FirstStage(j) \in Stages
      /\ status' = [status EXCEPT ![j] = "processing"]
      /\ sem' = sem + 1 /\ sem < MaxConcurrentJobs
  BY FirstStageType DEF Acquire
<1>3. sem' \in 0 .. MaxConcurrentJobs
  BY <1>2, JobsAssumption DEF TypeOK, JobsAssumption
<1>4. TypeOK'
  BY <1>1, <1>2, <1>3 DEF TypeOK
<1>5. Holding' = Holding \cup {j} /\ j \notin Holding
  BY <1>2 DEF Holding, TypeOK, Stages
<1>6. SlotsAreHeld'
  BY <1>2, <1>5, HoldingIsFinite, FS_AddElement DEF SlotsAreHeld
<1>7. StatusFollowsPc'
  BY <1>1, <1>2 DEF StatusFollowsPc, Finished, TypeOK, Stages
<1>8. status[j] = "pending"
  BY <1>2 DEF StatusFollowsPc
<1>9. RecordsOutlive'
  BY <1>1, <1>2, <1>8 DEF RecordsOutlive, Finished, TypeOK
<1>10. ReadyHasFiles' /\ OrphansAreExplained'
  BY <1>1, <1>2 DEF ReadyHasFiles, OrphansAreExplained, TypeOK
<1> QED BY <1>4, <1>6, <1>7, <1>9, <1>10

(* A stage ends well or badly: the goroutine keeps its slot.                *)
LEMMA StageKeeps ==
  ASSUME IInv, NEW j \in Jobs, StageSucceeds(j) \/ StageFails(j)
  PROVE  IInv'
<1> USE DEF IInv
<1>1. UNCHANGED <<jobs, sem, age, kept, janitor, removing, early, undeleted, closed>>
  BY DEF StageSucceeds, StageFails
<1>2. pc[j] \in Stages /\ status[j] = "processing" /\ (j \in jobs \/ j \in early)
  BY DEF StageSucceeds, StageFails, StatusFollowsPc, RecordsOutlive, Finished, Stages
<1>3. /\ pc' = [pc EXCEPT ![j] = pc'[j]] /\ status' = [status EXCEPT ![j] = status'[j]]
      /\ \/ pc'[j] \in Stages /\ status'[j] = "processing"
         \/ pc'[j] = "release" /\ status'[j] = "failed"
         \/ pc'[j] = "release" /\ status'[j] = "ready" /\ j \in dir
  <2>1. CASE StageFails(j)
    BY <2>1 DEF StageFails, AfterFailure, TypeOK
  <2>2. CASE StageSucceeds(j)
    BY <1>2, <2>2, AfterStages DEF StageSucceeds, TypeOK
  <2> QED BY <2>1, <2>2
<1>4. dir \subseteq dir' /\ dir' \subseteq dir \cup {j}
  BY DEF StageSucceeds, StageFails, DirAfter
<1>5. TypeOK'
  BY <1>1, <1>3, <1>4 DEF TypeOK
<1>6. Holding' = Holding
  BY <1>2, <1>3 DEF Holding, TypeOK
<1>7. SlotsAreHeld'
  BY <1>1, <1>6, SlotsUnmoved
<1>8. StatusFollowsPc'
  BY <1>1, <1>2, <1>3, <1>4 DEF StatusFollowsPc, Finished, TypeOK, Stages
<1>9. RecordsOutlive'
  BY <1>1, <1>2, <1>3 DEF RecordsOutlive, Finished, TypeOK
<1>10. ReadyHasFiles'
  BY <1>1, <1>3, <1>4 DEF ReadyHasFiles, TypeOK
<1>11. OrphansAreExplained'
  BY <1>1, <1>2, <1>4 DEF OrphansAreExplained
<1> QED BY <1>5, <1>7, <1>8, <1>9, <1>10, <1>11

LEMMA ReleaseKeeps ==
  ASSUME IInv, NEW j \in Jobs, Release(j)
  PROVE  IInv'
<1> USE DEF IInv
<1>1. UNCHANGED <<status, jobs, dir, age, kept, janitor, removing, early, undeleted, closed>>
  BY DEF Release
<1>2. pc[j] = "release" /\ pc' = [pc EXCEPT ![j] = "done"] /\ sem' = sem - 1
  BY DEF Release
<1>3. Holding' = Holding \ {j} /\ j \in Holding
  BY <1>2 DEF Holding, TypeOK, Stages
<1>4. Cardinality(Holding') = Cardinality(Holding) - 1 /\ Cardinality(Holding') \in Nat
  <2>1. IsFiniteSet(Holding \ {j}) /\ Cardinality(Holding \ {j}) = Cardinality(Holding) - 1
    BY <1>3, HoldingIsFinite, FS_RemoveElement
  <2> QED BY <1>3, <2>1, FS_CardinalityType
<1>5. SlotsAreHeld'
  BY <1>2, <1>4 DEF SlotsAreHeld
<1>6. sem' \in 0 .. MaxConcurrentJobs
  BY <1>2, <1>4, <1>5, JobsAssumption DEF TypeOK, SlotsAreHeld, JobsAssumption
<1>7. TypeOK'
  BY <1>1, <1>2, <1>6 DEF TypeOK
<1>8. StatusFollowsPc'
  BY <1>1, <1>2 DEF StatusFollowsPc, Finished, TypeOK, Stages
<1>9. RecordsOutlive'
  BY <1>1, <1>2 DEF RecordsOutlive, Finished, TypeOK
<1>10. ReadyHasFiles' /\ OrphansAreExplained'
  BY <1>1 DEF ReadyHasFiles, OrphansAreExplained
<1> QED BY <1>5, <1>7, <1>8, <1>9, <1>10

----------------------------------------------------------------------------
LEMMA OlderType == \A n \in 0 .. JobTTL + 1 : Older(n) \in 0 .. JobTTL + 1
BY JobsAssumption DEF JobsAssumption, Older

(* The clock, the janitor and Close move no goroutine.                      *)
LEMMA BackgroundKeeps ==
  ASSUME IInv, Tick \/ Janitor \/ Close
  PROVE  IInv'
<1> USE DEF IInv
<1>1. pc' = pc /\ status' = status /\ sem' = sem
  BY DEF Tick, Janitor, Sweep, RemoveDir, JanitorReturns, Close
<1>2. SlotsAreHeld'
  BY <1>1, SlotsUnmoved DEF Holding
<1>3. CASE Tick
  <2>1. UNCHANGED <<jobs, dir, janitor, removing, early, undeleted, closed>>
    BY <1>3 DEF Tick
  <2>2. age' \in [Jobs -> 0 .. JobTTL + 1] /\ kept' \in [Jobs -> 0 .. JobTTL + 1]
    BY <1>3, OlderType DEF Tick, TypeOK
  <2>3. TypeOK'
    BY <1>1, <2>1, <2>2 DEF TypeOK
  <2>4. StatusFollowsPc' /\ RecordsOutlive'
    BY <1>1, <2>1 DEF StatusFollowsPc, RecordsOutlive, Finished
  <2>5. ReadyHasFiles' /\ OrphansAreExplained'
    BY <1>1, <2>1 DEF ReadyHasFiles, OrphansAreExplained
  <2> QED BY <1>2, <2>3, <2>4, <2>5
<1>4. CASE Sweep
  <2>1. /\ jobs' = jobs \ Expired /\ removing' = Expired /\ removing = {}
        /\ early' = early \cup {j \in Expired : ~Finished(j)}
        /\ UNCHANGED <<dir, age, kept, janitor, undeleted, closed>>
    BY <1>4 DEF Sweep
  <2>2. Expired \subseteq jobs
    BY DEF Expired
  <2>3. TypeOK'
    BY <1>1, <2>1, <2>2 DEF TypeOK
  <2>4. StatusFollowsPc'
    BY <1>1, <2>1, <2>2 DEF StatusFollowsPc, Finished
  <2>5. RecordsOutlive'
    BY <1>1, <2>1 DEF RecordsOutlive, Finished
  <2>6. ReadyHasFiles' /\ OrphansAreExplained'
    BY <1>1, <2>1 DEF ReadyHasFiles, OrphansAreExplained
  <2> QED BY <1>2, <2>3, <2>4, <2>5, <2>6
<1>5. ASSUME NEW j \in Jobs, RemoveDir(j)
      PROVE  IInv'
  <2>1. /\ j \in removing /\ removing' = removing \ {j}
        /\ \/ dir' = dir \ {j} /\ undeleted' = undeleted
           \/ dir' = dir /\ undeleted' = undeleted \cup {j}
        /\ UNCHANGED <<jobs, early, age, kept, janitor, closed>>
    BY <1>5 DEF RemoveDir
  <2>2. TypeOK'
    BY <1>1, <2>1 DEF TypeOK
  <2>3. StatusFollowsPc' /\ RecordsOutlive'
    BY <1>1, <2>1 DEF StatusFollowsPc, RecordsOutlive, Finished
  <2>4. ReadyHasFiles' /\ OrphansAreExplained'
    BY <1>1, <2>1 DEF ReadyHasFiles, OrphansAreExplained, RecordsOutlive
  <2> QED BY <1>2, <2>2, <2>3, <2>4
<1>6. CASE JanitorReturns \/ Close
  <2>1. UNCHANGED <<jobs, dir, age, kept, removing, early, undeleted>>
    BY <1>6 DEF JanitorReturns, Close
  <2>2. TypeOK'
    BY <1>1, <1>6, <2>1 DEF TypeOK, JanitorReturns, Close
  <2>3. StatusFollowsPc' /\ RecordsOutlive'
    BY <1>1, <2>1 DEF StatusFollowsPc, RecordsOutlive, Finished
  <2>4. ReadyHasFiles' /\ OrphansAreExplained'
    BY <1>1, <2>1 DEF ReadyHasFiles, OrphansAreExplained
  <2> QED BY <1>2, <2>2, <2>3, <2>4
<1> QED BY <1>3, <1>4, <1>5, <1>6 DEF Janitor

LEMMA StutteringKeeps == IInv /\ UNCHANGED vars => IInv'
<1> SUFFICES ASSUME IInv, UNCHANGED vars PROVE IInv'
  OBVIOUS
<1>1. TypeOK'
  BY Zenon DEF IInv, TypeOK, vars
<1>2. pc' = pc /\ status' = status /\ jobs' = jobs /\ dir' = dir /\ sem' = sem
      /\ removing' = removing /\ early' = early /\ undeleted' = undeleted
  BY DEF vars
<1> QED BY <1>1, <1>2 DEF IInv, SlotsAreHeld, Holding, StatusFollowsPc, RecordsOutlive,
          Finished, ReadyHasFiles, OrphansAreExplained

LEMMA InvariantHolds == Spec => []IInv
<1>1. Init => IInv
  <2> SUFFICES ASSUME Init PROVE IInv
    OBVIOUS
  <2>1. janitor \in BOOLEAN /\ closed \in BOOLEAN
    BY Zenon DEF Init
  <2>2. TypeOK
    BY <2>1, JobsAssumption DEF Init, TypeOK, JobsAssumption
  <2>3. Holding = {}
    BY DEF Init, Holding, Stages
  <2>4. SlotsAreHeld
    BY <2>3, FS_EmptySet DEF Init, SlotsAreHeld
  <2>5. StatusFollowsPc
    BY DEF Init, StatusFollowsPc, Stages
  <2>6. RecordsOutlive /\ ReadyHasFiles /\ OrphansAreExplained
    BY DEF Init, RecordsOutlive, ReadyHasFiles, OrphansAreExplained
  <2> QED BY <2>2, <2>4, <2>5, <2>6 DEF IInv
<1>2. IInv /\ [Next]_vars => IInv'
  BY NewJobKeeps, SaveUploadKeeps, AcquireKeeps, StageKeeps, ReleaseKeeps, BackgroundKeeps,
     StutteringKeeps DEF Next, Handler, Pipeline
<1> QED BY <1>1, <1>2, PTL DEF Spec

----------------------------------------------------------------------------
(* The types of jobs, directories and slots: in particular no more slots    *)
(* are ever taken than there are.                                           *)
THEOREM TypeCorrect == Spec => []TypeOK
<1>1. IInv => TypeOK
  BY DEF IInv
<1> QED BY <1>1, InvariantHolds, PTL

(* However a pipeline ends, its slot is given back once: the slots in use   *)
(* are exactly those of the goroutines at work.                             *)
THEOREM NoSlotLeaks == Spec => []SlotsAreHeld
<1>1. IInv => SlotsAreHeld
  BY DEF IInv
<1> QED BY <1>1, InvariantHolds, PTL

(* A job reported as ready has its files for as long as it has a record,    *)
(* though the janitor deletes directories without any lock.                 *)
THEOREM ReadyJobsHaveFiles == Spec => []ReadyHasFiles
<1>1. IInv => ReadyHasFiles
  BY DEF IInv
<1> QED BY <1>1, InvariantHolds, PTL

(* A directory outlives both its record and the sweep only if its job was   *)
(* swept before it finished or if its removal failed: a job that finished   *)
(* in time and could be deleted leaves nothing behind.                      *)
THEOREM OnlySweepsLeak == Spec => []OrphansAreExplained
<1>1. IInv => OrphansAreExplained
  BY DEF IInv
<1> QED BY <1>1, InvariantHolds, PTL

(* ready and failed are final: a job is not failed after it was reported    *)
(* ready, nor the other way round, whatever panics or is deferred.          *)
THEOREM OutcomesAreFinal == Spec => OutcomeIsFinal
<1> DEFINE Stays == \A j \in Jobs : Finished(j) => status'[j] = status[j]
<1>1. IInv /\ [Next]_vars => [Stays]_vars
  <2> SUFFICES ASSUME IInv, Next, NEW i \in Jobs, Finished(i)
               PROVE  status'[i] = status[i]
    OBVIOUS
  <2>1. status \in [Jobs -> {"none", "pending", "processing", "ready", "failed"}]
    BY DEF IInv, TypeOK
  <2>2. CASE status' = status
    BY <2>2
  <2>3. ASSUME NEW j \in Jobs, pc[j] \in {"request", "queued"} \cup Stages,
               status' = [status EXCEPT ![j] = status'[j]]
        PROVE  status'[i] = status[i]
    <3>1. i # j
      BY <2>3 DEF IInv, StatusFollowsPc, Finished
    <3> QED BY <2>1, <2>3, <3>1
  <2>4. ASSUME NEW j \in Jobs, NewJob(j) \/ Acquire(j) \/ StageSucceeds(j) \/ StageFails(j)
        PROVE  status'[i] = status[i]
    <3>1. pc[j] \in {"request", "queued"} \cup Stages
      BY <2>4 DEF NewJob, Acquire, StageSucceeds, StageFails
    <3>2. status' = [status EXCEPT ![j] = status'[j]]
      BY <2>1, <2>4 DEF NewJob, Acquire, StageSucceeds, StageFails
    <3> QED BY <2>3, <3>1, <3>2
  <2>5. CASE (\E j \in Jobs : SaveUpload(j) \/ Release(j)) \/ Janitor \/ Tick \/ Close
    BY <2>2, <2>5 DEF SaveUpload, Release, Janitor, Sweep, RemoveDir, JanitorReturns, Tick, Close
  <2> QED BY <2>4, <2>5 DEF Next, Handler, Pipeline
<1>2. Spec => [][Stays]_vars
  BY <1>1, InvariantHolds, PTL DEF Spec
<1> QED BY <1>2 DEF OutcomeIsFinal
=============================================================================
