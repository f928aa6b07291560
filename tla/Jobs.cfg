SPECIFICATION FairSpec
CONSTANTS
  Uploads = {u1}
  Demos = {d1}
  MaxConcurrentJobs = 1
  JobTTL = 1
INVARIANTS
  SlotsAreHeld
  ReadyHasFiles
  OrphansAreExplained
PROPERTIES
  OutcomeIsFinal
  QueuedJobsFinish
  RecordsExpire
CHECK_DEADLOCK FALSE
