SPECIFICATION Spec
CONSTANTS
  Uploads = {u1}
  Demos = {d1}
  MaxConcurrentJobs = 1
  JobTTL = 1
PROPERTY OutputKeptForTTL
CHECK_DEADLOCK FALSE
