SPECIFICATION FairSpec
CONSTANTS
  Ids = {s1, s2}
  Readers = {r1}
  MaxConcurrentLive = 1
  MaxLiveDuration = 1
INVARIANTS
  PollersAreOwned
  ClosedAtMostOnce
PROPERTIES
  StoppedStaysStopped
  SessionsEnd
CHECK_DEADLOCK FALSE
