SPECIFICATION FairProcessSpec
CONSTANTS
  Clients = {c1}
  MaxRequests = 2
  Window = 2
  Requests = {r1, r2}
  MaxConcurrentSessions = 1
  SessionTTL = 1
INVARIANTS
  SlotsAreHeld
  SessionsAreServable
  DirsAreOwned
  BurstBound
  GracefulLosesNothing
PROPERTIES
  ImplementsQuota
  RequestsAreAnswered
  SessionsExpire
CHECK_DEADLOCK FALSE
