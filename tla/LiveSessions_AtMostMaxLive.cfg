SPECIFICATION Spec
CONSTANTS
  Ids = {s1, s2}
  Readers = {r1}
  MaxConcurrentLive = 1
  MaxLiveDuration = 1
INVARIANT AtMostMaxLive
CHECK_DEADLOCK FALSE
