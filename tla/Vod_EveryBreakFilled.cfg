SPECIFICATION Spec
CONSTANTS
  SegmentSeconds = 100
  Epsilon = 1
  MaxLoopRepeats = 2
  Second = 10
  Requests <- MCRequests
  Playlists <- MCPlaylists
  Ads <- MCAds
  CallerOptions <- MCOptions
INVARIANT EveryBreakFilled
CHECK_DEADLOCK FALSE
