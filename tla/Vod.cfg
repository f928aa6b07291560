SPECIFICATION Spec
CONSTANTS
  SegmentSeconds = 100
  Epsilon = 1
  MaxLoopRepeats = 2
  Second = 10
  Requests <- MCRequests
  Playlists <- MCPlaylists
  Ads <- MCAds
  CallerOptions <- MCOptions
INVARIANTS
  ContentKept
  AdSitsInBreak
  SwitchesAreMarked
  BreakIsFilled
  TargetCoversOutput
  AdAtRequestedTime
  NoRuntSegments
  FillersAgree
CHECK_DEADLOCK FALSE
