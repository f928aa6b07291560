SPECIFICATION FairSpec
CONSTANTS
  WindowSize = 2
  Segments <- MCSegments
  Flights <- MCLongFlight
  OriginWindow = 2
  MaxFeed = 4
  Ticks = 2
  DefaultTarget = 10
INVARIANTS
  OnlyReplacedByAd
  OneAdPerBreak
  PlaybackOrder
  DiscontinuityAtSwitch
  TargetDurationCovers
PROPERTIES
  StableNumbering
  AcceptedAdIsPlayed
  SegmentsAreConsumed
  WindowSettles
CHECK_DEADLOCK FALSE
