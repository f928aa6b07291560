SPECIFICATION Spec
CONSTANTS
  WindowSize = 2
  Segments <- MCSegments
  Flights <- MCFlights
  OriginWindow = 2
  MaxFeed = 4
  Ticks = 2
  DefaultTarget = 10
INVARIANT FailOpenIsUnchanged
CHECK_DEADLOCK FALSE
