SPECIFICATION Spec
CONSTANTS
  Second = 24
  Precision = 6
  MinSegmentDuration = 24
  Epsilon = 2
  SegmentSeconds = 240
  MaxLoopRepeats = 2
  MaxWrapperDepth = 2
  Inputs <- MCInputs
  MediaFiles <- MCMediaFiles
  Answers <- MCAnswers
INVARIANTS
  AdIsDecided
  ContentOutsideBreakKept
  AdAtCue
  OutputIsComplete
  CuesAreReported
CHECK_DEADLOCK FALSE
