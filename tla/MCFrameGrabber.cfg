SPECIFICATION Spec
CONSTANTS
  Requested = 3
  MostGranted = 4
  W = 4
  Counts <- MCCounts
  Timeouts <- MCTimeouts
INVARIANTS TypeOK BuffersOwned FramesAsAsked
PROPERTIES InterruptEnds SilenceEnds
CHECK_DEADLOCK FALSE
