SPECIFICATION Spec
CONSTANTS
  N = 3
  MaxInterrupts = 4
INVARIANTS TypeOK InterruptsRetire
PROPERTIES FeedsStop
CHECK_DEADLOCK FALSE
