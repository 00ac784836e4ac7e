SPECIFICATION Spec
CONSTANTS
  Limit = 5
  Operators = {o}
  Observers = {w}
  MaxPending = 2
  MaxThreads = 2
  Garbage = {"mission"}
INVARIANTS TypeOK DescriptorsOwned
PROPERTIES ClientServed DepthFollows
CHECK_DEADLOCK FALSE
