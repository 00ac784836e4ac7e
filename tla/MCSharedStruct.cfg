CONSTANTS
  operator = operator
  yaw = yaw
  diagnostics = diagnostics
  Threads = {operator, yaw, diagnostics}
  Writers = {operator, yaw}
  Fields <- MCFields
  Access <- MCAccess
  Values = {0, 1}
  Zero = 0
  NoThread = NoThread
SPECIFICATION Spec
INVARIANTS TypeOK Snapshot
PROPERTIES ImplementsAtomic CallsReturn
