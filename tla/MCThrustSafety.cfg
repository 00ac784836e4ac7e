CONSTANTS
  w1 = w1
  w2 = w2
  Workers = {w1, w2}
  OperatorThrust <- MCOperatorThrust
  YawOutput <- MCYawOutput
  DepthOutput <- MCDepthOutput
  Garbage <- MCGarbage
  NoThrust = NoThrust
  NoCommand = NoCommand
  Faults = {"unplug", "restart"}
SPECIFICATION SafeSpec
INVARIANTS TypeOK PrevIsSent QuietStart SurgeFromOneWriter
PROPERTIES LateWritesDrain
SYMMETRY WorkerSymmetry
