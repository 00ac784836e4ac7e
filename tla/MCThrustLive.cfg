CONSTANTS
  w1 = w1
  Workers = {w1}
  OperatorThrust <- MCOperatorThrust
  YawOutput <- MCYawOutput
  DepthOutput <- MCDepthOutput
  Garbage <- MCGarbage
  NoThrust = NoThrust
  NoCommand = NoCommand
  Faults = {"unplug"}
SPECIFICATION Spec
PROPERTIES ChangeDelivered Reconnects DisableQuiesces AutonSteers
