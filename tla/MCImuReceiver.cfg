CONSTANTS
  Kinds <- MCKinds
SPECIFICATION Spec
INVARIANTS TypeOK
PROPERTIES CompleteFramePublished OneLossDetected ImuReconnects OrientationHeals
