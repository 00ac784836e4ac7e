CONSTANTS
  w1 = w1
  Workers = {w1}
  LaValues <- Positions
  NoWorker = NoWorker
  NoCommand = NoCommand
  Unplugs = FALSE
SPECIFICATION Spec
PROPERTIES LaReachesArduino
