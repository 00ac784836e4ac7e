CONSTANTS
  w1 = w1
  w2 = w2
  Workers = {w1, w2}
  LaValues <- Positions
  NoWorker = NoWorker
  NoCommand = NoCommand
  Unplugs = TRUE
SPECIFICATION Spec
INVARIANTS TypeOK PairFromOneCommand RememberedIsSent
PROPERTIES LaserOnResends LaReachesUnlessRaced
