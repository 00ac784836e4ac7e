CONSTANTS
  NUM_ERRORS = 2
  Half = 3
  Gains <- MCGains
  Garbage <- MCGarbage
  NoHeading = NoHeading
  NoError = NoError
SPECIFICATION Spec
INVARIANTS TypeOK RingIsWindow
PROPERTIES ErrorNeverGrows Settles KeepsSide
