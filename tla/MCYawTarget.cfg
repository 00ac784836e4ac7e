CONSTANTS
  NUM_ERRORS = 2
  Half = 2
  Gains <- MainGains
  Garbage = {0}
  NoHeading = NoHeading
  NoError = NoError
SPECIFICATION Spec
PROPERTIES ReachesTarget
