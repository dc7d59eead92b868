SPECIFICATION FairSpec
CONSTANTS
  Torturers = {h1}
  Uint = 64
  TopBit = 4096
  PageWords = 1
PROPERTY KeepsMissing
CHECK_DEADLOCK FALSE
