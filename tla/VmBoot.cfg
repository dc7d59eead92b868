SPECIFICATION Spec
CONSTANTS
  Torturers = {h1}
  Uint = 64
  TopBit = 4096
  PageWords = 1
INVARIANTS IInv NoFrameTwice TranslationsRight ListAsAssumed
CHECK_DEADLOCK FALSE
