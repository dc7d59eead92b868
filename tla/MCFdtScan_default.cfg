SPECIFICATION Spec
CONSTANTS
  Cell = 32768
  Fallback = 98
  Blobs <- SomeDefaults
INVARIANT DefaultCells
CHECK_DEADLOCK FALSE
