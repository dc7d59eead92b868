SPECIFICATION Spec
CONSTANTS
  Cell = 32768
  Fallback = 98
  Blobs <- GivenCells
INVARIANTS IInv ScanIsOwn DoneOnce FirstUart SetUpQuietly
CHECK_DEADLOCK FALSE
