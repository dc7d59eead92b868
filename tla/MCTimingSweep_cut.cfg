SPECIFICATION Spec
CONSTANTS
  N = 2
  MayFail = FALSE
  SourceTrees <- FreshTree
  Sep <- SmallSep
  Marker = 2
INVARIANT CollectedWholeLines
CHECK_DEADLOCK FALSE
