SPECIFICATION FairSpec
CONSTANTS
  N = 2
  MayFail = TRUE
  SourceTrees <- AnyTree
  Sep <- SmallSep
  Marker = 2
INVARIANTS IInv LinesAttributed ResultsInOrder WholeLinesKept
PROPERTY SweepEnds
CHECK_DEADLOCK FALSE
