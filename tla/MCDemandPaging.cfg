SPECIFICATION FairSpec
CONSTANTS
  None = None
  NPages = 3
  FrameAt <- ThreeFrames
  Insns <- TwoPageInsns
INVARIANTS IInv TlbCoherent FramesExclusive DirtyTracked AssertionsHold
PROPERTIES Implements AccessCompletes
CHECK_DEADLOCK FALSE
