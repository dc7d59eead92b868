SPECIFICATION Spec
CONSTANTS
  None = None
  NPages = 3
  FrameAt <- ThreeFrames
  Insns <- TwoPageInsns
INVARIANT FpTestSucceeds
CHECK_DEADLOCK FALSE
