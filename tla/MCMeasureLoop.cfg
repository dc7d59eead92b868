SPECIFICATION Spec
CONSTANTS
  Word = 32
  Reg = 128
  Last <- FewTurns
  Costs = {0, 1, 5}
  Starts = {0, 31, 126}
INVARIANTS IInv InstrsExact CyclesExact
CHECK_DEADLOCK FALSE
