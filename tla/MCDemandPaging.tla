---------------------------- MODULE MCDemandPaging ----------------------------
EXTENDS DemandPaging

I(op, p, v) == [op |-> op, page |-> p, val |-> v]

\* The order in which the LFSR of vm_boot yields three frames from start 1.
ThreeFrames == [i \in 0..2 |-> 3 + <<1, 2, 3>>[i + 1]]

\* Two usable pages: loads and stores on both, a store of what the image already
\* holds, both sides of the range, an exit code and an FP instruction.
TwoPageInsns ==
  {I("load", 1, 0), I("load", 2, 0), I("store", 1, 9), I("store", 2, 9), I("store", 1, 1),
   I("load", 0, 0), I("store", 3, 9), I("ecall", 0, 5), I("fp", 0, 0)}
================================================================================
