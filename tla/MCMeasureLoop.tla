----------------------------- MODULE MCMeasureLoop -----------------------------
EXTENDS MeasureLoop

FewTurns == [int |-> 1, single |-> 0, double |-> 1, latency |-> 0]
================================================================================
