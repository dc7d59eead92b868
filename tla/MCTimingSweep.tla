---------------------------- MODULE MCTimingSweep ----------------------------
EXTENDS TimingSweep

\* A fresh checkout, and anything at all.
FreshTree == {[objects |-> FALSE, build |-> FALSE, work |-> FALSE]}
AnyTree == [objects : BOOLEAN, build : BOOLEAN, work : BOOLEAN]

\* op1 T d T op2 T d T instrs T d T cycles T dd NL: the labels are one letter, the fifth
\* is the two of the marker.
Layout == <<2, 4, 6, 8, 11, 13, 15, 18>>
SmallSep == [n \in 0..8 |-> IF n = 0 THEN 0 ELSE Layout[n]]
================================================================================
