------------------------------ MODULE Rendezvous ------------------------------
(* What barrier() in src/src/common/util.h promises its callers: a thread that *)
(* has arrived waits until every thread has arrived, and then all of them are  *)
(* released together.  SenseBarrier is shown to implement this specification.  *)
EXTENDS FiniteSets

CONSTANT Threads

VARIABLE waiting      \* the threads that have arrived and are not yet released

Init == waiting = {}

Arrive(t) ==
  /\ t \notin waiting
  /\ waiting' = waiting \cup {t}

Release ==
  /\ waiting = Threads
  /\ waiting' = {}

Next == (\E t \in Threads : Arrive(t)) \/ Release

Spec == Init /\ [][Next]_waiting

\* Once all have arrived the release may not be withheld.
Fairness == WF_waiting(Release)
================================================================================
