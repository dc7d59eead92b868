-------------------------- MODULE SenseBarrierProofs --------------------------
(* Proofs about SenseBarrier, for every finite non-empty set of threads and    *)
(* for both orders in which a hart's stores may become visible.                *)
EXTENDS SenseBarrier, FiniteSetTheorems, TLAPS

LEMMA NCoresNat == NCores \in Nat
  BY ThreadsAssumption, FS_CardinalityType DEF NCores

\* The number of waiting threads is a number, and no more than all of them.
LEMMA WaitingBounded ==
  /\ IsFiniteSet(Waiting)
  /\ Cardinality(Waiting) \in Nat
  <1>1. Waiting \subseteq Threads
    BY DEF Waiting
  <1>2. QED
    BY <1>1, ThreadsAssumption, FS_Subset, FS_CardinalityType

\* A set of threads that leaves t out and has as many elements as there are
\* other threads is the set of all other threads.
LEMMA AllOthers ==
  ASSUME NEW t \in Threads, NEW S \in SUBSET Threads, t \notin S,
         Cardinality(S) >= NCores - 1
  PROVE  S = Threads \ {t}
  <1>1. IsFiniteSet(Threads \ {t}) /\ Cardinality(Threads \ {t}) = NCores - 1
    BY ThreadsAssumption, FS_RemoveElement DEF NCores
  <1>2. S \subseteq Threads \ {t}
    OBVIOUS
  <1>3. Cardinality(S) <= Cardinality(Threads \ {t})
    BY <1>1, <1>2, FS_Subset
  <1>4. Cardinality(S) \in Nat
    BY <1>1, <1>2, FS_Subset, FS_CardinalityType
  <1>5. Cardinality(S) = Cardinality(Threads \ {t})
    BY <1>1, <1>3, <1>4, NCoresNat
  <1>6. QED
    BY <1>1, <1>2, <1>5, FS_Subset

\* The types hold in every reachable state.
THEOREM TypeCorrect == Spec => []TypeOK
  <1>1. Init => TypeOK
    BY DEF Init, TypeOK, PC
  <1>2. TypeOK /\ [Next]_vars => TypeOK'
    BY DEF TypeOK, PC, Next, InBarrier, vars, Enter, FetchAndAdd, Reset, Publish,
           Spin, Fence, CountVisible, SenseVisible, Goto
  <1>3. QED
    BY <1>1, <1>2, PTL DEF Spec

LEMMA InitIInv == Init => IInv
  <1> SUFFICES ASSUME Init PROVE IInv
    OBVIOUS
  <1>1. TypeOK
    BY DEF Init, TypeOK, PC
  <1>2. PhaseInv
    BY DEF Init, PhaseInv, OwesRelease
  <1>3. OneLastArriver
    BY DEF Init, OneLastArriver, OwesReset, OwesRelease
  <1>4. CountInv
    BY WaitingBounded DEF Init, CountInv, OwesReset, OwesRelease
  <1>5. QED
    BY <1>1, <1>2, <1>3, <1>4 DEF IInv

\* Every step preserves the inductive invariant.  Where the set of waiting
\* threads changes, a step named Waiting' says how.
LEMMA NextIInv == IInv /\ [Next]_vars => IInv'
  <1> SUFFICES ASSUME IInv, [Next]_vars PROVE IInv'
    OBVIOUS
  <1> USE NCoresNat, WaitingBounded
  <1>t. TypeOK'
    <2>1. TypeOK
      BY DEF IInv
    <2>2. QED
      BY <2>1 DEF TypeOK, PC, Next, InBarrier, vars, Enter, FetchAndAdd, Reset,
         Publish, Spin, Fence, CountVisible, SenseVisible, Goto
  <1>1. ASSUME NEW t \in Threads, Enter(t) PROVE IInv'
    <2> USE <1>1 DEF Enter, Goto
    <2>1. /\ \A u \in Threads : OwesReset(u)' <=> OwesReset(u)
          /\ \A u \in Threads : OwesRelease(u)' <=> OwesRelease(u)
      BY DEF IInv, TypeOK, OwesReset, OwesRelease
    <2>2. Waiting' = Waiting
      BY DEF IInv, TypeOK, Waiting, Counted
    <2>3. PhaseInv'
      BY <2>1, <2>2 DEF IInv, TypeOK, PhaseInv
    <2>4. OneLastArriver'
      BY <2>1 DEF IInv, OneLastArriver
    <2>5. CountInv'
      BY <2>1, <2>2 DEF IInv, CountInv
    <2>6. QED
      BY <1>t, <2>3, <2>4, <2>5 DEF IInv
  <1>2. ASSUME NEW t \in Threads, FetchAndAdd(t) PROVE IInv'
    <2> USE <1>2 DEF FetchAndAdd, Goto
    <2>1. t \notin Waiting /\ Waiting' = Waiting \cup {t}
      BY DEF IInv, TypeOK, PhaseInv, Waiting, Counted
    <2>2. \A u \in Threads : ~OwesRelease(u)
      BY <2>1 DEF IInv, PhaseInv
    <2>3. Cardinality(Waiting') = Cardinality(Waiting) + 1
      BY <2>1, FS_AddElement
    <2>4. CASE count = NCores - 1
      <3>1. \A u \in Threads : ~OwesReset(u)
        BY <2>4 DEF IInv, TypeOK, CountInv
      <3>2. Waiting = Threads \ {t}
        <4>1. Cardinality(Waiting) >= NCores - 1
          BY <2>4, <3>1 DEF IInv, CountInv
        <4>2. Waiting \in SUBSET Threads
          BY DEF Waiting
        <4>3. QED
          BY <2>1, <4>1, <4>2, AllOthers
      <3>3. Waiting' = Threads
        BY <2>1, <3>2
      <3>4. \A u \in Threads : (OwesReset(u)' <=> u = t) /\ (OwesRelease(u)' <=> u = t)
        BY <2>2, <2>4, <3>1 DEF IInv, TypeOK, PhaseInv, OwesReset, OwesRelease
      <3>5. PhaseInv'
        BY <2>4, <3>3 DEF IInv, TypeOK, PhaseInv
      <3>6. OneLastArriver'
        BY <3>4 DEF OneLastArriver
      <3>7. CountInv'
        BY <2>4, <3>4 DEF IInv, TypeOK, CountInv
      <3>8. QED
        BY <1>t, <3>5, <3>6, <3>7 DEF IInv
    <2>5. CASE count # NCores - 1
      <3>1. \A u \in Threads : (OwesReset(u)' <=> OwesReset(u)) /\ ~OwesRelease(u)'
        BY <2>2, <2>5 DEF IInv, TypeOK, OwesReset, OwesRelease
      <3>2. PhaseInv'
        BY <2>5, <3>1 DEF IInv, TypeOK, PhaseInv
      <3>3. OneLastArriver'
        BY <2>2, <3>1 DEF IInv, OneLastArriver
      <3>4. CountInv'
        BY <2>2, <2>3, <3>1 DEF IInv, TypeOK, CountInv
      <3>5. QED
        BY <1>t, <3>2, <3>3, <3>4 DEF IInv
    <2>6. QED
      BY <2>4, <2>5
  <1>3. ASSUME NEW t \in Threads, Reset(t) PROVE IInv'
    <2> USE <1>3 DEF Reset, Goto
    <2>1. \A u \in Threads : (OwesReset(u)' <=> OwesReset(u)) /\ (OwesRelease(u)' <=> OwesRelease(u))
      BY DEF IInv, TypeOK, OwesReset, OwesRelease
    <2>2. Waiting' = Waiting
      BY DEF IInv, TypeOK, Waiting, Counted
    <2>3. PhaseInv'
      BY <2>1, <2>2 DEF IInv, TypeOK, PhaseInv
    <2>4. OneLastArriver'
      BY <2>1 DEF IInv, OneLastArriver
    <2>5. CountInv'
      BY <2>1, <2>2 DEF IInv, CountInv
    <2>6. QED
      BY <1>t, <2>3, <2>4, <2>5 DEF IInv
  <1>4. ASSUME NEW t \in Threads, Publish(t) PROVE IInv'
    <2> USE <1>4 DEF Publish, Goto
    <2>1. \A u \in Threads : (OwesReset(u)' <=> OwesReset(u)) /\ (OwesRelease(u)' <=> OwesRelease(u))
      BY DEF IInv, TypeOK, OwesReset, OwesRelease
    <2>2. Waiting' = Waiting
      BY DEF IInv, TypeOK, Waiting, Counted
    <2>3. PhaseInv'
      BY <2>1, <2>2 DEF IInv, TypeOK, PhaseInv
    <2>4. OneLastArriver'
      BY <2>1 DEF IInv, OneLastArriver
    <2>5. CountInv'
      BY <2>1, <2>2 DEF IInv, CountInv
    <2>6. QED
      BY <1>t, <2>3, <2>4, <2>5 DEF IInv
  <1>5. ASSUME NEW t \in Threads, Spin(t) PROVE IInv'
    <2> USE <1>5 DEF Spin, Goto
    <2>1. \A u \in Threads : (OwesReset(u)' <=> OwesReset(u)) /\ (OwesRelease(u)' <=> OwesRelease(u))
      BY DEF IInv, TypeOK, OwesReset, OwesRelease
    <2>2. Waiting' = Waiting
      BY DEF IInv, TypeOK, Waiting, Counted
    <2>3. PhaseInv'
      BY <2>1, <2>2 DEF IInv, TypeOK, PhaseInv
    <2>4. OneLastArriver'
      BY <2>1 DEF IInv, OneLastArriver
    <2>5. CountInv'
      BY <2>1, <2>2 DEF IInv, CountInv
    <2>6. QED
      BY <1>t, <2>3, <2>4, <2>5 DEF IInv
  <1>6. ASSUME NEW t \in Threads, Fence(t) PROVE IInv'
    <2> USE <1>6 DEF Fence, Goto
    <2>1. \A u \in Threads : (OwesReset(u)' <=> OwesReset(u)) /\ (OwesRelease(u)' <=> OwesRelease(u))
      BY DEF IInv, TypeOK, OwesReset, OwesRelease
    <2>2. Waiting' = Waiting
      BY DEF IInv, TypeOK, PhaseInv, Waiting, Counted
    <2>3. PhaseInv'
      BY <2>1, <2>2 DEF IInv, TypeOK, PhaseInv
    <2>4. OneLastArriver'
      BY <2>1 DEF IInv, OneLastArriver
    <2>5. CountInv'
      BY <2>1, <2>2 DEF IInv, CountInv
    <2>6. QED
      BY <1>t, <2>3, <2>4, <2>5 DEF IInv
  <1>7. ASSUME NEW t \in Threads, CountVisible(t) PROVE IInv'
    <2> USE <1>7 DEF CountVisible
    <2>1. \A u \in Threads : ~OwesReset(u)' /\ (OwesRelease(u)' <=> OwesRelease(u))
      BY DEF IInv, TypeOK, PhaseInv, OneLastArriver, OwesReset, OwesRelease
    <2>2. Waiting' = Waiting
      BY DEF Waiting, Counted
    <2>3. PhaseInv'
      BY <2>1, <2>2 DEF IInv, TypeOK, PhaseInv
    <2>4. OneLastArriver'
      BY <2>1 DEF IInv, OneLastArriver
    <2>5. CountInv'
      BY <2>1, <2>2 DEF CountInv
    <2>6. QED
      BY <1>t, <2>3, <2>4, <2>5 DEF IInv
  <1>8. ASSUME NEW t \in Threads, SenseVisible(t) PROVE IInv'
    <2> USE <1>8 DEF SenseVisible
    <2>1. OwesRelease(t) /\ Waiting = Threads
      BY DEF IInv, PhaseInv, OwesRelease
    <2>2. \A u \in Threads : Counted(u) /\ threadsense[u] = sense'
      BY <2>1 DEF IInv, TypeOK, Waiting
    <2>3. \A u \in Threads : (OwesReset(u)' <=> OwesReset(u)) /\ ~OwesRelease(u)'
      BY <2>1 DEF IInv, TypeOK, PhaseInv, OneLastArriver, OwesReset, OwesRelease
    <2>4. Waiting' = {}
      BY <2>2 DEF Waiting
    <2>5. PhaseInv'
      BY <2>2, <2>3 DEF IInv, TypeOK, PhaseInv, Counted
    <2>6. OneLastArriver'
      BY <2>3 DEF IInv, OneLastArriver
    <2>7. CountInv'
      BY <2>1, <2>3, <2>4, FS_EmptySet DEF IInv, CountInv
    <2>8. QED
      BY <1>t, <2>5, <2>6, <2>7 DEF IInv
  <1>9. CASE UNCHANGED vars
    BY <1>9 DEF vars, IInv, TypeOK, PhaseInv, OneLastArriver, CountInv, Waiting,
       Counted, OwesReset, OwesRelease
  <1>10. QED
    BY <1>1, <1>2, <1>3, <1>4, <1>5, <1>6, <1>7, <1>8, <1>9 DEF Next, InBarrier

\* The inductive invariant holds in every reachable state.
THEOREM InvariantHolds == Spec => []IInv
  BY InitIInv, NextIInv, PTL DEF Spec

\* No thread is released before all have arrived: barrier() in util.h
\* implements Rendezvous, whatever the order in which stores become visible.
THEOREM BarrierImplementsRendezvous == Spec => Implements
  <1>1. Init => R!Init
    BY DEF Init, R!Init, Waiting, Counted
  <1>2. IInv /\ [Next]_vars => [R!Next]_Waiting
    <2> SUFFICES ASSUME IInv, [Next]_vars PROVE R!Next \/ Waiting' = Waiting
      OBVIOUS
    <2>1. ASSUME NEW t \in Threads, FetchAndAdd(t) PROVE R!Arrive(t)
      BY <2>1 DEF FetchAndAdd, Goto, IInv, TypeOK, PhaseInv, Waiting, Counted, R!Arrive
    <2>2. ASSUME NEW t \in Threads, SenseVisible(t) PROVE R!Release
      <3>1. Waiting = Threads
        BY <2>2 DEF SenseVisible, IInv, PhaseInv, OwesRelease
      <3>2. \A u \in Threads : threadsense[u] = sense'
        BY <2>2, <3>1 DEF SenseVisible, IInv, TypeOK, Waiting
      <3>3. QED
        BY <2>2, <3>1, <3>2 DEF SenseVisible, Waiting, R!Release
    <2>3. ASSUME NEW t \in Threads,
                 Enter(t) \/ Reset(t) \/ Publish(t) \/ Spin(t) \/ Fence(t) \/ CountVisible(t)
          PROVE  Waiting' = Waiting
      BY <2>3 DEF Enter, Reset, Publish, Spin, Fence, CountVisible, Goto, IInv, TypeOK,
         PhaseInv, Waiting, Counted
    <2>4. CASE UNCHANGED vars
      BY <2>4 DEF vars, Waiting, Counted
    <2>5. QED
      BY <2>1, <2>2, <2>3, <2>4 DEF Next, InBarrier, R!Next
  <1>3. QED
    BY <1>1, <1>2, InvariantHolds, PTL DEF Spec, Implements, R!Spec

\* With stores in order, the last arriver's reset is visible before its release.
OrderInv ==
  inOrder => \A t \in Threads : OwesReset(t) => OwesRelease(t)

LEMMA NextOrder ==
  ASSUME IInv, OrderInv, CountExact, [Next]_vars
  PROVE  OrderInv' /\ CountExact'
  <1> USE NCoresNat, WaitingBounded
  <1>1. ASSUME NEW t \in Threads,
               Enter(t) \/ Reset(t) \/ Publish(t) \/ Spin(t) \/ Fence(t)
        PROVE  OrderInv' /\ CountExact'
    <2> USE <1>1 DEF Enter, Reset, Publish, Spin, Fence, Goto
    <2>1. \A u \in Threads : (OwesReset(u)' <=> OwesReset(u)) /\ (OwesRelease(u)' <=> OwesRelease(u))
      BY DEF IInv, TypeOK, OwesReset, OwesRelease
    <2>2. Waiting' = Waiting
      BY DEF IInv, TypeOK, PhaseInv, Waiting, Counted
    <2>3. QED
      BY <2>1, <2>2 DEF OrderInv, CountExact
  <1>2. ASSUME NEW t \in Threads, FetchAndAdd(t)
        PROVE  OrderInv' /\ CountExact'
    <2> USE <1>2 DEF FetchAndAdd, Goto
    <2>1. t \notin Waiting /\ Waiting' = Waiting \cup {t}
      BY DEF IInv, TypeOK, PhaseInv, Waiting, Counted
    <2>2. Cardinality(Waiting') = Cardinality(Waiting) + 1
      BY <2>1, FS_AddElement
    <2>3. \A u \in Threads : ~OwesRelease(u)
      BY <2>1 DEF IInv, PhaseInv
    <2>4. OrderInv'
      BY <2>3 DEF OrderInv, IInv, TypeOK, OwesReset, OwesRelease
    <2>5. ASSUME inOrder PROVE \A u \in Threads : ~OwesReset(u)
      BY <2>3, <2>5 DEF OrderInv
    <2>6. CountExact'
      BY <2>2, <2>3, <2>5 DEF CountExact
    <2>7. QED
      BY <2>4, <2>6
  <1>3. ASSUME NEW t \in Threads, CountVisible(t)
        PROVE  OrderInv' /\ CountExact'
    <2> USE <1>3 DEF CountVisible
    <2>1. \A u \in Threads : OwesRelease(u)' <=> OwesRelease(u)
      BY DEF IInv, TypeOK, OwesRelease
    <2>2. \A u \in Threads : OwesReset(u)' => OwesReset(u)
      BY DEF IInv, TypeOK, OwesReset
    <2>3. OrderInv'
      BY <2>1, <2>2 DEF OrderInv
    <2>4. OwesReset(t)
      BY DEF OwesReset
    <2>5. inOrder' => OwesRelease(t)'
      BY <2>1, <2>4 DEF OrderInv
    <2>6. QED
      BY <2>3, <2>5 DEF CountExact
  <1>4. ASSUME NEW t \in Threads, SenseVisible(t)
        PROVE  OrderInv' /\ CountExact'
    <2> USE <1>4 DEF SenseVisible
    <2>1. OwesRelease(t) /\ Waiting = Threads
      BY DEF IInv, PhaseInv, OwesRelease
    <2>2. Waiting' = {}
      BY <2>1 DEF IInv, TypeOK, Waiting, Counted
    <2>3. \A u \in Threads : u # t => ~OwesReset(u)
      BY <2>1 DEF IInv, OneLastArriver
    <2>4. inOrder => ~OwesReset(t)
      BY DEF IInv, TypeOK, PhaseInv, OwesReset
    <2>5. inOrder => count = 0
      BY <2>1, <2>3, <2>4 DEF IInv, CountInv
    <2>6. inOrder => \A u \in Threads : ~OwesReset(u)'
      BY <2>3, <2>4 DEF IInv, TypeOK, OwesReset
    <2>7. OrderInv'
      BY <2>6 DEF OrderInv
    <2>8. CountExact'
      BY <2>2, <2>5, FS_EmptySet DEF CountExact
    <2>9. QED
      BY <2>7, <2>8
  <1>5. CASE UNCHANGED vars
    BY <1>5 DEF vars, OrderInv, CountExact, Waiting, Counted, OwesReset, OwesRelease
  <1>6. QED
    BY <1>1, <1>2, <1>3, <1>4, <1>5 DEF Next, InBarrier

\* With stores visible in order no arrival is lost: between two episodes' last
\* arrivers, count is the number of threads waiting.
THEOREM NoArrivalLost == Spec => []CountExact
  <1>1. Init => OrderInv /\ CountExact
    <2> SUFFICES ASSUME Init PROVE OrderInv /\ CountExact
      OBVIOUS
    <2>1. Waiting = {} /\ count = 0
      BY DEF Init, Waiting, Counted
    <2>2. OrderInv
      BY DEF Init, OrderInv, OwesReset
    <2>3. QED
      BY <2>1, <2>2, FS_EmptySet DEF CountExact
  <1>2. IInv /\ OrderInv /\ CountExact /\ [Next]_vars => (OrderInv /\ CountExact)'
    BY NextOrder
  <1>3. QED
    BY <1>1, <1>2, InvariantHolds, PTL DEF Spec
================================================================================
