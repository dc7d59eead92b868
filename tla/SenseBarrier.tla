----------------------------- MODULE SenseBarrier -----------------------------
(* The sense-reversing barrier of src/src/common/util.h, one action per shared *)
(* memory access.  `count` and `sense` are plain volatile ints, so the two     *)
(* stores of the last arriver are two separate stores that become visible to   *)
(* the other harts some time later: `pending[t]` holds the locations t has     *)
(* stored to and whose store is not yet visible.  inOrder says whether one     *)
(* hart's stores become visible in program order (a FIFO store buffer) or in   *)
(* any order (what the RISC-V memory model allows between fences).             *)
EXTENDS Naturals, FiniteSets

CONSTANT Threads

ASSUME ThreadsAssumption == IsFiniteSet(Threads) /\ Threads # {}

NCores == Cardinality(Threads)

VARIABLES
  inOrder,         \* the kind of memory system, fixed from the start
  sense, count,    \* the static variables shared by all threads
  threadsense,     \* the __thread variable of each thread
  pending,         \* stores not yet visible, per thread
  pc               \* where each thread is in barrier(), "outside" between calls

vars == <<inOrder, sense, count, threadsense, pending, pc>>

PC == {"outside", "arrive", "spin", "reset", "publish", "fence"}

\* The values the barrier's variables take, and the stores a hart may owe.
TypeOK ==
  /\ inOrder \in BOOLEAN
  /\ sense \in {0, 1}
  /\ count \in Nat
  /\ threadsense \in [Threads -> {0, 1}]
  /\ pending \in [Threads -> SUBSET {"count", "sense"}]
  /\ pc \in [Threads -> PC]

Init ==
  /\ inOrder \in BOOLEAN
  /\ sense = 0
  /\ count = 0
  /\ threadsense = [t \in Threads |-> 0]
  /\ pending = [t \in Threads |-> {}]
  /\ pc = [t \in Threads |-> "outside"]

Goto(t, label) == pc' = [pc EXCEPT ![t] = label]

--------------------------------------------------------------------------------
\* Deliberately wrong variants, used to show that the properties can fail.
Enter_NoFlip(t) ==
  pc[t] = "outside" /\ Goto(t, "arrive") /\ UNCHANGED <<inOrder, sense, count, threadsense, pending>>

FetchAndAdd_NoLast(t) ==
  /\ pc[t] = "arrive"
  /\ count' = count + 1
  /\ Goto(t, IF count = NCores THEN "reset" ELSE "spin")
  /\ UNCHANGED <<inOrder, sense, threadsense, pending>>

Reset_Forgotten(t) ==
  pc[t] = "reset" /\ Goto(t, "publish") /\ UNCHANGED <<inOrder, sense, count, threadsense, pending>>

Spin_NoWait(t) ==
  pc[t] = "spin" /\ Goto(t, "fence") /\ UNCHANGED <<inOrder, sense, count, threadsense, pending>>

Publish_OldSense(t) ==
  pc[t] = "publish" /\ Goto(t, "fence") /\ UNCHANGED <<inOrder, sense, count, threadsense, pending>>
--------------------------------------------------------------------------------
\* The entry fence (nothing is pending then) and threadsense = !threadsense.
Enter(t) ==
  /\ pc[t] = "outside"
  /\ threadsense' = [threadsense EXCEPT ![t] = 1 - @]
  /\ Goto(t, "arrive")
  /\ UNCHANGED <<inOrder, sense, count, pending>>

\* __sync_fetch_and_add(&count, 1) == ncores-1: atomic, and visible at once.
FetchAndAdd(t) ==
  /\ pc[t] = "arrive"
  /\ count' = count + 1
  /\ Goto(t, IF count = NCores - 1 THEN "reset" ELSE "spin")
  /\ UNCHANGED <<inOrder, sense, threadsense, pending>>

\* The last arriver stores count = 0 ...
Reset(t) ==
  /\ pc[t] = "reset"
  /\ pending' = [pending EXCEPT ![t] = @ \cup {"count"}]
  /\ Goto(t, "publish")
  /\ UNCHANGED <<inOrder, sense, count, threadsense>>

\* ... and then sense = threadsense.
Publish(t) ==
  /\ pc[t] = "publish"
  /\ pending' = [pending EXCEPT ![t] = @ \cup {"sense"}]
  /\ Goto(t, "fence")
  /\ UNCHANGED <<inOrder, sense, count, threadsense>>

\* while (sense != threadsense) ; falls through.
Spin(t) ==
  /\ pc[t] = "spin"
  /\ sense = threadsense[t]
  /\ Goto(t, "fence")
  /\ UNCHANGED <<inOrder, sense, count, threadsense, pending>>

\* The closing __sync_synchronize(): earlier stores are visible after it.
Fence(t) ==
  /\ pc[t] = "fence"
  /\ pending[t] = {}
  /\ Goto(t, "outside")
  /\ UNCHANGED <<inOrder, sense, count, threadsense, pending>>

\* The memory system makes a pending store visible.
CountVisible(t) ==
  /\ "count" \in pending[t]
  /\ count' = 0
  /\ pending' = [pending EXCEPT ![t] = @ \ {"count"}]
  /\ UNCHANGED <<inOrder, sense, threadsense, pc>>

SenseVisible(t) ==
  /\ "sense" \in pending[t]
  /\ inOrder => "count" \notin pending[t]
  /\ sense' = threadsense[t]
  /\ pending' = [pending EXCEPT ![t] = @ \ {"sense"}]
  /\ UNCHANGED <<inOrder, count, threadsense, pc>>

InBarrier(t) ==
  \/ FetchAndAdd(t) \/ Reset(t) \/ Publish(t) \/ Spin(t) \/ Fence(t)
  \/ CountVisible(t) \/ SenseVisible(t)

Next == \E t \in Threads : Enter(t) \/ InBarrier(t)

Spec == Init /\ [][Next]_vars

\* Every hart keeps executing and every store becomes visible in the end;
\* nothing makes a thread call barrier() again.
FairSpec == Spec /\ \A t \in Threads : WF_vars(InBarrier(t))

--------------------------------------------------------------------------------
Counted(t) == pc[t] \in {"spin", "reset", "publish", "fence"}

\* The threads counted in this episode and not yet released.
Waiting == {t \in Threads : Counted(t) /\ threadsense[t] # sense}

\* t is the last arriver and its count = 0 is not yet visible.
OwesReset(t) == pc[t] = "reset" \/ "count" \in pending[t]

\* t is the last arriver and its sense = threadsense is not yet visible.
OwesRelease(t) == pc[t] \in {"reset", "publish"} \/ "sense" \in pending[t]

PhaseInv ==
  \A t \in Threads :
    /\ pc[t] = "outside" => threadsense[t] = sense
    /\ pc[t] = "arrive" => threadsense[t] # sense
    /\ pc[t] \in {"outside", "arrive", "spin", "reset"} => pending[t] = {}
    /\ pc[t] = "publish" => "sense" \notin pending[t]
    /\ pc[t] = "fence" /\ "sense" \notin pending[t] => threadsense[t] = sense
    /\ OwesRelease(t) => Waiting = Threads

OneLastArriver ==
  \A t, u \in Threads :
    (OwesReset(t) \/ OwesRelease(t)) /\ (OwesReset(u) \/ OwesRelease(u)) => t = u

CountInv ==
  /\ (\E t \in Threads : OwesReset(t)) => count >= NCores
  /\ (\A t \in Threads : ~OwesReset(t)) => count <= Cardinality(Waiting)
  /\ ((\E t \in Threads : OwesRelease(t)) /\ \A t \in Threads : ~OwesReset(t))
        => count = 0

\* The inductive invariant: at most one thread at a time is the last arriver;
\* while its release is outstanding everybody waits; and `count`, once its
\* reset is visible, never exceeds the number of waiting threads, so that only
\* the arrival of the last thread can see ncores-1.
IInv == TypeOK /\ PhaseInv /\ OneLastArriver /\ CountInv

\* With stores visible in order no arrival is ever lost: outside the last
\* arriver's stores, `count` is exactly the number of waiting threads.
CountExact ==
  inOrder /\ (\A t \in Threads : ~OwesReset(t) /\ ~OwesRelease(t))
    => count = Cardinality(Waiting)

R == INSTANCE Rendezvous WITH waiting <- Waiting

\* barrier() implements Rendezvous: no thread is released before all arrived.
Implements == R!Spec

\* With stores in order, once all have arrived the release comes: Rendezvous's
\* fairness is implemented as well.
ReleaseFollows == inOrder => R!Fairness

\* With stores in order, whenever all threads have entered the same episode each
\* of them gets out.
AllDepart ==
  inOrder =>
    \A t \in Threads :
      (\A u \in Threads : pc[u] # "outside" /\ threadsense[u] # sense) ~> pc[t] = "outside"
================================================================================
