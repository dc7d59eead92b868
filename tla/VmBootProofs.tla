----------------------------- MODULE VmBootProofs ------------------------------
(* Proofs about VmBoot, for any seed, any number of values an `unsigned int` may *)
(* have from 64 on, any TopBit and any number of torturing harts.              *)
EXTENDS VmBoot, FiniteSetTheorems, TLAPS

\* LFSR_NEXT goes through 1..63 in the order Position gives.
LEMMA Successor ==
  ASSUME NEW x \in 1..63
  PROVE  /\ Position[x] \in 0..62
         /\ LFSR_NEXT(x) \in 1..63
         /\ Position[LFSR_NEXT(x)] = (Position[x] + 1) % 63
  BY DEF Position, LFSR_NEXT, Feedback

\* No two values are drawn at the same time.
LEMMA PositionInjective ==
  ASSUME NEW x \in 1..63, NEW y \in 1..63, Position[x] = Position[y]
  PROVE  x = y
  BY DEF Position

LEMMA InitInv == Init => ListInv
  BY DEF Init, ListInv, Index, MAX_TEST_PAGES

LEMMA LinkInv ==
  ASSUME ListInv, Link
  PROVE  ListInv'
  <1> USE DEF MAX_TEST_PAGES, Index
  <1>1. /\ pc = "link" /\ i \in 0..62 /\ random \in 1..63
        /\ addr \in [0..62 -> Nat] /\ DOMAIN next = 0..62
        /\ addr' = [addr EXCEPT ![i] = 63 + random]
        /\ next' = [next EXCEPT ![i] = i + 1]
        /\ random' = LFSR_NEXT(random)
        /\ i' = i + 1
        /\ pc' = IF i + 1 = 63 THEN "cut" ELSE "link"
    BY DEF ListInv, Link
  <1>2. /\ Position[random] \in 0..62 /\ random' \in 1..63
        /\ Position[random'] = (Position[random] + 1) % 63
    BY <1>1, Successor
  <1>3. addr' \in [0..62 -> Nat] /\ DOMAIN next' = 0..62
    BY <1>1
  <1>4. ASSUME NEW j \in 0..(i' - 1)
        PROVE  /\ addr'[j] - 63 \in 1..63
               /\ (Position[addr'[j] - 63] + (i' - j)) % 63 = Position[random']
               /\ next'[j] = j + 1
    <2>1. CASE j = i
      <3>1. addr'[j] = 63 + random /\ next'[j] = j + 1 /\ i' - j = 1
        BY <1>1, <2>1
      <3>2. addr'[j] - 63 = random
        BY <1>1, <3>1
      <3>3. QED
        BY <1>1, <1>2, <3>1, <3>2
    <2>2. CASE j # i
      <3>1. /\ j \in 0..(i - 1) /\ addr'[j] = addr[j] /\ next'[j] = next[j]
        BY <1>1, <1>4, <2>2
      <3>2. /\ addr[j] - 63 \in 1..63
            /\ (Position[addr[j] - 63] + (i - j)) % 63 = Position[random]
            /\ next[j] = j + 1
        BY <1>1, <3>1 DEF ListInv
      <3>3. Position[addr[j] - 63] \in 0..62
        BY <3>2, Successor
      <3> DEFINE p == Position[addr[j] - 63]
      <3>4. (p + (i' - j)) % 63 = (((p + (i - j)) % 63) + 1) % 63
        <4>1. /\ p \in 0..62 /\ i \in 0..62 /\ j \in 0..62 /\ j <= i
              /\ i' - j = (i - j) + 1
          BY <1>1, <1>4, <3>3
        <4> HIDE DEF p
        <4>2. QED
          BY <4>1
      <3>5. QED
        BY <1>2, <3>1, <3>2, <3>4
    <2>3. QED
      BY <2>1, <2>2
  <1>5. QED
    <2>1. /\ random' \in Nat /\ i' \in 0..63 /\ pc' \notin {"map", "seed", "boot"}
          /\ pc' = "link" => i' < 63
          /\ pc' = "cut" => i' = 63
      BY <1>1, <1>2
    <2>2. \A j \in 0..(i' - 1) :
            /\ addr'[j] - 63 \in 1..63
            /\ (Position[addr'[j] - 63] + (i' - j)) % 63 = Position[random']
            /\ next'[j] = IF pc' = "boot" /\ j = 62 THEN NULL ELSE j + 1
      BY <1>4, <2>1
    <2>3. 63 - 1 = 62
      OBVIOUS
    <2>4. QED
      BY <1>2, <1>3, <2>1, <2>2, <2>3 DEF ListInv

LEMMA NextInv == ListInv /\ [Next]_vars => ListInv'
  <1> SUFFICES ASSUME ListInv, [Next]_vars PROVE ListInv'
    OBVIOUS
  <1> USE DEF MAX_TEST_PAGES, Index
  <1>1. CASE MapTables
    BY <1>1 DEF ListInv, MapTables
  <1>2. CASE Seed
    <2>1. random \in Nat /\ i = 0 /\ random' = 1 + (random % 63) /\ pc' = "link"
      BY <1>2 DEF ListInv, Seed
    <2>2. random' \in 1..63
      BY <2>1
    <2>3. QED
      BY <1>2, <2>1, <2>2 DEF ListInv, Seed
  <1>3. CASE Link
    BY <1>3, LinkInv
  <1>4. CASE Cut
    <2>1. /\ pc = "cut" /\ pc' = "boot" /\ i = 63
          /\ next' = [next EXCEPT ![62] = NULL]
          /\ UNCHANGED <<random, i, addr>> /\ DOMAIN next = 0..62
      BY <1>4 DEF ListInv, Cut
    <2>2. \A j \in 0..62 : next[j] = j + 1
      BY <2>1 DEF ListInv
    <2>3. \A j \in 0..62 : next'[j] = IF j = 62 THEN NULL ELSE j + 1
      BY <2>1, <2>2
    <2>4. /\ random \in Nat /\ addr \in [0..62 -> Nat] /\ random \in 1..63
          /\ \A j \in 0..62 :
               /\ addr[j] - 63 \in 1..63
               /\ (Position[addr[j] - 63] + (63 - j)) % 63 = Position[random]
      <3>1. random \in Nat /\ addr \in [0..62 -> Nat] /\ random \in 1..63 /\ 0..(i - 1) = 0..62
        BY <2>1 DEF ListInv
      <3>2. ASSUME NEW j \in 0..62
            PROVE  /\ addr[j] - 63 \in 1..63
                   /\ (Position[addr[j] - 63] + (i - j)) % 63 = Position[random]
        BY <3>1, Zenon DEF ListInv
      <3>3. QED
        BY <2>1, <3>1, <3>2
    <2>5. DOMAIN next' = 0..62 /\ 63 - 1 = 62
      BY <2>1
    <2>6. QED
      BY <2>1, <2>3, <2>4, <2>5 DEF ListInv
  <1>5. CASE \E h \in Torturers : Torture(h)
    BY <1>5 DEF ListInv, Torture
  <1>6. CASE UNCHANGED vars
    BY <1>6 DEF ListInv, vars
  <1>7. QED
    BY <1>1, <1>2, <1>3, <1>4, <1>5, <1>6 DEF Next

LEMMA Invariant == Spec => []ListInv
  BY InitInv, NextInv, PTL DEF Spec

\* Frames drawn at different turns are different.
LEMMA DifferentFrames ==
  ASSUME ListInv, NEW j \in 0..(i - 1), NEW k \in 0..(i - 1), j # k
  PROVE  addr[j] # addr[k]
  <1> USE DEF MAX_TEST_PAGES, Index
  <1>1. /\ i \in 0..63
        /\ addr[j] - 63 \in 1..63 /\ addr[k] - 63 \in 1..63
        /\ (Position[addr[j] - 63] + (i - j)) % 63 = (Position[addr[k] - 63] + (i - k)) % 63
    BY DEF ListInv
  <1>2. SUFFICES ASSUME addr[j] = addr[k] PROVE FALSE
    OBVIOUS
  <1> DEFINE p == Position[addr[j] - 63]
  <1>3. p \in 0..62
    BY <1>1, Successor
  <1>4. (p + (i - j)) % 63 = (p + (i - k)) % 63
    BY <1>1, <1>2
  <1> HIDE DEF p
  <1>5. QED
    BY <1>1, <1>3, <1>4

--------------------------------------------------------------------------------
\* Whatever ENTROPY vm_boot was compiled with, it puts no frame on the free list
\* twice and none that holds the image of the test.
THEOREM NoFrameRepeated == Spec => []NoFrameTwice
  <1>1. ListInv => NoFrameTwice
    <2> SUFFICES ASSUME ListInv, NEW j \in 0..(i - 1), NEW k \in 0..(i - 1)
                 PROVE  /\ j # k => addr[j] # addr[k]
                        /\ addr[j] \in 64..126
      BY DEF NoFrameTwice, MAX_TEST_PAGES
    <2>1. j # k => addr[j] # addr[k]
      BY DifferentFrames
    <2>2. addr[j] \in 64..126
      BY DEF ListInv, MAX_TEST_PAGES, Index
    <2>3. QED
      BY <2>1, <2>2
  <1>2. QED
    BY <1>1, Invariant, PTL

\* When hart 0 starts the test, the list is what the page fault handler takes for
\* granted: every node linked to the next, the last to none, 63 different frames.
THEOREM ListReady == Spec => []ListAsAssumed
  <1>1. ListInv => ListAsAssumed
    <2> SUFFICES ASSUME ListInv, pc = "boot"
                 PROVE  /\ \A j \in Index : next[j] = IF j = MAX_TEST_PAGES - 1 THEN NULL ELSE j + 1
                        /\ Cardinality({addr[j] : j \in Index}) = MAX_TEST_PAGES
      BY DEF ListAsAssumed
    <2>1. i = 63 /\ Index = 0..62 /\ MAX_TEST_PAGES = 63 /\ addr \in [Index -> Nat]
      BY DEF ListInv, Index, MAX_TEST_PAGES
    <2>2. \A j \in Index : next[j] = IF j = MAX_TEST_PAGES - 1 THEN NULL ELSE j + 1
      BY <2>1 DEF ListInv
    <2> DEFINE frames == {addr[j] : j \in Index}
    <2>3. \A j, k \in Index : addr[j] = addr[k] => j = k
      <3>1. Index = 0..(i - 1)
        BY <2>1
      <3>2. QED
        BY <3>1, DifferentFrames
    <2>4. addr \in Bijection(Index, frames)
      <3>1. addr \in [Index -> frames] /\ DOMAIN addr = Index /\ \A t \in frames : \E j \in Index : addr[j] = t
        BY <2>1
      <3>2. QED
        BY <2>3, <3>1 DEF Bijection, Injection, Surjection, IsInjective
    <2>5. IsFiniteSet(Index) /\ Cardinality(Index) = 63
      <3>1. 0 \in Int /\ MAX_TEST_PAGES - 1 \in Int /\ 62 \in Int
        BY <2>1
      <3>2. /\ IsFiniteSet(0..62)
            /\ Cardinality(0..62) = IF 0 > 62 THEN 0 ELSE 62 - 0 + 1
        BY <3>1, FS_Interval, Zenon
      <3>3. QED
        BY <2>1, <3>2
    <2>6. Cardinality(frames) = 63
      BY <2>4, <2>5, FS_Bijection DEF ExistsBijection
    <2>7. QED
      BY <2>1, <2>2, <2>6
  <1>2. QED
    BY <1>1, Invariant, PTL

--------------------------------------------------------------------------------
(* The page tables.                                                            *)

LEMMA NothingThere == DOMAIN NoEntry = {}
  BY DEF NoEntry

\* The entries vm_boot writes in the build for 64 bits ...
LEMMA Tables64 ==
  ASSUME levels = 3
  PROVE  /\ DOMAIN Tables = { <<"l1pt", 0>>, <<"l1pt", 511>>, <<"user_l2pt", 0>>,
                              <<"kernel_l2pt", 511>>, <<"kernel_l2pt", 510>>, <<"tohost_l3pt", 511>> }
         /\ Tables[<<"l1pt", 0>>] = Pointer("user_l2pt")
         /\ Tables[<<"l1pt", 511>>] = Pointer("kernel_l2pt")
         /\ Tables[<<"user_l2pt", 0>>] = Pointer("user_l3pt")
         /\ Tables[<<"kernel_l2pt", 511>>] = Leaf(DRAM_BASE)
         /\ Tables[<<"kernel_l2pt", 510>>] = Pointer("tohost_l3pt")
         /\ Tables[<<"tohost_l3pt", 511>>] = Leaf(HTIF_BASE)
  <1> DEFINE a == <<"l1pt", 0>>
             b == <<"l1pt", 511>>
             c == <<"user_l2pt", 0>>
             d == <<"kernel_l2pt", 511>>
             e == <<"kernel_l2pt", 510>>
             f == <<"tohost_l3pt", 511>>
             ta == Put(NoEntry, a, Pointer("user_l2pt"))
             tb == Put(ta, b, Pointer("kernel_l2pt"))
             tc == Put(tb, c, Pointer("user_l3pt"))
             td == Put(tc, d, Leaf(DRAM_BASE))
             te == Put(td, e, Pointer("tohost_l3pt"))
             tf == Put(te, f, Leaf(HTIF_BASE))
  <1>1. Tables = tf
    BY DEF Tables, HtifSlot, PTES_PER_PT
  <1>2. /\ a # b /\ a # c /\ a # d /\ a # e /\ a # f /\ b # c /\ b # d /\ b # e /\ b # f
        /\ c # d /\ c # e /\ c # f /\ d # e /\ d # f /\ e # f
    OBVIOUS
  <1> HIDE DEF a, b, c, d, e, f
  <1>3. DOMAIN ta = {a} /\ ta[a] = Pointer("user_l2pt")
    BY NothingThere DEF Put
  <1> HIDE DEF ta
  <1>4. DOMAIN tb = {a, b} /\ tb[b] = Pointer("kernel_l2pt") /\ tb[a] = ta[a]
    BY <1>2, <1>3 DEF Put
  <1> HIDE DEF tb
  <1>5. /\ DOMAIN tc = {a, b, c} /\ tc[c] = Pointer("user_l3pt")
        /\ \A x \in {a, b} : tc[x] = tb[x]
    BY <1>2, <1>4 DEF Put
  <1> HIDE DEF tc
  <1>6. /\ DOMAIN td = {a, b, c, d} /\ td[d] = Leaf(DRAM_BASE)
        /\ \A x \in {a, b, c} : td[x] = tc[x]
    BY <1>2, <1>5 DEF Put
  <1> HIDE DEF td
  <1>7. /\ DOMAIN te = {a, b, c, d, e} /\ te[e] = Pointer("tohost_l3pt")
        /\ \A x \in {a, b, c, d} : te[x] = td[x]
    BY <1>2, <1>6 DEF Put
  <1> HIDE DEF te
  <1>8. /\ DOMAIN tf = {a, b, c, d, e, f} /\ tf[f] = Leaf(HTIF_BASE)
        /\ \A x \in {a, b, c, d, e} : tf[x] = te[x]
    BY <1>2, <1>7 DEF Put
  <1> HIDE DEF tf
  <1>9. /\ DOMAIN Tables = {a, b, c, d, e, f}
        /\ Tables[a] = Pointer("user_l2pt") /\ Tables[b] = Pointer("kernel_l2pt")
        /\ Tables[c] = Pointer("user_l3pt") /\ Tables[d] = Leaf(DRAM_BASE)
        /\ Tables[e] = Pointer("tohost_l3pt") /\ Tables[f] = Leaf(HTIF_BASE)
    BY <1>1, <1>3, <1>4, <1>5, <1>6, <1>7, <1>8
  <1>10. QED
    BY <1>9 DEF a, b, c, d, e, f

\* ... and for 32, where the root is also the kernel's second level.
LEMMA Tables32 ==
  ASSUME levels = 2
  PROVE  /\ DOMAIN Tables = { <<"l1pt", 0>>, <<"l1pt", 1023>>, <<"l1pt", 1022>>, <<"tohost_l3pt", 1023>> }
         /\ Tables[<<"l1pt", 0>>] = Pointer("user_l2pt")
         /\ Tables[<<"l1pt", 1023>>] = Leaf(DRAM_BASE)
         /\ Tables[<<"l1pt", 1022>>] = Pointer("tohost_l3pt")
         /\ Tables[<<"tohost_l3pt", 1023>>] = Leaf(HTIF_BASE)
  <1> DEFINE a == <<"l1pt", 0>>
             b == <<"l1pt", 1023>>
             c == <<"l1pt", 1022>>
             d == <<"tohost_l3pt", 1023>>
             ta == Put(NoEntry, a, Pointer("user_l2pt"))
             tb == Put(ta, b, Leaf(DRAM_BASE))
             tc == Put(tb, c, Pointer("tohost_l3pt"))
             td == Put(tc, d, Leaf(HTIF_BASE))
  <1>1. Tables = td
    BY DEF Tables, HtifSlot, PTES_PER_PT
  <1>2. a # b /\ a # c /\ a # d /\ b # c /\ b # d /\ c # d
    OBVIOUS
  <1> HIDE DEF a, b, c, d
  <1>3. DOMAIN ta = {a} /\ ta[a] = Pointer("user_l2pt")
    BY NothingThere DEF Put
  <1> HIDE DEF ta
  <1>4. DOMAIN tb = {a, b} /\ tb[b] = Leaf(DRAM_BASE) /\ tb[a] = ta[a]
    BY <1>2, <1>3 DEF Put
  <1> HIDE DEF tb
  <1>5. /\ DOMAIN tc = {a, b, c} /\ tc[c] = Pointer("tohost_l3pt")
        /\ \A x \in {a, b} : tc[x] = tb[x]
    BY <1>2, <1>4 DEF Put
  <1> HIDE DEF tc
  <1>6. /\ DOMAIN td = {a, b, c, d} /\ td[d] = Leaf(HTIF_BASE)
        /\ \A x \in {a, b, c} : td[x] = tc[x]
    BY <1>2, <1>5 DEF Put
  <1> HIDE DEF td
  <1>7. /\ DOMAIN Tables = {a, b, c, d}
        /\ Tables[a] = Pointer("user_l2pt") /\ Tables[b] = Leaf(DRAM_BASE)
        /\ Tables[c] = Pointer("tohost_l3pt") /\ Tables[d] = Leaf(HTIF_BASE)
    BY <1>1, <1>3, <1>4, <1>5, <1>6
  <1>8. QED
    BY <1>7 DEF a, b, c, d

--------------------------------------------------------------------------------
(* Types.                                                                      *)

LEMMA InitTypeOK == Init => TypeOK
  BY BootAssumption DEF Init, TypeOK, NoEntry, Index, MAX_TEST_PAGES, NULL

\* A remainder is smaller than the divisor.
LEMMA Remainder ==
  ASSUME NEW x \in Nat, NEW m \in Nat \ {0}
  PROVE  x % m \in 0..(m - 1)
  OBVIOUS

\* The tables have as many entries as the indices of any of them allow.
LEMMA TablesSlots ==
  ASSUME levels \in {2, 3}
  PROVE  \A slot \in DOMAIN Tables : slot[2] \in 0..(PTES_PER_PT - 1)
  <1>1. CASE levels = 3
    <2>1. PTES_PER_PT = 512
      BY <1>1 DEF PTES_PER_PT
    <2>2. QED
      BY <1>1, <2>1, Tables64
  <1>2. CASE levels = 2
    <2>1. PTES_PER_PT = 1024
      BY <1>2 DEF PTES_PER_PT
    <2>2. QED
      BY <1>2, <2>1, Tables32
  <1>3. QED
    BY <1>1, <1>2

LEMMA NextTypeOK == TypeOK /\ ListInv /\ [Next]_vars => TypeOK'
  <1> SUFFICES ASSUME TypeOK, ListInv, [Next]_vars PROVE TypeOK'
    OBVIOUS
  <1> USE BootAssumption DEF MAX_TEST_PAGES, Index, NULL
  <1>1. CASE MapTables
    <2>1. levels \in {2, 3} /\ levels' = levels /\ pt' = Tables
      BY <1>1 DEF TypeOK, MapTables
    <2>2. \A slot \in DOMAIN pt' : slot[2] \in 0..((PTES_PER_PT)' - 1)
      BY <2>1, TablesSlots DEF PTES_PER_PT
    <2>3. QED
      BY <1>1, <2>2 DEF TypeOK, MapTables
  <1>2. CASE Seed
    <2>1. random' \in 1..63 /\ random' \in 0..(Uint - 1)
      BY <1>2 DEF TypeOK, Seed
    <2>2. QED
      BY <1>2, <2>1 DEF TypeOK, Seed, PTES_PER_PT
  <1>3. CASE Link
    <2>1. i \in 0..62 /\ random \in 1..63
      BY <1>3 DEF ListInv, Link
    <2>2. random' \in 1..63 /\ random' \in 0..(Uint - 1)
      BY <1>3, <2>1, Successor DEF Link
    <2>3. /\ addr' = [addr EXCEPT ![i] = 63 + random] /\ next' = [next EXCEPT ![i] = i + 1]
          /\ i' = i + 1 /\ pc' \in {"link", "cut"} /\ UNCHANGED <<entropy, levels, pt, torture, access>>
      BY <1>3 DEF Link
    <2>4. addr' \in [0..62 -> Nat] /\ next' \in [0..62 -> 1..64] /\ i' \in 0..63
      BY <2>1, <2>3 DEF TypeOK
    <2>5. QED
      BY <2>2, <2>3, <2>4 DEF TypeOK, PTES_PER_PT
  <1>4. CASE Cut
    <2>1. next' = [next EXCEPT ![62] = 64]
      BY <1>4 DEF Cut
    <2>2. next' \in [0..62 -> 1..64]
      BY <2>1 DEF TypeOK
    <2>3. QED
      BY <1>4, <2>2 DEF TypeOK, Cut, PTES_PER_PT
  <1>5. ASSUME NEW h \in Torturers, Torture(h) PROVE TypeOK'
    <2>1. torture[h] \in Nat /\ torture \in [Torturers -> 0..(Uint - 1)]
      BY DEF TypeOK
    <2> DEFINE x == torture[h]
    <2>2. lfsr63(x) \in 0..(Uint - 1)
      <3>1. Feedback(x) \in {0, 1} /\ x \div 2 \in Nat
        BY <2>1 DEF Feedback
      <3>2. Feedback(x) * TopBit \in Nat
        BY <3>1
      <3>3. Feedback(x) * TopBit + (x \div 2) \in Nat /\ Uint \in Nat \ {0}
        BY <3>1, <3>2
      <3>4. QED
        BY <3>3, Remainder DEF lfsr63
    <2>3. Target(x) \in Nat
      <3>1. 8 * (63 + 1) * PageWords \in Nat \ {0}
        OBVIOUS
      <3> DEFINE m == 8 * (63 + 1) * PageWords
      <3> HIDE DEF m
      <3>2. x % m \in 0..(m - 1)
        BY <2>1, <3>1, Remainder DEF m
      <3>3. x % m \in Nat
        BY <3>1, <3>2 DEF m
      <3>4. (x % m) \div 4 \in Nat
        BY <3>3
      <3>5. QED
        BY <3>4 DEF Target, m
    <2>4. torture' \in [Torturers -> 0..(Uint - 1)] /\ access' \in [Torturers -> Nat]
      BY <1>5, <2>1, <2>2, <2>3 DEF TypeOK, Torture
    <2>5. QED
      BY <1>5, <2>4 DEF TypeOK, Torture, PTES_PER_PT
  <1>6. CASE UNCHANGED vars
    BY <1>6 DEF TypeOK, vars, PTES_PER_PT
  <1>7. QED
    BY <1>1, <1>2, <1>3, <1>4, <1>5, <1>6 DEF Next

--------------------------------------------------------------------------------
(* Page table walks.                                                           *)

\* How many pages an entry stands for, the entry a walk looks at in table t, and what it finds there given what a walk
\* one level down, g, finds.
Reach(level) == PTES_PER_PT^level
SlotAt(level, t, v) == <<t, (v \div Reach(level)) % PTES_PER_PT>>

FoundAt(g, tables, level, t, v) ==
  LET slot == SlotAt(level, t, v)
  IN  IF slot \notin DOMAIN tables THEN 0
      ELSE IF tables[slot].table = "" THEN tables[slot].page + (v % Reach(level))
      ELSE IF level = 0 THEN 0 ELSE g[level - 1][tables[slot].table]

Walks(g, tables, v) ==
  g = [level \in 0..(levels - 1) |-> [t \in TableNames |-> FoundAt(g, tables, level, t, v)]]

\* The walk is defined: what it finds at a level is determined by the level below.
LEMMA WalkExists ==
  ASSUME levels \in {2, 3}, NEW tables, NEW v
  PROVE  \E g : Walks(g, tables, v)
  <1> DEFINE Here(h, level, t) ==
               LET slot == SlotAt(level, t, v)
               IN  IF slot \notin DOMAIN tables THEN 0
                   ELSE IF tables[slot].table = "" THEN tables[slot].page + (v % Reach(level))
                   ELSE IF level = 0 THEN 0 ELSE h[tables[slot].table]
             w0 == [t \in TableNames |-> Here(<<>>, 0, t)]
             w1 == [t \in TableNames |-> Here(w0, 1, t)]
             w2 == [t \in TableNames |-> Here(w1, 2, t)]
             g == [level \in 0..(levels - 1) |-> IF level = 0 THEN w0 ELSE IF level = 1 THEN w1 ELSE w2]
  <1> HIDE DEF Here
  <1>1. /\ w0 = [t \in TableNames |-> Here(<<>>, 0, t)]
        /\ w1 = [t \in TableNames |-> Here(w0, 1, t)]
        /\ w2 = [t \in TableNames |-> Here(w1, 2, t)]
    OBVIOUS
  <1> HIDE DEF w0, w1, w2
  <1>2. /\ g = [level \in 0..(levels - 1) |-> g[level]]
        /\ \A level \in 0..(levels - 1) :
             g[level] = IF level = 0 THEN w0 ELSE IF level = 1 THEN w1 ELSE w2
    OBVIOUS
  <1> HIDE DEF g
  <1>3. \A level \in 0..(levels - 1) : level \in {0, 1, 2} /\ (level # 0 => level - 1 \in 0..(levels - 1))
    OBVIOUS
  <1>4. ASSUME NEW level \in 0..(levels - 1)
        PROVE  g[level] = [t \in TableNames |-> FoundAt(g, tables, level, t, v)]
    <2>1. CASE level = 0
      <3>1. \A t : FoundAt(g, tables, 0, t, v) = Here(<<>>, 0, t)
        BY DEF FoundAt, Here
      <3>2. g[level] = [t \in TableNames |-> Here(<<>>, 0, t)]
        BY <1>1, <1>2, <2>1
      <3>3. QED
        BY <2>1, <3>1, <3>2
    <2>2. CASE level = 1
      <3>1. g[level - 1] = w0
        BY <1>2, <1>3, <2>2
      <3>2. \A t : FoundAt(g, tables, level, t, v) = Here(w0, 1, t)
        BY <2>2, <3>1 DEF FoundAt, Here
      <3>3. g[level] = [t \in TableNames |-> Here(w0, 1, t)]
        BY <1>1, <1>2, <2>2
      <3>4. QED
        BY <3>2, <3>3
    <2>3. CASE level = 2
      <3>1. g[level - 1] = w1
        BY <1>2, <1>3, <2>3
      <3>2. \A t : FoundAt(g, tables, level, t, v) = Here(w1, 2, t)
        BY <2>3, <3>1 DEF FoundAt, Here
      <3>3. g[level] = [t \in TableNames |-> Here(w1, 2, t)]
        BY <1>1, <1>2, <2>3
      <3>4. QED
        BY <3>2, <3>3
    <2>4. QED
      BY <1>3, <2>1, <2>2, <2>3
  <1>5. Walks(g, tables, v)
    BY <1>2, <1>4 DEF Walks
  <1>6. QED
    BY <1>5

\* The walk through all levels.
LEMMA WalkSteps ==
  ASSUME levels \in {2, 3}, NEW tables, NEW v
  PROVE  \E g : /\ Walk(tables, v) = g[levels - 1]["l1pt"]
                /\ \A level \in 0..(levels - 1) : \A t \in TableNames :
                     g[level][t] = FoundAt(g, tables, level, t, v)
  <1> DEFINE g == CHOOSE h : Walks(h, tables, v)
  <1>1. Walks(g, tables, v)
    BY WalkExists
  <1>2. Walk(tables, v) = g[levels - 1]["l1pt"]
    BY DEF Walk, Walks, FoundAt, SlotAt, Reach
  <1> HIDE DEF g
  <1>3. ASSUME NEW level \in 0..(levels - 1), NEW t \in TableNames
        PROVE  g[level][t] = FoundAt(g, tables, level, t, v)
    <2>1. g[level] = [u \in TableNames |-> FoundAt(g, tables, level, u, v)]
      BY <1>1 DEF Walks
    <2>2. QED
      BY <2>1
  <1>4. QED
    BY <1>2, <1>3

\* Where a walk looks with three levels ...
LEMMA Slots64 ==
  ASSUME levels = 3, NEW v \in Nat
  PROVE  /\ \A t : /\ SlotAt(2, t, v) = <<t, (v \div 262144) % 512>>
                   /\ SlotAt(1, t, v) = <<t, (v \div 512) % 512>>
                   /\ SlotAt(0, t, v) = <<t, v % 512>>
         /\ v % Reach(1) = v % 512 /\ v % Reach(0) = 0
  <1>1. PTES_PER_PT = 512
    BY DEF PTES_PER_PT
  <1>2. Reach(2) = 262144 /\ Reach(1) = 512 /\ Reach(0) = 1
    BY DEF PTES_PER_PT, Reach
  <1>3. v \div 1 = v /\ v % 1 = 0
    OBVIOUS
  <1>4. \A t : SlotAt(2, t, v) = <<t, (v \div 262144) % 512>>
    BY <1>1, <1>2 DEF SlotAt
  <1>5. \A t : SlotAt(1, t, v) = <<t, (v \div 512) % 512>>
    BY <1>1, <1>2 DEF SlotAt
  <1>6. \A t : SlotAt(0, t, v) = <<t, v % 512>>
    BY <1>1, <1>2, <1>3 DEF SlotAt
  <1>7. v % Reach(1) = v % 512 /\ v % Reach(0) = 0
    BY <1>2, <1>3
  <1>8. QED
    BY <1>4, <1>5, <1>6, <1>7

\* The tables have no entry in a slot.
NoSlot(tables, slot) == slot \notin DOMAIN tables

\* With three levels: a walk ends one table below the root at a page, or two
\* below it at a page or in a fault.
LEMMA Walk64 ==
  ASSUME levels = 3, NEW tables, NEW v, NEW root, NEW mid, NEW low,
         root = SlotAt(2, "l1pt", v), mid = SlotAt(1, tables[root].table, v),
         low = SlotAt(0, tables[mid].table, v),
         root \in DOMAIN tables, tables[root].table \in TableNames, mid \in DOMAIN tables
  PROVE  /\ tables[mid].table = "" => Walk(tables, v) = tables[mid].page + (v % Reach(1))
         /\ tables[mid].table \in TableNames /\ NoSlot(tables, low) => Walk(tables, v) = 0
         /\ tables[mid].table \in TableNames /\ low \in DOMAIN tables /\ tables[low].table = "" =>
              Walk(tables, v) = tables[low].page + (v % Reach(0))
  <1> DEFINE a == tables[root].table
             b == tables[mid].table
  <1>1. \A t \in TableNames : t # ""
    BY DEF TableNames
  <1>2. PICK g : /\ Walk(tables, v) = g[levels - 1]["l1pt"]
                 /\ \A level \in 0..(levels - 1) : \A t \in TableNames :
                      g[level][t] = FoundAt(g, tables, level, t, v)
    BY WalkSteps
  <1>3. /\ Walk(tables, v) = g[2]["l1pt"]
        /\ \A t \in TableNames : /\ g[2][t] = FoundAt(g, tables, 2, t, v)
                                 /\ g[1][t] = FoundAt(g, tables, 1, t, v)
                                 /\ g[0][t] = FoundAt(g, tables, 0, t, v)
    <2>1. levels - 1 = 2 /\ 0 \in 0..(levels - 1) /\ 1 \in 0..(levels - 1) /\ 2 \in 0..(levels - 1)
      OBVIOUS
    <2>2. QED
      BY <1>2, <2>1
  <1>4. g[2]["l1pt"] = g[1][a]
    <2>1. "l1pt" \in TableNames /\ 2 - 1 = 1 /\ 2 # 0
      BY DEF TableNames
    <2>2. QED
      BY <1>1, <1>3, <2>1 DEF FoundAt
  <1>5. tables[mid].table = "" => g[1][a] = tables[mid].page + (v % Reach(1))
    BY <1>3 DEF FoundAt
  <1>6. b \in TableNames => g[1][a] = g[0][b]
    <2>1. 1 - 1 = 0 /\ 1 # 0
      OBVIOUS
    <2>2. QED
      BY <1>1, <1>3, <2>1 DEF FoundAt
  <1>7. b \in TableNames /\ NoSlot(tables, low) => g[0][b] = 0
    BY <1>3 DEF FoundAt, NoSlot
  <1>8. b \in TableNames /\ low \in DOMAIN tables /\ tables[low].table = "" => g[0][b] = tables[low].page + (v % Reach(0))
    BY <1>3 DEF FoundAt
  <1>9. QED
    BY <1>3, <1>4, <1>5, <1>6, <1>7, <1>8

\* With two levels a walk ends at the root or one table below it.
LEMMA Walk32 ==
  ASSUME levels = 2, NEW tables, NEW v, NEW b \in TableNames, NEW root, NEW low,
         root = SlotAt(1, "l1pt", v), low = SlotAt(0, b, v),
         root \in DOMAIN tables
  PROVE  /\ tables[root].table = "" => Walk(tables, v) = tables[root].page + (v % Reach(1))
         /\ tables[root].table = b =>
              /\ low \notin DOMAIN tables => Walk(tables, v) = 0
              /\ low \in DOMAIN tables /\ tables[low].table = "" =>
                   Walk(tables, v) = tables[low].page + (v % Reach(0))
  <1>1. \A t \in TableNames : t # ""
    BY DEF TableNames
  <1>2. PICK g : /\ Walk(tables, v) = g[levels - 1]["l1pt"]
                 /\ \A level \in 0..(levels - 1) : \A t \in TableNames :
                      g[level][t] = FoundAt(g, tables, level, t, v)
    BY WalkSteps
  <1>3. /\ Walk(tables, v) = g[1]["l1pt"]
        /\ \A t \in TableNames : /\ g[1][t] = FoundAt(g, tables, 1, t, v)
                                 /\ g[0][t] = FoundAt(g, tables, 0, t, v)
    <2>1. levels - 1 = 1 /\ 0 \in 0..(levels - 1) /\ 1 \in 0..(levels - 1)
      OBVIOUS
    <2>2. QED
      BY <1>2, <2>1
  <1>4. "l1pt" \in TableNames /\ 1 - 1 = 0 /\ 1 # 0
    BY DEF TableNames
  <1>5. tables[root].table = "" => g[1]["l1pt"] = tables[root].page + (v % Reach(1))
    BY <1>3, <1>4 DEF FoundAt
  <1>6. tables[root].table = b => g[1]["l1pt"] = g[0][b]
    BY <1>1, <1>3, <1>4 DEF FoundAt
  <1>7. low \notin DOMAIN tables => g[0][b] = 0
    BY <1>3 DEF FoundAt
  <1>8. low \in DOMAIN tables /\ tables[low].table = "" => g[0][b] = tables[low].page + (v % Reach(0))
    BY <1>3 DEF FoundAt
  <1>9. QED
    BY <1>3, <1>5, <1>6, <1>7, <1>8

\* ... and with two.
LEMMA Slots32 ==
  ASSUME levels = 2, NEW v \in Nat
  PROVE  /\ \A t : /\ SlotAt(1, t, v) = <<t, (v \div 1024) % 1024>>
                   /\ SlotAt(0, t, v) = <<t, v % 1024>>
         /\ v % Reach(1) = v % 1024 /\ v % Reach(0) = 0
  <1>1. PTES_PER_PT = 1024
    BY DEF PTES_PER_PT
  <1>2. Reach(1) = 1024 /\ Reach(0) = 1
    BY DEF PTES_PER_PT, Reach
  <1>3. v \div 1 = v /\ v % 1 = 0
    OBVIOUS
  <1>4. \A t : SlotAt(1, t, v) = <<t, (v \div 1024) % 1024>>
    BY <1>1, <1>2 DEF SlotAt
  <1>5. \A t : SlotAt(0, t, v) = <<t, v % 1024>>
    BY <1>1, <1>2, <1>3 DEF SlotAt
  <1>6. v % Reach(1) = v % 1024 /\ v % Reach(0) = 0
    BY <1>2, <1>3
  <1>7. QED
    BY <1>4, <1>5, <1>6

\* The kernel's addresses: its megapage ends the address space, and the host's page
\* comes right before it.
LEMMA Addresses64 ==
  ASSUME levels = 3
  PROVE  /\ \A page \in Int : pa2kva(page) = (page - 786432 - 512) % 134217728
         /\ \A page \in Int : uva2kva(page) = (page - 512) % 134217728
  <1>1. VirtualPages = 134217728 /\ MEGAPAGE = 512
    BY DEF VirtualPages, PTES_PER_PT, MEGAPAGE
  <1>2. QED
    BY <1>1 DEF pa2kva, uva2kva, DRAM_BASE

LEMMA Addresses32 ==
  ASSUME levels = 2
  PROVE  /\ \A page \in Int : pa2kva(page) = (page - 786432 - 1024) % 1048576
         /\ \A page \in Int : uva2kva(page) = (page - 1024) % 1048576
  <1>1. VirtualPages = 1048576 /\ MEGAPAGE = 1024
    BY DEF VirtualPages, PTES_PER_PT, MEGAPAGE
  <1>2. QED
    BY <1>1 DEF pa2kva, uva2kva, DRAM_BASE

LEMMA EntryParts ==
  /\ \A t : Pointer(t).table = t
  /\ \A p : Leaf(p).table = "" /\ Leaf(p).page = p
  BY DEF Pointer, Leaf

\* A page of the megapage, and the host's.
LEMMA Kernel64 ==
  ASSUME levels = 3, NEW k \in 0..511
  PROVE  Walk(Tables, 134217216 + k) = DRAM_BASE + k
  <1> DEFINE v == 134217216 + k
             root == <<"l1pt", 511>>
             mid == <<"kernel_l2pt", 511>>
  <1>1. v \in Nat /\ (v \div 262144) % 512 = 511 /\ (v \div 512) % 512 = 511 /\ v % 512 = k
    OBVIOUS
  <1> HIDE DEF v
  <1>2. /\ root = SlotAt(2, "l1pt", v) /\ mid = SlotAt(1, "kernel_l2pt", v)
        /\ v % Reach(1) = k
    BY <1>1, Slots64
  <1>3. /\ root \in DOMAIN Tables /\ Tables[root].table = "kernel_l2pt"
        /\ mid \in DOMAIN Tables /\ Tables[mid].table = "" /\ Tables[mid].page = DRAM_BASE
    <2>1. root \in DOMAIN Tables /\ mid \in DOMAIN Tables
      BY Tables64
    <2>2. Tables[root] = Pointer("kernel_l2pt") /\ Tables[mid] = Leaf(DRAM_BASE)
      BY Tables64
    <2>3. Leaf(DRAM_BASE).table = "" /\ Leaf(DRAM_BASE).page = DRAM_BASE
      BY EntryParts, Zenon
    <2>4. QED
      BY <2>1, <2>2, <2>3, EntryParts, ZenonT(60)
  <1> HIDE DEF root, mid
  <1>4. "kernel_l2pt" \in TableNames
    BY DEF TableNames
  <1>5. Walk(Tables, v) = Tables[mid].page + (v % Reach(1))
    <2>1. root = SlotAt(2, "l1pt", v) /\ mid = SlotAt(1, Tables[root].table, v)
      BY <1>2, <1>3, Zenon
    <2>2. Tables[root].table \in TableNames
      BY <1>3, <1>4, Zenon
    <2>3. QED
      BY <1>3, <2>1, <2>2, Walk64, ZenonT(60)
  <1>6. Walk(Tables, v) = DRAM_BASE + k
    BY <1>2, <1>3, <1>5, Zenon
  <1>7. QED
    BY <1>6 DEF v

LEMMA Host64 ==
  ASSUME levels = 3
  PROVE  Walk(Tables, 134217215) = HTIF_BASE
  <1> DEFINE v == 134217215
             root == <<"l1pt", 511>>
             mid == <<"kernel_l2pt", 510>>
             low == <<"tohost_l3pt", 511>>
  <1>1. v \in Nat /\ (v \div 262144) % 512 = 511 /\ (v \div 512) % 512 = 510 /\ v % 512 = 511
    OBVIOUS
  <1> HIDE DEF v
  <1>2. /\ root = SlotAt(2, "l1pt", v) /\ mid = SlotAt(1, "kernel_l2pt", v)
        /\ low = SlotAt(0, "tohost_l3pt", v) /\ v % Reach(0) = 0
    BY <1>1, Slots64
  <1>3. /\ root \in DOMAIN Tables /\ Tables[root].table = "kernel_l2pt"
        /\ mid \in DOMAIN Tables /\ Tables[mid].table = "tohost_l3pt"
        /\ low \in DOMAIN Tables /\ Tables[low].table = "" /\ Tables[low].page = HTIF_BASE
    <2>1. root \in DOMAIN Tables /\ mid \in DOMAIN Tables /\ low \in DOMAIN Tables
      BY Tables64
    <2>2. Tables[root] = Pointer("kernel_l2pt") /\ Tables[mid] = Pointer("tohost_l3pt") /\ Tables[low] = Leaf(HTIF_BASE)
      BY Tables64
    <2>3. Leaf(HTIF_BASE).table = "" /\ Leaf(HTIF_BASE).page = HTIF_BASE
      BY EntryParts, Zenon
    <2>4. QED
      BY <2>1, <2>2, <2>3, EntryParts, ZenonT(60)
  <1> HIDE DEF root, mid, low
  <1>4. "kernel_l2pt" \in TableNames /\ "tohost_l3pt" \in TableNames
    BY DEF TableNames
  <1>5. Walk(Tables, v) = Tables[low].page + (v % Reach(0))
    <2>1. /\ root = SlotAt(2, "l1pt", v) /\ mid = SlotAt(1, Tables[root].table, v)
          /\ low = SlotAt(0, Tables[mid].table, v)
      BY <1>2, <1>3, Zenon
    <2>2. Tables[root].table \in TableNames /\ Tables[mid].table \in TableNames
      BY <1>3, <1>4, Zenon
    <2>3. QED
      BY <1>3, <2>1, <2>2, Walk64, Zenon
  <1>6. Walk(Tables, v) = HTIF_BASE
    <2>1. HTIF_BASE + 0 = HTIF_BASE
      BY DEF HTIF_BASE
    <2>2. QED
      BY <1>2, <1>3, <1>5, <2>1, Zenon
  <1>7. QED
    BY <1>6 DEF v

\* A user page faults until its entry is in user_l3pt.
LEMMA User64 ==
  ASSUME levels = 3, NEW page \in 0..62, NEW frame \in Nat
  PROVE  /\ Walk(Tables, page) = 0
         /\ Walk(Put(Tables, <<user_l3pt, page>>, Leaf(frame)), page) = frame
  <1> DEFINE root == <<"l1pt", 0>>
             mid == <<"user_l2pt", 0>>
             low == <<"user_l3pt", page>>
             more == Put(Tables, low, Leaf(frame))
  <1>1. (page \div 262144) % 512 = 0 /\ (page \div 512) % 512 = 0 /\ page % 512 = page
    OBVIOUS
  <1>2. /\ root = SlotAt(2, "l1pt", page) /\ mid = SlotAt(1, "user_l2pt", page)
        /\ low = SlotAt(0, "user_l3pt", page) /\ page % Reach(0) = 0
    BY <1>1, Slots64
  <1>3. /\ root \in DOMAIN Tables /\ Tables[root].table = "user_l2pt"
        /\ mid \in DOMAIN Tables /\ Tables[mid].table = "user_l3pt"
        /\ low \notin DOMAIN Tables
    <2>1. root \in DOMAIN Tables /\ mid \in DOMAIN Tables /\ low \notin DOMAIN Tables
      BY Tables64
    <2>2. Tables[root] = Pointer("user_l2pt") /\ Tables[mid] = Pointer("user_l3pt")
      BY Tables64
    <2>3. QED
      BY <2>1, <2>2, EntryParts, Zenon
  <1>4. root # low /\ mid # low /\ user_l3pt = "user_l3pt"
    BY DEF user_l3pt
  <1> HIDE DEF root, mid, low
  <1>5. /\ root \in DOMAIN more /\ more[root].table = "user_l2pt"
        /\ mid \in DOMAIN more /\ more[mid].table = "user_l3pt"
        /\ low \in DOMAIN more /\ more[low].table = "" /\ more[low].page = frame
    BY <1>3, <1>4, EntryParts DEF Put
  <1> HIDE DEF more
  <1>6. "user_l2pt" \in TableNames /\ "user_l3pt" \in TableNames
    BY DEF TableNames
  <1>7. Walk(Tables, page) = 0
    <2>1. /\ root = SlotAt(2, "l1pt", page) /\ mid = SlotAt(1, Tables[root].table, page)
          /\ low = SlotAt(0, Tables[mid].table, page)
      BY <1>2, <1>3, <1>4, Zenon
    <2>2. /\ root \in DOMAIN Tables /\ Tables[root].table \in TableNames
          /\ mid \in DOMAIN Tables /\ Tables[mid].table \in TableNames
      BY <1>3, <1>6, Zenon
    <2>3. NoSlot(Tables, low)
      BY <1>3, Zenon DEF NoSlot
    <2>4. QED
      BY <2>1, <2>2, <2>3, Walk64, Zenon
  <1>8. Walk(more, page) = more[low].page + (page % Reach(0))
    <2>1. /\ root = SlotAt(2, "l1pt", page) /\ mid = SlotAt(1, more[root].table, page)
          /\ low = SlotAt(0, more[mid].table, page)
      BY <1>2, <1>4, <1>5, Zenon
    <2>2. more[root].table \in TableNames /\ more[mid].table \in TableNames
      BY <1>5, <1>6, Zenon
    <2>3. QED
      BY <1>5, <2>1, <2>2, Walk64, Zenon
  <1>9. Walk(more, page) = frame
    <2>1. frame + 0 = frame
      OBVIOUS
    <2>2. QED
      BY <1>2, <1>5, <1>8, <2>1, Zenon
  <1>10. QED
    BY <1>4, <1>7, <1>9 DEF more, low

LEMMA Kernel32 ==
  ASSUME levels = 2, NEW k \in 0..1023
  PROVE  Walk(Tables, 1047552 + k) = DRAM_BASE + k
  <1> DEFINE v == 1047552 + k
             root == <<"l1pt", 1023>>
  <1>1. v \in Nat /\ (v \div 1024) % 1024 = 1023 /\ v % 1024 = k
    OBVIOUS
  <1> HIDE DEF v
  <1>2. root = SlotAt(1, "l1pt", v) /\ v % Reach(1) = k
    BY <1>1, Slots32
  <1>3. root \in DOMAIN Tables /\ Tables[root].table = "" /\ Tables[root].page = DRAM_BASE
    <2>1. root \in DOMAIN Tables
      BY Tables32
    <2>2. Tables[root] = Leaf(DRAM_BASE)
      BY Tables32
    <2>3. Leaf(DRAM_BASE).table = "" /\ Leaf(DRAM_BASE).page = DRAM_BASE
      BY EntryParts, Zenon
    <2>4. QED
      BY <2>1, <2>2, <2>3, EntryParts, ZenonT(60)
  <1> HIDE DEF root
  <1>4. "l1pt" \in TableNames
    BY DEF TableNames
  <1>5. Walk(Tables, v) = Tables[root].page + (v % Reach(1))
    BY <1>2, <1>3, <1>4, Walk32, ZenonT(60)
  <1>6. Walk(Tables, v) = DRAM_BASE + k
    BY <1>2, <1>3, <1>5, Zenon
  <1>7. QED
    BY <1>6 DEF v

LEMMA Host32 ==
  ASSUME levels = 2
  PROVE  Walk(Tables, 1047551) = HTIF_BASE
  <1> DEFINE v == 1047551
             root == <<"l1pt", 1022>>
             low == <<"tohost_l3pt", 1023>>
  <1>1. v \in Nat /\ (v \div 1024) % 1024 = 1022 /\ v % 1024 = 1023
    OBVIOUS
  <1> HIDE DEF v
  <1>2. /\ root = SlotAt(1, "l1pt", v) /\ low = SlotAt(0, "tohost_l3pt", v)
        /\ v % Reach(0) = 0
    BY <1>1, Slots32
  <1>3. /\ root \in DOMAIN Tables /\ Tables[root].table = "tohost_l3pt"
        /\ low \in DOMAIN Tables /\ Tables[low].table = "" /\ Tables[low].page = HTIF_BASE
    <2>1. root \in DOMAIN Tables /\ low \in DOMAIN Tables
      BY Tables32
    <2>2. Tables[root] = Pointer("tohost_l3pt") /\ Tables[low] = Leaf(HTIF_BASE)
      BY Tables32
    <2>3. /\ Leaf(HTIF_BASE).table = "" /\ Leaf(HTIF_BASE).page = HTIF_BASE
          /\ Pointer("tohost_l3pt").table = "tohost_l3pt"
      BY EntryParts, Zenon
    <2>4. Tables[root].table = "tohost_l3pt" /\ Tables[low].table = ""
      BY <2>2, <2>3, ZenonT(60)
    <2>5. Tables[low].page = HTIF_BASE
      BY <2>2, <2>3, ZenonT(60)
    <2>6. QED
      BY <2>1, <2>4, <2>5, ZenonT(60)
  <1> HIDE DEF root, low
  <1>4. "tohost_l3pt" \in TableNames
    BY DEF TableNames
  <1>5. Walk(Tables, v) = Tables[low].page + (v % Reach(0))
    BY <1>2, <1>3, <1>4, Walk32, Zenon
  <1>6. Walk(Tables, v) = HTIF_BASE
    <2>1. HTIF_BASE + 0 = HTIF_BASE
      BY DEF HTIF_BASE
    <2>2. QED
      BY <1>2, <1>3, <1>5, <2>1, Zenon
  <1>7. QED
    BY <1>6 DEF v

LEMMA User32 ==
  ASSUME levels = 2, NEW page \in 0..62, NEW frame \in Nat
  PROVE  /\ Walk(Tables, page) = 0
         /\ Walk(Put(Tables, <<user_l3pt, page>>, Leaf(frame)), page) = frame
  <1> DEFINE root == <<"l1pt", 0>>
             low == <<"user_l2pt", page>>
             more == Put(Tables, low, Leaf(frame))
  <1>1. (page \div 1024) % 1024 = 0 /\ page % 1024 = page
    OBVIOUS
  <1>2. /\ root = SlotAt(1, "l1pt", page) /\ low = SlotAt(0, "user_l2pt", page)
        /\ page % Reach(0) = 0
    BY <1>1, Slots32
  <1>3. /\ root \in DOMAIN Tables /\ Tables[root].table = "user_l2pt"
        /\ low \notin DOMAIN Tables
    <2>1. root \in DOMAIN Tables /\ low \notin DOMAIN Tables
      BY Tables32
    <2>2. Tables[root] = Pointer("user_l2pt")
      BY Tables32
    <2>3. QED
      BY <2>1, <2>2, EntryParts, Zenon
  <1>4. root # low /\ user_l3pt = "user_l2pt"
    BY DEF user_l3pt
  <1> HIDE DEF root, low
  <1>5. /\ root \in DOMAIN more /\ more[root].table = "user_l2pt"
        /\ low \in DOMAIN more /\ more[low].table = "" /\ more[low].page = frame
    BY <1>3, <1>4, EntryParts DEF Put
  <1> HIDE DEF more
  <1>6. "user_l2pt" \in TableNames
    BY DEF TableNames
  <1>7. Walk(Tables, page) = 0
    BY <1>2, <1>3, <1>6, Walk32, Zenon
  <1>8. Walk(more, page) = more[low].page + (page % Reach(0))
    BY <1>2, <1>5, <1>6, Walk32, Zenon
  <1>9. Walk(more, page) = frame
    <2>1. frame + 0 = frame
      OBVIOUS
    <2>2. QED
      BY <1>2, <1>5, <1>8, <2>1, Zenon
  <1>10. QED
    BY <1>4, <1>7, <1>9 DEF more, low

\* What the supervisor relies on holds of the tables vm_boot writes, in either build.
LEMMA TablesRight ==
  ASSUME levels \in {2, 3}, addr \in [Index -> Nat]
  PROVE  /\ \A page \in DRAM_BASE..(DRAM_BASE + MEGAPAGE - 1) \cup {HTIF_BASE} :
              Walk(Tables, pa2kva(page)) = page
         /\ \A page \in Index :
              /\ Walk(Tables, uva2kva(page)) = DRAM_BASE + page
              /\ Walk(Tables, page) = 0
              /\ Walk(Put(Tables, <<user_l3pt, page>>, Leaf(DRAM_BASE + addr[page])), page)
                   = DRAM_BASE + addr[page]
  <1>1. DRAM_BASE = 786432 /\ HTIF_BASE = 786431 /\ Index = 0..62
    BY DEF DRAM_BASE, HTIF_BASE, Index, MAX_TEST_PAGES
  <1>2. CASE levels = 3
    <2>1. MEGAPAGE = 512
      BY <1>2 DEF MEGAPAGE, PTES_PER_PT
    <2>2. ASSUME NEW page \in DRAM_BASE..(DRAM_BASE + MEGAPAGE - 1)
          PROVE  Walk(Tables, pa2kva(page)) = page
      <3> DEFINE k == page - 786432
      <3>1. /\ k \in 0..511 /\ page \in Int /\ DRAM_BASE + k = page
            /\ (page - 786432 - 512) % 134217728 = 134217216 + k
        BY <1>1, <2>1
      <3>2. pa2kva(page) = 134217216 + k
        BY <1>2, <3>1, Addresses64
      <3> HIDE DEF k
      <3>3. Walk(Tables, 134217216 + k) = DRAM_BASE + k
        BY <1>2, <3>1, Kernel64
      <3>4. QED
        BY <3>1, <3>2, <3>3, SMT
    <2>3. Walk(Tables, pa2kva(HTIF_BASE)) = HTIF_BASE
      <3>1. ASSUME NEW k \in 0..511, NEW page \in Int, page = 786431 + k
            PROVE  pa2kva(page) = 134217215 + k
        <4>1. (page - 786432 - 512) % 134217728 = 134217215 + k
          BY <3>1, SMT
        <4>2. QED
          BY <1>2, <4>1, Addresses64, SMT
      <3>2. pa2kva(HTIF_BASE) = 134217215
        BY <1>1, <3>1, SMT
      <3>3. QED
        BY <1>2, <3>2, Host64, SMT
    <2>4. ASSUME NEW page \in Index
          PROVE  Walk(Tables, uva2kva(page)) = DRAM_BASE + page
      <3>1. page \in 0..511 /\ page \in Int /\ (page - 512) % 134217728 = 134217216 + page
        BY <1>1
      <3>2. uva2kva(page) = 134217216 + page
        BY <1>2, <3>1, Addresses64
      <3>3. Walk(Tables, 134217216 + page) = DRAM_BASE + page
        BY <1>2, <3>1, Kernel64
      <3>4. QED
        BY <3>2, <3>3, SMT
    <2>5. ASSUME NEW page \in Index
          PROVE  /\ Walk(Tables, page) = 0
                 /\ Walk(Put(Tables, <<user_l3pt, page>>, Leaf(DRAM_BASE + addr[page])), page)
                      = DRAM_BASE + addr[page]
      <3>1. page \in 0..62 /\ DRAM_BASE + addr[page] \in Nat
        BY <1>1
      <3>2. QED
        BY <1>2, <3>1, User64, Zenon
    <2>6. QED
      BY <2>2, <2>3, <2>4, <2>5, Zenon
  <1>3. CASE levels = 2
    <2>1. MEGAPAGE = 1024
      BY <1>3 DEF MEGAPAGE, PTES_PER_PT
    <2>2. ASSUME NEW page \in DRAM_BASE..(DRAM_BASE + MEGAPAGE - 1)
          PROVE  Walk(Tables, pa2kva(page)) = page
      <3> DEFINE k == page - 786432
      <3>1. /\ k \in 0..1023 /\ page \in Int /\ DRAM_BASE + k = page
            /\ (page - 786432 - 1024) % 1048576 = 1047552 + k
        BY <1>1, <2>1
      <3>2. pa2kva(page) = 1047552 + k
        BY <1>3, <3>1, Addresses32
      <3> HIDE DEF k
      <3>3. Walk(Tables, 1047552 + k) = DRAM_BASE + k
        BY <1>3, <3>1, Kernel32
      <3>4. QED
        BY <3>1, <3>2, <3>3, SMT
    <2>3. Walk(Tables, pa2kva(HTIF_BASE)) = HTIF_BASE
      <3>1. ASSUME NEW k \in 0..511, NEW page \in Int, page = 786431 + k
            PROVE  pa2kva(page) = 1047551 + k
        <4>1. (page - 786432 - 1024) % 1048576 = 1047551 + k
          BY <3>1, SMT
        <4>2. QED
          BY <1>3, <4>1, Addresses32, SMT
      <3>2. pa2kva(HTIF_BASE) = 1047551
        BY <1>1, <3>1, SMT
      <3>3. QED
        BY <1>3, <3>2, Host32, SMT
    <2>4. ASSUME NEW page \in Index
          PROVE  Walk(Tables, uva2kva(page)) = DRAM_BASE + page
      <3>1. page \in 0..1023 /\ page \in Int /\ (page - 1024) % 1048576 = 1047552 + page
        BY <1>1
      <3>2. uva2kva(page) = 1047552 + page
        BY <1>3, <3>1, Addresses32
      <3>3. Walk(Tables, 1047552 + page) = DRAM_BASE + page
        BY <1>3, <3>1, Kernel32
      <3>4. QED
        BY <3>2, <3>3, SMT
    <2>5. ASSUME NEW page \in Index
          PROVE  /\ Walk(Tables, page) = 0
                 /\ Walk(Put(Tables, <<user_l3pt, page>>, Leaf(DRAM_BASE + addr[page])), page)
                      = DRAM_BASE + addr[page]
      <3>1. page \in 0..62 /\ DRAM_BASE + addr[page] \in Nat
        BY <1>1
      <3>2. QED
        BY <1>3, <3>1, User32, Zenon
    <2>6. QED
      BY <2>2, <2>3, <2>4, <2>5, Zenon
  <1>4. QED
    BY <1>2, <1>3

LEMMA TablesKept == TablesInv /\ levels \in {2, 3} /\ [Next]_vars => TablesInv'
  <1> SUFFICES ASSUME TablesInv, levels \in {2, 3}, [Next]_vars PROVE TablesInv'
    OBVIOUS
  <1>1. levels' = levels
    BY DEF Next, MapTables, Seed, Link, Cut, Torture, vars
  <1>2. Tables' = Tables
    BY <1>1 DEF Tables, PTES_PER_PT, HtifSlot
  <1>3. CASE MapTables
    BY <1>2, <1>3 DEF MapTables, TablesInv
  <1>4. CASE Seed \/ Link \/ Cut
    <2>1. pc # "map" /\ pc' # "map" /\ pt' = pt
      BY <1>4 DEF Seed, Link, Cut
    <2>2. QED
      BY <1>2, <2>1 DEF TablesInv
  <1>5. CASE UNCHANGED vars \/ \E h \in Torturers : Torture(h)
    BY <1>2, <1>5 DEF TablesInv, Torture, vars
  <1>6. QED
    BY <1>3, <1>4, <1>5 DEF Next

\* From any ENTROPY on: no variable outgrows its C type, the list is linked as far
\* as the loop counter says from frames drawn one turn apart, and the page tables
\* are the ones vm_boot wrote first.
THEOREM InvariantHolds == Spec => []IInv
  <1>1. Init => IInv
    BY InitTypeOK, InitInv DEF IInv, TablesInv, Init
  <1>2. IInv /\ [Next]_vars => IInv'
    BY NextTypeOK, NextInv, TablesKept DEF IInv, TypeOK
  <1>3. QED
    BY <1>1, <1>2, PTL DEF Spec

\* When hart 0 starts the test, in either build: its supervisor reaches every page
\* of its megapage, the image of each user page and the host's page at the address
\* its macros say; each user page faults, and an entry the fault handler writes for
\* it in user_l3pt is the one the hardware will find.
THEOREM TranslationsAsAssumed == Spec => []TranslationsRight
  <1>1. IInv => TranslationsRight
    <2>1. ASSUME IInv, pc = "boot"
          PROVE  pt = Tables /\ levels \in {2, 3} /\ addr \in [Index -> Nat]
      BY <2>1 DEF IInv, TypeOK, TablesInv
    <2>2. QED
      BY <2>1, TablesRight, Zenon DEF TranslationsRight
  <1>2. QED
    BY <1>1, InvariantHolds, PTL
================================================================================
