-------------------------- MODULE DemandPagingProofs --------------------------
(* Proofs about DemandPaging, for any number of pages, any order of the frames *)
(* on the free list, any set of instructions, and both ways of managing the    *)
(* accessed and dirty bits.                                                    *)
EXTENDS DemandPaging, FiniteSetTheorems, TLAPS

USE NPagesAssumption

LEMMA PageFacts ==
  /\ Page \subseteq Nat
  /\ IsFiniteSet(Page)
  /\ Cardinality(Page) = NPages - 1
  BY FS_Interval DEF Page

\* There are fewer mapped pages than frames.
LEMMA MappedBounded ==
  /\ Mapped \subseteq Page
  /\ IsFiniteSet(Mapped)
  /\ Cardinality(Mapped) \in 0..(NPages - 1)
  <1>1. Mapped \subseteq Page
    BY DEF Mapped
  <1>2. IsFiniteSet(Mapped) /\ Cardinality(Mapped) <= NPages - 1
    BY <1>1, PageFacts, FS_Subset
  <1>3. Cardinality(Mapped) \in Nat
    BY <1>2, FS_CardinalityType
  <1>4. QED
    BY <1>1, <1>2, <1>3

\* A pointer to a node of freelist_nodes never points into user_mapping.
LEMMA NodeKinds ==
  /\ \A i \in 0..(NPages - 1) : FreeNode(i) \in Node /\ FreeNode(i) # NULL
  /\ \A p \in Page : MapNode(p) \in Node /\ MapNode(p) > NPages
  /\ \A p, q \in Page : p # q => MapNode(p) # MapNode(q)
  BY DEF Page, Node, FreeNode, MapNode, NULL

\* What the handler and the hardware make of a PTE is a PTE.
LEMMA PteUpdates ==
  /\ Unmapped \in Pte
  /\ \A e \in Pte : Touched(e, "load") \in Pte /\ Touched(e, "store") \in Pte
  /\ \A e \in Pte, b \in {0, 1} : [e EXCEPT !.a = 1, !.d = b] \in Pte
  <1>1. Unmapped \in Pte
    BY DEF Unmapped, Pte
  <1>2. ASSUME NEW e \in Pte, NEW b \in {0, 1}
        PROVE  [e EXCEPT !.a = 1, !.d = b] \in Pte
    BY DEF Pte
  <1>3. ASSUME NEW e \in Pte PROVE e.d \in {0, 1}
    BY DEF Pte
  <1>4. QED
    BY <1>1, <1>2, <1>3 DEF Touched

LEMMA PteEqual ==
  \A e, f \in Pte :
    e.valid = f.valid /\ e.ppn = f.ppn /\ e.a = f.a /\ e.d = f.d => e = f
  BY DEF Pte

LEMMA InitIInv == Init => IInv
  <1> SUFFICES ASSUME Init PROVE IInv
    OBVIOUS
  <1>1. Mapped = {}
    BY DEF Init, Mapped, Unmapped
  <1>2. Cardinality(Mapped) = 0
    BY <1>1, FS_EmptySet
  <1>3. TypeOK
    BY NodeKinds, FrameAssumption
    DEF Init, TypeOK, PC, Pte, Unmapped, Page, Node, FreeNode, NULL, Contents, Image, Junk
  <1>a. pc = "user"
    BY DEF Init
  <1>4. NodesIntact
    BY <1>1, FrameAssumption DEF Init, NodesIntact, FreeNode, Node, NULL
  <1>5. OwnersKnown
    BY <1>1, NodeKinds DEF Init, OwnersKnown, Node
  <1>6. HandlerInv
    BY DEF Init, HandlerInv
  <1>7. FramesExclusive
    <2>1. \A i \in 0..(NPages - 1) : node[FreeNode(i)].addr = FrameAt[i]
      BY <1>4, <1>a DEF NodesIntact
    <2>2. head = FreeNode(Cardinality(Mapped))
      BY <1>2 DEF Init
    <2>3. QED
      BY <1>1, <1>2, <2>1, <2>2 DEF FramesExclusive
  <1>8. TlbCoherent /\ DirtyTracked /\ AccessTracked /\ AssertionsHold
    BY <1>1 DEF Init, TlbCoherent, DirtyTracked, AccessTracked, AssertionsHold
  <1>9. QED
    BY <1>3, <1>4, <1>5, <1>6, <1>7, <1>8 DEF IInv

\* Outside the windows before a flush, the hardware translates by the current PTE.
LEMMA EntryIsPte ==
  ASSUME TypeOK, TlbCoherent, NEW p \in Page, pc \notin {"fresh", "flush"}
  PROVE  Entry(p) = pte[p] /\ pte[p] \in Pte
  BY DEF TypeOK, TlbCoherent, Entry

\* Every step of the hart, the test and the TLB keeps the types.
LEMMA TypeNext == IInv /\ [Next]_vars => TypeOK'
  <1> SUFFICES ASSUME IInv, [Next]_vars PROVE TypeOK'
    OBVIOUS
  <1>0. TypeOK /\ HandlerInv /\ TlbCoherent /\ OwnersKnown
    BY DEF IInv
  <1> USE <1>0 DEF TypeOK
  <1>1. ASSUME Issue PROVE TypeOK'
    BY <1>1 DEF Issue, list
  <1>2. ASSUME NEW p \in Page, Load(p) PROVE TypeOK'
    <2>1. Entry(p) = pte[p] /\ pte[p] \in Pte
      BY <1>2, EntryIsPte DEF Load, Accessing
    <2>2. Touched(pte[p], "load") \in Pte /\ pte[p].ppn \in 0..(2 * NPages)
      BY <2>1, PteUpdates DEF Pte
    <2>3. loaded' \in Contents
      BY <1>2, <2>1, <2>2 DEF Load
    <2>4. tlb' \in [Page -> Pte \cup {None}] /\ pte' \in [Page -> Pte]
      BY <1>2, <2>1, <2>2 DEF Load
    <2>5. QED
      BY <1>2, <2>3, <2>4 DEF Load, list
  <1>3. ASSUME NEW p \in Page, Store(p) PROVE TypeOK'
    <2>1. Entry(p) = pte[p] /\ pte[p] \in Pte
      BY <1>3, EntryIsPte DEF Store, Accessing
    <2>2. Touched(pte[p], "store") \in Pte
      BY <2>1, PteUpdates
    <2>3. insn.val \in Contents
      BY <1>3 DEF Store, Accessing, Contents, Stored
    <2>4. tlb' \in [Page -> Pte \cup {None}] /\ pte' \in [Page -> Pte]
      BY <1>3, <2>1, <2>2 DEF Store
    <2>5. phys' \in [0..(2 * NPages) -> Contents]
      BY <1>3, <2>3 DEF Store
    <2>6. QED
      BY <1>3, <2>4, <2>5 DEF Store, list
  <1>4. ASSUME OutOfRange PROVE TypeOK'
    BY <1>4 DEF OutOfRange, Assert, PC, list
  <1>5. ASSUME NEW p \in Page, MarkBits(p) PROVE TypeOK'
    <2>1. pte[p] \in Pte /\ pte[p].d \in {0, 1}
      BY DEF Pte
    <2>2. pte' \in [Page -> Pte]
      BY <1>5, <2>1, PteUpdates DEF MarkBits
    <2>3. QED
      BY <1>5, <2>2, PageFacts DEF MarkBits, Assert, PC, list, Page
  <1>6. ASSUME NEW p \in Page, TakeFrame(p) PROVE TypeOK'
    <2>1. CASE head = NULL
      BY <1>6, <2>1 DEF TakeFrame, Assert, PC, list, Page
    <2>2. CASE head # NULL
      <3>1. [valid |-> 1, ppn |-> node[head].addr, a |-> 1, d |-> 1] \in Pte
        BY <2>2 DEF Pte
      <3>2. pte' \in [Page -> Pte]
        BY <1>6, <2>2, <3>1 DEF TakeFrame
      <3>3. head' \in Node \cup {NULL} /\ tail' \in Node \cup {NULL}
        BY <1>6, <2>2 DEF TakeFrame
      <3>4. QED
        BY <1>6, <2>2, <3>2, <3>3 DEF TakeFrame, Assert, PC, list, Page
    <2>3. QED
      BY <2>1, <2>2
  <1>7. ASSUME OwnFrame PROVE TypeOK'
    <2>1. cur \in Node /\ page \in Page
      BY <1>7 DEF OwnFrame, HandlerInv, Node, Mapped
    <2>2. tlb' \in [Page -> Pte \cup {None}]
      BY <1>7 DEF OwnFrame
    <2>3. node' \in [Node -> [addr : 0..(2 * NPages), next : Node \cup {NULL}]]
      BY <1>7, <2>1 DEF OwnFrame
    <2>4. QED
      BY <1>7, <2>2, <2>3 DEF OwnFrame, Assert, PC
  <1>8. ASSUME CopyIn PROVE TypeOK'
    <2>1. page \in Page
      BY <1>8 DEF CopyIn, HandlerInv, Mapped
    <2>2. Entry(page) \in Pte
      BY <1>8, <2>1, EntryIsPte DEF CopyIn
    <2>3. phys[page] \in Contents
      BY <2>1 DEF Page
    <2>4. QED
      BY <1>8, <2>2, <2>3 DEF CopyIn, PC, list
  <1>9. ASSUME ClearBits PROVE TypeOK'
    <2>1. [valid |-> 1, ppn |-> node[cur].addr, a |-> 0, d |-> 0] \in Pte
      BY <1>9 DEF ClearBits, HandlerInv, Pte, Node
    <2>2. QED
      BY <1>9, <2>1 DEF ClearBits, PC, list
  <1>10. ASSUME FlushReturn PROVE TypeOK'
    BY <1>10 DEF FlushReturn, PC, list
  <1>11. ASSUME Ecall PROVE TypeOK'
    BY <1>11 DEF Ecall, PC, list
  <1>12. ASSUME Evict PROVE TypeOK'
    <2>1. page \in Page /\ MapNode(page) \in Node
      BY <1>12, NodeKinds DEF Evict, HandlerInv, Page
    <2>2. phys[page] \in Contents
      BY <2>1 DEF Page
    <2>3. phys' \in [0..(2 * NPages) -> Contents]
      BY <1>12, <2>2 DEF Evict
    <2>4. node' \in [Node -> [addr : 0..(2 * NPages), next : Node \cup {NULL}]]
      BY <1>12, <2>1, SMTT(30) DEF Evict, list
    <2>5. head' \in Node \cup {NULL} /\ tail' \in Node \cup {NULL}
      BY <1>12, <2>1 DEF Evict, list
    <2>6. page' \in 0..NPages
      BY <1>12, <2>1 DEF Evict, Page
    <2>7. pc' \in PC /\ tohost' \in Nat \cup {None}
      BY <1>12 DEF Evict, Assert, PC
    <2>8. QED
      BY <1>12, <2>3, <2>4, <2>5, <2>6, <2>7 DEF Evict
  <1>13. ASSUME Exit PROVE TypeOK'
    BY <1>13, InsnAssumption DEF Exit, HandlerInv, PC, list
  <1>14. ASSUME IllegalInsn PROVE TypeOK'
    BY <1>14 DEF IllegalInsn, PC, list
  <1>15. ASSUME NEW p \in Page, Speculate(p) PROVE TypeOK'
    BY <1>15 DEF Speculate, list
  <1>16. ASSUME NEW p \in Page, Drop(p) PROVE TypeOK'
    BY <1>16 DEF Drop, list
  <1>17. ASSUME UNCHANGED vars PROVE TypeOK'
    BY <1>17 DEF vars
  <1>18. QED
    BY <1>1, <1>2, <1>3, <1>4, <1>5, <1>6, <1>7, <1>8, <1>9, <1>10, <1>11, <1>12,
       <1>13, <1>14, <1>15, <1>16, <1>17 DEF Next, Hart

\* What is said about frames holds as long as no page is mapped elsewhere and the
\* free list stays as it is.
LEMMA SameFrames ==
  ASSUME NodesIntact, FramesExclusive,
         \A p \in Page : pte'[p].valid = pte[p].valid /\ pte'[p].ppn = pte[p].ppn,
         \A i \in 0..(NPages - 1) : node'[FreeNode(i)] = node[FreeNode(i)],
         head' = head,
         pc \in {"evict", "halt"} => pc' \in {"evict", "halt"}
  PROVE  NodesIntact' /\ FramesExclusive' /\ Mapped' = Mapped
  <1>1. Mapped' = Mapped
    BY DEF Mapped
  <1>2. \A p \in Mapped : p \in Page
    BY DEF Mapped
  <1>3. NodesIntact'
    BY <1>1, <1>2 DEF NodesIntact
  <1>4. \A p, q \in Mapped' : p # q => pte'[p].ppn # pte'[q].ppn
    BY <1>1, <1>2 DEF FramesExclusive
  <1>5. ASSUME pc' \notin {"evict", "halt"}
        PROVE  /\ head' = FreeNode(Cardinality(Mapped'))
               /\ \A i \in Cardinality(Mapped')..(NPages - 1) :
                    /\ node'[FreeNode(i)].addr = FrameAt[i]
                    /\ \A p \in Mapped' : pte'[p].ppn # FrameAt[i]
    <2>1. Cardinality(Mapped) \in Nat
      BY MappedBounded
    <2>2. QED
      BY <1>1, <1>2, <1>5, <2>1 DEF FramesExclusive
  <1>6. QED
    BY <1>1, <1>3, <1>4, <1>5 DEF FramesExclusive

LEMMA AccessSteps ==
  ASSUME IInv, NEW p \in Page, Load(p) \/ Store(p)
  PROVE  /\ NodesIntact' /\ OwnersKnown' /\ HandlerInv'
         /\ TlbCoherent' /\ FramesExclusive' /\ DirtyTracked' /\ AccessTracked' /\ AssertionsHold'
  <1>0. /\ TypeOK /\ NodesIntact /\ OwnersKnown /\ HandlerInv
        /\ TlbCoherent /\ FramesExclusive /\ DirtyTracked /\ AccessTracked /\ AssertionsHold
    BY DEF IInv
  <1>1. /\ pc = "user" /\ pc' = "user" /\ insn # None /\ insn' = None
        /\ insn.op \in {"load", "store"} /\ insn.page = p
        /\ UNCHANGED <<adBits, page, cur, node, head, tail, tohost>>
    BY DEF Load, Store, Accessing, list
  <1>2. Entry(p) = pte[p] /\ pte[p] \in Pte
    BY <1>0, <1>1, EntryIsPte
  <1>3. p \in Mapped /\ pte[p].valid = 1
    BY <1>2 DEF Load, Store, Permits, Mapped
  <1> DEFINE new == Touched(pte[p], insn.op)
  <1>4. /\ new \in Pte /\ new.valid = 1 /\ new.ppn = pte[p].ppn /\ new.a = 1
        /\ new.d = IF insn.op = "store" THEN 1 ELSE pte[p].d
    <2>1. \A e \in Pte : Touched(e, insn.op) = [e EXCEPT !.a = 1, !.d = IF insn.op = "store" THEN 1 ELSE e.d]
      BY DEF Touched, Pte
    <2>2. new \in Pte
      BY <1>1, <1>2, PteUpdates
    <2>3. new = [pte[p] EXCEPT !.a = 1, !.d = IF insn.op = "store" THEN 1 ELSE pte[p].d]
      BY <1>2, <2>1
    <2> HIDE DEF new
    <2>4. QED
      BY <1>2, <1>3, <2>2, <2>3 DEF Pte
  <1>5. /\ tlb' = [tlb EXCEPT ![p] = new]
        /\ pte' = [pte EXCEPT ![p] = new]
    <2>1. tlb' = [tlb EXCEPT ![p] = new]
      BY <1>2 DEF Load, Store
    <2>2. ASSUME adBits = "hardware" PROVE pte' = [pte EXCEPT ![p] = new]
      BY <1>1, <2>2 DEF Load, Store
    <2>3. ASSUME adBits # "hardware" PROVE pte' = [pte EXCEPT ![p] = new]
      <3>1. pte[p].a = 1 /\ (insn.op = "store" => pte[p].d = 1)
        BY <1>0, <1>2, <2>3 DEF TypeOK, Load, Store, Permits
      <3>2. new = pte[p]
        BY <1>1, <1>2, <1>3, <1>4, <3>1, PteEqual
      <3>3. pte' = pte
        BY <2>3 DEF Load, Store
      <3>4. QED
        BY <1>0, <3>2, <3>3 DEF TypeOK
    <2>4. QED
      BY <2>1, <2>2, <2>3
  <1>6. /\ pte \in [Page -> Pte] /\ tlb \in [Page -> Pte \cup {None}]
        /\ pte'[p] = new /\ tlb'[p] = new
        /\ \A q \in Page : q # p => pte'[q] = pte[q] /\ tlb'[q] = tlb[q]
    BY <1>0, <1>5 DEF TypeOK
  <1>7. NodesIntact' /\ FramesExclusive' /\ Mapped' = Mapped
    BY <1>0, <1>1, <1>3, <1>4, <1>6, SameFrames
  <1>8. OwnersKnown'
    BY <1>0, <1>1, <1>7 DEF OwnersKnown
  <1>9. HandlerInv'
    BY <1>0, <1>1 DEF HandlerInv
  <1>10. TlbCoherent'
    BY <1>0, <1>1, <1>6 DEF TlbCoherent
  <1>11. AccessTracked'
    BY <1>0, <1>1, <1>4, <1>6, <1>7 DEF AccessTracked, Mapped
  <1>12. AssertionsHold'
    BY <1>1 DEF AssertionsHold
  <1>13. DirtyTracked'
    <2>1. ASSUME NEW q \in Mapped, pte'[q].d = 0 PROVE phys'[pte'[q].ppn] = phys'[q]
      <3>1. q \in Page /\ pte[q].d = 0 /\ pte'[q].ppn = pte[q].ppn
        BY <1>1, <1>4, <1>6, <2>1 DEF Mapped
      <3>2. phys[pte[q].ppn] = phys[q]
        BY <1>0, <1>1, <3>1 DEF DirtyTracked, Filling
      <3>3. CASE Load(p)
        BY <3>1, <3>2, <3>3 DEF Load
      <3>4. CASE Store(p)
        <4>1. q # p
          BY <1>4, <1>6, <2>1, <3>4 DEF Store
        <4>2. pte[q].ppn # pte[p].ppn
          BY <1>0, <1>3, <4>1 DEF FramesExclusive
        <4>3. pte[p].ppn # q
          BY <1>0, <1>3, <3>1 DEF NodesIntact, Page
        <4>4. pte[q].ppn \in 0..(2 * NPages) /\ q \in 0..(2 * NPages)
          BY <1>6, <3>1 DEF Page, Pte
        <4>5. QED
          BY <1>0, <1>2, <3>1, <3>2, <3>4, <4>2, <4>3, <4>4 DEF Store, TypeOK
      <3>5. QED
        BY <3>3, <3>4
    <2>2. QED
      BY <1>7, <2>1 DEF DirtyTracked
  <1>14. QED
    BY <1>7, <1>8, <1>9, <1>10, <1>11, <1>12, <1>13

\* A fault on a mapped page changes A or D of its PTE and asserts nothing false.
LEMMA MarkBitsStep ==
  ASSUME IInv, NEW p \in Page, MarkBits(p)
  PROVE  /\ NodesIntact' /\ OwnersKnown' /\ HandlerInv'
         /\ TlbCoherent' /\ FramesExclusive' /\ DirtyTracked' /\ AccessTracked' /\ AssertionsHold'
  <1>0. /\ TypeOK /\ NodesIntact /\ OwnersKnown /\ HandlerInv
        /\ TlbCoherent /\ FramesExclusive /\ DirtyTracked /\ AccessTracked /\ AssertionsHold
    BY DEF IInv
  <1>1. /\ pc = "user" /\ insn # None /\ insn.op \in {"load", "store"} /\ insn.page = p
        /\ pte[p].valid = 1 /\ page' = p
        /\ UNCHANGED <<adBits, insn, loaded, cur, tlb, phys, node, head, tail>>
    BY DEF MarkBits, FaultOn, Accessing, list
  <1>2. Entry(p) = pte[p] /\ pte[p] \in Pte
    BY <1>0, <1>1, EntryIsPte
  <1>3. pte[p].a = 0 \/ (pte[p].d = 0 /\ insn.op = "store")
    BY <1>1, <1>2 DEF MarkBits, FaultOn, Permits, Pte
  <1> DEFINE new == [pte[p] EXCEPT !.a = 1, !.d = IF pte[p].a = 0 THEN @ ELSE 1]
  <1>4. pte' = [pte EXCEPT ![p] = new] /\ pc' = "flush" /\ tohost' = tohost
    BY <1>0, <1>3 DEF MarkBits, Assert, TypeOK
  <1>5. new.valid = 1 /\ new.ppn = pte[p].ppn /\ new.a = 1 /\ (new.d = 0 => pte[p].d = 0)
    BY <1>1, <1>2 DEF Pte
  <1>6. /\ pte'[p] = new
        /\ \A q \in Page : q # p => pte'[q] = pte[q]
    BY <1>0, <1>4 DEF TypeOK
  <1>7. NodesIntact' /\ FramesExclusive' /\ Mapped' = Mapped /\ p \in Mapped
    BY <1>0, <1>1, <1>4, <1>5, <1>6, SameFrames DEF Mapped
  <1>8. OwnersKnown'
    BY <1>0, <1>1, <1>4, <1>7 DEF OwnersKnown
  <1>9. HandlerInv'
    BY <1>0, <1>1, <1>4, <1>7 DEF HandlerInv
  <1>10. TlbCoherent'
    BY <1>0, <1>1, <1>4, <1>6 DEF TlbCoherent
  <1>11. AccessTracked'
    BY <1>0, <1>1, <1>5, <1>6, <1>7 DEF AccessTracked, Mapped
  <1>12. DirtyTracked'
    BY <1>0, <1>1, <1>4, <1>5, <1>6, <1>7 DEF DirtyTracked, Filling, Mapped
  <1>13. AssertionsHold'
    BY <1>4 DEF AssertionsHold
  <1>14. QED
    BY <1>7, <1>8, <1>9, <1>10, <1>11, <1>12, <1>13

\* A fault on an unmapped page finds a frame that no page has.
LEMMA TakeFrameStep ==
  ASSUME IInv, NEW p \in Page, TakeFrame(p)
  PROVE  /\ NodesIntact' /\ OwnersKnown' /\ HandlerInv'
         /\ TlbCoherent' /\ FramesExclusive' /\ DirtyTracked' /\ AccessTracked' /\ AssertionsHold'
  <1>0. /\ TypeOK /\ NodesIntact /\ OwnersKnown /\ HandlerInv
        /\ TlbCoherent /\ FramesExclusive /\ DirtyTracked /\ AccessTracked /\ AssertionsHold
    BY DEF IInv
  <1>1. /\ pc = "user" /\ insn # None /\ insn.op \in {"load", "store"} /\ insn.page = p
        /\ pte[p].valid = 0 /\ page' = p /\ cur' = head
        /\ UNCHANGED <<adBits, insn, loaded, tlb, phys, node>>
    BY DEF TakeFrame, FaultOn, Accessing
  <1> DEFINE K == Cardinality(Mapped)
  <1>2. K \in 0..(NPages - 1) /\ Mapped \subseteq Page /\ IsFiniteSet(Mapped)
    BY MappedBounded
  <1>3. /\ head = FreeNode(K) /\ head \in 1..NPages
        /\ node[head].addr = FrameAt[K]
        /\ node[head].next = IF K = NPages - 1 THEN NULL ELSE FreeNode(K + 1)
    <2>1. head = FreeNode(K)
      BY <1>0, <1>1 DEF FramesExclusive
    <2>2. QED
      BY <1>0, <1>1, <1>2, <2>1 DEF NodesIntact, FreeNode
  <1> DEFINE new == [valid |-> 1, ppn |-> FrameAt[K], a |-> 1, d |-> 1]
  <1>4. /\ pte' = [pte EXCEPT ![p] = new] /\ pc' = "fresh" /\ tohost' = tohost
        /\ head' = node[head].next
    BY <1>3 DEF TakeFrame, Assert, NULL
  <1>5. /\ pte'[p] = new
        /\ \A q \in Page : q # p => pte'[q] = pte[q]
    BY <1>0, <1>4 DEF TypeOK
  <1>6. Mapped' = Mapped \cup {p} /\ p \notin Mapped
    BY <1>1, <1>5 DEF Mapped
  <1>7. Cardinality(Mapped') = K + 1 /\ K + 1 \in 0..(NPages - 1)
    <2>1. Cardinality(Mapped') = K + 1
      BY <1>2, <1>6, FS_AddElement
    <2>2. Mapped' \subseteq Page
      BY <1>2, <1>6
    <2>3. Cardinality(Mapped') <= NPages - 1
      BY <2>2, PageFacts, FS_Subset
    <2>4. QED
      BY <1>2, <2>1, <2>3
  <1>8. \A q \in Mapped : pte'[q] = pte[q] /\ q # p /\ q \in Page
    BY <1>5, <1>6 DEF Mapped
  <1>9. FrameAt[K] > NPages /\ \A i \in (K + 1)..(NPages - 1) : FrameAt[i] # FrameAt[K]
    BY <1>2, FrameAssumption
  <1>10. NodesIntact'
    <2>1. \A q \in Mapped' : pte'[q].ppn > NPages
      BY <1>0, <1>5, <1>6, <1>8, <1>9 DEF NodesIntact
    <2>2. QED
      BY <1>0, <1>1, <2>1 DEF NodesIntact
  <1>11. FramesExclusive'
    <2>1. \A i \in K..(NPages - 1) :
            node[FreeNode(i)].addr = FrameAt[i] /\ \A q \in Mapped : pte[q].ppn # FrameAt[i]
      BY <1>0, <1>1 DEF FramesExclusive
    <2>2. \A q \in Mapped : pte[q].ppn # FrameAt[K]
      BY <1>2, <2>1
    <2>3. \A q, r \in Mapped' : q # r => pte'[q].ppn # pte'[r].ppn
      BY <1>0, <1>5, <1>6, <1>8, <2>2 DEF FramesExclusive
    <2>4. head' = FreeNode(K + 1)
      BY <1>3, <1>4, <1>7
    <2>5. \A i \in (K + 1)..(NPages - 1) :
            node'[FreeNode(i)].addr = FrameAt[i] /\ \A q \in Mapped' : pte'[q].ppn # FrameAt[i]
      BY <1>1, <1>2, <1>5, <1>6, <1>8, <1>9, <2>1
    <2>6. QED
      BY <1>7, <2>3, <2>4, <2>5 DEF FramesExclusive
  <1>12. OwnersKnown'
    BY <1>0, <1>1, <1>4, <1>6 DEF OwnersKnown
  <1>13. HandlerInv'
    BY <1>0, <1>1, <1>3, <1>4, <1>5, <1>6 DEF HandlerInv
  <1>14. TlbCoherent'
    BY <1>0, <1>1, <1>4, <1>5 DEF TlbCoherent
  <1>15. AccessTracked'
    BY <1>0, <1>1, <1>6, <1>8 DEF AccessTracked
  <1>16. DirtyTracked'
    BY <1>0, <1>1, <1>4, <1>5, <1>6, <1>8 DEF DirtyTracked, Filling
  <1>17. AssertionsHold'
    BY <1>4 DEF AssertionsHold
  <1>18. QED
    BY <1>10, <1>11, <1>12, <1>13, <1>14, <1>15, <1>16, <1>17

\* The page being mapped has no owner yet, so recording it asserts nothing false.
LEMMA OwnFrameStep ==
  ASSUME IInv, OwnFrame
  PROVE  /\ NodesIntact' /\ OwnersKnown' /\ HandlerInv'
         /\ TlbCoherent' /\ FramesExclusive' /\ DirtyTracked' /\ AccessTracked' /\ AssertionsHold'
  <1>0. /\ TypeOK /\ NodesIntact /\ OwnersKnown /\ HandlerInv
        /\ TlbCoherent /\ FramesExclusive /\ DirtyTracked /\ AccessTracked /\ AssertionsHold
    BY DEF IInv
  <1>1. /\ pc = "fresh" /\ page \in Mapped /\ page \in Page
        /\ insn # None /\ insn.op \in {"load", "store"} /\ insn.page = page
        /\ cur \in 1..NPages
        /\ UNCHANGED <<adBits, insn, loaded, page, cur, pte, phys, head, tail>>
    BY <1>0 DEF OwnFrame, HandlerInv, Mapped
  <1> DEFINE m == MapNode(page)
  <1>2. node[m].addr = 0
    BY <1>0, <1>1 DEF OwnersKnown
  <1>3. pc' = "copy" /\ tohost' = tohost /\ node' = [node EXCEPT ![m] = node[cur]]
    BY <1>2 DEF OwnFrame, Assert
  <1>4. /\ m \in Node /\ cur \in Node /\ cur # m /\ node'[m] = node[cur]
        /\ \A n \in Node : n # m => node'[n] = node[n]
    BY <1>0, <1>1, <1>3, NodeKinds DEF TypeOK, Node
  <1>5. \A i \in 0..(NPages - 1) : node'[FreeNode(i)] = node[FreeNode(i)]
    BY <1>1, <1>4, NodeKinds DEF FreeNode
  <1>6. NodesIntact' /\ FramesExclusive' /\ Mapped' = Mapped
    BY <1>0, <1>1, <1>5, SameFrames
  <1>7. node[cur].addr > NPages
    <2>1. pte[page].ppn = node[cur].addr
      BY <1>0, <1>1 DEF HandlerInv
    <2>2. QED
      BY <1>0, <1>1, <2>1 DEF NodesIntact
  <1>8. OwnersKnown'
    <2>1. ASSUME NEW q \in Page PROVE node'[MapNode(q)].addr # 0 <=> q \in Mapped
      <3>1. CASE q = page
        BY <1>1, <1>4, <1>7, <3>1
      <3>2. CASE q # page
        BY <1>0, <1>1, <1>4, <3>2, NodeKinds DEF OwnersKnown
      <3>3. QED
        BY <3>1, <3>2
    <2>2. QED
      BY <1>3, <1>6, <2>1 DEF OwnersKnown
  <1>9. HandlerInv'
    BY <1>0, <1>1, <1>3, <1>4, <1>6 DEF HandlerInv
  <1>10. TlbCoherent'
    BY <1>0, <1>1, <1>3 DEF OwnFrame, TlbCoherent, TypeOK
  <1>11. DirtyTracked'
    BY <1>0, <1>1, <1>3, <1>6 DEF DirtyTracked, Filling
  <1>12. AccessTracked' /\ AssertionsHold'
    BY <1>0, <1>1, <1>3, <1>6 DEF AccessTracked, AssertionsHold
  <1>13. QED
    BY <1>6, <1>8, <1>9, <1>10, <1>11, <1>12

\* The copy goes to the page's own frame and makes it equal to the image.
LEMMA CopyInStep ==
  ASSUME IInv, CopyIn
  PROVE  /\ NodesIntact' /\ OwnersKnown' /\ HandlerInv'
         /\ TlbCoherent' /\ FramesExclusive' /\ DirtyTracked' /\ AccessTracked' /\ AssertionsHold'
  <1>0. /\ TypeOK /\ NodesIntact /\ OwnersKnown /\ HandlerInv
        /\ TlbCoherent /\ FramesExclusive /\ DirtyTracked /\ AccessTracked /\ AssertionsHold
    BY DEF IInv
  <1>1. /\ pc = "copy" /\ pc' = "seal" /\ page \in Mapped /\ page \in Page
        /\ UNCHANGED <<adBits, insn, loaded, page, cur, pte, node, head, tail, tohost>>
    BY <1>0 DEF CopyIn, HandlerInv, Mapped, list
  <1>2. Entry(page) = pte[page]
    BY <1>0, <1>1, EntryIsPte
  <1>3. /\ phys' = [phys EXCEPT ![pte[page].ppn] = phys[page]]
        /\ tlb' = [tlb EXCEPT ![page] = pte[page]]
    BY <1>2 DEF CopyIn
  <1>4. /\ pte[page].ppn \in 0..(2 * NPages) /\ pte[page].ppn > NPages
        /\ phys'[pte[page].ppn] = phys[page]
        /\ \A q \in 0..(2 * NPages) : q # pte[page].ppn => phys'[q] = phys[q]
    BY <1>0, <1>1, <1>3 DEF TypeOK, Pte, NodesIntact
  <1>5. \A q \in Page : phys'[q] = phys[q]
    BY <1>4 DEF Page
  <1>6. NodesIntact' /\ FramesExclusive' /\ Mapped' = Mapped
    BY <1>0, <1>1, SameFrames
  <1>7. OwnersKnown'
    BY <1>0, <1>1, <1>6 DEF OwnersKnown
  <1>8. HandlerInv'
    BY <1>0, <1>1, <1>4, <1>5, <1>6 DEF HandlerInv
  <1>9. TlbCoherent'
    BY <1>0, <1>1, <1>3 DEF TlbCoherent, TypeOK
  <1>10. DirtyTracked'
    <2>1. ASSUME NEW q \in Mapped, pte[q].d = 0 PROVE phys'[pte[q].ppn] = phys'[q]
      <3>1. q \in Page /\ pte[q].ppn \in 0..(2 * NPages)
        BY <1>0 DEF Mapped, TypeOK, Pte
      <3>2. CASE q = page
        BY <1>4, <1>5, <3>1, <3>2
      <3>3. CASE q # page
        <4>1. pte[q].ppn # pte[page].ppn
          BY <1>0, <1>1, <3>3 DEF FramesExclusive
        <4>2. phys[pte[q].ppn] = phys[q]
          BY <1>0, <1>1, <2>1, <3>3 DEF DirtyTracked, Filling
        <4>3. QED
          BY <1>4, <1>5, <3>1, <4>1, <4>2
      <3>4. QED
        BY <3>2, <3>3
    <2>2. QED
      BY <1>1, <1>6, <2>1 DEF DirtyTracked
  <1>11. AccessTracked' /\ AssertionsHold'
    BY <1>0, <1>1, <1>6 DEF AccessTracked, AssertionsHold
  <1>12. QED
    BY <1>6, <1>7, <1>8, <1>9, <1>10, <1>11

\* Clearing A and D is right, for the page then equals its image.
LEMMA ClearBitsStep ==
  ASSUME IInv, ClearBits
  PROVE  /\ NodesIntact' /\ OwnersKnown' /\ HandlerInv'
         /\ TlbCoherent' /\ FramesExclusive' /\ DirtyTracked' /\ AccessTracked' /\ AssertionsHold'
  <1>0. /\ TypeOK /\ NodesIntact /\ OwnersKnown /\ HandlerInv
        /\ TlbCoherent /\ FramesExclusive /\ DirtyTracked /\ AccessTracked /\ AssertionsHold
    BY DEF IInv
  <1>1. /\ pc = "seal" /\ pc' = "flush" /\ page \in Mapped /\ page \in Page
        /\ insn # None /\ insn.op \in {"load", "store"} /\ insn.page = page
        /\ phys[pte[page].ppn] = phys[page]
        /\ UNCHANGED <<adBits, insn, loaded, page, cur, tlb, phys, node, head, tail, tohost>>
    BY <1>0 DEF ClearBits, HandlerInv, Mapped, list
  <1>2. pte[page].valid = 1 /\ pte[page].ppn = node[cur].addr
    BY <1>0, <1>1 DEF HandlerInv
  <1>3. /\ pte'[page] = [valid |-> 1, ppn |-> pte[page].ppn, a |-> 0, d |-> 0]
        /\ \A q \in Page : q # page => pte'[q] = pte[q]
    BY <1>0, <1>1, <1>2 DEF ClearBits, TypeOK
  <1>4. NodesIntact' /\ FramesExclusive' /\ Mapped' = Mapped
    BY <1>0, <1>1, <1>2, <1>3, SameFrames
  <1>5. OwnersKnown'
    BY <1>0, <1>1, <1>4 DEF OwnersKnown
  <1>6. HandlerInv'
    BY <1>0, <1>1, <1>4 DEF HandlerInv
  <1>7. TlbCoherent'
    BY <1>0, <1>1, <1>3 DEF TlbCoherent
  <1>8. DirtyTracked'
    BY <1>0, <1>1, <1>3, <1>4 DEF DirtyTracked, Filling, Mapped
  <1>9. AccessTracked' /\ AssertionsHold'
    BY <1>0, <1>1, <1>3, <1>4 DEF AccessTracked, AssertionsHold, Mapped
  <1>10. QED
    BY <1>4, <1>5, <1>6, <1>7, <1>8, <1>9

\* The steps that write neither the page table nor memory nor the list.
LEMMA QuietSteps ==
  ASSUME IInv,
         \/ Issue \/ OutOfRange \/ FlushReturn \/ Ecall \/ Exit \/ IllegalInsn
         \/ \E p \in Page : Speculate(p) \/ Drop(p)
  PROVE  /\ NodesIntact' /\ OwnersKnown' /\ HandlerInv'
         /\ TlbCoherent' /\ FramesExclusive' /\ DirtyTracked' /\ AccessTracked' /\ AssertionsHold'
  <1>0. /\ TypeOK /\ NodesIntact /\ OwnersKnown /\ HandlerInv
        /\ TlbCoherent /\ FramesExclusive /\ DirtyTracked /\ AccessTracked /\ AssertionsHold
    BY DEF IInv
  <1>1. UNCHANGED <<pte, phys, node, head>>
    BY DEF Issue, OutOfRange, FlushReturn, Ecall, Exit, IllegalInsn, Speculate, Drop, list
  <1>2. NodesIntact' /\ FramesExclusive' /\ Mapped' = Mapped
    <2>1. pc \in {"evict", "halt"} => pc' \in {"evict", "halt"}
      BY DEF Issue, OutOfRange, Accessing, FlushReturn, Ecall, Exit, IllegalInsn, Speculate, Drop
    <2>2. QED
      BY <1>0, <1>1, <2>1, SameFrames
  <1> USE <1>0, <1>1, <1>2
  <1>3. CASE Issue
    BY <1>3 DEF Issue, OwnersKnown, HandlerInv, TlbCoherent, DirtyTracked, Filling,
       AccessTracked, AssertionsHold
  <1>4. CASE OutOfRange
    <2>1. pc' = "halt" /\ tohost' = 3 /\ pc = "user" /\ insn # None /\ insn.page \notin Page
          /\ UNCHANGED <<insn, page, tlb, cur>>
      BY <1>4 DEF OutOfRange, Assert, Accessing
    <2>2. QED
      BY <2>1 DEF OwnersKnown, HandlerInv, TlbCoherent, DirtyTracked, AccessTracked, AssertionsHold
  <1>5. CASE FlushReturn
    <2>1. TlbCoherent'
      BY <1>5 DEF FlushReturn, TlbCoherent, TypeOK
    <2>2. QED
      BY <1>5, <2>1 DEF FlushReturn, OwnersKnown, HandlerInv, DirtyTracked, Filling,
         AccessTracked, AssertionsHold
  <1>6. CASE Ecall
    <2>1. OwnersKnown'
      BY <1>6, PageFacts DEF Ecall, OwnersKnown, Page
    <2>2. QED
      BY <1>6, <2>1 DEF Ecall, HandlerInv, TlbCoherent, DirtyTracked, Filling,
         AccessTracked, AssertionsHold
  <1>7. CASE Exit
    BY <1>7 DEF Exit, OwnersKnown, HandlerInv, TlbCoherent, DirtyTracked, AccessTracked, AssertionsHold
  <1>8. CASE IllegalInsn
    BY <1>8 DEF IllegalInsn, OwnersKnown, HandlerInv, TlbCoherent, DirtyTracked,
       AccessTracked, AssertionsHold
  <1>9. ASSUME NEW p \in Page, Speculate(p) \/ Drop(p) PROVE TlbCoherent'
    BY <1>9 DEF Speculate, Drop, TlbCoherent, TypeOK
  <1>10. ASSUME NEW p \in Page, Speculate(p) \/ Drop(p)
         PROVE  OwnersKnown' /\ HandlerInv' /\ DirtyTracked' /\ AccessTracked' /\ AssertionsHold'
    BY <1>10 DEF Speculate, Drop, OwnersKnown, HandlerInv, DirtyTracked, Filling,
       AccessTracked, AssertionsHold
  <1>11. QED
    BY <1>3, <1>4, <1>5, <1>6, <1>7, <1>8, <1>9, <1>10

\* The bookkeeping agrees with memory, so neither assertion of evict fails.
LEMMA EvictStep ==
  ASSUME IInv, Evict
  PROVE  /\ NodesIntact' /\ OwnersKnown' /\ HandlerInv'
         /\ TlbCoherent' /\ FramesExclusive' /\ DirtyTracked' /\ AccessTracked' /\ AssertionsHold'
         /\ UNCHANGED tohost
  <1>0. /\ TypeOK /\ NodesIntact /\ OwnersKnown /\ HandlerInv
        /\ TlbCoherent /\ FramesExclusive /\ DirtyTracked /\ AccessTracked /\ AssertionsHold
    BY DEF IInv
  <1>1. /\ pc = "evict" /\ insn # None /\ insn.op = "ecall" /\ page \in Page
        /\ UNCHANGED <<adBits, insn, loaded, cur, pte, tlb>>
    BY <1>0 DEF Evict, HandlerInv, TypeOK, Page
  <1> DEFINE m == MapNode(page)
             mapped == node[m].addr # 0
  <1>2. Entry(page) = pte[page]
    BY <1>0, <1>1, EntryIsPte
  <1>3. mapped <=> page \in Mapped
    BY <1>0, <1>1, PageFacts DEF OwnersKnown
  <1>4. mapped => pte[page].a = 1
    BY <1>0, <1>1, <1>3 DEF AccessTracked
  <1>5. mapped /\ phys[pte[page].ppn] # phys[page] => pte[page].d = 1
    <2>1. mapped /\ pte[page].d = 0 => phys[pte[page].ppn] = phys[page]
      BY <1>0, <1>1, <1>3 DEF DirtyTracked, Filling
    <2>2. pte[page].d \in {0, 1}
      BY <1>0, <1>1 DEF TypeOK, Pte
    <2>3. QED
      BY <2>1, <2>2
  <1>6. pc' = "evict" /\ tohost' = tohost /\ page' = page + 1
    BY <1>2, <1>4, <1>5 DEF Evict, Assert
  <1>7. Mapped' = Mapped /\ Mapped \subseteq Page
    BY <1>1 DEF Mapped
  <1>8. /\ m \in Node
        /\ \A q \in Page : q # page => MapNode(q) \in Node /\ MapNode(q) # m
    BY <1>1, NodeKinds
  <1>9. \A q \in Page : q # page => node'[MapNode(q)].addr = node[MapNode(q)].addr
    BY <1>0, <1>8 DEF Evict, list, TypeOK
  <1>10. OwnersKnown'
    <2>1. ASSUME NEW q \in Page, q > page
          PROVE  node'[MapNode(q)].addr # 0 <=> q \in Mapped
      BY <1>0, <1>1, <1>9, <2>1, PageFacts DEF OwnersKnown
    <2>2. \A q \in Page : ~(q < page') <=> q > page
      BY <1>1, <1>6, PageFacts
    <2>3. QED
      BY <1>6, <1>7, <2>1, <2>2 DEF OwnersKnown
  <1>11. NodesIntact' /\ FramesExclusive'
    BY <1>0, <1>1, <1>6, <1>7 DEF NodesIntact, FramesExclusive
  <1>12. HandlerInv'
    BY <1>0, <1>1, <1>6, PageFacts DEF HandlerInv
  <1>13. TlbCoherent' /\ AccessTracked' /\ AssertionsHold'
    BY <1>0, <1>1, <1>6, <1>7 DEF TlbCoherent, AccessTracked, AssertionsHold
  <1>14. DirtyTracked'
    <2>1. ASSUME NEW q \in Mapped, pte[q].d = 0 PROVE phys'[pte[q].ppn] = phys'[q]
      <3>1. /\ q \in Page /\ q \in 0..(2 * NPages) /\ q < NPages
            /\ pte[q].ppn \in 0..(2 * NPages)
        BY <1>0, <1>7 DEF TypeOK, Pte, Page
      <3>2. phys[pte[q].ppn] = phys[q]
        BY <1>0, <1>1, <2>1 DEF DirtyTracked, Filling
      <3>3. CASE ~mapped
        BY <1>2, <3>2, <3>3 DEF Evict, list
      <3>4. CASE mapped
        <4>1. phys' = [phys EXCEPT ![pte[page].ppn] = phys[page]]
          BY <1>2, <1>4, <1>5, <3>4 DEF Evict
        <4>2. pte[page].ppn # q
          <5>1. pte[page].ppn > NPages
            BY <1>0, <1>3, <3>4 DEF NodesIntact
          <5>2. QED
            BY <3>1, <5>1
        <4>3. q = page \/ pte[q].ppn # pte[page].ppn
          BY <1>0, <1>3, <3>4 DEF FramesExclusive
        <4>4. QED
          BY <1>0, <3>1, <3>2, <4>1, <4>2, <4>3 DEF TypeOK
      <3>5. QED
        BY <3>3, <3>4
    <2>2. QED
      BY <1>1, <1>7, <2>1 DEF DirtyTracked
  <1>15. QED
    BY <1>6, <1>10, <1>11, <1>12, <1>13, <1>14

\* Every step preserves the inductive invariant.
LEMMA NextIInv == IInv /\ [Next]_vars => IInv'
  <1> SUFFICES ASSUME IInv, [Next]_vars PROVE IInv'
    OBVIOUS
  <1>0. TypeOK'
    BY TypeNext
  <1>1. ASSUME UNCHANGED vars PROVE IInv'
    BY <1>0, <1>1 DEF vars, IInv, NodesIntact, OwnersKnown, HandlerInv, TlbCoherent,
       FramesExclusive, DirtyTracked, Filling, AccessTracked, AssertionsHold, Mapped
  <1>2. ASSUME NEW p \in Page, Load(p) \/ Store(p) PROVE IInv'
    BY <1>0, <1>2, AccessSteps DEF IInv
  <1>3. ASSUME NEW p \in Page, MarkBits(p) PROVE IInv'
    BY <1>0, <1>3, MarkBitsStep DEF IInv
  <1>4. ASSUME NEW p \in Page, TakeFrame(p) PROVE IInv'
    BY <1>0, <1>4, TakeFrameStep DEF IInv
  <1>5. CASE OwnFrame
    BY <1>0, <1>5, OwnFrameStep DEF IInv
  <1>6. CASE CopyIn
    BY <1>0, <1>6, CopyInStep DEF IInv
  <1>7. CASE ClearBits
    BY <1>0, <1>7, ClearBitsStep DEF IInv
  <1>8. CASE Evict
    BY <1>0, <1>8, EvictStep DEF IInv
  <1>9. ASSUME \/ Issue \/ OutOfRange \/ FlushReturn \/ Ecall \/ Exit \/ IllegalInsn
               \/ \E p \in Page : Speculate(p) \/ Drop(p)
        PROVE  IInv'
    BY <1>0, <1>9, QuietSteps DEF IInv
  <1>10. QED
    BY <1>1, <1>2, <1>3, <1>4, <1>5, <1>6, <1>7, <1>8, <1>9 DEF Next, Hart

\* For any number of pages: the page tables, the list of frames, the TLB and
\* memory agree in every reachable state.
THEOREM PagingInvariant == Spec => []IInv
  <1>1. QED
    BY InitIInv, NextIInv, PTL DEF Spec

\* However the TLB caches and forgets, a translation in it is the page table's,
\* but for the page whose PTE the handler has written and not flushed yet.
THEOREM TlbStaysCoherent == Spec => []TlbCoherent
  <1>1. IInv => TlbCoherent
    BY DEF IInv
  <1>2. QED
    BY <1>1, PagingInvariant, PTL

\* While the test runs a page that differs from its image is marked dirty, but for
\* one being filled, whichever way the hardware manages the bit.
THEOREM DirtyPagesTracked == Spec => []DirtyTracked
  <1>1. IInv => DirtyTracked
    BY DEF IInv
  <1>2. QED
    BY <1>1, PagingInvariant, PTL

\* No two pages share a frame and no free frame is mapped.
THEOREM FramesStayExclusive == Spec => []FramesExclusive
  <1>1. IInv => FramesExclusive
    BY DEF IInv
  <1>2. QED
    BY <1>1, PagingInvariant, PTL

\* No assertion of vm.c fails, so a test that stays within its pages ends with
\* its own code.
THEOREM NoAssertionFails == Spec => []AssertionsHold
  <1>1. IInv => AssertionsHold
    BY DEF IInv
  <1>2. QED
    BY <1>1, PagingInvariant, PTL

LEMMA InitRefines == Init => Flat!Init
  <1> SUFFICES ASSUME Init PROVE Flat!Init
    OBVIOUS
  <1>1. \A p \in Page : pte[p].valid = 0 /\ phys[p] = p
    BY DEF Init, Unmapped, Image, Page
  <1>2. UserMem = Image
    BY <1>1 DEF UserMem, Image
  <1>3. QED
    BY <1>2 DEF Init, Flat!Init

\* The memory the test sees stays the same as long as no page's translation and
\* no page's contents change.
LEMMA SameMem ==
  ASSUME \A p \in Page :
           (pte'[p].valid = 1 /\ ~Filling(p)') <=> (pte[p].valid = 1 /\ ~Filling(p)),
         \A p \in Page : phys'[p] = phys[p],
         \A p \in Mapped : ~Filling(p) => phys'[pte'[p].ppn] = phys[pte[p].ppn]
  PROVE  UserMem' = UserMem
  <1>1. \A p \in Page :
          (IF pte'[p].valid = 1 /\ ~Filling(p)' THEN phys'[pte'[p].ppn] ELSE phys'[p]) =
          (IF pte[p].valid = 1 /\ ~Filling(p) THEN phys[pte[p].ppn] ELSE phys[p])
    BY DEF Mapped
  <1>2. QED
    BY <1>1 DEF UserMem

\* A load reads what the test sees, a store changes that and nothing else.
LEMMA AccessRefines ==
  ASSUME IInv, NEW p \in Page, Load(p) \/ Store(p)
  PROVE  Flat!Load \/ Flat!Store
  <1>0. TypeOK /\ TlbCoherent /\ FramesExclusive /\ NodesIntact
    BY DEF IInv
  <1>1. /\ pc = "user" /\ pc' = "user" /\ insn # None /\ insn' = None /\ insn.page = p
        /\ UNCHANGED <<page, tohost>>
    BY DEF Load, Store, Accessing
  <1>2. Entry(p) = pte[p] /\ pte[p] \in Pte
    BY <1>0, <1>1, EntryIsPte
  <1>3. p \in Mapped /\ pte[p].valid = 1
    BY <1>2 DEF Load, Store, Permits, Mapped
  <1>4. \A q \in Page : pte'[q].valid = pte[q].valid /\ pte'[q].ppn = pte[q].ppn
    <2>1. ASSUME NEW op \in {"load", "store"}
          PROVE  Touched(pte[p], op).valid = pte[p].valid /\ Touched(pte[p], op).ppn = pte[p].ppn
      BY <1>2 DEF Touched, Pte
    <2>2. pte' = pte \/ \E op \in {"load", "store"} : pte' = [pte EXCEPT ![p] = Touched(pte[p], op)]
      BY DEF Load, Store
    <2>3. QED
      BY <1>0, <2>1, <2>2 DEF TypeOK
  <1>5. /\ UserMem = [q \in Page |-> IF pte[q].valid = 1 THEN phys[pte[q].ppn] ELSE phys[q]]
        /\ UserMem' = [q \in Page |-> IF pte[q].valid = 1 THEN phys'[pte[q].ppn] ELSE phys'[q]]
    BY <1>1, <1>4 DEF UserMem, Filling
  <1>6. CASE Load(p)
    <2>1. UserMem' = UserMem
      BY <1>5, <1>6 DEF Load
    <2>2. loaded' = UserMem[p]
      BY <1>2, <1>3, <1>5, <1>6 DEF Load
    <2>3. QED
      BY <1>1, <1>6, <2>1, <2>2 DEF Load, Accessing, Flat!Load
  <1>7. CASE Store(p)
    <2>1. phys' = [phys EXCEPT ![pte[p].ppn] = insn.val] /\ pte[p].ppn \in 0..(2 * NPages)
      BY <1>2, <1>7 DEF Store, Pte
    <2>2. ASSUME NEW q \in Page
          PROVE  UserMem'[q] = IF q = p THEN insn.val ELSE UserMem[q]
      <3>1. pte[p].ppn > NPages
        BY <1>0, <1>3 DEF NodesIntact
      <3>2. q \in 0..(2 * NPages) /\ q < NPages /\ pte[q].ppn \in 0..(2 * NPages)
        BY <1>0 DEF TypeOK, Pte, Page
      <3>3. phys'[q] = phys[q]
        BY <1>0, <2>1, <3>1, <3>2 DEF TypeOK
      <3>4. CASE q = p
        BY <1>0, <1>3, <1>5, <2>1, <3>4 DEF TypeOK
      <3>5. CASE q # p
        <4>1. pte[q].valid = 1 => pte[q].ppn # pte[p].ppn
          BY <1>0, <1>3, <3>5 DEF FramesExclusive, Mapped
        <4>2. QED
          BY <1>0, <1>5, <2>1, <3>2, <3>3, <3>5, <4>1 DEF TypeOK
      <3>6. QED
        BY <3>4, <3>5
    <2>3. UserMem' = [UserMem EXCEPT ![p] = insn.val]
      BY <1>5, <2>2
    <2>4. QED
      BY <1>1, <1>7, <2>3 DEF Store, Accessing, Flat!Store
  <1>8. QED
    BY <1>6, <1>7

\* What the handler does to a fault is not seen by the test.
LEMMA HandlerHidden ==
  ASSUME IInv,
         \/ OwnFrame \/ CopyIn \/ ClearBits
         \/ \E p \in Page : MarkBits(p) \/ TakeFrame(p)
  PROVE  UNCHANGED Flat!fvars
  <1>0. /\ TypeOK /\ NodesIntact /\ OwnersKnown /\ HandlerInv
        /\ TlbCoherent /\ FramesExclusive
    BY DEF IInv
  <1>1. UNCHANGED <<insn, loaded>>
    BY DEF OwnFrame, CopyIn, ClearBits, MarkBits, TakeFrame
  <1>2. CASE OwnFrame
    <2>1. pc' = "copy" /\ tohost' = tohost
      BY <1>0, <1>2 DEF OwnFrame, Assert, OwnersKnown, HandlerInv, Mapped
    <2>2. UserMem' = UserMem
      BY <1>2, <2>1, SameMem DEF OwnFrame, Filling
    <2>3. QED
      BY <1>1, <2>1, <2>2 DEF Flat!fvars
  <1>3. CASE ClearBits
    <2>1. /\ pc = "seal" /\ pc' = "flush" /\ page \in Page /\ pte[page].valid = 1
          /\ pte[page].ppn = node[cur].addr
          /\ UNCHANGED <<page, phys, tohost>>
      BY <1>0, <1>3 DEF ClearBits, HandlerInv, Mapped
    <2>2. \A q \in Page : pte'[q].valid = pte[q].valid /\ pte'[q].ppn = pte[q].ppn
      BY <1>0, <1>3, <2>1 DEF ClearBits, TypeOK
    <2>3. UserMem' = UserMem
      BY <2>1, <2>2, SameMem DEF Filling, Mapped
    <2>4. QED
      BY <1>1, <2>1, <2>3 DEF Flat!fvars
  <1>4. CASE CopyIn
    <2>1. /\ pc = "copy" /\ pc' = "seal" /\ page \in Mapped /\ page \in Page
          /\ UNCHANGED <<page, pte, tohost>>
      BY <1>0, <1>4 DEF CopyIn, HandlerInv, Mapped
    <2>2. phys' = [phys EXCEPT ![pte[page].ppn] = phys[page]]
      BY <1>0, <1>4, <2>1, EntryIsPte DEF CopyIn
    <2>3. pte[page].ppn \in 0..(2 * NPages) /\ pte[page].ppn > NPages
      BY <1>0, <2>1 DEF TypeOK, Pte, NodesIntact
    <2>4. ASSUME NEW q \in Page PROVE UserMem'[q] = UserMem[q]
      <3>1. q \in 0..(2 * NPages) /\ q < NPages /\ pte[q].ppn \in 0..(2 * NPages)
        BY <1>0 DEF TypeOK, Pte, Page
      <3>2. phys'[q] = phys[q]
        BY <1>0, <2>2, <2>3, <3>1 DEF TypeOK
      <3>3. q # page /\ pte[q].valid = 1 => pte[q].ppn # pte[page].ppn
        BY <1>0, <2>1 DEF FramesExclusive, Mapped
      <3>4. CASE q = page
        BY <1>0, <2>1, <2>2, <2>3, <3>2, <3>4 DEF UserMem, Filling, TypeOK, Mapped
      <3>5. CASE q # page
        BY <1>0, <2>1, <2>2, <3>1, <3>2, <3>3, <3>5 DEF UserMem, Filling, TypeOK
      <3>6. QED
        BY <3>4, <3>5
    <2>5. UserMem' = UserMem
      BY <2>4 DEF UserMem
    <2>6. QED
      BY <1>1, <2>1, <2>5 DEF Flat!fvars
  <1>5. ASSUME NEW p \in Page, MarkBits(p) PROVE UNCHANGED Flat!fvars
    <2>1. pc = "user" /\ Entry(p) = pte[p] /\ pte[p] \in Pte /\ phys' = phys
      BY <1>0, <1>5, EntryIsPte DEF MarkBits, FaultOn, Accessing
    <2>2. pc' = "flush" /\ tohost' = tohost
      BY <1>5, <2>1 DEF MarkBits, FaultOn, Permits, Assert, Pte, Accessing
    <2>3. \A q \in Page : pte'[q].valid = pte[q].valid /\ pte'[q].ppn = pte[q].ppn
      BY <1>0, <1>5, <2>1 DEF MarkBits, TypeOK, Pte
    <2>4. UserMem' = UserMem
      BY <2>1, <2>2, <2>3, SameMem DEF Filling, Mapped
    <2>5. QED
      BY <1>1, <2>2, <2>4 DEF Flat!fvars
  <1>6. ASSUME NEW p \in Page, TakeFrame(p) PROVE UNCHANGED Flat!fvars
    <2>1. pc = "user" /\ head # NULL
      BY <1>0, <1>6, MappedBounded DEF TakeFrame, FaultOn, Accessing, FramesExclusive, FreeNode, NULL
    <2>2. /\ pc' = "fresh" /\ page' = p /\ UNCHANGED <<phys, tohost>> /\ pte[p].valid = 0
          /\ \A q \in Page : q # p => pte'[q] = pte[q]
      BY <1>0, <1>6, <2>1 DEF TakeFrame, Assert, TypeOK
    <2>3. UserMem' = UserMem
      BY <2>1, <2>2, SameMem DEF Filling, Mapped
    <2>4. QED
      BY <1>1, <2>2, <2>3 DEF Flat!fvars
  <1>7. QED
    BY <1>2, <1>3, <1>4, <1>5, <1>6

\* Every step is a step of FlatMemory or a stutter.
LEMMA NextRefines == IInv /\ IInv' /\ [Next]_vars => [Flat!Next]_Flat!fvars
  <1> SUFFICES ASSUME IInv, IInv', [Next]_vars PROVE [Flat!Next]_Flat!fvars
    OBVIOUS
  <1>0. TypeOK /\ HandlerInv /\ TypeOK'
    BY DEF IInv
  <1>1. ASSUME NEW p \in Page, Load(p) \/ Store(p) PROVE Flat!Next
    BY <1>1, AccessRefines DEF Flat!Next
  <1>2. ASSUME \/ OwnFrame \/ CopyIn \/ ClearBits
               \/ \E p \in Page : MarkBits(p) \/ TakeFrame(p)
        PROVE  UNCHANGED Flat!fvars
    BY <1>2, HandlerHidden
  <1>3. CASE Issue
    BY <1>3 DEF Issue, Flat!Next, Flat!Issue, UserMem, Filling
  <1>4. CASE OutOfRange
    <2>1. UserMem' = UserMem
      BY <1>4 DEF OutOfRange, Assert, Accessing, UserMem, Filling
    <2>2. QED
      BY <1>0, <1>4, <2>1 DEF OutOfRange, Assert, Accessing, HandlerInv, Flat!Next, Flat!Fail
  <1>5. CASE FlushReturn \/ Ecall \/ IllegalInsn \/ \E p \in Page : Speculate(p) \/ Drop(p)
    <2>1. /\ UNCHANGED <<pte, phys, insn, loaded, tohost>>
          /\ UNCHANGED page \/ pc' = "evict"
          /\ \A p \in Page : Filling(p)' <=> Filling(p)
      BY <1>5 DEF FlushReturn, Ecall, IllegalInsn, Speculate, Drop, Filling
    <2>2. UserMem' = UserMem
      BY <2>1 DEF UserMem
    <2>3. QED
      BY <2>1, <2>2 DEF Flat!fvars
  <1>6. CASE Evict
    <2>1. insn.op = "ecall" /\ insn # None /\ tohost = None /\ UNCHANGED <<insn, loaded>>
      BY <1>0, <1>6 DEF Evict, HandlerInv
    <2>2. tohost' = tohost
      BY <1>6, EvictStep
    <2>3. UserMem' \in [Page -> Contents]
      BY <1>0 DEF UserMem, TypeOK, Pte, Page
    <2>4. QED
      BY <2>1, <2>2, <2>3 DEF Flat!Next, Flat!Discard
  <1>7. CASE Exit
    <2>1. UserMem' = UserMem
      BY <1>7 DEF Exit, UserMem, Filling
    <2>2. QED
      BY <1>0, <1>7, <2>1 DEF Exit, HandlerInv, Flat!Next, Flat!Exit
  <1>8. CASE UNCHANGED vars
    BY <1>8 DEF vars, UserMem, Filling, Flat!fvars
  <1>9. QED
    BY <1>1, <1>2, <1>3, <1>4, <1>5, <1>6, <1>7, <1>8 DEF Next, Hart

\* For any number of pages and either way of managing A and D, a test program
\* sees flat memory and its exit code reaches the host.
THEOREM PagingImplementsFlatMemory == Spec => Implements
  <1>1. QED
    BY PagingInvariant, InitRefines, NextRefines, PTL DEF Spec, Implements, Flat!Spec
================================================================================
