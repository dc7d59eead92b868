----------------------------- MODULE DemandPaging -----------------------------
(* The demand-paging supervisor of src/src/env/v/vm.c on one hart.             *)
(*                                                                             *)
(* Pages are numbered, addr/PGSIZE.  The user pages are 1..NPages-1 (NPages is *)
(* MAX_TEST_PAGES).  Physical pages are numbered from DRAM_BASE: uva2kva maps  *)
(* user page p to physical page p, where the loaded image is, and vm_boot puts *)
(* physical page FrameAt[i] into freelist_nodes[i].  A page's contents are one *)
(* datum.                                                                      *)
(*                                                                             *)
(* The hardware is part of the model: a TLB that may cache any PTE, an invalid *)
(* one too, at any moment and drop it at any moment, and that may keep a stale *)
(* entry until an sfence.vma; and either of the two ways the privileged        *)
(* architecture manages the accessed and dirty bits (set by the hardware, or a *)
(* page fault).                                                                *)
EXTENDS Naturals, FiniteSets

CONSTANTS
  NPages,      \* MAX_TEST_PAGES
  FrameAt,     \* the physical pages on the free list, in list order
  Insns,       \* the instructions the test program may execute
  None

Page == 1..(NPages - 1)
Node == 1..(2 * NPages - 1)
Image == [p \in Page |-> p]
Junk == 0
Stored == {i.val : i \in {j \in Insns : j.op = "store"}}
Contents == {Junk} \cup (0..NPages) \cup Stored

ASSUME NPagesAssumption == NPages \in Nat \ {0, 1}
ASSUME FrameAssumption ==
  /\ FrameAt \in [0..(NPages - 1) -> (NPages + 1)..(2 * NPages)]
  /\ \A i, j \in 0..(NPages - 1) : i # j => FrameAt[i] # FrameAt[j]
ASSUME InsnAssumption ==
  /\ \A i \in Insns :
       /\ i.op \in {"load", "store", "ecall", "fp"}
       /\ i.page \in Nat
       /\ i.val \in Nat

\* Pointers to freelist_t: NULL, &freelist_nodes[i] and &user_mapping[p].
NULL == 0
FreeNode(i) == i + 1
MapNode(p) == NPages + p

\* A PTE with its bits V, A and D as 0 or 1.
Pte == [valid : {0, 1}, ppn : 0..(2 * NPages), a : {0, 1}, d : {0, 1}]
Unmapped == [valid |-> 0, ppn |-> 0, a |-> 0, d |-> 0]

ASSUME NoneAssumption == None \notin Insns \cup Nat \cup Pte

VARIABLES
  adBits,       \* "hardware" or "fault": who sets PTE_A and PTE_D (fixed)
  pc,           \* what the hart is doing, see PC
  insn,         \* the user instruction being executed, None between two
  loaded,       \* what the last completed load returned
  page,         \* addr/PGSIZE in handle_fault, i in handle_trap's evict loop
  cur,          \* the local variable node of handle_fault
  pte, tlb,     \* user_l3pt, and what the TLB holds of it, None where nothing
  phys,         \* physical memory
  node,         \* freelist_nodes and user_mapping
  head, tail,   \* freelist_head, freelist_tail
  tohost        \* the code terminate() sent to the host, None before

vars == <<adBits, pc, insn, loaded, page, cur, pte, tlb, phys, node, head, tail, tohost>>
list == <<node, head, tail>>

PC == {"user", "fresh", "copy", "seal", "flush", "evict", "halt", "machine"}

\* The types of what vm_boot and the trap handler keep.
TypeOK ==
  /\ adBits \in {"hardware", "fault"}
  /\ pc \in PC
  /\ insn \in Insns \cup {None}
  /\ loaded \in Contents \cup {None}
  /\ page \in 0..NPages
  /\ cur \in Node \cup {NULL}
  /\ pte \in [Page -> Pte]
  /\ tlb \in [Page -> Pte \cup {None}]
  /\ phys \in [0..(2 * NPages) -> Contents]
  /\ node \in [Node -> [addr : 0..(2 * NPages), next : Node \cup {NULL}]]
  /\ head \in Node \cup {NULL}
  /\ tail \in Node \cup {NULL}
  /\ tohost \in Nat \cup {None}

\* vm_boot up to its pop_tf: the free list links every frame, nothing is mapped.
Init ==
  /\ adBits \in {"hardware", "fault"}
  /\ pc = "user" /\ insn = None /\ loaded = None
  /\ page = 0 /\ cur = NULL
  /\ pte = [p \in Page |-> Unmapped]
  /\ tlb = [p \in Page |-> None]
  /\ phys = [q \in 0..(2 * NPages) |-> IF q \in Page THEN Image[q] ELSE Junk]
  /\ node = [n \in Node |->
       IF n \in 1..NPages
       THEN [addr |-> FrameAt[n - 1], next |-> IF n = NPages THEN NULL ELSE n + 1]
       ELSE [addr |-> 0, next |-> NULL]]
  /\ head = FreeNode(0)
  /\ tail = FreeNode(NPages - 1)
  /\ tohost = None

\* The translation the hardware uses for page p, and whether it lets an access
\* through without a fault.
Entry(p) == IF tlb[p] # None THEN tlb[p] ELSE pte[p]

Permits(e, op) ==
  /\ e.valid = 1
  /\ adBits = "fault" => e.a = 1 /\ (op = "store" => e.d = 1)

Touched(e, op) == [e EXCEPT !.a = 1, !.d = IF op = "store" THEN 1 ELSE @]

Accessing == pc = "user" /\ insn # None /\ insn.op \in {"load", "store"}

Terminate(code) ==
  /\ pc' = "halt"
  /\ tohost' = code

\* assert(ok) of vm.c, then on to label: a failed assertion ends in terminate(3).
Assert(ok, label) ==
  /\ pc' = IF ok THEN label ELSE "halt"
  /\ tohost' = IF ok THEN tohost ELSE 3

FaultOn(p) == Accessing /\ insn.page = p /\ ~Permits(Entry(p), insn.op)

--------------------------------------------------------------------------------
\* Deliberately wrong variants, used to show that the properties can fail.
TakeFrame_NotPopped(p) ==
  /\ FaultOn(p) /\ pte[p].valid = 0
  /\ Assert(head # NULL, "fresh")
  /\ page' = p /\ cur' = head
  /\ pte' = [pte EXCEPT ![p] = [valid |-> 1, ppn |-> node[head].addr, a |-> 1, d |-> 1]]
  /\ UNCHANGED <<adBits, insn, loaded, tlb, phys, list>>

TakeFrame_CountFromOne(p) ==
  /\ FaultOn(p) /\ pte[p].valid = 0
  /\ page' = p /\ cur' = head
  /\ head' = node[head].next
  /\ Assert(head' # NULL /\ head' # tail, "fresh")
  /\ tail' = tail
  /\ pte' = [pte EXCEPT ![p] = [valid |-> 1, ppn |-> node[head].addr, a |-> 1, d |-> 1]]
  /\ UNCHANGED <<adBits, insn, loaded, tlb, phys, node>>

FlushReturn_NoFlush ==
  /\ pc = "flush"
  /\ pc' = "user"
  /\ UNCHANGED <<adBits, insn, loaded, page, cur, pte, tlb, phys, list, tohost>>

CopyIn_Forgotten ==
  /\ pc = "copy"
  /\ pc' = "seal"
  /\ UNCHANGED <<adBits, insn, loaded, page, cur, pte, tlb, phys, list, tohost>>

MarkBits_BothLost(p) ==
  /\ FaultOn(p) /\ pte[p].valid = 1
  /\ pc' = "flush" /\ page' = p
  /\ UNCHANGED <<adBits, insn, loaded, cur, pte, tlb, phys, list, tohost>>

OwnFrame_NotRecorded ==
  /\ pc = "fresh"
  /\ tlb' = [tlb EXCEPT ![page] = None]
  /\ Assert(node[MapNode(page)].addr = 0, "copy")
  /\ UNCHANGED <<adBits, insn, loaded, page, cur, pte, phys, list>>

OwnFrame_NoFlush ==
  /\ pc = "fresh"
  /\ LET ok == node[MapNode(page)].addr = 0
     IN  /\ Assert(ok, "copy")
         /\ node' = IF ok THEN [node EXCEPT ![MapNode(page)] = node[cur]] ELSE node
  /\ UNCHANGED <<adBits, insn, loaded, page, cur, pte, tlb, phys, head, tail>>

--------------------------------------------------------------------------------
\* The test program picks its next instruction (code outside the repository).
Issue ==
  /\ pc = "user" /\ insn = None
  /\ insn' \in Insns
  /\ UNCHANGED <<adBits, pc, loaded, page, cur, pte, tlb, phys, list, tohost>>

Load(p) ==
  /\ Accessing /\ insn.op = "load" /\ insn.page = p
  /\ Permits(Entry(p), "load")
  /\ loaded' = phys[Entry(p).ppn]
  /\ tlb' = [tlb EXCEPT ![p] = Touched(Entry(p), "load")]
  /\ pte' = IF adBits = "hardware" THEN [pte EXCEPT ![p] = Touched(@, "load")] ELSE pte
  /\ insn' = None
  /\ UNCHANGED <<adBits, pc, page, cur, phys, list, tohost>>

Store(p) ==
  /\ Accessing /\ insn.op = "store" /\ insn.page = p
  /\ Permits(Entry(p), "store")
  /\ phys' = [phys EXCEPT ![Entry(p).ppn] = insn.val]
  /\ tlb' = [tlb EXCEPT ![p] = Touched(Entry(p), "store")]
  /\ pte' = IF adBits = "hardware" THEN [pte EXCEPT ![p] = Touched(@, "store")] ELSE pte
  /\ insn' = None
  /\ UNCHANGED <<adBits, pc, loaded, page, cur, list, tohost>>

\* handle_fault, first assertion: page 0 and everything past the test's pages.
OutOfRange ==
  /\ Accessing /\ insn.page \notin Page
  /\ Assert(FALSE, pc)
  /\ UNCHANGED <<adBits, insn, loaded, page, cur, pte, tlb, phys, list>>

\* handle_fault on a mapped page: set PTE_A, or else PTE_D for a store.
MarkBits(p) ==
  /\ FaultOn(p) /\ pte[p].valid = 1
  /\ LET first == pte[p].a = 0
         ok == first \/ (pte[p].d = 0 /\ insn.op = "store")
     IN  /\ Assert(ok, "flush")
         /\ pte' = IF ok THEN [pte EXCEPT ![p].a = 1, ![p].d = IF first THEN @ ELSE 1] ELSE pte
  /\ page' = p
  /\ UNCHANGED <<adBits, insn, loaded, cur, tlb, phys, list>>

\* handle_fault on an unmapped page: pop a frame and map it, with A and D set so
\* that the supervisor's own copy below does not fault.
TakeFrame(p) ==
  /\ FaultOn(p) /\ pte[p].valid = 0
  /\ Assert(head # NULL, "fresh")
  /\ page' = p /\ cur' = head
  /\ IF head = NULL
     THEN UNCHANGED <<head, tail, pte>>
     ELSE /\ head' = node[head].next
          /\ tail' = IF head' = tail THEN NULL ELSE tail
          /\ pte' = [pte EXCEPT ![p] =
               [valid |-> 1, ppn |-> node[head].addr, a |-> 1, d |-> 1]]
  /\ UNCHANGED <<adBits, insn, loaded, tlb, phys, node>>

\* flush_page, and user_mapping[page] = *node once it is known to be free.
OwnFrame ==
  /\ pc = "fresh"
  /\ tlb' = [tlb EXCEPT ![page] = None]
  /\ LET ok == node[MapNode(page)].addr = 0
     IN  /\ Assert(ok, "copy")
         /\ node' = IF ok THEN [node EXCEPT ![MapNode(page)] = node[cur]] ELSE node
  /\ UNCHANGED <<adBits, insn, loaded, page, cur, pte, phys, head, tail>>

\* memcpy from the image to the user page, written through its translation (a
\* translation without A and D would be a fault inside the trap handler).
CopyIn ==
  /\ pc = "copy"
  /\ LET e == Entry(page)
     IN  /\ e.valid = 1 /\ e.a = 1 /\ e.d = 1
         /\ phys' = [phys EXCEPT ![e.ppn] = phys[page]]
         /\ tlb' = [tlb EXCEPT ![page] = e]
  /\ pc' = "seal"
  /\ UNCHANGED <<adBits, insn, loaded, page, cur, pte, list, tohost>>

\* user_l3pt[page] = new_pte, without A and D.
ClearBits ==
  /\ pc = "seal"
  /\ pte' = [pte EXCEPT ![page] =
       [valid |-> 1, ppn |-> node[cur].addr, a |-> 0, d |-> 0]]
  /\ pc' = "flush"
  /\ UNCHANGED <<adBits, insn, loaded, page, cur, tlb, phys, list, tohost>>

\* The flush_page that ends both ways through handle_fault, then pop_tf: the
\* instruction that faulted is executed again.
FlushReturn ==
  /\ pc = "flush"
  /\ tlb' = [tlb EXCEPT ![page] = None]
  /\ pc' = "user"
  /\ UNCHANGED <<adBits, insn, loaded, page, cur, pte, phys, list, tohost>>

\* handle_trap on CAUSE_USER_ECALL: evict every page, then terminate(n).
Ecall ==
  /\ pc = "user" /\ insn # None /\ insn.op = "ecall"
  /\ pc' = "evict" /\ page' = 1
  /\ UNCHANGED <<adBits, insn, loaded, cur, pte, tlb, phys, list, tohost>>

\* evict(page*PGSIZE): check A and D, copy the image back over the page where it
\* differs, put &user_mapping[page] on the free list (with the address just set
\* to 0 and the next pointer it was copied with).
Evict ==
  /\ pc = "evict" /\ page < NPages
  /\ LET e == Entry(page)
         m == MapNode(page)
         mapped == node[m].addr # 0
         ok == mapped => pte[page].a = 1 /\ (phys[e.ppn] # phys[page] => pte[page].d = 1)
     IN  /\ Assert(ok, "evict")
         /\ page' = IF ok THEN page + 1 ELSE page
         /\ IF mapped /\ ok
            THEN /\ phys' = [phys EXCEPT ![e.ppn] = phys[page]]
                 /\ node' = [n \in Node |->
                      [addr |-> IF n = m THEN 0 ELSE node[n].addr,
                       next |-> IF n = tail THEN m ELSE node[n].next]]
                 /\ head' = IF tail = NULL THEN m ELSE head
                 /\ tail' = m
            ELSE UNCHANGED <<phys, list>>
  /\ UNCHANGED <<adBits, insn, loaded, cur, pte, tlb>>

Exit ==
  /\ pc = "evict" /\ page = NPages
  /\ pc' = "halt" /\ tohost' = insn.val
  /\ UNCHANGED <<adBits, insn, loaded, page, cur, pte, tlb, phys, list>>

\* An FP instruction without an FPU: CAUSE_ILLEGAL_INSTRUCTION is not among the
\* causes vm_boot delegates in medeleg, so the trap is taken in M-mode, at the
\* mtvec vm_boot left behind: the label after its PMP setup, inside vm_boot.
IllegalInsn ==
  /\ pc = "user" /\ insn # None /\ insn.op = "fp"
  /\ pc' = "machine"
  /\ UNCHANGED <<adBits, insn, loaded, page, cur, pte, tlb, phys, list, tohost>>

\* The hardware walks the page table ahead of time, or drops a TLB entry.
Speculate(p) ==
  /\ pc \notin {"halt", "machine"}
  /\ tlb[p] = None
  /\ tlb' = [tlb EXCEPT ![p] = pte[p]]
  /\ UNCHANGED <<adBits, pc, insn, loaded, page, cur, pte, phys, list, tohost>>

Drop(p) ==
  /\ pc \notin {"halt", "machine"}
  /\ tlb[p] # None
  /\ tlb' = [tlb EXCEPT ![p] = None]
  /\ UNCHANGED <<adBits, pc, insn, loaded, page, cur, pte, phys, list, tohost>>

Hart ==
  \/ OutOfRange \/ OwnFrame \/ CopyIn \/ ClearBits \/ FlushReturn
  \/ Ecall \/ Evict \/ Exit \/ IllegalInsn
  \/ \E p \in Page : Load(p) \/ Store(p) \/ MarkBits(p) \/ TakeFrame(p)

Next == Issue \/ Hart \/ \E p \in Page : Speculate(p) \/ Drop(p)

Spec == Init /\ [][Next]_vars

\* The hart never stops executing; the TLB does as it likes and the test may
\* spin for ever between two of the instructions modelled.
FairSpec == Spec /\ WF_vars(Hart)

--------------------------------------------------------------------------------
Mapped == {p \in Page : pte[p].valid = 1}

Filling(p) == page = p /\ pc \in {"fresh", "copy"}

\* The TLB holds nothing but the current PTE, except in the window between a PTE
\* write and the flush_page that follows it.
TlbCoherent ==
  \A p \in Page :
    tlb[p] # None /\ ~(page = p /\ pc \in {"fresh", "flush"}) => tlb[p] = pte[p]

\* Frames are handed out once: no two pages share one, and what is still on the
\* free list is mapped nowhere.
FramesExclusive ==
  /\ \A p, q \in Mapped : p # q => pte[p].ppn # pte[q].ppn
  /\ pc \notin {"evict", "halt"} =>
       /\ head = FreeNode(Cardinality(Mapped))
       /\ \A i \in Cardinality(Mapped)..(NPages - 1) :
            /\ node[FreeNode(i)].addr = FrameAt[i]
            /\ \A p \in Mapped : pte[p].ppn # FrameAt[i]

\* While the program runs, a page that is not marked dirty still equals its
\* image (this is what makes evict's second assertion true).
DirtyTracked ==
  \A p \in Mapped :
    pc \notin {"halt", "machine"} /\ ~Filling(p) /\ pte[p].d = 0 => phys[pte[p].ppn] = phys[p]

\* Every mapped page has been accessed, but for the one whose access is pending.
AccessTracked ==
  \A p \in Mapped :
    pte[p].a = 1 \/ (insn # None /\ insn.op \in {"load", "store"} /\ insn.page = p)

\* No assertion of vm.c fails for a test that stays within its pages.
AssertionsHold ==
  pc = "halt" => \/ insn.op = "ecall" /\ tohost = insn.val
                 \/ insn.page \notin Page /\ tohost = 3

\* The rest of the inductive invariant.  The nodes of freelist_nodes are read but
\* not written before the test ends, and no page is mapped to an image page.
NodesIntact ==
  /\ \A p \in Mapped : pte[p].ppn > NPages
  /\ pc \notin {"evict", "halt"} =>
       \A i \in 0..(NPages - 1) :
         /\ node[FreeNode(i)].addr = FrameAt[i]
         /\ node[FreeNode(i)].next = IF i = NPages - 1 THEN NULL ELSE FreeNode(i + 1)

\* user_mapping says which pages are mapped, but for the page being mapped and
\* those already evicted.
OwnersKnown ==
  \A p \in Page :
    /\ pc = "fresh" /\ p = page => node[MapNode(p)].addr = 0
    /\ pc # "halt" /\ ~(pc = "fresh" /\ p = page) /\ ~(pc = "evict" /\ p < page) =>
         (node[MapNode(p)].addr # 0 <=> p \in Mapped)

\* Where each trap is in its handler.
HandlerInv ==
  /\ pc \in {"fresh", "copy", "seal", "flush"} =>
       insn # None /\ insn.op \in {"load", "store"} /\ insn.page = page /\ page \in Mapped
  /\ pc \in {"fresh", "copy", "seal"} =>
       /\ cur \in 1..NPages
       /\ pte[page] = [valid |-> 1, ppn |-> node[cur].addr, a |-> 1, d |-> 1]
  /\ pc = "seal" => phys[pte[page].ppn] = phys[page]
  /\ pc = "evict" => insn # None /\ insn.op = "ecall" /\ page >= 1
  /\ pc = "machine" => insn # None /\ insn.op = "fp"
  /\ pc # "halt" => tohost = None

\* Page table, list of frames, TLB, memory and handler agree: the conjunction is
\* inductive, its parts are not.
IInv ==
  /\ TypeOK /\ NodesIntact /\ OwnersKnown /\ HandlerInv
  /\ TlbCoherent /\ FramesExclusive /\ DirtyTracked /\ AccessTracked /\ AssertionsHold

UserMem == [p \in Page |-> IF pte[p].valid = 1 /\ ~Filling(p) THEN phys[pte[p].ppn] ELSE phys[p]]

\* A pending fp instruction is never promised anything, so the abstract machine
\* stays where it is.
Flat == INSTANCE FlatMemory WITH mem <- UserMem, outcome <- tohost

\* The test program sees flat memory, and its exit code reaches the host.
Implements == Flat!Spec

\* Every access completes after at most a few faults, unless the test is over.
AccessCompletes ==
  (insn # None) ~> (insn = None \/ pc \in {"halt", "machine"})

\* vm.c says of an illegal FP instruction: FP test on non-FP hardware, "succeed."
FpTestSucceeds ==
  insn # None /\ insn.op = "fp" /\ pc # "user" => pc = "halt" /\ tohost = 1
================================================================================
