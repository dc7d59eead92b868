-------------------------------- MODULE VmBoot --------------------------------
(* vm_boot of src/src/env/v/vm.c: hart 0 sets up the page tables and links the *)
(* free list of page frames in an order its 6-bit LFSR draws from ENTROPY,     *)
(* while every other hart runs coherence_torture, reading and rewriting words  *)
(* of the memory hart 0 uses.                                                  *)
(* DemandPaging starts where this module ends: ListAsAssumed is what its Init  *)
(* and its FrameAssumption take for granted.                                   *)
(*                                                                             *)
(* The list's frames are page numbers counted from DRAM_BASE, torture          *)
(* addresses are words (paddr & -4) counted from DRAM_BASE, PageWords words to *)
(* a page; the page tables hold page numbers.                                  *)
EXTENDS Integers, FiniteSets

CONSTANTS
  Torturers,   \* the harts other than hart 0
  Uint,        \* how many values an `unsigned int` has (2^32 in the code)
  TopBit,      \* the bit lfsr63 feeds back into (2^62 in the code)
  PageWords

ASSUME BootAssumption ==
  /\ Uint \in Nat /\ Uint >= 64
  /\ TopBit \in Nat
  /\ PageWords \in Nat \ {0}
  /\ IsFiniteSet(Torturers)

MAX_TEST_PAGES == 63
Index == 0..(MAX_TEST_PAGES - 1)
NULL == MAX_TEST_PAGES + 1

DRAM_BASE == 786432   \* 0xC0000000, in pages
HTIF_BASE == 786431   \* 0xBFFFF000

VARIABLES
  entropy,     \* the compile-time ENTROPY, the same for every hart
  levels,      \* of the page table: 3 for __riscv_xlen 64 (Sv39), 2 for 32 (Sv32)
  pt,          \* the entries written so far, by table and index
  pc,          \* hart 0: "map", "seed", "link", "cut", "boot"
  random,      \* hart 0's local variable
  i,           \* its loop counter
  addr, next,  \* freelist_nodes[.].addr and .next, the latter as an index
  torture,     \* each torturer's local variable random
  access       \* the word each torturer touched last

vars == <<entropy, levels, pt, pc, random, i, addr, next, torture, access>>

NoEntry == <<>>
PTES_PER_PT == IF levels = 3 THEN 512 ELSE 1024
MEGAPAGE == PTES_PER_PT

\* No local variable outgrows its C type and no index its array.
TypeOK ==
  /\ entropy \in 0..(Uint - 1)
  /\ levels \in {2, 3}
  /\ \A slot \in DOMAIN pt : slot[2] \in 0..(PTES_PER_PT - 1)
  /\ pc \in {"map", "seed", "link", "cut", "boot"}
  /\ random \in 0..(Uint - 1)
  /\ i \in 0..MAX_TEST_PAGES
  /\ addr \in [Index -> Nat]
  /\ next \in [Index -> 1..NULL]
  /\ torture \in [Torturers -> 0..(Uint - 1)]
  /\ access \in [Torturers -> Nat]

\* BSS is zeroed, so a node not built yet has address 0 (and no next).
Init ==
  /\ entropy \in 0..(Uint - 1)
  /\ levels \in {2, 3} /\ pt = NoEntry
  /\ pc = "map" /\ random = entropy /\ i = 0
  /\ addr = [j \in Index |-> 0]
  /\ next = [j \in Index |-> NULL]
  /\ torture = [h \in Torturers |-> entropy]
  /\ access = [h \in Torturers |-> 0]

\* (x ^ (x >> 1)) & 1, the feedback both shift registers use.
Feedback(x) == (x + (x \div 2)) % 2

LFSR_NEXT(x) == Feedback(x) * 32 + (x \div 2)

\* lfsr63 returns 64 bits; its result is assigned to an unsigned int.
lfsr63(x) == (Feedback(x) * TopBit + (x \div 2)) % Uint

\* random % (2 * (MAX_TEST_PAGES + 1) * PGSIZE) & -4, in words.
Target(x) == (x % (8 * (MAX_TEST_PAGES + 1) * PageWords)) \div 4

\* Kernel virtual pages, modulo the size of the address space (the subtraction
\* wraps): of a physical page, and of the image of a user page.
VirtualPages == PTES_PER_PT^levels
pa2kva(pa) == (pa - DRAM_BASE - MEGAPAGE) % VirtualPages
uva2kva(page) == (page - MEGAPAGE) % VirtualPages

\* An entry is written.
Put(tables, slot, pte) ==
  [at \in DOMAIN tables \cup {slot} |-> IF at = slot THEN pte ELSE tables[at]]

\* A PTE that points to the next table, or one that maps a page.
Pointer(t) == [table |-> t, page |-> 0]
Leaf(p) == [table |-> "", page |-> p]

TableNames == {"l1pt", "user_l2pt", "kernel_l2pt", "user_l3pt", "tohost_l3pt"}

\* The translation of a virtual page by the page table walk from l1pt, with the
\* entries of tables; 0 is a page fault.
Walk(tables, v) ==
  LET from[level \in 0..(levels - 1)] ==
        [t \in TableNames |->
           LET slot == <<t, (v \div PTES_PER_PT^level) % PTES_PER_PT>>
           IN  IF slot \notin DOMAIN tables THEN 0
               ELSE IF tables[slot].table = "" THEN tables[slot].page + (v % PTES_PER_PT^level)
               ELSE IF level = 0 THEN 0 ELSE from[level - 1][tables[slot].table]]
  IN  from[levels - 1]["l1pt"]

\* (A deliberately wrong variant: the index for 64 bits in either build.)
HtifSlot_64Only == 510

\* The entry, in the table that holds the kernel's megapage, for the one below it.
HtifSlot == IF levels = 3 THEN 510 ELSE 1022

\* With two levels user_l3pt is another name of user_l2pt.
user_l3pt == IF levels = 3 THEN "user_l3pt" ELSE "user_l2pt"

\* The user's pages lowest, the kernel's megapage uppermost, and the page of
\* tohost and fromhost right below it.
Tables ==
  LET kernel == IF levels = 3 THEN "kernel_l2pt" ELSE "l1pt"
      top    == PTES_PER_PT - 1
      users  == IF levels = 3
                THEN Put(Put(Put(NoEntry, <<"l1pt", 0>>, Pointer("user_l2pt")),
                             <<"l1pt", top>>, Pointer("kernel_l2pt")),
                         <<"user_l2pt", 0>>, Pointer("user_l3pt"))
                ELSE Put(NoEntry, <<"l1pt", 0>>, Pointer("user_l2pt"))
      mega   == Put(users, <<kernel, top>>, Leaf(DRAM_BASE))
      host   == Put(mega, <<kernel, HtifSlot>>, Pointer("tohost_l3pt"))
  IN  Put(host, <<"tohost_l3pt", top>>, Leaf(HTIF_BASE))

--------------------------------------------------------------------------------
\* Deliberately wrong variants, used to show that the properties can fail.
Seed_NoOffset ==
  /\ pc = "seed"
  /\ random' = random % MAX_TEST_PAGES
  /\ pc' = "link"
  /\ UNCHANGED <<entropy, levels, pt, i, addr, next, torture, access>>

Link_OneMore ==
  /\ pc = "link" /\ i <= MAX_TEST_PAGES
  /\ addr' = [addr EXCEPT ![i] = MAX_TEST_PAGES + random]
  /\ next' = [next EXCEPT ![i] = i + 1]
  /\ random' = LFSR_NEXT(random)
  /\ i' = i + 1
  /\ pc' = IF i' > MAX_TEST_PAGES THEN "cut" ELSE "link"
  /\ UNCHANGED <<entropy, levels, pt, torture, access>>

Cut_Forgotten ==
  /\ pc = "cut" /\ pc' = "boot"
  /\ UNCHANGED <<entropy, levels, pt, random, i, addr, next, torture, access>>

--------------------------------------------------------------------------------
MapTables ==
  /\ pc = "map"
  /\ pt' = Tables
  /\ pc' = "seed"
  /\ UNCHANGED <<entropy, levels, random, i, addr, next, torture, access>>

\* random = 1 + (random % MAX_TEST_PAGES)
Seed ==
  /\ pc = "seed"
  /\ random' = 1 + (random % MAX_TEST_PAGES)
  /\ pc' = "link"
  /\ UNCHANGED <<entropy, levels, pt, i, addr, next, torture, access>>

\* One turn of the loop over freelist_nodes.
Link ==
  /\ pc = "link" /\ i < MAX_TEST_PAGES
  /\ addr' = [addr EXCEPT ![i] = MAX_TEST_PAGES + random]
  /\ next' = [next EXCEPT ![i] = i + 1]
  /\ random' = LFSR_NEXT(random)
  /\ i' = i + 1
  /\ pc' = IF i' = MAX_TEST_PAGES THEN "cut" ELSE "link"
  /\ UNCHANGED <<entropy, levels, pt, torture, access>>

\* freelist_nodes[MAX_TEST_PAGES-1].next = 0, then pop_tf into the test program.
Cut ==
  /\ pc = "cut"
  /\ next' = [next EXCEPT ![MAX_TEST_PAGES - 1] = NULL]
  /\ pc' = "boot"
  /\ UNCHANGED <<entropy, levels, pt, random, i, addr, torture, access>>

\* One turn of coherence_torture's loop.
Torture(h) ==
  /\ access' = [access EXCEPT ![h] = Target(torture[h])]
  /\ torture' = [torture EXCEPT ![h] = lfsr63(@)]
  /\ UNCHANGED <<entropy, levels, pt, pc, random, i, addr, next>>

Next == MapTables \/ Seed \/ Link \/ Cut \/ \E h \in Torturers : Torture(h)

Spec == Init /\ [][Next]_vars

\* Every hart keeps executing.
FairSpec ==
  /\ Spec
  /\ WF_vars(MapTables \/ Seed \/ Link \/ Cut)
  /\ \A h \in Torturers : WF_vars(Torture(h))

--------------------------------------------------------------------------------
\* No frame is put on the list twice, none lies in the pages the image occupies,
\* and none beyond the memory the linker and the torturers reckon with.
NoFrameTwice ==
  \A j, k \in 0..(i - 1) :
    /\ j # k => addr[j] # addr[k]
    /\ addr[j] \in (MAX_TEST_PAGES + 1)..(2 * MAX_TEST_PAGES)

\* The tables the handler starts from: the supervisor reaches every page of its
\* megapage, each user page's image and the host's page where its macros say; a
\* user page faults at first, and once the handler writes its entry in user_l3pt
\* that entry is the one the hardware finds.
TranslationsRight ==
  pc = "boot" =>
    /\ \A page \in DRAM_BASE..(DRAM_BASE + MEGAPAGE - 1) \cup {HTIF_BASE} : Walk(pt, pa2kva(page)) = page
    /\ \A page \in Index :
         /\ Walk(pt, uva2kva(page)) = DRAM_BASE + page
         /\ Walk(pt, page) = 0
         /\ Walk(Put(pt, <<user_l3pt, page>>, Leaf(DRAM_BASE + addr[page])), page)
              = DRAM_BASE + addr[page]

\* The list handed to the fault handler: every node linked to the following one,
\* the last to none, and the frames pairwise different (DemandPaging's Init and
\* FrameAssumption).
ListAsAssumed ==
  pc = "boot" =>
    /\ \A j \in Index : next[j] = IF j = MAX_TEST_PAGES - 1 THEN NULL ELSE j + 1
    /\ Cardinality({addr[j] : j \in Index}) = MAX_TEST_PAGES

\* vm.c on coherence_torture: "cause coherence misses": whatever it is started from,
\* unless that is 0, where no shift register ever leaves, it never settles on one word
\* for good, which could miss only once more.
KeepsMissing ==
  entropy # 0 => \A h \in Torturers : []<>(access[h] # 0)

--------------------------------------------------------------------------------
(* Why these hold: the invariant of VmBootProofs.                              *)

\* When LFSR_NEXT, starting from 1, draws each of its 63 values.
Position ==
  << 0, 5, 62, 4, 24, 10, 61, 3, 32, 15, 23, 9, 45, 29, 60, 2,
     12, 34, 31, 14, 52, 50, 22, 8, 48, 37, 44, 28, 41, 20, 59, 1,
     6, 25, 11, 33, 16, 46, 30, 13, 35, 53, 51, 49, 38, 42, 21, 7,
     26, 17, 47, 36, 54, 39, 43, 27, 18, 55, 40, 19, 56, 57, 58 >>

\* What the loop has linked so far, and how far back each frame was drawn.
ListInv ==
  /\ random \in Nat /\ i \in 0..MAX_TEST_PAGES
  /\ addr \in [Index -> Nat] /\ DOMAIN next = Index
  /\ pc \in {"map", "seed"} => i = 0
  /\ pc = "link" => i < MAX_TEST_PAGES
  /\ pc \in {"cut", "boot"} => i = MAX_TEST_PAGES
  /\ i > 0 \/ pc = "link" => random \in 1..MAX_TEST_PAGES
  /\ \A j \in 0..(i - 1) :
       /\ addr[j] - MAX_TEST_PAGES \in 1..MAX_TEST_PAGES
       /\ (Position[addr[j] - MAX_TEST_PAGES] + (i - j)) % MAX_TEST_PAGES = Position[random]
       /\ next[j] = IF pc = "boot" /\ j = MAX_TEST_PAGES - 1 THEN NULL ELSE j + 1

\* The page tables are there from the start.
TablesInv == pt = IF pc = "map" THEN NoEntry ELSE Tables

IInv == TypeOK /\ ListInv /\ TablesInv
================================================================================
