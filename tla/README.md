# Verification of the BESSPIN RISC-V timing tests

TLA+ models of the program in `src/`, the TLC runs that check them on small
instances, and TLAPS proofs about eight of them for instances of every size.
`PROJECT.json` lists the runs, what each definition translates (`map`), the
hazards, the mutants that show each property can fail, and the theorems.

    tlc -config VmBoot.cfg VmBoot                  # a run: module and cfg as in PROJECT.json
    tlapm DemandPagingProofs.tla                   # proofs: one *Proofs module per component

Paths below are relative to the repository (`src/int-driver.c` is the driver in
the repository's own `src` directory).

## The system

The repository measures how many cycles RISC-V instructions take on a board. A
host script, `scripts/driver.py`, makes one test program per pair of operands,
runs them one by one on an FPGA and collects the line each prints. A test
program is one of four drivers linked with a small bare-metal runtime. Beside it
the repository carries the usual test environments, of which `env/v` is a
program of its own: a supervisor that demand-pages a user-mode test.

| part | state it keeps | operations | talks to |
| --- | --- | --- | --- |
| sweep driver (`scripts/driver.py`) | stage of the sweep, source tree, ELF files, lines collected, output file | open, program the FPGA, prepare the tree, build, launch, look/fetch a line, format | the board, over its UART; `make` |
| measurement loops (`src/*-driver.c`) | loop counter, the start and end values of `mcycle` and `minstret` | the loops' instructions, the subtraction, the report | console (`printf`) |
| console (`common/syscalls.c`, `uart16550.c`) | `htif_putchar`'s buffer, `tohost`, `fromhost`, `uart16550`, `read_input`'s buffer, the counters' report | `putchar`, `printstr`, `syscall`, `exit`, `setStats`, end of `_init`, `getchar`, `read_input`, `uart16550_putchar`, `uart16550_getchar` | host (by shared memory), UART (by registers) |
| `printf` (`common/syscalls.c`) | position in the format, the directive's flags, next argument | a character of the format, a case of the switch | whoever supplies `putch` |
| memory and string routines (`common/syscalls.c`, `env/v/string.c`, `common/util.h`) | a loop counter, memory | one access of `memcpy`, `memset`, `memcmp`, `strlen`, `strnlen`, `strcmp`, `strcpy`, `atol`, `printhex`, `verify`, `verifyDouble` | |
| device tree scanner (`common/fdt.c`, `uart16550.c`) | position, activations of the recursion, one `struct uart16550_scan` | one branch per token, the callbacks `open`, `prop`, `done`, the fallback | UART registers; sets `uart16550` for the console |
| barrier (`common/util.h`) | `sense`, `count`, a `threadsense` per thread | one per access to shared memory | the other harts |
| supervisor (`env/v/vm.c`, `entry.S`) | page table, free list of frames, `user_mapping` | `handle_fault`, `evict`, `handle_trap`, `terminate` | the user program (traps), TLB, host |
| supervisor's boot (`env/v/vm.c`) | page tables, LFSRs, the list being linked | mapping, seeding, linking, `coherence_torture` | hands tables and list to the fault handler; the other harts share its memory |
| start-up, latency script, operand generation, plots | | | see *Not modelled* |

What is hard in it, and what would have to be true for the part to be right:

- **Barrier**: two plain stores, which other harts may see late and in the other
  order, and threads that re-enter while others still spin. Nobody leaves before
  all have entered; no arrival is lost; everybody gets out.
- **Supervisor**: a stale TLB, bookkeeping of accessed and dirty bits that two
  kinds of hardware do differently, a handler that copies through the very
  translation it is setting up, up to three faults for one access. The user sees
  flat memory; a frame belongs to one page; no assertion fails.
- **Boot**: the list relies on the exact period and range of a 6-bit LFSR,
  whatever the seed; the tables use fixed indices that must agree with address
  arithmetic that wraps, in a 32-bit and a 64-bit build.
- **Sweep driver**: it cuts the UART's stream after whatever byte it happens to
  look, attributes lines by position, has no timeout, writes a file in a loop, and
  any step may fail.
- **Scanner**: recursion whose callbacks share one structure, and DLAB-dependent
  registers.
- **Console**: a hand-shake through two words of memory whose stores are delayed;
  a UART register that holds one character; a line editor whose buffer fills.
- **printf**: width and precision share their parsing, `*` shifts the arguments
  behind it, an unknown directive starts over in mid-format.
- **String routines**: each goes by words or by bytes as alignment allows, and
  `memcmp` changes over in mid-range.
- **Measurement**: counters that wrap, differences cut to words.

## Modules

| module | models | kind |
| --- | --- | --- |
| `SenseBarrier` | `barrier()` | detailed; implements `Rendezvous` |
| `Rendezvous` | what a barrier promises | abstract |
| `DemandPaging` | page faults, eviction, exit in `vm.c`, and the hardware under them | detailed; implements `FlatMemory` |
| `FlatMemory` | what the supervisor promises the user program | abstract |
| `VmBoot` | page tables, the free list, coherence torture | its `ListAsAssumed` is `DemandPaging`'s initial list |
| `TimingSweep` | one sweep of `driver.py` with board and UART | detailed |
| `MeasureLoop` | the four drivers | detailed |
| `FdtScan` | `fdt_scan` with `query_uart16550`'s callbacks | scanner, and a declarative meaning of a tree to compare it with |
| `Console` | output, input, counters' report and exit | detailed, with host, UART and somebody typing |
| `Printf` | `vprintfmt`, `printnum`, `sprintf` | interpreter of a format, and what ISO C says of a directive |
| `CString` | memory and string routines, `printhex`, `verify` | loops, and what each routine promises without a loop |
| `Libc` | `Printf` and `CString` put together | one call of either at a time |
| `*Proofs` | `SenseBarrier`, `DemandPaging`, `VmBoot`, `TimingSweep`, `Console`, `MeasureLoop`, `FdtScan`, `Libc` | proofs |
| `MC*` | | constants for TLC |

### SenseBarrier
`sense`, `count`, `threadsense` are the C variables; `pc[t]` says which access of
`barrier()` comes next, `pending[t]` holds the stores of thread t that others
cannot see yet. `inOrder`, fixed at the start, says whether one hart's stores
become visible in order. The fences of the code are the two places where
`pending[t]` must be empty. `Waiting`, the threads counted and not released, is
the refinement mapping to `Rendezvous`.

### DemandPaging
One action per stretch of the handler between two places where something else
could happen: `TakeFrame` (pop a frame, map it with A and D set), `OwnFrame`
(flush, record the owner), `CopyIn`, `ClearBits`, `FlushReturn`, or `MarkBits` for
the second and third fault; `Ecall`, `Evict` per page, `Exit`. Every `assert` of
the source is kept: a failing one ends the program with code 3. Of the hardware,
a TLB entry may be loaded (`Speculate`) or dropped (`Drop`) at any time, an invalid
PTE may be cached like any other, and a stale entry stays until the handler's
`sfence.vma`: the one at `vm.c:149` rids the handler's own copy of a cached invalid
PTE, the one at `vm.c:159` rids the test of the PTE the copy was made with. `adBits`
selects whether the hardware sets the A and D bits or faults. A page's contents are one datum; loads and stores are of pages.
`evict` copies the image over the page, not the page over the image, and leaves
the node it links with address 0 and a stale `next`; the model does the same.
The two last branches of `handle_trap` cannot be reached (see *Findings*).

### VmBoot
The page tables are a function from (table, index) to entries, in Sv39 (64-bit
build) and Sv32 (32-bit build, where `user_l3pt` is another name of `user_l2pt`);
`Walk` is the hardware's page table walk. The 6-bit LFSR is the code's, at full
size: all 63 states, 63 frames, and any `ENTROPY`, 0 included (from which the list is
as good as from any other, while the torture never leaves its first word: the run on
torture sets that one aside). `Uint` is how many values an `unsigned int` has
(2^32 in the code) and `TopBit` the bit `lfsr63` feeds back into (2^62).

### TimingSweep
The stages of `main`, `sweep`, `setupBuildDir`, `buildTests` and `collect_lines` in
order; `Look` and `Fetch` are the two reads of the serial port, between which the
board may print. A line comes in byte by byte and can be cut after each: a byte is
the test it is from and its place in the line, `Sep` says at which places its tabs
and its newline are, and what letter or digit the others are does not matter but for
the marker `instr`. `Stripped`, `Stretch` and `Marked` are `rstrip`, `split('\n')` and
the search for the marker in what was read; `NextTab` and `Number` are `split('\t')`
and `int(field, 16)`, of which any may raise. `Format` parses all lines (the list
comprehension of `format_lines`), then `Write` writes one result a step. `Raise` may
end the driver in or between any two steps, for whatever reason (copying, launching,
reading the port, decoding and writing all raise, and a signal may come); what is
still in the file's buffer may then be missing from the file, from its end. A result
cut in the middle by that counts as missing.

### MeasureLoop
One step per instruction of the timed loops; `Word` and `Reg` stand for 2^32 and
2^64. The processor charges each instruction any of `Costs` cycles, zero
included (a superscalar core), which `Retire` stands for. `SubW` and `Shown` are `subw` and the printf
conversions. `MeasureAssumption` asks that a loop's instructions fit half a word:
with more of them `subw` would turn a count negative.

### FdtScan
The recursion of `fdt_scan_helper` is a stack of activations. The properties
compare what the scanner hands to its callbacks with `Meaning`, which reads a
tree's content off its nesting without scanning it; the device keeps the register
writes, in order, that setting it up takes. `Cell` stands for 2^32, and
`blob.pointers` for how many values a pointer has, one cell's or two cells' (the RV32
and the RV64 build): `Pointer` is the cast at `uart16550.c:69`, which comes after the
address was tested for zero. A `reg` of the root has no parent to take the number of
cells from; the code reads through a null pointer there, and `ParentCells` leaves open
what it finds. `FdtAssumption`
asks that nodes nest, that properties lie in nodes and that the tree ends with its
only `FDT_END`. `Tidy` is what the device tree specification adds: a node's
properties come before its children and none twice, values are cells of the lengths
their names call for, a `reg` lies in a node whose parent has said how many cells an
address takes. `ScanIsOwn`, `FirstUart` and `SetUpQuietly` are about tidy trees, and
`DoneOnce` about any; the trees of `fdt` are tidy but for one with a `reg` in its root.

### Console
`stores` is the write to `magic_mem` not yet in memory, `memory` what the host
would read. The host is outside the repository: it polls `tohost`, clears it,
serves the request, sets `fromhost`. The UART's receiver holds `RxSize` characters;
what is typed while it is full is gone, which `overrun` records and the code never
looks at. `asked`, `typed`, `keyed`, `received` and `lines` are history variables. The HTIF half is live only before `query_uart16550`, which
always leaves `uart16550` set; `Probe` may happen at any moment a program could
choose. `read_input` takes characters from the UART's receive buffer, echoes
them, and ends at a carriage return or when its buffer is full. Of the counters,
`report` keeps whether `_init` would print nothing, their names and values
(`setStats` stopped them) or unnamed values (only started).

### Printf and CString
`Printf` has one action per character of the format in plain text and per case of
the switch inside a directive. The requests are sequences of directives
(`Directive`: at most one of the flags `-` and `0`, a width and a precision of at most
`INT_MAX`, each written out or as a `*` that is not negative, up to two l's, a
conversion or some character that is none, or nothing at all), from which the format string and the arguments are rendered; `Field` says what
ISO C prints for a directive without looking at the format. A directive nobody knows
takes no argument and comes out as it stands. `Others` are the characters no case of
the switch takes. `Conforms` excludes the directives on which the code departs from
ISO C (see *Findings*). Left out: the flag `#`, two flags at once, a negative `*`
(for which ISO C has a meaning and the code none), and a `long long` on RV32, where it
takes two registers. `CString` has one action per loop, taken once per turn, over a
small memory of bytes; a word is `WordBytes` of them, and the shifts and ors that
build `memset`'s word are kept. `MemoryExact` covers every byte beside the
destination too. `Legal` is what ISO C asks of a caller: operands that lie in memory,
strings that end, a destination that does not overlap its source, a numeral for
`atol` (one that fits a `long`: `acc` is unbounded). Elements of vectors are numbers:
a NaN is left out, since `-ffast-math` (`Makefile:16`) promises the compiler none.

## Runs

| run | instance | shows |
| --- | --- | --- |
| `barrier` | 4 threads, any number of episodes, both store orders | `IInv`, `Implements`; with stores in order `CountExact`, `ReleaseFollows`, `AllDepart` |
| `paging` | 2 usable pages, 3 frames, both A/D schemes | `IInv`; flat memory, no assertion fails, TLB and dirty bits agree, accesses complete |
| `paging_fp` | same | *violation*: an FP instruction without FPU (finding 1) |
| `boot_list` | 63 frames, every seed, Sv39 and Sv32, a torturing hart | `IInv`; distinct frames outside the image, a proper list, tables that translate as the macros say |
| `boot_torture` | an `unsigned int` of 64 values | *violation*: torture dries up (finding 2) |
| `sweep` | 2 tests, lines of 18 bytes, any failure, any source tree | `IInv`; a line is its own test's wherever the stream is cut; results in order and with their own operands, none unless all parse; whole lines are kept and the sweep ends |
| `sweep_cut` | 2 tests | *violation*: a line is taken before it is complete (finding 3) |
| `fdt` | trees up to 3 deep, two devices, cells given, pointers of one cell or two | `IInv`; every node done once; in tidy trees the first UART with an address that is a pointer is found and set up from its own properties |
| `fdt_default` | a bus without `#address-cells` | *violation*: a sibling's cells are inherited (finding 4) |
| `console` | 4 characters printed, 3 typed, buffers and receiver of 2 | `IInv`; every byte once and in order either way, but for what an overrun loses; exit complete for what the host was asked; calls return |
| `measure` | four drivers, 1 or 2 turns, wrapping counters | `IInv`; exact instruction count, cycles the difference of the loops |
| `libc` | each directive alone, the short and the unknown ones in pairs; each routine over aligned and unaligned ranges | output is ISO C's, memory and results are what the routine promises, every call returns |

Why the bounds suffice. Barrier: an episode involves the last arriver, the
threads still spinning and those already back; four threads give every role to
somebody with one to spare, episodes repeat without bound. Paging: properties
relate one or two pages, so two pages, with three frames (the last never used,
as in the code where page 0 has none), both edges of the range, a store that
changes the page and one that does not. Boot is full size, and a seed
counts only modulo 63, so six bits give every list; one bit of `unsigned
int` more or less changes only how long the torture lasts. Sweep: lines of a
test can meet those of its predecessor and of none older (`ComingInv`, proved for any
number of tests), so two tests do; their lines have one-digit numbers but two digits
of cycles, one-letter labels but two letters for the marker, so that each field can
be cut between two of its bytes where that matters, and each cut before, in and after
it is one of the 18. Scanner: a node's
neighbours are its parent, its child and a sibling on either side. Console: a
buffer of two is flushed by a newline, by being full and by both; four characters
fill it twice, or once with some over; two keys fill `read_input`'s buffer, end a line
early, or are met by the next call, and the third meets a receiver that is full. Measurement: words of 5 bits and costs up to 5
make loops both shorter and longer than half a word, and either one the faster.
Library: `Word` 256 and `Reg` 4096 stand for 2^32 and 2^64, so that `%d` and `%ld`
differ, signs appear and a number has up to twelve digits' room; pairs of
directives show what one leaves behind for the next. Four-byte words, ranges of up
to nine bytes and offsets 0 to 4 give an aligned range, one that is not, the
change from words to bytes, and length zero.

Every cfg sets `CHECK_DEADLOCK FALSE` because the system stops by itself: a test
that has ended, a sweep that is done, a scan that is complete, a call that has
returned, a barrier that no thread calls again when an arrival was lost.

## Fairness

`WF` of a hart's own next instruction everywhere liveness is stated: a hart keeps
executing. Stores become visible in the end (barrier, console), which coherence
gives. The UART sends what is in its transmitter, the host answers: outside the
repository, and without it nothing printed ever arrives. In `TimingSweep` the
driver, unless it fails, and the board keep going. Nothing is assumed of a program's choice to call
`barrier`, print, exit or issue another instruction, of anybody typing, nor of the
TLB. `MeasureLoop` and `FdtScan` state safety only and assume no fairness. No
strong fairness is used.

## What is proved

Each proof module shows `Spec => []IInv` (`LibcProofs`: `StrInv` and `FmtInv`) for an invariant
that TLC has checked on the instance of its component's run, and gets its theorems
from that. The induction theorems of the library cannot be used, since they take an
operator as a parameter. Where a fact needs an induction over data (a fold, a search,
a count) the proof takes a least counterexample instead: a set of numbers that is not
empty has a least element, and the smaller ones satisfy the fact.

**`SenseBarrierProofs`**, for every finite set of threads: `InvariantHolds`,
`BarrierImplementsRendezvous` (`Spec => Implements`, for both store orders) and
`NoArrivalLost` (`Spec => []CountExact`, stores in order).
`CountExact` alone is not inductive: a release may have been seen while the last
arriver's reset has not. `IInv` adds `PhaseInv` (what `pc`, `threadsense` and
`pending` say of each other, and that all wait while a release is owed),
`OneLastArriver`, and `CountInv` (`count` is at least the number of threads while
the reset is owed and at most the number of waiting threads after it), so that
only the arrival of the last thread can see `ncores-1`. The refinement follows:
the step that makes `sense` visible is `Release`, and by `PhaseInv` all wait then.

**`DemandPagingProofs`**, for every number of pages, every order of the free list
and both A/D schemes: `PagingInvariant`, `FramesStayExclusive`,
`NoAssertionFails`, `TlbStaysCoherent`, `DirtyPagesTracked`,
`PagingImplementsFlatMemory` (`Spec => Implements`).
`IInv` needs, beside the properties the run checks, `NodesIntact` (the free list's
nodes are not changed before the test ends, otherwise nothing is known of the
frame to be popped), `OwnersKnown` (a page has an owner recorded exactly if it is
mapped, outside the handler: `OwnFrame`'s assertion and the loop of `Evict` rest on
it) and `HandlerInv` (where a trap is in its handler and what it has written so
far). The dirty bit carries the argument for `evict`'s assertion: a page that is
not dirty equals its image, `TlbCoherent` makes the translation a store uses the
one whose bits were checked, and `FramesExclusive` keeps the store away from every
other page. `FramesExclusive` also counts: as many frames have been popped as
pages are mapped, fewer than there are, so the list cannot run out.

**`VmBootProofs`**, for every seed, an `unsigned int` of 64 values or more, any
`TopBit` and any number of torturing harts: `InvariantHolds`, `NoFrameRepeated` and
`ListReady`, the two facts `DemandPaging`'s `FrameAssumption` and `Init` take for
granted, and `TranslationsAsAssumed`. `Position` tells when each of the 63 values is
drawn; that `LFSR_NEXT` moves it on by one modulo 63 is checked value by value.
`ListInv` then says how long ago each frame was drawn, and two frames drawn fewer
than 63 turns apart have different positions. `TablesInv` says that nothing but
`vm_boot`'s map is ever written. Of that map each entry is known by name, and the
walk is unfolded level by level (its recursive function exists because three levels
can be written down): a walk ends one table below the root at a page, or two below it
at a page or in a fault. What remains is which index each address has at each level,
arithmetic modulo 2^27 or 2^20 pages, done once for each build.

**`TimingSweepProofs`**, for any number of tests, any failures and however the
stream is cut, whatever the layout of a line: `InvariantHolds`,
`NoLineMisattributed`, `ResultsComeInOrder`, `WholeLinesStayWhole`. What the board has
still to say, `Coming == wire \o toPrint`, is not changed by transmission, only by
launching and fetching. `ComingInv`: while a test runs, what is to come is the last
bytes of the line before, all past its marker and past what was collected of it, and
then the last bytes of its own (`Mixed`); so there is one marker to come at most and
it is its own, and what the next test meets in the buffer cannot be mistaken for its
line. `LineInv` says the same of a collected line, which therefore has the marker of
its test, and around it that test's bytes without a gap, after at most a piece of the
line before. `CountInv` keeps how many lines there are at each stage and what the file
holds, `WholeInv` that lines which arrive whole lie whole in the buffer.
`ResultsComeInOrder` needs more: a line may be joined to a piece of the one before, and
may still have seven tabs. If the piece brought tabs along, the line would have lost as
many of its own in front, and its numbers would be read from the wrong fields. But the
piece is then what the collected part of the line before has lost at its end, and with
a tab in it that part has too few fields: all lines are parsed before anything is
written, so nothing is. What is left is a piece without a tab; then the fields are the
line's own, and only the last can be short.

**`ConsoleProofs`**, for any texts, codes, buffer sizes and amounts printed or
typed: `InvariantHolds`, `HostWritesExactly`, `UartSendsExactly`, `BufferNeverFull`,
`ExitAfterAllWritten`. `HandshakeInv`: a request is in one place, `tohost`, the host's
hands or `fromhost`, and the fence before it is posted makes `memory` equal `arg`;
so `ShownInv`, what was asked is what was shown and the request under way.
`SendInv`: what was given to the UART is what it sent, its register and `todo`.
`BufferInv`: a buffer at rest has room and no newline. `InputInv` and `ExitInv`
keep the report, which goes out last, at the end of what was given away. `InputKept`
(`Spec => []InputExact`) is about the other direction: what was typed is what the
calls of `read_input` took, what the one under way has, what the UART still
holds, and (only if it overran) what it dropped, and each text ends where it should. `InputExact` is inductive relative to
`IInv`; the work is in what one more text does to the concatenation of all of them.

**`MeasureLoopProofs`**, for words and registers of any width, loops of any length,
instructions of any cost and counters that start anywhere: `InvariantHolds`,
`InstructionsCounted`, `CyclesCounted`. The first half is arithmetic: uniqueness of
remainders, congruence of sums and differences, and `SubWCuts`, what `subw` makes
of two readings n apart. `TimedInv` says by how much each counter is ahead of its
reading at every instruction of a loop, modulo the register; `TakenInv` what a
finished loop measured, modulo a word.

**`FdtScanProofs`**, for any tree whose nodes nest: `StackAlways` and
`DoneCalledOnce`. A node's `done` may fall at its first child or at its end, and
`last` remembers which: `StackInv` says that an open node has been done exactly if
`last` is set one activation further in, that a node further on has not and a
closed one has. `EnclosingStep` counts the nodes around a position, so that
`FDT_END`, which no node encloses, is met by the outermost activation.
Of tidy trees also `ScanOwn`, `FirstUsed` and `QuietlySetUp`: what the scan
structure holds when a node is done is what the node says of itself, the first UART
of the tree is the one in use, and setting it up writes its own divisor and transmits
nothing. `InvariantHolds` is the induction: `NestInv` ties each activation to the
innermost node at its depth, so that a property's node is the one on top of the
stack; `CellsInv` says that the stack has the cells a node told before its children
came; `ScanInv` that the structure agrees with the properties met so far and is
cleared for the rest; `UartInv` that nothing is set up before the first UART is done
and nothing changes after it. Of untidy trees `fdt_default` shows that more is not to
be had.

**`LibcProofs`**, for words of four or eight bytes, memory of any size and every legal
call: `LoopsRight`, `MemoryKept` (`Spec => []MemoryExact`) and `ResultsRight`
(`Spec => []ResultExact`). `StrInv` is the loop invariants: how far the copy, the fill
or the comparison has come and that it was right so far, and that while a loop goes by
words it is at a word's edge. The lemmas are what the words need: that the shifts and
ors of `memset` give every byte the value, that two words differ exactly if a byte
does, that a search which has met nothing up to `i` and something at `i` has met the
first. For `atol`, `ValueOf` weighs each digit by a power of ten, from the last one on,
while the loop goes from the first by Horner's rule; `AtolInv` says that what was read,
weighed by the place it ends at, is the whole value less that of the characters left.
That the powers and the values exist as functions is itself an induction
(`Recursion`).

For `vprintfmt`, every format and all arguments: `FormatsRight`
(`Spec => []FormatExact`), from `FormatRead` (`Spec => []FmtInv`). `FmtInv` says where
the code can be between two characters (`Reached`): between directives (`Boundary`),
before a `%` (`Opening`), inside a directive after its flag, width, point, precision or
some of its l's (`Inside`), or in the echo of one it does not know (`Echoing`). A place
fixes all four variables at once: the position, the next argument, what has been put
out, and `padc`, `width`, `precision` and `lflag`; so that what a directive is about to
read never depends on the ones before it. It needs three things. `Layout`: the k-th
directive and its arguments lie where the lengths of those before it say, from
`FlattenSeq` taken apart (`UptoIs`, `Located`). `SteeredIs`: the characters there lead
the switch to the right cases, and a number ends where the next part begins, since no
part begins with a digit. And the numerals: `Digited` names the number of digits by
powers of the base, `DigitsIs` shows that `printnum`'s divisions give the positional
numeral, and `NumberRead` that reading a numeral back gives the number. Then there is
a lemma for each step from place to place (`FlagStep` to `ConvStep`, `UnknownStep`,
`EchoStep`, `TextStep`), and at the last boundary `Due` is all of the output.

The assumptions are those the modules name: at least one thread; at least one
usable page; frames pairwise different and outside the image
(`FrameAssumption`, which `ListReady` establishes for the real list); device trees
that nest; legal calls; formats made of
directives; lengths, widths and sets of the kind the code has. No other axiom is used.

Left to TLC: liveness, `CallsReturn` among it (it needs ENABLED). Every invariant a
passing run checks is a theorem.

## Findings

1. `vm.c:183` expects an FP test on non-FP hardware to succeed by a trap handled
   in `handle_trap`; `medeleg` (`vm.c:267-271`) does not delegate illegal
   instructions, so the trap goes to M-mode, to a label inside `vm_boot`.
   (`paging_fp`; the handler's last branch is unreachable for the same reason.)
2. `vm.c:208` assigns `lfsr63`'s 64-bit result to `unsigned int`; the feedback is
   lost and the torture ends on one word. (`boot_torture`)
3. `driver.py:28` takes a line in which `instr` has arrived although its end has
   not. (`sweep_cut`)
4. `fdt.c:29` gives default cell counts once per activation, not per node.
   (`fdt_default`)

Seen while modelling, without a run of their own:
- `driver.py:235` calls `os.rm`, which does not exist: leftover objects end the
  driver (`RemoveObjects`).
- with stores visible out of order (RVWMO allows it: no fence between
  `util.h:57` and `:58`) an arrival can be lost and everybody spins; safety still
  holds and is proved. With one core, as `crt.S` assumes, it cannot happen.
- `collect_lines` polls for ever if the marker is cut between two reads, or if a test
  prints nothing.
- `driver.py:295` never closes the file: what an exception or a signal leaves in it
  looks like a shorter sweep.
- `uart16550.c:69` cuts the address to a pointer after testing it for zero; on RV32 an
  address whose low cell is zero leaves `uart16550` null and writes registers at 0.
- `uart16550_getchar` does not look at the overrun bit.
- the exit status of the build script is that of its last `make` only.
- `uart16550.c:78` says divisor 3 where the code writes 0x2d; the fallback UART
  address is used without being set up.
- `README.md:42` names `driver.go`; the script is `driver.py`.
- characters in `htif_putchar`'s buffer are overtaken by `printstr` and stay there
  at exit, or once a UART is found.
- `read_input` leaves a buffer it has filled without a terminator. It and
  `setStats` have no caller in the shipped programs; counters started and never
  stopped would be reported with a null name.
- `vprintfmt`: `-` ("flag to pad on the right", `syscalls.c:270`) pads numbers on
  the left, with `-` characters; the sign is printed before the padding and not
  counted in the width; a width or precision of 0 in the format is taken for the flag
  (`%.0s` prints everything); a precision is ignored for
  numbers, a width for `%c` and `%%`, the `0x` of `%p` is not counted, `#` does
  nothing. `Conforms` excludes these. `atol` does not check that digits are digits.
- `vm.c:12` does not put `tohost` into the section `.tohost` that `link.ld:7` places,
  so it lies with the other variables and not where that section is.
- an empty loop slower than the busy one makes the printed cycles wrap; the
  latency driver jumps over its no-ops, which only shift its loop in memory; the
  integer drivers use `subw` whatever `XLEN` is.
- `driver.py`: "normal" floats may be NaNs (exponent drawn up to its mask);
  `--keep_temp` has no effect; a work directory that exists ends in an exception.

## Not modelled

- `crt.S`: straight-line set-up and register saving; its only control, that no hart
  but 0 proceeds, is assumed in `Console`.
- `scripts/latency-test.go`: its worker pool is a package the repository does not
  contain, and how it shares out work would be invented.
- what `printf` does with `#`, with two flags, with a negative `*`, and with a `long long`
  on RV32; NaNs in `verifyDouble`, which, like `verify`, has no caller.
- two harts in `syscall` at once, which `crt.S` keeps out (`tohost` has no lock).
- operand generation and `classify` in `driver.py`: pure functions of random bits
  that only label a result; `TimingSweep` treats operands as data.
- the register saving of `entry.S`, and PMP and delegation CSRs in `vm_boot` beyond
  the state they leave; the values of the counters `setStats` reads.
- `fdt_scan`'s `close` callback, which nobody sets, and trees cut short.
- the macro-only environments `p`, `pt`, `pm`, the encodings, linker scripts, the R
  scripts and recorded results: no state, or offline numerics.

## What could come next

1. A refinement of `Printf` as the source of `Console`'s strings, and of
   `MeasureLoop`'s report as `TimingSweep`'s line.
2. `classify` against what `floatOperands` generates, over small mantissas.
