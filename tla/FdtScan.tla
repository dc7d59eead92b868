-------------------------------- MODULE FdtScan --------------------------------
(* The search for the UART at start-up: query_uart16550 of                     *)
(* src/src/common/uart16550.c and the device tree scanner fdt_scan of          *)
(* src/src/common/fdt.c whose callbacks it supplies.                           *)
(*                                                                             *)
(* A device tree is a sequence of tokens; a property is one token holding its  *)
(* name and its cells as numbers (every cell the code reads goes through       *)
(* bswap).  A compatible property is <<1>> when its value starts with          *)
(* "ns16550a".  The recursion of fdt_scan_helper is a stack with one frame per *)
(* activation, which holds its `last` and its `child` (the token where that    *)
(* node begins and its address_cells): the node of an activation is the child  *)
(* of the activation that called it.                                           *)
EXTENDS Integers, FiniteSets, SequencesExt, FiniteSetsExt

CONSTANTS
  Blobs,        \* the device trees the board may come with, and the builds
  Cell,         \* 2^32, what a cell may hold; an address holds two cells
  Fallback      \* 0x62300000

\* How many nodes enclose the p-th token.
Enclosing(toks, p) ==
  Cardinality({k \in 1..(p - 1) : toks[k].t = "begin"})
    - Cardinality({k \in 1..(p - 1) : toks[k].t = "end"})

\* The tree's nodes nest, its properties are in nodes, and it ends with FDT_END.  A
\* pointer is a cell wide (RV32) or two (RV64).
ASSUME FdtAssumption ==
  /\ Cell \in Nat \ {0}
  /\ Fallback \in Nat \ {0}
  /\ \A b \in Blobs :
       /\ b.magic \in BOOLEAN
       /\ b.pointers \in {Cell, Cell * Cell}
       /\ Len(b.toks) \in Nat \ {0} /\ DOMAIN b.toks = 1..Len(b.toks)
       /\ Enclosing(b.toks, Len(b.toks)) = 0
       /\ \A k \in DOMAIN b.toks :
            /\ b.toks[k].t \in {"begin", "end", "prop", "nop", "stop"}
            /\ b.toks[k].t = "stop" <=> k = Len(b.toks)
            /\ b.toks[k].t \in {"end", "prop"} => Enclosing(b.toks, k) > 0
            /\ b.toks[k].t = "prop" => b.toks[k].value[1] \in Nat

VARIABLES
  blob,         \* the header's verdict, the tokens of this board's tree, and how
                \* many addresses a pointer of the build tells apart
  pc,           \* "header", "scan", "query", "ready"
  lex,          \* the position of the scanner
  stack,        \* the activations of fdt_scan_helper
  scan,         \* struct uart16550_scan, shared by all the callbacks
  uart16550,    \* the address of the UART, 0 before one is found
  dev,          \* the registers of the UART at that address
  dones         \* how often each node's done callback was called

vars == <<blob, pc, lex, stack, scan, uart16550, dev, dones>>

Tok == blob.toks
Begins == {b \in DOMAIN Tok : Tok[b].t = "begin"}

\* uart16550_open: memset(scan, 0, ...); speed and freq are null pointers.
Null == -1
EmptyScan == [compat |-> 0, reg |-> 0, speed |-> Null, freq |-> Null]

\* A UART out of reset, or left by an earlier program: interrupts on, DLAB off.
FoundDev == [ier |-> 15, lcr |-> 3, dll |-> 1, dlm |-> 1, fcr |-> 0, sent |-> <<>>]

\* The scanner stays within the tokens, and every register within a byte.
TypeOK ==
  /\ blob \in Blobs
  /\ pc \in {"header", "scan", "query", "ready"}
  /\ lex \in DOMAIN Tok
  /\ stack \in Seq([last : {0, 1}, at : 0..Len(Tok), cells : Nat])
  /\ scan \in [compat : {0, 1}, reg : Nat, speed : Nat \cup {Null}, freq : Nat \cup {Null}]
  /\ uart16550 \in Nat
  /\ dev \in [ier : 0..255, lcr : 0..255, dll : 0..255, dlm : 0..255, fcr : 0..255,
              sent : Seq(0..255)]
  /\ dones \in [Begins -> Nat]

\* The locals of fdt_scan_helper: the default cell counts of the FDT spec.
Activation == [last |-> 0, at |-> 0, cells |-> 2]

Init ==
  /\ blob \in Blobs
  /\ pc = "header" /\ lex = 1
  /\ stack = <<Activation>>
  /\ scan = EmptyScan
  /\ uart16550 = 0
  /\ dev = FoundDev
  /\ dones = [b \in Begins |-> 0]

\* The 16550, when a register is written: while bit 7 of register 3 is set,
\* registers 0 and 1 hold the divisor; otherwise register 0 transmits.
Write(d, w) ==
  LET reg == w[1]
      value == w[2] % 256
      dlab == d.lcr >= 128
  IN  [ier  |-> IF reg = 1 /\ ~dlab THEN value ELSE d.ier,
       lcr  |-> IF reg = 3 THEN value ELSE d.lcr,
       dll  |-> IF reg = 0 /\ dlab THEN value ELSE d.dll,
       dlm  |-> IF reg = 1 /\ dlab THEN value ELSE d.dlm,
       fcr  |-> IF reg = 2 THEN value ELSE d.fcr,
       sent |-> IF reg = 0 /\ ~dlab THEN Append(d.sent, value) ELSE d.sent]

\* Unsigned and a cell wide; RISC-V divides by zero to all ones.
Divisor(s) ==
  LET by == (16 * s.speed) % Cell IN IF by = 0 THEN Cell - 1 ELSE s.freq \div by
Rated(s) == s.speed # Null /\ s.freq # Null
DivisorLo(s) == IF Rated(s) THEN Divisor(s) % 256 ELSE 45
DivisorHi(s) == IF Rated(s) THEN Divisor(s) \div 256 ELSE 0

\* (A deliberately wrong variant of Writes: DLAB is set one write late.)
Writes_DlabLate(s) ==
  <<<<1, 0>>, <<0, DivisorLo(s)>>, <<3, 128>>, <<1, DivisorHi(s)>>, <<3, 3>>, <<2, 199>>>>

\* The registers uart16550_done writes, in order, and what that makes of the UART.
Writes(s) ==
  <<<<1, 0>>, <<3, 128>>, <<0, DivisorLo(s)>>, <<1, DivisorHi(s)>>, <<3, 3>>, <<2, 199>>>>

Configure(d, s) ==
  LET after[n \in 0..6] == IF n = 0 THEN d ELSE Write(after[n - 1], Writes(s)[n])
  IN  after[6]

\* fdt_get_address: as many cells as the parent says, folded into 64 bits.
get_address(cells, value) ==
  LET result[n \in 0..cells] ==
        IF n = 0 THEN 0 ELSE (result[n - 1] * Cell + value[n]) % (Cell * Cell)
  IN  result[cells]

\* uart16550_prop
Remember(s, p, parentCells) ==
  CASE p.name = "compatible" /\ p.value = <<1>> -> [s EXCEPT !.compat = 1]
    [] p.name = "reg" -> [s EXCEPT !.reg = get_address(parentCells, p.value)]
    [] p.name = "current-speed" -> [s EXCEPT !.speed = p.value[1]]
    [] p.name = "clock-frequency" -> [s EXCEPT !.freq = p.value[1]]
    [] OTHER -> s

Depth == Len(stack)
Top == stack[Depth]

\* (void*)(uintptr_t): what a pointer of the build keeps of an address.
Pointer(reg) == reg % blob.pointers

\* `!last && node && cb->done`, and the call: the first UART found is set up.  What
\* is written through a null pointer reaches no UART (or the hart traps and stops).
MayBeDone == Top.last = 0 /\ Depth > 1

\* (A deliberately wrong variant of CallDone: a later UART replaces the first.)
CallDone_LastWins ==
  LET take == MayBeDone /\ scan.compat = 1 /\ scan.reg # 0
  IN  /\ dones' = IF MayBeDone THEN [dones EXCEPT ![stack[Depth - 1].at] = @ + 1] ELSE dones
      /\ uart16550' = IF take THEN Pointer(scan.reg) ELSE uart16550
      /\ dev' = IF take /\ Pointer(scan.reg) # 0 THEN Configure(dev, scan) ELSE dev

CallDone ==
  LET take == MayBeDone /\ scan.compat = 1 /\ scan.reg # 0 /\ uart16550 = 0
  IN  /\ dones' = IF MayBeDone THEN [dones EXCEPT ![stack[Depth - 1].at] = @ + 1] ELSE dones
      /\ uart16550' = IF take THEN Pointer(scan.reg) ELSE uart16550
      /\ dev' = IF take /\ Pointer(scan.reg) # 0 THEN Configure(dev, scan) ELSE dev

--------------------------------------------------------------------------------
\* Deliberately wrong variants, used to show that the properties can fail.
BeginNode_NoLast ==
  /\ pc = "scan" /\ Tok[lex].t = "begin"
  /\ CallDone
  /\ scan' = EmptyScan
  /\ stack' = Append([stack EXCEPT ![Depth].at = lex], Activation)
  /\ lex' = lex + 1
  /\ UNCHANGED <<blob, pc>>

BeginNode_NoOpen ==
  /\ pc = "scan" /\ Tok[lex].t = "begin"
  /\ CallDone
  /\ stack' = Append([stack EXCEPT ![Depth].at = lex, ![Depth].last = 1], Activation)
  /\ lex' = lex + 1
  /\ UNCHANGED <<blob, pc, scan>>

Stop_Advances ==
  /\ pc = "scan" /\ Tok[lex].t = "stop"
  /\ CallDone
  /\ stack' = Front(stack)
  /\ lex' = lex + 1
  /\ pc' = IF Depth = 1 THEN "query" ELSE "scan"
  /\ UNCHANGED <<blob, scan>>

--------------------------------------------------------------------------------
\* fdt_scan: only a tree whose magic and version it understands is processed.
ReadHeader ==
  /\ pc = "header"
  /\ pc' = IF blob.magic THEN "scan" ELSE "query"
  /\ UNCHANGED <<blob, lex, stack, scan, uart16550, dev, dones>>

Nop ==
  /\ pc = "scan" /\ Tok[lex].t = "nop"
  /\ lex' = lex + 1
  /\ UNCHANGED <<blob, pc, stack, scan, uart16550, dev, dones>>

\* The parent's address_cells.  The root has none: through its null pointer any
\* count of the cells there are may be read, unless the hart traps and stops.
ParentCells == IF Depth > 2 THEN {stack[Depth - 2].cells} ELSE 0..Len(Tok[lex].value)

\* A property: #address-cells is noted in the node, then the prop callback.
Prop ==
  /\ pc = "scan" /\ Tok[lex].t = "prop" /\ Depth > 1
  /\ stack' = IF Tok[lex].name = "#address-cells"
              THEN [stack EXCEPT ![Depth - 1].cells = Tok[lex].value[1]] ELSE stack
  /\ \E cells \in ParentCells : scan' = Remember(scan, Tok[lex], cells)
  /\ lex' = lex + 1
  /\ UNCHANGED <<blob, pc, uart16550, dev, dones>>

\* A child begins: its parent has had its last property.  `child` is named anew,
\* and a new activation scans it.
BeginNode ==
  /\ pc = "scan" /\ Tok[lex].t = "begin"
  /\ CallDone
  /\ scan' = EmptyScan
  /\ stack' = Append([stack EXCEPT ![Depth].at = lex, ![Depth].last = 1], Activation)
  /\ lex' = lex + 1
  /\ UNCHANGED <<blob, pc>>

EndNode ==
  /\ pc = "scan" /\ Tok[lex].t = "end"
  /\ CallDone
  /\ stack' = Front(stack)
  /\ lex' = lex + 1
  /\ UNCHANGED <<blob, pc, scan>>

\* FDT_END: the activation returns without passing the token.
Stop ==
  /\ pc = "scan" /\ Tok[lex].t = "stop"
  /\ CallDone
  /\ stack' = Front(stack)
  /\ pc' = IF Depth = 1 THEN "query" ELSE "scan"
  /\ UNCHANGED <<blob, lex, scan>>

\* The rest of query_uart16550: the fallback address.
Query ==
  /\ pc = "query" /\ pc' = "ready"
  /\ uart16550' = IF uart16550 = 0 THEN Fallback ELSE uart16550
  /\ UNCHANGED <<blob, lex, stack, scan, dev, dones>>

Next == ReadHeader \/ Nop \/ Prop \/ BeginNode \/ EndNode \/ Stop \/ Query

Spec == Init /\ [][Next]_vars

--------------------------------------------------------------------------------
(* What a device tree means, said without scanning it.                         *)

Nesting(p) == Enclosing(Tok, p)

\* The node a property or a node is directly in: the last to begin one level up.
Inner(p) == Max({b \in Begins : b < p /\ Nesting(b) + 1 = Nesting(p)})

Own(b) == {p \in DOMAIN Tok : Tok[p].t = "prop" /\ b < p /\ Inner(p) = b}

Has(b, name) == \E p \in Own(b) : Tok[p].name = name
Value(b, name) == Tok[CHOOSE p \in Own(b) : Tok[p].name = name].value

\* The address in a reg property: its last two address cells are all that fits.
Address(n, v) ==
  (IF n > 0 THEN v[n] ELSE 0) + (IF n > 1 THEN v[n - 1] * Cell ELSE 0)

AddressCells(b) == IF Has(b, "#address-cells") THEN Value(b, "#address-cells")[1] ELSE 2

Meaning(b) ==
  [compat |-> IF Has(b, "compatible") THEN Value(b, "compatible")[1] ELSE 0,
   reg    |-> IF Has(b, "reg") THEN Address(AddressCells(Inner(b)), Value(b, "reg")) ELSE 0,
   speed  |-> IF Has(b, "current-speed") THEN Value(b, "current-speed")[1] ELSE Null,
   freq   |-> IF Has(b, "clock-frequency") THEN Value(b, "clock-frequency")[1] ELSE Null]

\* The nodes that describe a UART this build has a pointer to.
Uarts ==
  {b \in Begins : blob.magic /\ Meaning(b).compat = 1 /\ Pointer(Meaning(b).reg) # 0}

\* A node's properties come first and have different names, cells are cells; the
\* baud rate can be divided by; and, because of the cell counts that leak from one
\* node to the next, a parent of addressed nodes says how many cells they take.
Tidy ==
  \A p \in DOMAIN Tok : Tok[p].t = "prop" =>
    LET b == Inner(p)
        name == Tok[p].name
        value == Tok[p].value
    IN  /\ \A q \in (b + 1)..(p - 1) : Tok[q].t \in {"prop", "nop"}
        /\ \A q \in Own(b) : Tok[q].name = name => q = p
        /\ value \in Seq(0..(Cell - 1)) /\ Len(value) >= 1
        /\ name = "compatible" => value \in {<<0>>, <<1>>}
        /\ name = "current-speed" => 16 * value[1] \in 1..(Cell - 1)
        /\ name = "reg" =>
             /\ Nesting(b) > 0 /\ Has(Inner(b), "#address-cells")
             /\ AddressCells(Inner(b)) <= Len(value)

\* When a node's done callback is due, the scan structure holds exactly what that
\* node says of itself: nothing left over from a sibling, a parent or a child.
ScanIsOwn ==
  pc = "scan" /\ Tok[lex].t \in {"begin", "end"} /\ MayBeDone /\ Tidy
    => scan = Meaning(stack[Depth - 1].at)

\* Every node's done callback is called once, however its children are laid out.
DoneOnce ==
  /\ \A b \in Begins : dones[b] <= 1
  /\ pc = "query" /\ blob.magic => \A b \in Begins : dones[b] = 1

\* The UART used is the first one the tree describes whose address, cut to the
\* pointer of the build, is not null; if there is none, the fallback.
FirstUart ==
  pc = "ready" /\ Tidy =>
    uart16550 = IF Uarts = {} THEN Fallback
                ELSE Pointer(Meaning(CHOOSE b \in Uarts : \A c \in Uarts : b <= c).reg)

\* A UART found is left with interrupts off, DLAB off and the divisor of its own
\* speed and clock, and setting it up transmits nothing.
SetUpQuietly ==
  pc = "ready" /\ Tidy /\ Uarts # {} =>
    LET m == Meaning(CHOOSE b \in Uarts : \A c \in Uarts : b <= c)
    IN  /\ dev.sent = <<>> /\ dev.ier = 0 /\ dev.lcr = 3
        /\ Rated(m) => dev.dll + 256 * dev.dlm = (m.freq \div (16 * m.speed)) % 65536

\* fdt.c: these are the default cell counts, as per the FDT spec: a node without
\* #address-cells of its own decodes its children's reg with two cells.
DefaultCells ==
  pc = "scan" /\ Tok[lex].t = "prop" /\ Tok[lex].name = "reg" =>
    stack[Depth - 2].cells = AddressCells(stack[Depth - 2].at)

--------------------------------------------------------------------------------
(* Why DoneOnce holds: the invariant of FdtScanProofs.                         *)

\* The nodes being scanned, outermost first.
Open == {stack[k].at : k \in 1..(Depth - 1)}

\* The activations nest as the nodes do, a node begun later further up; all but the
\* last have had their node done, that one once its first child begins.
StackInv ==
  /\ blob \in Blobs /\ lex \in DOMAIN Tok
  /\ stack \in Seq([last : {0, 1}, at : 0..Len(Tok), cells : Nat])
  /\ dones \in [Begins -> {0, 1}]
  /\ pc = "header" => lex = 1 /\ stack = <<Activation>>
  /\ pc \in {"header", "scan"} =>
       /\ Depth > 0 /\ Depth = Nesting(lex) + 1
       /\ \A k \in 1..(Depth - 1) :
            /\ stack[k].last = 1
            /\ stack[k].at \in Begins /\ stack[k].at < lex
            /\ \A j \in 1..(k - 1) : stack[j].at < stack[k].at
            /\ dones[stack[k].at] = stack[k + 1].last
       /\ \A b \in Begins :
            /\ b >= lex => dones[b] = 0
            /\ b < lex /\ b \notin Open => dones[b] = 1
  /\ pc = "query" /\ blob.magic => \A b \in Begins : dones[b] = 1

(* Why the others hold, of a tidy tree.                                        *)

\* An activation's node is the innermost one at its depth, and while the activation
\* has seen no child, its node has had nothing but properties.
NestInv ==
  pc = "scan" =>
    /\ blob.magic
    /\ \A k \in 1..(Depth - 1) : Nesting(stack[k].at) = k - 1
    /\ \A b \in Begins : b < lex => Nesting(b) \in Nat
    /\ \A b \in Begins : b < lex /\ Nesting(b) < Depth - 1 => b <= stack[Nesting(b) + 1].at
    /\ MayBeDone =>
         \A q \in (stack[Depth - 1].at + 1)..(lex - 1) : Tok[q].t \in {"prop", "nop"}

\* The cells that children of an open node take are known once it has told them.
CellsInv ==
  pc = "scan" =>
    \A k \in 1..(Depth - 1) : \A p \in Own(stack[k].at) :
      p < lex /\ Tok[p].name = "#address-cells" => stack[k].cells = Tok[p].value[1]

\* What the scan structure holds of a node's properties so far.
Told(b, name) == {p \in Own(b) : p < lex /\ Tok[p].name = name}
ScanInv ==
  pc = "scan" /\ MayBeDone =>
    LET b == stack[Depth - 1].at
    IN  /\ \A p \in Told(b, "compatible") : scan.compat = Tok[p].value[1]
        /\ \A p \in Told(b, "reg") : scan.reg = Address(AddressCells(Inner(b)), Tok[p].value)
        /\ \A p \in Told(b, "current-speed") : scan.speed = Tok[p].value[1]
        /\ \A p \in Told(b, "clock-frequency") : scan.freq = Tok[p].value[1]
        /\ Told(b, "compatible") = {} => scan.compat = 0
        /\ Told(b, "reg") = {} => scan.reg = 0
        /\ Told(b, "current-speed") = {} => scan.speed = Null
        /\ Told(b, "clock-frequency") = {} => scan.freq = Null

\* The UART in use is the first of all, once that one has been done.
UartInv ==
  pc # "ready" =>
    \/ uart16550 = 0 /\ dev = FoundDev /\ \A b \in Uarts : dones[b] = 0
    \/ \E b \in Uarts :
         /\ \A c \in Uarts : b <= c
         /\ uart16550 = Pointer(Meaning(b).reg) /\ dev = Configure(FoundDev, Meaning(b))

ReadyInv == pc = "ready" => FirstUart /\ SetUpQuietly

IInv == StackInv /\ NestInv /\ (Tidy => TypeOK /\ CellsInv /\ ScanInv /\ UartInv /\ ReadyInv)
================================================================================
