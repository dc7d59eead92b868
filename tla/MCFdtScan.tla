------------------------------ MODULE MCFdtScan ------------------------------
EXTENDS FdtScan

P(name, v) == [t |-> "prop", name |-> name, value |-> v]
Node(body) == <<[t |-> "begin"]>> \o body \o <<[t |-> "end"]>>
AC(n) == <<P("#address-cells", <<n>>)>>

Speeds == {<<>>,
           <<P("current-speed", <<96>>)>>,
           <<P("clock-frequency", <<32000>>), P("current-speed", <<3>>)>>}

\* A serial port: ns16550a or not, with registers at reg or nowhere.
Serial(c, reg, s) == Node(<<P("compatible", <<c>>)>> \o reg \o s)

Serials(reg) ==
  {Serial(1, <<P("reg", reg)>>, s) : s \in Speeds}
    \cup {Serial(1, <<>>, <<>>), Serial(0, <<P("reg", reg)>>, <<>>)}

Cpus == Node(AC(1) \o Node(<<P("reg", <<7, 0>>)>>))

\* A bus with cells of its own, and one that relies on the default of two.
Bus1 == {Node(AC(1) \o <<[t |-> "nop"]>> \o s) : s \in Serials(<<9, 1>>)}
Bus2 == {Node(AC(2) \o s) : s \in Serials(<<1, 3, 1>>)}
BusDefault == {Node(s) : s \in Serials(<<1, 3, 1>>)}

Board(magic, pointers, body) ==
  [magic |-> magic, pointers |-> pointers, toks |-> Node(body) \o <<[t |-> "stop"]>>]

\* Pointers of a cell (RV32) and of two (RV64).
Widths == {Cell, Cell * Cell}

\* A UART where a pointer of one cell is null.
High == Serial(1, <<P("reg", <<6, 0, 1>>)>>, <<>>)

\* Trees in which every bus gives its #address-cells, up to three nodes deep and
\* with a second device before or after; one whose root has a reg, that no node is
\* the parent of; and trees where a bus does not.
Kids == {<<>>, Cpus, High} \cup Bus1 \cup Bus2 \cup Serials(<<2, 5, 1>>)
GivenCells ==
  {Board(TRUE, w, AC(2) \o a \o b) : w \in Widths, a \in Kids, b \in Kids}
    \cup {Board(FALSE, Cell, AC(2) \o Cpus),
          Board(TRUE, Cell, AC(2) \o <<P("reg", <<8, 4>>)>> \o Serial(1, <<P("reg", <<2, 5>>)>>, <<>>))}
SomeDefaults == {Board(TRUE, Cell, AC(2) \o a \o b) : a \in {<<>>, Cpus}, b \in BusDefault}
================================================================================
