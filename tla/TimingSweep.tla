------------------------------ MODULE TimingSweep ------------------------------
(* One sweep of src/scripts/driver.py: open the output file, program the FPGA, *)
(* prepare a private copy of the sources, compile one test per pair of         *)
(* operands, run them one after the other on the board, pick each test's line  *)
(* out of what comes in over the UART, and write all results at the end.       *)
(*                                                                             *)
(* The board is part of the model.  The line of a test is eight fields with a  *)
(* tab after each but the last, which the newline ends:                        *)
(*    op1 <digits> op2 <digits> instrs <digits> cycles <digits>                *)
(* It comes in byte by byte and may be cut after any of them.  A byte on the   *)
(* wire is the test it is from and its place in the line; what letter or digit *)
(* it is does not matter beyond that, and all tests' lines have one layout.    *)
EXTENDS Integers, Sequences, FiniteSets

CONSTANTS
  N,            \* the number of tests, one per pair of operands
  MayFail,      \* TRUE: opening, programming and compiling may fail, and whatever
                \* the driver is doing may raise or be killed
  SourceTrees,  \* what the source tree may hold: leftover objects, a build
                \* directory, and whether the work directory is already there
  Sep,          \* Sep[n]: the place of the tab or newline after the n-th field
  Marker        \* the length of the marker, the first letters of the fifth field

ASSUME SweepAssumption ==
  /\ N \in Nat \ {0}
  /\ MayFail \in BOOLEAN
  /\ SourceTrees \subseteq [objects : BOOLEAN, build : BOOLEAN, work : BOOLEAN]
  /\ Sep \in [0..8 -> Nat] /\ Sep[0] = 0
  /\ \A n \in 1..8 : Sep[n - 1] + 1 < Sep[n]
  /\ Marker \in Nat \ {0} /\ Sep[4] + Marker < Sep[5]

Test == 1..N
Byte == Test \X (1..Sep[8])
LineOf(t) == [i \in 1..Sep[8] |-> <<t, i>>]
Whole(t) == SubSeq(LineOf(t), 1, Sep[8] - 1)

\* What the driver looks for: newlines, tabs, digits (of the second, fourth, sixth
\* and eighth field; no label is a number) and the end of the marker.
IsNewline(s) == s[2] = Sep[8]
IsTab(s) == \E n \in 1..7 : s[2] = Sep[n]
IsDigit(s) == \E n \in {2, 4, 6, 8} : Sep[n - 1] < s[2] /\ s[2] < Sep[n]
Past == Sep[4] + Marker

VARIABLES
  wholeLines,  \* a line reaches the host all at once, or byte by byte (fixed)
  pc,        \* where the driver is
  tree,      \* what is in the tree the driver works on
  built,     \* the tests whose ELF exists in build/
  running,   \* the test on the board, 0 before the first
  toPrint,   \* what that test has still to print
  wire,      \* what the UART has received and the driver has not read
  pending,   \* the local variable pending of collect_lines
  lines,     \* the lines collected, one per test
  output     \* what was written to the output file

vars == <<wholeLines, pc, tree, built, running, toPrint, wire, pending, lines, output>>
board == <<running, toPrint, wire>>

Setup == {"open", "program", "copy", "mkdir", "clean", "build"}
Sweeping == {"launch", "look", "fetch", "format", "write"}

\* Everything written; sys.exit(1); an exception of the driver's own making; an
\* exception or a signal from outside.
Ended == {"done", "die", "crash", "failed"}

\* A result is the digits of its four numbers.
Result == [op1 : Seq(Byte), op2 : Seq(Byte), instrs : Seq(Byte), cycles : Seq(Byte)]

\* The driver never asks for more than has come in, nor collects more than N lines.
TypeOK ==
  /\ wholeLines \in BOOLEAN
  /\ pc \in Setup \cup Sweeping \cup Ended
  /\ tree \in [objects : BOOLEAN, build : BOOLEAN, work : BOOLEAN]
  /\ built \subseteq Test
  /\ running \in 0..N
  /\ toPrint \in Seq(Byte) /\ wire \in Seq(Byte)
  /\ pending \in 0..Len(wire)
  /\ lines \in Seq(Seq(Byte)) /\ Len(lines) \in 0..N
  /\ output \in Seq(Result)

Init ==
  /\ wholeLines \in BOOLEAN
  /\ pc = "open"
  /\ tree \in SourceTrees
  /\ built = {}
  /\ running = 0 /\ toPrint = <<>> /\ wire = <<>>
  /\ pending = 0
  /\ lines = <<>> /\ output = <<>>

\* rstrip: a chunk read from the UART without the tabs and newlines it ends in.
Stripped(c) ==
  LET blank(j) == IsTab(c[j]) \/ IsNewline(c[j])
  IN  SubSeq(c, 1, CHOOSE b \in 0..Len(c) : /\ \A j \in (b + 1)..Len(c) : blank(j)
                                            /\ b > 0 => ~blank(b))

\* split: the lines of a chunk are its longest stretches without a newline, as pairs
\* of positions.
Stretch(c, a, b) ==
  /\ \A k \in a..b : ~IsNewline(c[k])
  /\ a = 1 \/ IsNewline(c[a - 1])
  /\ b = Len(c) \/ IsNewline(c[b + 1])

\* The marker is at k.
MarkerAt(c, k) == \A i \in 1..Marker : c[k + i - 1][2] = Sep[4] + i

\* (A deliberately wrong variant of HasMarker: only at the start of a line.)
HasMarker_AtStart(c, a, b) == a + Marker <= b + 1 /\ MarkerAt(c, a)

\* 'instr' in l
HasMarker(c, a, b) == \E k \in a..(b + 1 - Marker) : MarkerAt(c, k)

Marked(c) ==
  {s \in (1..Len(c)) \X (1..Len(c)) :
     s[1] <= s[2] /\ Stretch(c, s[1], s[2]) /\ HasMarker(c, s[1], s[2])}

First(c) == CHOOSE s \in Marked(c) : \A r \in Marked(c) : s[1] <= r[1]

\* line.split('\t'): the tabs of a line, one after the other, up to the seventh.
NextTab(l) ==
  [j \in 0..(Len(l) + 1) |->
     IF \E i \in (j + 1)..Len(l) : IsTab(l[i])
     THEN CHOOSE i \in (j + 1)..Len(l) : IsTab(l[i]) /\ \A k \in (j + 1)..(i - 1) : ~IsTab(l[k])
     ELSE Len(l) + 1]
Tab1(l) == NextTab(l)[0]
Tab2(l) == NextTab(l)[Tab1(l)]
Tab3(l) == NextTab(l)[Tab2(l)]
Tab4(l) == NextTab(l)[Tab3(l)]
Tab5(l) == NextTab(l)[Tab4(l)]
Tab6(l) == NextTab(l)[Tab5(l)]
Tab7(l) == NextTab(l)[Tab6(l)]

\* int(field, 16) raises unless the field between a and b is digits.
Number(l, a, b) == a + 1 < b /\ \A j \in (a + 1)..(b - 1) : IsDigit(l[j])

\* format_line raises unless there are eight fields, four of them numbers.
Parses(l) ==
  /\ Tab7(l) <= Len(l) /\ NextTab(l)[Tab7(l)] = Len(l) + 1
  /\ Number(l, Tab1(l), Tab2(l)) /\ Number(l, Tab3(l), Tab4(l))
  /\ Number(l, Tab5(l), Tab6(l)) /\ Number(l, Tab7(l), Len(l) + 1)

Between(l, a, b) == SubSeq(l, a + 1, b - 1)
format_line(l) ==
  [op1 |-> Between(l, Tab1(l), Tab2(l)), op2 |-> Between(l, Tab3(l), Tab4(l)),
   instrs |-> Between(l, Tab5(l), Tab6(l)), cycles |-> Between(l, Tab7(l), Len(l) + 1)]

--------------------------------------------------------------------------------
\* Deliberately wrong variants, used to show that the properties can fail.
Format_WriteAsYouGo ==
  /\ pc = "format"
  /\ IF Parses(lines[Len(output) + 1])
     THEN /\ output' = Append(output, format_line(lines[Len(output) + 1]))
          /\ pc' = IF Len(output') = N THEN "write" ELSE "format"
     ELSE pc' = "crash" /\ output' = output
  /\ UNCHANGED <<wholeLines, tree, built, board, pending, lines>>

Look_OneMore ==
  /\ pc = "look" /\ wire # <<>>
  /\ pending' = Len(wire) + 1
  /\ pc' = "fetch"
  /\ UNCHANGED <<wholeLines, tree, built, board, lines, output>>

Fetch_NotSplit ==
  /\ pc = "fetch"
  /\ wire' = SubSeq(wire, pending + 1, Len(wire))
  /\ pending' = 0
  /\ lines' = Append(lines, SubSeq(wire, 1, pending))
  /\ pc' = IF Len(lines') = N THEN "format" ELSE "launch"
  /\ UNCHANGED <<wholeLines, tree, built, running, toPrint, output>>

Fetch_NotConsumed ==
  /\ pc = "fetch"
  /\ pending' = 0
  /\ \E c \in {Stripped(SubSeq(wire, 1, pending))} :
       IF Marked(c) = {}
       THEN pc' = "look" /\ lines' = lines
       ELSE /\ lines' = Append(lines, SubSeq(c, First(c)[1], First(c)[2]))
            /\ pc' = IF Len(lines') = N THEN "format" ELSE "launch"
  /\ UNCHANGED <<wholeLines, tree, built, board, output>>
--------------------------------------------------------------------------------
\* A step of the driver that only moves on, or fails and ends in label.
Proceed(here, there, label) ==
  /\ pc = here
  /\ pc' \in {there} \cup (IF MayFail THEN {label} ELSE {})
  /\ UNCHANGED <<wholeLines, tree, built, board, pending, lines, output>>

\* main: open the output file; getFpgaHandle: program the FPGA, set up the UART.
Open == Proceed("open", "program", "die")
ProgramFpga == Proceed("program", "copy", "die")

\* setupBuildDir: copytree refuses a work directory that is already there.
CopySources ==
  /\ pc = "copy"
  /\ pc' = IF tree.work THEN "crash" ELSE "mkdir"
  /\ UNCHANGED <<wholeLines, tree, built, board, pending, lines, output>>

\* setupBuildDir: a build directory from development is removed first.
MakeBuildDir ==
  /\ pc = "mkdir" /\ pc' = "clean"
  /\ tree' = [tree EXCEPT !.build = FALSE]
  /\ UNCHANGED <<wholeLines, built, board, pending, lines, output>>

\* setupBuildDir: each object file is passed to os.rm, which os does not have.
RemoveObjects ==
  /\ pc = "clean"
  /\ pc' = IF tree.objects THEN "crash" ELSE "build"
  /\ UNCHANGED <<wholeLines, tree, built, board, pending, lines, output>>

\* buildTests: one make after the other in one script, whose exit status is that
\* of the last of them.
BuildTests ==
  /\ pc = "build"
  /\ built' \in IF MayFail THEN SUBSET Test ELSE {Test}
  /\ pc' = IF N \in built' THEN "launch" ELSE "die"
  /\ UNCHANGED <<wholeLines, tree, board, pending, lines, output>>

\* run_timing_test: interrupt the board and load the next test; what the one
\* before has not printed yet it never will.  Without its ELF nothing runs.
Launch ==
  /\ pc = "launch" /\ pc' = "look"
  /\ running' = running + 1
  /\ toPrint' = IF running' \in built THEN LineOf(running') ELSE <<>>
  /\ UNCHANGED <<wholeLines, tree, built, wire, pending, lines, output>>

\* collect_lines: how much has come in.
Look ==
  /\ pc = "look" /\ wire # <<>>
  /\ pending' = Len(wire)
  /\ pc' = "fetch"
  /\ UNCHANGED <<wholeLines, tree, built, board, lines, output>>

\* collect_lines: read that much (not what came in since), and return if one of
\* the lines in it has the marker; what the others hold is dropped.
Fetch ==
  /\ pc = "fetch"
  /\ wire' = SubSeq(wire, pending + 1, Len(wire))
  /\ pending' = 0
  /\ \E c \in {Stripped(SubSeq(wire, 1, pending))} :
       IF Marked(c) = {}
       THEN pc' = "look" /\ lines' = lines
       ELSE /\ lines' = Append(lines, SubSeq(c, First(c)[1], First(c)[2]))
            /\ pc' = IF Len(lines') = N THEN "format" ELSE "launch"
  /\ UNCHANGED <<wholeLines, tree, built, running, toPrint, output>>

\* format_lines: all lines are parsed before the first result is written.
Format ==
  /\ pc = "format"
  /\ pc' = IF \A k \in Test : Parses(lines[k]) THEN "write" ELSE "crash"
  /\ UNCHANGED <<wholeLines, tree, built, board, pending, lines, output>>

\* sweep: the results are written one by one, and the file is closed at exit.
Write ==
  /\ pc = "write"
  /\ IF Len(output) < N
     THEN output' = Append(output, format_line(lines[Len(output) + 1])) /\ pc' = "write"
     ELSE output' = output /\ pc' = "done"
  /\ UNCHANGED <<wholeLines, tree, built, board, pending, lines>>

\* Copying, interrupting the board and launching a test, reading the UART, decoding
\* what was read and writing raise when the disk, the debugger, the line or the
\* encoding fails, nobody catches it, and the driver can be killed at any time.
\* Results that are still in the file's buffer then may not reach the file (one that
\* is cut in two counts as missing).
Raise ==
  /\ MayFail /\ pc \notin Ended
  /\ pc' = "failed"
  /\ \E m \in 0..Len(output) : output' = SubSeq(output, 1, m)
  /\ UNCHANGED <<wholeLines, tree, built, board, pending, lines>>

\* The board prints: the whole line, or as much of it as the UART takes.
Transmit ==
  /\ pc \notin Ended
  /\ toPrint # <<>>
  /\ LET k == IF wholeLines THEN Len(toPrint) ELSE 1
     IN  /\ wire' = wire \o SubSeq(toPrint, 1, k)
         /\ toPrint' = SubSeq(toPrint, k + 1, Len(toPrint))
  /\ UNCHANGED <<wholeLines, pc, tree, built, running, pending, lines, output>>

Driver ==
  \/ Open \/ ProgramFpga \/ CopySources \/ MakeBuildDir \/ RemoveObjects
  \/ BuildTests \/ Launch \/ Look \/ Fetch \/ Format \/ Write

Next == Driver \/ Transmit \/ Raise

Spec == Init /\ [][Next]_vars

\* The driver, unless something fails, and the board both keep going.
FairSpec == Spec /\ WF_vars(Driver) /\ WF_vars(Transmit)

--------------------------------------------------------------------------------
\* The last byte of the line collected for a test.
Reached(t) == lines[t][Len(lines[t])][2]

\* Wherever the stream is cut, the line collected for the k-th test is that of the k-th
\* test: its marker is in it, and around it the bytes of its line in order, without a
\* gap.  Its first fields may be missing, and its last; what can stand in front of it
\* is a piece of the line before, past all that was collected of that.
LinesAttributed ==
  \A k \in DOMAIN lines :
    LET l == lines[k]
    IN  /\ \E j \in DOMAIN l : l[j][1] = k /\ MarkerAt(l, j)
        /\ \A j \in DOMAIN l : l[j][1] # k => l[j][1] = k - 1 /\ l[j][2] > Reached(k - 1)
        /\ \A j \in 1..(Len(l) - 1) :
             \/ l[j + 1] = <<l[j][1], l[j][2] + 1>>
             \/ l[j][1] = k - 1 /\ l[j + 1] = <<k, 1>>

\* The digits of one field of the line of a test, and some of them, from the first.
FieldOf(t, n) == SubSeq(LineOf(t), Sep[n - 1] + 1, Sep[n] - 1)
BeginningOf(t, n) == {SubSeq(LineOf(t), Sep[n - 1] + 1, m) : m \in (Sep[n - 1] + 1)..(Sep[n] - 1)}

\* The output file never holds more than the results of the first tests, in their
\* order, and none unless every test was compiled, whatever the build's exit status,
\* and every line could be parsed.  It may lack the last ones when the driver failed,
\* not when it came to its end.  However the stream was cut, a result that is written
\* for a test is that test's: both operands, the instructions, and the first digits of
\* the cycles.
ResultsInOrder ==
  /\ output # <<>> =>
       /\ built = Test /\ Len(lines) = N
       /\ \A k \in Test : Parses(lines[k])
  /\ pc = "done" => Len(output) = N
  /\ \A k \in DOMAIN output :
       /\ output[k].op1 = FieldOf(k, 2) /\ output[k].op2 = FieldOf(k, 4)
       /\ output[k].instrs = FieldOf(k, 6) /\ output[k].cycles \in BeginningOf(k, 8)

\* When lines arrive whole, what is collected for each test is its whole line.
WholeLinesKept ==
  wholeLines => \A k \in DOMAIN lines : lines[k] = Whole(k)

\* When lines arrive whole and every test was built, the sweep comes to its end unless
\* something from outside ends it: test complete, results in the output file.
SweepEnds ==
  wholeLines => (pc = "launch" /\ built = Test) ~> pc \in {"done", "failed"}

\* What the driver's mock tester supplies, and format_line takes for granted:
\* every line collected is the whole line of its test.
CollectedWholeLines ==
  \A k \in DOMAIN lines : lines[k] = Whole(k)
--------------------------------------------------------------------------------
(* Why these hold: the inductive invariant of TimingSweepProofs.               *)

\* s is bytes of the line of t in order, the first of them in place 1 - o of s; in the
\* places before, bytes of the line before, past its marker.
Mixed(s, t, g, o) ==
  \A j \in 1..Len(s) : s[j] = IF o + j > 0 THEN <<t, o + j>> ELSE <<t - 1, g + j>>

\* Bytes of a line that come in front of the next one's are past what was collected.
From(t) == IF t <= 1 THEN Past ELSE Reached(t - 1)

\* What of the board's output the driver has not read yet.
Coming == wire \o toPrint

\* While a test runs, what is left of the line before and then the rest of its own are
\* to come; before the next is launched, the end of its line, past the marker.
ComingInv ==
  /\ pc \in Setup => Coming = <<>>
  /\ pc = "launch" =>
       /\ Len(Coming) <= IF running = 0 THEN 0 ELSE Sep[8] - From(running + 1)
       /\ \A j \in 1..Len(Coming) : Coming[j] = <<running, Sep[8] - Len(Coming) + j>>
  /\ pc \in {"look", "fetch"} =>
       \E g \in From(running)..Sep[8] :
         Mixed(Coming, running, g, (IF running \in built THEN Sep[8] ELSE 0) - Len(Coming))

\* Each line collected has the marker of its own test in it.
LineInv ==
  \A k \in DOMAIN lines :
    /\ k \in built
    /\ \E o \in (Past - Len(lines[k]))..Sep[4] :
         /\ o + Len(lines[k]) < Sep[8]
         /\ \E g \in From(k)..Sep[8] : Mixed(lines[k], k, g, o)

\* A line is collected per test launched, and results are written at the end only.
CountInv ==
  /\ pc \in Setup \cup {"launch"} => running = Len(lines)
  /\ pc \in {"look", "fetch"} => running = Len(lines) + 1
  /\ pc \in Setup => lines = <<>>
  /\ pc \in {"launch", "look", "fetch"} => Len(lines) < N
  /\ pc \in {"format", "write", "done"} => Len(lines) = N
  /\ pc \notin {"write", "done", "failed"} => output = <<>>
  /\ pc \in {"write", "done"} \/ output # <<>> =>
       Len(lines) = N /\ \A k \in Test : Parses(lines[k])
  /\ Len(output) <= N /\ \A k \in DOMAIN output : output[k] = format_line(lines[k])
  /\ pc = "done" => Len(output) = N

\* Lines that arrive whole are read whole.
WholeInv ==
  wholeLines =>
    /\ pc \in Setup \cup {"launch"} => wire = <<>> /\ toPrint = <<>>
    /\ pc \in {"look", "fetch"} =>
         \/ wire = <<>> /\ toPrint \in {<<>>, LineOf(running)}
         \/ wire = LineOf(running) /\ toPrint = <<>>
    /\ pc = "fetch" => wire = LineOf(running) /\ pending = Len(wire)
    /\ \A k \in DOMAIN lines : lines[k] = Whole(k)

IInv == TypeOK /\ ComingInv /\ LineInv /\ CountInv /\ WholeInv
================================================================================
