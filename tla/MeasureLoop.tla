------------------------------ MODULE MeasureLoop ------------------------------
(* The measurement every timing test makes: int-driver.c, single-driver.c,     *)
(* double-driver.c and latency-driver.c of src/src.  An empty loop and a loop  *)
(* with the tested instruction in it are timed with mcycle and minstret, and   *)
(* the difference of the two is printed.  (The latency driver times only its   *)
(* empty loop and prints that.)                                                *)
(*                                                                             *)
(* The counters are as wide as a register and wrap; subw keeps the low word of *)
(* a difference and extends its sign; %x prints a word, %llx a register.  How  *)
(* many cycles an instruction takes is up to the processor, none at all when   *)
(* it retires together with another.                                           *)
EXTENDS Integers

CONSTANTS
  Word,     \* 2^32
  Reg,      \* 2^64, the registers of RV64; those of RV32 hold a Word
  Last,     \* Last[d]: what x21 is loaded with in driver d
  Costs,    \* the cycles an instruction may take
  Starts    \* the values a counter may have when a loop starts

Names == {"int", "single", "double", "latency"}

ASSUME MeasureAssumption ==
  /\ Word \in Nat \ {0} /\ Word % 2 = 0
  /\ \E k \in 1..Reg : Reg = k * Word
  /\ Last \in [Names -> Nat]
  /\ \A d \in Names : 4 * Last[d] + 8 < Word \div 2
  /\ Costs \subseteq Nat /\ Starts \subseteq Nat

VARIABLES
  driver,            \* which driver, and XLEN (fixed)
  loop,              \* "empty" or "busy"
  pc,                \* the instruction to execute next
  x20,               \* the loop counter
  mcycle, minstret,
  start,             \* x25 and x26: the counters when the loop started
  taken,             \* what each loop measured
  printed,           \* what main prints, None before
  spent              \* history: the cycles between the two readings of mcycle

vars == <<driver, loop, pc, x20, mcycle, minstret, start, taken, printed, spent>>

None == [cycles |-> -1, instrs |-> -1]

Size == IF driver.xlen = 32 THEN Word ELSE Reg

\* A single-precision test may be built for RV32, which has no subw.
Drivers == [name : Names, xlen : {64}] \cup [name : {"single"}, xlen : {32}]

\* Counters and differences fit a register; the loop counter stays within its bound.
TypeOK ==
  /\ driver \in Drivers
  /\ loop \in {"empty", "busy"}
  /\ pc \in {"setup", "csrr", "jal", "inst", "fence", "addi", "bleu", "term", "read", "print", "done"}
  /\ x20 \in 0..(Last[driver.name] + 1)
  /\ mcycle \in 0..(Size - 1) /\ minstret \in 0..(Size - 1)
  /\ start \in [cycles : 0..(Size - 1), instrs : 0..(Size - 1)]
  /\ taken \in [{"empty", "busy"} -> [cycles : 0..(Size - 1), instrs : 0..(Size - 1)]]
  /\ printed \in [cycles : 0..(Size - 1), instrs : 0..(Size - 1)] \cup {None}
  /\ spent \in [{"empty", "busy"} -> Nat]

Zero == [cycles |-> 0, instrs |-> 0]

Init ==
  /\ driver \in Drivers
  /\ loop = "empty" /\ pc = "setup"
  /\ x20 = 0
  /\ mcycle = 0 /\ minstret = 0
  /\ start = Zero
  /\ taken = [l \in {"empty", "busy"} |-> Zero]
  /\ printed = None
  /\ spent = [l \in {"empty", "busy"} |-> 0]

\* An instruction retires and execution goes on at there.
Retire(there, cost) ==
  /\ mcycle' = (mcycle + cost) % Size
  /\ minstret' = (minstret + 1) % Size
  /\ spent' = [spent EXCEPT ![loop] = @ + cost]
  /\ pc' = there

Plain(here, there) ==
  /\ pc = here
  /\ \E cost \in Costs : Retire(there, cost)
  /\ UNCHANGED <<driver, loop, x20, start, taken, printed>>

LoopStart == IF loop = "busy" THEN "inst" ELSE "fence"

\* (Deliberately wrong variants: a difference not cut to a word, one cut that
\* should not be, a turn too few, no end.)
SubW_Untruncated(a, b) == a - b

Shown_AlwaysWord(v) == v % Word

Bleu_Less ==
  /\ pc = "bleu"
  /\ \E cost \in Costs : Retire(IF x20 < Last[driver.name] THEN LoopStart ELSE "term", cost)
  /\ UNCHANGED <<driver, loop, x20, start, taken, printed>>

\* subw on RV64, sub on RV32.
SubW(a, b) ==
  LET w == (a - b) % Word
  IN  IF w < Word \div 2 THEN w ELSE (w - Word) % Size

\* printf: %x takes an unsigned int, %llx (double only) an unsigned long long.
Shown(v) == v % (IF driver.name = "double" THEN Size ELSE Word)

\* Up to _init, and from there to the readings: nothing of it is timed.
Setup ==
  /\ pc = "setup"
  /\ x20' = 0
  /\ \E c, n \in Starts : mcycle' = c % Size /\ minstret' = n % Size
  /\ pc' = "csrr"
  /\ UNCHANGED <<driver, loop, start, taken, printed, spent>>

\* csrr x25, mcycle; csrr x26, minstret (the first of them retires in between).
\* The latency driver's loop follows at once, the others jump to it.
ReadStart ==
  /\ pc = "csrr"
  /\ start' = [cycles |-> mcycle, instrs |-> (minstret + 1) % Size]
  /\ \E cost \in Costs :
       /\ mcycle' = (mcycle + cost) % Size
       /\ spent' = [spent EXCEPT ![loop] = @ + cost]
  /\ minstret' = (minstret + 2) % Size
  /\ pc' = IF driver.name = "latency" THEN "fence" ELSE "jal"
  /\ UNCHANGED <<driver, loop, x20, taken, printed>>

Jal == Plain("jal", LoopStart)

\* The instruction under test.
Inst == Plain("inst", "fence")

Fence == Plain("fence", "addi")

Addi ==
  /\ pc = "addi"
  /\ x20' = (x20 + 1) % Size
  /\ \E cost \in Costs : Retire("bleu", cost)
  /\ UNCHANGED <<driver, loop, start, taken, printed>>

Bleu ==
  /\ pc = "bleu"
  /\ \E cost \in Costs : Retire(IF x20 <= Last[driver.name] THEN LoopStart ELSE "term", cost)
  /\ UNCHANGED <<driver, loop, x20, start, taken, printed>>

JalTerm == Plain("term", "read")

\* csrr x27, mcycle; csrr x28, minstret; the two subtractions.  Then the other
\* loop is called, or main is done with them.
ReadEnd ==
  /\ pc = "read"
  /\ taken' = [taken EXCEPT ![loop] =
       [cycles |-> SubW(mcycle, start.cycles),
        instrs |-> SubW((minstret + 1) % Size, start.instrs)]]
  /\ IF loop = "empty" /\ driver.name # "latency"
     THEN loop' = "busy" /\ pc' = "setup"
     ELSE loop' = loop /\ pc' = "print"
  /\ UNCHANGED <<driver, x20, mcycle, minstret, start, printed, spent>>

\* main: print the differences, or the latency driver's only loop.
Report ==
  /\ pc = "print"
  /\ printed' =
       IF driver.name = "latency"
       THEN [cycles |-> Shown(taken["empty"].cycles), instrs |-> Shown(taken["empty"].instrs)]
       ELSE [cycles |-> Shown(taken["busy"].cycles - taken["empty"].cycles),
             instrs |-> Shown(taken["busy"].instrs - taken["empty"].instrs)]
  /\ pc' = "done"
  /\ UNCHANGED <<driver, loop, x20, mcycle, minstret, start, taken, spent>>

Next ==
  \/ Setup \/ ReadStart \/ Jal \/ Inst \/ Fence \/ Addi \/ Bleu \/ JalTerm
  \/ ReadEnd \/ Report

Spec == Init /\ [][Next]_vars

--------------------------------------------------------------------------------
Turns == Last[driver.name] + 1

\* Whatever the counters start from, wrapping included, the instruction count
\* printed is the number of tested instructions executed, one per turn of the
\* loop and one turn more than x21 says (11, printed b, in the integer tests);
\* for the latency driver it is that of its loop and the three around it (the second
\* csrr before it, the jump out of it and the first csrr after).
InstrsExact ==
  pc = "done" =>
    printed.instrs = IF driver.name = "latency" THEN 3 * Turns + 3 ELSE Turns

\* The cycles printed are what the busy loop took longer than the empty one, in
\* which it has only the tested instructions more: modulo 2^32, and modulo 2^64
\* for a double test if its loops each took less than 2^31 cycles.
CyclesExact ==
  LET fits == \A l \in {"empty", "busy"} : spent[l] < Word \div 2
      longer == IF driver.name = "latency" THEN spent["empty"] ELSE spent["busy"] - spent["empty"]
  IN  pc = "done" =>
        IF driver.name = "double" THEN fits => printed.cycles = longer % Reg
                                  ELSE printed.cycles = longer % Word
--------------------------------------------------------------------------------
(* Why these hold: the inductive invariant of MeasureLoopProofs.               *)

\* Instructions timed in loop l before its first turn, and in n turns of it.
Lead == IF driver.name = "latency" THEN 1 ELSE 2
InTurns(l, n) == IF l = "busy" THEN 4 * n ELSE 3 * n

\* Instructions retired since minstret was read.
Retired ==
  Lead + InTurns(loop, x20) +
    (CASE pc \in {"jal", "bleu"} -> -1
       [] pc = "fence" -> IF loop = "busy" THEN 1 ELSE 0
       [] pc = "addi" -> IF loop = "busy" THEN 2 ELSE 1
       [] pc = "read" -> 1
       [] OTHER -> 0)

Timed == {"jal", "inst", "fence", "addi", "bleu", "term", "read"}

\* Where the loops stand at each instruction.
ControlInv ==
  /\ pc \in {"csrr", "jal"} => x20 = 0
  /\ pc \in {"inst", "fence", "addi"} => x20 <= Last[driver.name]
  /\ pc \in {"term", "read"} => x20 = Last[driver.name] + 1
  /\ pc = "inst" => loop = "busy"
  /\ pc = "jal" => driver.name # "latency"
  /\ pc \in {"setup", "csrr"} => spent[loop] = 0
  /\ loop = "empty" => spent["busy"] = 0
  /\ driver.name = "latency" => loop = "empty"
  /\ pc \in {"print", "done"} => driver.name = "latency" \/ loop = "busy"

\* While a loop is timed the counters are ahead of its start by what it did.
TimedInv ==
  pc \in Timed =>
    /\ mcycle = (start.cycles + spent[loop]) % Size
    /\ minstret = (start.instrs + Retired) % Size

\* v is what subw makes of a difference of n.
Cut(v, n) == v % Word = n % Word /\ (n < Word \div 2 => v = n)

Finished(l) == \/ l = "empty" /\ loop = "busy"
               \/ l = loop /\ pc \in {"print", "done"}

\* What a finished loop measured is what it did.
TakenInv ==
  \A l \in {"empty", "busy"} :
    Finished(l) => /\ Cut(taken[l].cycles, spent[l])
                   /\ Cut(taken[l].instrs, Lead + 2 + InTurns(l, Turns))

IInv == TypeOK /\ ControlInv /\ TimedInv /\ TakenInv /\ InstrsExact /\ CyclesExact
================================================================================
