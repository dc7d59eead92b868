------------------------------ MODULE FlatMemory ------------------------------
(* What the supervisor of src/src/env/v/vm.c promises the test program running *)
(* on top of it: pages that hold the loaded image at first and then what the   *)
(* program stored last, and an exit code that reaches the host unchanged.      *)
(* DemandPaging is shown to implement this specification.                      *)
CONSTANTS Page,      \* the user pages a test may use
          Insns,     \* the instructions a test may issue
          Image,     \* Image[p]: the contents the program was loaded with
          Contents,  \* the contents a page may have
          None

VARIABLES mem, insn, loaded, outcome

fvars == <<mem, insn, loaded, outcome>>

Init ==
  /\ mem = Image
  /\ insn = None
  /\ loaded = None
  /\ outcome = None

Issue ==
  /\ insn = None
  /\ insn' \in Insns
  /\ UNCHANGED <<mem, loaded, outcome>>

Load ==
  /\ insn # None
  /\ insn.op = "load"
  /\ insn.page \in Page
  /\ loaded' = mem[insn.page]
  /\ insn' = None
  /\ UNCHANGED <<mem, outcome>>

Store ==
  /\ insn # None
  /\ insn.op = "store"
  /\ insn.page \in Page
  /\ mem' = [mem EXCEPT ![insn.page] = insn.val]
  /\ insn' = None
  /\ UNCHANGED <<loaded, outcome>>

\* A page outside the test's range ends the test with the assertion code.
Fail ==
  /\ insn # None
  /\ insn.op \in {"load", "store"}
  /\ insn.page \notin Page
  /\ outcome = None
  /\ outcome' = 3
  /\ UNCHANGED <<mem, insn, loaded>>

\* Nothing is promised about the memory of a program that has ended.
Discard ==
  /\ insn # None
  /\ insn.op = "ecall"
  /\ outcome = None
  /\ mem' \in [Page -> Contents]
  /\ UNCHANGED <<insn, loaded, outcome>>

Exit ==
  /\ insn # None
  /\ insn.op = "ecall"
  /\ outcome = None
  /\ outcome' = insn.val
  /\ UNCHANGED <<mem, insn, loaded>>

Next == Issue \/ Load \/ Store \/ Fail \/ Discard \/ Exit

Spec == Init /\ [][Next]_fvars
================================================================================
