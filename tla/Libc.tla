---------------------------------- MODULE Libc ---------------------------------
(* The two halves of the runtime library, one call of either at a time: a call *)
(* of printf leaves the memory routines idle and the other way round.          *)
EXTENDS Printf, CString

CallOf(f, a, b, n, m) == [f |-> f, a |-> a, b |-> b, n |-> n, mem |-> m]

FmtIdle ==
  /\ asked = <<>> /\ fmt = <<>> /\ args = <<>> /\ p = 1 /\ ap = 1
  /\ spec = NoSpec /\ out = <<>> /\ written = 0
StrIdle ==
  /\ mem = [x \in Cells |-> 0] /\ call = CallOf("strlen", 0, 0, 0, mem)
  /\ i = 0 /\ phase = "bytes" /\ acc = 0 /\ neg = FALSE /\ ret = 0

Init == (FmtInit /\ StrIdle) \/ (StrInit /\ FmtIdle)
Next == (FmtNext /\ UNCHANGED strvars) \/ (StrNext /\ UNCHANGED fmtvars)

libvars == <<fmtvars, strvars>>

Spec == Init /\ [][Next]_libvars

\* The hart keeps executing the call it is in.
FairSpec == Spec /\ WF_libvars(Next)

\* Every call returns, whatever the format and the lengths.
CallsReturn == <>(ret # Running /\ written # Unset)
================================================================================
