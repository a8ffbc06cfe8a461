-------------------------------- MODULE Klib --------------------------------
(***************************************************************************)
(* A call of any function of kernel/tools/klib.c, run to its end: the      *)
(* formatting of module Format, or a helper of module Strings.             *)
(***************************************************************************)
EXTENDS Format, Strings

vars == <<fmtVars, strVars>>

\* A call that only formats leaves the helpers alone, and the other way: an
\* empty format has been written, no helper has been called.
NoFormat ==
  /\ fmt = <<>> /\ k = 1 /\ state = "NORMAL" /\ args = <<>> /\ buf = <<NUL>>
  /\ pc = "done" /\ num = 0 /\ base = 10 /\ start = 0 /\ end = 0

NoHelper ==
  /\ bytes = [a \in Address |-> 0] /\ before = bytes
  /\ call = [op |-> "none", dest |-> 0, src |-> 0, c |-> 0, size |-> 0]
  /\ p = 0 /\ q = 0 /\ i = 0 /\ ret = "void"

Init == (FmtInit /\ NoHelper) \/ (NoFormat /\ StrInit)

Returned == pc \in {"done", "spin"} /\ ret # "loop" /\ UNCHANGED vars

Next ==
  \/ FmtNext /\ UNCHANGED strVars
  \/ StrNext /\ UNCHANGED fmtVars
  \/ Returned

Spec == Init /\ [][Next]_vars /\ WF_vars(Next)

-----------------------------------------------------------------------------

\* Every call returns, but for kernel_itoa with a base it does not know or
\* with a negative number in base 16, where it loops forever.
CallsReturn ==
  <>(/\ ret # "loop"
     /\ pc = "done" \/ (pc = "spin" /\ (base = 8 \/ (num < 0 /\ base = 16))))

=============================================================================
