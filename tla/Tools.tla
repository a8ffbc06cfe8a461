-------------------------------- MODULE Tools --------------------------------
(***************************************************************************)
(* The functions under kernel/tools that the rest of the kernel is built   *)
(* on: one call of a function of klib.c, run to its end (module Klib), or  *)
(* any sequence of calls of list.c (module DList).  The two share no state *)
(* and call no function of each other.                                     *)
(***************************************************************************)
EXTENDS Klib, DList

toolsVars == <<vars, listVars>>

\* No function of klib.c is running.
Quiet == NoFormat /\ NoHelper

ToolsInit == ListInit /\ (Init \/ Quiet)

ToolsNext ==
  \/ Next /\ UNCHANGED listVars
  \/ Quiet /\ ListNext /\ UNCHANGED vars

\* A function of klib.c runs on; the kernel may stop to use its lists.
ToolsSpec == ToolsInit /\ [][ToolsNext]_toolsVars /\ WF_vars(Next)

=============================================================================
