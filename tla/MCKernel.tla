------------------------------ MODULE MCKernel ------------------------------
(***************************************************************************)
(* Small instances of module Kernel.  ms values are chosen around          *)
(* multiples of OS_TICKS_MS; 0 is a legal argument of sys_sleep.           *)
(***************************************************************************)
EXTENDS Kernel

CONSTANTS a, b, s, m

MCTasks == {main_task, a, b}
MCSems == {s}
MCMutexes == {m}
MCInitCount == [x \in Sems |-> 0]

=============================================================================
