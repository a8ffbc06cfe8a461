----------------------------- MODULE MCException ----------------------------
(***************************************************************************)
(* The program of init.c, in which tasks may fault.                        *)
(***************************************************************************)
EXTENDS Exception

MCInitCount == [s \in Sems |-> 0]

=============================================================================
