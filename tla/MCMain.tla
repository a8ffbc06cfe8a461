------------------------------- MODULE MCMain -------------------------------
(***************************************************************************)
(* The program of init.c with one of the printing tasks that init_main     *)
(* has ready.                                                              *)
(***************************************************************************)
EXTENDS Main

MCInitCount == [s \in Sems |-> 0]

=============================================================================
