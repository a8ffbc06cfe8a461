------------------------------- MODULE MCTools -------------------------------
(***************************************************************************)
(* An instance of Tools for TLC.                                           *)
(***************************************************************************)
EXTENDS Tools

\* The numbers around those where the sign or the number of digits changes.
SomeInts == {INT_MIN, -10, -1, 0, 9, 10, INT_MAX}

=============================================================================
