------------------------------ MODULE MCKvaser ------------------------------
(***************************************************************************)
(* The Kvaser back-end on small instances for TLC.                         *)
(***************************************************************************)
EXTENDS Kvaser, TLC

\* Handles are interchangeable, and so are descriptions; channels are not.
Symmetry == Permutations(Handle) \cup Permutations(Device)
=============================================================================
