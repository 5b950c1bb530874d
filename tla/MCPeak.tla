------------------------------- MODULE MCPeak -------------------------------
(***************************************************************************)
(* The PEAK back-end on small instances for TLC.                           *)
(***************************************************************************)
EXTENDS Peak, TLC

\* Channels with a name of their own are interchangeable, and so are the others.
Symmetry == Permutations(Named) \cup Permutations(Channel \ Named)
=============================================================================
