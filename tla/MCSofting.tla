----------------------------- MODULE MCSofting ------------------------------
(***************************************************************************)
(* The Softing back-end on small instances for TLC.                        *)
(***************************************************************************)
EXTENDS Softing, TLC

\* Handles are interchangeable, and so are channels.
Symmetry == Permutations(Handle) \cup Permutations(Device)
=============================================================================
