------------------------------ MODULE MCIxxat -------------------------------
(***************************************************************************)
(* The Ixxat back-end on small instances for TLC.                          *)
(***************************************************************************)
EXTENDS Ixxat

CONSTANTS b1, b2, desc

\* Two boards of one description; their buses have three names for two slots.
MCBoard == {b1, b2}
MCDescription == [b \in MCBoard |-> desc]
MCCanBus == [b \in MCBoard |-> IF b = b1 THEN {0} ELSE {0, 1, 2}]
MCDevice == {desc} \X {0, 1, 2}
=============================================================================
