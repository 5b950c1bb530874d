----------------------------- MODULE MCWindows ------------------------------
(***************************************************************************)
(* The Windows build with one device of every vendor for TLC.              *)
(***************************************************************************)
EXTENDS Windows

CONSTANTS b1, desc

MCDescription == [b \in {b1} |-> desc]
MCCanBus == [b \in {b1} |-> {0}]
MCIxxatDevice == {<<desc, 0>>}
=============================================================================
