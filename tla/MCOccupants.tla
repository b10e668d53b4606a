----------------------------- MODULE MCOccupants -----------------------------
(***************************************************************************)
(* Instances of Occupants for TLC.                                         *)
(***************************************************************************)
EXTENDS Occupants
=============================================================================
