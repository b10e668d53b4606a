------------------------------ MODULE MCProgress ------------------------------
(***************************************************************************)
(* Instances of Progress for TLC.                                          *)
(***************************************************************************)
EXTENDS Progress

CONSTANTS b1, b2
=============================================================================
