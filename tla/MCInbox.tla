-------------------------------- MODULE MCInbox --------------------------------
(***************************************************************************)
(* Inbox for TLC: two messages the host answers and one that it holds.     *)
(***************************************************************************)
EXTENDS Inbox

CONSTANTS m1, m2, m3
=============================================================================
