------------------------------- MODULE MCIngest -------------------------------
(***************************************************************************)
(* Instances of Ingest for TLC: every edit and deletion names one trigger. *)
(***************************************************************************)
EXTENDS Ingest

CONSTANTS t1, n1, n2, e1, e2

OneTarget == [e \in Mutations |-> t1]
=============================================================================
