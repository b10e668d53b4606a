-------------------------------- MODULE MCHost --------------------------------
(***************************************************************************)
(* Instances of Host for TLC: the sessions the triggers belong to.         *)
(***************************************************************************)
EXTENDS HostLedger

CONSTANTS e1, e2, e3, c1, c2

OneChannel == [e \in Triggers |-> c1]

\* Two triggers share the first session, the third has the second.
TwoChannels == [e \in Triggers |-> IF e = e3 THEN c2 ELSE c1]
=============================================================================
