------------------------------ MODULE MCWatches -------------------------------
(***************************************************************************)
(* Instances of Watches for TLC: every watch matches every source, and the *)
(* first one expires.                                                      *)
(***************************************************************************)
EXTENDS Watches

CONSTANTS w1, w2, c1, s1, s2, FireLimit, Seconds

AllSources == [w \in Declarations |-> Sources]
Limits == [w \in Declarations |-> FireLimit]
Lifetimes == [w \in Declarations |-> IF w = w1 THEN Seconds ELSE 0]
=============================================================================
