-------------------------------- MODULE MCAsks --------------------------------
(***************************************************************************)
(* Instances of Asks for TLC: the sizes of the lines.                      *)
(***************************************************************************)
EXTENDS Asks

\* Two short lines fit; a split line is too long by itself.
ShortLines == [e \in Events |-> IF e \in Split THEN 3 ELSE 1]
=============================================================================
