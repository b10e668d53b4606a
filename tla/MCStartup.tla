------------------------------- MODULE MCStartup -------------------------------
(***************************************************************************)
(* Instances of Startup for TLC: two inits share an id, two a directory.   *)
(***************************************************************************)
EXTENDS Startup

CONSTANTS b1, b2, b3, b4, idA, idB, idC, dirA, dirB, dirC

Ids == (b1 :> idA @@ b2 :> idA @@ b3 :> idB @@ b4 :> idC)
Dirs == (b1 :> dirA @@ b2 :> dirB @@ b3 :> dirB @@ b4 :> dirC)
=============================================================================
