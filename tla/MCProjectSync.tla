--------------------------- MODULE MCProjectSync ---------------------------
(* Instances of ProjectSync for TLC.                                       *)
EXTENDS ProjectSync
=============================================================================
