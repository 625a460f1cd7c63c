---------------------------- MODULE MCToolCalls ----------------------------
(* Instances of ToolCalls for TLC.                                         *)
EXTENDS ToolCallsRefinement
=============================================================================
