-------------------------- MODULE MCChannelQueues --------------------------
(***************************************************************************)
(* TLC instances of ChannelQueues.                                         *)
(***************************************************************************)
EXTENDS ChannelQueues, TLC

\* Keys, queues and messages are interchangeable; for the safety runs.
Symmetry == Permutations(Keys) \cup Permutations(States) \cup Permutations(Msgs)
=============================================================================
