--------------------------- MODULE MCTaskTracker ---------------------------
(***************************************************************************)
(* TLC instances of TaskTracker.                                           *)
(***************************************************************************)
EXTENDS TaskTrackerRefinement, TLC

\* Identities are interchangeable; used by the runs without liveness.
Symmetry == Permutations(Runs) \cup Permutations(Queues)
                \cup Permutations(Keys) \cup Permutations(Stoppers)
                \cup Permutations(Events)
=============================================================================
