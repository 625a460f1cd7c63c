------------------------ MODULE TaskTrackerRefinement ------------------------
(***************************************************************************)
(* TaskTracker implements EventLog: replayed and broadcast queues are a    *)
(* way to let every subscriber read its run's log from the beginning.      *)
(***************************************************************************)
EXTENDS TaskTracker

\* Events taken from a queue: the marker and the sentinel are not events.
EventsTaken(q) ==
    got[q] - (IF marker[q] # 0 /\ got[q] >= marker[q] THEN 1 ELSE 0)
           - (IF reader[q] = "ended" THEN 1 ELSE 0)

\* Those events, in the order they were taken.
EventsSeen(q) ==
    [i \in 1 .. EventsTaken(q) |->
       put[q][IF marker[q] = 0 \/ i < marker[q] THEN i ELSE i + 1]]

\* An aborted run stays open for good: its log is never closed.
LogPhase(r) == CASE task[r] = "unused" -> "new"
                 [] task[r] = "finished" -> "closed"
                 [] OTHER -> "open"

ClientStatus(q) ==
    IF reader[q] \in {"reading", "unread"} THEN "subscribed" ELSE reader[q]

Log == INSTANCE EventLog WITH
         log <- buffer,
         phase <- [r \in Runs |-> LogPhase(r)],
         origin <- source,
         seen <- [q \in Queues |-> EventsSeen(q)],
         status <- [q \in Queues |-> ClientStatus(q)]

\* Each behaviour of the tracker, seen through the mapping, is one of the log:
\* no event is skipped, repeated or altered, and the end is told at the end only.
ImplementsEventLog == Log!Spec
=============================================================================
