------------------------ MODULE ToolCallsRefinement ------------------------
(***************************************************************************)
(* ToolCalls implements ToolAnswers: with the supervisor, the deadlines    *)
(* and every way to cancel, a call is still answered exactly once.         *)
(***************************************************************************)
EXTENDS ToolCalls

PhaseOf(c) == CASE status[c] = "none" -> "new"
                [] status[c] = "running" -> "asked"
                [] status[c] = "offloaded" -> "background"
                [] status[c] = "completed" ->
                     IF pc[c] = "report" THEN "ended" ELSE "over"

\* An end state set by the tool counts once the call is finalized.
OutcomeOf(c) == IF status[c] = "completed" THEN endState[c] ELSE "none"

Answers == INSTANCE ToolAnswers WITH
             Outcomes <- {"success", "error", "interrupted"},
             NoOutcome <- "none",
             phase <- [c \in Calls |-> PhaseOf(c)],
             outcome <- [c \in Calls |-> OutcomeOf(c)],
             reports <- hints

\* Each call is answered once: in the foreground without a hint, in the
\* background by exactly one hint, and its outcome never changes afterwards,
\* however the end of the tool, a deadline, a cancellation and a shutdown race.
ImplementsToolAnswers == Answers!Spec
=============================================================================
