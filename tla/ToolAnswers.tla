----------------------------- MODULE ToolAnswers -----------------------------
(***************************************************************************)
(* What an agent and its session may rely on from the tool call            *)
(* coordinator, without tasks, queues or deadlines.  A call is answered    *)
(* once, with one outcome that stays: in the foreground by what execute    *)
(* yields last, or, after the agent was told that the call goes on in the  *)
(* background, by one hint for the session.                                *)
(***************************************************************************)
EXTENDS Sequences

CONSTANTS Calls, Outcomes, NoOutcome

VARIABLES
    phase,      \* "new", "asked", "background", "ended" or "over"
    outcome,    \* what the call came to; NoOutcome until it is over
    reports     \* hints the session has not read yet

answerVars == <<phase, outcome, reports>>

Init ==
    /\ phase = [c \in Calls |-> "new"]
    /\ outcome = [c \in Calls |-> NoOutcome]
    /\ reports = <<>>

Ask(c) ==
    /\ phase[c] = "new"
    /\ phase' = [phase EXCEPT ![c] = "asked"]
    /\ UNCHANGED <<outcome, reports>>

GoOn(c) ==
    /\ phase[c] = "asked"
    /\ phase' = [phase EXCEPT ![c] = "background"]
    /\ UNCHANGED <<outcome, reports>>

ComeTo(c, o, end) ==
    /\ phase' = [phase EXCEPT ![c] = end]
    /\ outcome' = [outcome EXCEPT ![c] = o]
    /\ UNCHANGED reports

Answer(c, o) ==
    /\ phase[c] = "asked"
    /\ ComeTo(c, o, "over")

End(c, o) ==
    /\ phase[c] = "background"
    /\ ComeTo(c, o, "ended")

Report(c) ==
    /\ phase[c] = "ended"
    /\ phase' = [phase EXCEPT ![c] = "over"]
    /\ reports' = Append(reports, c)
    /\ UNCHANGED outcome

ReadReports ==
    /\ reports' = <<>>
    /\ UNCHANGED <<phase, outcome>>

Next ==
    \/ \E c \in Calls : \/ Ask(c) \/ GoOn(c) \/ Report(c)
                        \/ \E o \in Outcomes : Answer(c, o) \/ End(c, o)
    \/ ReadReports

Spec == Init /\ [][Next]_answerVars
=============================================================================
