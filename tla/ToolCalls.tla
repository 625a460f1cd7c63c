----------------------------- MODULE ToolCalls -----------------------------
(***************************************************************************)
(* The tool call coordinator (tool_calls/_coordinator.py).                 *)
(*                                                                         *)
(* A tool runs in an asyncio task of its own and puts its chunks into a    *)
(* queue.  The agent's generator (execute) waits for whichever comes first *)
(* of a chunk, a cancellation, a change of the deadlines and a deadline.   *)
(* At the offload deadline it may hand the call to a supervisor task and   *)
(* return; the supervisor waits the same way, without the chunks, and      *)
(* leaves a hint for the session when the tool is over.  The generator     *)
(* while it runs, then the supervisor, is the attendant of the call.       *)
(*                                                                         *)
(* Time: a deadline is absent, ahead or due.  No repository tool has a     *)
(* before or after hook, and no caller overrides the deadline; both are    *)
(* left out.                                                               *)
(***************************************************************************)
EXTENDS Naturals, Sequences

CONSTANTS
    Calls,      \* tool calls of one session, by tool_call_id
    MaxChunks,  \* bound: chunks a tool produces
    MaxOps,     \* bound: calls of the intervention API and of the settings
    MaxStops    \* bound: cancellations of the agent's own task

ASSUME BoundsAreNaturals == {MaxChunks, MaxOps, MaxStops} \subseteq Nat

VARIABLES
    onDeadline, \* _offload_on_deadline
    bounded,    \* bounded[c]: _resolve_timeout finds a timeout for the tool
    capped,     \* capped[c]: the tool has a max_internal_timeout_secs
    status,     \* status[c]: "none" before execute, then ToolCallStatus
    listed,     \* listed[c]: the call is in _entries
    task,       \* task[c]: the tool's task
    killed,     \* killed[c]: task.cancel() not yet delivered
    event,      \* event[c]: cancel_event
    offload,    \* offload[c]: offload_deadline
    byUser,     \* byUser[c]: offload_reason is USER
    kill,       \* kill[c]: kill_deadline; "near" is under the window of 30 s
    changed,    \* changed[c]: deadline_changed_event
    chunks,     \* chunks[c]: the queue of the generator
    pc,         \* pc[c]: where the attendant is
    reaping,    \* reaping[c]: who runs _handle_parent_cancel, if anybody
    result,     \* result[c]: what final_response holds
    endState,   \* endState[c]: end_state
    hints,      \* _pending_hints of the session
    shutting,   \* "no", "grace" (shutdown waits for the tools) or "yes"
    made,       \* chunks produced so far
    ops,        \* uses of the API so far
    stops       \* cancellations of the agent's task so far

tool == <<task, killed, chunks, result, endState, made>>
deadlines == <<offload, byUser, kill, changed>>
config == <<onDeadline, bounded, capped>>
vars == <<config, status, listed, tool, event, deadlines, pc, reaping, hints,
          shutting, ops, stops>>

Running(c) == listed[c] /\ status[c] = "running"
Offloaded(c) == listed[c] /\ status[c] = "offloaded"

\* The generator or the supervisor is still going to finalize the call.
Attended(c) == pc[c] \in {"yield", "top", "wait", "grace", "reap"}

Init ==
    /\ onDeadline \in BOOLEAN
    /\ bounded \in [Calls -> BOOLEAN]
    /\ capped \in [Calls -> BOOLEAN]
    /\ status = [c \in Calls |-> "none"]
    /\ listed = [c \in Calls |-> FALSE]
    /\ task = [c \in Calls |-> "none"]
    /\ killed = [c \in Calls |-> FALSE]
    /\ event = [c \in Calls |-> FALSE]
    /\ offload = [c \in Calls |-> "none"]
    /\ byUser = [c \in Calls |-> FALSE]
    /\ kill = [c \in Calls |-> "none"]
    /\ changed = [c \in Calls |-> FALSE]
    /\ chunks = [c \in Calls |-> <<>>]
    /\ pc = [c \in Calls |-> "none"]
    /\ reaping = [c \in Calls |-> "no"]
    /\ result = [c \in Calls |-> "none"]
    /\ endState = [c \in Calls |-> "none"]
    /\ hints = <<>>
    /\ shutting = "no"
    /\ made = 0 /\ ops = 0 /\ stops = 0

-----------------------------------------------------------------------------
(* Pieces.  Each one assigns the variables its name stands for.            *)

\* Bug: the deadline that is there is taken as it is.
NoKillDeadline(c) == UNCHANGED <<kill, changed>>

\* _ensure_kill_deadline_for_offload succeeds and leaves a usable window.
CanOffload(c) == kill[c] = "far" \/ bounded[c]

EnsureKillDeadline(c) ==
    IF kill[c] = "far" THEN UNCHANGED <<kill, changed>>
    ELSE /\ kill' = [kill EXCEPT ![c] = "far"]
         /\ changed' = [changed EXCEPT ![c] = TRUE]

\* Bug: the task is cancelled without the signal.
KillTask(c) ==
    /\ killed' = [killed EXCEPT ![c] = @ \/ task[c] # "done"]
    /\ UNCHANGED event

\* _apply_force_cancel: signal first, then cancel the task.
ForceCancel(c) ==
    /\ event' = [event EXCEPT ![c] = TRUE]
    /\ killed' = [killed EXCEPT ![c] = @ \/ task[c] # "done"]

\* _await_grace_or_force_cancel: nothing to wait for when the task is done.
Grace(c) ==
    pc' = [pc EXCEPT ![c] = IF task[c] = "done" THEN "reap" ELSE "grace"]

\* Time out the call: signal, then give it its grace.
TimeOut(c) ==
    /\ event' = [event EXCEPT ![c] = TRUE]
    /\ Grace(c)

\* What the stream puts reaches the generator as long as it subscribes.
Put(c, item) ==
    IF status[c] = "running" /\ pc[c] # "lost" THEN Append(chunks[c], item)
    ELSE chunks[c]

-----------------------------------------------------------------------------
(* The tool.                                                               *)

\* A tool that starts after the signal does not run at all.
ToolStarts(c) ==
    /\ task[c] = "new" /\ ~killed[c]
    /\ IF event[c]
       THEN /\ task' = [task EXCEPT ![c] = "done"]
            /\ result' = [result EXCEPT ![c] = "cancelled"]
            /\ chunks' = [chunks EXCEPT ![c] = Put(c, "end")]
       ELSE /\ task' = [task EXCEPT ![c] = "run"]
            /\ UNCHANGED <<result, chunks>>
    /\ UNCHANGED <<config, status, listed, killed, endState, made, event,
                   deadlines, pc, reaping, hints, shutting, ops, stops>>

ToolChunk(c) ==
    /\ task[c] = "run" /\ ~killed[c]
    /\ made < MaxChunks
    /\ made' = made + 1
    /\ chunks' = [chunks EXCEPT ![c] = Put(c, "chunk")]
    /\ UNCHANGED <<config, status, listed, task, killed, result, endState,
                   event, deadlines, pc, reaping, hints, shutting, ops, stops>>

\* The tool arms its hard limit, pulling the offload before it; the window
\* may be shorter than the one an offloaded call needs.
ArmKillDeadline(c, window) ==
    /\ task[c] = "run" /\ ~killed[c]
    /\ kill[c] = "none"
    /\ kill' = [kill EXCEPT ![c] = window]
    /\ changed' = [changed EXCEPT ![c] = TRUE]
    /\ UNCHANGED <<config, status, listed, tool, event, offload, byUser, pc,
                   reaping, hints, shutting, ops, stops>>

\* The tool returns ("own"), raises ("error") or stops at the signal.
ToolEnds(c, outcome) ==
    /\ task[c] = "run" /\ ~killed[c]
    /\ outcome = "cancelled" => event[c]
    /\ task' = [task EXCEPT ![c] = "done"]
    /\ result' = [result EXCEPT ![c] = outcome]
    /\ endState' = [endState EXCEPT ![c] =
                       CASE outcome = "own" -> @
                         [] outcome = "error" -> "error"
                         [] outcome = "cancelled" -> "interrupted"]
    /\ chunks' = [chunks EXCEPT ![c] = Put(c, "end")]
    /\ UNCHANGED <<config, status, listed, killed, made, event, deadlines, pc,
                   reaping, hints, shutting, ops, stops>>

\* CancelledError reaches the task; one that has not started has no stream
\* to close and no response to leave.
ToolKilled(c) ==
    /\ killed[c] /\ task[c] \in {"new", "run"}
    /\ killed' = [killed EXCEPT ![c] = FALSE]
    /\ task' = [task EXCEPT ![c] = "done"]
    /\ IF task[c] = "new" THEN UNCHANGED <<result, endState, chunks>>
       ELSE /\ result' = [result EXCEPT ![c] = "cancelled"]
            /\ endState' = [endState EXCEPT ![c] = "interrupted"]
            /\ chunks' = [chunks EXCEPT ![c] = Put(c, "end")]
    /\ UNCHANGED <<config, status, listed, made, event, deadlines, pc, reaping,
                   hints, shutting, ops, stops>>

\* Deadlines come nearer.
Passes(c) ==
    /\ \/ /\ offload[c] = "ahead"
          /\ offload' = [offload EXCEPT ![c] = "due"]
          /\ UNCHANGED kill
       \/ /\ kill[c] \in {"far", "near"}
          /\ kill' = [kill EXCEPT ![c] = IF @ = "far" THEN "near" ELSE "due"]
          /\ UNCHANGED offload
    /\ UNCHANGED <<config, status, listed, tool, event, byUser, changed, pc,
                   reaping, hints, shutting, ops, stops>>

-----------------------------------------------------------------------------
(* The attendant: execute, then _supervise.                                *)

Execute(c) ==
    /\ status[c] = "none" /\ shutting = "no"
    /\ status' = [status EXCEPT ![c] = "running"]
    /\ listed' = [listed EXCEPT ![c] = TRUE]
    /\ task' = [task EXCEPT ![c] = "new"]
    /\ offload' = [offload EXCEPT ![c] = IF bounded[c] THEN "ahead" ELSE @]
    /\ pc' = [pc EXCEPT ![c] = "top"]
    /\ UNCHANGED <<config, killed, chunks, result, endState, made, event,
                   byUser, kill, changed, reaping, hints, shutting, ops, stops>>

KillDeadlineReached(c) ==
    /\ TimeOut(c)
    /\ UNCHANGED <<status, deadlines>>

\* The generator hands the call over: without a usable kill deadline it
\* refuses and stops the tool instead.
Offload(c) ==
    IF CanOffload(c)
    THEN /\ EnsureKillDeadline(c)
         /\ status' = [status EXCEPT ![c] = "offloaded"]
         /\ offload' = [offload EXCEPT ![c] = "none"]
         /\ pc' = [pc EXCEPT ![c] = "top"]
         /\ UNCHANGED <<event, byUser>>
    ELSE /\ TimeOut(c)
         /\ UNCHANGED <<status, deadlines>>

\* The call stays in the foreground, as long as something bounds it.
KeepForeground(c) ==
    IF kill[c] # "none"
    THEN /\ offload' = [offload EXCEPT ![c] = "none"]
         /\ changed' = [changed EXCEPT ![c] = TRUE]
         /\ pc' = [pc EXCEPT ![c] = "top"]
         /\ UNCHANGED <<event, byUser, kill, status>>
    ELSE /\ TimeOut(c)
         /\ UNCHANGED <<status, deadlines>>

\* The supervisor has no use for an offload deadline.
DeadlineReached(c) ==
    \/ /\ Running(c) /\ (onDeadline \/ byUser[c])
       /\ Offload(c)
    \/ /\ Running(c) /\ ~onDeadline /\ ~byUser[c]
       /\ KeepForeground(c)
    \/ /\ Offloaded(c)
       /\ pc' = [pc EXCEPT ![c] = "top"]
       /\ UNCHANGED <<event, deadlines, status>>

\* The top of _await_next_event: a deadline that is due comes first, and the
\* kill deadline before the other.  The supervisor looks at the task first.
Top(c) ==
    /\ pc[c] = "top"
    /\ \/ /\ Offloaded(c) /\ task[c] = "done"
          /\ pc' = [pc EXCEPT ![c] = "reap"]
          /\ UNCHANGED <<event, deadlines, status>>
       \/ /\ Running(c) \/ task[c] # "done"
          /\ \/ kill[c] = "due" /\ KillDeadlineReached(c)
             \/ kill[c] # "due" /\ offload[c] = "due" /\ DeadlineReached(c)
             \/ /\ kill[c] # "due" /\ offload[c] # "due"
                /\ pc' = [pc EXCEPT ![c] = "wait"]
                /\ UNCHANGED <<event, deadlines, status>>
    /\ UNCHANGED <<config, listed, tool, reaping, hints, shutting, ops, stops>>

\* A chunk is yielded to the agent; the end of the stream ends the waiting.
TakeChunk(c) ==
    /\ pc[c] = "wait" /\ Running(c)
    /\ chunks[c] # <<>>
    /\ chunks' = [chunks EXCEPT ![c] = Tail(@)]
    /\ pc' = [pc EXCEPT ![c] = IF Head(chunks[c]) = "end" THEN "reap"
                               ELSE "yield"]
    /\ UNCHANGED <<config, status, listed, task, killed, result, endState,
                   made, event, deadlines, reaping, hints, shutting, ops,
                   stops>>

\* The agent asks for the next item.
Resume(c) ==
    /\ pc[c] = "yield"
    /\ pc' = [pc EXCEPT ![c] = "top"]
    /\ UNCHANGED <<config, status, listed, tool, event, deadlines, reaping,
                   hints, shutting, ops, stops>>

\* Bug: the supervisor looks for the next event, as after a change.
SignalIgnored(c) ==
    /\ event[c]
    /\ IF Running(c) THEN Grace(c) ELSE pc' = [pc EXCEPT ![c] = "top"]
    /\ UNCHANGED <<event, deadlines, status>>

\* The cancel event is set.
Signalled(c) ==
    /\ event[c]
    /\ Grace(c)
    /\ UNCHANGED <<event, deadlines, status>>

\* The other events of a wait, in their order: the end of the task (for the
\* supervisor), the signal, a change of the deadlines, a deadline.  The task
\* has had its first turn by then.
Wake(c) ==
    /\ pc[c] = "wait" /\ task[c] # "new"
    /\ Running(c) => chunks[c] = <<>>
    /\ \/ /\ Offloaded(c) /\ task[c] = "done"
          /\ pc' = [pc EXCEPT ![c] = "reap"]
          /\ UNCHANGED <<event, deadlines, status>>
       \/ Signalled(c)
       \/ /\ ~event[c] /\ changed[c]
          /\ changed' = [changed EXCEPT ![c] = FALSE]
          /\ pc' = [pc EXCEPT ![c] = "top"]
          /\ UNCHANGED <<event, offload, byUser, kill, status>>
       \/ /\ ~event[c] /\ ~changed[c]
          /\ \/ kill[c] = "due" /\ KillDeadlineReached(c)
             \/ kill[c] # "due" /\ offload[c] = "due" /\ DeadlineReached(c)
    /\ UNCHANGED <<config, listed, tool, reaping, hints, shutting, ops, stops>>

\* The tool stops within its grace, or is cancelled when it is over.
GraceEnds(c) ==
    /\ pc[c] = "grace"
    /\ IF task[c] = "done" THEN UNCHANGED <<event, killed>>
       ELSE ForceCancel(c)
    /\ pc' = [pc EXCEPT ![c] = "reap"]
    /\ UNCHANGED <<config, status, listed, task, chunks, result, endState,
                   made, deadlines, reaping, hints, shutting, ops, stops>>

\* Bug: the call is only kept with the completed ones.
StayListed(c) == UNCHANGED listed

Unlist(c) == listed' = [listed EXCEPT ![c] = FALSE]

\* Bug: a call that ended in the foreground is reported as well.
ReportsAlways(c) == TRUE

\* Only the supervisor leaves a hint.
Reports(c) == status[c] = "offloaded"

\* The task is over: _finalize_completed.
Finalize(c) ==
    /\ pc[c] = "reap" /\ task[c] = "done"
    /\ status' = [status EXCEPT ![c] = "completed"]
    /\ Unlist(c)
    /\ result' = [result EXCEPT ![c] = IF reaping[c] = "no" THEN @
                                       ELSE "cancelled"]
    /\ endState' = [endState EXCEPT ![c] =
                       IF reaping[c] # "no" THEN "interrupted"
                       ELSE IF @ # "none" THEN @
                       ELSE IF event[c] THEN "interrupted" ELSE "success"]
    /\ pc' = [pc EXCEPT ![c] = IF Reports(c) THEN "report" ELSE "done"]
    /\ UNCHANGED <<config, task, killed, chunks, made, event, deadlines,
                   reaping, hints, shutting, ops, stops>>

\* The supervisor has had the result processed, or that failed.
Hint(c) ==
    /\ pc[c] = "report"
    /\ hints' = Append(hints, c)
    /\ pc' = [pc EXCEPT ![c] = "done"]
    /\ UNCHANGED <<config, status, listed, tool, event, deadlines, reaping,
                   shutting, ops, stops>>

-----------------------------------------------------------------------------
(* The agent's own task is cancelled.                                      *)

\* Bug: the cancelled generator leaves its tool alone.
JustLeave(c) ==
    /\ pc' = [pc EXCEPT ![c] = "lost"]
    /\ UNCHANGED event

\* Stop and reap the tool.
HandleParentCancel(c) == TimeOut(c)

\* While the generator waits, it reaps the tool in the cancelled task, which
\* can be cancelled again; while the agent works on a chunk, the generator
\* is closed by a task of its own.
ParentCancelled(c) ==
    /\ Running(c) /\ reaping[c] = "no"
    /\ Attended(c) /\ task[c] # "new"
    /\ stops < MaxStops
    /\ stops' = stops + 1
    /\ reaping' = [reaping EXCEPT ![c] = IF pc[c] = "yield" THEN "closer"
                                         ELSE "parent"]
    /\ HandleParentCancel(c)
    /\ UNCHANGED <<config, status, listed, tool, deadlines, hints, shutting,
                   ops>>

\* Cancelled again: the call stays in _entries, and nobody looks after it.
\* Cancelling the gather cancels the tool, cancelling the grace does not.
ParentCancelledAgain(c) ==
    /\ Running(c) /\ reaping[c] = "parent"
    /\ pc[c] \in {"grace", "reap"}
    /\ stops < MaxStops
    /\ stops' = stops + 1
    /\ pc' = [pc EXCEPT ![c] = "lost"]
    /\ killed' = [killed EXCEPT ![c] =
                     @ \/ (pc[c] = "reap" /\ task[c] # "done")]
    /\ UNCHANGED <<config, status, listed, task, chunks, result, endState,
                   made, event, deadlines, reaping, hints, shutting, ops>>

-----------------------------------------------------------------------------
(* The API.                                                                *)

Op == /\ ops < MaxOps
      /\ ops' = ops + 1

RequestOffload(c) ==
    /\ Op /\ Running(c)
    /\ CanOffload(c)
    /\ kill' = [kill EXCEPT ![c] = "far"]
    /\ byUser' = [byUser EXCEPT ![c] = TRUE]
    /\ offload' = [offload EXCEPT ![c] = "due"]
    /\ changed' = [changed EXCEPT ![c] = TRUE]
    /\ UNCHANGED <<config, status, listed, tool, event, pc, reaping, hints,
                   shutting, stops>>

Cancel(c) ==
    /\ Op /\ listed[c]
    /\ event' = [event EXCEPT ![c] = TRUE]
    /\ UNCHANGED <<config, status, listed, tool, deadlines, pc, reaping,
                   hints, shutting, stops>>

CancelForce(c) ==
    /\ Op /\ listed[c]
    /\ ForceCancel(c)
    /\ UNCHANGED <<config, status, listed, task, chunks, result, endState,
                   made, deadlines, pc, reaping, hints, shutting, stops>>

\* The stop button: every call of the conversation that is still in the
\* foreground.  No step of it gives the event loop away.
CancelRunningForSession ==
    /\ Op /\ \E c \in Calls : Running(c)
    /\ event' = [c \in Calls |-> event[c] \/ Running(c)]
    /\ killed' = [c \in Calls |-> killed[c] \/ (Running(c) /\ task[c] # "done")]
    /\ UNCHANGED <<config, status, listed, task, chunks, result, endState,
                   made, deadlines, pc, reaping, hints, shutting, stops>>

ExtendOffloadDeadline(c, deadline) ==
    /\ Op /\ Running(c)
    /\ offload' = [offload EXCEPT ![c] = deadline]
    /\ changed' = [changed EXCEPT ![c] = TRUE]
    /\ UNCHANGED <<config, status, listed, tool, event, byUser, kill, pc,
                   reaping, hints, shutting, stops>>

\* Bug: only the cap does.
MayClearUncapped(c) == ~capped[c]

\* A cap, or the background, keeps the last bound of an execution.
MayClearKill(c) == ~capped[c] /\ status[c] # "offloaded"

ExtendKillDeadline(c, deadline) ==
    /\ Op /\ listed[c]
    /\ deadline = "none" => MayClearKill(c)
    /\ kill' = [kill EXCEPT ![c] = deadline]
    /\ changed' = [changed EXCEPT ![c] = TRUE]
    /\ UNCHANGED <<config, status, listed, tool, event, offload, byUser, pc,
                   reaping, hints, shutting, stops>>

\* The policy, or the timeout of an agent's tool, is changed.
Configure ==
    /\ Op
    /\ \/ onDeadline' = ~onDeadline /\ UNCHANGED bounded
       \/ /\ \E c \in Calls : bounded' = [bounded EXCEPT ![c] = ~@]
          /\ UNCHANGED onDeadline
    /\ UNCHANGED <<capped, status, listed, tool, event, deadlines, pc, reaping,
                   hints, shutting, stops>>

\* The agent takes the hints before it reasons.
PopPendingHints ==
    /\ hints # <<>>
    /\ hints' = <<>>
    /\ UNCHANGED <<config, status, listed, tool, event, deadlines, pc, reaping,
                   shutting, ops, stops>>

Shutdown ==
    /\ shutting = "no"
    /\ shutting' = "grace"
    /\ event' = [c \in Calls |-> event[c] \/ listed[c]]
    /\ UNCHANGED <<config, status, listed, tool, deadlines, pc, reaping, hints,
                   ops, stops>>

\* Each tool has its grace, then its task is cancelled.
ShutdownEnds ==
    /\ shutting = "grace"
    /\ shutting' = "yes"
    /\ killed' = [c \in Calls |-> killed[c] \/ (/\ listed[c]
                                                /\ task[c] # "done")]
    /\ UNCHANGED <<config, status, listed, task, chunks, result, endState,
                   made, event, deadlines, pc, reaping, hints, ops, stops>>

-----------------------------------------------------------------------------
Attend(c) ==
    \/ Top(c) \/ TakeChunk(c) \/ Resume(c) \/ Wake(c)
    \/ GraceEnds(c) \/ Finalize(c) \/ Hint(c)

Tool(c) ==
    \/ ToolStarts(c) \/ ToolChunk(c) \/ ToolKilled(c)
    \/ \E window \in {"far", "near"} : ArmKillDeadline(c, window)
    \/ \E outcome \in {"own", "error", "cancelled"} : ToolEnds(c, outcome)

Intervene(c) ==
    \/ RequestOffload(c) \/ Cancel(c) \/ CancelForce(c)
    \/ \E d \in {"none", "ahead"} : ExtendOffloadDeadline(c, d)
    \/ \E d \in {"none", "far"} : ExtendKillDeadline(c, d)
    \/ ParentCancelled(c) \/ ParentCancelledAgain(c)

Next ==
    \/ \E c \in Calls : \/ Execute(c) \/ Attend(c) \/ Tool(c)
                        \/ Passes(c) \/ Intervene(c)
    \/ CancelRunningForSession \/ Configure \/ PopPendingHints
    \/ Shutdown \/ ShutdownEnds

Spec == Init /\ [][Next]_vars

\* Timers fire, tasks that are ready run and a cancelled task gets its
\* CancelledError.  A tool need not end by itself, and once a call is told to
\* stop, nothing may depend on its deadlines any more.
FairSpec ==
    /\ Spec
    /\ \A c \in Calls : /\ WF_vars(Attend(c))
                        /\ WF_vars(~event[c] /\ Passes(c))
                        /\ WF_vars(ToolStarts(c))
                        /\ WF_vars(ToolKilled(c))

-----------------------------------------------------------------------------
(* Properties.                                                             *)

FieldTypes ==
    /\ onDeadline \in BOOLEAN
    /\ bounded \in [Calls -> BOOLEAN]
    /\ capped \in [Calls -> BOOLEAN]
    /\ status \in [Calls -> {"none", "running", "offloaded", "completed"}]
    /\ listed \in [Calls -> BOOLEAN]
    /\ task \in [Calls -> {"none", "new", "run", "done"}]
    /\ killed \in [Calls -> BOOLEAN]
    /\ event \in [Calls -> BOOLEAN]
    /\ offload \in [Calls -> {"none", "ahead", "due"}]
    /\ byUser \in [Calls -> BOOLEAN]
    /\ kill \in [Calls -> {"none", "far", "near", "due"}]
    /\ changed \in [Calls -> BOOLEAN]
    /\ pc \in [Calls -> {"none", "yield", "top", "wait", "grace", "reap",
                         "report", "done", "lost"}]
    /\ reaping \in [Calls -> {"no", "parent", "closer"}]
    /\ result \in [Calls -> {"none", "own", "error", "cancelled"}]
    /\ endState \in [Calls -> {"none", "success", "error", "interrupted"}]
    /\ shutting \in {"no", "grace", "yes"}

QueueTypes ==
    /\ chunks \in [Calls -> Seq({"chunk", "end"})]
    /\ hints \in Seq(Calls)

CounterBounds ==
    /\ made \in 0..MaxChunks
    /\ ops \in 0..MaxOps
    /\ stops \in 0..MaxStops

EntriesAreActive ==
    \A c \in Calls :
        /\ listed[c] <=> status[c] \in {"running", "offloaded"}
        /\ task[c] = "none" <=> status[c] = "none"

\* Every variable has its type; _entries holds exactly the calls that are
\* RUNNING or OFFLOADED, and a call has a task from execute on.
TypeOK ==
    /\ FieldTypes
    /\ QueueTypes
    /\ CounterBounds
    /\ EntriesAreActive

\* ``Offload must not create unbounded background work'': whatever the user
\* and the settings did to the deadlines before and after a call went to the
\* background, a kill deadline bounds it there.
BoundedBackground ==
    \A c \in Calls : Offloaded(c) => kill[c] # "none"

\* A call that is over has no task left behind, and its outcome is a success
\* only when the tool itself returned and nobody stopped it: a tool cancelled
\* before it started has an empty response, which is no success.
OutcomeIsReal ==
    \A c \in Calls :
        status[c] = "completed" =>
            /\ task[c] = "done" /\ ~killed[c]
            /\ endState[c] = "success" => result[c] = "own"

\* A call in _entries has a generator or a supervisor that will finalize it,
\* unless the agent's task was cancelled a second time while it reaped the
\* tool; then the tool has at least been told to stop.
ListedIsAttended ==
    \A c \in Calls :
        listed[c] => \/ Attended(c)
                     \/ /\ reaping[c] = "parent" /\ status[c] = "running"
                        /\ event[c] /\ stops > 1

\* A call that is told to stop leaves _entries, in the foreground and in the
\* background, whether or not the tool looks at the signal, and without the
\* help of a deadline.
CancelTakesEffect ==
    \A c \in Calls :
        (listed[c] /\ event[c]) ~> (~listed[c] \/ pc[c] = "lost")

\* A call in the background ends and leaves a hint for its session.
OffloadedIsReported ==
    \A c \in Calls :
        Offloaded(c) ~> \E k \in DOMAIN hints : hints[k] = c
=============================================================================
