------------------------------ MODULE EventLog ------------------------------
(***************************************************************************)
(* What a chat client may rely on (app/task_tracker.py:4-6 and the notes   *)
(* of TaskTracker), without queues, buffers to replay or tasks: each run   *)
(* is an append-only log that is closed at most once, and each subscriber  *)
(* reads the log of one run from its beginning, event by event, and is     *)
(* told the end of the stream only at the end of a closed log.             *)
(***************************************************************************)
EXTENDS Naturals, Sequences

CONSTANTS Runs, Queues, Payload, NoRun

VARIABLES
    log,     \* the events of each run
    phase,   \* "new", "open" or "closed"
    origin,  \* the run whose log a subscriber reads
    seen,    \* the events the subscriber has read
    status   \* "free", "subscribed", "left" or "ended"

logVars == <<log, phase, origin, seen, status>>

Init ==
    /\ log = [r \in Runs |-> <<>>]
    /\ phase = [r \in Runs |-> "new"]
    /\ origin = [q \in Queues |-> NoRun]
    /\ seen = [q \in Queues |-> <<>>]
    /\ status = [q \in Queues |-> "free"]

Join(q, r) ==
    /\ status[q] = "free"
    /\ status' = [status EXCEPT ![q] = "subscribed"]
    /\ origin' = [origin EXCEPT ![q] = r]
    /\ UNCHANGED <<log, seen>>

\* A run opens with its first subscriber.
Open(q, r) ==
    /\ phase[r] = "new"
    /\ phase' = [phase EXCEPT ![r] = "open"]
    /\ Join(q, r)

JoinOpen(q, r) ==
    /\ phase[r] = "open"
    /\ Join(q, r)
    /\ UNCHANGED phase

Extend(r, e) ==
    /\ phase[r] = "open"
    /\ log' = [log EXCEPT ![r] = Append(@, e)]
    /\ UNCHANGED <<phase, origin, seen, status>>

Close(r) ==
    /\ phase[r] = "open"
    /\ phase' = [phase EXCEPT ![r] = "closed"]
    /\ UNCHANGED <<log, origin, seen, status>>

ReadNext(q) ==
    /\ status[q] = "subscribed"
    /\ Len(seen[q]) < Len(log[origin[q]])
    /\ seen' = [seen EXCEPT ![q] = Append(@, log[origin[q]][Len(@) + 1])]
    /\ UNCHANGED <<log, phase, origin, status>>

ReadEnd(q) ==
    /\ status[q] = "subscribed"
    /\ phase[origin[q]] = "closed"
    /\ seen[q] = log[origin[q]]
    /\ status' = [status EXCEPT ![q] = "ended"]
    /\ UNCHANGED <<log, phase, origin, seen>>

Leave(q) ==
    /\ status[q] = "subscribed"
    /\ status' = [status EXCEPT ![q] = "left"]
    /\ UNCHANGED <<log, phase, origin, seen>>

Next ==
    \/ \E r \in Runs :
          \/ \E q \in Queues : Open(q, r) \/ JoinOpen(q, r)
          \/ \E e \in Payload : Extend(r, e)
          \/ Close(r)
    \/ \E q \in Queues : ReadNext(q) \/ ReadEnd(q) \/ Leave(q)

Spec == Init /\ [][Next]_logVars
=============================================================================
