----------------------------- MODULE TaskTracker -----------------------------
(***************************************************************************)
(* The task tracker of an agent workspace (app/task_tracker.py): chat runs *)
(* in the background, their event buffers, and the per-connection queues   *)
(* that fan the events out.                                                *)
(*                                                                         *)
(* All of it runs on one asyncio loop.  No section under the tracker's     *)
(* lock awaits anything, so each is one atomic step; a run's task          *)
(* (_producer) can be suspended at two points only: inside stream_fn       *)
(* ("streaming") and inside on_finished ("finishing").                     *)
(*                                                                         *)
(* A subscriber queue is unbounded and FIFO.  It is kept as everything     *)
(* ever put into it, `put', and the number of items its reader took,       *)
(* `got': the asyncio.Queue holds the rest.                                *)
(***************************************************************************)
EXTENDS Naturals, Sequences

CONSTANTS
    Keys,        \* run keys (chat ids)
    Runs,        \* identities of runs; each is started at most once
    Queues,      \* identities of subscriber queues; each is created at most once
    Stoppers,    \* concurrent callers of request_stop
    Events,      \* what stream_fn can yield
    ErrorEvent,  \* the "internal server error" event of a failed run
    ReplayEnd,   \* REPLAY_END_SSE
    Sentinel,    \* _SENTINEL, ends every stream
    NoRun,       \* no run
    NoKey,       \* the key of a run that was not started
    MaxEvents    \* bound: events a stream_fn yields

ASSUME MarkersAssumption ==
    /\ ErrorEvent \notin Events
    /\ ReplayEnd \notin Events \cup {ErrorEvent}
    /\ Sentinel \notin Events \cup {ErrorEvent, ReplayEnd}
ASSUME NoneAssumption == NoRun \notin Runs /\ NoKey \notin Keys
ASSUME MaxEventsAssumption == MaxEvents \in Nat

VARIABLES
    registry,    \* _runs: the run registered under each key
    task,        \* where the run's task is
    runKey,      \* the run_key a run was started with
    cancel,      \* a cancel was requested and not yet thrown into the task
    buffer,      \* _RunState.buffer
    queues,      \* _RunState.queues
    put,         \* all items ever put into a queue
    got,         \* how many of them were taken out
    reader,      \* what the holder of the queue does with it
    source,      \* the run the queue was attached to
    marker,      \* position of ReplayEnd in put, 0 if there is none
    waiting      \* the run whose task a request_stop call awaits

runVars == <<registry, task, runKey, cancel, buffer>>
queueVars == <<queues, put, got, reader, source, marker>>
vars == <<registry, task, runKey, cancel, buffer,
          queues, put, got, reader, source, marker, waiting>>

Payload == Events \cup {ErrorEvent}
Item == Payload \cup {ReplayEnd, Sentinel}

\* task.done() is false.
Live == {"created", "streaming", "finishing"}
TaskState == {"unused", "finished", "aborted"} \cup Live
\* "unread": attach_or_start found a live run, whose caller never reads.
\* "left" and "ended": detached before, or because of, the sentinel.
ReaderState == {"free", "reading", "unread", "left", "ended"}

Active(r) == r # NoRun /\ task[r] \in Live

Init ==
    /\ registry = [k \in Keys |-> NoRun]
    /\ task = [r \in Runs |-> "unused"]
    /\ runKey = [r \in Runs |-> NoKey]
    /\ cancel = [r \in Runs |-> FALSE]
    /\ buffer = [r \in Runs |-> <<>>]
    /\ queues = [r \in Runs |-> {}]
    /\ put = [q \in Queues |-> <<>>]
    /\ got = [q \in Queues |-> 0]
    /\ reader = [q \in Queues |-> "free"]
    /\ source = [q \in Queues |-> NoRun]
    /\ marker = [q \in Queues |-> 0]
    /\ waiting = [p \in Stoppers |-> NoRun]

(***************************************************************************)
(* Queue helpers.                                                          *)
(***************************************************************************)

\* A new queue holding items, attached to run r.
Subscribe(q, r, items, mark, use) ==
    /\ reader[q] = "free"
    /\ reader' = [reader EXCEPT ![q] = use]
    /\ source' = [source EXCEPT ![q] = r]
    /\ marker' = [marker EXCEPT ![q] = mark]
    /\ put' = [put EXCEPT ![q] = items]
    /\ UNCHANGED got

\* put_nowait of one item on every queue of run r.
Broadcast(r, item) ==
    put' = [q \in Queues |->
              IF q \in queues[r] THEN Append(put[q], item) ELSE put[q]]

\* detach_subscriber: the queue leaves the run registered under its key NOW,
\* which need not be the run it was attached to.
Detach(q) ==
    LET now == registry[runKey[source[q]]] IN
    queues' = IF now = NoRun THEN queues
                             ELSE [queues EXCEPT ![now] = @ \ {q}]

(***************************************************************************)
(* Callers: attach_or_start, attach, request_stop.                         *)
(***************************************************************************)

\* Mutant: the check that the registered run is over is dropped.
StartRunUnchecked(k, r, q) ==
    /\ task[r] = "unused"
    /\ registry' = [registry EXCEPT ![k] = r]
    /\ task' = [task EXCEPT ![r] = "created"]
    /\ runKey' = [runKey EXCEPT ![r] = k]
    /\ queues' = [queues EXCEPT ![r] = {q}]
    /\ Subscribe(q, r, <<>>, 0, "reading")
    /\ UNCHANGED <<cancel, buffer, waiting>>

\* attach_or_start with no live run under the key: a new run and its queue.
StartRun(k, r, q) ==
    /\ ~Active(registry[k])
    /\ task[r] = "unused"
    /\ registry' = [registry EXCEPT ![k] = r]
    /\ task' = [task EXCEPT ![r] = "created"]
    /\ runKey' = [runKey EXCEPT ![r] = k]
    /\ queues' = [queues EXCEPT ![r] = {q}]
    /\ Subscribe(q, r, <<>>, 0, "reading")
    /\ UNCHANGED <<cancel, buffer, waiting>>

\* attach_or_start with a live run: the queue is filled and registered, but
\* the caller turns the request away and never reads.
JoinRun(k, q) ==
    LET r == registry[k] IN
    /\ Active(r)
    /\ queues' = [queues EXCEPT ![r] = @ \cup {q}]
    /\ Subscribe(q, r, buffer[r], 0, "unread")
    /\ UNCHANGED <<registry, task, runKey, cancel, buffer, waiting>>

\* Mutant: a reconnecting client gets the marker and live events only.
AttachWithoutReplay(k, q) ==
    LET r == registry[k] IN
    /\ Active(r)
    /\ queues' = [queues EXCEPT ![r] = @ \cup {q}]
    /\ Subscribe(q, r, <<ReplayEnd>>, 1, "reading")
    /\ UNCHANGED <<registry, task, runKey, cancel, buffer, waiting>>

\* attach: a reconnecting client gets the buffer and the replay_end marker.
Attach(k, q) ==
    LET r == registry[k] IN
    /\ Active(r)
    /\ queues' = [queues EXCEPT ![r] = @ \cup {q}]
    /\ Subscribe(q, r, Append(buffer[r], ReplayEnd), Len(buffer[r]) + 1,
                 "reading")
    /\ UNCHANGED <<registry, task, runKey, cancel, buffer, waiting>>

\* request_stop of a live run: task.cancel(), then await the task.
RequestStop(p, k) ==
    /\ waiting[p] = NoRun
    /\ Active(registry[k])
    /\ cancel' = [cancel EXCEPT ![registry[k]] = TRUE]
    /\ waiting' = [waiting EXCEPT ![p] = registry[k]]
    /\ UNCHANGED <<registry, task, runKey, buffer, queueVars>>

\* The caller of request_stop is itself cancelled: asyncio passes the
\* cancellation on to the task it awaits.
StopperCancelled(p) ==
    /\ Active(waiting[p])
    /\ cancel' = [cancel EXCEPT ![waiting[p]] = TRUE]
    /\ UNCHANGED <<registry, task, runKey, buffer, queueVars, waiting>>

\* Mutant: the caller waits for a normal end of the run.
StopReturnsOnFinish(p) ==
    /\ waiting[p] # NoRun
    /\ task[waiting[p]] = "finished"
    /\ waiting' = [waiting EXCEPT ![p] = NoRun]
    /\ UNCHANGED <<runVars, queueVars>>

StopReturns(p) ==
    /\ waiting[p] # NoRun
    /\ ~Active(waiting[p])
    /\ waiting' = [waiting EXCEPT ![p] = NoRun]
    /\ UNCHANGED <<runVars, queueVars>>

(***************************************************************************)
(* The run's task, _producer.  A requested cancel is thrown into the task  *)
(* at its next step, so no other step of it comes first.                   *)
(***************************************************************************)

Step(r, from, to) ==
    /\ task[r] = from
    /\ ~cancel[r]
    /\ task' = [task EXCEPT ![r] = to]
    /\ UNCHANGED <<runKey, cancel, waiting>>

ProducerStarts(r) ==
    /\ Step(r, "created", "streaming")
    /\ UNCHANGED <<registry, buffer, queueVars>>

\* Mutant: the event is broadcast but not kept for reconnects.
YieldUnbuffered(r, e) ==
    /\ Step(r, "streaming", "streaming")
    /\ Len(buffer[r]) < MaxEvents
    /\ Broadcast(r, e)
    /\ UNCHANGED <<registry, buffer, queues, got, reader, source, marker>>

\* stream_fn yields an event: buffered and broadcast in one step.
Yield(r, e) ==
    /\ Step(r, "streaming", "streaming")
    /\ Len(buffer[r]) < MaxEvents
    /\ buffer' = [buffer EXCEPT ![r] = Append(@, e)]
    /\ Broadcast(r, e)
    /\ UNCHANGED <<registry, queues, got, reader, source, marker>>

\* Mutant: the sentinel is sent before the completion callback.
StreamEndsEarlySentinel(r) ==
    /\ Step(r, "streaming", "finishing")
    /\ Broadcast(r, Sentinel)
    /\ UNCHANGED <<registry, buffer, queues, got, reader, source, marker>>

\* Mutant: the run leaves the registry before the completion callback.
StreamEndsEarlyPop(r) ==
    /\ Step(r, "streaming", "finishing")
    /\ registry' = [registry EXCEPT ![runKey[r]] = NoRun]
    /\ UNCHANGED <<buffer, queueVars>>

StreamEnds(r) ==
    /\ Step(r, "streaming", "finishing")
    /\ UNCHANGED <<registry, buffer, queueVars>>

\* Mutant: the error event is buffered but not broadcast.
StreamFailsSilently(r) ==
    /\ Step(r, "streaming", "finishing")
    /\ buffer' = [buffer EXCEPT ![r] = Append(@, ErrorEvent)]
    /\ UNCHANGED <<registry, queueVars>>

\* stream_fn raises an Exception: the client is told, then the run finishes.
StreamFails(r) ==
    /\ Step(r, "streaming", "finishing")
    /\ buffer' = [buffer EXCEPT ![r] = Append(@, ErrorEvent)]
    /\ Broadcast(r, ErrorEvent)
    /\ UNCHANGED <<registry, queues, got, reader, source, marker>>

\* Mutant: the sentinel is buffered like an event.
FinishBuffersSentinel(r) ==
    /\ Step(r, "finishing", "finished")
    /\ Broadcast(r, Sentinel)
    /\ buffer' = [buffer EXCEPT ![r] = Append(@, Sentinel)]
    /\ registry' = [registry EXCEPT ![runKey[r]] = NoRun]
    /\ UNCHANGED <<queues, got, reader, source, marker>>

\* Mutant: the subscribers are not told of the end.
FinishWithoutSentinel(r) ==
    /\ Step(r, "finishing", "finished")
    /\ registry' = [registry EXCEPT ![runKey[r]] = NoRun]
    /\ UNCHANGED <<buffer, queueVars>>

\* on_finished returned (or raised an Exception, which is logged): the
\* sentinel goes to every queue and the run leaves the registry.
Finish(r) ==
    /\ Step(r, "finishing", "finished")
    /\ Broadcast(r, Sentinel)
    /\ registry' = [registry EXCEPT ![runKey[r]] = NoRun]
    /\ UNCHANGED <<buffer, queues, got, reader, source, marker>>

Cancelled(r, from, to) ==
    /\ task[r] = from
    /\ cancel[r]
    /\ cancel' = [cancel EXCEPT ![r] = FALSE]
    /\ task' = [task EXCEPT ![r] = to]
    /\ UNCHANGED <<registry, runKey, buffer, queueVars, waiting>>

\* A coroutine cancelled before its first step never runs: no try, no finally.
CancelledUnstarted(r) == Cancelled(r, "created", "aborted")

CancelledInStream(r) == Cancelled(r, "streaming", "finishing")

\* The runtime behind stream_fn catches the cancellation to yield a last
\* envelope (runtime/runtime.py).
CancelSwallowed(r) == Cancelled(r, "streaming", "streaming")

\* CancelledError out of on_finished is no Exception: it leaves the finally
\* block before the sentinel and the pop.
CancelledInCallback(r) == Cancelled(r, "finishing", "aborted")

(***************************************************************************)
(* Readers: stream_from_queue and detach_subscriber.                       *)
(***************************************************************************)

Available(q) == reader[q] = "reading" /\ got[q] < Len(put[q])

TakeItem(q) ==
    /\ Available(q)
    /\ put[q][got[q] + 1] # Sentinel
    /\ got' = [got EXCEPT ![q] = @ + 1]
    /\ UNCHANGED <<runVars, queues, put, reader, source, marker, waiting>>

TakeSentinel(q) ==
    /\ Available(q)
    /\ put[q][got[q] + 1] = Sentinel
    /\ got' = [got EXCEPT ![q] = @ + 1]
    /\ reader' = [reader EXCEPT ![q] = "ended"]
    /\ Detach(q)
    /\ UNCHANGED <<runVars, put, source, marker, waiting>>

\* The client goes away, or the console refuses the second request (409).
Disconnect(q) ==
    /\ reader[q] \in {"reading", "unread"}
    /\ reader' = [reader EXCEPT ![q] = "left"]
    /\ Detach(q)
    /\ UNCHANGED <<runVars, put, got, source, marker, waiting>>

(***************************************************************************)
(* The specification.                                                      *)
(***************************************************************************)

Caller ==
    \/ \E k \in Keys, q \in Queues :
          \/ \E r \in Runs : StartRun(k, r, q)
          \/ JoinRun(k, q)
          \/ Attach(k, q)
    \/ \E p \in Stoppers :
          \/ \E k \in Keys : RequestStop(p, k)
          \/ StopperCancelled(p)
          \/ StopReturns(p)

Producer(r) ==
    \/ ProducerStarts(r)
    \/ \E e \in Events : Yield(r, e)
    \/ StreamEnds(r)
    \/ StreamFails(r)
    \/ Finish(r)
    \/ CancelledUnstarted(r)
    \/ CancelledInStream(r)
    \/ CancelSwallowed(r)
    \/ CancelledInCallback(r)

Reader(q) ==
    \/ TakeItem(q)
    \/ TakeSentinel(q)
    \/ Disconnect(q)

Next ==
    \/ Caller
    \/ \E r \in Runs : Producer(r)
    \/ \E q \in Queues : Reader(q)

Spec == Init /\ [][Next]_vars

\* The loop runs every ready task; stream_fn and on_finished come to an end;
\* a connected client reads.  Nobody has to start, stop or disconnect.
Fairness ==
    /\ \A r \in Runs :
         /\ WF_vars(ProducerStarts(r) \/ CancelledUnstarted(r))
         /\ WF_vars(StreamEnds(r) \/ StreamFails(r) \/ CancelledInStream(r))
         /\ WF_vars(Finish(r) \/ CancelledInCallback(r))
    /\ \A q \in Queues : WF_vars(TakeItem(q) \/ TakeSentinel(q))
    /\ \A p \in Stoppers : WF_vars(StopReturns(p))

FairSpec == Spec /\ Fairness

(***************************************************************************)
(* What the tracker promises.                                              *)
(***************************************************************************)

\* Every variable keeps its type.
TypeOK ==
    /\ registry \in [Keys -> Runs \cup {NoRun}]
    /\ task \in [Runs -> TaskState]
    /\ runKey \in [Runs -> Keys \cup {NoKey}]
    /\ cancel \in [Runs -> BOOLEAN]
    /\ buffer \in [Runs -> Seq(Payload)]
    /\ queues \in [Runs -> SUBSET Queues]
    /\ put \in [Queues -> Seq(Item)]
    /\ got \in [Queues -> Nat]
    /\ reader \in [Queues -> ReaderState]
    /\ source \in [Queues -> Runs \cup {NoRun}]
    /\ marker \in [Queues -> Nat]
    /\ waiting \in [Stoppers -> Runs \cup {NoRun}]

\* A stream is a buffer with a replay marker put in at position mark (none if
\* 0), followed by the sentinel once the run is finished: its length ...
LengthOf(buf, mark, state) ==
    Len(buf) + (IF mark = 0 THEN 0 ELSE 1)
             + (IF state = "finished" THEN 1 ELSE 0)

\* ... and its i-th item.
ItemOf(buf, mark, i) ==
    LET j == IF mark # 0 /\ i > mark THEN i - 1 ELSE i IN
    IF i = mark THEN ReplayEnd
    ELSE IF j <= Len(buf) THEN buf[j] ELSE Sentinel

\* The stream of a queue attached to run r, as it is by now.
StreamLength(q, r) == LengthOf(buffer[r], marker[q], task[r])
StreamItem(q, r, i) == ItemOf(buffer[r], marker[q], i)

\* Whatever a queue was ever given, attached still or not, is in order a
\* prefix of its run's own stream: the switch from replay to live events
\* neither repeats nor skips one, and no event of another run gets in.
StreamIsPrefix ==
    \A q \in Queues : reader[q] # "free" =>
        /\ Len(put[q]) <= StreamLength(q, source[q])
        /\ \A i \in 1 .. Len(put[q]) : put[q][i] = StreamItem(q, source[q], i)

\* A queue that its run still knows has been given all of the stream: an
\* early subscriber, a reconnected one and a refused one miss nothing.
NothingMissed ==
    \A r \in Runs : \A q \in queues[r] : Len(put[q]) = StreamLength(q, r)

\* A client that saw the stream end saw all the run ever produced, the error
\* event included.
EndMeansComplete ==
    \A q \in Queues : reader[q] = "ended" =>
        /\ task[source[q]] = "finished"
        /\ got[q] = StreamLength(q, source[q])

\* A run whose task is not done is the one registered under its key: there
\* are never two for one chat, and none that status, attach and stop miss.
LiveIsRegistered ==
    \A r \in Runs : task[r] \in Live => registry[runKey[r]] = r

\* "Cleanup when task completes" (task_tracker.py:5-6): a registered run is
\* one whose task is not done.
CleanupWhenTaskCompletes ==
    \A k \in Keys : registry[k] # NoRun => task[registry[k]] \in Live

\* A live run leaves the registry by its own finish only: neither a successor
\* nor the finish of an earlier run under the same key displaces it.
NeverDisplaced ==
    [][\A k \in Keys : Active(registry[k]) /\ registry'[k] # registry[k]
          => registry'[k] = NoRun /\ task'[registry[k]] = "finished"]_vars

\* A connected client's stream ends, whatever the interleaving with stops,
\* failures and other clients, unless the run's task was killed outside
\* stream_fn.
StreamEndsUnlessAborted ==
    \A q \in Queues :
        reader[q] = "reading"
            ~> \/ reader[q] \in {"left", "ended"}
               \/ \E r \in Runs : source[q] = r /\ task[r] = "aborted"

\* request_stop returns, even for a run that swallows the cancellation, and
\* with several callers stopping the same run.
StopEnds == \A p \in Stoppers : waiting[p] # NoRun ~> waiting[p] = NoRun
=============================================================================
