---------------------------- MODULE ChannelQueues ----------------------------
(***************************************************************************)
(* The message queues between the chat channels and the task tracker:      *)
(* UnifiedQueueManager (app/channels/unified_queue_manager.py), the        *)
(* consumer loop and shutdown of ChannelManager (app/channels/manager.py)  *)
(* and the hand-over of a batch to a tracked run                           *)
(* (app/channels/base.py, _consume_with_tracker).                          *)
(*                                                                         *)
(* Everything is on one asyncio loop.  Sections under the manager's lock   *)
(* await nothing, so a step reaches from one suspension point to the next; *)
(* a requested cancel is thrown at the suspension point the task is at.    *)
(* A run is only live or not here: TaskTracker.tla has its inside.  Runs   *)
(* are started by the consumers and by the console (app/routers/           *)
(* console.py), which shares the chat of a channel's session.  Commands    *)
(* bypass the tracker, so one key of a session, that of its default        *)
(* priority, has the chat to itself.                                       *)
(***************************************************************************)
EXTENDS Naturals, Sequences, SequencesExt

CONSTANTS
    Keys,     \* queue keys: (channel, session, priority)
    States,   \* identities of QueueStates, each a queue and its consumer task
    Msgs,     \* messages; each is enqueued at most once
    NoState,  \* no QueueState
    NoKey,    \* key of a QueueState that was not created
    Console,  \* the web console, which starts runs of the same chats
    Shared,   \* keys of the sessions that are used from the console too
    MaxSize   \* queue_maxsize

ASSUME NoneAssumption == NoState \notin States /\ NoKey \notin Keys
ASSUME ConsoleAssumption == Console \notin States /\ Console # NoState
ASSUME SharedAssumption == Shared \subseteq Keys
ASSUME MaxSizeAssumption == MaxSize \in Nat \ {0}

VARIABLES
    queues,   \* _queues: the QueueState registered under each key
    key,      \* the key a QueueState was created for
    content,  \* QueueState.queue
    consumer, \* where the QueueState's consumer task is suspended
    batch,    \* the messages its consumer has taken and not handed on
    cancel,   \* a cancel was requested and not yet thrown into the consumer
    idle,     \* last_activity is further back than idle_timeout
    run,      \* who started the live run of a key's chat
    deaf,     \* consumers whose run was killed without a sentinel
    fate,     \* what became of a message
    target,   \* the QueueState an enqueue call holds
    cleaner,  \* where the cleanup task is suspended
    todo,     \* keys left in its to_cleanup list
    awaited,  \* the consumer it waits for
    phase,    \* progress of ChannelManager.stop_all
    swept     \* history: consumers the cleanup or the shutdown cancelled

queueVars == <<queues, key, content, consumer, batch, cancel, idle>>
runVars == <<run, deaf>>
msgVars == <<fate, target>>
managerVars == <<cleaner, todo, awaited, phase, swept>>
vars == <<queues, key, content, consumer, batch, cancel, idle, run, deaf,
          fate, target, cleaner, todo, awaited, phase, swept>>

ConsumerState == {"unused", "created", "getting", "looking", "preparing",
                  "reading", "ended"}
Fate == {"new", "holding", "queued", "batched", "started", "ignored",
         "screened", "failed", "cleared", "refused", "lost"}
Phase == {"running", "closing", "joining", "draining", "stopped"}

Init ==
    /\ queues = [k \in Keys |-> NoState]
    /\ key = [s \in States |-> NoKey]
    /\ content = [s \in States |-> <<>>]
    /\ consumer = [s \in States |-> "unused"]
    /\ batch = [s \in States |-> <<>>]
    /\ cancel = [s \in States |-> FALSE]
    /\ idle = [s \in States |-> FALSE]
    /\ run = [k \in Keys |-> NoState]
    /\ deaf = {}
    /\ fate = [m \in Msgs |-> "new"]
    /\ target = [m \in Msgs |-> NoState]
    /\ cleaner = "sleeping"
    /\ todo = {}
    /\ awaited = NoState
    /\ phase = "running"
    /\ swept = {}

Alive(s) == consumer[s] \notin {"unused", "ended"}

\* fate of the messages ms becomes f.
Settle(ms, f) == fate' = [m \in Msgs |-> IF m \in ms THEN f ELSE fate[m]]

\* increment_processed, for whatever QueueState has the key now.
Touch(k) == idle' = [s \in States |-> idle[s] /\ s # queues[k]]

\* idle_timeout passes while the consumer waits for a message, for the channel
\* manager's lock, for the hand-over or for its run.  It is much longer than the
\* timeout of a put, so no enqueue call holds the queue that long.
Age(s) ==
    /\ \/ consumer[s] \in {"looking", "preparing", "reading"}
       \/ consumer[s] = "getting" /\ content[s] = <<>>
    /\ ~cancel[s]
    /\ \A m \in Msgs : ~(fate[m] = "holding" /\ target[m] = s)
    /\ ~idle[s]
    /\ idle' = [idle EXCEPT ![s] = TRUE]
    /\ UNCHANGED <<queues, key, content, consumer, batch, cancel>>
    /\ UNCHANGED <<runVars, msgVars, managerVars>>

(***************************************************************************)
(* enqueue: get or create the queue and its consumer, then put.  The put   *)
(* runs under wait_for, which may suspend in between.                      *)
(***************************************************************************)

Hold(m, s) ==
    /\ phase # "stopped"
    /\ fate[m] = "new"
    /\ Settle({m}, "holding")
    /\ target' = [target EXCEPT ![m] = s]
    /\ idle' = [idle EXCEPT ![s] = FALSE]
    /\ UNCHANGED <<content, batch, cancel, runVars, managerVars>>

EnqueueFound(m, k) ==
    /\ queues[k] # NoState
    /\ Hold(m, queues[k])
    /\ UNCHANGED <<queues, key, consumer>>

\* Mutant: the lookup and the creation are not one step under the lock.
EnqueueCreatesBlindly(m, k, s) ==
    /\ consumer[s] = "unused"
    /\ queues' = [queues EXCEPT ![k] = s]
    /\ key' = [key EXCEPT ![s] = k]
    /\ consumer' = [consumer EXCEPT ![s] = "created"]
    /\ Hold(m, s)

EnqueueCreates(m, k, s) ==
    /\ queues[k] = NoState
    /\ consumer[s] = "unused"
    /\ queues' = [queues EXCEPT ![k] = s]
    /\ key' = [key EXCEPT ![s] = k]
    /\ consumer' = [consumer EXCEPT ![s] = "created"]
    /\ Hold(m, s)

Full(s) == Len(content[s]) >= MaxSize

\* Mutant: the queue is not bounded.
PutUnbounded(m) ==
    /\ fate[m] = "holding"
    /\ content' = [content EXCEPT ![target[m]] = Append(@, m)]
    /\ Settle({m}, "queued")
    /\ UNCHANGED <<queues, key, consumer, batch, cancel, idle, target>>
    /\ UNCHANGED <<runVars, managerVars>>

Put(m) ==
    /\ fate[m] = "holding"
    /\ ~Full(target[m])
    /\ content' = [content EXCEPT ![target[m]] = Append(@, m)]
    /\ Settle({m}, "queued")
    /\ UNCHANGED <<queues, key, consumer, batch, cancel, idle, target>>
    /\ UNCHANGED <<runVars, managerVars>>

\* No room for 30 seconds: the message is given up.
PutTimesOut(m) ==
    /\ fate[m] = "holding"
    /\ Full(target[m])
    /\ Settle({m}, "refused")
    /\ UNCHANGED <<queueVars, target, runVars, managerVars>>

\* clear_queue, called by the /stop command after it stopped the run.
ClearQueue(k) ==
    LET s == queues[k] IN
    /\ s # NoState
    /\ content[s] # <<>>
    /\ Settle(ToSet(content[s]), "cleared")
    /\ content' = [content EXCEPT ![s] = <<>>]
    /\ UNCHANGED <<queues, key, consumer, batch, cancel, idle, target>>
    /\ UNCHANGED <<runVars, managerVars>>

(***************************************************************************)
(* A consumer task: _run_consumer around _consume_queue.                   *)
(***************************************************************************)

ConsumerStep(s, from, to) ==
    /\ consumer[s] = from
    /\ ~cancel[s]
    /\ consumer' = [consumer EXCEPT ![s] = to]
    /\ UNCHANGED <<queues, key, cancel, target, managerVars>>

Begin(s) ==
    /\ ConsumerStep(s, "created", "getting")
    /\ UNCHANGED <<content, batch, idle, runVars, fate>>

\* queue.get(), up to the channel lookup, which waits while replace_channel
\* holds the channel manager's lock.
Take(s) ==
    /\ ConsumerStep(s, "getting", "looking")
    /\ content[s] # <<>>
    /\ batch' = [batch EXCEPT ![s] = <<Head(content[s])>>]
    /\ content' = [content EXCEPT ![s] = Tail(@)]
    /\ Settle({Head(content[s])}, "batched")
    /\ UNCHANGED <<idle, runVars>>

\* Mutant: the drained messages stay in the queue.
DrainKeeps(s) ==
    /\ ConsumerStep(s, "looking", "preparing")
    /\ batch' = [batch EXCEPT ![s] = @ \o content[s]]
    /\ Settle(ToSet(content[s]), "batched")
    /\ UNCHANGED <<content, idle, runVars>>

\* The rest of the queue joins the batch, which is then handed over.
Drain(s) ==
    /\ ConsumerStep(s, "looking", "preparing")
    /\ batch' = [batch EXCEPT ![s] = @ \o content[s]]
    /\ content' = [content EXCEPT ![s] = <<>>]
    /\ Settle(ToSet(content[s]), "batched")
    /\ UNCHANGED <<idle, runVars>>

HandOver(s, to, f) ==
    /\ ConsumerStep(s, "preparing", to)
    /\ Settle(ToSet(batch[s]), f)
    /\ batch' = [batch EXCEPT ![s] = <<>>]
    /\ UNCHANGED content

\* attach_or_start starts the run of the batch; the consumer reads its events.
StartRun(s) ==
    /\ HandOver(s, "reading", "started")
    /\ run[key[s]] = NoState
    /\ run' = [run EXCEPT ![key[s]] = s]
    /\ UNCHANGED <<idle, deaf>>

\* attach_or_start finds a live run: "Message ignored (task already running)".
IgnoreBatch(s) ==
    /\ HandOver(s, "getting", "ignored")
    /\ run[key[s]] # NoState
    /\ Touch(key[s])
    /\ UNCHANGED runVars

\* Held back by debouncing or access control, no run.
ScreenBatch(s) ==
    /\ HandOver(s, "getting", "screened")
    /\ Touch(key[s])
    /\ UNCHANGED runVars

\* Mutant: an exception ends the consumer task, and nothing pops its key.
FailBatchEndsConsumer(s) ==
    /\ HandOver(s, "ended", "failed")
    /\ UNCHANGED <<idle, runVars>>

\* An exception: logged, and the loop goes on.
FailBatch(s) ==
    /\ HandOver(s, "getting", "failed")
    /\ UNCHANGED <<idle, runVars>>

\* Mutant: the consumer does not wait for the run.
ReadEndEarly(s) ==
    /\ ConsumerStep(s, "reading", "getting")
    /\ Touch(key[s])
    /\ UNCHANGED <<content, batch, runVars, fate>>

\* The sentinel of the run: batch done, back to the queue.
ReadEnd(s) ==
    /\ ConsumerStep(s, "reading", "getting")
    /\ run[key[s]] # s
    /\ s \notin deaf
    /\ Touch(key[s])
    /\ UNCHANGED <<content, batch, runVars, fate>>

\* POST /console/chat and its background form: attach_or_start makes a run of
\* the session's chat, or the request is refused while one is live.
ConsoleStarts(k) ==
    /\ k \in Shared
    /\ run[k] = NoState
    /\ run' = [run EXCEPT ![k] = Console]
    /\ UNCHANGED <<deaf, queueVars, msgVars, managerVars>>

RunEnds(k) ==
    /\ run[k] # NoState
    /\ run' = [run EXCEPT ![k] = NoState]
    /\ UNCHANGED <<deaf, queueVars, msgVars, managerVars>>

\* The run's task is killed outside stream_fn (TaskTracker, "aborted").
RunAborts(k) ==
    /\ run[k] # NoState
    /\ run' = [run EXCEPT ![k] = NoState]
    /\ deaf' = deaf \cup {s \in States : run[k] = s /\ consumer[s] = "reading"}
    /\ UNCHANGED <<queueVars, msgVars, managerVars>>

\* A task cancelled before its first step runs no finally block.
CancelledUnstarted(s) ==
    /\ consumer[s] = "created"
    /\ cancel[s]
    /\ cancel' = [cancel EXCEPT ![s] = FALSE]
    /\ consumer' = [consumer EXCEPT ![s] = "ended"]
    /\ UNCHANGED <<queues, key, content, batch, idle>>
    /\ UNCHANGED <<runVars, msgVars, managerVars>>

\* The loop breaks; the finally block pops the KEY, whoever has it now.
CancelledConsumer(s) ==
    /\ consumer[s] \in {"getting", "looking", "preparing"}
    /\ cancel[s]
    /\ cancel' = [cancel EXCEPT ![s] = FALSE]
    /\ consumer' = [consumer EXCEPT ![s] = "ended"]
    /\ queues' = [queues EXCEPT ![key[s]] = NoState]
    /\ Settle(ToSet(batch[s]), "lost")
    /\ batch' = [batch EXCEPT ![s] = <<>>]
    /\ UNCHANGED <<key, content, idle, target, runVars, managerVars>>

\* stream_from_queue takes the cancellation for the end of the stream, so the
\* consumer counts the batch as processed and goes back to its queue.
CancelledReader(s) ==
    /\ consumer[s] = "reading"
    /\ cancel[s]
    /\ cancel' = [cancel EXCEPT ![s] = FALSE]
    /\ consumer' = [consumer EXCEPT ![s] = "getting"]
    /\ deaf' = deaf \ {s}
    /\ Touch(key[s])
    /\ UNCHANGED <<queues, key, content, batch, run, msgVars, managerVars>>

(***************************************************************************)
(* _cleanup_idle_queues.  Between two suspensions it pops one queue,       *)
(* cancels its consumer and starts to wait for it.                         *)
(***************************************************************************)

Idle(k) == queues[k] # NoState /\ content[queues[k]] = <<>> /\ idle[queues[k]]

SweepNext(ks) ==
    LET found == {k \in ks : queues[k] # NoState} IN
    \/ /\ found = {}
       /\ cleaner' = IF phase \in {"running", "closing"} THEN "sleeping"
                                                         ELSE "ended"
       /\ todo' = {}
       /\ awaited' = NoState
       /\ UNCHANGED <<queues, cancel, swept>>
    \/ \E k \in found :
       /\ queues' = [queues EXCEPT ![k] = NoState]
       /\ cancel' = [cancel EXCEPT ![queues[k]] = Alive(queues[k])]
       /\ swept' = swept \cup {queues[k]}
       /\ cleaner' = "awaiting"
       /\ todo' = ks \ {k}
       /\ awaited' = queues[k]

CleanerScans ==
    /\ cleaner = "sleeping"
    /\ \E k \in Keys : Idle(k)
    /\ SweepNext({k \in Keys : Idle(k)})
    /\ UNCHANGED <<key, content, consumer, batch, idle>>
    /\ UNCHANGED <<runVars, msgVars, phase>>

\* The awaited consumer is done; the list was not looked at again meanwhile.
CleanerResumes ==
    /\ cleaner = "awaiting"
    /\ ~Alive(awaited)
    /\ SweepNext(todo)
    /\ UNCHANGED <<key, content, consumer, batch, idle>>
    /\ UNCHANGED <<runVars, msgVars, phase>>

(***************************************************************************)
(* ChannelManager.stop_all and UnifiedQueueManager.stop_all.               *)
(***************************************************************************)

StopEnqueues ==
    /\ phase = "running"
    /\ phase' = "closing"
    /\ Settle({m \in Msgs : fate[m] = "holding"}, "lost")
    /\ UNCHANGED <<queueVars, runVars, target, cleaner, todo, awaited, swept>>

\* The cleanup task is cancelled; if it waits for a consumer, asyncio passes
\* the cancellation on to that consumer instead.
StopCleanup ==
    /\ phase = "closing"
    /\ phase' = "joining"
    /\ \/ /\ cleaner = "sleeping"
          /\ cleaner' = "ended"
          /\ UNCHANGED cancel
       \/ /\ cleaner = "awaiting"
          /\ cancel' = [cancel EXCEPT ![awaited] = Alive(awaited)]
          /\ UNCHANGED cleaner
    /\ UNCHANGED <<queues, key, content, consumer, batch, idle, runVars>>
    /\ UNCHANGED <<msgVars, todo, awaited, swept>>

StopConsumers ==
    LET registered == {s \in States : \E k \in Keys : queues[k] = s} IN
    /\ phase = "joining"
    /\ cleaner = "ended"
    /\ phase' = "draining"
    /\ cancel' = [s \in States |->
                    IF s \in registered THEN Alive(s) ELSE cancel[s]]
    /\ swept' = swept \cup registered
    /\ UNCHANGED <<queues, key, content, consumer, batch, idle, runVars>>
    /\ UNCHANGED <<msgVars, cleaner, todo, awaited>>

\* Mutant: the wait for the consumers has no timeout.
StopDoneWithoutTimeout ==
    /\ phase = "draining"
    /\ \A s \in States : ~Alive(s)
    /\ phase' = "stopped"
    /\ queues' = [k \in Keys |-> NoState]
    /\ UNCHANGED <<key, content, consumer, batch, cancel, idle, runVars>>
    /\ UNCHANGED <<msgVars, cleaner, todo, awaited, swept>>

\* All consumers are done, or five seconds are over: the registry is cleared
\* and the channel manager drops its queue manager.
StopDone ==
    /\ phase = "draining"
    /\ phase' = "stopped"
    /\ queues' = [k \in Keys |-> NoState]
    /\ UNCHANGED <<key, content, consumer, batch, cancel, idle, runVars>>
    /\ UNCHANGED <<msgVars, cleaner, todo, awaited, swept>>

(***************************************************************************)
(* The specification.                                                      *)
(***************************************************************************)

ConsumerNext(s) ==
    \/ Begin(s) \/ Take(s) \/ Drain(s)
    \/ StartRun(s) \/ IgnoreBatch(s) \/ ScreenBatch(s) \/ FailBatch(s)
    \/ ReadEnd(s)
    \/ CancelledUnstarted(s) \/ CancelledConsumer(s) \/ CancelledReader(s)

EnqueueNext(m) ==
    \/ \E k \in Keys :
          \/ EnqueueFound(m, k)
          \/ \E s \in States : EnqueueCreates(m, k, s)
    \/ Put(m)
    \/ PutTimesOut(m)

ManagerNext ==
    \/ CleanerScans \/ CleanerResumes
    \/ StopEnqueues \/ StopCleanup \/ StopConsumers \/ StopDone

Next ==
    \/ \E m \in Msgs : EnqueueNext(m)
    \/ \E s \in States : ConsumerNext(s) \/ Age(s)
    \/ \E k \in Keys :
          ClearQueue(k) \/ ConsoleStarts(k) \/ RunEnds(k) \/ RunAborts(k)
    \/ ManagerNext

Spec == Init /\ [][Next]_vars

\* The loop runs every ready task, runs come to an end, a put ends by its
\* timeout.  Nothing has to be enqueued, cleared, stopped or sent from the
\* console.
Fairness ==
    /\ \A m \in Msgs : WF_vars(Put(m) \/ PutTimesOut(m))
    /\ \A s \in States : WF_vars(ConsumerNext(s))
    /\ \A k \in Keys : WF_vars(RunEnds(k) \/ RunAborts(k))
    /\ WF_vars(CleanerResumes)
    /\ WF_vars(StopCleanup) /\ WF_vars(StopConsumers) /\ WF_vars(StopDone)

FairSpec == Spec /\ Fairness

(***************************************************************************)
(* Properties.                                                             *)
(***************************************************************************)

QueueTypes ==
    /\ queues \in [Keys -> States \cup {NoState}]
    /\ key \in [States -> Keys \cup {NoKey}]
    /\ content \in [States -> Seq(Msgs)]
    /\ \A s \in States : Len(content[s]) <= MaxSize
    /\ idle \in [States -> BOOLEAN]

ConsumerTypes ==
    /\ consumer \in [States -> ConsumerState]
    /\ batch \in [States -> Seq(Msgs)]
    /\ cancel \in [States -> BOOLEAN]
    /\ run \in [Keys -> States \cup {NoState, Console}]
    /\ deaf \subseteq States

MessageTypes ==
    /\ fate \in [Msgs -> Fate]
    /\ target \in [Msgs -> States \cup {NoState}]

ManagerTypes ==
    /\ cleaner \in {"sleeping", "awaiting", "ended"}
    /\ todo \subseteq Keys
    /\ awaited \in States \cup {NoState}
    /\ phase \in Phase
    /\ swept \subseteq States

\* Every variable keeps its type.
TypeOK == QueueTypes /\ ConsumerTypes /\ MessageTypes /\ ManagerTypes

\* A message waits in one queue once, or is in one batch once, as its fate
\* says: no interleaving of draining, clearing, cancelling and overtaking
\* puts loses track of one or hands it over twice.
OnePlace ==
    /\ \A s \in States :
         /\ IsInjective(content[s] \o batch[s])
         /\ \A m \in ToSet(content[s]) : target[m] = s /\ fate[m] = "queued"
         /\ \A m \in ToSet(batch[s]) : target[m] = s /\ fate[m] = "batched"
    /\ \A m \in Msgs :
         /\ fate[m] = "queued" => m \in ToSet(content[target[m]])
         /\ fate[m] = "batched" => m \in ToSet(batch[target[m]])

\* A queue that enqueue can find has a consumer that will look at it: no
\* interleaving of cleanup, cancellation and late pops leaves a dead letter
\* queue registered.
RegisteredHasConsumer ==
    phase \in {"running", "closing", "joining"} =>
        \A k \in Keys : queues[k] # NoState => Alive(queues[k])

\* Two consumers serve one key only where the cleanup or the shutdown has
\* cancelled one of that key: enqueueing alone never makes a second.
SerialUnlessSwept ==
    \A s, t \in States :
        s # t /\ Alive(s) /\ Alive(t) /\ key[s] = key[t]
            => \E u \in swept : key[u] = key[s]

\* A consumer has a batch in process and is not about to be cancelled.
Processing(s) ==
    consumer[s] \in {"looking", "preparing", "reading"} /\ ~cancel[s]

\* "Strict serialization for messages with the same QueueKey"
\* (unified_queue_manager.py:9): one batch of a key is in process at a time.
StrictSerialization ==
    phase = "running" =>
        \A s, t \in States :
            s # t /\ key[s] = key[t] => ~(Processing(s) /\ Processing(t))

\* A message finds its chat busy, and is dropped, only behind a run from the
\* console or where the cleanup or the shutdown took a consumer of the key
\* away from its run: the queue itself never hands over two batches of a chat
\* at a time.  (base.py:593 says of every such drop "This should not happen
\* with UnifiedQueueManager"; the queue does not know the console's runs.)
IgnoredOnlyBehindOthers ==
    [][\A m \in Msgs : fate[m] # "ignored" /\ fate'[m] = "ignored" =>
          \/ run[key[target[m]]] = Console
          \/ \E u \in swept : key[u] = key[target[m]]]_vars

\* A message in a queue is taken or cleared, unless the cleanup or the
\* shutdown cancelled the queue's consumer or its run died without a sentinel.
QueuedIsTaken ==
    \A m \in Msgs : fate[m] = "queued" ~>
        \/ fate[m] # "queued"
        \/ target[m] \in swept \cup deaf

\* "Runs every cleanup_interval seconds" (unified_queue_manager.py:379): until
\* the shutdown, the cleanup loop gets past every consumer it cancelled.
CleanupGoesOn ==
    cleaner = "awaiting" ~> cleaner # "awaiting" \/ phase # "running"

\* The shutdown ends, with consumers that ignore their cancellation too; only
\* a cleanup task that still waits for such a one can hold it up.
StopEndsUnlessCleanerWaits ==
    phase = "closing" ~> phase = "stopped" \/ cleaner = "awaiting"
=============================================================================
