# TLA+ models of QwenPaw (CoPaw)

QwenPaw is a personal AI assistant server: one Python process (`src/src/qwenpaw`)
runs *agents*, each in a *workspace*, and connects them to a web console, a
dozen chat platforms, schedules and other agents. This directory holds TLA+
modules of the parts where asyncio tasks, browser tabs and HTTP answers meet, the
TLC configurations that check them, and TLAPS proofs of their safety. Python paths below are relative to `src/src/qwenpaw/`, `console/` is
`src/console/src/`, `creator/` is `src/plugins/apps/qwenpaw-creator/`.

## 1. The system

### Parts, their state and how they interact

| Part | State it keeps | Operations | Talks to |
|---|---|---|---|
| **Task tracker** `app/task_tracker.py` | per chat: the run's task, its event buffer, the queues of its clients | `attach_or_start`, `attach`, `detach_subscriber`, `request_stop`, `stream_from_queue` | started by console routes and by channel consumers; calls the runtime (`stream_fn`) and the chat manager (`on_finished`) |
| **Channel queues** `app/channels/unified_queue_manager.py`, `manager.py` | per (channel, session, priority): a bounded queue and its consumer task; the cleanup task | `enqueue`, consumer loop, `clear_queue`, idle cleanup, `stop_all` | fed by the platforms' callbacks; hands batches to the base channel, which starts tracked runs |
| **Base channel, command registry** `app/channels/base.py`, `command_registry.py` | debounce buffers | rendering, `_consume_with_tracker` | between queues and tracker |
| **Multi-agent manager** `app/multi_agent_manager.py` | loaded workspaces, pending starts, config generations, cleanup tasks | `get_agent`, `reload_agent`, `stop_agent`, `stop_all` | every router; the config watcher and the config routes trigger reloads |
| **Workspace services** `app/workspace/` | about twenty services with priorities; which of them are borrowed from the previous workspace | `start_all`, `set_reusable`, `stop_all` (three kinds) | built and stopped by the manager |
| **Config watcher** `app/agent_config_watcher.py` | a fingerprint of the config file | poll, notice, trigger a reload | the manager |
| **Tool call coordinator** `tool_calls/` | RUNNING, OFFLOADED and recently completed calls, two deadlines each | execute, offload, extend, cancel, shutdown | the agent loop and the tool routes |
| **Console message queue** `console/stores/messageQueueStore.ts`, `console/pages/Chat/` | per conversation and tab: a list and a run state; the same in localStorage; two Web Locks | queue, edit, reorder, remove, pause, resume, retry, skip, interrupt; the senders of page and background | other tabs (broadcasts), the chat and history routes |
| **Creator project page** `creator/ui/src/store/`, `creator/ui/src/lib/useProjectDraft.ts` | the last snapshot of a project, a poll controller, a draft over a baseline with conflicts | poll, show, leave, edit, discard, save | the project routes of the plugin's backend, which agents write behind it |
| **Rate limiter, retry, fallback** `providers/` | pause, QPM window, semaphore per model | acquire, release, report a 429 | every model call |
| **Approvals** `app/approvals/service.py` | pending requests with a future each | create, resolve, wait with timeout, collect | tool guards, channels, console |
| **Crons** `app/crons/` | jobs, run state, history | register, run, pause | APScheduler, the tracker's runs |
| **Flow engine** `app/flow_engine/` | runs and steps in SQLite | start, advance, cancel, resume | flow routes |
| **Token usage** `token_usage/buffer.py` | cache, queue, dirty flag | enqueue, merge, flush | model wrapper, disk |
| **Drivers and MCP** `drivers/` | connections and their calls | connect, call, reconnect | tools |
| **Backup and restore** `backup/` | directories, staged copies, a process lock | create, restore, swap | disk |
| **Hub** `hub/` | tenants and their runtimes in a database | provision, proxy, stop | docker, local processes |
| the rest | chats and sessions, knowledge processing, mail, harnesses, PawApps, portability, governance, the rest of the console (TypeScript), desktop shell (Rust), other plugins | | |

`PROJECT.json` lists each with its status and the reason where it is not modelled.

One message travels through the modelled parts like this: a platform callback
calls `enqueue`; the queue's consumer takes a batch and calls
`attach_or_start` of the workspace's task tracker; the run's producer task
iterates over the agent's events, appends each to the run's buffer and puts it
on every client queue; clients (the consumer itself, browser tabs) read their
queues until a sentinel. Meanwhile a config change may replace the workspace
under the run (the tracker is shared by the old and the new one), a user may
stop the run, a client may disconnect and reconnect, and the idle cleanup may
take the consumer for an abandoned one.

### What is hard

* **Cancellation.** asyncio throws `CancelledError` at whatever await a task
  is at. The runtime turns it into a regular end of stream, `stream_from_queue`
  swallows it, `except Exception` does not see it. Who awaits a cancelled task
  cannot know whether it ends.
* **Check and use over an await.** Queue states, workspaces and config
  generations are read, then used after a suspension.
* **Hand-over.** A memory service moves from workspace to workspace and must
  be closed by exactly the last of them.
* **Replay and live events.** A reconnecting client must see neither a gap nor
  a repetition where the replay of the buffer ends and live events begin.
* **Delayed cleanup** of queues and workspaces while new ones of the same name
  are being created.
* **Two deadlines, a stop button and a cancelled parent** in one wait, for a tool
  that may ignore all of them.
* **One queue in many tabs.** Each tab writes the whole list from its own copy,
  a sender may die between its mark and the reply, and nobody but the chat
  history knows whether its message was accepted.
* **Answers out of order**: polls, saves and the writes of agents overtake each
  other on their way to the page.

### What makes each part correct

* Task tracker: at most one live run per chat and it is the one everybody finds;
  each client sees a prefix of its run's stream, all of it while attached, the
  end only after all of it; streams and stops end.
* Channel queues: a message is in one place; registered queues have a live
  consumer; batches of a key are processed one at a time; queued messages are
  taken; cleanup and shutdown go on.
* Workspaces: every started workspace is in exactly one pair of hands; runs and
  services in use are not stopped; no reload installs an older config.
* Tool calls: work in the background is bounded; an outcome is a success only if
  the tool returned it; somebody attends every listed call; a cancelled call
  ends; a call in the background is reported.
* Console queue: a queued message is in the stored queue until a run takes it or
  the user drops it (two tabs that write at once break this, see `queue_lost`); it is
  sent twice only when asked; turns do not pile up; the queue drains.
* Project page: the store never goes back and never shows another project; what
  the user typed survives; a save replaces only what its user knows of; the
  page ends up with the document of the backend.
* Rate limiter: never more than the limit in flight or in any window; slots
  are neither leaked nor released twice.
* Approvals: a request is decided once, and its waiter learns that decision.
* Token usage: what is enqueued is in the merged data once; a flush never goes
  back in time.

## 2. Modules

| Module | What it is |
|---|---|
| `TaskTracker` | the task tracker, complete |
| `EventLog` | what a client may rely on: append-only logs, read from the start |
| `TaskTrackerRefinement` | the mapping under which the tracker implements the log |
| `TaskTrackerProofs`, `TaskTrackerRefinementProofs` | the tracker's safety properties, and that it implements the log |
| `ChannelQueues` | queues, consumers, cleanup, shutdown, hand-over to runs |
| `ChannelQueuesProofs` | its safety properties, proved |
| `AgentReload` | workspaces, requests, reloads, stops, the shared memory service |
| `AgentReloadProofs` | its safety properties, proved |
| `ToolCalls` | the tool call coordinator: tool tasks, attendants, deadlines |
| `ToolAnswers` | what an agent may rely on: a call is answered once, with one outcome, by execute or by one hint |
| `ToolCallsRefinement` | the mapping under which the coordinator implements it |
| `ToolCallsProofs` | the coordinator's safety properties and the refinement, proved |
| `MessageQueue` | the console's queue of one conversation in several tabs, its senders, the chat they send to |
| `MessageQueueProofs` | its safety properties, proved |
| `ProjectSync` | the creator's project page, its snapshot store and draft, the backend's document |
| `ProjectSyncProofs` | its safety properties, proved |
| `MC*` | instances for TLC: symmetry sets and a view |

Operators named as mutants in their comment are erroneous variants of the
definition that follows them. No specification uses them; they document which
mistake in the code each property would notice.

### TaskTracker

Atomicity: everything runs on one event loop, and no section under the
tracker's lock awaits, so each is one step. A producer task is suspended in
two places only, inside `stream_fn` (*streaming*) and inside `on_finished`
(*finishing*); `created` is the time before its first step. A cancel is a flag
that `request_stop` sets and that is thrown at the next step of the task, with
an outcome per place: `CancelledUnstarted`, `CancelledInStream`,
`CancelSwallowed` (the runtime yields a cancel event and ends the stream
normally, `runtime/runtime.py`), `CancelledInCallback`.
A queue is kept as all that was ever put in it and the number of items taken,
so that properties can speak of the past. A run identity is used once; a chat
(`Keys`) has many runs one after the other. The events are opaque.
Abstracted: time stamps, the weak reference of the producer to its tracker,
the `wait_*` helpers and status calls, which change nothing.

### ChannelQueues

A `QueueState` (queue and consumer) is an identity used once; `queues` is the
registry. The consumer's program counter says where it is suspended: waiting
for a message, looking up its channel, preparing the hand-over, reading its
run's stream. A run is live or not; how it streams is TaskTracker's business,
but that it may swallow a cancel and that it may die without sentinel
(`deaf`) is kept, since it is what the consumer meets. `idle` stands for
`last_activity` lying further back than `idle_timeout`. The history variables
are `fate`, what became of a message, and `swept`, the consumers cancelled by
cleanup or shutdown. Abstracted: merging of message contents, the
priority of commands (part of the key), metrics. Left out because they cannot
happen or are another part: a channel that vanishes (channels are never
removed), `replace_channel`.

The tracker is shared: `POST /console/chat` starts runs too, and takes channel, session and user
from the request, so a session of a channel can be opened in the console and
used from both sides. `ConsoleStarts(k)` starts such a run for the keys in `Shared`, with `Console`
in the place of the consumer that reads it (it is refused, without effect, while a run is live). A
message that reaches the key meanwhile is dropped at `channels/base.py:588-594`; the
comment there says "This should not happen with UnifiedQueueManager", which can speak only of the
queue's own runs. A key stands for a chat: control
commands, which alone have another priority, never reach the tracker (`channels/base.py:1500-1509`),
and where several users share a session each has a chat of their own, which only makes a busy chat rarer.

### AgentReload

One agent, several workspaces, of which `agents` serves. `get_agent` is
`RequestHolds`, `RequestStarts`, `RequestWaits`, `RequestFails`, `Install`,
`ReleaseWaiters`; starting is two steps, because the services
read the config (`Build`) before the watcher takes its baseline
(`FinishStart`). `reload_agent` is `ReloadBegins` (capture the generation),
`ReloadChecks`, `Prepare`, the candidate's own start, then `SwapRefused`,
`SwapCommits` or `StartFails`; `Retire` is the delayed stop of the old
workspace. A memory service is named after the workspace that made it.
`stop_agent` holds the manager's lock over an await, hence `locked`; the other
sections under the lock are one step.
Abstracted: discards are one step; a hand edit of the file changes
its version but not the memory settings; the snapshot of the old workspace's
runs is taken at the swap. `crossed` is set when a `stop_agent` ends
while a reload is under way: what such a reload does with services that were
closed under it is a known gap (hazard at `multi_agent_manager.py:499`), and two
properties leave it out explicitly. `lent[r]` is the workspace whose memory
service a reload handed to its candidate, and `misbooked` is set when a swap books
the rejection of a service on another workspace than the one that lent it: the swap
marks whatever serves at that moment (`multi_agent_manager.py:678`), and
a reload that overtook this one may have put somebody else there.
The proof of `ServingMemoryOpen` led to this second exception. It takes four workspaces
to do harm, one more than `reload_safety` has: A serves; the route that saves the config and the
watcher both note a change of backend, and two reloads build candidates B and
C, each with its own service instead of A's. B is installed. `/daemon restart`
starts a third reload, whose candidate D borrows B's service. C is installed and marks B, which is
not what it rejected. B's cleanup therefore closes the service D has
borrowed, and when D is installed the agent serves with a closed memory service. TLC
finds this in 28 states with four workspaces, two reload calls, one
request, two backends and one edit once the condition on `misbooked` is dropped (a
bound too large for the run that checks the rest). `late` holds the requests whose run began on
a workspace that had ceased to serve.

### ToolCalls

A tool runs in a task (`new`, `run`, `done`); its chunks go into the queue of
the generator `execute`. The *attendant* of a call is that generator, or after
an offload the supervisor task; `pc` says where it is: with the caller, at the
top of its loop, in the wait, giving the tool its grace, reaping. `Wake`
is one return of `_await_next_event`, with the order in which the code looks at the
events; `Signalled`, `DeadlineReached`, `KillDeadlineReached`, `TakeChunk`
are the branches. `HandleParentCancel` reaps the tool, and the parent may be
cancelled again while it does (`ParentCancelledAgain`, hence `stops`). The
supervisor leaves its hint in a step of its own (`Hint`), as the result may
be processed after the call is over. `ToolAnswers` knows only the phases of a
call, its outcome and the unread hints.
Time is abstract: a deadline is absent, ahead or due, and the kill deadline has a
near side, for the code offloads only with at least 30 seconds left.
Abstracted: contents of chunks and responses, reasons of a cancel, ids. A tool has had
its first turn before its attendant wakes, as asyncio schedules it first.
Left out: before and after hooks and the deadline override, which nothing in the
repository uses; the subscribers of the stream; the cache of completed
calls, which only status routes read.

### MessageQueue

One conversation, several tabs. `queue[t]` is the copy of a tab, `stored` the entry in
localStorage, `inbox[t]` the broadcasts under way; `Commit` is what every write
of the store does (the memory, the storage, the broadcast), `Rearm` what the page's
effect does after it. `owner` and `waiting` are the ownership lock;
`job[t]` is the sender of a tab, which holds the send lock unless it waits for a
slot of the background senders. A sender is a chain of awaits (status and
history of the chat, the mark, the POST, its reply); at each the page
may be left, which aborts it, or the tab may die. The backend reads the
history before the status (`ReadHistory`, `ReadStatus`), so both are steps.
History variables: `made`, `posts`, `taken`, `dropped`; `waived` and `asked`
record that the user intervened; `stale` the messages of a list that
a tab wrote while broadcasts to it were under way (`LostOnlyIfOverwritten` asks for such a write; `NoSilentResend` and `OneTurnAtATime` exempt these messages); `waived` also has a message that a sender
picked in that situation (`GoesOn`, see section 4). `Keep` and `Without` are the
filters of the code as a selection of positions, which the proofs can
reason about. A broadcast is assumed to
arrive within the 500 ms of the auto-send timer (`TimerFires` requires an
empty inbox); without it, two tabs may send one after the other what the other
has just removed.
Abstracted: text and attachments, the run states `idle` and `running`
(no line tells them apart). Left out: storage events, by which a tab hears of a
write a second time, besides the broadcast; the migration of a draft conversation to its chat and the
recovery of legacy keys, extra reconciliations while a session is loaded, an
absent against an empty history entry, several conversations or agents.

### ProjectSync

`server[p]` is the document with its generation, which stands for the ETag
too; `store` the snapshot store; `poll[p]` the entry of `inFlightByProject`, `fresh`
while its token carries the epoch and project of the store; `poller` the
controller. A poll and a save are three steps each: sent, answered by the backend,
applied by the page. `Merge` is the effect of `useProjectDraft`. Every value
is written once, so a value says who wrote it, and a document is a function from
the fields of one element to values. History variables: `typed`, what the
user typed that is neither saved nor given up; `seen`, the value the user knows
to replace; `skewed`, a save marked as applied over a snapshot newer than
itself, or over text typed since it was sent (`late`).

The end of a save is one step but several parts, in the order of the code. The store's
`set` (`projectSnapshotStore.ts:382`) renders the page again, and the effect merges the new snapshot into the
draft; only then does the page, which awaited the save, call `markApplied` (`PlanPage.tsx:578-579`), and
what the draft is *by then* becomes the baseline (`SaveReplied`). Nothing of the
browser's can come between the parts: they are microtasks of one turn. As `markApplied` looks neither at the
document nor at what was sent, two behaviours of the code are excused, and listed as hazards.
When the save is overtaken by a newer snapshot, or text is typed while it is under
way, the baseline is text the document does not have; the page shows it as clean,
nothing merges it again until the document changes, and then it is overwritten. `Converges` fails
without either excuse, and `TypedIsKept` asks nothing for text typed during a save.
Left out: the branch of `mergeAuthority` for a document whose structure has changed
(`useProjectDraft.ts:172-184`: items added or removed; a document has fixed fields here) and the store's `reset`.
Also left out: idempotency records, locks and edit blocks of the backend, effects
of an edit on generated media, the review and edit-buffer stores, several windows
(another window is `AgentWrites`).

## 3. Runs

| Run | Instance | Shows |
|---|---|---|
| `tracker_runs` | 1 chat, 2 runs, 2 clients, 2 stoppers, 1 event and the error event | streams are exact prefixes and complete, one live run per chat, refinement of `EventLog`; connected streams end unless the run was killed outside `stream_fn`; every stop returns |
| `tracker_cleanup` | 1 run | **violated**: a cancel before the first step or in the callback leaves the run registered and its clients waiting |
| `queues` | 2 keys (one used from the console too), 3 queue states, 2 messages, queue size 1 | messages in one place, registered queues served, double consumers only after a cleanup, batches ignored only behind a run of the console or of a swept consumer; queued messages are taken; shutdown ends unless the cleanup is stuck |
| `queues_serial` | 1 key, 3 queue states, 3 messages | **violated**: a late pop of a cancelled consumer unregisters its successor, and two consumers then process one key |
| `queues_cleanup` | 1 key, 2 queue states | **violated**: the cleanup waits for ever for a consumer whose run swallowed the cancel |
| `reload_safety` | 3 workspaces (one may fail), 2 reloads, 2 requests, 2 backends, 1 config change | one holder per workspace, runs and memory service kept, no stale swap |
| `reload_memory` | 3 workspaces, 2 changes | **violated**: the memory service of a run in flight is closed by a second reload that rejects it |
| `tool_calls` | 1 call, 1 chunk, 2 uses of the API, 2 cancels of the parent | bounded background work, real outcomes, every listed call attended; a cancelled call ends, an offloaded one is reported; refinement of `ToolAnswers` |
| `queue_safety` | 2 tabs, 2 messages, 3 uses of the panel, 4 page or tab moves, 1 fault | a message is lost only by the write of a list that lacked it (`LostOnlyIfOverwritten`); none is sent again unasked or on top of another, but for `stale` ones |
| `queue_lost` | 2 tabs, 2 messages | **violated**: both tabs queue a message before the broadcast of either arrives; the second list overwrites the first |
| `queue_drains` | 1 tab, 2 messages | **violated**: an attempt to send is dropped while a sender holds the lock; when the user removes that sender's message, nothing sends the next one |
| `project_sync` | 2 projects (1 edited), 2 fields (agents write one), 1 save at a time, 2 saves, 3 values, 2 moves or faults | own snapshot, no roll-back, typed text kept, no blind overwrite, convergence |

The violated runs state what a comment or doc string of the code says (quoted
at the property and in `PROJECT.json`, "findings"); the counterexamples are
behaviours of the code.

**Bounds.** A second run of a chat is what distinguishes a stale registry
entry; two clients give every mix of early, replayed and refused ones. Events: one opaque event and the error event
tell repetition from loss, as positions are compared. A key needs three queue
states for "swept, its successor, and the successor's successor". Queue
size 1 makes "full" the common case. A reload chain of two (three workspaces)
is the shortest in which a service is handed on twice or rejected after it
was handed on; two reload calls overlap; one config change makes a reload
stale. One tool call is enough, as calls share only the settings, the hints and
the shutdown. Two tabs and two messages are what a crossing write, a reorder
and a hand-over need; one fault is enough to lose the reply that recovery is about.
In `project_sync` two saves overlap with polls, and agents write the field the
user may be editing, while the other field stays clean. `MaxEvents`, `MaxSize`,
`MaxEdits` and the `Max...` constants of the newer modules are the only
counters with a bound.
Identities are used once instead of being recycled, which bounds every run.

**Symmetry and view.** The runs `reload_*`, `queue_safety` and `queue_lost`, which check no liveness, use
symmetry of identities, which no definition orders. `reload_safety` also uses a VIEW that forgets what neither
an action nor a property of that run reads again (fields of stopped
workspaces, the captured generation of idle calls) and replaces versions,
which only grow, by their comparison with the current and the noted one. No
liveness run uses either.

**Fairness.** Weak fairness of what the event loop must run: a task that is
ready (producer, consumer, cleanup, a started shutdown), a `stream_fn` that
eventually ends or fails, a put that succeeds or times out (it has a
time limit). Nothing forces a request, a stop, a disconnect or a cleanup. That
a model answers at all is assumed, as the retry layer gives every call a time
limit.

`ToolCalls` assumes in addition that its clock passes, unless
the call was told to stop: then nothing may wait for a deadline, and
`CancelTakesEffect` holds without one. A tool's output is finite; that a tool ends
by itself, or heeds a signal, is not assumed, but a `CancelledError` thrown into it
does end it. `MessageQueue`: senders go on,
requests reach the backend or fail, runs end, broadcasts arrive, timers fire.
`ProjectSync`: timers fire, effects run, requests are answered or fail;
that agents and users stop comes from the bounds.

**Deadlock** is not checked (`CHECK_DEADLOCK FALSE`): every instance really
stops when its identities are used up. Being stuck is the subject of
the liveness properties.

## 4. Proofs

Every theorem holds for all values of the constants (any sets of chats, calls,
workspaces, tabs..., any bounds) under the assumptions named in the module it is
about. These only say that a "none" value is no identity, that the markers of a
stream differ from events and from each other, and that bounds are natural
numbers. TLC evaluates them in each run, and has checked the inductive
invariants as invariants of the runs before they were proved.

### Task tracker

| Theorem | States | Argument |
|---|---|---|
| `TypeCorrect` | `[]TypeOK` | inductive as it stands |
| `OneLiveRunPerKey` | `[]LiveIsRegistered` | `RegistryInv`: a registered run has that key, and a live run is registered |
| `LiveNeverDisplaced` | `NeverDisplaced` | the registry changes in `StartRun` and `Finish` only; by `RegistryInv` the one meets no live entry and the other meets its own |
| `StreamsArePrefixes`, `NothingIsMissed`, `EndIsComplete` | `[]StreamIsPrefix`, `[]NothingMissed`, `[]EndMeansComplete` | `StreamInv`, their conjunction with `AttachInv` |
| `CleanupUnlessKilled` | `[]CleanupWhenTaskCompletes`, as long as no task is killed outside `stream_fn` | `LeftOver`: a registered run that is over has an aborted task |
| `FinishedRunsTellTheEnd` | `[]EndIsThere`: who is connected to a finished run has the end left to read | `KnownInRun`: a reader's queue is still known to its run |
| `StrandedForGood` | who waits for a killed run waits until it leaves | the queue is of no other run, and a run that is over puts nothing |
| `TrackerIsEventLog` | `ImplementsEventLog` | `LogInv`: the above and `ReadInv` (nothing is taken that was not put; who has taken the sentinel was told the end) |

`StreamIsPrefix` is not inductive alone: that appending an event to a queue
keeps it a prefix needs that the queue had everything so far (`NothingMissed`),
and that needs to know which queues a run still has. `AttachInv` ties the
three: a queue in `queues[r]` was attached to `r`, is in use, and a marker lies within what was
put into its queue. The step lemmas are about the stream itself (`StreamGrows`,
`StreamCloses`, `ReplayIsStream`: what an event, the end, and a replay do to
position `i`), then one lemma per kind of action, then `StreamStep`. The
refinement maps each action of the tracker to one of the log or to a stutter
(`CallerMaps`, `ProducerMaps`, `ReaderMaps`).

### Channel queues

| Theorem | States | Argument |
|---|---|---|
| `TypeCorrect` | `[]TypeOK` | part by part |
| `RegisteredIsServed` | `[]RegisteredHasConsumer` | `RegInv`: until the drain of a shutdown, a registered queue has a consumer that no cancel is on its way to |
| `EnqueueKeepsSerial` | `[]SerialUnlessSwept` | `OrphanInv`: a living consumer that is not registered has a swept key |
| `MessagesStayInOnePlace` | `[]OnePlace` | `PlaceInv`: the content of queues and batches has no repetition, agrees with `fate` and `target`, and only a consumer with a batch has one |
| `DropsAreBehindOthers` | `IgnoredOnlyBehindOthers` | `RunInv`: the consumer that started the live run of a key reads it, unless the key was swept; any other live run is the console's |
| `StrictUntilSwept` | `[]StrictSerialization`, as long as nothing was swept | from `EnqueueKeepsSerial` |
| `QueuedMessagesAreAttended` | `[]QueuedIsAttended`: what is held, queued or batched has a living consumer, unless that was swept | `EndedInv`: only a sweep ends a consumer |
| `LossFollowsSweeps` | `[]LostInv`: while the service runs, only a sweep loses a message | inductive with `PlaceInv` |
| `CleanupStaysStuck` | a cleanup that waits for a consumer that swallowed its cancel waits until a shutdown | by cases: nobody finds the popped queue |

All rest on `KeyInv`: whatever refers to a queue state refers to one in use,
with the key it was made for, and only a sweep cancels consumers. Without
it, a late pop could unregister a queue state of another key.

### Workspaces

| Theorem | States | Argument |
|---|---|---|
| `TypeCorrect` | `[]TypeOK` | part by part |
| `OneInCharge` | `[]OneHolder` | `HolderInv`: what serves runs (or is being stopped under the lock), one request at most starts the agent, candidates are up and belong to one reload, and what is up is held |
| `ServedRunsAreKept` | `[]RunsKept` | `RunInv`: a run that came in time is on the serving workspace, or in the snapshot its retiring workspace waits for, or somebody removed the agent |
| `SwapsAreNotStale`, `SwapsApplySettings` | `NoStaleSwap`, `SwapAppliesSettings` | `FreshInv`: a candidate whose captured generation is the current one has the noted config and the memory settings of now |
| `ServingMemoryStaysOpen`, `OpenMemoryIsUsed` | `[]ServingMemoryOpen`, `[]MemoryHasUser` | `SharedInv` |
| `RejectionAloneClosesMemory`, `MemoryIsKeptUnlessRejected` | `[]RunsKeepMemory`, and from it `[]InFlightKeepsMemory` as long as no memory service was rejected | `RetainedInv`: what is in use is open, unless a stopped workspace had the same service rejected |
| `NotesAreLostInTwoWays` | `[]NotedIsServed`, of behaviors without the two steps of `LosesNote` | `NotedInv`: what serves, or was built to, has the noted change or a reload brings it |

`SharedInv` says, as long as neither exception has occurred, what each reload
knows of the service it borrowed (`LentInv`: who lent it, whether it is still the one in use), that no
retiring workspace will close the service in use (`OpenInv`), and that somebody will
close each open one (`UserInv`). The three need each other: a swap
keeps `OpenInv` only because the candidate's service is the current
one or its own, which is `LentInv`, and that survives the swap of
*another* reload only because the generation has moved on. `MadeInv` says
who made and who holds a service.

### Tool calls

| Theorem | States | Argument |
|---|---|---|
| `TypeCorrect` | `[]TypeOK` | part by part |
| `OffloadedStaysBounded` | `[]BoundedBackground` | inductive with the types |
| `ListedStaysAttended` | `[]ListedIsAttended` | `StopInv`: a tool is cancelled after its signal only; who reaps for a cancelled agent has set the signal |
| `OutcomeStaysReal` | `[]OutcomeIsReal` | `OutcomeInv`: the end state is only guessed where the task ended unsignalled |
| `BackgroundStopGoesOn` | a background call told to stop stays told so, and each step of its supervisor lowers `StepsLeft` | `BackInv`: it has no offload deadline left to wait for |
| `AnswersOnce` | `ImplementsToolAnswers` | `AnswerInv`: an attendant belongs to a listed call; one that is over is only left to be reported |

### Project page

| Theorem | States | Argument |
|---|---|---|
| `TypeCorrect` | `[]TypeOK` | `TypeInv`: with projects where one is expected (`PlaceInv`) and generations counted by the writes made (`GenInv`) |
| `SnapshotStaysOwn` | `[]OwnSnapshot` | the epochs |
| `AuthorityNeverRollsBack` | `NeverRollsBack` | by cases of what moves the store |
| `SavesReplaceTheKnown` | `NoBlindOverwrite` | `KnownInv`: the draft's baseline is known, and so is what a save of it compares with |
| `TypedStaysKept` | `[]TypedIsKept` | `KeptInv`, with `ValInv` (values are used in order) |
| `PollingGoesOn` | the page of a living project has its timer running or a poll under way | `PollInv` |
| `CurrentIsTheDocument` | at the generation of now the page shows the document of now, and the draft is over it unless `skewed` | `CopyInv`: a copy with the document's generation *is* the document; `BaseInv`: the draft's baseline is the snapshot shown; `ReplyInv` |

`TypedIsKept` is not inductive: a merge keeps a field only if the draft differs
from its baseline, and the end of a save forgets what the save did not carry. `Kept` adds
both: the baseline is not what was typed, nor is the
document, and every save that is under way goes along with the typed text.

`CurrentIsTheDocument` has to show that the end of a save leaves the document as the baseline, though
`markApplied` takes the draft. `ReplyInv` is why: as long as nothing was typed since the save was sent,
whatever is changed in the draft is in the save with that value (`Covers`: merges, discards and
other replies only take changes away), and a save that was carried out has its values in its
document (`CarriedOut`). So the merge before `markApplied` leaves a draft that *is* that document
(`MarkingRebases`).

### Message queue

| Theorem | States | Argument |
|---|---|---|
| `TypeCorrect` | `[]TypeOK` | `TypeInv`: with the lock line (`LineInv`), what a closed tab keeps (`PageInv`), what is queued anywhere was made (`KnownInv`), what senders know (`JobInv`) |
| `LossIsAnOverwrite` | `LostOnlyIfOverwritten` | `SyncInv`: a write of a list made from the stored one keeps what is stored; one made from a copy differs from it only if all of both is `stale` |
| `NoSilentResends` | `NoSilentResend` | `SyncInv` and `UnsentInv`: a stored `pending` message was never posted, or somebody asked for it |
| `OneTurn` | `OneTurnAtATime` | `TurnInv` |
| `SendingStallsInTwoWays` | `[]HeadIsAttended`, of behaviors without `DropsAttempt` and `GivesUpRefresh` | inductive with `AwayInv`: a shown page has no background sender |

Two tabs may hold different lists, so no fact about a copy is inductive.
`SyncInv` says what holds instead: the last list under way to a tab, or the copy of
a tab to which none is under way, *is* the stored list, unless all of both is `stale`.
Every action that writes is shown once to be a write of a list made from the stored
one or from the tab's copy (`Writes`, with one lemma per action), with what
such a step keeps (`Follows`); the invariants are then proved of such a
step instead of thirty actions (`StepWrites`). Likewise every step does one of four things to a
sender (`Decides`).

`TurnInv` is about the *loud* messages: under way, and the user knows nothing of
them. They were posted once and not taken (`CountInv`); they are in front of the stored list, marked
`sending` or `failed`, and of what a recovering page has or will be told
(`FrontInv`); no page sender that would post without looking is at
work (`QuietInv`); and what such a sender is for is at the head (`HeadInv`). A background
sender that posts waits for the head, so nothing loud is there.

The proof of `OneTurn` found a case the model had not excused and two
messages cannot show. A page's sender that goes on after a recovery or a skip
(`src/console/src/pages/Chat/index.tsx:1918-1930`) takes the head of its own copy.
If another tab has just moved that message, and this is still under way to the page, the sender posts a
message that is not at the head of the stored queue. When its
tab dies during the POST, the mark is not at the head, where recovery looks
(`chatRunLifecycle.ts:102`), and the other tab posts its head on top. TLC confirms it:
from a queue of three messages, the first failed, and two open pages it takes two uses of the panel and one
departure. `GoesOn` now
counts what is picked with broadcasts under way among the exempt messages.

`SendingStallsInTwoWays` says why a queue stops draining. As long as the head of an
owned, shown queue may be sent, the timer is armed or a sender is committed to that
very message: it will send it, find out what became of it, or arm the timer.
Every write arms the timer, so each way out of a sender's turn must write or
find that the head may not be sent. Two steps break that: the dropped attempt
of the `queue_drains` run, and a second one that run does not show: the refresh before
a *retried* message is sent gives up when another run has started meanwhile
(`Chat/index.tsx:1635`), changes nothing and leaves no timer. TLC finds `HeadIsAttended` broken when either
of the two is allowed.

### The violated properties

A violated run shows one counterexample; for five of the six a theorem says what all of
them have in common, so that the code is known to be right but for that cause.

| Run | Holds unless | Theorem |
|---|---|---|
| `tracker_cleanup` | a task is killed before its first step or in `on_finished` | `CleanupUnlessKilled` |
| `queues_serial` | a consumer was cancelled by the cleanup or a shutdown | `StrictUntilSwept` |
| `reload_memory` | a candidate rejected a memory service that another workspace uses | `MemoryIsKeptUnlessRejected` |
| `queue_lost` | a tab without the message writes its list, and one of the two lists was written with news of another tab under way | `LossIsAnOverwrite` |
| `queue_drains` | the two steps above (the invariant it needs, not the property) | `SendingStallsInTwoWays` |

`NotedIsServed` has no run. `NotesAreLostInTwoWays` gives its causes: a candidate that fails to start, and a reload that
finds no agent while the first start is under way with its services built, and ends with "not running", though the comment there
(`multi_agent_manager.py:586-587`) says "will be loaded on next request".

Of the sixth, `queues_cleanup`, `CleanupStaysStuck` says that there is no way back. It
and `StrandedForGood` are about steps, so they hold under any fairness.

### Only model-checked

The liveness properties themselves: liveness under fairness and ENABLED
are out of the prover's reach. What is proved of them is the safety they rest on, after which only
the steps section 3 assumes fair are missing:

| Property | Proved of it |
|---|---|
| `StreamEndsUnlessAborted` | the end is there to be read (`FinishedRunsTellTheEnd`), and its exception is for good (`StrandedForGood`) |
| `QueuedIsTaken` | the consumer is there (`QueuedMessagesAreAttended`, `RegisteredIsServed`) |
| `OffloadedIsReported`, `CancelTakesEffect` | the attendant is there (`ListedStaysAttended`), and in the background its steps are counted down (`BackgroundStopGoesOn`) |
| `Converges` | polling goes on (`PollingGoesOn`), and what it ends in is right (`CurrentIsTheDocument`) |
| `QueueDrains` | who will send (`SendingStallsInTwoWays`) |
| `StopEnds`, `StopEndsUnlessCleanerWaits` | nothing of its own |

That `Keep` is the library's
`SelectSeq` is not proved either: it would be an induction over sequences. TLC
evaluates it on sequences of up to four elements (`KeepSelects` of
`MCMessageQueue`).

## 5. Not modelled

Platform protocols, rendering, HTTP mapping, prompts and model calls; the
desktop shell and, but for the two parts above, the TypeScript clients; data
processing of the knowledge part. In the modelled parts: shutdown of the manager
(`stop_all` takes no lock and can race with a start), the startup scheduler and
its semaphore, errors raised by a stop, the 24 hour limit of the delayed cleanup,
deletion of agents, threaded entry points of the channel manager, and what
section 2 names for each module. `PROJECT.json` gives the reason part by part.

## 6. Plan

1. Proofs: every safety property of the passing runs is proved, and the violated
   ones under the condition that excludes their counterexample. A measure for the whole life of a
   call in the foreground, and one for a message from its queue to its run,
   would leave of the liveness properties nothing but fairness.
2. `Approvals` (a decision against its timeout) and `RateLimiter` (semaphore and
   window with cancelled waiters), `TokenBuffer` (seeding race, crash),
   `ServiceStart` (priority groups, half-started groups), `FlowEngine` and
   `SafeSwap` (persisted state machines with crashes): candidates for the same
   treatment, in this order.
3. A composition of `ChannelQueues` and `TaskTracker` over one key, so that the
   abstract run of the former is the run of the latter.
