---------------------------- MODULE MessageQueue ----------------------------
(***************************************************************************)
(* The console's message queue for one conversation, shared by the tabs of *)
(* one browser (console/src/stores/messageQueueStore.ts, the sender parts  *)
(* of console/src/pages/Chat/index.tsx and chatRunLifecycle.ts).           *)
(*                                                                         *)
(* Every tab keeps a copy of the queue in memory.  A write replaces the    *)
(* whole list in memory and in localStorage and broadcasts it to the other *)
(* tabs.  One tab at a time owns the conversation (a Web Lock held while   *)
(* its chat page is mounted, or by its background sender) and one sender   *)
(* at a time holds the send lock.  A sender waits until the backend says   *)
(* the chat is idle, marks its message `sending', posts it and removes it  *)
(* once the backend has accepted it.  A sender that is aborted (the page   *)
(* is left, the tab dies) leaves the mark behind; whoever sends next asks  *)
(* the chat history for the receipt before it does anything.               *)
(*                                                                         *)
(* The run states `idle' and `running' are one here ("idle"): no line of   *)
(* the code tells them apart.                                              *)
(***************************************************************************)
EXTENDS Naturals, Sequences, FiniteSets

CONSTANTS
    Tabs,       \* browser tabs
    Items,      \* messages the user may queue, by clientMessageId
    NoTab,      \* no owner
    NoItem,     \* no message; also the chat that runs nothing
    Other,      \* a run that does not come from this queue
    MaxQueue,   \* MAX_QUEUE_SIZE
    MaxEdits,   \* bound: uses of the queue panel
    MaxMoves,   \* bound: page visits, departures and tab crashes
    MaxFaults   \* bound: lost requests, replies and runs, and other runs

ASSUME DistinctNulls ==
    /\ NoTab \notin Tabs
    /\ {NoItem, Other} \cap Items = {}
    /\ NoItem # Other

ASSUME BoundsAreNaturals ==
    {MaxQueue, MaxEdits, MaxMoves, MaxFaults} \subseteq Nat

VARIABLES
    page,       \* page[t]: "closed", "away" (elsewhere in the app) or "here"
    queue,      \* queue[t]: the list and run state in the memory of tab t
    stored,     \* the list and run state in localStorage
    inbox,      \* inbox[t]: broadcasts not yet delivered to tab t
    owner,      \* the tab whose page or background sender owns the chat
    waiting,    \* tabs waiting for the ownership lock, in order
    wake,       \* wake[t]: the auto-send timer of tab t is armed
    job,        \* job[t]: the sender of tab t; it has the send lock unless "slot"
    net,        \* POSTs the backend has not seen yet
    chat,       \* what the backend runs for this chat
    history,    \* messages whose receipt is in the chat history
    left,       \* what is left of the bounds
    made,       \* history variable: messages queued so far
    posts,      \* history variable: how often each message was posted
    taken,      \* history variable: messages a run was started for
    dropped,    \* history variable: messages the user took off the queue
    waived,     \* history variable: under way when the user intervened, or
                \* picked from a copy with undelivered news
    asked,      \* history variable: the user asked to send it again
    stale       \* history variable: written from a copy with undelivered news

histories == <<made, posts, taken, dropped, waived, asked, stale>>
backend == <<net, chat, history>>
locks == <<owner, waiting>>
vars == <<page, queue, stored, inbox, locks, wake, job, backend, left,
          histories>>

-----------------------------------------------------------------------------
(* Lists.                                                                  *)

Statuses == {"pending", "sending", "failed"}
RunStates == {"idle", "paused", "error"}
Entry == [id: Items, st: Statuses, tries: 0..1]  \* retryCount, 1 for more
Halted(q) == q.run \in {"paused", "error"}
Empty == [items |-> <<>>, run |-> "idle"]

Ids(items) == {items[k].id : k \in DOMAIN items}
EntryOf(q, i) == q.items[CHOOSE k \in DOMAIN q.items : q.items[k].id = i]
Has(q, i, st) == \E k \in DOMAIN q.items : /\ q.items[k].id = i
                                           /\ q.items[k].st = st
HeadIn(q, sts) == q.items # <<>> /\ Head(q.items).st \in sts

SetItemStatus(q, i, st) ==
    [items |-> [k \in DOMAIN q.items |->
                   IF q.items[k].id # i THEN q.items[k]
                   ELSE [q.items[k] EXCEPT !.st = st,
                                           !.tries = IF st = "failed"
                                                     THEN 1 ELSE @]],
     run |-> IF st = "failed" /\ i \in Ids(q.items) THEN "error" ELSE q.run]

\* The elements of s at the positions in ks, in their order.
Keep(s, ks) ==
    LET Rank(k) == Cardinality({j \in ks : j <= k})
    IN  [n \in 1..Cardinality(ks) |-> s[CHOOSE k \in ks : Rank(k) = n]]

Without(items, ids) == Keep(items, {k \in DOMAIN items : items[k].id \notin ids})

RemoveItem(q, i) == [q EXCEPT !.items = Without(@, {i})]

\* Drop every message whose receipt was seen; an error state whose failed
\* message went with them is over.
ReconcileHistory(q, seen) ==
    LET rest == Without(q.items, seen)
    IN  IF Len(rest) = Len(q.items) THEN q
        ELSE [items |-> rest,
              run |-> IF /\ q.run = "error"
                         /\ \A k \in DOMAIN rest : rest[k].st # "failed"
                      THEN "idle" ELSE q.run]

\* Bug: a message found `sending' is made ready to be sent again.
LoadFreshFromStorage(t) ==
    [items |-> [k \in DOMAIN stored.items |->
                   IF stored.items[k].st = "failed" THEN stored.items[k]
                   ELSE [stored.items[k] EXCEPT !.st = "pending"]],
     run |-> stored.run]

\* What a page finds when it loads the queue; without an entry in storage
\* the run state in memory stays.
LoadFromStorage(t) ==
    IF stored.items = <<>> THEN [queue[t] EXCEPT !.items = <<>>]
    ELSE [items |-> stored.items,
          run |-> IF stored.run = "paused" THEN "paused"
                  ELSE IF stored.run = "error" \/ HeadIn(stored, {"failed"})
                  THEN "error" ELSE "idle"]

(* Broadcasts: the list, the run state or both.                            *)
NoRun == "none"
ListOf(q) == [list |-> TRUE, items |-> q.items, run |-> NoRun]
BothOf(q) == [list |-> TRUE, items |-> q.items, run |-> q.run]
RunOf(q) == [list |-> FALSE, items |-> <<>>, run |-> q.run]

\* writeQueueToStorage: an empty list removes the entry, run state and all.
WriteQueueToStorage(q) == stored' = IF q.items = <<>> THEN Empty ELSE q

\* One or more writes of a tab in one turn of its event loop: the last state
\* stays, every write is broadcast, and the page re-arms its timer.
Commit(t, q, msgs) ==
    /\ queue' = [queue EXCEPT ![t] = q]
    /\ IF msgs = <<>>
       THEN UNCHANGED <<stored, inbox, stale>>
       ELSE /\ WriteQueueToStorage(q)
            /\ inbox' = [o \in Tabs |->
                            IF o = t \/ page[o] = "closed" THEN inbox[o]
                            ELSE inbox[o] \o msgs]
            /\ stale' = IF inbox[t] = <<>> THEN stale
                        ELSE stale \cup Ids(q.items) \cup Ids(stored.items)

Rearm(t, q, msgs) ==
    wake' = [wake EXCEPT ![t] = @ \/ /\ msgs # <<>>
                                     /\ page[t] = "here"
                                     /\ q.items # <<>>]

-----------------------------------------------------------------------------
(* Senders.                                                                *)

NoJob == [role |-> "none", pc |-> "none", mode |-> "none", id |-> NoItem,
          forced |-> FALSE, n |-> 0, seen |-> {},
          busy |-> FALSE, reply |-> "none"]

\* The background sender between two messages: registered, without locks.
Slot == [NoJob EXCEPT !.role = "bg", !.pc = "slot"]

Asking(role, mode, i, forced) ==
    [NoJob EXCEPT !.role = role, !.pc = "asking", !.mode = mode, !.id = i,
                  !.forced = forced]

SendLockFree == \A t \in Tabs : job[t].pc \in {"none", "slot"}

Become(t, j) == job' = [job EXCEPT ![t] = j]

\* The ownership lock goes with the background sender's turn; a page keeps it.
LeaveTurn(t) ==
    /\ owner' = IF job[t].role = "bg" THEN NoTab ELSE owner
    /\ UNCHANGED <<waiting, waived>>

\* The next message is picked; a tab with undelivered news may pick one that
\* another tab has moved from the head.
GoesOn(t, i) ==
    /\ Become(t, Asking("fg", "send", i, FALSE))
    /\ waived' = IF inbox[t] = <<>> THEN waived ELSE waived \cup {i}
    /\ UNCHANGED locks

InFlight == {p.id : p \in net}
UnderWay == InFlight \cup ({job[t].id : t \in Tabs} \cap Items)

Init ==
    /\ page = [t \in Tabs |-> "closed"]
    /\ queue = [t \in Tabs |-> Empty]
    /\ stored = Empty
    /\ inbox = [t \in Tabs |-> <<>>]
    /\ owner = NoTab
    /\ waiting = <<>>
    /\ wake = [t \in Tabs |-> FALSE]
    /\ job = [t \in Tabs |-> NoJob]
    /\ net = {}
    /\ chat = NoItem
    /\ history = {}
    /\ left = [edits |-> MaxEdits, moves |-> MaxMoves, faults |-> MaxFaults]
    /\ made = {}
    /\ posts = [i \in Items |-> 0]
    /\ taken = {}
    /\ dropped = {}
    /\ waived = {}
    /\ asked = {}
    /\ stale = {}

-----------------------------------------------------------------------------
(* Pages and tabs.                                                         *)

Spend(kind) == /\ left[kind] > 0
               /\ left' = [left EXCEPT ![kind] = @ - 1]

\* A tab opens the app somewhere else; it has not loaded this queue.
Open(t) ==
    /\ page[t] = "closed"
    /\ Spend("moves")
    /\ page' = [page EXCEPT ![t] = "away"]
    /\ UNCHANGED <<queue, stored, inbox, locks, wake, job, backend, histories>>

\* Bug: an aborted sender takes its message off whether accepted or not.
HasPosted(t) == job[t].pc \in {"posting", "draining"}

\* A sender whose POST has got its headers when it is aborted.
Subscribed(t) == job[t].pc = "draining"

\* The chat page mounts: it loads the queue, asks for ownership and stops
\* the tab's background sender.  A sender that was reading its stream takes
\* the accepted message off the queue; one that still waits for the reply
\* leaves the message `sending'.
Mount(t) ==
    LET q0 == LoadFromStorage(t)
        accepted == Subscribed(t)
        q == IF accepted THEN RemoveItem(q0, job[t].id) ELSE q0
    IN  /\ page[t] = "away"
        /\ Spend("moves")
        /\ page' = [page EXCEPT ![t] = "here"]
        /\ Commit(t, q, IF accepted THEN <<ListOf(q)>> ELSE <<>>)
        /\ wake' = [wake EXCEPT ![t] = q0.items # <<>>]
        /\ owner' = IF owner = t THEN NoTab ELSE owner
        /\ waiting' = Append(waiting, t)
        /\ Become(t, NoJob)
        /\ UNCHANGED <<backend, made, posts, taken, dropped, waived, asked>>

\* The lock manager grants ownership.  A page that had shown itself as
\* queue-only first refreshes the history under the send lock (`handoff').
Grant(t) ==
    /\ owner = NoTab
    /\ waiting # <<>> /\ Head(waiting) = t
    /\ owner' = t
    /\ waiting' = Tail(waiting)
    /\ wake' = [wake EXCEPT ![t] = @ \/ queue[t].items # <<>>]
    /\ \/ UNCHANGED job
       \/ /\ SendLockFree
          /\ Become(t, Asking("fg", "handoff", NoItem, FALSE))
    /\ UNCHANGED <<page, queue, stored, inbox, backend, left, histories>>

\* The chat page is left: its scope is aborted, every lock is released, and
\* an owner with something queued goes on in the background.
Leave(t) ==
    /\ page[t] = "here"
    /\ Spend("moves")
    /\ page' = [page EXCEPT ![t] = "away"]
    /\ wake' = [wake EXCEPT ![t] = FALSE]
    /\ owner' = IF owner = t THEN NoTab ELSE owner
    /\ waiting' = Keep(waiting, {k \in DOMAIN waiting : waiting[k] # t})
    /\ Become(t, IF owner = t /\ queue[t].items # <<>> THEN Slot ELSE NoJob)
    /\ UNCHANGED <<queue, stored, inbox, backend, histories>>

\* The tab is closed, reloaded or dies: only localStorage survives.
Close(t) ==
    /\ page[t] # "closed"
    /\ Spend("moves")
    /\ page' = [page EXCEPT ![t] = "closed"]
    /\ queue' = [queue EXCEPT ![t] = Empty]
    /\ inbox' = [inbox EXCEPT ![t] = <<>>]
    /\ wake' = [wake EXCEPT ![t] = FALSE]
    /\ owner' = IF owner = t THEN NoTab ELSE owner
    /\ waiting' = Keep(waiting, {k \in DOMAIN waiting : waiting[k] # t})
    /\ Become(t, NoJob)
    /\ UNCHANGED <<stored, backend, histories>>

\* The chat page mounts for another chat and scans localStorage.  Only a
\* queue that is also in the memory of the tab gets a sender.
StartAllBackgroundQueues(t) ==
    /\ page[t] = "away"
    /\ job[t] = NoJob
    /\ \E k \in DOMAIN stored.items : stored.items[k].st # "failed"
    /\ stored.run # "paused"
    /\ queue[t].items # <<>>
    /\ Spend("moves")
    /\ Become(t, Slot)
    /\ UNCHANGED <<page, queue, stored, inbox, locks, wake, backend, histories>>

\* A broadcast arrives.
Deliver(t) ==
    LET m == Head(inbox[t])
        q == [items |-> IF m.list THEN m.items ELSE queue[t].items,
              run |-> IF m.run = NoRun THEN queue[t].run ELSE m.run]
    IN  /\ inbox[t] # <<>>
        /\ inbox' = [inbox EXCEPT ![t] = Tail(@)]
        /\ queue' = [queue EXCEPT ![t] = q]
        /\ Rearm(t, q, <<m>>)
        /\ UNCHANGED <<page, stored, locks, job, backend, left, histories>>

-----------------------------------------------------------------------------
(* The queue panel.                                                        *)

Edits(t, q, msgs) ==
    /\ page[t] = "here"
    /\ Spend("edits")
    /\ Commit(t, q, msgs)
    /\ Rearm(t, q, msgs)
    /\ UNCHANGED <<page, locks, backend, posts, taken>>

Enqueue(t, i) ==
    LET q == [queue[t] EXCEPT !.items =
                 Append(@, [id |-> i, st |-> "pending", tries |-> 0])]
    IN  /\ i \notin made
        /\ Len(queue[t].items) < MaxQueue
        /\ made' = made \cup {i}
        /\ Edits(t, q, <<ListOf(q)>>)
        /\ UNCHANGED <<job, dropped, waived, asked>>

\* New text for a queued message: the list is written as this tab has it.
Edit(t) ==
    /\ queue[t].items # <<>>
    /\ Edits(t, queue[t], <<ListOf(queue[t])>>)
    /\ UNCHANGED <<job, made, dropped, waived, asked>>

Pause(t) ==
    LET q == [queue[t] EXCEPT !.run = "paused"]
    IN  /\ ~Halted(queue[t])
        /\ queue[t].items # <<>>
        /\ Edits(t, q, <<RunOf(q)>>)
        /\ UNCHANGED <<job, made, dropped, waived, asked>>

\* The other controls are the user's own decision about what is in flight.
Intervene(t, q, msgs, again, gone) ==
    /\ Edits(t, q, msgs)
    /\ waived' = waived \cup UnderWay \cup again
    /\ asked' = asked \cup again
    /\ dropped' = dropped \cup gone
    /\ UNCHANGED made

\* What a control starts at once, if the tab may send and the lock is free.
StartsNow(t, j) ==
    IF owner = t /\ SendLockFree THEN Become(t, j) ELSE UNCHANGED job

Swap(items, a, b) == [items EXCEPT ![a] = items[b], ![b] = items[a]]
Reorder(t) ==
    \E k \in 1..(Len(queue[t].items) - 1) :
        LET q == [queue[t] EXCEPT !.items = Swap(@, k, k + 1)]
        IN  Intervene(t, q, <<ListOf(q)>>, {}, {}) /\ UNCHANGED job

Remove(t, i) ==
    LET q == RemoveItem(queue[t], i)
    IN  /\ i \in Ids(queue[t].items)
        /\ Intervene(t, q, <<ListOf(q)>>, {}, {i})
        /\ UNCHANGED job

Clear(t) ==
    /\ Len(queue[t].items) > 1
    /\ Intervene(t, Empty, <<ListOf(Empty)>>, {}, Ids(queue[t].items))
    /\ UNCHANGED job

Resume(t) ==
    LET i == Head(queue[t].items).id
        failed == HeadIn(queue[t], {"failed"})
        q1 == IF failed THEN SetItemStatus(queue[t], i, "pending")
              ELSE queue[t]
        q == [q1 EXCEPT !.run = "idle"]
    IN  /\ Halted(queue[t])
        /\ queue[t].items # <<>>
        /\ Intervene(t, q, (IF failed THEN <<BothOf(q1)>> ELSE <<>>)
                              \o <<RunOf(q)>>,
                     IF failed THEN {i} ELSE {}, {})
        /\ StartsNow(t, Asking("fg", "send", i, FALSE))

Retry(t, i) ==
    LET q1 == SetItemStatus(queue[t], i, "pending")
        q == [q1 EXCEPT !.run = "idle"]
    IN  /\ Has(queue[t], i, "failed")
        /\ Intervene(t, q, <<BothOf(q1), RunOf(q)>>, {i}, {})
        /\ StartsNow(t, Asking("fg", "send", i, FALSE))

\* Skipping a message that has failed before first refreshes the history,
\* to take the failed attempt off the page.
Skip(t, i) ==
    LET q1 == RemoveItem(queue[t], i)
        q == IF queue[t].run = "paused" THEN q1 ELSE [q1 EXCEPT !.run = "idle"]
        msgs == <<ListOf(q)>> \o IF q.run = "paused" THEN <<>> ELSE <<RunOf(q)>>
    IN  /\ Has(queue[t], i, "failed")
        /\ Intervene(t, q, msgs, {}, {i})
        /\ StartsNow(t, Asking("fg", "skip", i, FALSE))

\* Interrupt and send: under the send lock, stop what the chat runs first.
Interrupt(t, i) ==
    /\ page[t] = "here"
    /\ owner = t /\ SendLockFree
    /\ i \in Ids(queue[t].items)
    /\ Spend("edits")
    /\ waived' = waived \cup UnderWay \cup {i}
    /\ Become(t, [Asking("fg", "send", i, TRUE) EXCEPT
                      !.pc = "stopping"])
    /\ UNCHANGED <<page, queue, stored, inbox, locks, wake, backend, made,
                   posts, taken, dropped, asked, stale>>

\* The stop was acknowledged, or it failed.
Stopped(t) ==
    LET i == job[t].id
        failed == Has(queue[t], i, "failed")
        q1 == SetItemStatus(queue[t], i, "pending")
        q == [q1 EXCEPT !.run = IF @ = "error" THEN "idle" ELSE @]
        msgs == <<BothOf(q1)>> \o IF q.run = q1.run THEN <<>> ELSE <<RunOf(q)>>
        bad == SetItemStatus(queue[t], i, "failed")
    IN  /\ job[t].pc = "stopping"
        /\ \/ /\ i \in Ids(queue[t].items)
              /\ IF failed THEN Commit(t, q, msgs) /\ Rearm(t, q, msgs)
                           ELSE Commit(t, queue[t], <<>>) /\ UNCHANGED wake
              /\ asked' = IF failed THEN asked \cup {i} ELSE asked
              /\ Become(t, Asking("fg", "send", i, TRUE))
              /\ UNCHANGED left
           \/ /\ i \notin Ids(queue[t].items)
              /\ Become(t, NoJob)
              /\ UNCHANGED <<queue, stored, inbox, wake, asked, left, stale>>
           \/ /\ Spend("faults")
              /\ Commit(t, bad, <<BothOf(bad)>>)
              /\ Rearm(t, bad, <<BothOf(bad)>>)
              /\ Become(t, NoJob)
              /\ UNCHANGED asked
        /\ UNCHANGED <<page, locks, backend, made, posts, taken, dropped,
                       waived>>

-----------------------------------------------------------------------------
(* A sender's turn.                                                        *)

\* A job writes q: the last write of its step, with the broadcasts so far.
JobWrites(t, q, msgs) == Commit(t, q, msgs) /\ Rearm(t, q, msgs)

\* The auto-send timer: one attempt, dropped when the send lock is taken.
\* While the page renders a response the attempt is put off until it ends.
\* Timing: a broadcast reaches a page within the 500 ms of its timer.
TimerFires(t) ==
    LET q == queue[t]
        ready == /\ owner = t
                 /\ ~Halted(q)
                 /\ HeadIn(q, {"pending", "sending"})
                 /\ SendLockFree
        mode == IF HeadIn(q, {"sending"}) THEN "recover" ELSE "send"
    IN  /\ wake[t] /\ inbox[t] = <<>>
        /\ wake' = [wake EXCEPT ![t] = FALSE]
        /\ IF ready
           THEN Become(t, Asking("fg", mode, Head(q.items).id, FALSE))
           ELSE UNCHANGED job
        /\ UNCHANGED <<page, queue, stored, inbox, locks, backend, left,
                       histories>>

\* Bug: the background sender takes the send lock only.
OwnsNothing(t) == UNCHANGED owner

\* It takes the ownership lock around the send lock.
Owns(t) == owner' = t

\* The background sender looks at the queue, if it gets both locks at once.
BgTurn(t) ==
    LET q == queue[t]
        goesOn == /\ owner = NoTab /\ waiting = <<>>
                  /\ SendLockFree
                  /\ ~Halted(q)
                  /\ HeadIn(q, {"pending", "sending"})
        mode == IF HeadIn(q, {"sending"}) THEN "recover" ELSE "send"
    IN  /\ job[t].pc = "slot"
        /\ IF goesOn
           THEN /\ Become(t, Asking("bg", mode, Head(q.items).id, FALSE))
                /\ Owns(t)
           ELSE Become(t, NoJob) /\ UNCHANGED owner
        /\ UNCHANGED <<page, queue, stored, inbox, waiting, wake, backend,
                       left, histories>>

\* GET /chats/{id}: the history is read before the run's status.
ReadHistory(t) ==
    /\ job[t].pc = "asking"
    /\ Become(t, [job[t] EXCEPT !.pc = "read", !.seen = history])
    /\ UNCHANGED <<page, queue, stored, inbox, locks, wake, backend, left,
                   histories>>

ReadStatus(t) ==
    /\ job[t].pc = "read"
    /\ Become(t, [job[t] EXCEPT !.pc = "answered", !.busy = chat # NoItem])
    /\ UNCHANGED <<page, queue, stored, inbox, locks, wake, backend, left,
                   histories>>

\* What a step of a job leaves alone.
JobRest == UNCHANGED <<page, backend, made, taken, dropped>>

EndsTurn(t) == Become(t, NoJob) /\ LeaveTurn(t)
NextTurn(t) == Become(t, Slot) /\ LeaveTurn(t)
Stays(t, j) == Become(t, j) /\ UNCHANGED <<locks, waived>>

\* A message left `sending' whose receipt stays unknown is shown as failed;
\* a sender on the page goes on with the head if that may be sent.
Recovered(t, q, msgs) ==
    LET i == job[t].id
        lost == Has(q, i, "sending") /\ q.run # "paused"
        q1 == IF lost THEN SetItemStatus(q, i, "failed") ELSE q
    IN  /\ JobWrites(t, q1, msgs \o IF lost THEN <<BothOf(q1)>> ELSE <<>>)
        /\ IF job[t].role = "bg" THEN NextTurn(t)
           ELSE IF HeadIn(q1, {"pending"}) /\ ~Halted(q1)
           THEN GoesOn(t, Head(q1.items).id)
           ELSE EndsTurn(t)

\* Bug: a message that could not be sent is dropped.
FailsAndDrops(t, q, msgs) ==
    LET q1 == RemoveItem(q, job[t].id)
    IN  JobWrites(t, q1, msgs \o <<ListOf(q1)>>) /\ EndsTurn(t)

\* A message that could not be sent stays in the queue, as failed.
Fails(t, q, msgs) ==
    LET i == job[t].id
        q1 == SetItemStatus(q, i, "failed")
    IN  /\ JobWrites(t, q1, msgs \o <<BothOf(q1)>>)
        /\ EndsTurn(t)

\* The request for the status fails.
StatusFails(t) ==
    LET i == job[t].id
        q == queue[t]
    IN  /\ job[t].pc = "asking"
        /\ Spend("faults")
        /\ \/ job[t].mode = "recover" /\ Recovered(t, q, <<>>)
           \/ /\ job[t].mode \in {"send", "refresh"}
              /\ IF \/ job[t].role = "bg" /\ ~Halted(q)
                    \/ job[t].role = "fg" /\ i \in Ids(q.items)
                 THEN Fails(t, q, <<>>)
                 ELSE JobWrites(t, q, <<>>) /\ EndsTurn(t)
           \/ /\ job[t].mode = "handoff"
              /\ wake' = [wake EXCEPT ![t] = TRUE]
              /\ Commit(t, q, <<>>)
              /\ EndsTurn(t)
           \/ /\ job[t].mode = "skip"
              /\ JobWrites(t, q, <<>>)
              /\ EndsTurn(t)
        /\ UNCHANGED <<posts, asked>>
        /\ JobRest

\* The queue after the messages with a receipt have left it.
Reconciled(t) == ReconcileHistory(queue[t], job[t].seen)
News(t) == IF Reconciled(t) = queue[t] THEN <<>> ELSE <<BothOf(Reconciled(t))>>

Answered(t, modes, busy) ==
    /\ job[t].pc = "answered"
    /\ job[t].mode \in modes
    /\ job[t].busy = busy
    /\ UNCHANGED left
    /\ JobRest

\* The chat runs: reconcile and ask again after a second.  A refresh of the
\* visible history gives up instead.
StillRunning(t) ==
    /\ Answered(t, {"recover", "send", "refresh", "handoff", "skip"}, TRUE)
    /\ JobWrites(t, Reconciled(t), News(t))
    /\ IF job[t].mode = "refresh" THEN EndsTurn(t)
       ELSE Stays(t, [job[t] EXCEPT !.pc = "asking", !.seen = {},
                                    !.busy = FALSE])
    /\ UNCHANGED <<posts, asked>>

RecoverAnswered(t) ==
    /\ Answered(t, {"recover"}, FALSE)
    /\ Recovered(t, Reconciled(t), News(t))
    /\ UNCHANGED <<posts, asked>>

HandoffAnswered(t) ==
    /\ Answered(t, {"handoff"}, FALSE)
    /\ Commit(t, Reconciled(t), News(t))
    /\ wake' = [wake EXCEPT ![t] = TRUE]
    /\ EndsTurn(t)
    /\ UNCHANGED <<posts, asked>>

\* After a skip the page goes on with the head, in an error state too.
SkipAnswered(t) ==
    LET q == Reconciled(t)
    IN  /\ Answered(t, {"skip"}, FALSE)
        /\ JobWrites(t, q, News(t))
        /\ IF q.run = "paused" \/ q.items = <<>> THEN EndsTurn(t)
           ELSE GoesOn(t, Head(q.items).id)
        /\ UNCHANGED <<posts, asked>>

\* Mark the message and post it.
Post(t, q, msgs) ==
    LET i == job[t].id
        q1 == SetItemStatus(q, i, "sending")
    IN  /\ JobWrites(t, q1, msgs \o <<BothOf(q1)>>)
        /\ net' = net \cup {[id |-> i, n |-> posts[i] + 1]}
        /\ posts' = [posts EXCEPT ![i] = @ + 1]
        /\ asked' = asked \ {i}
        /\ Stays(t, [job[t] EXCEPT !.pc = "posting", !.seen = {},
                                   !.n = posts[i] + 1])
        /\ UNCHANGED <<chat, history>>

\* What a sender checks again after it has waited: the background sender
\* sends only the head it has waited for; the page sends its message wherever
\* it is now, an interrupt even from a paused queue.
MaySend(j, q) ==
    /\ Has(q, j.id, "pending")
    /\ q.run # "error"
    /\ j.forced \/ q.run # "paused"
    /\ j.role = "bg" => Head(q.items).id = j.id

\* Before a message that has failed before is sent again, or when it has
\* just got its receipt, the page refreshes the visible history.
MustRefresh(j, q) ==
    /\ j.role = "fg" /\ j.mode = "send"
    /\ j.id \in Ids(q.items) => EntryOf(q, j.id).tries > 0

SendAnswered(t) ==
    LET q == Reconciled(t)
        refreshing == [job[t] EXCEPT !.pc = "asking", !.mode = "refresh",
                                     !.seen = {}]
        otherHead == job[t].role = "bg" /\ ~Halted(q) /\ HeadIn(q, {"pending"})
    IN  /\ job[t].pc = "answered" /\ ~job[t].busy
        /\ job[t].mode \in {"send", "refresh"}
        /\ IF ~MustRefresh(job[t], q) /\ MaySend(job[t], q)
           THEN Post(t, q, News(t))
           ELSE /\ JobWrites(t, q, News(t))
                /\ IF MustRefresh(job[t], q) THEN Stays(t, refreshing)
                   ELSE IF otherHead THEN NextTurn(t) ELSE EndsTurn(t)
                /\ UNCHANGED <<backend, posts, asked>>
        /\ UNCHANGED <<page, left, made, taken, dropped>>

\* The reply to the POST.  The background sender reads the stream to its end
\* before it takes the message off the queue; the page does so at once.
PostReplied(t) ==
    LET i == job[t].id
        q == RemoveItem(queue[t], i)
    IN  /\ job[t].pc = "posting"
        /\ \/ /\ job[t].reply = "ok" /\ job[t].role = "bg"
              /\ JobWrites(t, queue[t], <<>>)
              /\ Stays(t, [job[t] EXCEPT !.pc = "draining"])
           \/ /\ job[t].reply = "ok" /\ job[t].role = "fg"
              /\ JobWrites(t, q, IF i \in Ids(queue[t].items)
                                 THEN <<ListOf(q)>> ELSE <<>>)
              /\ EndsTurn(t)
           \/ /\ job[t].reply = "bad"
              /\ IF job[t].role = "fg" /\ i \notin Ids(queue[t].items)
                 THEN JobWrites(t, queue[t], <<>>) /\ EndsTurn(t)
                 ELSE Fails(t, queue[t], <<>>)
        /\ UNCHANGED <<left, posts, asked>>
        /\ JobRest

\* The stream ends, or breaks: the message was accepted either way.
DrainEnds(t) ==
    LET q == RemoveItem(queue[t], job[t].id)
    IN  /\ job[t].pc = "draining"
        /\ JobWrites(t, q, <<ListOf(q)>>)
        /\ NextTurn(t)
        /\ UNCHANGED <<left, posts, asked>>
        /\ JobRest

-----------------------------------------------------------------------------
(* The backend: POST /console/chat starts a run, or is refused while one   *)
(* is active; a run that ends leaves its receipt in the history.           *)

Replied(p, r) ==
    job' = [t \in Tabs |->
               IF job[t].pc = "posting" /\ job[t].id = p.id /\ job[t].n = p.n
               THEN [job[t] EXCEPT !.reply = r] ELSE job[t]]

BackendRest == UNCHANGED <<page, queue, stored, inbox, locks, wake, made,
                           posts, dropped, waived, asked, stale>>

PostArrives(p) ==
    /\ p \in net
    /\ net' = net \ {p}
    /\ \/ /\ chat = NoItem
          /\ chat' = p.id
          /\ taken' = taken \cup {p.id}
          /\ \/ Replied(p, "ok") /\ UNCHANGED left
             \/ Replied(p, "bad") /\ Spend("faults")
       \/ /\ chat # NoItem
          /\ Replied(p, "bad")
          /\ UNCHANGED <<chat, taken, left>>
    /\ UNCHANGED history
    /\ BackendRest

PostLost(p) ==
    /\ p \in net
    /\ Spend("faults")
    /\ net' = net \ {p}
    /\ Replied(p, "bad")
    /\ UNCHANGED <<chat, history, taken>>
    /\ BackendRest

RunEnds ==
    /\ chat # NoItem
    /\ chat' = NoItem
    /\ history' = history \cup ({chat} \cap Items)
    /\ UNCHANGED <<net, job, left, taken>>
    /\ BackendRest

\* The backend dies or fails before it can save the session.
RunLost ==
    /\ chat \in Items
    /\ Spend("faults")
    /\ chat' = NoItem
    /\ UNCHANGED <<net, history, job, taken>>
    /\ BackendRest

OtherRun ==
    /\ chat = NoItem
    /\ Spend("faults")
    /\ chat' = Other
    /\ UNCHANGED <<net, history, job, taken>>
    /\ BackendRest

-----------------------------------------------------------------------------

TabStep(t) ==
    \/ Open(t) \/ Mount(t) \/ Grant(t) \/ Leave(t) \/ Close(t)
    \/ StartAllBackgroundQueues(t) \/ Deliver(t)

PanelStep(t) ==
    \/ Edit(t) \/ Pause(t) \/ Reorder(t) \/ Clear(t) \/ Resume(t)
    \/ \E i \in Items : \/ Enqueue(t, i) \/ Remove(t, i) \/ Retry(t, i)
                        \/ Skip(t, i) \/ Interrupt(t, i)

JobStep(t) ==
    \/ Stopped(t) \/ TimerFires(t) \/ BgTurn(t)
    \/ ReadHistory(t) \/ ReadStatus(t) \/ StatusFails(t)
    \/ StillRunning(t) \/ RecoverAnswered(t) \/ HandoffAnswered(t)
    \/ SkipAnswered(t) \/ SendAnswered(t)
    \/ PostReplied(t) \/ DrainEnds(t)

BackendStep ==
    \/ \E p \in net : PostArrives(p) \/ PostLost(p)
    \/ RunEnds \/ RunLost \/ OtherRun

Next == BackendStep \/ \E t \in Tabs : TabStep(t) \/ PanelStep(t) \/ JobStep(t)

\* Browser events are delivered, promises are resumed, and the backend
\* answers and ends its runs; users and faults need not happen.
Fairness ==
    /\ WF_vars(RunEnds)
    /\ WF_vars(\E p \in net : PostArrives(p))
    /\ \A t \in Tabs :
           /\ WF_vars(Deliver(t))
           /\ WF_vars(Grant(t))
           /\ WF_vars(TimerFires(t))
           /\ WF_vars(BgTurn(t))
           /\ WF_vars(ReadHistory(t) \/ ReadStatus(t))
           /\ WF_vars(\/ StillRunning(t) \/ RecoverAnswered(t)
                      \/ HandoffAnswered(t) \/ SkipAnswered(t)
                      \/ SendAnswered(t))
           /\ WF_vars(PostReplied(t) \/ DrainEnds(t) \/ Stopped(t))

Spec == Init /\ [][Next]_vars
FairSpec == Spec /\ Fairness

-----------------------------------------------------------------------------
(* Properties.                                                             *)

PageTypes ==
    /\ page \in [Tabs -> {"closed", "away", "here"}]
    /\ owner \in Tabs \cup {NoTab}
    /\ waiting \in Seq(Tabs)
    /\ wake \in [Tabs -> BOOLEAN]

Lists == {items \in Seq(Entry) : Len(items) <= MaxQueue}
QueueType == [items : Lists, run : RunStates]
Message == [list : BOOLEAN, items : Lists, run : RunStates \cup {NoRun}]

ListTypes ==
    /\ queue \in [Tabs -> QueueType]
    /\ stored \in QueueType
    /\ inbox \in [Tabs -> Seq(Message)]

JobType == [role : {"none", "fg", "bg"},
            pc : {"none", "slot", "stopping", "asking", "read", "answered",
                  "posting", "draining"},
            mode : {"none", "recover", "send", "refresh", "handoff", "skip"},
            id : made \cup {NoItem}, forced : BOOLEAN, n : Nat,
            seen : SUBSET taken, busy : BOOLEAN, reply : {"none", "ok", "bad"}]

SenderTypes ==
    /\ job \in [Tabs -> JobType]
    /\ net \subseteq [id : made, n : Nat]
    /\ chat \in taken \cup {NoItem, Other}
    /\ posts \in [Items -> Nat]

HistoryTypes ==
    /\ history \subseteq taken
    /\ taken \subseteq made
    /\ made \subseteq Items

\* Every copy of the queue is well-formed and within its limit, the backend
\* runs what was queued, a sender that holds the send lock belongs to the
\* owner of the conversation, and nobody waits for an ownership it has.
TypeOK ==
    /\ PageTypes
    /\ ListTypes
    /\ SenderTypes
    /\ HistoryTypes
    /\ \A t \in Tabs : job[t].pc \notin {"none", "slot"} => owner = t
    /\ \A k \in DOMAIN waiting : waiting[k] # owner

\* A message is posted again only after somebody asked for it: whatever
\* aborts a sender, the next one turns a message it finds `sending' into a
\* failed one, or finds its receipt.  Exempt are messages a tab has written
\* from a copy with undelivered news.
NoSilentResend ==
    [][\A i \in Items : (posts'[i] > posts[i] /\ posts[i] > 0)
                            => i \in asked \cup stale']_vars

\* Turns do not pile up: a sender posts a message only when the backend has
\* decided every earlier post.  Exempt are messages the user knows of, and
\* those a tab has written or picked from a copy with undelivered news.
OneTurnAtATime ==
    [][\A t \in Tabs :
          job[t].pc = "answered" /\ job'[t].pc = "posting"
              => InFlight \subseteq waived \cup stale']_vars

\* What the module claims of its storage ("persists across browser close, sent
\* items removed eagerly"): a queued message is in the stored queue until a
\* run was started for it or the user took it off.  Two tabs that write at
\* once break it: each writes its whole list, without the other's message.
AcceptedOrQueued == made \subseteq Ids(stored.items) \cup taken \cup dropped

\* Tab t writes its list, and tells the other tabs.
WrittenBy(t) ==
    /\ stored'.items = queue'[t].items
    /\ \A o \in Tabs \ {t} : page[o] # "closed" => inbox'[o] # inbox[o]

\* That race is the only way to lose a message: a new one is stored, and one
\* that leaves the stored queue was started or taken off by the user, or a tab
\* without it writes its list over the stored one, and a tab has written one
\* of the two lists from a copy with undelivered news.  No crash, hand-over,
\* failure, abort or reconciliation loses one.
LostOnlyIfOverwritten ==
    [][\A i \in (Ids(stored.items) \cup (made' \ made)) \ Ids(stored'.items) :
          \/ i \in taken' \cup dropped'
          \/ /\ i \in stale'
             /\ \E t \in Tabs : WrittenBy(t) /\ i \notin Ids(queue[t].items)]_vars

\* The queue drains: the page that owns an idle chat does not stay for ever
\* with a message at its head that may be sent.
QueueDrains ==
    \A t \in Tabs :
        <>[](owner = t /\ page[t] = "here" /\ chat = NoItem /\ ~Halted(queue[t]))
            => <>[](~HeadIn(queue[t], {"pending", "sending"}))
=============================================================================
