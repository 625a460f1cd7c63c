------------------------- MODULE ChannelQueuesProofs -------------------------
(***************************************************************************)
(* Proofs about ChannelQueues, for every set of keys, queues and messages, *)
(* and every queue size.                                                   *)
(***************************************************************************)
EXTENDS ChannelQueues, TLAPS

(***************************************************************************)
(* Types.  Each part of TypeOK is kept on its own.                         *)
(***************************************************************************)

\* Steps of the consumers, of the enqueue calls, and of the manager.
LEMMA Steps ==
    ASSUME [Next]_vars
    PROVE  \/ \E m \in Msgs, k \in Keys :
                 \/ EnqueueFound(m, k)
                 \/ \E s \in States : EnqueueCreates(m, k, s)
           \/ \E m \in Msgs : Put(m) \/ PutTimesOut(m)
           \/ \E s \in States :
                 \/ Begin(s) \/ Take(s) \/ Drain(s) \/ StartRun(s)
                 \/ IgnoreBatch(s) \/ ScreenBatch(s) \/ FailBatch(s)
                 \/ ReadEnd(s) \/ CancelledUnstarted(s)
                 \/ CancelledConsumer(s) \/ CancelledReader(s) \/ Age(s)
           \/ \E k \in Keys : \/ ClearQueue(k) \/ ConsoleStarts(k)
                              \/ RunEnds(k) \/ RunAborts(k)
           \/ CleanerScans \/ CleanerResumes \/ StopEnqueues \/ StopCleanup
           \/ StopConsumers \/ StopDone
           \/ UNCHANGED vars
BY DEF Next, EnqueueNext, ConsumerNext, ManagerNext

\* The cleanup pops at most one key, and cancels the consumer it was for.
LEMMA Sweeps ==
    ASSUME NEW ks \in SUBSET Keys, SweepNext(ks)
    PROVE  \/ /\ cleaner' \in {"sleeping", "ended"} /\ todo' = {}
              /\ awaited' = NoState /\ UNCHANGED <<queues, cancel, swept>>
           \/ \E k \in ks :
                 /\ queues[k] # NoState
                 /\ queues' = [queues EXCEPT ![k] = NoState]
                 /\ cancel' = [cancel EXCEPT ![queues[k]] = Alive(queues[k])]
                 /\ swept' = swept \cup {queues[k]}
                 /\ cleaner' = "awaiting" /\ todo' = ks \ {k}
                 /\ awaited' = queues[k]
BY DEF SweepNext

\* A cleanup step is one of these.
LEMMA CleanerSweeps ==
    ASSUME TypeOK, CleanerScans \/ CleanerResumes
    PROVE  /\ \E ks \in SUBSET Keys : SweepNext(ks)
           /\ UNCHANGED <<key, content, consumer, batch, idle, runVars, msgVars, phase>>
<1>1. CASE CleanerScans
  BY <1>1 DEF CleanerScans
<1>2. CASE CleanerResumes
  BY <1>2 DEF CleanerResumes, TypeOK, ManagerTypes
<1> QED
  BY <1>1, <1>2

\* The registry of the queues keeps its type.
LEMMA QueueTypesStep ==
    ASSUME TypeOK, [Next]_vars
    PROVE  QueueTypes'
<1>0. QueueTypes
  BY DEF TypeOK
<1>1. queues' \in [Keys -> States \cup {NoState}]
  <2>1. ASSUME NEW k, NEW v \in States \cup {NoState}, queues' = [queues EXCEPT ![k] = v]
        PROVE  queues' \in [Keys -> States \cup {NoState}]
    BY <1>0, <2>1 DEF QueueTypes
  <2>2. ASSUME NEW ks \in SUBSET Keys, SweepNext(ks)
        PROVE  queues' \in [Keys -> States \cup {NoState}]
    BY <1>0, <2>1, <2>2, Sweeps DEF QueueTypes
  <2>3. \/ UNCHANGED queues
        \/ \E k \in Keys, s \in States : queues' = [queues EXCEPT ![k] = s]
        \/ \E s \in States : queues' = [queues EXCEPT ![key[s]] = NoState]
        \/ \E ks \in SUBSET Keys : SweepNext(ks)
        \/ queues' = [k \in Keys |-> NoState]
    BY Steps, CleanerSweeps
       DEF EnqueueFound, EnqueueCreates, Put, PutTimesOut, Begin, Take, Drain,
           StartRun, IgnoreBatch, ScreenBatch, FailBatch, HandOver, ReadEnd,
           ConsumerStep, CancelledUnstarted, CancelledConsumer,
           CancelledReader, Age, ClearQueue, ConsoleStarts, RunEnds, RunAborts,
           StopEnqueues,
           StopCleanup, StopConsumers, StopDone, queueVars, vars
  <2> QED
    BY <1>0, <2>1, <2>2, <2>3 DEF QueueTypes
<1>2. key' \in [States -> Keys \cup {NoKey}]
  <2>1. UNCHANGED key \/ \E k \in Keys, s \in States : key' = [key EXCEPT ![s] = k]
    BY Steps, CleanerSweeps
       DEF EnqueueFound, EnqueueCreates, Put, PutTimesOut, Begin, Take, Drain,
           StartRun, IgnoreBatch, ScreenBatch, FailBatch, HandOver, ReadEnd,
           ConsumerStep, CancelledUnstarted, CancelledConsumer,
           CancelledReader, Age, ClearQueue, ConsoleStarts, RunEnds, RunAborts,
           StopEnqueues,
           StopCleanup, StopConsumers, StopDone, queueVars, vars
  <2> QED
    BY <1>0, <2>1 DEF QueueTypes
<1>3. idle' \in [States -> BOOLEAN]
  <2>1. ASSUME NEW k, Touch(k)
        PROVE  idle' \in [States -> BOOLEAN]
    BY <1>0, <2>1 DEF QueueTypes, Touch
  <2>2. \/ UNCHANGED idle
        \/ \E s, b : b \in BOOLEAN /\ idle' = [idle EXCEPT ![s] = b]
        \/ \E k : Touch(k)
    BY Steps, CleanerSweeps
       DEF EnqueueFound, EnqueueCreates, Hold, Put, PutTimesOut, Begin, Take,
           Drain, StartRun, IgnoreBatch, ScreenBatch, FailBatch, ReadEnd,
           CancelledUnstarted, CancelledConsumer, CancelledReader, Age,
           ClearQueue, ConsoleStarts, RunEnds, RunAborts, StopEnqueues,
           StopCleanup,
           StopConsumers, StopDone, queueVars, vars
  <2> QED
    BY <1>0, <2>1, <2>2 DEF QueueTypes
<1>4. content' \in [States -> Seq(Msgs)] /\ \A s \in States : Len(content'[s]) <= MaxSize
  <2> DEFINE Good == /\ content' \in [States -> Seq(Msgs)]
                     /\ \A s \in States : Len(content'[s]) <= MaxSize
  <2>0. /\ content \in [States -> Seq(Msgs)] /\ MaxSize \in Nat
        /\ \A s \in States : Len(content[s]) <= MaxSize
    BY <1>0, MaxSizeAssumption DEF QueueTypes
  <2>1. ASSUME NEW s, NEW c \in Seq(Msgs), Len(c) <= MaxSize,
               content' = [content EXCEPT ![s] = c]
        PROVE  Good
    BY <2>0, <2>1
  <2>2. ASSUME NEW m \in Msgs, Put(m)
        PROVE  Good
    <3> DEFINE s == target[m]
    <3>1. content' = [content EXCEPT ![s] = Append(@, m)] /\ ~Full(s)
      BY <2>2 DEF Put
    <3>2. CASE s \in States
      <4>1. Len(content[s]) < MaxSize /\ content[s] \in Seq(Msgs)
        BY <2>0, <3>1, <3>2 DEF Full
      <4>2. Append(content[s], m) \in Seq(Msgs) /\ Len(Append(content[s], m)) <= MaxSize
        BY <2>0, <4>1
      <4> QED
        BY <2>1, <3>1, <4>2
    <3>3. CASE s \notin States
      BY <2>0, <3>1, <3>3
    <3> QED
      BY <3>2, <3>3
  <2>3. ASSUME NEW s \in States, Take(s)
        PROVE  Good
    <3>1. content[s] # <<>> /\ content' = [content EXCEPT ![s] = Tail(@)]
      BY <2>3 DEF Take
    <3>2. Tail(content[s]) \in Seq(Msgs) /\ Len(Tail(content[s])) <= MaxSize
      BY <2>0, <3>1
    <3> QED
      BY <2>1, <3>1, <3>2
  <2>4. <<>> \in Seq(Msgs) /\ Len(<<>>) <= MaxSize
    BY <2>0
  <2>5. \/ UNCHANGED content
        \/ \E m \in Msgs : Put(m)
        \/ \E s \in States : Take(s)
        \/ \E s : content' = [content EXCEPT ![s] = <<>>]
    BY Steps, CleanerSweeps
       DEF EnqueueFound, EnqueueCreates, Hold, PutTimesOut, Begin, Drain,
           StartRun, IgnoreBatch, ScreenBatch, FailBatch, HandOver, ReadEnd,
           CancelledUnstarted, CancelledConsumer, CancelledReader, Age,
           ClearQueue, ConsoleStarts, RunEnds, RunAborts, StopEnqueues,
           StopCleanup,
           StopConsumers, StopDone, queueVars, vars
  <2>6. CASE UNCHANGED content
    BY <2>0, <2>6
  <2>7. ASSUME NEW s, content' = [content EXCEPT ![s] = <<>>]
        PROVE  Good
    BY <2>1, <2>4, <2>7
  <2> HIDE DEF Good
  <2>8. Good
    <3>1. CASE UNCHANGED content
      BY <2>6, <3>1 DEF Good
    <3> QED
      BY <2>2, <2>3, <2>5, <2>7, <3>1
  <2> QED
    BY <2>8 DEF Good
<1> QED
  BY <1>1, <1>2, <1>3, <1>4 DEF QueueTypes

\* The consumers and runs keep their types.
LEMMA ConsumerTypesStep ==
    ASSUME TypeOK, [Next]_vars
    PROVE  ConsumerTypes'
<1>0. ConsumerTypes /\ QueueTypes
  BY DEF TypeOK
<1>1. consumer' \in [States -> ConsumerState]
  <2>1. \/ UNCHANGED consumer
        \/ \E s, to : to \in ConsumerState /\ consumer' = [consumer EXCEPT ![s] = to]
    BY Steps, CleanerSweeps
       DEF EnqueueFound, EnqueueCreates, Put, PutTimesOut, Begin, Take, Drain,
           StartRun, IgnoreBatch, ScreenBatch, FailBatch, HandOver, ReadEnd,
           ConsumerStep, CancelledUnstarted, CancelledConsumer,
           CancelledReader, Age, ClearQueue, ConsoleStarts, RunEnds, RunAborts,
           StopEnqueues,
           StopCleanup, StopConsumers, StopDone, queueVars, vars, ConsumerState
  <2> QED
    BY <1>0, <2>1 DEF ConsumerTypes
<1>2. batch' \in [States -> Seq(Msgs)]
  <2>1. ASSUME NEW s, NEW b \in Seq(Msgs), batch' = [batch EXCEPT ![s] = b]
        PROVE  batch' \in [States -> Seq(Msgs)]
    BY <1>0, <2>1 DEF ConsumerTypes
  <2>2. <<>> \in Seq(Msgs)
    OBVIOUS
  <2>3. ASSUME NEW s \in States, Take(s)
        PROVE  batch' \in [States -> Seq(Msgs)]
    <3>1. content[s] \in Seq(Msgs) /\ content[s] # <<>>
          /\ batch' = [batch EXCEPT ![s] = <<Head(content[s])>>]
      BY <1>0, <2>3 DEF Take, QueueTypes
    <3>2. <<Head(content[s])>> \in Seq(Msgs)
      BY <3>1
    <3> QED
      BY <2>1, <3>1, <3>2
  <2>4. ASSUME NEW s \in States, Drain(s)
        PROVE  batch' \in [States -> Seq(Msgs)]
    <3>1. batch' = [batch EXCEPT ![s] = batch[s] \o content[s]]
      BY <1>0, <2>4 DEF Drain, ConsumerTypes
    <3>2. batch[s] \o content[s] \in Seq(Msgs)
      BY <1>0 DEF ConsumerTypes, QueueTypes
    <3> QED
      BY <2>1, <3>1, <3>2
  <2>5. \/ UNCHANGED batch
        \/ \E s \in States : Take(s) \/ Drain(s)
        \/ \E s : batch' = [batch EXCEPT ![s] = <<>>]
    BY Steps, CleanerSweeps
       DEF EnqueueFound, EnqueueCreates, Hold, Put, PutTimesOut, Begin,
           StartRun, IgnoreBatch, ScreenBatch, FailBatch, HandOver, ReadEnd,
           CancelledUnstarted, CancelledConsumer, CancelledReader, Age,
           ClearQueue, ConsoleStarts, RunEnds, RunAborts, StopEnqueues,
           StopCleanup,
           StopConsumers, StopDone, queueVars, vars
  <2>6. CASE UNCHANGED batch
    BY <1>0, <2>6 DEF ConsumerTypes
  <2> QED
    BY <2>1, <2>2, <2>3, <2>4, <2>5, <2>6
<1>3. cancel' \in [States -> BOOLEAN]
  <2>1. ASSUME NEW s, NEW b \in BOOLEAN, cancel' = [cancel EXCEPT ![s] = b]
        PROVE  cancel' \in [States -> BOOLEAN]
    BY <1>0, <2>1 DEF ConsumerTypes
  <2>2. \A s : Alive(s) \in BOOLEAN
    BY DEF Alive
  <2>3. CASE StopConsumers
    BY <1>0, <2>2, <2>3 DEF StopConsumers, ConsumerTypes
  <2>4. ASSUME NEW ks \in SUBSET Keys, SweepNext(ks)
        PROVE  cancel' \in [States -> BOOLEAN]
    <3>1. UNCHANGED cancel \/ \E k \in ks : cancel' = [cancel EXCEPT ![queues[k]] = Alive(queues[k])]
      BY <2>4, Sweeps
    <3>2. CASE UNCHANGED cancel
      BY <1>0, <3>2 DEF ConsumerTypes
    <3> QED
      BY <2>1, <2>2, <3>1, <3>2
  <2>5. \/ UNCHANGED cancel \/ StopConsumers
        \/ \E ks \in SUBSET Keys : SweepNext(ks)
        \/ \E s : cancel' = [cancel EXCEPT ![s] = FALSE]
        \/ cancel' = [cancel EXCEPT ![awaited] = Alive(awaited)]
    BY Steps, CleanerSweeps
       DEF EnqueueFound, EnqueueCreates, Hold, Put, PutTimesOut, Begin, Take,
           Drain, StartRun, IgnoreBatch, ScreenBatch, FailBatch, HandOver,
           ReadEnd, ConsumerStep, CancelledUnstarted, CancelledConsumer,
           CancelledReader, Age, ClearQueue, ConsoleStarts, RunEnds, RunAborts,
           StopEnqueues,
           StopCleanup, StopDone, queueVars, vars
  <2>6. CASE UNCHANGED cancel
    BY <1>0, <2>6 DEF ConsumerTypes
  <2> QED
    BY <2>1, <2>2, <2>3, <2>4, <2>5, <2>6
<1>4. run' \in [Keys -> States \cup {NoState, Console}] /\ deaf' \subseteq States
  <2>1. CASE UNCHANGED <<run, deaf>>
    BY <1>0, <2>1 DEF ConsumerTypes
  <2>2. ASSUME NEW s \in States, StartRun(s) \/ CancelledReader(s)
        PROVE  run' \in [Keys -> States \cup {NoState, Console}] /\ deaf' \subseteq States
    BY <1>0, <2>2 DEF StartRun, CancelledReader, ConsumerTypes
  <2>3. ASSUME NEW k \in Keys, ConsoleStarts(k) \/ RunEnds(k) \/ RunAborts(k)
        PROVE  run' \in [Keys -> States \cup {NoState, Console}] /\ deaf' \subseteq States
    BY <1>0, <2>3 DEF ConsoleStarts, RunEnds, RunAborts, ConsumerTypes
  <2>4. \/ UNCHANGED <<run, deaf>>
        \/ \E s \in States : StartRun(s) \/ CancelledReader(s)
        \/ \E k \in Keys : ConsoleStarts(k) \/ RunEnds(k) \/ RunAborts(k)
    BY Steps, CleanerSweeps
       DEF EnqueueFound, EnqueueCreates, Hold, Put, PutTimesOut, Begin, Take,
           Drain, IgnoreBatch, ScreenBatch, FailBatch, HandOver, ReadEnd,
           CancelledUnstarted, CancelledConsumer, Age, ClearQueue,
           StopEnqueues, StopCleanup, StopConsumers, StopDone, runVars, vars
  <2> QED
    BY <2>1, <2>2, <2>3, <2>4
<1> QED
  BY <1>1, <1>2, <1>3, <1>4 DEF ConsumerTypes

\* So do the messages and the manager's tasks.
LEMMA ManagerTypesStep ==
    ASSUME TypeOK, [Next]_vars
    PROVE  MessageTypes' /\ ManagerTypes'
<1>0. MessageTypes /\ ManagerTypes /\ QueueTypes
  BY DEF TypeOK
<1>1. fate' \in [Msgs -> Fate]
  <2>1. ASSUME NEW ms, NEW f \in Fate, Settle(ms, f)
        PROVE  fate' \in [Msgs -> Fate]
    BY <1>0, <2>1 DEF Settle, MessageTypes
  <2>2. UNCHANGED fate \/ \E ms, f : f \in Fate /\ Settle(ms, f)
    BY Steps, CleanerSweeps
       DEF EnqueueFound, EnqueueCreates, Hold, Put, PutTimesOut, Begin, Take,
           Drain, StartRun, IgnoreBatch, ScreenBatch, FailBatch, HandOver,
           ReadEnd, CancelledUnstarted, CancelledConsumer, CancelledReader,
           Age, ClearQueue, ConsoleStarts, RunEnds, RunAborts, StopEnqueues,
           StopCleanup,
           StopConsumers, StopDone, msgVars, vars, Fate
  <2>3. CASE UNCHANGED fate
    BY <1>0, <2>3 DEF MessageTypes
  <2> QED
    BY <2>1, <2>2, <2>3
<1>2. target' \in [Msgs -> States \cup {NoState}]
  <2>1. \/ UNCHANGED target
        \/ \E m, s : s \in States \cup {NoState} /\ target' = [target EXCEPT ![m] = s]
    BY <1>0, Steps, CleanerSweeps
       DEF EnqueueFound, EnqueueCreates, Hold, Put, PutTimesOut, Begin, Take,
           Drain, StartRun, IgnoreBatch, ScreenBatch, FailBatch, HandOver,
           ReadEnd, ConsumerStep, CancelledUnstarted, CancelledConsumer,
           CancelledReader, Age, ClearQueue, ConsoleStarts, RunEnds, RunAborts,
           StopEnqueues,
           StopCleanup, StopConsumers, StopDone, msgVars, vars, QueueTypes
  <2> QED
    BY <1>0, <2>1 DEF MessageTypes
<1>3. ManagerTypes'
  <2>1. CASE UNCHANGED managerVars
    BY <1>0, <2>1 DEF managerVars, ManagerTypes
  <2>2. ASSUME NEW ks \in SUBSET Keys, SweepNext(ks), UNCHANGED phase
        PROVE  ManagerTypes'
    <3>1. \A k \in ks : queues[k] # NoState => queues[k] \in States
      BY <1>0 DEF QueueTypes
    <3> QED
      BY <1>0, <2>2, <3>1, Sweeps DEF ManagerTypes
  <2>3. CASE StopEnqueues \/ StopCleanup \/ StopConsumers \/ StopDone
    BY <1>0, <2>3 DEF StopEnqueues, StopCleanup, StopConsumers, StopDone,
                      ManagerTypes, Phase
  <2>4. \/ UNCHANGED managerVars
        \/ StopEnqueues \/ StopCleanup \/ StopConsumers \/ StopDone
        \/ \E ks \in SUBSET Keys : SweepNext(ks) /\ UNCHANGED phase
    BY Steps, CleanerSweeps, ZenonT(60)
       DEF EnqueueFound, EnqueueCreates, Hold, Put, PutTimesOut, Begin, Take,
           Drain, StartRun, IgnoreBatch, ScreenBatch, FailBatch, HandOver,
           ReadEnd, ConsumerStep, CancelledUnstarted, CancelledConsumer,
           CancelledReader, Age, ClearQueue, ConsoleStarts, RunEnds, RunAborts,
           managerVars, vars
  <2> QED
    BY <2>1, <2>2, <2>3, <2>4
<1> QED
  BY <1>1, <1>2, <1>3 DEF MessageTypes

\* Every variable of the queue manager keeps its type, and no queue ever holds
\* more than queue_maxsize messages.
THEOREM TypeCorrect == Spec => []TypeOK
<1>1. Init => TypeOK
  BY MaxSizeAssumption
     DEF Init, TypeOK, QueueTypes, ConsumerTypes, MessageTypes, ManagerTypes,
         ConsumerState, Fate, Phase
<1>2. TypeOK /\ [Next]_vars => TypeOK'
  BY QueueTypesStep, ConsumerTypesStep, ManagerTypesStep DEF TypeOK
<1> QED
  BY <1>1, <1>2, PTL DEF Spec

(***************************************************************************)
(* What belongs to what.                                                   *)
(***************************************************************************)

\* A queue in use has a key, and so has whatever refers to it; a consumer is
\* cancelled by a sweep only.
KeyInv ==
    /\ \A s \in States : consumer[s] # "unused" => key[s] \in Keys
    /\ \A k \in Keys : queues[k] # NoState => /\ consumer[queues[k]] # "unused"
                                              /\ key[queues[k]] = k
    /\ \A u \in swept : consumer[u] # "unused"
    /\ cleaner = "awaiting" => awaited \in swept /\ \A k \in Keys : queues[k] # awaited
    /\ \A s \in States : cancel[s] => s \in swept

\* Nothing in use becomes unused or changes its key; a message keeps to its
\* queue; what is swept stays so.
LEMMA KeysStay ==
    ASSUME TypeOK, [Next]_vars
    PROVE  /\ \A s \in States : consumer[s] # "unused" =>
                 consumer'[s] # "unused" /\ key'[s] = key[s]
           /\ \A m \in Msgs : fate[m] # "new" =>
                 fate'[m] # "new" /\ target'[m] = target[m]
           /\ swept \subseteq swept'
<1>0. /\ consumer \in [States -> ConsumerState] /\ key \in [States -> Keys \cup {NoKey}]
      /\ fate \in [Msgs -> Fate] /\ target \in [Msgs -> States \cup {NoState}]
  BY DEF TypeOK, QueueTypes, ConsumerTypes, MessageTypes
<1>1. \A s \in States : consumer[s] # "unused" =>
          consumer'[s] # "unused" /\ key'[s] = key[s]
  <2>1. \/ UNCHANGED <<consumer, key>>
        \/ \E s \in States : \E to : /\ to # "unused" /\ UNCHANGED key
                                     /\ consumer' = [consumer EXCEPT ![s] = to]
        \/ \E k \in Keys, s \in States : /\ consumer[s] = "unused"
                              /\ consumer' = [consumer EXCEPT ![s] = "created"]
                              /\ key' = [key EXCEPT ![s] = k]
    BY Steps, CleanerSweeps
       DEF EnqueueFound, EnqueueCreates, Put, PutTimesOut, Begin, Take, Drain,
           StartRun, IgnoreBatch, ScreenBatch, FailBatch, HandOver, ReadEnd,
           ConsumerStep, CancelledUnstarted, CancelledConsumer,
           CancelledReader, Age, ClearQueue, ConsoleStarts, RunEnds, RunAborts,
           StopEnqueues,
           StopCleanup, StopConsumers, StopDone, queueVars, vars
  <2> QED
    BY <1>0, <2>1
<1>2. \A m \in Msgs : fate[m] # "new" => fate'[m] # "new"
  <2>1. \/ UNCHANGED fate
        \/ \E ms, f : f # "new" /\ Settle(ms, f)
    BY Steps, CleanerSweeps
       DEF EnqueueFound, EnqueueCreates, Hold, Put, PutTimesOut, Begin, Take,
           Drain, StartRun, IgnoreBatch, ScreenBatch, FailBatch, HandOver,
           ReadEnd, CancelledUnstarted, CancelledConsumer, CancelledReader,
           Age, ClearQueue, ConsoleStarts, RunEnds, RunAborts, StopEnqueues,
           StopCleanup,
           StopConsumers, StopDone, msgVars, vars
  <2> QED
    BY <1>0, <2>1 DEF Settle
<1>3. \A m \in Msgs : fate[m] # "new" => target'[m] = target[m]
  <2>1. \/ UNCHANGED target
        \/ \E m \in Msgs : \E s : fate[m] = "new" /\ target' = [target EXCEPT ![m] = s]
    BY Steps, CleanerSweeps
       DEF EnqueueFound, EnqueueCreates, Hold, Put, PutTimesOut, Begin, Take,
           Drain, StartRun, IgnoreBatch, ScreenBatch, FailBatch, HandOver,
           ReadEnd, ConsumerStep, CancelledUnstarted, CancelledConsumer,
           CancelledReader, Age, ClearQueue, ConsoleStarts, RunEnds, RunAborts,
           StopEnqueues,
           StopCleanup, StopConsumers, StopDone, msgVars, vars
  <2> QED
    BY <1>0, <2>1
<1>4. swept \subseteq swept'
  <2>1. UNCHANGED swept \/ StopConsumers \/ \E ks \in SUBSET Keys : SweepNext(ks)
    BY Steps, CleanerSweeps
       DEF EnqueueFound, EnqueueCreates, Hold, Put, PutTimesOut, Begin, Take,
           Drain, StartRun, IgnoreBatch, ScreenBatch, FailBatch, HandOver,
           ReadEnd, ConsumerStep, CancelledUnstarted, CancelledConsumer,
           CancelledReader, Age, ClearQueue, ConsoleStarts, RunEnds, RunAborts,
           StopEnqueues,
           StopCleanup, StopDone, managerVars, vars
  <2>2. CASE \E ks \in SUBSET Keys : SweepNext(ks)
    BY <2>2, Sweeps
  <2> QED
    BY <2>1, <2>2 DEF StopConsumers
<1> QED
  BY <1>1, <1>2, <1>3, <1>4

\* A queue comes into use, and into the registry, by an enqueue call that
\* found its key free.
LEMMA Born ==
    ASSUME TypeOK, [Next]_vars
    PROVE  /\ \A s \in States : consumer[s] = "unused" /\ consumer'[s] # "unused" =>
                 \E m \in Msgs, k \in Keys : EnqueueCreates(m, k, s)
           /\ \A k \in Keys : queues'[k] # NoState =>
                 \/ queues'[k] = queues[k]
                 \/ \E m \in Msgs, s \in States : /\ EnqueueCreates(m, k, s)
                                                  /\ queues'[k] = s
<1>0. /\ consumer \in [States -> ConsumerState]
      /\ queues \in [Keys -> States \cup {NoState}]
  BY DEF TypeOK, QueueTypes, ConsumerTypes
<1>1. ASSUME NEW s \in States, consumer[s] = "unused", consumer'[s] # "unused"
      PROVE  \E m \in Msgs, k \in Keys : EnqueueCreates(m, k, s)
  <2>1. \/ UNCHANGED consumer
        \/ \E t \in States : \E to : /\ consumer[t] # "unused"
                                     /\ consumer' = [consumer EXCEPT ![t] = to]
        \/ \E m \in Msgs, k \in Keys, t \in States : EnqueueCreates(m, k, t)
    BY Steps, CleanerSweeps
       DEF EnqueueFound, Put, PutTimesOut, Begin, Take, Drain,
           StartRun, IgnoreBatch, ScreenBatch, FailBatch, HandOver, ReadEnd,
           ConsumerStep, CancelledUnstarted, CancelledConsumer,
           CancelledReader, Age, ClearQueue, ConsoleStarts, RunEnds, RunAborts,
           StopEnqueues,
           StopCleanup, StopConsumers, StopDone, queueVars, vars
  <2>2. ASSUME NEW m \in Msgs, NEW k \in Keys, NEW t \in States, EnqueueCreates(m, k, t)
        PROVE  t = s
    BY <1>0, <1>1, <2>2 DEF EnqueueCreates
  <2> QED
    BY <1>0, <1>1, <2>1, <2>2
<1>2. ASSUME NEW k \in Keys, queues'[k] # NoState
      PROVE  \/ queues'[k] = queues[k]
             \/ \E m \in Msgs, s \in States : EnqueueCreates(m, k, s) /\ queues'[k] = s
  <2>1. ASSUME NEW m \in Msgs, NEW j \in Keys, NEW s \in States, EnqueueCreates(m, j, s)
        PROVE  queues'[k] = IF j = k THEN s ELSE queues[k]
    BY <1>0, <2>1 DEF EnqueueCreates
  <2>2. ASSUME NEW j, queues' = [queues EXCEPT ![j] = NoState]
        PROVE  queues'[k] = queues[k] \/ queues'[k] = NoState
    BY <1>0, <2>2
  <2>3. ASSUME NEW ks \in SUBSET Keys, SweepNext(ks)
        PROVE  queues'[k] = queues[k] \/ queues'[k] = NoState
    BY <2>2, <2>3, Sweeps
  <2>4. CASE StopDone
    BY <1>2, <2>4 DEF StopDone
  <2>5. \/ UNCHANGED queues \/ StopDone
        \/ \E j : queues' = [queues EXCEPT ![j] = NoState]
        \/ \E ks \in SUBSET Keys : SweepNext(ks)
        \/ \E m \in Msgs, j \in Keys, s \in States : EnqueueCreates(m, j, s)
    BY Steps, CleanerSweeps
       DEF EnqueueFound, Put, PutTimesOut, Begin, Take, Drain,
           StartRun, IgnoreBatch, ScreenBatch, FailBatch, HandOver, ReadEnd,
           ConsumerStep, CancelledUnstarted, CancelledConsumer,
           CancelledReader, Age, ClearQueue, ConsoleStarts, RunEnds, RunAborts,
           StopEnqueues,
           StopCleanup, StopConsumers, queueVars, vars
  <2>6. CASE \E m \in Msgs, j \in Keys, s \in States : EnqueueCreates(m, j, s)
    <3>1. PICK m \in Msgs, j \in Keys, s \in States : EnqueueCreates(m, j, s)
      BY <2>6
    <3>2. queues'[k] = IF j = k THEN s ELSE queues[k]
      BY <2>1, <3>1
    <3>3. CASE j = k
      BY <3>1, <3>2, <3>3
    <3> QED
      BY <3>2, <3>3
  <2>7. CASE UNCHANGED queues
    BY <2>7
  <2> QED
    BY <1>2, <2>2, <2>3, <2>4, <2>5, <2>6, <2>7
<1> QED
  BY <1>1, <1>2

\* Every step keeps KeyInv.
LEMMA KeyStep ==
    ASSUME TypeOK, KeyInv, [Next]_vars
    PROVE  KeyInv'
<1>0. /\ consumer \in [States -> ConsumerState] /\ key \in [States -> Keys \cup {NoKey}]
      /\ fate \in [Msgs -> Fate] /\ target \in [Msgs -> States \cup {NoState}]
      /\ queues \in [Keys -> States \cup {NoState}] /\ cancel \in [States -> BOOLEAN]
      /\ swept \subseteq States /\ awaited \in States \cup {NoState}
      /\ NoState \notin States
  BY NoneAssumption DEF TypeOK, QueueTypes, ConsumerTypes, MessageTypes, ManagerTypes
<1>1. ASSUME NEW m \in Msgs, NEW k \in Keys, NEW s \in States, EnqueueCreates(m, k, s)
      PROVE  /\ consumer[s] = "unused" /\ consumer'[s] # "unused" /\ key'[s] = k
             /\ UNCHANGED <<swept, cleaner, awaited, cancel>>
  BY <1>0, <1>1 DEF EnqueueCreates, Hold, managerVars
<1>2. \A s \in States : consumer'[s] # "unused" => key'[s] \in Keys
  BY <1>1, KeysStay, Born DEF KeyInv
<1>3. ASSUME NEW k \in Keys, queues'[k] # NoState
      PROVE  consumer'[queues'[k]] # "unused" /\ key'[queues'[k]] = k
  <2>1. CASE queues'[k] = queues[k]
    BY <1>0, <1>3, <2>1, KeysStay DEF KeyInv
  <2>2. ASSUME NEW m \in Msgs, NEW s \in States, EnqueueCreates(m, k, s), queues'[k] = s
        PROVE  consumer'[queues'[k]] # "unused" /\ key'[queues'[k]] = k
    BY <1>1, <2>2
  <2> QED
    BY <1>3, <2>1, <2>2, Born
<1>4. ASSUME NEW ks \in SUBSET Keys, SweepNext(ks), UNCHANGED <<consumer, phase>>
      PROVE  /\ \A u \in swept' : consumer'[u] # "unused"
             /\ cleaner' = "awaiting" =>
                  awaited' \in swept' /\ \A k \in Keys : queues'[k] # awaited'
             /\ \A s \in States : cancel'[s] => s \in swept'
  <2>1. CASE cleaner' \in {"sleeping", "ended"} /\ UNCHANGED <<queues, cancel, swept>>
    BY <1>4, <2>1 DEF KeyInv
  <2>2. ASSUME NEW k \in ks, queues[k] # NoState,
               queues' = [queues EXCEPT ![k] = NoState],
               cancel' = [cancel EXCEPT ![queues[k]] = Alive(queues[k])],
               swept' = swept \cup {queues[k]}, awaited' = queues[k]
        PROVE  /\ \A u \in swept' : consumer'[u] # "unused"
               /\ awaited' \in swept' /\ \A j \in Keys : queues'[j] # awaited'
               /\ \A s \in States : cancel'[s] => s \in swept'
    <3>1. \A j \in Keys : queues[j] = queues[k] => j = k
      BY <2>2 DEF KeyInv
    <3>2. \A j \in Keys : queues'[j] # awaited'
      BY <1>0, <2>2, <3>1
    <3> QED
      BY <1>0, <1>4, <2>2, <3>2 DEF KeyInv
  <2> QED
    BY <1>4, <2>1, <2>2, Sweeps
<1>5. \A u \in swept' : consumer'[u] # "unused"
  <2>1. UNCHANGED swept \/ StopConsumers \/ CleanerScans \/ CleanerResumes
    BY Steps
       DEF EnqueueFound, EnqueueCreates, Hold, Put, PutTimesOut, Begin, Take,
           Drain, StartRun, IgnoreBatch, ScreenBatch, FailBatch, HandOver,
           ReadEnd, ConsumerStep, CancelledUnstarted, CancelledConsumer,
           CancelledReader, Age, ClearQueue, ConsoleStarts, RunEnds, RunAborts,
           StopEnqueues,
           StopCleanup, StopDone, managerVars, vars
  <2>2. CASE UNCHANGED swept
    BY <1>0, <2>2, KeysStay DEF KeyInv
  <2>3. CASE StopConsumers
    BY <1>0, <2>3, KeysStay DEF KeyInv, StopConsumers
  <2> QED
    BY <1>4, <2>1, <2>2, <2>3, CleanerSweeps
<1>6. cleaner' = "awaiting" => awaited' \in swept' /\ \A k \in Keys : queues'[k] # awaited'
  <2>1. UNCHANGED <<cleaner, awaited>> \/ StopCleanup \/ CleanerScans \/ CleanerResumes
    BY Steps
       DEF EnqueueFound, EnqueueCreates, Hold, Put, PutTimesOut, Begin, Take,
           Drain, StartRun, IgnoreBatch, ScreenBatch, FailBatch, HandOver,
           ReadEnd, ConsumerStep, CancelledUnstarted, CancelledConsumer,
           CancelledReader, Age, ClearQueue, ConsoleStarts, RunEnds, RunAborts,
           StopEnqueues,
           StopConsumers, StopDone, managerVars, vars
  <2>2. ASSUME cleaner = "awaiting", awaited' = awaited
        PROVE  awaited' \in swept' /\ \A k \in Keys : queues'[k] # awaited'
    <3>1. awaited \in swept /\ \A k \in Keys : queues[k] # awaited
      BY <2>2 DEF KeyInv
    <3>2. awaited \in States /\ consumer[awaited] # "unused"
      BY <1>0, <3>1 DEF KeyInv
    <3>3. \A k \in Keys : queues'[k] # awaited
      BY <1>0, <1>1, <3>1, <3>2, Born
    <3> QED
      BY <2>2, <3>1, <3>3, KeysStay
  <2>3. CASE StopCleanup
    BY <2>2, <2>3 DEF StopCleanup
  <2> QED
    BY <1>4, <2>1, <2>2, <2>3, CleanerSweeps
<1>7. \A s \in States : cancel'[s] => s \in swept'
  <2>1. \/ UNCHANGED cancel \/ CleanerScans \/ CleanerResumes \/ StopConsumers
        \/ \E s : cancel' = [cancel EXCEPT ![s] = FALSE]
        \/ StopCleanup
    BY Steps
       DEF EnqueueFound, EnqueueCreates, Hold, Put, PutTimesOut, Begin, Take,
           Drain, StartRun, IgnoreBatch, ScreenBatch, FailBatch, HandOver,
           ReadEnd, ConsumerStep, CancelledUnstarted, CancelledConsumer,
           CancelledReader, Age, ClearQueue, ConsoleStarts, RunEnds, RunAborts,
           StopEnqueues,
           StopDone, queueVars, vars
  <2>2. CASE UNCHANGED cancel
    BY <2>2, KeysStay DEF KeyInv
  <2>3. ASSUME NEW t, cancel' = [cancel EXCEPT ![t] = FALSE]
        PROVE  \A s \in States : cancel'[s] => s \in swept'
    BY <1>0, <2>3, KeysStay DEF KeyInv
  <2>4. CASE StopCleanup
    BY <1>0, <2>4 DEF StopCleanup, KeyInv
  <2>5. CASE StopConsumers
    <3>1. ASSUME NEW s \in States, cancel'[s]
          PROVE  s \in swept \/ \E k \in Keys : queues[k] = s
      BY <1>0, <2>5, <3>1 DEF StopConsumers, KeyInv
    <3> QED
      BY <2>5, <3>1 DEF StopConsumers
  <2> QED
    BY <1>4, <2>1, <2>2, <2>3, <2>4, <2>5, CleanerSweeps
<1> QED
  BY <1>2, <1>3, <1>5, <1>6, <1>7 DEF KeyInv

\* KeyInv always holds.
LEMMA KeyCorrect == Spec => []KeyInv
<1>1. Init => KeyInv
  BY NoneAssumption DEF Init, KeyInv
<1> QED
  BY <1>1, KeyStep, TypeCorrect, PTL DEF Spec

(***************************************************************************)
(* The registry and the consumers.                                         *)
(***************************************************************************)

\* Until the queues are drained, a registered queue has a consumer that no
\* cancel is on its way to.
RegInv ==
    phase \in {"running", "closing", "joining"} =>
        \A k \in Keys : queues[k] # NoState =>
            Alive(queues[k]) /\ ~cancel[queues[k]]

\* The cleanup or the shutdown has cancelled a consumer of the key.
SweptKey(k) == \E u \in swept : key[u] = k

\* A consumer that is alive and not registered belongs to a swept key.
OrphanInv ==
    phase # "stopped" =>
        \A t \in States : Alive(t) => queues[key[t]] = t \/ SweptKey(key[t])

\* A consumer ends by a cancel only; a cancel comes from a sweep, which takes
\* the queue out of the registry first, or is sent to the consumer the
\* cleanup awaits.
LEMMA CancelsAndEnds ==
    ASSUME TypeOK, KeyInv, [Next]_vars,
           phase' \in {"running", "closing", "joining"}
    PROVE  /\ phase \in {"running", "closing", "joining"}
           /\ \A s \in States : Alive(s) => Alive(s)' \/ cancel[s]
           /\ \A s \in States : cancel'[s] =>
                 cancel[s] \/ \A k \in Keys : queues'[k] # s
<1>0. /\ consumer \in [States -> ConsumerState] /\ cancel \in [States -> BOOLEAN]
      /\ queues \in [Keys -> States \cup {NoState}] /\ NoState \notin States
      /\ awaited \in States \cup {NoState} /\ phase \in Phase
  BY NoneAssumption DEF TypeOK, QueueTypes, ConsumerTypes, ManagerTypes
<1>1. ASSUME NEW s \in States, Alive(s)
      PROVE  Alive(s)' \/ cancel[s]
  <2>1. \/ UNCHANGED consumer
        \/ \E t, to : to \notin {"unused", "ended"} /\ consumer' = [consumer EXCEPT ![t] = to]
        \/ \E t \in States : cancel[t] /\ consumer' = [consumer EXCEPT ![t] = "ended"]
    BY Steps, CleanerSweeps, ZenonT(60)
       DEF EnqueueFound, EnqueueCreates, Put, PutTimesOut, Begin, Take, Drain,
           StartRun, IgnoreBatch, ScreenBatch, FailBatch, HandOver, ReadEnd,
           ConsumerStep, CancelledUnstarted, CancelledConsumer,
           CancelledReader, Age, ClearQueue, ConsoleStarts, RunEnds, RunAborts,
           StopEnqueues,
           StopCleanup, StopConsumers, StopDone, queueVars, vars
  <2> QED
    BY <1>0, <1>1, <2>1 DEF Alive
<1>2. phase \in {"running", "closing", "joining"} /\ ~StopConsumers /\ ~StopDone
  <2>1. UNCHANGED phase \/ StopEnqueues \/ StopCleanup \/ StopConsumers \/ StopDone
    BY Steps, CleanerSweeps
       DEF EnqueueFound, EnqueueCreates, Hold, Put, PutTimesOut, Begin, Take,
           Drain, StartRun, IgnoreBatch, ScreenBatch, FailBatch, HandOver,
           ReadEnd, ConsumerStep, CancelledUnstarted, CancelledConsumer,
           CancelledReader, Age, ClearQueue, ConsoleStarts, RunEnds, RunAborts,
           managerVars, vars
  <2> QED
    BY <2>1 DEF StopEnqueues, StopCleanup, StopConsumers, StopDone
<1>3. ASSUME NEW s \in States, cancel'[s], ~cancel[s]
      PROVE  \A k \in Keys : queues'[k] # s
  <2>1. \/ UNCHANGED cancel \/ StopCleanup \/ CleanerScans \/ CleanerResumes
        \/ \E t : cancel' = [cancel EXCEPT ![t] = FALSE]
    BY <1>2, Steps
       DEF EnqueueFound, EnqueueCreates, Hold, Put, PutTimesOut, Begin, Take,
           Drain, StartRun, IgnoreBatch, ScreenBatch, FailBatch, HandOver,
           ReadEnd, ConsumerStep, CancelledUnstarted, CancelledConsumer,
           CancelledReader, Age, ClearQueue, ConsoleStarts, RunEnds, RunAborts,
           StopEnqueues,
           queueVars, vars
  <2>2. CASE StopCleanup
    BY <1>0, <1>3, <2>2 DEF StopCleanup, KeyInv
  <2>3. ASSUME NEW ks \in SUBSET Keys, SweepNext(ks)
        PROVE  \A k \in Keys : queues'[k] # s
    <3>1. PICK k \in ks : /\ queues' = [queues EXCEPT ![k] = NoState]
                          /\ cancel' = [cancel EXCEPT ![queues[k]] = Alive(queues[k])]
                          /\ queues[k] # NoState
      BY <1>3, <2>3, Sweeps
    <3>2. s = queues[k]
      BY <1>0, <1>3, <3>1
    <3> QED
      BY <1>0, <3>1, <3>2 DEF KeyInv
  <2> QED
    BY <1>0, <1>3, <2>1, <2>2, <2>3, CleanerSweeps
<1> QED
  BY <1>1, <1>2, <1>3

\* A registered queue keeps its consumer.
LEMMA RegStep ==
    ASSUME TypeOK, KeyInv, RegInv, [Next]_vars
    PROVE  RegInv'
<1> SUFFICES ASSUME phase' \in {"running", "closing", "joining"},
                    NEW k \in Keys, NEW s, queues'[k] = s, s # NoState
             PROVE  Alive(s)' /\ ~cancel'[s]
  BY DEF RegInv, Alive
<1>0. /\ queues \in [Keys -> States \cup {NoState}] /\ cancel \in [States -> BOOLEAN]
      /\ consumer \in [States -> ConsumerState]
  BY DEF TypeOK, QueueTypes, ConsumerTypes
<1>1. CASE queues[k] = s
  <2>1. phase \in {"running", "closing", "joining"}
    BY CancelsAndEnds
  <2>2. Alive(s) /\ ~cancel[s] /\ s \in States
    BY <1>0, <1>1, <2>1 DEF RegInv
  <2> QED
    BY <2>2, CancelsAndEnds
<1>2. ASSUME NEW m \in Msgs, s \in States, EnqueueCreates(m, k, s)
      PROVE  Alive(s)' /\ ~cancel'[s]
  <2>1. consumer[s] = "unused" /\ consumer'[s] = "created" /\ UNCHANGED cancel
    BY <1>0, <1>2 DEF EnqueueCreates, Hold
  <2>2. ~cancel[s]
    BY <1>2, <2>1 DEF KeyInv
  <2> QED
    BY <2>1, <2>2 DEF Alive
<1> QED
  BY <1>1, <1>2, Born

\* A queue that enqueue can find has a consumer that will look at it: no
\* interleaving of cleanup, cancellation and late pops leaves a queue
\* registered that nobody reads.
THEOREM RegisteredIsServed == Spec => []RegisteredHasConsumer
<1>1. Init => RegInv
  BY DEF Init, RegInv
<1>2. RegInv => RegisteredHasConsumer
  BY DEF RegInv, RegisteredHasConsumer
<1> QED
  BY <1>1, <1>2, RegStep, TypeCorrect, KeyCorrect, PTL DEF Spec

\* A key that is swept stays swept.
LEMMA SweptStays ==
    ASSUME TypeOK, KeyInv, [Next]_vars, NEW k, SweptKey(k)
    PROVE  SweptKey(k)'
<1>1. PICK u \in swept : key[u] = k
  BY DEF SweptKey
<1>2. u \in swept' /\ key'[u] = key[u]
  BY <1>1, KeysStay DEF KeyInv, TypeOK, ManagerTypes
<1> QED
  BY <1>1, <1>2 DEF SweptKey

\* A queue leaves the registry by a sweep of its key, until everything is
\* stopped.
LEMMA PopsAreSwept ==
    ASSUME TypeOK, KeyInv, [Next]_vars, phase' # "stopped",
           NEW t \in States, Alive(t), NEW k \in Keys, key[t] = k,
           queues[k] = t, queues'[k] # t
    PROVE  SweptKey(k)'
<1>0. /\ queues \in [Keys -> States \cup {NoState}] /\ NoState \notin States
  BY NoneAssumption DEF TypeOK, QueueTypes
<1>1. \/ UNCHANGED queues \/ CleanerScans \/ CleanerResumes
      \/ \E m \in Msgs, j \in Keys, s \in States : EnqueueCreates(m, j, s)
      \/ \E s \in States : cancel[s] /\ queues' = [queues EXCEPT ![key[s]] = NoState]
  BY Steps
     DEF EnqueueFound, Put, PutTimesOut, Begin, Take, Drain, StartRun,
         IgnoreBatch, ScreenBatch, FailBatch, HandOver, ReadEnd,
         ConsumerStep, CancelledUnstarted, CancelledConsumer,
         CancelledReader, Age, ClearQueue, ConsoleStarts, RunEnds, RunAborts,
         StopEnqueues,
         StopCleanup, StopConsumers, StopDone, queueVars, vars
<1>2. ASSUME NEW s \in States, cancel[s], queues' = [queues EXCEPT ![key[s]] = NoState]
      PROVE  SweptKey(k)'
  <2>1. key[s] = k
    BY <1>0, <1>2
  <2>2. SweptKey(k)
    BY <1>2, <2>1 DEF KeyInv, SweptKey
  <2> QED
    BY <2>2, SweptStays
<1>3. ASSUME NEW ks \in SUBSET Keys, SweepNext(ks), UNCHANGED key
      PROVE  SweptKey(k)'
  <2>1. PICK j \in ks : /\ queues' = [queues EXCEPT ![j] = NoState]
                        /\ swept' = swept \cup {queues[j]}
    BY <1>3, Sweeps
  <2>2. j = k
    BY <1>0, <2>1
  <2> QED
    BY <1>3, <2>1, <2>2 DEF SweptKey
<1>4. ASSUME NEW m \in Msgs, NEW j \in Keys, NEW s \in States, EnqueueCreates(m, j, s)
      PROVE  FALSE
  BY <1>0, <1>4 DEF EnqueueCreates
<1> QED
  BY <1>1, <1>2, <1>3, <1>4, CleanerSweeps

\* Phases do not go back, and once everything is stopped nothing comes alive.
LEMMA StoppedStays ==
    ASSUME TypeOK, [Next]_vars
    PROVE  /\ phase' # "stopped" => phase # "stopped"
           /\ phase' = "stopped" => \A s \in States : Alive(s)' => Alive(s)
<1>0. consumer \in [States -> ConsumerState] /\ phase \in Phase
  BY DEF TypeOK, ConsumerTypes, ManagerTypes
<1>1. UNCHANGED phase \/ StopEnqueues \/ StopCleanup \/ StopConsumers \/ StopDone
  BY Steps, CleanerSweeps
     DEF EnqueueFound, EnqueueCreates, Hold, Put, PutTimesOut, Begin, Take,
         Drain, StartRun, IgnoreBatch, ScreenBatch, FailBatch, HandOver,
         ReadEnd, ConsumerStep, CancelledUnstarted, CancelledConsumer,
         CancelledReader, Age, ClearQueue, ConsoleStarts, RunEnds, RunAborts,
         managerVars, vars
<1>2. ASSUME phase' = "stopped", NEW s \in States, Alive(s)'
      PROVE  Alive(s)
  <2>1. ~\E m \in Msgs, k \in Keys : EnqueueCreates(m, k, s)
    BY <1>2 DEF EnqueueCreates, Hold, managerVars
  <2>2. consumer[s] # "unused"
    BY <1>2, <2>1, Born DEF Alive
  <2>3. \/ UNCHANGED consumer
        \/ \E t, to : consumer[t] \notin {"unused", "ended"}
                      /\ consumer' = [consumer EXCEPT ![t] = to]
        \/ \E m \in Msgs, k \in Keys, t \in States : EnqueueCreates(m, k, t)
    BY Steps, CleanerSweeps, ZenonT(60)
       DEF EnqueueFound, Put, PutTimesOut, Begin, Take, Drain,
           StartRun, IgnoreBatch, ScreenBatch, FailBatch, HandOver, ReadEnd,
           ConsumerStep, CancelledUnstarted, CancelledConsumer,
           CancelledReader, Age, ClearQueue, ConsoleStarts, RunEnds, RunAborts,
           StopEnqueues,
           StopCleanup, StopConsumers, StopDone, queueVars, vars
  <2>4. ASSUME NEW m \in Msgs, NEW k \in Keys, NEW t \in States, EnqueueCreates(m, k, t)
        PROVE  FALSE
    BY <1>2, <2>4 DEF EnqueueCreates, Hold, managerVars
  <2> QED
    BY <1>0, <1>2, <2>2, <2>3, <2>4 DEF Alive
<1> QED
  BY <1>1, <1>2 DEF StopEnqueues, StopCleanup, StopConsumers, StopDone

\* Until everything is stopped, a living consumer that is not registered
\* belongs to a swept key.
LEMMA OrphanStep ==
    ASSUME TypeOK, KeyInv, OrphanInv, [Next]_vars
    PROVE  OrphanInv'
<1> SUFFICES ASSUME phase' # "stopped", NEW t \in States, Alive(t)',
                    NEW k, key'[t] = k
             PROVE  queues'[k] = t \/ SweptKey(k)'
  BY DEF OrphanInv
<1>0. /\ queues \in [Keys -> States \cup {NoState}] /\ NoState \notin States
      /\ consumer \in [States -> ConsumerState] /\ key \in [States -> Keys \cup {NoKey}]
      /\ phase # "stopped"
  BY NoneAssumption, StoppedStays DEF TypeOK, QueueTypes, ConsumerTypes
<1>1. CASE consumer[t] = "unused"
  <2>1. PICK m \in Msgs, j \in Keys : EnqueueCreates(m, j, t)
    BY <1>1, Born DEF Alive
  <2> QED
    BY <1>0, <2>1 DEF EnqueueCreates
<1>2. CASE consumer[t] # "unused"
  <2>1. key[t] = k /\ k \in Keys
    BY <1>2, KeysStay DEF KeyInv
  <2>2. Alive(t)
    <3>1. ~\E m \in Msgs, j \in Keys : EnqueueCreates(m, j, t)
      BY <1>2 DEF EnqueueCreates
    <3>2. \/ UNCHANGED consumer
          \/ \E s, to : consumer[s] \notin {"unused", "ended"}
                        /\ consumer' = [consumer EXCEPT ![s] = to]
          \/ \E m \in Msgs, j \in Keys, s \in States : EnqueueCreates(m, j, s)
      BY Steps, CleanerSweeps, ZenonT(60)
         DEF EnqueueFound, Put, PutTimesOut, Begin, Take, Drain,
             StartRun, IgnoreBatch, ScreenBatch, FailBatch, HandOver, ReadEnd,
             ConsumerStep, CancelledUnstarted, CancelledConsumer,
             CancelledReader, Age, ClearQueue, ConsoleStarts, RunEnds,
             RunAborts, StopEnqueues,
             StopCleanup, StopConsumers, StopDone, queueVars, vars
    <3> QED
      BY <1>0, <1>2, <3>1, <3>2 DEF Alive, EnqueueCreates
  <2>3. CASE queues[k] = t
    BY <2>1, <2>2, <2>3, PopsAreSwept
  <2>4. CASE queues[k] # t
    BY <1>0, <2>1, <2>2, <2>4, SweptStays DEF OrphanInv
  <2> QED
    BY <2>3, <2>4
<1> QED
  BY <1>1, <1>2

\* Two consumers of one key, before the stop: one of them is not the
\* registered one, so the key was swept.
LEMMA OrphansAreSwept ==
    ASSUME OrphanInv, phase # "stopped"
    PROVE  SerialUnlessSwept
BY DEF OrphanInv, SerialUnlessSwept, SweptKey

\* Every step keeps SerialUnlessSwept.
LEMMA SerialStep ==
    ASSUME TypeOK, KeyInv, OrphanInv, SerialUnlessSwept, [Next]_vars
    PROVE  SerialUnlessSwept'
<1>1. CASE phase' # "stopped"
  <2>1. OrphanInv'
    BY OrphanStep
  <2>2. (OrphanInv /\ phase # "stopped" => SerialUnlessSwept)'
    BY OrphansAreSwept, PTL
  <2> QED
    BY <1>1, <2>1, <2>2
<1>2. CASE phase' = "stopped"
  <2> SUFFICES ASSUME NEW s \in States, NEW t \in States, s # t, Alive(s)',
                      Alive(t)', NEW k, key'[s] = k, key'[t] = k
               PROVE  SweptKey(k)'
    BY DEF SerialUnlessSwept, SweptKey
  <2>1. Alive(s) /\ Alive(t)
    BY <1>2, StoppedStays
  <2>2. key[s] = k /\ key[t] = k
    BY <2>1, KeysStay DEF Alive
  <2>3. SweptKey(k)
    BY <2>1, <2>2 DEF SerialUnlessSwept, SweptKey
  <2> QED
    BY <2>3, SweptStays
<1> QED
  BY <1>1, <1>2

\* OrphanInv always holds.
LEMMA OrphanCorrect == Spec => []OrphanInv
<1>1. Init => OrphanInv
  BY DEF Init, OrphanInv, Alive
<1> QED
  BY <1>1, OrphanStep, TypeCorrect, KeyCorrect, PTL DEF Spec

\* Enqueueing, however it interleaves with consumers that come and go, never
\* makes a second consumer of a key: where two are alive, the cleanup or the
\* shutdown has cancelled one of that key before.
THEOREM EnqueueKeepsSerial == Spec => []SerialUnlessSwept
<1>1. Init => SerialUnlessSwept
  BY DEF Init, SerialUnlessSwept, Alive
<1> QED
  BY <1>1, SerialStep, TypeCorrect, KeyCorrect, OrphanCorrect, PTL DEF Spec

\* A consumer that started the live run of a key reads it, or the key was
\* swept since.
RunInv ==
    \A k \in Keys : run[k] \in States =>
        /\ consumer[run[k]] # "unused" /\ key[run[k]] = k
        /\ consumer[run[k]] = "reading" \/ SweptKey(k)

\* A consumer leaves its live run only when it is cancelled.
LEMMA RunStep ==
    ASSUME TypeOK, KeyInv, RunInv, [Next]_vars
    PROVE  RunInv'
<1> SUFFICES ASSUME NEW k \in Keys, NEW r \in States, run'[k] = r
             PROVE  /\ consumer'[r] # "unused" /\ key'[r] = k
                    /\ consumer'[r] = "reading" \/ SweptKey(k)'
  BY DEF RunInv
<1>0. /\ run \in [Keys -> States \cup {NoState, Console}] /\ consumer \in [States -> ConsumerState]
      /\ key \in [States -> Keys \cup {NoKey}] /\ NoState \notin States
      /\ NoKey \notin Keys /\ Console \notin States
  BY NoneAssumption, ConsoleAssumption DEF TypeOK, QueueTypes, ConsumerTypes
<1>1. ASSUME NEW s \in States, StartRun(s), run[k] # r
      PROVE  key'[r] = k /\ consumer'[r] = "reading"
  <2>1. key[s] = k /\ r = s
    BY <1>0, <1>1 DEF StartRun
  <2> QED
    BY <1>0, <1>1, <2>1 DEF StartRun, HandOver, ConsumerStep
<1>2. run[k] = r \/ \E s \in States : StartRun(s) /\ run[k] # r
  <2>1. \/ UNCHANGED run
        \/ \E s \in States : StartRun(s)
        \/ \E j : \/ run' = [run EXCEPT ![j] = NoState]
                 \/ run' = [run EXCEPT ![j] = Console]
    BY Steps, CleanerSweeps
       DEF EnqueueFound, EnqueueCreates, Hold, Put, PutTimesOut, Begin, Take,
           Drain, IgnoreBatch, ScreenBatch, FailBatch, HandOver, ReadEnd,
           CancelledUnstarted, CancelledConsumer, CancelledReader, Age,
           ClearQueue, ConsoleStarts, RunEnds, RunAborts, StopEnqueues,
           StopCleanup,
           StopConsumers, StopDone, runVars, vars
  <2> QED
    BY <1>0, <2>1
<1>3. CASE run[k] = r
  <2>1. r \in States /\ key[r] = k /\ (consumer[r] = "reading" \/ SweptKey(k))
    BY <1>0, <1>3 DEF RunInv
  <2>2. consumer[r] # "unused"
    BY <1>0, <1>3 DEF RunInv
  <2>3. consumer'[r] # "unused" /\ key'[r] = k
    BY <2>1, <2>2, KeysStay
  <2>4. CASE SweptKey(k)
    BY <2>3, <2>4, SweptStays
  <2>5. CASE consumer[r] = "reading" /\ consumer'[r] # "reading"
    <3>1. \/ UNCHANGED consumer
          \/ \E s \in States : \E to : consumer[s] # "reading" /\ consumer' = [consumer EXCEPT ![s] = to]
          \/ \E s \in States : /\ cancel[s] \/ run[key[s]] # s
                               /\ consumer' = [consumer EXCEPT ![s] = "getting"]
      BY Steps, CleanerSweeps
         DEF EnqueueFound, EnqueueCreates, Put, PutTimesOut, Begin, Take, Drain,
             StartRun, IgnoreBatch, ScreenBatch, FailBatch, HandOver, ReadEnd,
             ConsumerStep, CancelledUnstarted, CancelledConsumer,
             CancelledReader, Age, ClearQueue, ConsoleStarts, RunEnds,
             RunAborts, StopEnqueues,
             StopCleanup, StopConsumers, StopDone, queueVars, vars
    <3>2. cancel[r]
      BY <1>0, <1>3, <2>1, <2>5, <3>1
    <3>3. SweptKey(k)
      BY <2>1, <3>2 DEF KeyInv, SweptKey
    <3> QED
      BY <2>3, <3>3, SweptStays
  <2> QED
    BY <2>1, <2>3, <2>4, <2>5
<1> QED
  BY <1>1, <1>2, <1>3

\* RunInv always holds.
LEMMA RunCorrect == Spec => []RunInv
<1>1. Init => RunInv
  BY NoneAssumption DEF Init, RunInv
<1> QED
  BY <1>1, RunStep, TypeCorrect, KeyCorrect, PTL DEF Spec

(***************************************************************************)
(* Where the messages are.                                                 *)
(***************************************************************************)

\* An element put at the end of a sequence that does not hold it.
LEMMA Appended ==
    ASSUME NEW S, NEW s \in Seq(S), NEW m \in S, IsInjective(s), m \notin ToSet(s)
    PROVE  IsInjective(Append(s, m)) /\ ToSet(Append(s, m)) = ToSet(s) \cup {m}
<1>1. /\ Len(Append(s, m)) = Len(s) + 1 /\ Append(s, m)[Len(s) + 1] = m
      /\ \A i \in 1..Len(s) : Append(s, m)[i] = s[i]
      /\ DOMAIN Append(s, m) = 1..(Len(s) + 1) /\ DOMAIN s = 1..Len(s)
  OBVIOUS
<1>2. \A i \in 1..Len(s) : s[i] # m
  BY <1>1 DEF ToSet
<1>3. IsInjective(Append(s, m))
  BY <1>1, <1>2 DEF IsInjective
<1>4. 1..(Len(s) + 1) = (1..Len(s)) \cup {Len(s) + 1}
  OBVIOUS
<1>5. ToSet(Append(s, m)) = ToSet(s) \cup {m}
  BY <1>1, <1>4 DEF ToSet
<1> QED
  BY <1>3, <1>5

\* The first element taken from a sequence that holds it once.
LEMMA Taken ==
    ASSUME NEW S, NEW s \in Seq(S), s # <<>>, IsInjective(s)
    PROVE  /\ IsInjective(Tail(s)) /\ ToSet(Tail(s)) = ToSet(s) \ {Head(s)}
           /\ Head(s) \in ToSet(s)
<1>1. /\ Len(s) \in Nat /\ Len(s) > 0 /\ Head(s) = s[1] /\ Tail(s) \in Seq(S)
      /\ Len(Tail(s)) = Len(s) - 1
      /\ \A i \in 1..(Len(s) - 1) : Tail(s)[i] = s[i + 1]
      /\ DOMAIN s = 1..Len(s) /\ DOMAIN Tail(s) = 1..(Len(s) - 1)
  OBVIOUS
<1>2. IsInjective(Tail(s))
  <2> SUFFICES ASSUME NEW i \in 1..(Len(s) - 1), NEW j \in 1..(Len(s) - 1),
                      s[i + 1] = s[j + 1]
               PROVE  i = j
    BY <1>1 DEF IsInjective
  <2>1. i + 1 \in DOMAIN s /\ j + 1 \in DOMAIN s
    BY <1>1
  <2>2. i + 1 = j + 1
    BY <2>1 DEF IsInjective
  <2> QED
    BY <2>2
<1>3. ASSUME NEW x \in ToSet(Tail(s))
      PROVE  x \in ToSet(s) /\ x # Head(s)
  <2>1. PICK i \in 1..(Len(s) - 1) : x = s[i + 1]
    BY <1>1 DEF ToSet
  <2>2. i + 1 \in DOMAIN s /\ 1 \in DOMAIN s /\ i + 1 # 1
    BY <1>1
  <2> QED
    BY <1>1, <2>1, <2>2 DEF ToSet, IsInjective
<1>4. ASSUME NEW x \in ToSet(s), x # Head(s)
      PROVE  x \in ToSet(Tail(s))
  <2>1. PICK i \in 1..Len(s) : x = s[i]
    BY <1>1 DEF ToSet
  <2>2. i - 1 \in 1..(Len(s) - 1) /\ (i - 1) + 1 = i
    BY <1>1, <1>4, <2>1
  <2>3. Tail(s)[i - 1] = x
    BY <1>1, <2>1, <2>2
  <2> QED
    BY <1>1, <2>2, <2>3 DEF ToSet
<1>5. Head(s) \in ToSet(s)
  BY <1>1 DEF ToSet
<1> QED
  BY <1>2, <1>3, <1>4, <1>5

\* Two sequences that hold no element twice, joined.
LEMMA Joined ==
    ASSUME NEW S, NEW s \in Seq(S), NEW t \in Seq(S), IsInjective(s),
           IsInjective(t), ToSet(s) \cap ToSet(t) = {}
    PROVE  IsInjective(s \o t) /\ ToSet(s \o t) = ToSet(s) \cup ToSet(t)
<1>1. /\ Len(s) \in Nat /\ Len(t) \in Nat /\ Len(s \o t) = Len(s) + Len(t)
      /\ DOMAIN s = 1..Len(s) /\ DOMAIN t = 1..Len(t)
      /\ DOMAIN (s \o t) = 1..(Len(s) + Len(t))
      /\ \A i \in 1..Len(s) : (s \o t)[i] = s[i]
      /\ \A i \in (Len(s) + 1)..(Len(s) + Len(t)) : (s \o t)[i] = t[i - Len(s)]
  OBVIOUS
<1>2. ASSUME NEW i \in 1..(Len(s) + Len(t)), i \notin 1..Len(s)
      PROVE  i - Len(s) \in 1..Len(t) /\ i \in (Len(s) + 1)..(Len(s) + Len(t))
  BY <1>1, <1>2
<1>3. ASSUME NEW i \in 1..Len(t)
      PROVE  i + Len(s) \in (Len(s) + 1)..(Len(s) + Len(t)) /\ (i + Len(s)) - Len(s) = i
  BY <1>1
<1>4. \A i \in 1..Len(s), j \in 1..Len(t) : s[i] # t[j]
  BY <1>1 DEF ToSet
<1>5. IsInjective(s \o t)
  <2> SUFFICES ASSUME NEW i \in 1..(Len(s) + Len(t)), NEW j \in 1..(Len(s) + Len(t)),
                      (s \o t)[i] = (s \o t)[j]
               PROVE  i = j
    BY <1>1 DEF IsInjective
  <2>1. CASE i \in 1..Len(s) /\ j \in 1..Len(s)
    BY <1>1, <2>1 DEF IsInjective
  <2>2. CASE i \in 1..Len(s) /\ j \notin 1..Len(s)
    BY <1>1, <1>2, <1>4, <2>2
  <2>3. CASE i \notin 1..Len(s) /\ j \in 1..Len(s)
    <3>1. (s \o t)[i] = t[i - Len(s)] /\ i - Len(s) \in 1..Len(t)
      BY <1>1, <1>2, <2>3
    <3> QED
      BY <1>1, <1>4, <2>3, <3>1
  <2>4. CASE i \notin 1..Len(s) /\ j \notin 1..Len(s)
    <3>1. t[i - Len(s)] = t[j - Len(s)] /\ i - Len(s) \in DOMAIN t /\ j - Len(s) \in DOMAIN t
      BY <1>1, <1>2, <2>4
    <3>2. i - Len(s) = j - Len(s)
      BY <3>1 DEF IsInjective
    <3> QED
      BY <1>1, <3>2
  <2> QED
    BY <2>1, <2>2, <2>3, <2>4
<1>6. ASSUME NEW x \in ToSet(s \o t)
      PROVE  x \in ToSet(s) \cup ToSet(t)
  <2>1. PICK i \in 1..(Len(s) + Len(t)) : x = (s \o t)[i]
    BY <1>1 DEF ToSet
  <2> QED
    BY <1>1, <1>2, <2>1 DEF ToSet
<1>7. ASSUME NEW x \in ToSet(s)
      PROVE  x \in ToSet(s \o t)
  <2>1. PICK i \in 1..Len(s) : x = s[i]
    BY <1>1 DEF ToSet
  <2>2. i \in 1..(Len(s) + Len(t)) /\ (s \o t)[i] = x
    BY <1>1, <2>1
  <2> QED
    BY <1>1, <2>2 DEF ToSet
<1>8. ASSUME NEW x \in ToSet(t)
      PROVE  x \in ToSet(s \o t)
  <2>1. PICK i \in 1..Len(t) : x = t[i]
    BY <1>1 DEF ToSet
  <2>2. i + Len(s) \in 1..(Len(s) + Len(t)) /\ (s \o t)[i + Len(s)] = x
    BY <1>1, <1>3, <2>1
  <2> QED
    BY <1>1, <2>2 DEF ToSet
<1> QED
  BY <1>5, <1>6, <1>7, <1>8

\* Short sequences.
LEMMA Short ==
    /\ IsInjective(<<>>) /\ ToSet(<<>>) = {}
    /\ \A m : IsInjective(<<m>>) /\ ToSet(<<m>>) = {m}
BY DEF IsInjective, ToSet

\* What is in one queue, and in one consumer's batch, is there once and knows
\* it; a batch is only held while it is being prepared.
ContentOf(s) ==
    /\ IsInjective(content[s])
    /\ \A m \in ToSet(content[s]) : target[m] = s /\ fate[m] = "queued"

BatchOf(s) ==
    /\ IsInjective(batch[s])
    /\ \A m \in ToSet(batch[s]) : target[m] = s /\ fate[m] = "batched"
    /\ consumer[s] \notin {"looking", "preparing"} => batch[s] = <<>>

\* A message that was enqueued has a queue, and is where its fate says.
PlaceOf(m) ==
    /\ fate[m] # "new" => target[m] \in States /\ consumer[target[m]] # "unused"
    /\ fate[m] = "queued" => m \in ToSet(content[target[m]])
    /\ fate[m] = "batched" => m \in ToSet(batch[target[m]])

PlaceInv ==
    /\ \A s \in States : ContentOf(s) /\ BatchOf(s)
    /\ \A m \in Msgs : PlaceOf(m)

\* PlaceInv is what OnePlace asks for.
LEMMA PlaceGivesOnePlace ==
    ASSUME TypeOK, PlaceInv
    PROVE  OnePlace
<1>1. ASSUME NEW s \in States
      PROVE  /\ IsInjective(content[s] \o batch[s])
             /\ \A m \in ToSet(content[s]) : target[m] = s /\ fate[m] = "queued"
             /\ \A m \in ToSet(batch[s]) : target[m] = s /\ fate[m] = "batched"
  <2>1. ContentOf(s) /\ BatchOf(s) /\ content[s] \in Seq(Msgs) /\ batch[s] \in Seq(Msgs)
    BY DEF PlaceInv, TypeOK, QueueTypes, ConsumerTypes
  <2>2. ToSet(content[s]) \cap ToSet(batch[s]) = {}
    BY <2>1 DEF ContentOf, BatchOf
  <2> QED
    BY <2>1, <2>2, Joined DEF ContentOf, BatchOf
<1> QED
  BY <1>1 DEF PlaceInv, PlaceOf, OnePlace

\* The message of an enqueue call gets a queue that is in use, for good.
LEMMA TargetsStay ==
    ASSUME TypeOK, KeyInv, PlaceInv, [Next]_vars, NEW m \in Msgs, fate'[m] # "new"
    PROVE  /\ target'[m] \in States /\ consumer'[target'[m]] # "unused"
           /\ fate[m] # "new" => target'[m] = target[m]
<1>0. /\ consumer \in [States -> ConsumerState] /\ key \in [States -> Keys \cup {NoKey}]
      /\ fate \in [Msgs -> Fate] /\ target \in [Msgs -> States \cup {NoState}]
      /\ queues \in [Keys -> States \cup {NoState}] /\ NoState \notin States
  BY NoneAssumption DEF TypeOK, QueueTypes, ConsumerTypes, MessageTypes
<1>1. CASE fate[m] # "new"
  BY <1>1, KeysStay DEF PlaceInv, PlaceOf
<1>2. CASE fate[m] = "new"
  <2>1. ASSUME NEW ms, NEW f, Settle(ms, f), \A n \in ms \cap Msgs : fate[n] # "new"
        PROVE  FALSE
    BY <1>0, <1>2, <2>1 DEF Settle
  <2>2. ASSUME NEW s \in States, consumer'[s] # "unused", NEW n \in Msgs, Hold(n, s)
        PROVE  target'[m] \in States /\ consumer'[target'[m]] # "unused"
    BY <1>0, <1>2, <2>2 DEF Hold, Settle
  <2>3. ASSUME NEW n \in Msgs, NEW k \in Keys, EnqueueFound(n, k)
        PROVE  target'[m] \in States /\ consumer'[target'[m]] # "unused"
    <3>1. queues[k] \in States /\ consumer'[queues[k]] # "unused"
      BY <1>0, <2>3, KeysStay DEF KeyInv, EnqueueFound
    <3> QED
      BY <2>2, <2>3, <3>1 DEF EnqueueFound
  <2>4. ASSUME NEW n \in Msgs, NEW k \in Keys, NEW s \in States, EnqueueCreates(n, k, s)
        PROVE  target'[m] \in States /\ consumer'[target'[m]] # "unused"
    <3>1. consumer'[s] # "unused" /\ Hold(n, s)
      BY <1>0, <2>4 DEF EnqueueCreates
    <3> QED
      BY <2>2, <3>1
  <2>5. ASSUME NEW s \in States, Take(s)
        PROVE  FALSE
    <3>1. content[s] \in Seq(Msgs) /\ content[s] # <<>> /\ ContentOf(s)
      BY <2>5 DEF Take, TypeOK, QueueTypes, PlaceInv
    <3>2. Head(content[s]) \in ToSet(content[s])
      BY <3>1, Taken DEF ContentOf
    <3> QED
      BY <2>1, <2>5, <3>1, <3>2 DEF Take, ContentOf
  <2>6. \/ UNCHANGED fate
        \/ \E n \in Msgs, k \in Keys : EnqueueFound(n, k)
        \/ \E n \in Msgs, k \in Keys, s \in States : EnqueueCreates(n, k, s)
        \/ \E ms, f : ms \subseteq {n \in Msgs : fate[n] = "holding"} /\ Settle(ms, f)
        \/ \E s \in States : Take(s)
        \/ \E s \in States : \E f : Settle(ToSet(content[s]), f) \/ Settle(ToSet(batch[s]), f)
    <3>1. ASSUME NEW k \in Keys, ClearQueue(k)
          PROVE  \E s \in States : \E f : Settle(ToSet(content[s]), f)
      BY <1>0, <3>1 DEF ClearQueue
    <3>2. ASSUME NEW n \in Msgs, Put(n) \/ PutTimesOut(n)
          PROVE  \E ms, f : ms \subseteq {x \in Msgs : fate[x] = "holding"} /\ Settle(ms, f)
      <4>1. {n} \subseteq {x \in Msgs : fate[x] = "holding"} /\ \E f : Settle({n}, f)
        BY <3>2 DEF Put, PutTimesOut
      <4> QED
        BY <4>1
    <3>3. CASE StopEnqueues
      BY <3>3 DEF StopEnqueues
    <3> QED
      BY Steps, CleanerSweeps, <3>1, <3>2, <3>3
         DEF Begin, Drain, StartRun, IgnoreBatch, ScreenBatch, FailBatch,
             HandOver, ReadEnd, CancelledUnstarted, CancelledConsumer,
             CancelledReader, Age, ConsoleStarts, RunEnds, RunAborts, StopCleanup,
             StopConsumers, StopDone, msgVars, vars
  <2>7. \A s \in States : /\ \A n \in ToSet(content[s]) : fate[n] # "new"
                          /\ \A n \in ToSet(batch[s]) : fate[n] # "new"
    BY DEF PlaceInv, ContentOf, BatchOf
  <2>8. CASE UNCHANGED fate
    BY <1>2, <2>8
  <2>9. ASSUME NEW s \in States, NEW f, Settle(ToSet(content[s]), f) \/ Settle(ToSet(batch[s]), f)
        PROVE  FALSE
    BY <2>1, <2>7, <2>9
  <2>10. ASSUME NEW ms, NEW f, ms \subseteq {n \in Msgs : fate[n] = "holding"}, Settle(ms, f)
         PROVE  FALSE
    BY <2>1, <2>10
  <2> QED
    BY <1>2, <2>3, <2>4, <2>5, <2>6, <2>8, <2>9, <2>10
<1> QED
  BY <1>1, <1>2

\* Steps that move no message.
LEMMA StillKeepsPlaces ==
    ASSUME TypeOK, KeyInv, PlaceInv, [Next]_vars, UNCHANGED <<content, batch>>,
           \A m \in Msgs : \/ fate'[m] = fate[m]
                           \/ /\ fate[m] \notin {"queued", "batched"}
                              /\ fate'[m] \notin {"queued", "batched"},
           \A s \in States : consumer[s] \in {"looking", "preparing"} =>
                             consumer'[s] = consumer[s]
    PROVE  PlaceInv'
<1>1. /\ content \in [States -> Seq(Msgs)] /\ batch \in [States -> Seq(Msgs)]
  BY DEF TypeOK, QueueTypes, ConsumerTypes
<1>2. ASSUME NEW s \in States
      PROVE  ContentOf(s)' /\ BatchOf(s)'
  <2>1. ToSet(content[s]) \subseteq Msgs /\ ToSet(batch[s]) \subseteq Msgs
    BY <1>1 DEF ToSet
  <2>2. ContentOf(s) /\ BatchOf(s)
    BY DEF PlaceInv
  <2> QED
    BY <2>1, <2>2, TargetsStay DEF ContentOf, BatchOf
<1>3. ASSUME NEW m \in Msgs
      PROVE  PlaceOf(m)'
  BY TargetsStay DEF PlaceInv, PlaceOf
<1> QED
  BY <1>2, <1>3 DEF PlaceInv

\* A put.
LEMMA PutKeepsPlaces ==
    ASSUME TypeOK, KeyInv, PlaceInv, [Next]_vars, NEW m \in Msgs, Put(m)
    PROVE  PlaceInv'
<1>0. /\ content \in [States -> Seq(Msgs)] /\ batch \in [States -> Seq(Msgs)]
      /\ fate \in [Msgs -> Fate]
  BY DEF TypeOK, QueueTypes, ConsumerTypes, MessageTypes
<1>1. PICK t \in States : target[m] = t
  BY DEF PlaceInv, PlaceOf, Put
<1>2. /\ fate[m] = "holding" /\ content' = [content EXCEPT ![t] = Append(@, m)]
      /\ fate' = [n \in Msgs |-> IF n = m THEN "queued" ELSE fate[n]]
      /\ UNCHANGED <<batch, consumer, target>>
  BY <1>1 DEF Put, Settle
<1>3. ASSUME NEW s \in States
      PROVE  m \notin ToSet(content[s]) /\ m \notin ToSet(batch[s])
  BY <1>2 DEF PlaceInv, ContentOf, BatchOf
<1>4. /\ content'[t] = Append(content[t], m)
      /\ \A s \in States : s # t => content'[s] = content[s]
      /\ ToSet(content'[t]) = ToSet(content[t]) \cup {m} /\ IsInjective(content'[t])
  BY <1>0, <1>2, <1>3, Appended DEF PlaceInv, ContentOf
<1>5. ASSUME NEW s \in States
      PROVE  ContentOf(s)' /\ BatchOf(s)'
  <2>1. ToSet(content[s]) \subseteq Msgs /\ ToSet(batch[s]) \subseteq Msgs
    BY <1>0 DEF ToSet
  <2>2. BatchOf(s)'
    BY <1>2, <1>3, <2>1 DEF PlaceInv, BatchOf
  <2>3. ContentOf(s)'
    BY <1>1, <1>2, <1>3, <1>4, <2>1 DEF PlaceInv, ContentOf
  <2> QED
    BY <2>2, <2>3
<1>6. ASSUME NEW n \in Msgs
      PROVE  PlaceOf(n)'
  BY <1>1, <1>2, <1>4, TargetsStay DEF PlaceInv, PlaceOf
<1> QED
  BY <1>5, <1>6 DEF PlaceInv

\* A batch that is handed over, or lost with its consumer.
LEMMA BatchDoneKeepsPlaces ==
    ASSUME TypeOK, KeyInv, PlaceInv, [Next]_vars, NEW s \in States, NEW f, NEW to,
           f \notin {"queued", "batched"},
           Settle(ToSet(batch[s]), f), batch' = [batch EXCEPT ![s] = <<>>],
           consumer' = [consumer EXCEPT ![s] = to], UNCHANGED <<content, target>>
    PROVE  PlaceInv'
<1>0. /\ content \in [States -> Seq(Msgs)] /\ batch \in [States -> Seq(Msgs)]
      /\ fate \in [Msgs -> Fate] /\ consumer \in [States -> ConsumerState]
  BY DEF TypeOK, QueueTypes, ConsumerTypes, MessageTypes
<1>1. \A m \in Msgs : fate'[m] = IF m \in ToSet(batch[s]) THEN f ELSE fate[m]
  BY DEF Settle
<1>2. /\ batch'[s] = <<>> /\ \A t \in States : t # s => batch'[t] = batch[t]
                                               /\ consumer'[t] = consumer[t]
  BY <1>0
<1>3. ASSUME NEW t \in States
      PROVE  ContentOf(t)' /\ BatchOf(t)'
  <2>1. ToSet(content[t]) \subseteq Msgs /\ ToSet(batch[t]) \subseteq Msgs
    BY <1>0 DEF ToSet
  <2>2. BatchOf(t)'
    <3>1. CASE t = s
      BY <1>2, <3>1, Short DEF BatchOf
    <3>2. CASE t # s
      <4>1. ToSet(batch[t]) \cap ToSet(batch[s]) = {}
        BY <3>2 DEF PlaceInv, BatchOf
      <4> QED
        BY <1>1, <1>2, <2>1, <3>2, <4>1 DEF PlaceInv, BatchOf
    <3> QED
      BY <3>1, <3>2
  <2>3. ContentOf(t)'
    <3>1. ToSet(content[t]) \cap ToSet(batch[s]) = {}
      BY DEF PlaceInv, ContentOf, BatchOf
    <3> QED
      BY <1>1, <2>1, <3>1 DEF PlaceInv, ContentOf
  <2> QED
    BY <2>2, <2>3
<1>4. ASSUME NEW n \in Msgs
      PROVE  PlaceOf(n)'
  <2>1. /\ fate'[n] = "queued" => fate[n] = "queued"
        /\ fate'[n] = "batched" => fate[n] = "batched" /\ n \notin ToSet(batch[s])
    BY <1>1
  <2> QED
    BY <1>2, <2>1, TargetsStay DEF PlaceInv, PlaceOf
<1> QED
  BY <1>3, <1>4 DEF PlaceInv

\* A queue that is cleared.
LEMMA ClearKeepsPlaces ==
    ASSUME TypeOK, KeyInv, PlaceInv, [Next]_vars, NEW s \in States,
           Settle(ToSet(content[s]), "cleared"),
           content' = [content EXCEPT ![s] = <<>>],
           UNCHANGED <<batch, consumer, target>>
    PROVE  PlaceInv'
<1>0. /\ content \in [States -> Seq(Msgs)] /\ batch \in [States -> Seq(Msgs)]
      /\ fate \in [Msgs -> Fate]
  BY DEF TypeOK, QueueTypes, ConsumerTypes, MessageTypes
<1>1. \A m \in Msgs : fate'[m] = IF m \in ToSet(content[s]) THEN "cleared" ELSE fate[m]
  BY DEF Settle
<1>2. content'[s] = <<>> /\ \A t \in States : t # s => content'[t] = content[t]
  BY <1>0
<1>3. ASSUME NEW t \in States
      PROVE  ContentOf(t)' /\ BatchOf(t)'
  <2>1. ToSet(content[t]) \subseteq Msgs /\ ToSet(batch[t]) \subseteq Msgs
    BY <1>0 DEF ToSet
  <2>2. ContentOf(t)'
    <3>1. CASE t = s
      BY <1>2, <3>1, Short DEF ContentOf
    <3>2. CASE t # s
      <4>1. ToSet(content[t]) \cap ToSet(content[s]) = {}
        BY <3>2 DEF PlaceInv, ContentOf
      <4> QED
        BY <1>1, <1>2, <2>1, <3>2, <4>1 DEF PlaceInv, ContentOf
    <3> QED
      BY <3>1, <3>2
  <2>3. BatchOf(t)'
    <3>1. ToSet(batch[t]) \cap ToSet(content[s]) = {}
      BY DEF PlaceInv, ContentOf, BatchOf
    <3> QED
      BY <1>1, <2>1, <3>1 DEF PlaceInv, BatchOf
  <2> QED
    BY <2>2, <2>3
<1>4. ASSUME NEW n \in Msgs
      PROVE  PlaceOf(n)'
  <2>1. /\ fate'[n] = "queued" => fate[n] = "queued" /\ n \notin ToSet(content[s])
        /\ fate'[n] = "batched" => fate[n] = "batched"
    BY <1>1
  <2> QED
    BY <1>2, <2>1, TargetsStay DEF PlaceInv, PlaceOf
<1> QED
  BY <1>3, <1>4 DEF PlaceInv

\* The consumer of s moves the messages ms from its queue, which is c then,
\* into its batch, which is b then.
Moves(s, to, ms, c, b) ==
    /\ to \in {"looking", "preparing"}
    /\ ms \subseteq ToSet(content[s])
    /\ Settle(ms, "batched")
    /\ IsInjective(c) /\ ToSet(c) = ToSet(content[s]) \ ms
    /\ IsInjective(b) /\ ToSet(b) = ToSet(batch[s]) \cup ms
    /\ content' = [content EXCEPT ![s] = c]
    /\ batch' = [batch EXCEPT ![s] = b]
    /\ consumer' = [consumer EXCEPT ![s] = to]
    /\ UNCHANGED target

\* A queue's consumer that takes messages from it into its batch.
LEMMA MoveKeepsPlaces ==
    ASSUME TypeOK, KeyInv, PlaceInv, [Next]_vars, NEW s \in States, NEW to,
           NEW ms, NEW c, NEW b, Moves(s, to, ms, c, b)
    PROVE  PlaceInv'
<1> USE DEF Moves
<1>0. /\ content \in [States -> Seq(Msgs)] /\ batch \in [States -> Seq(Msgs)]
      /\ fate \in [Msgs -> Fate] /\ consumer \in [States -> ConsumerState]
      /\ \A t \in States : ToSet(content[t]) \subseteq Msgs /\ ToSet(batch[t]) \subseteq Msgs
  BY DEF TypeOK, QueueTypes, ConsumerTypes, MessageTypes, ToSet
<1>1. \A m \in Msgs : fate'[m] = IF m \in ms THEN "batched" ELSE fate[m]
  BY DEF Settle
<1>2. /\ content'[s] = c /\ batch'[s] = b /\ consumer'[s] = to
      /\ \A t \in States : t # s => /\ content'[t] = content[t]
                                    /\ batch'[t] = batch[t]
                                    /\ consumer'[t] = consumer[t]
  BY <1>0
<1>3. ASSUME NEW t \in States, t # s
      PROVE  ToSet(content[t]) \cap ms = {} /\ ToSet(batch[t]) \cap ms = {}
  BY <1>3, SMTT(30) DEF PlaceInv, ContentOf, BatchOf
<1>4. ASSUME NEW t \in States
      PROVE  ContentOf(t)' /\ BatchOf(t)'
  <2>1. CASE t = s
    <3>1. \A m \in ToSet(c) : m \in Msgs /\ target[m] = s /\ fate'[m] = "queued"
      BY <1>0, <1>1 DEF PlaceInv, ContentOf
    <3>2. \A m \in ToSet(b) : m \in Msgs /\ target[m] = s /\ fate'[m] = "batched"
      BY <1>0, <1>1 DEF PlaceInv, ContentOf, BatchOf
    <3> QED
      BY <1>2, <2>1, <3>1, <3>2 DEF ContentOf, BatchOf
  <2>2. CASE t # s
    BY <1>0, <1>1, <1>2, <1>3, <2>2 DEF PlaceInv, ContentOf, BatchOf
  <2> QED
    BY <2>1, <2>2
<1>5. ASSUME NEW n \in Msgs
      PROVE  PlaceOf(n)'
  <2>1. CASE n \in ms
    <3>1. target[n] = s /\ fate[n] = "queued" /\ fate'[n] = "batched"
      BY <1>1, <2>1 DEF PlaceInv, ContentOf
    <3> QED
      BY <1>2, <2>1, <3>1, TargetsStay DEF PlaceInv, PlaceOf
  <2>2. CASE n \notin ms
    BY <1>1, <1>2, <2>2, TargetsStay DEF PlaceInv, PlaceOf
  <2> QED
    BY <2>1, <2>2
<1> QED
  BY <1>4, <1>5 DEF PlaceInv

\* Every step keeps PlaceInv.
LEMMA PlaceStep ==
    ASSUME TypeOK, KeyInv, PlaceInv, [Next]_vars
    PROVE  PlaceInv'
<1>0. /\ content \in [States -> Seq(Msgs)] /\ batch \in [States -> Seq(Msgs)]
      /\ queues \in [Keys -> States \cup {NoState}]
      /\ consumer \in [States -> ConsumerState] /\ fate \in [Msgs -> Fate]
  BY DEF TypeOK, QueueTypes, ConsumerTypes, MessageTypes
<1>1. ASSUME NEW s \in States, Take(s)
      PROVE  PlaceInv'
  <2>1. PICK h : h = Head(content[s])
    OBVIOUS
  <2>2. PICK c : c = Tail(content[s])
    OBVIOUS
  <2>3. /\ content[s] \in Seq(Msgs) /\ content[s] # <<>> /\ Settle({h}, "batched")
        /\ content' = [content EXCEPT ![s] = c]
        /\ batch' = [batch EXCEPT ![s] = <<h>>]
        /\ consumer' = [consumer EXCEPT ![s] = "looking"] /\ UNCHANGED target
        /\ batch[s] = <<>> /\ IsInjective(content[s])
    BY <1>0, <1>1, <2>1, <2>2 DEF Take, ConsumerStep, PlaceInv, ContentOf, BatchOf
  <2>4. /\ IsInjective(c) /\ {h} \subseteq ToSet(content[s])
        /\ ToSet(c) = ToSet(content[s]) \ {h}
    BY <2>1, <2>2, <2>3, Taken
  <2>5. IsInjective(<<h>>) /\ ToSet(<<h>>) = ToSet(batch[s]) \cup {h}
    BY <2>3, Short
  <2>6. Moves(s, "looking", {h}, c, <<h>>)
    BY <2>3, <2>4, <2>5 DEF Moves
  <2> QED
    BY <2>6, MoveKeepsPlaces
<1>2. ASSUME NEW s \in States, Drain(s)
      PROVE  PlaceInv'
  <2>1. PICK ms : ms = ToSet(content[s])
    OBVIOUS
  <2>2. PICK b : b = batch[s] \o content[s]
    OBVIOUS
  <2>3. /\ content[s] \in Seq(Msgs) /\ batch[s] \in Seq(Msgs) /\ Settle(ms, "batched")
        /\ content' = [content EXCEPT ![s] = <<>>]
        /\ batch' = [batch EXCEPT ![s] = b]
        /\ consumer' = [consumer EXCEPT ![s] = "preparing"] /\ UNCHANGED target
    BY <1>0, <1>2, <2>1, <2>2 DEF Drain, ConsumerStep
  <2>4. /\ IsInjective(content[s]) /\ IsInjective(batch[s])
        /\ ToSet(batch[s]) \cap ms = {}
    BY <2>1 DEF PlaceInv, ContentOf, BatchOf
  <2>5. IsInjective(b) /\ ToSet(b) = ToSet(batch[s]) \cup ms
    BY <2>1, <2>2, <2>3, <2>4, Joined
  <2>6. IsInjective(<<>>) /\ ToSet(<<>>) = ToSet(content[s]) \ ms
    BY <2>1, Short
  <2>7. Moves(s, "preparing", ms, <<>>, b)
    BY <2>1, <2>3, <2>5, <2>6 DEF Moves
  <2> QED
    BY <2>7, MoveKeepsPlaces
<1>3. ASSUME NEW s \in States,
             \/ StartRun(s) \/ IgnoreBatch(s) \/ ScreenBatch(s) \/ FailBatch(s)
             \/ CancelledConsumer(s)
      PROVE  PlaceInv'
  <2>1. PICK f, to : /\ f \notin {"queued", "batched"} /\ Settle(ToSet(batch[s]), f)
                     /\ batch' = [batch EXCEPT ![s] = <<>>]
                     /\ consumer' = [consumer EXCEPT ![s] = to]
                     /\ UNCHANGED <<content, target>>
    BY <1>3 DEF StartRun, IgnoreBatch, ScreenBatch, FailBatch, HandOver,
                ConsumerStep, CancelledConsumer
  <2> QED
    BY <2>1, BatchDoneKeepsPlaces
<1>4. ASSUME NEW k \in Keys, ClearQueue(k)
      PROVE  PlaceInv'
  <2>1. PICK s \in States : s = queues[k]
    BY <1>0, <1>4 DEF ClearQueue
  <2>2. /\ Settle(ToSet(content[s]), "cleared")
        /\ content' = [content EXCEPT ![s] = <<>>]
        /\ UNCHANGED <<batch, consumer, target>>
    BY <1>4, <2>1 DEF ClearQueue
  <2> QED
    BY <2>2, ClearKeepsPlaces
<1>5. ASSUME NEW m \in Msgs, Put(m)
      PROVE  PlaceInv'
  BY <1>5, PutKeepsPlaces
<1>6. ASSUME UNCHANGED <<content, batch>>, UNCHANGED consumer \/
                 \E s \in States : \E to : /\ consumer[s] \notin {"looking", "preparing"}
                                           /\ consumer' = [consumer EXCEPT ![s] = to],
             UNCHANGED fate \/
                 \E ms, f : /\ f \notin {"queued", "batched"} /\ Settle(ms, f)
                            /\ \A m \in ms \cap Msgs : fate[m] \notin {"queued", "batched"}
      PROVE  PlaceInv'
  <2>1. \A m \in Msgs : \/ fate'[m] = fate[m]
                        \/ /\ fate[m] \notin {"queued", "batched"}
                           /\ fate'[m] \notin {"queued", "batched"}
    BY <1>6 DEF Settle
  <2>2. \A s \in States : consumer[s] \in {"looking", "preparing"} =>
                          consumer'[s] = consumer[s]
    BY <1>0, <1>6
  <2> QED
    BY <1>6, <2>1, <2>2, StillKeepsPlaces
<1>7. ASSUME NEW m \in Msgs, NEW s, Hold(m, s)
      PROVE  \E ms, f : /\ f \notin {"queued", "batched"} /\ Settle(ms, f)
                        /\ \A n \in ms \cap Msgs : fate[n] \notin {"queued", "batched"}
  BY <1>7 DEF Hold
<1>8. ASSUME NEW m \in Msgs, NEW k \in Keys,
             EnqueueFound(m, k) \/ \E s \in States : EnqueueCreates(m, k, s)
      PROVE  PlaceInv'
  <2>1. CASE EnqueueFound(m, k)
    BY <1>6, <1>7, <2>1 DEF EnqueueFound, Hold
  <2>2. ASSUME NEW s \in States, EnqueueCreates(m, k, s)
        PROVE  PlaceInv'
    BY <1>6, <1>7, <2>2 DEF EnqueueCreates, Hold
  <2> QED
    BY <1>8, <2>1, <2>2
<1>9. ASSUME NEW m \in Msgs, PutTimesOut(m)
      PROVE  PlaceInv'
  <2>1. \E ms, f : /\ f \notin {"queued", "batched"} /\ Settle(ms, f)
                   /\ \A n \in ms \cap Msgs : fate[n] \notin {"queued", "batched"}
    BY <1>9 DEF PutTimesOut
  <2> QED
    BY <1>6, <1>9, <2>1 DEF PutTimesOut, queueVars
<1>10. CASE StopEnqueues
  <2>1. \E ms, f : /\ f \notin {"queued", "batched"} /\ Settle(ms, f)
                   /\ \A n \in ms \cap Msgs : fate[n] \notin {"queued", "batched"}
    <3>1. \A n \in {m \in Msgs : fate[m] = "holding"} \cap Msgs :
            fate[n] \notin {"queued", "batched"}
      OBVIOUS
    <3> QED
      BY <1>10, <3>1 DEF StopEnqueues
  <2> QED
    BY <1>6, <1>10, <2>1 DEF StopEnqueues, queueVars
<1>11. ASSUME NEW s \in States,
              \/ Begin(s) \/ ReadEnd(s) \/ CancelledUnstarted(s)
              \/ CancelledReader(s) \/ Age(s)
       PROVE  PlaceInv'
  <2>1. UNCHANGED <<content, batch, fate>>
    BY <1>11 DEF Begin, ReadEnd, CancelledUnstarted, CancelledReader, Age, msgVars
  <2>2. UNCHANGED consumer \/
          \E t \in States : \E to : /\ consumer[t] \notin {"looking", "preparing"}
                                    /\ consumer' = [consumer EXCEPT ![t] = to]
    BY <1>11 DEF Begin, ReadEnd, ConsumerStep, CancelledUnstarted, CancelledReader, Age
  <2> QED
    BY <1>6, <2>1, <2>2
<1>12. CASE UNCHANGED <<content, batch, consumer, fate>>
  BY <1>6, <1>12
<1>13. \/ UNCHANGED <<content, batch, consumer, fate>>
       \/ \E k \in Keys : ClearQueue(k)
       \/ StopEnqueues
       \/ \E m \in Msgs, k \in Keys :
             EnqueueFound(m, k) \/ \E s \in States : EnqueueCreates(m, k, s)
       \/ \E m \in Msgs : Put(m) \/ PutTimesOut(m)
       \/ \E s \in States : Take(s) \/ Drain(s)
       \/ \E s \in States : \/ StartRun(s) \/ IgnoreBatch(s) \/ ScreenBatch(s)
                            \/ FailBatch(s) \/ CancelledConsumer(s)
       \/ \E s \in States : \/ Begin(s) \/ ReadEnd(s) \/ CancelledUnstarted(s)
                            \/ CancelledReader(s) \/ Age(s)
  BY Steps, CleanerSweeps
     DEF ConsoleStarts, RunEnds, RunAborts, StopCleanup, StopConsumers,
     StopDone, queueVars,
         msgVars, vars
<1> QED
  BY <1>1, <1>2, <1>3, <1>4, <1>5, <1>8, <1>9, <1>10, <1>11, <1>12, <1>13

\* PlaceInv always holds.
LEMMA PlaceCorrect == Spec => []PlaceInv
<1>1. Init => PlaceInv
  BY Short DEF Init, PlaceInv, ContentOf, BatchOf, PlaceOf
<1> QED
  BY <1>1, PlaceStep, TypeCorrect, KeyCorrect, PTL DEF Spec

\* A message waits in one queue once, or is in one batch once, as its fate
\* says: no interleaving of draining, clearing, cancelling and overtaking puts
\* loses track of one or hands it over twice.
THEOREM MessagesStayInOnePlace == Spec => []OnePlace
BY PlaceGivesOnePlace, PlaceCorrect, TypeCorrect, PTL

\* A message is dropped only behind a run from the console, or one of a
\* consumer that left its key.
LEMMA IgnoredStep ==
    ASSUME TypeOK, KeyInv, SerialUnlessSwept, RunInv, PlaceInv, [Next]_vars,
           NEW m \in Msgs, fate[m] # "ignored", fate'[m] = "ignored"
    PROVE  run[key[target[m]]] = Console \/ SweptKey(key[target[m]])
<1>0. /\ fate \in [Msgs -> Fate] /\ run \in [Keys -> States \cup {NoState, Console}]
      /\ consumer \in [States -> ConsumerState]
  BY DEF TypeOK, ConsumerTypes, MessageTypes
<1>1. \/ UNCHANGED fate \/ \E s \in States : IgnoreBatch(s)
      \/ \E ms, f : f # "ignored" /\ Settle(ms, f)
  BY Steps, CleanerSweeps
     DEF EnqueueFound, EnqueueCreates, Hold, Put, PutTimesOut, Begin, Take,
         Drain, StartRun, ScreenBatch, FailBatch, HandOver, ReadEnd,
         CancelledUnstarted, CancelledConsumer, CancelledReader, Age,
         ClearQueue, ConsoleStarts, RunEnds, RunAborts, StopEnqueues,
         StopCleanup, StopConsumers, StopDone, msgVars, vars
<1>2. PICK s \in States : IgnoreBatch(s)
  BY <1>0, <1>1 DEF Settle
<1>3. m \in ToSet(batch[s])
  BY <1>0, <1>2 DEF IgnoreBatch, HandOver, Settle
<1>4. target[m] = s /\ consumer[s] = "preparing"
  BY <1>2, <1>3 DEF PlaceInv, BatchOf, IgnoreBatch, HandOver, ConsumerStep
<1>5. key[s] \in Keys /\ run[key[s]] # NoState
  BY <1>2, <1>4 DEF KeyInv, IgnoreBatch
<1>6. CASE run[key[s]] = Console
  BY <1>4, <1>6
<1>7. CASE run[key[s]] \in States
  <2>1. /\ key[run[key[s]]] = key[s]
        /\ consumer[run[key[s]]] = "reading" \/ SweptKey(key[s])
    BY <1>5, <1>7 DEF RunInv
  <2>2. SweptKey(key[s])
    BY <1>4, <1>7, <2>1 DEF SerialUnlessSwept, Alive, SweptKey
  <2> QED
    BY <1>4, <2>2
<1> QED
  BY <1>0, <1>5, <1>6, <1>7

\* A message is dropped because its chat is busy only behind a run from the
\* console, or where the cleanup or the shutdown took a consumer of the key
\* away from its run: the queue alone never makes a chat busy for its own.
THEOREM DropsAreBehindOthers == Spec => IgnoredOnlyBehindOthers
<1>1. ASSUME TypeOK, KeyInv, SerialUnlessSwept, RunInv, PlaceInv, [Next]_vars,
             NEW m \in Msgs, fate[m] # "ignored", fate'[m] = "ignored"
      PROVE  \/ run[key[target[m]]] = Console
             \/ \E u \in swept : key[u] = key[target[m]]
  BY <1>1, IgnoredStep DEF SweptKey
<1>2. TypeOK /\ KeyInv /\ SerialUnlessSwept /\ RunInv /\ PlaceInv /\ [Next]_vars
      => [\A m \in Msgs : fate[m] # "ignored" /\ fate'[m] = "ignored" =>
            \/ run[key[target[m]]] = Console
            \/ \E u \in swept : key[u] = key[target[m]]]_vars
  BY <1>1
<1> QED
  BY <1>2, TypeCorrect, KeyCorrect, EnqueueKeepsSerial, RunCorrect,
     PlaceCorrect, PTL DEF Spec, IgnoredOnlyBehindOthers

\* The documented promise (unified_queue_manager.py:9) is kept by everything
\* but the cleanup and the shutdown: while neither has cancelled a consumer,
\* one batch of a key is in process at a time.
THEOREM StrictUntilSwept == Spec => [](swept = {} => StrictSerialization)
<1>1. SerialUnlessSwept => (swept = {} => StrictSerialization)
  BY DEF SerialUnlessSwept, StrictSerialization, Processing, Alive
<1> QED
  BY <1>1, EnqueueKeepsSerial, PTL

(***************************************************************************)
(* Who takes a message, and what loses one.                                *)
(***************************************************************************)

\* A consumer task ends only after the cleanup or the shutdown cancelled it:
\* exceptions, dropped batches and killed runs leave it in its loop.
EndedInv == \A s \in States : consumer[s] = "ended" => s \in swept

\* Every step keeps EndedInv.
LEMMA EndedStep ==
    ASSUME TypeOK, KeyInv, EndedInv, [Next]_vars
    PROVE  EndedInv'
<1> SUFFICES ASSUME NEW s \in States, consumer'[s] = "ended", s \notin swept
             PROVE  FALSE
  BY KeysStay DEF EndedInv
<1>0. consumer \in [States -> ConsumerState] /\ ~cancel[s] /\ consumer[s] # "ended"
  BY DEF TypeOK, ConsumerTypes, KeyInv, EndedInv
<1>1. \/ UNCHANGED consumer
      \/ \E t \in States : \E to : to # "ended" /\ consumer' = [consumer EXCEPT ![t] = to]
      \/ \E t \in States : cancel[t] /\ consumer' = [consumer EXCEPT ![t] = "ended"]
  BY Steps, CleanerSweeps, ZenonT(60)
     DEF EnqueueFound, EnqueueCreates, Put, PutTimesOut, Begin, Take, Drain,
         StartRun, IgnoreBatch, ScreenBatch, FailBatch, HandOver, ReadEnd,
         ConsumerStep, CancelledUnstarted, CancelledConsumer, CancelledReader,
         Age, ClearQueue, ConsoleStarts, RunEnds, RunAborts, StopEnqueues,
         StopCleanup,
         StopConsumers, StopDone, queueVars, vars
<1> QED
  BY <1>0, <1>1

\* A message that an enqueue call holds, that waits in a queue or that is in a
\* batch has a living consumer that no cancel is about to end, unless the
\* cleanup or the shutdown took that consumer: what is safe about QueuedIsTaken.
QueuedIsAttended ==
    \A m \in Msgs :
        fate[m] \in {"holding", "queued", "batched"} /\ target[m] \notin swept
            => Alive(target[m]) /\ ~cancel[target[m]]

\* No interleaving of enqueues, clears, failing batches and dying runs leaves a
\* message with a consumer that is gone or going.
THEOREM QueuedMessagesAreAttended == Spec => []QueuedIsAttended
<1>1. Init => EndedInv
  BY DEF Init, EndedInv
<1>2. KeyInv /\ EndedInv /\ PlaceInv => QueuedIsAttended
  BY DEF KeyInv, EndedInv, PlaceInv, PlaceOf, QueuedIsAttended, Alive
<1> QED
  BY <1>1, <1>2, EndedStep, TypeCorrect, KeyCorrect, PlaceCorrect, PTL DEF Spec

\* A message is lost only with a consumer that was cancelled, or in an enqueue
\* call that the shutdown cancelled.
LostInv ==
    \A m \in Msgs : fate[m] = "lost" => target[m] \in swept \/ phase # "running"

\* Every step keeps LostInv.
LEMMA LostStep ==
    ASSUME TypeOK, KeyInv, PlaceInv, LostInv, [Next]_vars
    PROVE  LostInv'
<1> SUFFICES ASSUME NEW m \in Msgs, fate'[m] = "lost", target'[m] \notin swept,
                    phase' = "running"
             PROVE  FALSE
  BY KeysStay DEF LostInv
<1>0. fate \in [Msgs -> Fate]
  BY DEF TypeOK, MessageTypes
<1>1. phase = "running" /\ ~StopEnqueues
  <2>1. UNCHANGED phase \/ StopEnqueues \/ StopCleanup \/ StopConsumers \/ StopDone
    BY Steps, CleanerSweeps, ZenonT(60)
       DEF EnqueueFound, EnqueueCreates, Hold, Put, PutTimesOut, Begin, Take,
           Drain, StartRun, IgnoreBatch, ScreenBatch, FailBatch, HandOver,
           ReadEnd, ConsumerStep, CancelledUnstarted, CancelledConsumer,
           CancelledReader, Age, ClearQueue, ConsoleStarts, RunEnds, RunAborts,
           managerVars, vars
  <2> QED
    BY <2>1 DEF StopEnqueues, StopCleanup, StopConsumers, StopDone
<1>2. CASE fate[m] = "lost"
  BY <1>1, <1>2, KeysStay DEF LostInv
<1>3. CASE fate[m] # "lost"
  <2>1. \/ UNCHANGED fate \/ \E s \in States : CancelledConsumer(s)
        \/ \E ms, f : f # "lost" /\ Settle(ms, f)
    BY <1>1, Steps, CleanerSweeps, ZenonT(60)
       DEF EnqueueFound, EnqueueCreates, Hold, Put, PutTimesOut, Begin, Take,
           Drain, StartRun, IgnoreBatch, ScreenBatch, FailBatch, HandOver,
           ReadEnd, CancelledUnstarted, CancelledReader, Age,
           ClearQueue, ConsoleStarts, RunEnds, RunAborts, StopCleanup,
           StopConsumers, StopDone,
           msgVars, vars
  <2>2. PICK s \in States : CancelledConsumer(s)
    BY <1>0, <1>3, <2>1 DEF Settle
  <2>3. m \in ToSet(batch[s])
    BY <1>0, <1>3, <2>2 DEF CancelledConsumer, Settle
  <2>4. target'[m] = s
    BY <2>2, <2>3 DEF PlaceInv, BatchOf, CancelledConsumer
  <2> QED
    BY <2>2, <2>4 DEF KeyInv, CancelledConsumer
<1> QED
  BY <1>2, <1>3

\* While the service runs, a message is lost only with a consumer that the
\* cleanup cancelled.
THEOREM LossFollowsSweeps == Spec => []LostInv
<1>1. Init => LostInv
  BY DEF Init, LostInv
<1> QED
  BY <1>1, LostStep, TypeCorrect, KeyCorrect, PlaceCorrect, PTL DEF Spec

(***************************************************************************)
(* The cleanup loop that waits for a reader.                               *)
(***************************************************************************)

\* The cleanup waits for a consumer that swallowed its cancellation and went
\* back to a queue that nobody finds any more.
Stuck ==
    /\ cleaner = "awaiting"
    /\ consumer[awaited] = "getting"
    /\ ~cancel[awaited]
    /\ content[awaited] = <<>>
    /\ \A m \in Msgs : ~(fate[m] = "holding" /\ target[m] = awaited)

\* Nothing but the cancellation that the shutdown passes on ends that wait.
LEMMA StuckStep ==
    ASSUME TypeOK, KeyInv, Stuck, [Next]_vars, ~StopCleanup
    PROVE  Stuck'
<1>0. /\ consumer \in [States -> ConsumerState] /\ fate \in [Msgs -> Fate]
      /\ target \in [Msgs -> States \cup {NoState}]
      /\ queues \in [Keys -> States \cup {NoState}] /\ cancel \in [States -> BOOLEAN]
      /\ content \in [States -> Seq(Msgs)]
  BY DEF TypeOK, QueueTypes, ConsumerTypes, MessageTypes
<1>1. /\ awaited \in States /\ cleaner = "awaiting" /\ consumer[awaited] = "getting"
      /\ ~cancel[awaited] /\ content[awaited] = <<>>
      /\ \A k \in Keys : queues[k] # awaited
      /\ \A m \in Msgs : ~(fate[m] = "holding" /\ target[m] = awaited)
  BY DEF Stuck, KeyInv, TypeOK, ManagerTypes
<1>2. ~CleanerScans /\ ~CleanerResumes /\ ~StopConsumers
  BY <1>1 DEF CleanerScans, CleanerResumes, StopConsumers, Alive
<1>3. UNCHANGED <<cleaner, awaited>>
  BY <1>2, Steps, ZenonT(60)
     DEF EnqueueFound, EnqueueCreates, Hold, Put, PutTimesOut, Begin, Take,
         Drain, StartRun, IgnoreBatch, ScreenBatch, FailBatch, HandOver,
         ReadEnd, ConsumerStep, CancelledUnstarted, CancelledConsumer,
         CancelledReader, Age, ClearQueue, ConsoleStarts, RunEnds, RunAborts,
         StopEnqueues,
         StopDone, managerVars, vars
<1>4. consumer'[awaited] = "getting"
  <2>1. ~Take(awaited)
    BY <1>1 DEF Take
  <2>2. \/ UNCHANGED consumer
        \/ \E s \in States : /\ consumer[s] # "getting" \/ cancel[s] \/ Take(s)
                             /\ \E to : consumer' = [consumer EXCEPT ![s] = to]
    BY <1>2, Steps, ZenonT(60)
       DEF EnqueueFound, EnqueueCreates, Put, PutTimesOut, Begin, Take, Drain,
           StartRun, IgnoreBatch, ScreenBatch, FailBatch, HandOver, ReadEnd,
           ConsumerStep, CancelledUnstarted, CancelledConsumer, CancelledReader,
           Age, ClearQueue, ConsoleStarts, RunEnds, RunAborts, StopEnqueues,
           StopCleanup,
           StopDone, queueVars, vars
  <2> QED
    BY <1>0, <1>1, <2>1, <2>2
<1>5. ~cancel'[awaited]
  <2>1. UNCHANGED cancel \/ \E s \in States : cancel' = [cancel EXCEPT ![s] = FALSE]
    BY <1>2, Steps, ZenonT(60)
       DEF EnqueueFound, EnqueueCreates, Hold, Put, PutTimesOut, Begin, Take,
           Drain, StartRun, IgnoreBatch, ScreenBatch, FailBatch, HandOver,
           ReadEnd, ConsumerStep, CancelledUnstarted, CancelledConsumer,
           CancelledReader, Age, ClearQueue, ConsoleStarts, RunEnds, RunAborts,
           StopEnqueues,
           StopDone, queueVars, vars
  <2> QED
    BY <1>0, <1>1, <2>1
<1>6. content'[awaited] = <<>>
  <2>1. ASSUME NEW m \in Msgs, Put(m)
        PROVE  content'[awaited] = <<>>
    BY <1>0, <1>1, <2>1 DEF Put
  <2>2. ASSUME NEW k \in Keys, ClearQueue(k)
        PROVE  content'[awaited] = <<>>
    BY <1>0, <1>1, <2>2 DEF ClearQueue
  <2>3. ASSUME NEW s \in States, Take(s)
        PROVE  content'[awaited] = <<>>
    BY <1>0, <1>1, <2>3 DEF Take
  <2>4. ASSUME NEW s \in States, Drain(s)
        PROVE  content'[awaited] = <<>>
    BY <1>0, <1>1, <2>4 DEF Drain
  <2>5. ASSUME NEW s \in States,
               \/ Begin(s) \/ StartRun(s) \/ IgnoreBatch(s) \/ ScreenBatch(s)
               \/ FailBatch(s) \/ ReadEnd(s) \/ CancelledUnstarted(s)
               \/ CancelledConsumer(s) \/ CancelledReader(s) \/ Age(s)
        PROVE  UNCHANGED content
    BY <2>5 DEF Begin, StartRun, IgnoreBatch, ScreenBatch, FailBatch, HandOver,
                ReadEnd, CancelledUnstarted, CancelledConsumer, CancelledReader, Age
  <2>6. ASSUME NEW m \in Msgs, PutTimesOut(m) \/ (\E k \in Keys : EnqueueFound(m, k))
                               \/ \E k \in Keys, s \in States : EnqueueCreates(m, k, s)
        PROVE  UNCHANGED content
    BY <2>6 DEF PutTimesOut, EnqueueFound, EnqueueCreates, Hold, queueVars
  <2>7. ASSUME \/ \E k \in Keys : ConsoleStarts(k) \/ RunEnds(k) \/ RunAborts(k)
               \/ StopEnqueues \/ StopDone \/ UNCHANGED vars
        PROVE  UNCHANGED content
    BY <2>7 DEF ConsoleStarts, RunEnds, RunAborts, StopEnqueues, StopDone,
    queueVars, vars
  <2>8. \/ UNCHANGED content
        \/ \E m \in Msgs : Put(m)
        \/ \E k \in Keys : ClearQueue(k)
        \/ \E s \in States : Take(s) \/ Drain(s)
    BY <1>2, <2>5, <2>6, <2>7, Steps, ZenonT(60)
  <2> QED
    BY <1>1, <2>1, <2>2, <2>3, <2>4, <2>8
<1>7. ASSUME NEW m \in Msgs
      PROVE  ~(fate'[m] = "holding" /\ target'[m] = awaited)
  <2>1. ASSUME NEW n \in Msgs, NEW s, s # awaited, Hold(n, s)
        PROVE  ~(fate'[m] = "holding" /\ target'[m] = awaited)
    BY <1>0, <1>1, <2>1 DEF Hold, Settle
  <2>2. ASSUME NEW n \in Msgs, NEW k \in Keys, EnqueueFound(n, k)
        PROVE  ~(fate'[m] = "holding" /\ target'[m] = awaited)
    BY <1>1, <2>1, <2>2 DEF EnqueueFound
  <2>3. ASSUME NEW n \in Msgs, NEW k \in Keys, NEW s \in States, EnqueueCreates(n, k, s)
        PROVE  ~(fate'[m] = "holding" /\ target'[m] = awaited)
    BY <1>1, <2>1, <2>3 DEF EnqueueCreates
  <2>4. \/ UNCHANGED fate /\ UNCHANGED target
        \/ (\E ms, f : f # "holding" /\ Settle(ms, f)) /\ UNCHANGED target
        \/ \E n \in Msgs, k \in Keys : EnqueueFound(n, k)
        \/ \E n \in Msgs, k \in Keys, s \in States : EnqueueCreates(n, k, s)
    BY <1>2, Steps, ZenonT(60)
       DEF Put, PutTimesOut, Begin, Take, Drain, StartRun, IgnoreBatch,
           ScreenBatch, FailBatch, HandOver, ReadEnd, ConsumerStep,
           CancelledUnstarted, CancelledConsumer, CancelledReader, Age,
           ClearQueue, ConsoleStarts, RunEnds, RunAborts, StopEnqueues,
           StopDone, msgVars, vars
  <2>5. ASSUME NEW ms, NEW f, f # "holding", Settle(ms, f), UNCHANGED target
        PROVE  ~(fate'[m] = "holding" /\ target'[m] = awaited)
    BY <1>0, <1>1, <2>5 DEF Settle
  <2>6. CASE UNCHANGED fate /\ UNCHANGED target
    BY <1>1, <2>6
  <2> QED
    BY <2>2, <2>3, <2>4, <2>5, <2>6
<1> QED
  BY <1>1, <1>3, <1>4, <1>5, <1>6, <1>7 DEF Stuck

\* The counterexample of CleanupGoesOn is not bad luck of a schedule: once the
\* cleanup waits for a consumer that went back to its popped queue, no step of
\* anybody ends the wait but the one cancellation that the shutdown passes on,
\* and where the shutdown has passed it on already, nothing ends it at all.
THEOREM CleanupStaysStuck ==
    Spec => [][Stuck => Stuck' \/ (phase = "closing" /\ phase' = "joining")]_vars
<1>1. TypeOK /\ KeyInv /\ [Next]_vars =>
         (Stuck => Stuck' \/ (phase = "closing" /\ phase' = "joining"))
  BY StuckStep DEF StopCleanup
<1> QED
  BY <1>1, TypeCorrect, KeyCorrect, PTL DEF Spec
=============================================================================
