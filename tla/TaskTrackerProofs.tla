-------------------------- MODULE TaskTrackerProofs --------------------------
(***************************************************************************)
(* Proofs about TaskTracker, for every set of keys, runs, queues, callers  *)
(* and events, and every bound.                                            *)
(***************************************************************************)
EXTENDS TaskTracker, TLAPS

(***************************************************************************)
(* Types.                                                                  *)
(***************************************************************************)

\* Broadcasting an item keeps the queues' contents sequences of items.
LEMMA BroadcastType ==
    ASSUME put \in [Queues -> Seq(Item)], NEW r, NEW item \in Item, Broadcast(r, item)
    PROVE  put' \in [Queues -> Seq(Item)]
BY DEF Broadcast

\* Types are kept by every step of a producer.
LEMMA ProducerType ==
    ASSUME TypeOK, NEW r \in Runs, Producer(r)
    PROVE  TypeOK'
<1> USE DEF TypeOK, TaskState, Live, Payload, Item
<1>1. CASE ProducerStarts(r)
  BY <1>1 DEF ProducerStarts, Step, queueVars
<1>2. CASE \E e \in Events : Yield(r, e)
  <2> PICK e \in Events : Yield(r, e)
    BY <1>2
  <2>1. put' \in [Queues -> Seq(Item)]
    BY BroadcastType DEF Yield
  <2>2. buffer' \in [Runs -> Seq(Payload)]
    BY DEF Yield
  <2> QED
    BY <2>1, <2>2 DEF Yield, Step
<1>3. CASE StreamEnds(r)
  BY <1>3 DEF StreamEnds, Step, queueVars
<1>4. CASE StreamFails(r)
  <2>1. put' \in [Queues -> Seq(Item)]
    BY <1>4, BroadcastType DEF StreamFails
  <2>2. buffer' \in [Runs -> Seq(Payload)]
    BY <1>4 DEF StreamFails
  <2> QED
    BY <1>4, <2>1, <2>2 DEF StreamFails, Step
<1>5. CASE Finish(r)
  <2>1. put' \in [Queues -> Seq(Item)]
    BY <1>5, BroadcastType DEF Finish
  <2> QED
    BY <1>5, <2>1 DEF Finish, Step
<1>6. CASE \/ CancelledUnstarted(r) \/ CancelledInStream(r)
           \/ CancelSwallowed(r) \/ CancelledInCallback(r)
  BY <1>6 DEF CancelledUnstarted, CancelledInStream, CancelSwallowed,
              CancelledInCallback, Cancelled, queueVars
<1> QED
  BY <1>1, <1>2, <1>3, <1>4, <1>5, <1>6 DEF Producer

\* Detaching keeps the type of the runs' queue sets.
LEMMA DetachType ==
    ASSUME TypeOK, NEW q \in Queues, Detach(q)
    PROVE  queues' \in [Runs -> SUBSET Queues]
BY DEF TypeOK, Detach

\* Types are kept by every step of a reader.
LEMMA ReaderType ==
    ASSUME TypeOK, NEW q \in Queues, Reader(q)
    PROVE  TypeOK'
<1>1. CASE TakeItem(q)
  BY <1>1 DEF TypeOK, TakeItem, runVars
<1>2. CASE TakeSentinel(q)
  BY <1>2, DetachType DEF TypeOK, TakeSentinel, runVars, ReaderState
<1>3. CASE Disconnect(q)
  BY <1>3, DetachType DEF TypeOK, Disconnect, runVars, ReaderState
<1> QED
  BY <1>1, <1>2, <1>3 DEF Reader

\* Types are kept by every step of a caller.
LEMMA CallerType ==
    ASSUME TypeOK, Caller
    PROVE  TypeOK'
<1> USE DEF TypeOK
<1>1. ASSUME NEW k \in Keys, NEW q \in Queues, NEW r \in Runs, StartRun(k, r, q)
      PROVE  TypeOK'
  BY <1>1 DEF StartRun, Subscribe, TaskState, Live, ReaderState, Item
<1>2. ASSUME NEW k \in Keys, NEW q \in Queues, JoinRun(k, q)
      PROVE  TypeOK'
  <2>1. registry[k] \in Runs
    BY <1>2 DEF JoinRun, Active
  <2>2. buffer[registry[k]] \in Seq(Item)
    BY <2>1 DEF Item
  <2> QED
    BY <1>2, <2>1, <2>2 DEF JoinRun, Subscribe, ReaderState
<1>3. ASSUME NEW k \in Keys, NEW q \in Queues, Attach(k, q)
      PROVE  TypeOK'
  <2>1. registry[k] \in Runs
    BY <1>3 DEF Attach, Active
  <2>2. Append(buffer[registry[k]], ReplayEnd) \in Seq(Item)
    BY <2>1 DEF Item
  <2>3. Len(buffer[registry[k]]) + 1 \in Nat
    BY <2>1
  <2> QED
    BY <1>3, <2>1, <2>2, <2>3 DEF Attach, Subscribe, ReaderState
<1>4. ASSUME NEW p \in Stoppers, NEW k \in Keys, RequestStop(p, k)
      PROVE  TypeOK'
  BY <1>4 DEF RequestStop, Active, queueVars
<1>5. ASSUME NEW p \in Stoppers, StopperCancelled(p) \/ StopReturns(p)
      PROVE  TypeOK'
  BY <1>5 DEF StopperCancelled, StopReturns, Active, runVars, queueVars
<1> QED
  BY <1>1, <1>2, <1>3, <1>4, <1>5 DEF Caller

\* Types are kept by every step.
LEMMA TypeStep == TypeOK /\ [Next]_vars => TypeOK'
<1>1. ASSUME TypeOK, UNCHANGED vars
      PROVE  TypeOK'
  BY <1>1 DEF TypeOK, vars
<1> QED
  BY <1>1, ProducerType, ReaderType, CallerType DEF Next

\* Every variable keeps its type in every behaviour of the tracker.
THEOREM TypeCorrect == Spec => []TypeOK
<1>1. Init => TypeOK
  BY DEF Init, TypeOK, TaskState, ReaderState, Item, Payload
<1> QED
  BY <1>1, TypeStep, PTL DEF Spec

(***************************************************************************)
(* The registry.                                                           *)
(***************************************************************************)

\* LiveIsRegistered is not inductive alone: the pop of Finish must hit the
\* finishing run's own key, and a started run must not be registered twice.
RegistryInv ==
    /\ LiveIsRegistered
    /\ \A k \in Keys : registry[k] # NoRun =>
         /\ runKey[registry[k]] = k
         /\ task[registry[k]] # "unused"
    /\ \A r \in Runs : task[r] # "unused" => runKey[r] \in Keys

\* A step that leaves the registry, the keys and the tasks alone keeps the
\* registry's invariant.
LEMMA RegistryFrame ==
    ASSUME RegistryInv, UNCHANGED <<registry, task, runKey>>
    PROVE  RegistryInv'
BY DEF RegistryInv, LiveIsRegistered

\* A step of a task that keeps the registry, from a started state to another.
LEMMA RegistryTaskStep ==
    ASSUME TypeOK, RegistryInv, NEW r \in Runs, NEW from \in Live,
           NEW to \in Live \cup {"aborted"},
           task[r] = from, task' = [task EXCEPT ![r] = to],
           UNCHANGED <<registry, runKey>>
    PROVE  RegistryInv'
BY DEF TypeOK, RegistryInv, LiveIsRegistered, Live

\* The registry's invariant is kept by every step.
LEMMA RegistryStep == TypeOK /\ RegistryInv /\ [Next]_vars => RegistryInv'
<1> SUFFICES ASSUME TypeOK, RegistryInv, [Next]_vars
             PROVE  RegistryInv'
  OBVIOUS
<1>1. ASSUME NEW k \in Keys, NEW q \in Queues, NEW r \in Runs, StartRun(k, r, q)
      PROVE  RegistryInv'
  <2>1. /\ registry' = [registry EXCEPT ![k] = r]
        /\ task' = [task EXCEPT ![r] = "created"]
        /\ runKey' = [runKey EXCEPT ![r] = k]
        /\ task[r] = "unused"
        /\ ~Active(registry[k])
    BY <1>1 DEF StartRun
  <2>2. LiveIsRegistered'
    <3> SUFFICES ASSUME NEW s \in Runs, task'[s] \in Live
                 PROVE  registry'[runKey'[s]] = s
      BY DEF LiveIsRegistered
    <3>1. CASE s = r
      BY <2>1, <3>1 DEF TypeOK
    <3>2. CASE s # r
      <4>1. task[s] \in Live /\ runKey'[s] = runKey[s]
        BY <2>1, <3>2 DEF TypeOK
      <4>2. registry[runKey[s]] = s /\ runKey[s] \in Keys
        BY <4>1 DEF RegistryInv, LiveIsRegistered, Live
      <4>3. runKey[s] # k
        BY <2>1, <4>1, <4>2, NoneAssumption DEF Active
      <4> QED
        BY <2>1, <4>1, <4>2, <4>3 DEF TypeOK
    <3> QED
      BY <3>1, <3>2
  <2>3. (\A j \in Keys : registry[j] # NoRun =>
           /\ runKey[registry[j]] = j
           /\ task[registry[j]] # "unused")'
    BY <2>1 DEF RegistryInv, TypeOK
  <2>4. (\A s \in Runs : task[s] # "unused" => runKey[s] \in Keys)'
    BY <2>1 DEF RegistryInv, TypeOK
  <2> QED
    BY <2>2, <2>3, <2>4 DEF RegistryInv
<1>2. ASSUME NEW k \in Keys, NEW q \in Queues, JoinRun(k, q) \/ Attach(k, q)
      PROVE  RegistryInv'
  BY <1>2, RegistryFrame DEF JoinRun, Attach
<1>3. ASSUME NEW p \in Stoppers, NEW k \in Keys, RequestStop(p, k)
      PROVE  RegistryInv'
  BY <1>3, RegistryFrame DEF RequestStop
<1>4. ASSUME NEW p \in Stoppers, StopperCancelled(p) \/ StopReturns(p)
      PROVE  RegistryInv'
  BY <1>4, RegistryFrame DEF StopperCancelled, StopReturns, runVars
<1>5. ASSUME NEW r \in Runs, Producer(r)
      PROVE  RegistryInv'
  <2>1. CASE ProducerStarts(r)
    BY <2>1, RegistryTaskStep DEF ProducerStarts, Step, Live
  <2>2. CASE \E e \in Events : Yield(r, e)
    BY <2>2, RegistryTaskStep DEF Yield, Step, Live
  <2>3. CASE StreamEnds(r) \/ StreamFails(r)
    BY <2>3, RegistryTaskStep DEF StreamEnds, StreamFails, Step, Live
  <2>4. CASE Finish(r)
    <3>1. /\ task[r] = "finishing"
          /\ task' = [task EXCEPT ![r] = "finished"]
          /\ registry' = [registry EXCEPT ![runKey[r]] = NoRun]
          /\ runKey' = runKey
      BY <2>4 DEF Finish, Step
    <3>2. registry[runKey[r]] = r
      BY <3>1 DEF RegistryInv, LiveIsRegistered, Live
    <3>3. LiveIsRegistered'
      BY <3>1, <3>2 DEF TypeOK, RegistryInv, LiveIsRegistered, Live
    <3> QED
      BY <3>1, <3>2, <3>3 DEF TypeOK, RegistryInv
  <2>5. CASE \/ CancelledUnstarted(r) \/ CancelledInStream(r)
             \/ CancelSwallowed(r) \/ CancelledInCallback(r)
    BY <2>5, RegistryTaskStep DEF CancelledUnstarted, CancelledInStream,
         CancelSwallowed, CancelledInCallback, Cancelled, Live
  <2> QED
    BY <1>5, <2>1, <2>2, <2>3, <2>4, <2>5 DEF Producer
<1>6. ASSUME NEW q \in Queues, Reader(q)
      PROVE  RegistryInv'
  BY <1>6, RegistryFrame DEF Reader, TakeItem, TakeSentinel, Disconnect, runVars
<1>7. CASE UNCHANGED vars
  BY <1>7, RegistryFrame DEF vars
<1> QED
  BY <1>1, <1>2, <1>3, <1>4, <1>5, <1>6, <1>7 DEF Next, Caller

\* The registry's invariant holds at first: no run was started.
LEMMA RegistryInit == Init => RegistryInv
BY DEF Init, RegistryInv, LiveIsRegistered, Live

\* At most one run of a chat is live, and it is the one that status, attach
\* and stop find (the guard and the pop of attach_or_start).
THEOREM OneLiveRunPerKey == Spec => []LiveIsRegistered
<1>1. RegistryInv => LiveIsRegistered
  BY DEF RegistryInv
<1> QED
  BY <1>1, RegistryInit, RegistryStep, TypeCorrect, PTL DEF Spec

\* One step takes a live run out of the registry only if it finishes it.
LEMMA NeverDisplacedStep ==
    ASSUME TypeOK, RegistryInv, [Next]_vars
    PROVE  \A k \in Keys : Active(registry[k]) /\ registry'[k] # registry[k]
              => registry'[k] = NoRun /\ task'[registry[k]] = "finished"
<1> SUFFICES ASSUME NEW k \in Keys, Active(registry[k]), registry'[k] # registry[k]
             PROVE  registry'[k] = NoRun /\ task'[registry[k]] = "finished"
  OBVIOUS
<1>1. ASSUME NEW j \in Keys, NEW q \in Queues, NEW r \in Runs, StartRun(j, r, q)
      PROVE  FALSE
  BY <1>1 DEF StartRun, TypeOK
<1>2. ASSUME NEW r \in Runs, Finish(r)
      PROVE  registry'[k] = NoRun /\ task'[registry[k]] = "finished"
  <2>1. registry[runKey[r]] = r /\ runKey[r] \in Keys
    BY <1>2 DEF Finish, Step, RegistryInv, LiveIsRegistered, Live
  <2> QED
    BY <1>2, <2>1 DEF Finish, Step, TypeOK
<1>3. ASSUME registry' = registry
      PROVE  FALSE
  BY <1>3
<1>4. ASSUME NEW r \in Runs, Producer(r), ~Finish(r)
      PROVE  registry' = registry
  BY <1>4 DEF Producer, ProducerStarts, Yield, StreamEnds, StreamFails,
       CancelledUnstarted, CancelledInStream, CancelSwallowed,
       CancelledInCallback, Cancelled
<1>5. ASSUME NEW q \in Queues, Reader(q)
      PROVE  registry' = registry
  BY <1>5 DEF Reader, TakeItem, TakeSentinel, Disconnect, runVars
<1>6. ASSUME Caller, \A j \in Keys, q \in Queues, r \in Runs : ~StartRun(j, r, q)
      PROVE  registry' = registry
  BY <1>6 DEF Caller, JoinRun, Attach, RequestStop, StopperCancelled,
       StopReturns, runVars
<1>7. CASE UNCHANGED vars
  BY <1>7 DEF vars
<1> QED
  BY <1>1, <1>2, <1>3, <1>4, <1>5, <1>6, <1>7 DEF Next

\* A live run is taken out of the registry by its own finish only.
THEOREM LiveNeverDisplaced == Spec => NeverDisplaced
<1>1. TypeOK /\ RegistryInv /\ [Next]_vars
        => [\A k \in Keys : Active(registry[k]) /\ registry'[k] # registry[k]
              => registry'[k] = NoRun /\ task'[registry[k]] = "finished"]_vars
  BY NeverDisplacedStep
<1> QED
  BY <1>1, RegistryInit, RegistryStep, TypeCorrect, PTL DEF Spec, NeverDisplaced

\* What is left in the registry of a run that is over is a run whose task was
\* killed outside stream_fn.
LeftOver ==
    \A k \in Keys : registry[k] # NoRun => task[registry[k]] \in Live \cup {"aborted"}

\* A run that goes from a live state to another, or is killed, may stay.
LEMMA LeftOverTask ==
    ASSUME TypeOK, LeftOver, NEW r \in Runs, NEW to \in Live \cup {"aborted"},
           task' = [task EXCEPT ![r] = to], UNCHANGED registry
    PROVE  LeftOver'
BY DEF TypeOK, LeftOver

\* Every step keeps LeftOver: a finish pops the key of its run, the only one.
LEMMA LeftOverStep ==
    ASSUME TypeOK, RegistryInv, LeftOver, [Next]_vars
    PROVE  LeftOver'
<1>1. ASSUME NEW k \in Keys, NEW q \in Queues, NEW r \in Runs, StartRun(k, r, q)
      PROVE  LeftOver'
  BY <1>1 DEF StartRun, TypeOK, LeftOver, Live
<1>2. ASSUME NEW r \in Runs, Producer(r)
      PROVE  LeftOver'
  <2>1. CASE Finish(r)
    <3>1. /\ registry' = [registry EXCEPT ![runKey[r]] = NoRun]
          /\ task' = [task EXCEPT ![r] = "finished"]
      BY <2>1 DEF Finish, Step
    <3>2. \A k \in Keys : registry[k] = r => runKey[r] = k
      BY NoneAssumption DEF RegistryInv
    <3> QED
      BY <3>1, <3>2 DEF TypeOK, LeftOver
  <2>2. CASE ~Finish(r)
    <3>1. /\ UNCHANGED registry
          /\ \E to \in Live \cup {"aborted"} : task' = [task EXCEPT ![r] = to]
      BY <1>2, <2>2 DEF Producer, ProducerStarts, Yield, StreamEnds,
           StreamFails, CancelledUnstarted, CancelledInStream,
           CancelSwallowed, CancelledInCallback, Cancelled, Step, Live
    <3> QED
      BY <3>1, LeftOverTask
  <2> QED
    BY <2>1, <2>2
<1>3. CASE UNCHANGED <<registry, task>>
  BY <1>3 DEF LeftOver
<1>4. ASSUME NEW q \in Queues, Reader(q)
      PROVE  UNCHANGED <<registry, task>>
  BY <1>4 DEF Reader, TakeItem, TakeSentinel, Disconnect, runVars
<1>5. ASSUME Caller, \A k \in Keys, q \in Queues, r \in Runs : ~StartRun(k, r, q)
      PROVE  UNCHANGED <<registry, task>>
  BY <1>5 DEF Caller, JoinRun, Attach, RequestStop, StopperCancelled,
       StopReturns, runVars
<1> QED
  BY <1>1, <1>2, <1>3, <1>4, <1>5 DEF Next, vars

\* The registry is cleaned up when a task completes (task_tracker.py:5-6),
\* unless a run's task was killed before its first step or in on_finished:
\* nothing else leaves a run that is over behind.
THEOREM CleanupUnlessKilled ==
    Spec => []((\A r \in Runs : task[r] # "aborted") => CleanupWhenTaskCompletes)
<1>1. Init => LeftOver
  BY DEF Init, LeftOver
<1>2. TypeOK /\ RegistryInv /\ LeftOver /\ [Next]_vars => LeftOver'
  BY LeftOverStep
<1>3. TypeOK /\ LeftOver
        => ((\A r \in Runs : task[r] # "aborted") => CleanupWhenTaskCompletes)
  BY DEF TypeOK, LeftOver, CleanupWhenTaskCompletes
<1> QED
  BY <1>1, <1>2, <1>3, RegistryInit, RegistryStep, TypeCorrect, PTL DEF Spec

(***************************************************************************)
(* The streams.                                                            *)
(***************************************************************************)

\* What ties the queues to the runs: a run's queues are attached to it, and
\* only a started run has streams.
AttachInv ==
    /\ \A r \in Runs : task[r] = "unused" => buffer[r] = <<>>
    /\ \A r \in Runs : \A q \in queues[r] : reader[q] # "free" /\ source[q] = r
    /\ \A q \in Queues : reader[q] # "free" =>
         /\ source[q] \in Runs
         /\ task[source[q]] # "unused"
         /\ marker[q] <= Len(buffer[source[q]]) + 1

\* StreamIsPrefix and NothingMissed need one another (a broadcast extends the
\* complete queues only), and EndMeansComplete follows from the prefix.
StreamInv == AttachInv /\ StreamIsPrefix /\ NothingMissed /\ EndMeansComplete

\* The length of a stream is a number.
LEMMA LengthType ==
    ASSUME NEW buf \in Seq(Payload), NEW mark \in Nat, NEW state
    PROVE  LengthOf(buf, mark, state) \in Nat
<1>1. Len(buf) \in Nat
  OBVIOUS
<1>2. CASE mark = 0 /\ state = "finished"
  BY <1>1, <1>2 DEF LengthOf
<1>3. CASE mark # 0 /\ state = "finished"
  BY <1>1, <1>3 DEF LengthOf
<1>4. CASE mark = 0 /\ state # "finished"
  BY <1>1, <1>4 DEF LengthOf
<1>5. CASE mark # 0 /\ state # "finished"
  BY <1>1, <1>5 DEF LengthOf
<1> QED
  BY <1>2, <1>3, <1>4, <1>5

\* Appending an event to a buffer adds it at the end of the streams of the
\* unfinished run and leaves the rest of them as it was.
LEMMA StreamGrows ==
    ASSUME NEW buf \in Seq(Payload), NEW mark \in Nat, NEW e \in Payload,
           NEW from, NEW to, from # "finished", to # "finished",
           mark <= Len(buf) + 1
    PROVE  LET old == LengthOf(buf, mark, from)
               new == Append(buf, e) IN
           /\ LengthOf(new, mark, to) = old + 1
           /\ \A i \in 1 .. old : ItemOf(new, mark, i) = ItemOf(buf, mark, i)
           /\ ItemOf(new, mark, old + 1) = e
<1> DEFINE old == LengthOf(buf, mark, from)
           new == Append(buf, e)
<1>1. /\ Len(buf) \in Nat
      /\ Len(new) = Len(buf) + 1
      /\ \A j \in 1 .. Len(buf) : new[j] = buf[j]
      /\ new[Len(buf) + 1] = e
  OBVIOUS
<1> HIDE DEF new
<1>2. CASE mark = 0
  <2>1. old = Len(buf) /\ LengthOf(new, mark, to) = Len(new)
    <3>1. old = Len(buf) + 0 + 0 /\ LengthOf(new, mark, to) = Len(new) + 0 + 0
      BY <1>2 DEF LengthOf
    <3> QED
      BY <1>1, <3>1
  <2>2. \A i \in 1 .. Len(buf) : ItemOf(new, mark, i) = ItemOf(buf, mark, i)
    BY <1>1, <1>2 DEF ItemOf
  <2>3. ItemOf(new, mark, Len(buf) + 1) = e
    BY <1>1, <1>2 DEF ItemOf
  <2> QED
    BY <1>1, <2>1, <2>2, <2>3 DEF new
<1>3. CASE mark # 0
  <2>1. old = Len(buf) + 1 /\ LengthOf(new, mark, to) = Len(new) + 1
    <3>1. old = Len(buf) + 1 + 0 /\ LengthOf(new, mark, to) = Len(new) + 1 + 0
      BY <1>3 DEF LengthOf
    <3> QED
      BY <1>1, <3>1
  <2>2. ASSUME NEW i \in 1 .. Len(buf) + 1
        PROVE  ItemOf(new, mark, i) = ItemOf(buf, mark, i)
    <3>1. CASE i = mark
      BY <3>1 DEF ItemOf
    <3>2. CASE i < mark
      BY <1>1, <3>2 DEF ItemOf
    <3>3. CASE i > mark
      BY <1>1, <1>3, <3>3 DEF ItemOf
    <3> QED
      BY <3>1, <3>2, <3>3
  <2>3. ItemOf(new, mark, Len(buf) + 2) = e
    BY <1>1, <1>3 DEF ItemOf
  <2> QED
    BY <1>1, <2>1, <2>2, <2>3 DEF new
<1> QED
  BY <1>2, <1>3 DEF new

\* Finishing a run adds the sentinel at the end of its streams.
LEMMA StreamCloses ==
    ASSUME NEW buf \in Seq(Payload), NEW mark \in Nat, NEW from,
           from # "finished", mark <= Len(buf) + 1
    PROVE  LET old == LengthOf(buf, mark, from) IN
           /\ LengthOf(buf, mark, "finished") = old + 1
           /\ ItemOf(buf, mark, old + 1) = Sentinel
<1>1. Len(buf) \in Nat
  OBVIOUS
<1>2. CASE mark = 0
  <2>1. /\ LengthOf(buf, mark, from) = Len(buf) + 0 + 0
        /\ LengthOf(buf, mark, "finished") = Len(buf) + 0 + 1
    BY <1>2 DEF LengthOf
  <2>2. ItemOf(buf, mark, Len(buf) + 1) = Sentinel
    BY <1>1, <1>2 DEF ItemOf
  <2> QED
    BY <1>1, <2>1, <2>2
<1>3. CASE mark # 0
  <2>1. /\ LengthOf(buf, mark, from) = Len(buf) + 1 + 0
        /\ LengthOf(buf, mark, "finished") = Len(buf) + 1 + 1
    BY <1>3 DEF LengthOf
  <2>2. ItemOf(buf, mark, Len(buf) + 2) = Sentinel
    BY <1>1, <1>3 DEF ItemOf
  <2> QED
    BY <1>1, <2>1, <2>2
<1> QED
  BY <1>2, <1>3

\* The streams of run r grow by one item, at their end.
GrowsBy(r, item) ==
    \A mark \in Nat : mark <= Len(buffer[r]) + 1 =>
        LET old == LengthOf(buffer[r], mark, task[r]) IN
        /\ LengthOf(buffer'[r], mark, task'[r]) = old + 1
        /\ \A i \in 1 .. old :
             ItemOf(buffer'[r], mark, i) = ItemOf(buffer[r], mark, i)
        /\ ItemOf(buffer'[r], mark, old + 1) = item

\* A broadcast of the item that a run's streams grow by keeps every queue a
\* prefix of its stream, and every attached one complete.
LEMMA BroadcastKeepsStreams ==
    ASSUME TypeOK, AttachInv, StreamIsPrefix, NothingMissed,
           NEW r \in Runs, NEW item \in Item, Broadcast(r, item), GrowsBy(r, item),
           UNCHANGED <<queues, reader, source, marker>>,
           \A s \in Runs \ {r} : /\ buffer'[s] = buffer[s]
                                 /\ task'[s] = task[s]
    PROVE  StreamIsPrefix' /\ NothingMissed'
<1> DEFINE Good(q, s) ==
             /\ Len(put'[q]) <= LengthOf(buffer'[s], marker[q], task'[s])
             /\ \A i \in 1 .. Len(put'[q]) :
                  put'[q][i] = ItemOf(buffer'[s], marker[q], i)
           Full(q, s) ==
             Len(put'[q]) = LengthOf(buffer'[s], marker[q], task'[s])
<1>1. ASSUME NEW q \in Queues, NEW s \in Runs
      PROVE  /\ LengthOf(buffer[s], marker[q], task[s]) \in Nat
             /\ put[q] \in Seq(Item) /\ Len(put[q]) \in Nat
             /\ marker[q] \in Nat
  BY LengthType DEF TypeOK
<1>2. ASSUME NEW q \in Queues, q \in queues[r]
      PROVE  Good(q, r) /\ Full(q, r)
  <2> DEFINE old == LengthOf(buffer[r], marker[q], task[r])
  <2>1. /\ source[q] = r /\ reader[q] # "free"
        /\ marker[q] <= Len(buffer[r]) + 1
    BY <1>2 DEF AttachInv
  <2>2. /\ Len(put[q]) = old
        /\ \A i \in 1 .. old : put[q][i] = ItemOf(buffer[r], marker[q], i)
    BY <1>2, <2>1 DEF NothingMissed, StreamIsPrefix, StreamLength, StreamItem
  <2>3. put'[q] = Append(put[q], item)
    BY <1>2 DEF Broadcast
  <2>4. /\ Len(put'[q]) = old + 1
        /\ \A i \in 1 .. old : put'[q][i] = put[q][i]
        /\ put'[q][old + 1] = item
    BY <1>1, <2>2, <2>3
  <2>5. /\ LengthOf(buffer'[r], marker[q], task'[r]) = old + 1
        /\ \A i \in 1 .. old :
             ItemOf(buffer'[r], marker[q], i) = ItemOf(buffer[r], marker[q], i)
        /\ ItemOf(buffer'[r], marker[q], old + 1) = item
    BY <1>1, <2>1 DEF GrowsBy
  <2>6. old \in Nat
    BY <1>1
  <2> HIDE DEF old
  <2>7. ASSUME NEW i \in 1 .. old + 1
        PROVE  put'[q][i] = ItemOf(buffer'[r], marker[q], i)
    <3>1. CASE i = old + 1
      BY <2>4, <2>5, <3>1
    <3>2. CASE i # old + 1
      BY <2>2, <2>4, <2>5, <2>6, <3>2
    <3> QED
      BY <3>1, <3>2
  <2> QED
    BY <2>4, <2>5, <2>6, <2>7
<1>3. ASSUME NEW q \in Queues, q \notin queues[r], reader[q] # "free",
             source[q] = r
      PROVE  Good(q, r)
  <2> DEFINE old == LengthOf(buffer[r], marker[q], task[r])
  <2>1. /\ marker[q] <= Len(buffer[r]) + 1
        /\ Len(put[q]) <= old
        /\ \A i \in 1 .. Len(put[q]) : put[q][i] = ItemOf(buffer[r], marker[q], i)
        /\ put'[q] = put[q]
    BY <1>3 DEF AttachInv, StreamIsPrefix, Broadcast, StreamLength, StreamItem
  <2>2. /\ LengthOf(buffer'[r], marker[q], task'[r]) = old + 1
        /\ \A i \in 1 .. old :
             ItemOf(buffer'[r], marker[q], i) = ItemOf(buffer[r], marker[q], i)
    BY <1>1, <2>1 DEF GrowsBy
  <2>3. old \in Nat /\ Len(put[q]) \in Nat
    BY <1>1
  <2> HIDE DEF old
  <2> QED
    BY <2>1, <2>2, <2>3
<1>4. ASSUME NEW q \in Queues, reader[q] # "free", source[q] # r
      PROVE  /\ Good(q, source[q])
             /\ \A s \in Runs : q \in queues[s] => Full(q, s)
  <2>1. /\ source[q] \in Runs \ {r}
        /\ \A s \in Runs : q \in queues[s] => s = source[q]
    BY <1>4 DEF AttachInv
  <2>2. put'[q] = put[q]
    BY <2>1 DEF Broadcast
  <2>3. /\ Len(put[q]) <= LengthOf(buffer[source[q]], marker[q], task[source[q]])
        /\ \A i \in 1 .. Len(put[q]) :
             put[q][i] = ItemOf(buffer[source[q]], marker[q], i)
    BY <1>4 DEF StreamIsPrefix, StreamLength, StreamItem
  <2>4. \A s \in Runs : q \in queues[s] =>
          Len(put[q]) = LengthOf(buffer[s], marker[q], task[s])
    BY DEF NothingMissed, StreamLength
  <2>5. /\ buffer'[source[q]] = buffer[source[q]]
        /\ task'[source[q]] = task[source[q]]
    BY <2>1
  <2> QED
    BY <2>1, <2>2, <2>3, <2>4, <2>5
<1>5. StreamIsPrefix'
  <2> SUFFICES ASSUME NEW q \in Queues, reader[q] # "free"
               PROVE  Good(q, source[q])
    BY DEF StreamIsPrefix, StreamLength, StreamItem
  <2> QED
    BY <1>2, <1>3, <1>4
<1>6. NothingMissed'
  <2> SUFFICES ASSUME NEW s \in Runs, NEW q \in queues[s]
               PROVE  Full(q, s)
    BY DEF NothingMissed, StreamLength
  <2>1. q \in Queues /\ reader[q] # "free" /\ source[q] = s
    BY DEF AttachInv, TypeOK
  <2> QED
    BY <1>2, <1>4, <2>1
<1> QED
  BY <1>5, <1>6

\* Only the last item of a finished stream is the sentinel.
LEMMA SentinelIsLast ==
    ASSUME NEW buf \in Seq(Payload), NEW mark \in Nat, NEW state,
           mark <= Len(buf) + 1,
           NEW i \in 1 .. LengthOf(buf, mark, state),
           ItemOf(buf, mark, i) = Sentinel
    PROVE  state = "finished" /\ i = LengthOf(buf, mark, state)
<1>1. /\ Len(buf) \in Nat
      /\ \A j \in 1 .. Len(buf) : buf[j] # Sentinel
      /\ ReplayEnd # Sentinel
  BY MarkersAssumption DEF Payload
<1>2. LengthOf(buf, mark, state) \in Nat /\ i \in Nat /\ i > 0
  BY LengthType
<1>3. i # mark
  BY <1>1 DEF ItemOf
<1>4. CASE mark = 0
  <2>1. i > Len(buf)
    BY <1>1, <1>2, <1>3, <1>4 DEF ItemOf
  <2>2. CASE state = "finished"
    <3>1. LengthOf(buf, mark, state) = Len(buf) + 0 + 1
      BY <1>4, <2>2 DEF LengthOf
    <3> QED
      BY <1>1, <2>1, <2>2, <3>1
  <2>3. CASE state # "finished"
    <3>1. LengthOf(buf, mark, state) = Len(buf) + 0 + 0
      BY <1>4, <2>3 DEF LengthOf
    <3> QED
      BY <1>1, <2>1, <3>1
  <2> QED
    BY <2>2, <2>3
<1>5. CASE mark # 0
  <2>1. i > Len(buf) + 1
    <3>1. CASE i < mark
      BY <1>1, <1>2, <3>1 DEF ItemOf
    <3>2. CASE i > mark
      BY <1>1, <1>2, <1>5, <3>2 DEF ItemOf
    <3> QED
      BY <1>2, <1>3, <3>1, <3>2
  <2>2. CASE state = "finished"
    <3>1. LengthOf(buf, mark, state) = Len(buf) + 1 + 1
      BY <1>5, <2>2 DEF LengthOf
    <3> QED
      BY <1>1, <2>1, <2>2, <3>1
  <2>3. CASE state # "finished"
    <3>1. LengthOf(buf, mark, state) = Len(buf) + 1 + 0
      BY <1>5, <2>3 DEF LengthOf
    <3> QED
      BY <1>1, <2>1, <3>1
  <2> QED
    BY <2>2, <2>3
<1> QED
  BY <1>4, <1>5

\* What a reconnecting client's queue is filled with is its stream so far.
LEMMA ReplayIsStream ==
    ASSUME NEW buf \in Seq(Payload), NEW state, state # "finished"
    PROVE  LET replay == Append(buf, ReplayEnd)
               mark == Len(buf) + 1 IN
           /\ Len(replay) = LengthOf(buf, mark, state)
           /\ \A i \in 1 .. Len(replay) : replay[i] = ItemOf(buf, mark, i)
<1> DEFINE replay == Append(buf, ReplayEnd)
           mark == Len(buf) + 1
<1>1. /\ Len(buf) \in Nat
      /\ Len(replay) = Len(buf) + 1
      /\ \A j \in 1 .. Len(buf) : replay[j] = buf[j]
      /\ replay[Len(buf) + 1] = ReplayEnd
      /\ mark # 0
  OBVIOUS
<1>2. LengthOf(buf, mark, state) = Len(buf) + 1 + 0
  BY <1>1 DEF LengthOf
<1>3. ASSUME NEW i \in 1 .. Len(buf) + 1
      PROVE  replay[i] = ItemOf(buf, mark, i)
  <2>1. CASE i = mark
    BY <1>1, <2>1 DEF ItemOf
  <2>2. CASE i # mark
    BY <1>1, <2>2 DEF ItemOf
  <2> QED
    BY <2>1, <2>2
<1> QED
  BY <1>1, <1>2, <1>3

\* What the queue of a refused request is filled with is its stream so far.
LEMMA BufferIsStream ==
    ASSUME NEW buf \in Seq(Payload), NEW state, state # "finished"
    PROVE  /\ Len(buf) = LengthOf(buf, 0, state)
           /\ \A i \in 1 .. Len(buf) : buf[i] = ItemOf(buf, 0, i)
<1>1. LengthOf(buf, 0, state) = Len(buf) + 0 + 0
  BY DEF LengthOf
<1> QED
  BY <1>1 DEF ItemOf

\* Steps that give no queue anything, start or finish no run and at most
\* detach queues keep all that is said of the streams.
LEMMA StreamFrame ==
    ASSUME TypeOK, StreamInv, UNCHANGED <<buffer, put, source, marker>>,
           \A r \in Runs : /\ task'[r] = "finished" <=> task[r] = "finished"
                           /\ task'[r] = "unused" <=> task[r] = "unused"
                           /\ queues'[r] \subseteq queues[r],
           \A q \in Queues : reader'[q] = "free" <=> reader[q] = "free"
    PROVE  AttachInv' /\ StreamIsPrefix' /\ NothingMissed'
<1>1. \A r \in Runs : \A buf, mark :
        LengthOf(buf, mark, task'[r]) = LengthOf(buf, mark, task[r])
  BY DEF LengthOf
<1>2. AttachInv'
  BY DEF StreamInv, AttachInv, TypeOK
<1>3. StreamIsPrefix'
  <2> SUFFICES ASSUME NEW q \in Queues, reader[q] # "free"
               PROVE  /\ Len(put[q]) <= LengthOf(buffer[source[q]], marker[q],
                                                 task'[source[q]])
                      /\ \A i \in 1 .. Len(put[q]) :
                           put[q][i] = ItemOf(buffer[source[q]], marker[q], i)
    BY DEF StreamIsPrefix, StreamLength, StreamItem
  <2>1. source[q] \in Runs
    BY DEF StreamInv, AttachInv
  <2> QED
    BY <1>1, <2>1 DEF StreamInv, StreamIsPrefix, StreamLength, StreamItem
<1>4. NothingMissed'
  <2> SUFFICES ASSUME NEW r \in Runs, NEW q \in queues'[r]
               PROVE  Len(put[q]) = LengthOf(buffer[r], marker[q], task'[r])
    BY DEF NothingMissed, StreamLength
  <2>1. q \in queues[r]
    OBVIOUS
  <2> QED
    BY <1>1, <2>1 DEF StreamInv, NothingMissed, StreamLength
<1> QED
  BY <1>2, <1>3, <1>4

\* Nothing happens to the streams that ended.
LEMMA EndFrame ==
    ASSUME StreamInv, UNCHANGED <<source, marker>>,
           \A q \in Queues : reader'[q] = "ended" =>
              reader[q] = "ended" /\ got'[q] = got[q],
           \A r \in Runs : task[r] = "finished" =>
              task'[r] = "finished" /\ buffer'[r] = buffer[r]
    PROVE  EndMeansComplete'
<1> SUFFICES ASSUME NEW q \in Queues, reader'[q] = "ended"
             PROVE  /\ task'[source[q]] = "finished"
                    /\ got'[q] = LengthOf(buffer'[source[q]], marker[q],
                                          task'[source[q]])
  BY DEF EndMeansComplete, StreamLength
<1>1. /\ source[q] \in Runs
      /\ task[source[q]] = "finished"
      /\ got[q] = LengthOf(buffer[source[q]], marker[q], task[source[q]])
  BY DEF StreamInv, AttachInv, EndMeansComplete, StreamLength
<1> QED
  BY <1>1

\* A new queue that is filled with its stream so far keeps all that is said
\* of the streams.
LEMMA SubscribeKeepsStreams ==
    ASSUME TypeOK, StreamInv, NEW q \in Queues, NEW r \in Runs,
           NEW items \in Seq(Item), NEW mark \in Nat, NEW use \in {"reading", "unread"},
           Subscribe(q, r, items, mark, use),
           queues' = [queues EXCEPT ![r] = @ \cup {q}],
           buffer' = buffer,
           task'[r] \notin {"unused", "finished"},
           task'[r] = task[r] \/ task[r] = "unused",
           \A s \in Runs \ {r} : task'[s] = task[s],
           mark <= Len(buffer[r]) + 1,
           Len(items) = LengthOf(buffer[r], mark, task'[r]),
           \A i \in 1 .. Len(items) : items[i] = ItemOf(buffer[r], mark, i)
    PROVE  StreamInv'
<1>1. /\ reader[q] = "free" /\ reader'[q] = use /\ source'[q] = r
      /\ marker'[q] = mark /\ put'[q] = items
      /\ use # "free" /\ use # "ended"
      /\ got' = got
  BY DEF Subscribe, TypeOK
<1>2. \A p \in Queues \ {q} :
        /\ reader'[p] = reader[p] /\ source'[p] = source[p]
        /\ marker'[p] = marker[p] /\ put'[p] = put[p]
  BY DEF Subscribe, TypeOK
<1>3. ASSUME NEW p \in Queues, p # q, reader[p] # "free"
      PROVE  source[p] \in Runs /\ task'[source[p]] = task[source[p]]
  BY <1>3 DEF StreamInv, AttachInv
<1>4. ASSUME NEW s \in Runs, NEW p \in queues'[s]
      PROVE  /\ p \in Queues
             /\ \/ p = q /\ s = r
                \/ p # q /\ p \in queues[s] /\ reader[p] # "free" /\ source[p] = s
  <2>1. p \in queues[s] \/ (p = q /\ s = r)
    BY <1>4 DEF TypeOK
  <2>2. ASSUME p \in queues[s]
        PROVE  p \in Queues /\ reader[p] # "free" /\ source[p] = s
    BY <2>2 DEF StreamInv, AttachInv, TypeOK
  <2> QED
    BY <1>1, <2>1, <2>2
<1>5. AttachInv'
  <2>1. \A s \in Runs : task'[s] = "unused" => buffer'[s] = <<>>
    BY DEF StreamInv, AttachInv
  <2>2. ASSUME NEW s \in Runs, NEW p \in queues'[s]
        PROVE  reader'[p] # "free" /\ source'[p] = s
    <3>1. CASE p = q
      BY <1>1, <1>4, <3>1
    <3>2. CASE p # q
      BY <1>2, <1>4, <3>2
    <3> QED
      BY <3>1, <3>2
  <2>3. \A p \in Queues : reader'[p] # "free" =>
         /\ source'[p] \in Runs
         /\ task'[source'[p]] # "unused"
         /\ marker'[p] <= Len(buffer'[source'[p]]) + 1
    BY <1>1, <1>2, <1>3 DEF StreamInv, AttachInv
  <2> QED
    BY <2>1, <2>2, <2>3 DEF AttachInv
<1>6. StreamIsPrefix'
  <2> SUFFICES ASSUME NEW p \in Queues, reader'[p] # "free"
               PROVE  /\ Len(put'[p]) <= LengthOf(buffer'[source'[p]], marker'[p],
                                                  task'[source'[p]])
                      /\ \A i \in 1 .. Len(put'[p]) :
                           put'[p][i] = ItemOf(buffer'[source'[p]], marker'[p], i)
    BY DEF StreamIsPrefix, StreamLength, StreamItem
  <2>1. CASE p = q
    <3>1. Len(items) \in Nat
      OBVIOUS
    <3> QED
      BY <1>1, <2>1, <3>1
  <2>2. CASE p # q
    BY <1>2, <1>3, <2>2 DEF StreamInv, StreamIsPrefix, StreamLength, StreamItem
  <2> QED
    BY <2>1, <2>2
<1>7. NothingMissed'
  <2> SUFFICES ASSUME NEW s \in Runs, NEW p \in queues'[s]
               PROVE  Len(put'[p]) = LengthOf(buffer'[s], marker'[p], task'[s])
    BY DEF NothingMissed, StreamLength
  <2>1. CASE p = q
    BY <1>1, <1>4, <2>1
  <2>2. CASE p # q
    <3>1. p \in Queues /\ p \in queues[s] /\ reader[p] # "free" /\ source[p] = s
      BY <1>4, <2>2
    <3>2. /\ put'[p] = put[p] /\ marker'[p] = marker[p] /\ task'[s] = task[s]
      BY <1>2, <1>3, <2>2, <3>1
    <3> QED
      BY <3>1, <3>2 DEF StreamInv, NothingMissed, StreamLength
  <2> QED
    BY <2>1, <2>2
<1>8. EndMeansComplete'
  <2> SUFFICES ASSUME NEW p \in Queues, reader'[p] = "ended"
               PROVE  /\ task'[source'[p]] = "finished"
                      /\ got'[p] = LengthOf(buffer'[source'[p]], marker'[p],
                                            task'[source'[p]])
    BY DEF EndMeansComplete, StreamLength
  <2>1. p # q /\ reader[p] = "ended"
    BY <1>1, <1>2
  <2> QED
    BY <1>1, <1>2, <1>3, <2>1 DEF StreamInv, EndMeansComplete, StreamLength
<1> QED
  BY <1>5, <1>6, <1>7, <1>8 DEF StreamInv

\* An event, or the error event, keeps all that is said of the streams.
LEMMA EventKeepsStreams ==
    ASSUME TypeOK, StreamInv, NEW r \in Runs, NEW e \in Payload, NEW to \in Live,
           Step(r, "streaming", to),
           buffer' = [buffer EXCEPT ![r] = Append(@, e)],
           Broadcast(r, e),
           UNCHANGED <<queues, got, reader, source, marker>>
    PROVE  StreamInv'
<1>1. /\ task[r] = "streaming" /\ task'[r] = to
      /\ buffer[r] \in Seq(Payload) /\ buffer'[r] = Append(buffer[r], e)
      /\ e \in Item /\ to \notin {"unused", "finished"}
      /\ \A s \in Runs \ {r} : task'[s] = task[s] /\ buffer'[s] = buffer[s]
  BY DEF TypeOK, Step, Item, Live
<1>2. GrowsBy(r, e)
  BY <1>1, StreamGrows DEF GrowsBy
<1>3. StreamIsPrefix' /\ NothingMissed'
  BY <1>1, <1>2, BroadcastKeepsStreams DEF StreamInv
<1>4. AttachInv'
  <2>1. Len(buffer[r]) \in Nat /\ Len(buffer'[r]) = Len(buffer[r]) + 1
    BY <1>1
  <2>2. \A q \in Queues : marker[q] \in Nat
    BY DEF TypeOK
  <2>3. \A s \in Runs : task'[s] = "unused" => buffer'[s] = <<>>
    BY <1>1 DEF StreamInv, AttachInv
  <2>4. ASSUME NEW q \in Queues, reader[q] # "free"
        PROVE  /\ source[q] \in Runs /\ task'[source[q]] # "unused"
               /\ marker[q] <= Len(buffer'[source[q]]) + 1
    <3>1. /\ source[q] \in Runs /\ task[source[q]] # "unused"
          /\ marker[q] <= Len(buffer[source[q]]) + 1
      BY <2>4 DEF StreamInv, AttachInv
    <3>2. CASE source[q] = r
      BY <1>1, <2>1, <2>2, <3>1, <3>2
    <3>3. CASE source[q] # r
      BY <1>1, <3>1, <3>3
    <3> QED
      BY <3>2, <3>3
  <2> QED
    BY <2>3, <2>4 DEF StreamInv, AttachInv
<1>5. EndMeansComplete'
  BY <1>1, EndFrame
<1> QED
  BY <1>3, <1>4, <1>5 DEF StreamInv

\* The end of a run keeps all that is said of the streams.
LEMMA FinishKeepsStreams ==
    ASSUME TypeOK, StreamInv, NEW r \in Runs, Finish(r)
    PROVE  StreamInv'
<1>1. /\ task[r] = "finishing" /\ task'[r] = "finished"
      /\ buffer[r] \in Seq(Payload) /\ buffer' = buffer
      /\ \A s \in Runs \ {r} : task'[s] = task[s]
      /\ UNCHANGED <<queues, got, reader, source, marker>>
      /\ Broadcast(r, Sentinel)
      /\ Sentinel \in Item
  BY DEF TypeOK, Finish, Step, Item
<1>2. GrowsBy(r, Sentinel)
  <2> SUFFICES ASSUME NEW mark \in Nat, mark <= Len(buffer[r]) + 1
               PROVE  LET old == LengthOf(buffer[r], mark, task[r]) IN
                      /\ LengthOf(buffer[r], mark, "finished") = old + 1
                      /\ ItemOf(buffer[r], mark, old + 1) = Sentinel
    BY <1>1 DEF GrowsBy
  <2> QED
    BY <1>1, StreamCloses
<1>3. StreamIsPrefix' /\ NothingMissed'
  BY <1>1, <1>2, BroadcastKeepsStreams DEF StreamInv
<1>4. AttachInv'
  BY <1>1 DEF StreamInv, AttachInv
<1>5. EndMeansComplete'
  BY <1>1, EndFrame
<1> QED
  BY <1>3, <1>4, <1>5 DEF StreamInv

\* A reader's step keeps all that is said of the streams; the one that takes
\* the sentinel has taken the whole stream.
LEMMA ReaderKeepsStreams ==
    ASSUME TypeOK, StreamInv, NEW q \in Queues, Reader(q)
    PROVE  StreamInv'
<1>1. /\ UNCHANGED <<buffer, put, source, marker, task>>
      /\ \A r \in Runs : queues'[r] \subseteq queues[r]
  BY DEF TypeOK, Reader, TakeItem, TakeSentinel, Disconnect, Detach, runVars
<1>2. \A p \in Queues : reader'[p] = "free" <=> reader[p] = "free"
  BY DEF TypeOK, Reader, TakeItem, TakeSentinel, Disconnect, Available
<1>3. AttachInv' /\ StreamIsPrefix' /\ NothingMissed'
  BY <1>1, <1>2, StreamFrame
<1>4. CASE TakeItem(q) \/ Disconnect(q)
  <2>1. \A p \in Queues : reader'[p] = "ended" =>
          reader[p] = "ended" /\ got'[p] = got[p]
    BY <1>4 DEF TypeOK, TakeItem, Disconnect, Available
  <2> QED
    BY <1>1, <1>3, <2>1, EndFrame DEF StreamInv
<1>5. CASE TakeSentinel(q)
  <2> DEFINE s == source[q]
             i == got[q] + 1
  <2>1. /\ reader[q] = "reading" /\ i <= Len(put[q]) /\ put[q][i] = Sentinel
        /\ got'[q] = i
        /\ got[q] \in Nat /\ Len(put[q]) \in Nat
    BY <1>5 DEF TypeOK, TakeSentinel, Available
  <2>2. /\ s \in Runs /\ marker[q] <= Len(buffer[s]) + 1
        /\ Len(put[q]) <= LengthOf(buffer[s], marker[q], task[s])
        /\ ItemOf(buffer[s], marker[q], i) = Sentinel
    BY <2>1 DEF StreamInv, AttachInv, StreamIsPrefix, StreamLength, StreamItem
  <2>3. LengthOf(buffer[s], marker[q], task[s]) \in Nat
        /\ buffer[s] \in Seq(Payload) /\ marker[q] \in Nat
    BY <2>2, LengthType DEF TypeOK
  <2>4. task[s] = "finished" /\ i = LengthOf(buffer[s], marker[q], task[s])
    <3>1. i \in 1 .. LengthOf(buffer[s], marker[q], task[s])
      BY <2>1, <2>2, <2>3
    <3> QED
      BY <2>2, <2>3, <3>1, SentinelIsLast
  <2>5. \A p \in Queues \ {q} : reader'[p] = reader[p] /\ got'[p] = got[p]
    BY <1>5 DEF TypeOK, TakeSentinel
  <2>6. EndMeansComplete'
    BY <1>1, <2>1, <2>4, <2>5 DEF StreamInv, EndMeansComplete, StreamLength
  <2> QED
    BY <1>3, <2>6 DEF StreamInv
<1> QED
  BY <1>4, <1>5 DEF Reader

\* A new client keeps all that is said of the streams.
LEMMA CallerKeepsStreams ==
    ASSUME TypeOK, RegistryInv, StreamInv, NEW k \in Keys, NEW q \in Queues,
           JoinRun(k, q) \/ Attach(k, q) \/ \E r \in Runs : StartRun(k, r, q)
    PROVE  StreamInv'
<1>1. ASSUME NEW r \in Runs, StartRun(k, r, q)
      PROVE  StreamInv'
  <2>1. /\ task[r] = "unused" /\ task'[r] = "created" /\ buffer[r] = <<>>
        /\ \A s \in Runs \ {r} : task'[s] = task[s]
        /\ buffer' = buffer
        /\ Subscribe(q, r, <<>>, 0, "reading")
    BY <1>1 DEF StartRun, TypeOK, StreamInv, AttachInv
  <2>2. queues[r] = {}
    BY <2>1 DEF StreamInv, AttachInv, TypeOK
  <2>3. queues' = [queues EXCEPT ![r] = @ \cup {q}]
    BY <1>1, <2>2 DEF StartRun
  <2>4. /\ Len(<<>>) = LengthOf(<<>>, 0, "created")
        /\ \A i \in 1 .. Len(<<>>) : <<>>[i] = ItemOf(<<>>, 0, i)
    <3>1. <<>> \in Seq(Payload) /\ "created" # "finished"
      OBVIOUS
    <3> QED
      BY <3>1, BufferIsStream
  <2>5. /\ <<>> \in Seq(Item) /\ 0 \in Nat /\ 0 <= Len(<<>>) + 1
        /\ "reading" \in {"reading", "unread"}
    OBVIOUS
  <2>6. task'[r] \notin {"unused", "finished"}
    BY <2>1
  <2> QED
    BY <2>1, <2>3, <2>4, <2>5, <2>6, SubscribeKeepsStreams
<1>2. ASSUME Active(registry[k])
      PROVE  /\ registry[k] \in Runs
             /\ task[registry[k]] \notin {"unused", "finished"}
             /\ buffer[registry[k]] \in Seq(Payload)
             /\ buffer[registry[k]] \in Seq(Item)
             /\ Len(buffer[registry[k]]) \in Nat
  BY <1>2 DEF TypeOK, Active, Live, Item
<1>3. CASE JoinRun(k, q)
  <2> DEFINE r == registry[k]
             buf == buffer[r]
  <2>1. /\ Subscribe(q, r, buf, 0, "unread")
        /\ queues' = [queues EXCEPT ![r] = @ \cup {q}]
        /\ buffer' = buffer /\ task' = task /\ Active(r)
    BY <1>3 DEF JoinRun
  <2>2. /\ Len(buf) = LengthOf(buf, 0, task[r])
        /\ \A i \in 1 .. Len(buf) : buf[i] = ItemOf(buf, 0, i)
    BY <1>2, <2>1, BufferIsStream
  <2>3. 0 \in Nat /\ 0 <= Len(buf) + 1 /\ "unread" \in {"reading", "unread"}
    BY <1>2, <2>1
  <2> QED
    BY <1>2, <2>1, <2>2, <2>3, SubscribeKeepsStreams
<1>4. CASE Attach(k, q)
  <2> DEFINE r == registry[k]
             buf == buffer[r]
             items == Append(buf, ReplayEnd)
             mark == Len(buf) + 1
  <2>1. /\ Subscribe(q, r, items, mark, "reading")
        /\ queues' = [queues EXCEPT ![r] = @ \cup {q}]
        /\ buffer' = buffer /\ task' = task /\ Active(r)
    BY <1>4 DEF Attach
  <2>2. /\ Len(items) = LengthOf(buf, mark, task[r])
        /\ \A i \in 1 .. Len(items) : items[i] = ItemOf(buf, mark, i)
    BY <1>2, <2>1, ReplayIsStream
  <2>3. /\ mark \in Nat /\ mark <= Len(buf) + 1
        /\ items \in Seq(Item) /\ "reading" \in {"reading", "unread"}
    BY <1>2, <2>1 DEF Item
  <2>4. r \in Runs /\ task'[r] \notin {"unused", "finished"}
    BY <1>2, <2>1
  <2> HIDE DEF items, mark
  <2> QED
    BY <2>1, <2>2, <2>3, <2>4, SubscribeKeepsStreams
<1> QED
  BY <1>1, <1>3, <1>4

\* Every step of the tracker keeps all that is said of the streams.
LEMMA StreamStep ==
    TypeOK /\ RegistryInv /\ StreamInv /\ [Next]_vars => StreamInv'
<1> SUFFICES ASSUME TypeOK, RegistryInv, StreamInv, [Next]_vars
             PROVE  StreamInv'
  OBVIOUS
<1>1. ASSUME UNCHANGED <<buffer, queueVars>>,
             \A r \in Runs : /\ task'[r] = "finished" <=> task[r] = "finished"
                             /\ task'[r] = "unused" <=> task[r] = "unused"
      PROVE  StreamInv'
  <2>1. AttachInv' /\ StreamIsPrefix' /\ NothingMissed'
    BY <1>1, StreamFrame DEF queueVars
  <2>2. EndMeansComplete'
    BY <1>1, EndFrame DEF queueVars
  <2> QED
    BY <2>1, <2>2 DEF StreamInv
<1>2. ASSUME NEW k \in Keys, NEW q \in Queues,
             JoinRun(k, q) \/ Attach(k, q) \/ \E r \in Runs : StartRun(k, r, q)
      PROVE  StreamInv'
  BY <1>2, CallerKeepsStreams
<1>3. ASSUME NEW p \in Stoppers,
             \/ \E k \in Keys : RequestStop(p, k)
             \/ StopperCancelled(p)
             \/ StopReturns(p)
      PROVE  StreamInv'
  BY <1>1, <1>3 DEF RequestStop, StopperCancelled, StopReturns, runVars, queueVars
<1>4. ASSUME NEW r \in Runs, Producer(r)
      PROVE  StreamInv'
  <2>1. CASE ProducerStarts(r) \/ StreamEnds(r)
    BY <1>1, <2>1 DEF ProducerStarts, StreamEnds, Step, TypeOK
  <2>2. CASE \E e \in Events : Yield(r, e)
    BY <2>2, EventKeepsStreams DEF Yield, Payload, Live
  <2>3. CASE StreamFails(r)
    BY <2>3, EventKeepsStreams DEF StreamFails, Payload, Live
  <2>4. CASE Finish(r)
    BY <2>4, FinishKeepsStreams
  <2>5. CASE \/ CancelledUnstarted(r) \/ CancelledInStream(r)
             \/ CancelSwallowed(r) \/ CancelledInCallback(r)
    BY <1>1, <2>5 DEF CancelledUnstarted, CancelledInStream, CancelSwallowed,
         CancelledInCallback, Cancelled, TypeOK
  <2> QED
    BY <1>4, <2>1, <2>2, <2>3, <2>4, <2>5 DEF Producer
<1>5. ASSUME NEW q \in Queues, Reader(q)
      PROVE  StreamInv'
  BY <1>5, ReaderKeepsStreams
<1>6. CASE UNCHANGED vars
  BY <1>1, <1>6 DEF vars, queueVars
<1>7. ASSUME Caller
      PROVE  StreamInv'
  <2>1. CASE \E k \in Keys, q \in Queues :
               \/ \E r \in Runs : StartRun(k, r, q)
               \/ JoinRun(k, q)
               \/ Attach(k, q)
    BY <1>2, <2>1
  <2>2. CASE \E p \in Stoppers :
               \/ \E k \in Keys : RequestStop(p, k)
               \/ StopperCancelled(p)
               \/ StopReturns(p)
    BY <1>3, <2>2
  <2> QED
    BY <1>7, <2>1, <2>2 DEF Caller
<1> QED
  BY <1>4, <1>5, <1>6, <1>7 DEF Next

\* The streams' invariant holds in every behaviour of the tracker.
LEMMA StreamsCorrect == Spec => []StreamInv
<1>1. Init => StreamInv
  BY DEF Init, StreamInv, AttachInv, StreamIsPrefix, NothingMissed, EndMeansComplete
<1> QED
  BY <1>1, RegistryInit, RegistryStep, StreamStep, TypeCorrect, PTL DEF Spec

\* Replay and live events join without a repeat or a gap: what a client's
\* queue was given is a prefix of its run's own stream (attach takes the
\* snapshot of the buffer and registers the queue in one step).
THEOREM StreamsArePrefixes == Spec => []StreamIsPrefix
<1>1. StreamInv => StreamIsPrefix
  BY DEF StreamInv
<1> QED
  BY <1>1, StreamsCorrect, PTL

\* No queue that its run still knows lacks an item of the stream, however many
\* clients come and go while it runs.
THEOREM NothingIsMissed == Spec => []NothingMissed
<1>1. StreamInv => NothingMissed
  BY DEF StreamInv
<1> QED
  BY <1>1, StreamsCorrect, PTL

\* A client that took the sentinel took all its run ever produced, and the run
\* is finished.
THEOREM EndIsComplete == Spec => []EndMeansComplete
<1>1. StreamInv => EndMeansComplete
  BY DEF StreamInv
<1> QED
  BY <1>1, StreamsCorrect, PTL
=============================================================================
