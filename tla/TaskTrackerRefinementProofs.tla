--------------------- MODULE TaskTrackerRefinementProofs ---------------------
(***************************************************************************)
(* TaskTracker implements EventLog, for every set of keys, runs, queues,   *)
(* callers and events: what has been taken from a queue is a prefix of its *)
(* run's buffer, so each step maps to a step of the log or to a stutter.   *)
(* Before that, what clients of a finished run find in their queues: the   *)
(* end of the stream, or, if the run's task was killed, nothing for good.  *)
(***************************************************************************)
EXTENDS TaskTrackerRefinement, TaskTrackerProofs

(***************************************************************************)
(* What was taken from the queues.                                         *)
(***************************************************************************)

\* A queue nobody has is empty, nothing is taken that was not put, and only
\* the reader that was told the end has taken the sentinel.
ReadInv ==
    \A q \in Queues :
        /\ got[q] <= Len(put[q])
        /\ reader[q] = "free" => /\ source[q] = NoRun /\ put[q] = <<>>
                                 /\ marker[q] = 0
        /\ reader[q] # "ended" => \A i \in 1 .. got[q] : put[q][i] # Sentinel

\* A queue that only gets longer, and of which nothing is taken, is as before.
LEMMA ReadFrame ==
    ASSUME TypeOK, ReadInv, NEW q \in Queues, got'[q] = got[q],
           reader[q] # "free", reader'[q] \notin {"free", "ended"} \/ reader'[q] = reader[q],
           reader[q] = "ended" => reader'[q] = "ended",
           put'[q] = put[q] \/ \E item \in Item : put'[q] = Append(put[q], item)
    PROVE  /\ got'[q] <= Len(put'[q])
           /\ reader'[q] # "free"
           /\ reader'[q] # "ended" => \A i \in 1 .. got'[q] : put'[q][i] # Sentinel
<1>1. put[q] \in Seq(Item) /\ got[q] \in Nat /\ got[q] <= Len(put[q])
  BY DEF TypeOK, ReadInv
<1>2. CASE put'[q] = put[q]
  BY <1>1, <1>2 DEF ReadInv
<1>3. ASSUME NEW item \in Item, put'[q] = Append(put[q], item)
      PROVE  /\ got'[q] <= Len(put'[q])
             /\ \A i \in 1 .. got'[q] : put'[q][i] = put[q][i]
  BY <1>1, <1>3
<1> QED
  BY <1>1, <1>2, <1>3 DEF ReadInv

\* Steps of a run's task take nothing, and give nothing to a queue nobody has.
LEMMA ReadByProducer ==
    ASSUME TypeOK, AttachInv, ReadInv, NEW r \in Runs, Producer(r)
    PROVE  ReadInv'
<1>1. UNCHANGED <<got, reader, source, marker>>
  BY DEF Producer, ProducerStarts, Yield, StreamEnds, StreamFails, Finish,
         CancelledUnstarted, CancelledInStream, CancelSwallowed,
         CancelledInCallback, Cancelled, queueVars
<1>2. \/ UNCHANGED put
      \/ \E item \in Item : Broadcast(r, item)
  BY DEF Producer, ProducerStarts, Yield, StreamEnds, StreamFails, Finish,
         CancelledUnstarted, CancelledInStream, CancelSwallowed,
         CancelledInCallback, Cancelled, queueVars, Item, Payload
<1>3. ASSUME NEW q \in Queues
      PROVE  /\ put'[q] = put[q] \/ \E item \in Item : put'[q] = Append(put[q], item)
             /\ reader[q] = "free" => put'[q] = put[q]
  BY <1>2 DEF Broadcast, AttachInv
<1>4. ASSUME NEW q \in Queues
      PROVE  /\ got'[q] <= Len(put'[q])
             /\ reader'[q] = "free" => /\ source'[q] = NoRun /\ put'[q] = <<>>
                                       /\ marker'[q] = 0
             /\ reader'[q] # "ended" => \A i \in 1 .. got'[q] : put'[q][i] # Sentinel
  <2>1. CASE reader[q] = "free"
    BY <1>1, <1>3, <2>1 DEF ReadInv
  <2>2. CASE reader[q] # "free"
    <3>1. reader'[q] = reader[q] /\ got'[q] = got[q]
      BY <1>1
    <3> QED
      BY <1>3, <2>2, <3>1, ReadFrame
  <2> QED
    BY <2>1, <2>2
<1> QED
  BY <1>4 DEF ReadInv

\* Steps of a reader: only the sentinel's is the end.
LEMMA ReadByReader ==
    ASSUME TypeOK, ReadInv, NEW q \in Queues, Reader(q)
    PROVE  ReadInv'
<1>0. /\ put[q] \in Seq(Item) /\ got[q] \in Nat /\ got[q] <= Len(put[q])
      /\ got \in [Queues -> Nat] /\ reader \in [Queues -> ReaderState]
  BY DEF TypeOK, ReadInv
<1>1. UNCHANGED <<put, source, marker>>
  BY DEF Reader, TakeItem, TakeSentinel, Disconnect
<1>2. \A p \in Queues \ {q} : got'[p] = got[p] /\ reader'[p] = reader[p]
  BY <1>0 DEF Reader, TakeItem, TakeSentinel, Disconnect
<1>3. /\ got'[q] <= Len(put[q]) /\ reader'[q] # "free"
      /\ reader'[q] # "ended" => \A i \in 1 .. got'[q] : put[q][i] # Sentinel
  <2>1. CASE TakeItem(q)
    <3>1. /\ got'[q] = got[q] + 1 /\ reader'[q] = "reading" /\ reader[q] = "reading"
          /\ got[q] < Len(put[q]) /\ put[q][got[q] + 1] # Sentinel
      BY <1>0, <2>1 DEF TakeItem, Available
    <3>2. \A i \in 1 .. got[q] : put[q][i] # Sentinel
      BY <3>1 DEF ReadInv
    <3>3. \A i \in 1 .. got'[q] : i \in 1 .. got[q] \/ i = got[q] + 1
      BY <1>0, <3>1
    <3> QED
      BY <1>0, <3>1, <3>2, <3>3
  <2>2. CASE TakeSentinel(q)
    BY <1>0, <2>2 DEF TakeSentinel, Available
  <2>3. CASE Disconnect(q)
    BY <1>0, <2>3 DEF Disconnect, ReadInv
  <2> QED
    BY <2>1, <2>2, <2>3 DEF Reader
<1> QED
  BY <1>1, <1>2, <1>3 DEF ReadInv

\* Steps of a caller: a new queue is filled, and nothing is taken.
LEMMA ReadByCaller ==
    ASSUME TypeOK, ReadInv, Caller
    PROVE  ReadInv'
<1>1. CASE UNCHANGED <<got, put, reader, source, marker>>
  BY <1>1 DEF ReadInv
<1>2. ASSUME NEW q \in Queues, NEW r, NEW items \in Seq(Item), NEW mark,
             NEW use \in {"reading", "unread"}, Subscribe(q, r, items, mark, use)
      PROVE  ReadInv'
  <2>1. got[q] = 0 /\ Len(items) \in Nat
    BY <1>2 DEF TypeOK, Subscribe, ReadInv
  <2>2. /\ put'[q] = items /\ reader'[q] = use /\ UNCHANGED got
        /\ \A p \in Queues \ {q} : /\ put'[p] = put[p] /\ reader'[p] = reader[p]
                                   /\ source'[p] = source[p] /\ marker'[p] = marker[p]
    BY <1>2 DEF Subscribe, TypeOK
  <2>3. \A p \in Queues \ {q} :
            /\ got'[p] <= Len(put'[p])
            /\ reader'[p] = "free" => /\ source'[p] = NoRun /\ put'[p] = <<>>
                                      /\ marker'[p] = 0
            /\ reader'[p] # "ended" => \A i \in 1 .. got'[p] : put'[p][i] # Sentinel
    BY <2>2 DEF ReadInv
  <2>4. /\ got'[q] <= Len(put'[q]) /\ reader'[q] # "free"
        /\ \A i \in 1 .. got'[q] : put'[q][i] # Sentinel
    BY <2>1, <2>2
  <2> QED
    BY <2>3, <2>4 DEF ReadInv
<1>3. ASSUME NEW k \in Keys, NEW q \in Queues,
             JoinRun(k, q) \/ Attach(k, q) \/ \E r \in Runs : StartRun(k, r, q)
      PROVE  \E items \in Seq(Item), use \in {"reading", "unread"} : \E mark, r :
                 Subscribe(q, r, items, mark, use)
  <2>1. CASE \E r \in Runs : StartRun(k, r, q)
    <3>1. PICK r \in Runs : Subscribe(q, r, <<>>, 0, "reading")
      BY <2>1 DEF StartRun
    <3>2. <<>> \in Seq(Item)
      OBVIOUS
    <3> QED
      BY <3>1, <3>2
  <2>2. ASSUME Active(registry[k])
        PROVE  /\ buffer[registry[k]] \in Seq(Item)
               /\ Append(buffer[registry[k]], ReplayEnd) \in Seq(Item)
    BY <2>2 DEF TypeOK, Active, Item
  <2>3. CASE JoinRun(k, q)
    BY <2>2, <2>3 DEF JoinRun
  <2>4. CASE Attach(k, q)
    BY <2>2, <2>4 DEF Attach
  <2> QED
    BY <1>3, <2>1, <2>3, <2>4
<1> QED
  BY <1>1, <1>2, <1>3
     DEF Caller, RequestStop, StopperCancelled, StopReturns, queueVars

\* The readers' invariant holds in every behaviour of the tracker.
LEMMA ReadCorrect == Spec => []ReadInv
<1>1. Init => ReadInv
  BY DEF Init, ReadInv
<1>2. TypeOK /\ StreamInv /\ ReadInv /\ [Next]_vars => ReadInv'
  <2>1. CASE UNCHANGED vars
    BY <2>1 DEF vars, ReadInv
  <2> QED
    BY <2>1, ReadByProducer, ReadByReader, ReadByCaller DEF Next, StreamInv
<1> QED
  BY <1>1, <1>2, TypeCorrect, StreamsCorrect, PTL DEF Spec

(***************************************************************************)
(* What a connected client waits for.                                      *)
(***************************************************************************)

\* A client that reads is known to its run, until it is told the end.
KnownInRun == \A q \in Queues : reader[q] = "reading" => q \in queues[source[q]]

\* A run that was not started yet knows no queue.
LEMMA UnusedKnowsNone ==
    ASSUME TypeOK, AttachInv, NEW r \in Runs, task[r] = "unused"
    PROVE  queues[r] = {}
BY DEF TypeOK, AttachInv

\* A new subscriber is known to its run, and displaces nobody.
LEMMA SubscribeKeepsKnown ==
    ASSUME TypeOK, AttachInv, KnownInRun, NEW q \in Queues, NEW r \in Runs,
           NEW items, NEW mark, NEW use, Subscribe(q, r, items, mark, use),
           \/ queues' = [queues EXCEPT ![r] = @ \cup {q}]
           \/ queues' = [queues EXCEPT ![r] = {q}] /\ queues[r] = {}
    PROVE  KnownInRun'
<1>0. /\ queues \in [Runs -> SUBSET Queues] /\ reader \in [Queues -> ReaderState]
      /\ source \in [Queues -> Runs \cup {NoRun}]
  BY DEF TypeOK
<1>1. /\ source'[q] = r
      /\ \A p \in Queues \ {q} : source'[p] = source[p] /\ reader'[p] = reader[p]
  BY <1>0 DEF Subscribe
<1>2. q \in queues'[r] /\ \A s \in Runs : queues[s] \subseteq queues'[s]
  BY <1>0
<1>3. ASSUME NEW p \in Queues, p # q, reader[p] = "reading"
      PROVE  p \in queues'[source[p]]
  <2>1. source[p] \in Runs /\ p \in queues[source[p]]
    BY <1>3 DEF AttachInv, KnownInRun
  <2> QED
    BY <1>2, <2>1
<1> QED
  BY <1>1, <1>2, <1>3 DEF KnownInRun

\* Every step keeps KnownInRun: nobody takes another client's queue away.
LEMMA KnownInRunStep ==
    ASSUME TypeOK, AttachInv, KnownInRun, [Next]_vars
    PROVE  KnownInRun'
<1>0. /\ queues \in [Runs -> SUBSET Queues] /\ reader \in [Queues -> ReaderState]
      /\ source \in [Queues -> Runs \cup {NoRun}] /\ registry \in [Keys -> Runs \cup {NoRun}]
  BY DEF TypeOK
<1>1. ASSUME NEW k \in Keys, NEW q \in Queues, NEW r \in Runs, StartRun(k, r, q)
      PROVE  KnownInRun'
  <2>1. /\ Subscribe(q, r, <<>>, 0, "reading")
        /\ queues' = [queues EXCEPT ![r] = {q}] /\ task[r] = "unused"
    BY <1>1 DEF StartRun
  <2> QED
    BY <2>1, UnusedKnowsNone, SubscribeKeepsKnown
<1>2. ASSUME NEW k \in Keys, NEW q \in Queues, JoinRun(k, q)
      PROVE  KnownInRun'
  <2>1. /\ registry[k] \in Runs
        /\ Subscribe(q, registry[k], buffer[registry[k]], 0, "unread")
        /\ queues' = [queues EXCEPT ![registry[k]] = @ \cup {q}]
    BY <1>0, <1>2 DEF JoinRun, Active
  <2> QED
    BY <2>1, SubscribeKeepsKnown
<1>3. ASSUME NEW k \in Keys, NEW q \in Queues, Attach(k, q)
      PROVE  KnownInRun'
  <2>1. /\ registry[k] \in Runs
        /\ Subscribe(q, registry[k], Append(buffer[registry[k]], ReplayEnd),
                     Len(buffer[registry[k]]) + 1, "reading")
        /\ queues' = [queues EXCEPT ![registry[k]] = @ \cup {q}]
    BY <1>0, <1>3 DEF Attach, Active
  <2> QED
    BY <2>1, SubscribeKeepsKnown
<1>4. ASSUME NEW q \in Queues, Reader(q)
      PROVE  KnownInRun'
  <2>1. CASE TakeItem(q)
    BY <2>1 DEF TakeItem, KnownInRun
  <2>2. CASE TakeSentinel(q) \/ Disconnect(q)
    <3>1. UNCHANGED source /\ reader'[q] # "reading" /\ Detach(q)
          /\ \A p \in Queues \ {q} : reader'[p] = reader[p]
      BY <1>0, <2>2 DEF TakeSentinel, Disconnect
    <3>2. \A s \in Runs : \A p \in queues[s] : p = q \/ p \in queues'[s]
      BY <1>0, <3>1 DEF Detach
    <3>3. ASSUME NEW p \in Queues, reader'[p] = "reading"
          PROVE  p \in queues'[source'[p]]
      <4>1. p # q /\ reader[p] = "reading"
        BY <3>1, <3>3
      <4>2. source[p] \in Runs /\ p \in queues[source[p]]
        BY <4>1 DEF AttachInv, KnownInRun
      <4> QED
        BY <3>1, <3>2, <4>1, <4>2
    <3> QED
      BY <3>3 DEF KnownInRun
  <2> QED
    BY <1>4, <2>1, <2>2 DEF Reader
<1>5. CASE UNCHANGED <<queues, reader, source>>
  BY <1>5 DEF KnownInRun
<1>6. ASSUME NEW r \in Runs, Producer(r)
      PROVE  UNCHANGED <<queues, reader, source>>
  BY <1>6 DEF Producer, ProducerStarts, Yield, StreamEnds, StreamFails, Finish,
       CancelledUnstarted, CancelledInStream, CancelSwallowed,
       CancelledInCallback, Cancelled, queueVars
<1>7. ASSUME NEW p \in Stoppers,
             (\E k \in Keys : RequestStop(p, k)) \/ StopperCancelled(p) \/ StopReturns(p)
      PROVE  UNCHANGED <<queues, reader, source>>
  BY <1>7 DEF RequestStop, StopperCancelled, StopReturns, queueVars
<1> QED
  BY <1>1, <1>2, <1>3, <1>4, <1>5, <1>6, <1>7 DEF Next, Caller, vars

\* The end of a finished run is in the queue of every client that still reads,
\* and it did not take it yet.
EndIsThere ==
    \A q \in Queues :
        reader[q] = "reading" /\ task[source[q]] = "finished" => Available(q)

LEMMA EndIsLeft ==
    ASSUME TypeOK, StreamInv, ReadInv, KnownInRun
    PROVE  EndIsThere
<1> SUFFICES ASSUME NEW q \in Queues, reader[q] = "reading",
                    task[source[q]] = "finished"
             PROVE  Available(q)
  BY DEF EndIsThere
<1> DEFINE r == source[q]
           n == LengthOf(buffer[r], marker[q], task[r])
<1>1. /\ r \in Runs /\ buffer[r] \in Seq(Payload) /\ marker[q] \in Nat
      /\ marker[q] <= Len(buffer[r]) + 1 /\ got[q] \in Nat /\ got[q] <= Len(put[q])
      /\ Len(buffer[r]) \in Nat
  BY DEF TypeOK, StreamInv, AttachInv, ReadInv
<1>2. Len(put[q]) = n
  BY <1>1 DEF KnownInRun, StreamInv, NothingMissed, StreamLength
<1>3. n \in Nat /\ n >= 1 /\ ItemOf(buffer[r], marker[q], n) = Sentinel
  <2>1. CASE marker[q] = 0
    <3>1. n = Len(buffer[r]) + 0 + 1
      BY <2>1 DEF LengthOf
    <3> QED
      BY <1>1, <2>1, <3>1 DEF ItemOf
  <2>2. CASE marker[q] # 0
    <3>1. n = Len(buffer[r]) + 1 + 1
      BY <2>2 DEF LengthOf
    <3> QED
      BY <1>1, <2>2, <3>1 DEF ItemOf
  <2> QED
    BY <2>1, <2>2
<1> HIDE DEF n
<1>4. put[q][n] = ItemOf(buffer[r], marker[q], n)
  <2>1. n \in 1 .. Len(put[q])
    BY <1>2, <1>3
  <2> QED
    BY <2>1 DEF StreamInv, StreamIsPrefix, StreamItem
<1>5. got[q] # n
  <2>1. ASSUME got[q] = n
        PROVE  FALSE
    <3>1. n \in 1 .. got[q]
      BY <1>3, <2>1
    <3>2. \A i \in 1 .. got[q] : put[q][i] # Sentinel
      BY DEF ReadInv
    <3> QED
      BY <1>3, <1>4, <3>1, <3>2
  <2> QED
    BY <2>1
<1> QED
  BY <1>1, <1>2, <1>3, <1>5 DEF Available

\* A client that is connected to a finished run has the end left to read, so
\* only the client's own reading stands between it and the end of its stream:
\* the safety half of StreamEndsUnlessAborted.
THEOREM FinishedRunsTellTheEnd == Spec => []EndIsThere
<1>1. Init => KnownInRun
  BY DEF Init, KnownInRun
<1>2. TypeOK /\ StreamInv /\ KnownInRun /\ [Next]_vars => KnownInRun'
  BY KnownInRunStep DEF StreamInv
<1>3. TypeOK /\ StreamInv /\ ReadInv /\ KnownInRun => EndIsThere
  BY EndIsLeft
<1> QED
  BY <1>1, <1>2, <1>3, TypeCorrect, StreamsCorrect, ReadCorrect, PTL DEF Spec

\* A client that has read all its run gave it before the run's task was killed
\* (the sentinel is not among it).
Stranded(q) ==
    /\ reader[q] = "reading" /\ task[source[q]] = "aborted"
    /\ got[q] = Len(put[q])

\* No step gives a stranded client anything: its run is over, and no other run
\* knows its queue.
LEMMA StrandedStep ==
    ASSUME TypeOK, AttachInv, NEW q \in Queues, Stranded(q), [Next]_vars
    PROVE  Stranded(q)' \/ reader'[q] = "left"
<1>0. /\ source[q] \in Runs /\ put[q] \in Seq(Item) /\ got[q] \in Nat
      /\ task \in [Runs -> TaskState] /\ reader \in [Queues -> ReaderState]
      /\ put \in [Queues -> Seq(Item)] /\ got \in [Queues -> Nat]
      /\ source \in [Queues -> Runs \cup {NoRun}]
  BY DEF TypeOK, AttachInv, Stranded
<1>1. ASSUME UNCHANGED <<put, got, reader, source>>, task'[source[q]] = task[source[q]]
      PROVE  Stranded(q)'
  BY <1>1 DEF Stranded
<1>2. ASSUME NEW k \in Keys, NEW p \in Queues,
             JoinRun(k, p) \/ Attach(k, p) \/ \E r \in Runs : StartRun(k, r, p)
      PROVE  Stranded(q)'
  <2>1. \E r, items, mark, use : Subscribe(p, r, items, mark, use)
    BY <1>2 DEF JoinRun, Attach, StartRun
  <2>2. p # q
    BY <2>1 DEF Subscribe, Stranded
  <2>3. task'[source[q]] = "aborted"
    BY <1>0, <1>2 DEF JoinRun, Attach, StartRun, Stranded
  <2>4. /\ put'[q] = put[q] /\ got'[q] = got[q] /\ reader'[q] = reader[q]
        /\ source'[q] = source[q]
    BY <1>0, <2>1, <2>2 DEF Subscribe
  <2> QED
    BY <2>3, <2>4 DEF Stranded
<1>3. ASSUME NEW r \in Runs, Producer(r)
      PROVE  Stranded(q)'
  <2>1. /\ UNCHANGED <<got, reader, source>>
        /\ task[r] \in Live /\ \E to : task' = [task EXCEPT ![r] = to]
        /\ UNCHANGED put \/ \E item : Broadcast(r, item)
    BY <1>3 DEF Producer, ProducerStarts, Yield, StreamEnds, StreamFails,
         Finish, CancelledUnstarted, CancelledInStream, CancelSwallowed,
         CancelledInCallback, Cancelled, Step, queueVars, Live
  <2>2. source[q] # r
    BY <2>1 DEF Stranded, Live
  <2>3. task'[source[q]] = task[source[q]]
    BY <1>0, <2>1, <2>2
  <2>4. q \notin queues[r]
    BY <2>2 DEF AttachInv
  <2>5. put'[q] = put[q]
    BY <2>1, <2>4 DEF Broadcast
  <2> QED
    BY <2>1, <2>3, <2>5 DEF Stranded
<1>4. ASSUME NEW p \in Queues, Reader(p)
      PROVE  Stranded(q)' \/ reader'[q] = "left"
  <2>1. UNCHANGED <<put, source, task>>
    BY <1>4 DEF Reader, TakeItem, TakeSentinel, Disconnect, runVars
  <2>2. CASE p = q
    <3>1. ~Available(q)
      BY <1>0 DEF Available, Stranded
    <3>2. Disconnect(q)
      BY <1>4, <2>2, <3>1 DEF Reader, TakeItem, TakeSentinel
    <3> QED
      BY <1>0, <3>2 DEF Disconnect
  <2>3. CASE p # q
    <3>1. got'[q] = got[q] /\ reader'[q] = reader[q]
      BY <1>0, <1>4, <2>3 DEF Reader, TakeItem, TakeSentinel, Disconnect
    <3> QED
      BY <2>1, <3>1 DEF Stranded
  <2> QED
    BY <2>2, <2>3
<1>5. ASSUME NEW p \in Stoppers,
             (\E k \in Keys : RequestStop(p, k)) \/ StopperCancelled(p) \/ StopReturns(p)
      PROVE  Stranded(q)'
  BY <1>1, <1>5 DEF RequestStop, StopperCancelled, StopReturns, runVars, queueVars
<1>6. CASE UNCHANGED vars
  BY <1>1, <1>6 DEF vars
<1> QED
  BY <1>2, <1>3, <1>4, <1>5, <1>6 DEF Next, Caller

\* The clients of a run whose task was killed outside stream_fn wait for good:
\* no later event, restart or stop of the chat ends their stream, they can only
\* go away.  So the exception of StreamEndsUnlessAborted is no delay.
THEOREM StrandedForGood ==
    Spec => [][\A q \in Queues : Stranded(q) => Stranded(q)' \/ reader'[q] = "left"]_vars
<1>1. TypeOK /\ StreamInv /\ [Next]_vars
        => [\A q \in Queues : Stranded(q) => Stranded(q)' \/ reader'[q] = "left"]_vars
  BY StrandedStep DEF StreamInv
<1> QED
  BY <1>1, TypeCorrect, StreamsCorrect, PTL DEF Spec

(***************************************************************************)
(* The mapping.                                                            *)
(***************************************************************************)

\* Who has not taken the sentinel has taken at most the events and the marker.
LEMMA TakenBeforeEnd ==
    ASSUME NEW buf \in Seq(Payload), NEW m \in Nat, m <= Len(buf) + 1,
           NEW g \in Nat, NEW state, g <= LengthOf(buf, m, state),
           \A i \in 1 .. g : ItemOf(buf, m, i) # Sentinel
    PROVE  g <= Len(buf) + (IF m = 0 THEN 0 ELSE 1)
<1> DEFINE body == Len(buf) + (IF m = 0 THEN 0 ELSE 1)
<1>1. Len(buf) \in Nat /\ body \in Nat
  BY DEF Item
<1>2. ItemOf(buf, m, body + 1) = Sentinel
  BY <1>1 DEF ItemOf
<1>3. LengthOf(buf, m, state) <= body + 1
  BY <1>1 DEF LengthOf
<1>4. g # body + 1
  <2>1. body + 1 \in 1 .. body + 1
    BY <1>1
  <2> QED
    BY <1>2, <2>1
<1>5. LengthOf(buf, m, state) \in Nat
  BY LengthType
<1> HIDE DEF body
<1>6. g <= body
  BY <1>1, <1>3, <1>4, <1>5
<1> QED
  BY <1>6 DEF body

\* What a client has seen is a prefix of the buffer of its run, and all of it
\* when it was told the end.
LEMMA SeenIsPrefix ==
    ASSUME TypeOK, StreamInv, ReadInv, NEW q \in Queues
    PROVE  /\ EventsTaken(q) \in Nat
           /\ reader[q] = "free" => EventsTaken(q) = 0
           /\ reader[q] # "free" =>
                 /\ EventsTaken(q) <= Len(buffer[source[q]])
                 /\ \A i \in 1 .. EventsTaken(q) :
                       EventsSeen(q)[i] = buffer[source[q]][i]
           /\ reader[q] = "ended" => EventsTaken(q) = Len(buffer[source[q]])
<1> DEFINE buf == buffer[source[q]]
           m == marker[q]
           g == got[q]
<1>1. put[q] \in Seq(Item) /\ g \in Nat /\ g <= Len(put[q]) /\ m \in Nat
  BY DEF TypeOK, ReadInv
<1>2. CASE reader[q] = "free"
  <2>1. g = 0 /\ m = 0
    BY <1>1, <1>2 DEF ReadInv
  <2> QED
    BY <1>2, <2>1 DEF EventsTaken
<1>3. ASSUME reader[q] # "free"
      PROVE  /\ source[q] \in Runs /\ buf \in Seq(Payload) /\ Len(buf) \in Nat
             /\ m <= Len(buf) + 1
             /\ Len(put[q]) <= LengthOf(buf, m, task[source[q]])
             /\ \A i \in 1 .. Len(put[q]) : put[q][i] = ItemOf(buf, m, i)
  <2>1. source[q] \in Runs /\ buf \in Seq(Payload)
    BY <1>3 DEF StreamInv, AttachInv, TypeOK
  <2>2. Len(buf) \in Nat
    BY <2>1
  <2> QED
    BY <1>3, <2>1, <2>2 DEF StreamInv, AttachInv, StreamIsPrefix, StreamLength, StreamItem
<1>4. ASSUME reader[q] \notin {"free", "ended"}
      PROVE  EventsTaken(q) \in Nat /\ EventsTaken(q) <= Len(buf)
  <2>1. LengthOf(buf, m, task[source[q]]) \in Nat /\ Len(put[q]) \in Nat
    BY <1>1, <1>3, <1>4, LengthType
  <2>2. g <= LengthOf(buf, m, task[source[q]])
    BY <1>1, <1>3, <1>4, <2>1
  <2>3. \A i \in 1 .. g : ItemOf(buf, m, i) # Sentinel
    BY <1>1, <1>3, <1>4, <2>1 DEF ReadInv
  <2>4. g <= Len(buf) + (IF m = 0 THEN 0 ELSE 1)
    BY <1>1, <1>3, <1>4, <2>2, <2>3, TakenBeforeEnd
  <2> HIDE DEF buf
  <2> QED
    BY <1>1, <1>3, <1>4, <2>4 DEF EventsTaken
<1>5. ASSUME reader[q] = "ended"
      PROVE  EventsTaken(q) = Len(buf)
  <2>1. task[source[q]] = "finished" /\ g = LengthOf(buf, m, "finished")
    BY <1>5 DEF StreamInv, EndMeansComplete, StreamLength
  <2>2. g = Len(buf) + (IF m = 0 THEN 0 ELSE 1) + 1
    BY <2>1 DEF LengthOf
  <2> HIDE DEF buf
  <2> QED
    BY <1>1, <1>3, <1>5, <2>2 DEF EventsTaken
<1>6. ASSUME reader[q] # "free", NEW i \in 1 .. EventsTaken(q)
      PROVE  EventsSeen(q)[i] = buf[i]
  <2> DEFINE at == IF m = 0 \/ i < m THEN i ELSE i + 1
  <2>1. EventsTaken(q) \in Nat /\ EventsTaken(q) <= Len(buf) /\ i \in Nat
    BY <1>3, <1>4, <1>5, <1>6
  <2>2. EventsSeen(q)[i] = put[q][at]
    BY <1>6 DEF EventsSeen
  <2>3. at \in 1 .. g
    BY <1>1, <1>6, <2>1 DEF EventsTaken
  <2>4. at \in 1 .. Len(put[q])
    BY <1>1, <2>3
  <2>5. put[q][at] = ItemOf(buf, m, at)
    BY <1>3, <1>6, <2>4
  <2>6. ItemOf(buf, m, at) = buf[i]
    <3>1. i <= Len(buf) /\ Len(buf) \in Nat
      BY <1>3, <1>6, <2>1
    <3> HIDE DEF buf
    <3> QED
      BY <1>1, <2>1, <3>1 DEF ItemOf
  <2> QED
    BY <2>2, <2>5, <2>6
<1> QED
  BY <1>2, <1>3, <1>4, <1>5, <1>6

(***************************************************************************)
(* The steps.                                                              *)
(***************************************************************************)

\* All that the mapping needs.
LogInv == TypeOK /\ RegistryInv /\ StreamInv /\ ReadInv

\* Buffers only grow at the end, and a queue stays with its run.
LEMMA BufferAndSource ==
    ASSUME TypeOK, [Next]_vars
    PROVE  /\ \A r \in Runs :
                 \/ buffer'[r] = buffer[r]
                 \/ \E e \in Payload : buffer'[r] = Append(buffer[r], e)
           /\ \A q \in Queues : reader[q] # "free" =>
                 source'[q] = source[q] /\ reader'[q] # "free"
<1>0. /\ buffer \in [Runs -> Seq(Payload)] /\ reader \in [Queues -> ReaderState]
      /\ source \in [Queues -> Runs \cup {NoRun}]
  BY DEF TypeOK
<1>1. \A r \in Runs : \/ buffer'[r] = buffer[r]
                      \/ \E e \in Payload : buffer'[r] = Append(buffer[r], e)
  <2>1. ASSUME NEW r \in Runs, Producer(r)
        PROVE  \/ UNCHANGED buffer
               \/ \E e \in Payload : buffer' = [buffer EXCEPT ![r] = Append(@, e)]
    BY <2>1 DEF Producer, ProducerStarts, Yield, StreamEnds, StreamFails,
                Finish, CancelledUnstarted, CancelledInStream, CancelSwallowed,
                CancelledInCallback, Cancelled, Payload
  <2>2. ASSUME NEW r \in Runs, NEW e \in Payload,
               buffer' = [buffer EXCEPT ![r] = Append(@, e)]
        PROVE  \A s \in Runs : buffer'[s] = IF s = r THEN Append(buffer[s], e)
                                            ELSE buffer[s]
    BY <1>0, <2>2
  <2>3. CASE Caller \/ (\E q \in Queues : Reader(q)) \/ UNCHANGED vars
    BY <2>3 DEF Caller, StartRun, JoinRun, Attach, RequestStop,
                StopperCancelled, StopReturns, runVars, Reader, TakeItem,
                TakeSentinel, Disconnect, vars
  <2> QED
    BY <2>1, <2>2, <2>3 DEF Next
<1>2. ASSUME NEW q \in Queues, reader[q] # "free"
      PROVE  source'[q] = source[q] /\ reader'[q] # "free"
  <2>1. ASSUME NEW p \in Queues, NEW r, NEW items, NEW mark,
               NEW use \in {"reading", "unread"}, Subscribe(p, r, items, mark, use)
        PROVE  source'[q] = source[q] /\ reader'[q] # "free"
    BY <1>0, <1>2, <2>1 DEF Subscribe
  <2>2. CASE UNCHANGED <<reader, source>>
    BY <1>2, <2>2
  <2>3. ASSUME NEW p \in Queues, Reader(p)
        PROVE  source'[q] = source[q] /\ reader'[q] # "free"
    BY <1>0, <1>2, <2>3 DEF Reader, TakeItem, TakeSentinel, Disconnect
  <2>4. ASSUME NEW r \in Runs, Producer(r)
        PROVE  UNCHANGED <<reader, source>>
    BY <2>4 DEF Producer, ProducerStarts, Yield, StreamEnds, StreamFails,
                Finish, CancelledUnstarted, CancelledInStream, CancelSwallowed,
                CancelledInCallback, Cancelled, queueVars
  <2> QED
    BY <2>1, <2>2, <2>3, <2>4
       DEF Next, Caller, StartRun, JoinRun, Attach, RequestStop,
           StopperCancelled, StopReturns, queueVars, vars
<1> QED
  BY <1>1, <1>2

\* A client that has taken no further event has seen the same.
LEMMA SeenFrame ==
    ASSUME LogInv, LogInv', [Next]_vars, NEW q \in Queues,
           EventsTaken(q)' = EventsTaken(q)
    PROVE  EventsSeen(q)' = EventsSeen(q)
<1> DEFINE n == EventsTaken(q)
<1>1. n \in Nat
  BY SeenIsPrefix DEF LogInv
<1>2. \A i \in 1 .. n : EventsSeen(q)'[i] = EventsSeen(q)[i]
  <2>1. CASE reader[q] = "free"
    <3>1. n = 0
      BY <2>1, SeenIsPrefix DEF LogInv
    <3> QED
      BY <3>1
  <2>2. CASE reader[q] # "free"
    <3>1. source'[q] = source[q] /\ reader'[q] # "free"
      BY <2>2, BufferAndSource DEF LogInv
    <3>2. /\ n <= Len(buffer[source[q]])
          /\ \A i \in 1 .. n : EventsSeen(q)[i] = buffer[source[q]][i]
      BY <2>2, SeenIsPrefix DEF LogInv
    <3>3. \A i \in 1 .. n : EventsSeen(q)'[i] = buffer'[source[q]][i]
      <4>1. (reader[q] # "free" => \A i \in 1 .. EventsTaken(q) :
                EventsSeen(q)[i] = buffer[source[q]][i])'
        BY SeenIsPrefix, PTL DEF LogInv
      <4> QED
        BY <3>1, <4>1
    <3>4. source[q] \in Runs /\ buffer[source[q]] \in Seq(Payload)
      BY <2>2 DEF LogInv, StreamInv, AttachInv, TypeOK
    <3>5. \A i \in 1 .. n : buffer'[source[q]][i] = buffer[source[q]][i]
      <4> DEFINE r == source[q]
      <4>1. \/ buffer'[r] = buffer[r]
            \/ \E e \in Payload : buffer'[r] = Append(buffer[r], e)
        BY <3>4, BufferAndSource DEF LogInv
      <4> HIDE DEF n, r
      <4>2. buffer[r] \in Seq(Payload) /\ n <= Len(buffer[r])
        BY <3>2, <3>4 DEF r
      <4>3. \A i \in 1 .. n : i \in 1 .. Len(buffer[r])
        BY <1>1, <4>2
      <4>4. \A i \in 1 .. n : buffer'[r][i] = buffer[r][i]
        BY <4>1, <4>2, <4>3
      <4> QED
        BY <4>4 DEF r
    <3> QED
      BY <3>2, <3>3, <3>5
  <2> QED
    BY <2>1, <2>2
<1>3. EventsSeen(q) = [i \in 1 .. n |-> EventsSeen(q)[i]]
  BY DEF EventsSeen
<1>4. EventsSeen(q)' = [i \in 1 .. n |-> EventsSeen(q)'[i]]
  BY DEF EventsSeen
<1> QED
  BY <1>2, <1>3, <1>4

\* Nothing of the log is changed when neither the buffers, the phases, the
\* clients nor what they have taken change.
LEMMA LogStutters ==
    ASSUME LogInv, LogInv', [Next]_vars, UNCHANGED <<buffer, source>>,
           \A r \in Runs : LogPhase(r)' = LogPhase(r),
           \A q \in Queues : EventsTaken(q)' = EventsTaken(q)
                             /\ ClientStatus(q)' = ClientStatus(q)
    PROVE  UNCHANGED Log!logVars
<1>1. \A q \in Queues : EventsSeen(q)' = EventsSeen(q)
  BY SeenFrame
<1> QED
  BY <1>1 DEF Log!logVars

\* The log, the clients and what they have seen, as functions.
SeenMap == [q \in Queues |-> EventsSeen(q)]
StatusMap == [q \in Queues |-> ClientStatus(q)]
PhaseMap == [r \in Runs |-> LogPhase(r)]

\* A step of a run's task extends or closes its log, or the log stutters.
LEMMA ProducerMaps ==
    ASSUME LogInv, LogInv', [Next]_vars, NEW r \in Runs, Producer(r)
    PROVE  [Log!Next]_Log!logVars
<1>0. task \in [Runs -> TaskState]
  BY DEF LogInv, TypeOK
<1>1. UNCHANGED <<got, reader, source, marker>>
  BY DEF Producer, ProducerStarts, Yield, StreamEnds, StreamFails, Finish,
         CancelledUnstarted, CancelledInStream, CancelSwallowed,
         CancelledInCallback, Cancelled, queueVars
<1>2. \A q \in Queues : EventsTaken(q)' = EventsTaken(q)
                        /\ ClientStatus(q)' = ClientStatus(q)
  BY <1>1 DEF EventsTaken, ClientStatus
<1>3. \A q \in Queues : EventsSeen(q)' = EventsSeen(q)
  BY <1>2, SeenFrame
<1>4. UNCHANGED <<SeenMap, StatusMap, source>>
  BY <1>1, <1>2, <1>3 DEF SeenMap, StatusMap
<1>5. ASSUME NEW from \in Live, NEW to \in Live \cup {"aborted"},
             task[r] = from, task' = [task EXCEPT ![r] = to]
      PROVE  UNCHANGED PhaseMap /\ PhaseMap[r] = "open"
  BY <1>0, <1>5 DEF PhaseMap, LogPhase, Live
<1>6. ASSUME NEW e \in Payload, NEW to \in Live, Step(r, "streaming", to),
             buffer' = [buffer EXCEPT ![r] = Append(@, e)]
      PROVE  Log!Next
  <2>1. UNCHANGED PhaseMap /\ PhaseMap[r] = "open"
    BY <1>5, <1>6 DEF Step, Live
  <2>2. Log!Extend(r, e)
    BY <1>4, <1>6, <2>1 DEF Log!Extend, SeenMap, StatusMap, PhaseMap
  <2> QED
    BY <2>2 DEF Log!Next, Payload
<1>7. CASE Finish(r)
  <2>1. task[r] = "finishing" /\ task' = [task EXCEPT ![r] = "finished"]
        /\ UNCHANGED buffer
    BY <1>7 DEF Finish, Step
  <2>2. PhaseMap[r] = "open" /\ PhaseMap' = [PhaseMap EXCEPT ![r] = "closed"]
    BY <1>0, <2>1 DEF PhaseMap, LogPhase
  <2>3. Log!Close(r)
    BY <1>4, <2>1, <2>2 DEF Log!Close, SeenMap, StatusMap, PhaseMap
  <2> QED
    BY <2>3 DEF Log!Next
<1>8. ASSUME NEW from \in Live, NEW to \in Live \cup {"aborted"},
             task[r] = from, task' = [task EXCEPT ![r] = to], UNCHANGED buffer
      PROVE  UNCHANGED Log!logVars
  <2>1. UNCHANGED PhaseMap
    BY <1>5, <1>8
  <2> QED
    BY <1>4, <1>8, <2>1 DEF Log!logVars, SeenMap, StatusMap, PhaseMap
<1>9. CASE ProducerStarts(r) \/ StreamEnds(r)
  BY <1>8, <1>9 DEF ProducerStarts, StreamEnds, Step, Live
<1>10. CASE \/ CancelledUnstarted(r) \/ CancelledInStream(r)
            \/ CancelSwallowed(r) \/ CancelledInCallback(r)
  BY <1>8, <1>10 DEF CancelledUnstarted, CancelledInStream, CancelSwallowed,
                     CancelledInCallback, Cancelled, Live
<1>11. CASE \E e \in Events : Yield(r, e)
  BY <1>6, <1>11 DEF Yield, Payload, Live
<1>12. CASE StreamFails(r)
  BY <1>6, <1>12 DEF StreamFails, Payload, Live
<1> QED
  BY <1>7, <1>9, <1>10, <1>11, <1>12 DEF Producer

\* A reader reads the next event, is told the end at the end only, or leaves;
\* taking the replay marker is a stutter.
LEMMA ReaderMaps ==
    ASSUME LogInv, LogInv', [Next]_vars, NEW q \in Queues, Reader(q)
    PROVE  [Log!Next]_Log!logVars
<1> DEFINE r == source[q]
           buf == buffer[r]
           m == marker[q]
           n == EventsTaken(q)
<1>0. /\ TypeOK /\ ReadInv /\ put[q] \in Seq(Item) /\ got[q] \in Nat
      /\ got[q] <= Len(put[q]) /\ m \in Nat
      /\ got \in [Queues -> Nat] /\ reader \in [Queues -> ReaderState]
      /\ reader[q] \in {"reading", "unread"}
  BY DEF LogInv, TypeOK, ReadInv, Reader, TakeItem, TakeSentinel, Available,
         Disconnect
<1>1. UNCHANGED <<buffer, task, source, put, marker>>
  BY DEF Reader, TakeItem, TakeSentinel, Disconnect, runVars
<1>2. UNCHANGED PhaseMap
  BY <1>1 DEF PhaseMap, LogPhase
<1>3. \A p \in Queues \ {q} : got'[p] = got[p] /\ reader'[p] = reader[p]
  BY <1>0 DEF Reader, TakeItem, TakeSentinel, Disconnect
<1>4. \A p \in Queues \ {q} : EventsTaken(p)' = EventsTaken(p)
                              /\ ClientStatus(p)' = ClientStatus(p)
  BY <1>1, <1>3 DEF EventsTaken, ClientStatus
<1>5. \A p \in Queues \ {q} : EventsSeen(p)' = EventsSeen(p)
  BY <1>4, SeenFrame
<1>6. /\ r \in Runs /\ buf \in Seq(Payload) /\ Len(buf) \in Nat
      /\ m <= Len(buf) + 1 /\ n \in Nat /\ n <= Len(buf)
      /\ Len(put[q]) <= LengthOf(buf, m, task[r])
      /\ LengthOf(buf, m, task[r]) \in Nat
      /\ \A i \in 1 .. Len(put[q]) : put[q][i] = ItemOf(buf, m, i)
      /\ \A i \in 1 .. n : EventsSeen(q)[i] = buf[i]
  <2>1. r \in Runs /\ buf \in Seq(Payload)
    BY <1>0 DEF LogInv, StreamInv, AttachInv, TypeOK
  <2>2. Len(buf) \in Nat
    BY <2>1
  <2>3. LengthOf(buf, m, task[r]) \in Nat
    BY <1>0, <2>1, LengthType
  <2>4. /\ m <= Len(buf) + 1
        /\ Len(put[q]) <= LengthOf(buf, m, task[r])
        /\ \A i \in 1 .. Len(put[q]) : put[q][i] = ItemOf(buf, m, i)
    BY <1>0 DEF LogInv, StreamInv, AttachInv, StreamIsPrefix, StreamLength, StreamItem
  <2>5. n \in Nat /\ n <= Len(buf) /\ \A i \in 1 .. n : EventsSeen(q)[i] = buf[i]
    BY <1>0, SeenIsPrefix DEF LogInv
  <2> QED
    BY <2>1, <2>2, <2>3, <2>4, <2>5
<1>7. StatusMap[q] = "subscribed"
  BY <1>0 DEF StatusMap, ClientStatus
<1>8. ASSUME EventsTaken(q)' = n, NEW st,
             ClientStatus(q)' = st
      PROVE  UNCHANGED SeenMap /\ StatusMap' = [StatusMap EXCEPT ![q] = st]
  <2>1. \A p \in Queues : EventsSeen(p)' = EventsSeen(p)
    BY <1>5, <1>8, SeenFrame
  <2> QED
    BY <1>4, <1>8, <2>1 DEF SeenMap, StatusMap
<1>9. CASE Disconnect(q)
  <2>1. got'[q] = got[q] /\ reader'[q] = "left"
    BY <1>0, <1>9 DEF Disconnect
  <2>2. EventsTaken(q)' = n /\ ClientStatus(q)' = "left"
    BY <1>0, <1>1, <2>1 DEF EventsTaken, ClientStatus
  <2>3. UNCHANGED SeenMap /\ StatusMap' = [StatusMap EXCEPT ![q] = "left"]
    BY <1>8, <2>2
  <2>4. Log!Leave(q)
    BY <1>1, <1>2, <1>7, <2>3 DEF Log!Leave, SeenMap, StatusMap, PhaseMap
  <2> QED
    BY <2>4 DEF Log!Next
<1>10. CASE TakeSentinel(q)
  <2>1. /\ got[q] < Len(put[q]) /\ put[q][got[q] + 1] = Sentinel
        /\ got'[q] = got[q] + 1 /\ reader'[q] = "ended"
    BY <1>0, <1>10 DEF TakeSentinel, Available
  <2>2. got[q] + 1 \in 1 .. LengthOf(buf, m, task[r])
        /\ ItemOf(buf, m, got[q] + 1) = Sentinel
    <3>1. got[q] + 1 \in 1 .. Len(put[q])
      BY <1>0, <2>1
    <3> QED
      BY <1>0, <1>6, <2>1, <3>1
  <2>3. task[r] = "finished" /\ got[q] + 1 = LengthOf(buf, m, task[r])
    BY <1>0, <1>6, <2>2, SentinelIsLast
  <2>4. got[q] + 1 = Len(buf) + (IF m = 0 THEN 0 ELSE 1) + 1
    BY <2>3 DEF LengthOf
  <2>5. n = Len(buf) /\ EventsTaken(q)' = n
    <3> HIDE DEF buf, r
    <3> QED
      BY <1>0, <1>1, <1>6, <2>1, <2>4 DEF EventsTaken
  <2>6. UNCHANGED SeenMap /\ StatusMap' = [StatusMap EXCEPT ![q] = "ended"]
    <3>1. ClientStatus(q)' = "ended"
      BY <2>1 DEF ClientStatus
    <3> QED
      BY <1>8, <2>5, <3>1
  <2>7. EventsSeen(q) = buf
    <3>1. EventsSeen(q) = [i \in 1 .. Len(buf) |-> EventsSeen(q)[i]]
      BY <2>5 DEF EventsSeen
    <3>2. buf = [i \in 1 .. Len(buf) |-> buf[i]]
      BY <1>6
    <3> QED
      BY <1>6, <2>5, <3>1, <3>2
  <2>8. PhaseMap[r] = "closed"
    BY <1>6, <2>3 DEF PhaseMap, LogPhase
  <2>9. Log!ReadEnd(q)
    BY <1>1, <1>2, <1>7, <2>6, <2>7, <2>8
       DEF Log!ReadEnd, SeenMap, StatusMap, PhaseMap
  <2> QED
    BY <2>9 DEF Log!Next
<1>11. CASE TakeItem(q)
  <2>1. /\ got[q] < Len(put[q]) /\ put[q][got[q] + 1] # Sentinel
        /\ got'[q] = got[q] + 1 /\ reader'[q] = "reading"
    BY <1>0, <1>11 DEF TakeItem, Available
  <2>2. UNCHANGED StatusMap
    <3>1. UNCHANGED reader
      BY <1>11 DEF TakeItem
    <3> QED
      BY <3>1 DEF StatusMap, ClientStatus
  <2>3. CASE m # 0 /\ got[q] + 1 = m
    <3>1. EventsTaken(q)' = n
      BY <1>0, <1>1, <2>1, <2>3 DEF EventsTaken
    <3>2. UNCHANGED SeenMap
      BY <1>8, <3>1
    <3> QED
      BY <1>1, <1>2, <2>2, <3>2 DEF Log!logVars, SeenMap, StatusMap, PhaseMap
  <2>4. CASE ~(m # 0 /\ got[q] + 1 = m)
    <3>1. EventsTaken(q)' = n + 1
      <4>1. (m # 0 /\ got[q] >= m) <=> (m # 0 /\ got[q] + 1 >= m)
        BY <1>0, <2>4
      <4>2. n = got[q] - (IF m # 0 /\ got[q] >= m THEN 1 ELSE 0) - 0
        BY <1>0 DEF EventsTaken
      <4>3. EventsTaken(q)' = (got[q] + 1) - (IF m # 0 /\ got[q] + 1 >= m THEN 1 ELSE 0) - 0
        BY <1>1, <2>1 DEF EventsTaken
      <4> HIDE DEF n
      <4> QED
        BY <1>0, <4>1, <4>2, <4>3
    <3>2. reader'[q] # "free" /\ UNCHANGED <<buf, r>>
      BY <1>1, <2>1
    <3>3. n + 1 <= Len(buf) /\ \A i \in 1 .. n + 1 : EventsSeen(q)'[i] = buf[i]
      <4>1. (reader[q] # "free" =>
                /\ EventsTaken(q) <= Len(buffer[source[q]])
                /\ \A i \in 1 .. EventsTaken(q) :
                      EventsSeen(q)[i] = buffer[source[q]][i])'
        BY SeenIsPrefix, PTL DEF LogInv
      <4> QED
        BY <1>1, <3>1, <3>2, <4>1
    <3>4. EventsSeen(q) = [i \in 1 .. n |-> buf[i]]
      <4>1. EventsSeen(q) = [i \in 1 .. n |-> EventsSeen(q)[i]]
        BY DEF EventsSeen
      <4> QED
        BY <1>6, <4>1
    <3>5. EventsSeen(q)' = [i \in 1 .. n + 1 |-> buf[i]]
      <4>1. EventsSeen(q)' = [i \in 1 .. n + 1 |-> EventsSeen(q)'[i]]
        BY <3>1 DEF EventsSeen
      <4> QED
        BY <3>3, <4>1
    <3>6. /\ Len(EventsSeen(q)) = n
          /\ EventsSeen(q)' = Append(EventsSeen(q), buf[n + 1])
      <4> HIDE DEF n, buf
      <4>1. [i \in 1 .. n |-> buf[i]] \in Seq(Payload)
        BY <1>6, <3>3
      <4>2. Len([i \in 1 .. n |-> buf[i]]) = n
        BY <1>6
      <4>3. [i \in 1 .. n + 1 |-> buf[i]] = Append([i \in 1 .. n |-> buf[i]], buf[n + 1])
        BY <1>6, <3>3, <4>1, <4>2
      <4> QED
        BY <3>4, <3>5, <4>2, <4>3
    <3>7. SeenMap' = [SeenMap EXCEPT ![q] = Append(@, buf[Len(@) + 1])]
      BY <1>5, <3>6 DEF SeenMap
    <3>8. Log!ReadNext(q)
      BY <1>1, <1>2, <1>6, <1>7, <2>2, <3>3, <3>6, <3>7
         DEF Log!ReadNext, SeenMap, StatusMap, PhaseMap
    <3> QED
      BY <3>8 DEF Log!Next
  <2> QED
    BY <2>3, <2>4
<1> QED
  BY <1>9, <1>10, <1>11 DEF Reader

\* A client joins the log of a run that is open, or opens it; the rest of what
\* callers do is not seen in the log.
LEMMA CallerMaps ==
    ASSUME LogInv, LogInv', [Next]_vars, Caller
    PROVE  [Log!Next]_Log!logVars
<1>0. TypeOK /\ ReadInv /\ RegistryInv
  BY DEF LogInv
<1>1. ASSUME NEW q \in Queues, NEW r \in Runs, NEW items, NEW mark \in Nat,
             NEW use \in {"reading", "unread"}, Subscribe(q, r, items, mark, use)
      PROVE  /\ UNCHANGED SeenMap
             /\ StatusMap[q] = "free"
             /\ StatusMap' = [StatusMap EXCEPT ![q] = "subscribed"]
             /\ source' = [source EXCEPT ![q] = r]
  <2>1. /\ UNCHANGED got /\ reader[q] = "free" /\ reader'[q] = use
        /\ marker'[q] = mark /\ got[q] = 0 /\ marker[q] = 0
    BY <1>0, <1>1 DEF Subscribe, TypeOK, ReadInv
  <2>2. \A p \in Queues \ {q} : marker'[p] = marker[p] /\ reader'[p] = reader[p]
    BY <1>0, <1>1 DEF Subscribe, TypeOK
  <2>3. \A p \in Queues \ {q} : EventsTaken(p)' = EventsTaken(p)
                                /\ ClientStatus(p)' = ClientStatus(p)
    BY <2>1, <2>2 DEF EventsTaken, ClientStatus
  <2>4. EventsTaken(q) = 0 /\ EventsTaken(q)' = 0
    BY <2>1 DEF EventsTaken
  <2>5. \A p \in Queues : EventsSeen(p)' = EventsSeen(p)
    BY <2>3, <2>4, SeenFrame
  <2>6. ClientStatus(q) = "free" /\ ClientStatus(q)' = "subscribed"
    BY <2>1 DEF ClientStatus
  <2> QED
    BY <1>1, <2>3, <2>5, <2>6 DEF SeenMap, StatusMap, Subscribe
<1>2. ASSUME NEW k \in Keys, NEW q \in Queues, NEW r \in Runs, StartRun(k, r, q)
      PROVE  Log!Next
  <2>1. Subscribe(q, r, <<>>, 0, "reading") /\ UNCHANGED buffer
        /\ task[r] = "unused" /\ task' = [task EXCEPT ![r] = "created"]
    BY <1>2 DEF StartRun
  <2>2. PhaseMap[r] = "new" /\ PhaseMap' = [PhaseMap EXCEPT ![r] = "open"]
    BY <1>0, <2>1 DEF PhaseMap, LogPhase, TypeOK
  <2>3. /\ UNCHANGED SeenMap /\ StatusMap[q] = "free"
        /\ StatusMap' = [StatusMap EXCEPT ![q] = "subscribed"]
        /\ source' = [source EXCEPT ![q] = r]
    BY <1>1, <2>1
  <2>4. Log!Open(q, r)
    BY <2>1, <2>2, <2>3 DEF Log!Open, Log!Join, SeenMap, StatusMap, PhaseMap
  <2> QED
    BY <2>4 DEF Log!Next
<1>3. ASSUME NEW k \in Keys, NEW q \in Queues, JoinRun(k, q) \/ Attach(k, q)
      PROVE  Log!Next
  <2> DEFINE r == registry[k]
  <2>1. r \in Runs /\ task[r] \in Live /\ UNCHANGED <<buffer, task>>
    BY <1>0, <1>3 DEF JoinRun, Attach, Active, TypeOK
  <2>2. Len(buffer[r]) + 1 \in Nat
    <3>1. buffer[r] \in Seq(Payload)
      BY <1>0, <2>1 DEF TypeOK
    <3> QED
      BY <3>1
  <2>3. /\ UNCHANGED SeenMap /\ StatusMap[q] = "free"
        /\ StatusMap' = [StatusMap EXCEPT ![q] = "subscribed"]
        /\ source' = [source EXCEPT ![q] = r]
    <3>1. CASE JoinRun(k, q)
      <4>1. Subscribe(q, r, buffer[r], 0, "unread")
        BY <3>1 DEF JoinRun
      <4> HIDE DEF r
      <4> QED
        BY <1>1, <2>1, <4>1
    <3>2. CASE Attach(k, q)
      <4>1. Subscribe(q, r, Append(buffer[r], ReplayEnd), Len(buffer[r]) + 1, "reading")
        BY <3>2 DEF Attach
      <4> HIDE DEF r
      <4> QED
        BY <1>1, <2>1, <2>2, <4>1
    <3> QED
      BY <1>3, <3>1, <3>2
  <2>4. PhaseMap[r] = "open" /\ UNCHANGED PhaseMap
    BY <2>1 DEF PhaseMap, LogPhase, Live
  <2>5. Log!JoinOpen(q, r)
    BY <2>1, <2>3, <2>4 DEF Log!JoinOpen, Log!Join, SeenMap, StatusMap, PhaseMap
  <2> QED
    BY <2>1, <2>5 DEF Log!Next
<1>4. CASE UNCHANGED <<task, buffer, queueVars>>
  <2>1. /\ \A r \in Runs : LogPhase(r)' = LogPhase(r)
        /\ \A q \in Queues : EventsTaken(q)' = EventsTaken(q)
                             /\ ClientStatus(q)' = ClientStatus(q)
    BY <1>4 DEF LogPhase, EventsTaken, ClientStatus, queueVars
  <2> QED
    BY <1>4, <2>1, LogStutters DEF queueVars
<1> QED
  BY <1>2, <1>3, <1>4
     DEF Caller, RequestStop, StopperCancelled, StopReturns, runVars

\* Every step of the tracker is a step of the log, or a stutter.
LEMMA LogStep ==
    ASSUME LogInv, LogInv', [Next]_vars
    PROVE  [Log!Next]_Log!logVars
<1>1. CASE UNCHANGED vars
  <2>1. /\ \A r \in Runs : LogPhase(r)' = LogPhase(r)
        /\ \A q \in Queues : EventsTaken(q)' = EventsTaken(q)
                             /\ ClientStatus(q)' = ClientStatus(q)
    BY <1>1 DEF LogPhase, EventsTaken, ClientStatus, vars
  <2> QED
    BY <1>1, <2>1, LogStutters DEF vars
<1> QED
  BY <1>1, CallerMaps, ProducerMaps, ReaderMaps DEF Next

\* A chat client may rely on the log: each one reads its run's events from the
\* first, none skipped, repeated or of another run, however replay, live
\* events, stops and other clients interleave, and is told the end at the end
\* only (the notes of app/task_tracker.py).
THEOREM TrackerIsEventLog == Spec => ImplementsEventLog
<1>1. Init => Log!Init
  <2> SUFFICES ASSUME Init
               PROVE  Log!Init
    OBVIOUS
  <2>1. \A q \in Queues : EventsSeen(q) = <<>> /\ ClientStatus(q) = "free"
    BY DEF Init, EventsSeen, EventsTaken, ClientStatus
  <2>2. \A r \in Runs : LogPhase(r) = "new"
    BY DEF Init, LogPhase
  <2> QED
    BY <2>1, <2>2 DEF Init, Log!Init
<1>2. LogInv /\ LogInv' /\ [Next]_vars => [Log!Next]_Log!logVars
  BY LogStep
<1>3. Spec => []LogInv
  <2>1. Spec => []RegistryInv
    BY RegistryInit, RegistryStep, TypeCorrect, PTL DEF Spec
  <2> QED
    BY <2>1, TypeCorrect, StreamsCorrect, ReadCorrect, PTL DEF LogInv
<1> QED
  BY <1>1, <1>2, <1>3, PTL DEF Spec, ImplementsEventLog, Log!Spec
=============================================================================
