--------------------------- MODULE ToolCallsProofs ---------------------------
(***************************************************************************)
(* Proofs about ToolCalls and its refinement of ToolAnswers, for every set *)
(* of calls and every bound.                                               *)
(***************************************************************************)
EXTENDS ToolCallsRefinement, TLAPS

(***************************************************************************)
(* Types.  Each part of TypeOK is kept on its own.                         *)
(***************************************************************************)

\* The fields of the entries keep their types in the steps of a tool.
LEMMA ToolFields ==
    ASSUME FieldTypes, NEW c \in Calls, Tool(c)
    PROVE  FieldTypes'
<1> USE DEF FieldTypes, config, deadlines
<1>1. CASE ToolStarts(c)
  BY <1>1, SMTT(30) DEF ToolStarts
<1>2. CASE ToolChunk(c)
  BY <1>2 DEF ToolChunk
<1>3. CASE ToolKilled(c)
  BY <1>3 DEF ToolKilled
<1>4. CASE \E window \in {"far", "near"} : ArmKillDeadline(c, window)
  BY <1>4 DEF ArmKillDeadline, tool
<1>5. CASE \E outcome \in {"own", "error", "cancelled"} : ToolEnds(c, outcome)
  BY <1>5 DEF ToolEnds
<1> QED
  BY <1>1, <1>2, <1>3, <1>4, <1>5 DEF Tool

\* What an attendant may assign when it looks at signals and deadlines.
WatchFields ==
    /\ status \in [Calls -> {"none", "running", "offloaded", "completed"}]
    /\ event \in [Calls -> BOOLEAN]
    /\ offload \in [Calls -> {"none", "ahead", "due"}]
    /\ byUser \in [Calls -> BOOLEAN]
    /\ kill \in [Calls -> {"none", "far", "near", "due"}]
    /\ changed \in [Calls -> BOOLEAN]
    /\ pc \in [Calls -> {"none", "yield", "top", "wait", "grace", "reap",
                         "report", "done", "lost"}]

\* A deadline that is due, handled by the generator or by the supervisor,
\* keeps these types.
LEMMA DeadlineFields ==
    ASSUME WatchFields, NEW c \in Calls,
           KillDeadlineReached(c) \/ DeadlineReached(c)
    PROVE  WatchFields'
<1> USE DEF WatchFields, TimeOut, Grace, deadlines
<1>1. CASE TimeOut(c) /\ UNCHANGED <<status, deadlines>>
  BY <1>1
<1>2. CASE Offload(c) /\ CanOffload(c)
  BY <1>2, ZenonT(60) DEF Offload, EnsureKillDeadline
<1>3. CASE KeepForeground(c) /\ kill[c] # "none"
  BY <1>3 DEF KeepForeground
<1>4. CASE /\ pc' = [pc EXCEPT ![c] = "top"]
           /\ UNCHANGED <<event, deadlines, status>>
  BY <1>4
<1> QED
  BY <1>1, <1>2, <1>3, <1>4
     DEF KillDeadlineReached, DeadlineReached, Offload, KeepForeground

\* So does looking at the signals and deadlines, whatever is found.
LEMMA WatchStep ==
    ASSUME WatchFields, NEW c \in Calls, Top(c) \/ Wake(c)
    PROVE  WatchFields'
<1>1. CASE KillDeadlineReached(c) \/ DeadlineReached(c)
  BY <1>1, DeadlineFields
<1>2. ASSUME NEW at \in {"top", "wait", "reap", "grace"},
             pc' = [pc EXCEPT ![c] = at],
             UNCHANGED <<event, deadlines, status>>
      PROVE  WatchFields'
  BY <1>2 DEF WatchFields, deadlines
<1>3. CASE /\ changed' = [changed EXCEPT ![c] = FALSE]
           /\ pc' = [pc EXCEPT ![c] = "top"]
           /\ UNCHANGED <<event, offload, byUser, kill, status>>
  BY <1>3 DEF WatchFields
<1>4. CASE Signalled(c)
  BY <1>2, <1>4 DEF Signalled, Grace
<1> QED
  BY <1>1, <1>2, <1>3, <1>4 DEF Top, Wake

\* The fields of the entries keep their types in the steps of an attendant.
LEMMA AttendFields ==
    ASSUME FieldTypes, NEW c \in Calls, Attend(c)
    PROVE  FieldTypes'
<1> USE DEF FieldTypes, config, deadlines, tool
<1>1. CASE Top(c) \/ Wake(c)
  <2>1. WatchFields'
    BY <1>1, WatchStep DEF WatchFields
  <2>2. UNCHANGED <<config, listed, tool, reaping, shutting>>
    BY <1>1 DEF Top, Wake
  <2> QED
    BY <2>1, <2>2 DEF WatchFields
<1>2. CASE TakeChunk(c)
  BY <1>2 DEF TakeChunk
<1>3. CASE Resume(c)
  BY <1>3 DEF Resume
<1>5. CASE GraceEnds(c)
  BY <1>5, ZenonT(60) DEF GraceEnds, ForceCancel
<1>6. CASE Finalize(c)
  BY <1>6 DEF Finalize, Unlist, Reports
<1>7. CASE Hint(c)
  BY <1>7 DEF Hint
<1> QED
  BY <1>1, <1>2, <1>3, <1>5, <1>6, <1>7 DEF Attend

\* The fields of the entries keep their types in every other step.
LEMMA OtherFields ==
    ASSUME FieldTypes,
           \/ \E c \in Calls : Execute(c) \/ Passes(c) \/ Intervene(c)
           \/ CancelRunningForSession \/ Configure \/ PopPendingHints
           \/ Shutdown \/ ShutdownEnds
    PROVE  FieldTypes'
<1> USE DEF FieldTypes, config, deadlines, tool
<1>1. ASSUME NEW c \in Calls, Execute(c)
      PROVE  FieldTypes'
  BY <1>1 DEF Execute
<1>2. ASSUME NEW c \in Calls, Passes(c)
      PROVE  FieldTypes'
  BY <1>2 DEF Passes
<1>3. ASSUME NEW c \in Calls, Intervene(c)
      PROVE  FieldTypes'
  <2>1. CASE RequestOffload(c)
    BY <2>1 DEF RequestOffload
  <2>2. CASE Cancel(c)
    BY <2>2 DEF Cancel
  <2>7. CASE CancelForce(c)
    BY <2>7 DEF CancelForce, ForceCancel
  <2>3. CASE \E d \in {"none", "ahead"} : ExtendOffloadDeadline(c, d)
    BY <2>3 DEF ExtendOffloadDeadline
  <2>4. CASE \E d \in {"none", "far"} : ExtendKillDeadline(c, d)
    BY <2>4 DEF ExtendKillDeadline
  <2>5. CASE ParentCancelled(c)
    BY <2>5 DEF ParentCancelled, HandleParentCancel, TimeOut, Grace
  <2>6. CASE ParentCancelledAgain(c)
    BY <2>6 DEF ParentCancelledAgain
  <2> QED
    BY <1>3, <2>1, <2>2, <2>3, <2>4, <2>5, <2>6, <2>7 DEF Intervene
<1>4. CASE CancelRunningForSession
  BY <1>4 DEF CancelRunningForSession, Running
<1>5. CASE Configure
  BY <1>5, ZenonT(60) DEF Configure
<1>6. CASE PopPendingHints
  BY <1>6 DEF PopPendingHints
<1>7. CASE Shutdown
  BY <1>7 DEF Shutdown
<1>8. CASE ShutdownEnds
  BY <1>8 DEF ShutdownEnds
<1> QED
  BY <1>1, <1>2, <1>3, <1>4, <1>5, <1>6, <1>7, <1>8

\* What the agent and the API leave alone: the queues' contents, the chunks
\* and the cancellations so far, and which calls there are.
LEMMA QuietSteps ==
    ASSUME NEW c \in Calls,
           \/ Resume(c) \/ GraceEnds(c) \/ Passes(c)
           \/ RequestOffload(c) \/ Cancel(c) \/ CancelForce(c)
           \/ \E d \in {"none", "ahead"} : ExtendOffloadDeadline(c, d)
           \/ \E d \in {"none", "far"} : ExtendKillDeadline(c, d)
           \/ \E window \in {"far", "near"} : ArmKillDeadline(c, window)
    PROVE  UNCHANGED <<chunks, hints, made, stops, status, listed, task>>
BY DEF Resume, GraceEnds, Passes, RequestOffload, Cancel, CancelForce,
       ExtendOffloadDeadline, ExtendKillDeadline, ArmKillDeadline, tool

\* So do the steps for the whole session.
LEMMA QuietSessionSteps ==
    ASSUME CancelRunningForSession \/ Configure \/ Shutdown \/ ShutdownEnds
    PROVE  UNCHANGED <<chunks, hints, made, stops, status, listed, task>>
BY DEF CancelRunningForSession, Configure, Shutdown, ShutdownEnds, tool

\* The steps that touch the queues put items into them and take them out.
LEMMA QueueStep ==
    ASSUME QueueTypes, Next
    PROVE  QueueTypes'
<1> USE DEF QueueTypes
<1>1. ASSUME UNCHANGED <<chunks, hints>>
      PROVE  QueueTypes'
  BY <1>1
<1>2. ASSUME NEW c \in Calls, NEW item \in {"chunk", "end"},
             chunks' = [chunks EXCEPT ![c] = Put(c, item)], UNCHANGED hints
      PROVE  QueueTypes'
  <2>1. Put(c, item) \in Seq({"chunk", "end"})
    BY DEF Put
  <2> QED
    BY <1>2, <2>1
<1>3. ASSUME NEW c \in Calls, Tool(c)
      PROVE  QueueTypes'
  BY <1>1, <1>2, <1>3, QuietSteps
     DEF Tool, ToolStarts, ToolChunk, ToolEnds, ToolKilled
<1>4. ASSUME NEW c \in Calls, Attend(c)
      PROVE  QueueTypes'
  <2>1. CASE TakeChunk(c)
    BY <2>1 DEF TakeChunk
  <2>2. CASE Hint(c)
    BY <2>2 DEF Hint, tool
  <2> QED
    BY <1>1, <1>4, <2>1, <2>2, QuietSteps DEF Attend, Top, Wake, Finalize, tool
<1>5. ASSUME NEW c \in Calls, Execute(c) \/ Passes(c) \/ Intervene(c)
      PROVE  QueueTypes'
  BY <1>1, <1>5, QuietSteps
     DEF Execute, Intervene, ParentCancelled, ParentCancelledAgain, tool
<1>6. CASE PopPendingHints
  BY <1>6 DEF PopPendingHints, tool
<1> QED
  BY <1>1, <1>3, <1>4, <1>5, <1>6, QuietSessionSteps DEF Next

\* Every counter that moves is checked against its bound first.
LEMMA CounterStep ==
    ASSUME CounterBounds, Next
    PROVE  CounterBounds'
<1> USE BoundsAreNaturals DEF CounterBounds
<1>1. ASSUME UNCHANGED <<made, ops, stops>>
      PROVE  CounterBounds'
  BY <1>1
<1>2. ASSUME Op, UNCHANGED <<made, stops>>
      PROVE  CounterBounds'
  BY <1>2 DEF Op
<1>3. ASSUME NEW c \in Calls, Tool(c)
      PROVE  CounterBounds'
  <2>1. CASE ToolChunk(c)
    BY <2>1 DEF ToolChunk
  <2> QED
    BY <1>1, <1>3, <2>1
       DEF Tool, ToolStarts, ToolEnds, ToolKilled, ArmKillDeadline, tool
<1>4. ASSUME NEW c \in Calls, Attend(c)
      PROVE  CounterBounds'
  BY <1>1, <1>4 DEF Attend, Top, TakeChunk, Resume, Wake, GraceEnds, Finalize,
                    Hint, tool
<1>5. ASSUME NEW c \in Calls, Intervene(c)
      PROVE  CounterBounds'
  <2>1. CASE ParentCancelled(c) \/ ParentCancelledAgain(c)
    BY <2>1 DEF ParentCancelled, ParentCancelledAgain, tool
  <2> QED
    BY <1>2, <1>5, <2>1
       DEF Intervene, RequestOffload, Cancel, CancelForce,
           ExtendOffloadDeadline, ExtendKillDeadline, tool
<1>6. ASSUME NEW c \in Calls, Execute(c) \/ Passes(c)
      PROVE  CounterBounds'
  BY <1>1, <1>6 DEF Execute, Passes, tool
<1>7. CASE CancelRunningForSession \/ Configure
  BY <1>2, <1>7 DEF CancelRunningForSession, Configure, tool
<1>8. CASE PopPendingHints \/ Shutdown \/ ShutdownEnds
  BY <1>1, <1>8 DEF PopPendingHints, Shutdown, ShutdownEnds, tool
<1> QED
  BY <1>3, <1>4, <1>5, <1>6, <1>7, <1>8 DEF Next

\* An attendant that looks at the deadlines moves its call to the background
\* or leaves it where it is.
LEMMA WatchMoves ==
    ASSUME NEW c \in Calls, Top(c) \/ Wake(c)
    PROVE  \/ Running(c) /\ status' = [status EXCEPT ![c] = "offloaded"]
           \/ UNCHANGED status
BY DEF Top, Wake, Signalled, KillDeadlineReached, DeadlineReached, Offload,
       KeepForeground

\* The steps that move a call or its task keep _entries in line with them.
LEMMA EntriesStep ==
    ASSUME FieldTypes, EntriesAreActive, Next
    PROVE  EntriesAreActive'
<1> USE DEF EntriesAreActive
<1>1. ASSUME UNCHANGED <<status, listed, task>>
      PROVE  EntriesAreActive'
  BY <1>1
<1>2. ASSUME NEW c \in Calls, task[c] # "none",
             NEW now \in {"run", "done"},
             task' = [task EXCEPT ![c] = now], UNCHANGED <<status, listed>>
      PROVE  EntriesAreActive'
  BY <1>2 DEF FieldTypes
<1>3. ASSUME NEW c \in Calls, Tool(c)
      PROVE  EntriesAreActive'
  <2>1. CASE ToolStarts(c)
    BY <1>1, <1>2, <2>1 DEF ToolStarts
  <2>2. CASE \/ ToolKilled(c)
             \/ \E outcome \in {"own", "error", "cancelled"} : ToolEnds(c, outcome)
    BY <1>2, <2>2 DEF ToolKilled, ToolEnds
  <2> QED
    BY <1>1, <1>3, <2>1, <2>2, QuietSteps DEF Tool, ToolChunk
<1>4. ASSUME NEW c \in Calls, Attend(c)
      PROVE  EntriesAreActive'
  <2>1. CASE Top(c) \/ Wake(c)
    <3>1. UNCHANGED <<listed, task>>
      BY <2>1 DEF Top, Wake, tool
    <3>2. CASE Running(c) /\ status' = [status EXCEPT ![c] = "offloaded"]
      BY <3>1, <3>2 DEF FieldTypes, Running
    <3> QED
      BY <1>1, <2>1, <3>1, <3>2, WatchMoves
  <2>2. CASE Finalize(c)
    BY <2>2 DEF FieldTypes, Finalize, Unlist
  <2> QED
    BY <1>1, <1>4, <2>1, <2>2, QuietSteps DEF Attend, TakeChunk, Hint, tool
<1>5. ASSUME NEW c \in Calls, Execute(c)
      PROVE  EntriesAreActive'
  BY <1>5 DEF FieldTypes, Execute
<1>6. ASSUME NEW c \in Calls, Passes(c) \/ Intervene(c)
      PROVE  EntriesAreActive'
  BY <1>1, <1>6, QuietSteps
     DEF Intervene, ParentCancelled, ParentCancelledAgain, tool
<1>7. CASE PopPendingHints
  BY <1>1, <1>7 DEF PopPendingHints, tool
<1> QED
  BY <1>1, <1>3, <1>4, <1>5, <1>6, <1>7, QuietSessionSteps DEF Next

\* Types are kept by every step.
LEMMA TypeStep == TypeOK /\ [Next]_vars => TypeOK'
<1>1. ASSUME TypeOK, Next
      PROVE  TypeOK'
  <2>1. FieldTypes'
    BY <1>1, ToolFields, AttendFields, OtherFields DEF TypeOK, Next
  <2> QED
    BY <1>1, <2>1, QueueStep, CounterStep, EntriesStep DEF TypeOK
<1>2. ASSUME TypeOK, UNCHANGED vars
      PROVE  TypeOK'
  <2>1. FieldTypes'
    BY <1>2 DEF TypeOK, FieldTypes, vars, config, deadlines, tool
  <2> QED
    BY <1>2, <2>1
       DEF TypeOK, QueueTypes, CounterBounds, EntriesAreActive, vars, tool
<1> QED
  BY <1>1, <1>2

\* Every variable keeps its type in every behaviour of the coordinator.
THEOREM TypeCorrect == Spec => []TypeOK
<1>1. Init => TypeOK
  BY BoundsAreNaturals
     DEF Init, TypeOK, FieldTypes, QueueTypes, CounterBounds, EntriesAreActive
<1> QED
  BY <1>1, TypeStep, PTL DEF Spec

(***************************************************************************)
(* The bound of a call in the background.                                  *)
(***************************************************************************)

\* Nothing takes the kill deadline of a call in the background away, and a
\* call gets one on its way there.
LEMMA BoundStep ==
    ASSUME TypeOK, BoundedBackground, Next
    PROVE  BoundedBackground'
<1> USE DEF BoundedBackground, Offloaded
<1>1. ASSUME UNCHANGED <<listed, status, kill>>
      PROVE  BoundedBackground'
  BY <1>1
<1>2. ASSUME NEW c \in Calls, Execute(c)
      PROVE  BoundedBackground'
  BY <1>2 DEF Execute, TypeOK, FieldTypes
<1>3. ASSUME NEW c \in Calls, Tool(c)
      PROVE  BoundedBackground'
  <2>1. CASE \E window \in {"far", "near"} : ArmKillDeadline(c, window)
    BY <2>1 DEF ArmKillDeadline, tool, TypeOK, FieldTypes
  <2> QED
    BY <1>1, <1>3, <2>1
       DEF Tool, ToolStarts, ToolChunk, ToolEnds, ToolKilled, deadlines
<1>4. ASSUME NEW c \in Calls, Attend(c)
      PROVE  BoundedBackground'
  <2>1. CASE Top(c) \/ Wake(c)
    <3>1. UNCHANGED listed
      BY <2>1 DEF Top, Wake
    <3>2. \/ UNCHANGED <<status, kill>>
          \/ /\ status' = [status EXCEPT ![c] = "offloaded"]
             /\ EnsureKillDeadline(c)
      BY <2>1 DEF Top, Wake, Signalled, KillDeadlineReached, DeadlineReached,
                  Offload, KeepForeground, deadlines
    <3>3. CASE /\ status' = [status EXCEPT ![c] = "offloaded"]
               /\ EnsureKillDeadline(c)
      BY <3>1, <3>3 DEF EnsureKillDeadline, TypeOK, FieldTypes
    <3> QED
      BY <1>1, <3>1, <3>2, <3>3
  <2>2. CASE Finalize(c)
    BY <2>2 DEF Finalize, Unlist, deadlines, TypeOK, FieldTypes
  <2> QED
    BY <1>1, <1>4, <2>1, <2>2
       DEF Attend, TakeChunk, Resume, GraceEnds, Hint, deadlines
<1>5. ASSUME NEW c \in Calls, Passes(c)
      PROVE  BoundedBackground'
  BY <1>5 DEF Passes, TypeOK, FieldTypes
<1>6. ASSUME NEW c \in Calls, Intervene(c)
      PROVE  BoundedBackground'
  <2>1. CASE RequestOffload(c)
    BY <2>1 DEF RequestOffload, TypeOK, FieldTypes
  <2>2. CASE \E d \in {"none", "far"} : ExtendKillDeadline(c, d)
    BY <2>2 DEF ExtendKillDeadline, MayClearKill, TypeOK, FieldTypes
  <2> QED
    BY <1>1, <1>6, <2>1, <2>2
       DEF Intervene, Cancel, CancelForce, ExtendOffloadDeadline,
           ParentCancelled, ParentCancelledAgain, deadlines
<1> QED
  BY <1>1, <1>2, <1>3, <1>4, <1>5, <1>6
     DEF Next, CancelRunningForSession, Configure, PopPendingHints, Shutdown,
         ShutdownEnds, deadlines

\* A call in the background has a kill deadline, whatever the user and the
\* settings do (_ensure_kill_deadline_for_offload, extend_kill_deadline).
THEOREM OffloadedStaysBounded == Spec => []BoundedBackground
<1>1. Init => BoundedBackground
  BY DEF Init, BoundedBackground, Offloaded
<1>2. TypeOK /\ BoundedBackground /\ [Next]_vars => BoundedBackground'
  BY BoundStep DEF vars, deadlines, BoundedBackground, Offloaded
<1> QED
  BY <1>1, <1>2, TypeCorrect, PTL DEF Spec

(***************************************************************************)
(* Stopping a tool.                                                        *)
(***************************************************************************)

\* A task is only cancelled after the signal, and only while it has not
\* ended; whoever reaps a tool for a cancelled agent has set the signal, and
\* a shutdown has set it for every call that is left.
StopInv ==
    \A c \in Calls :
        /\ killed[c] => event[c] /\ task[c] # "done"
        /\ reaping[c] # "no" => event[c]
        /\ reaping[c] = "parent" => stops > 0
        /\ shutting # "no" /\ listed[c] => event[c]

\* The signal is never taken back.
LEMMA EventStays ==
    ASSUME FieldTypes, Next, NEW c \in Calls, event[c]
    PROVE  event'[c]
<1> USE DEF FieldTypes
<1>1. ASSUME NEW d \in Calls, Attend(d)
      PROVE  event'[c]
  <2>1. CASE Top(d) \/ Wake(d)
    BY <2>1 DEF Top, Wake, Signalled, KillDeadlineReached, DeadlineReached,
                TimeOut, Offload, KeepForeground
  <2>2. CASE GraceEnds(d)
    BY <2>2 DEF GraceEnds, ForceCancel
  <2> QED
    BY <1>1, <2>1, <2>2 DEF Attend, TakeChunk, Resume, Finalize, Hint
<1>2. ASSUME NEW d \in Calls, Tool(d) \/ Execute(d) \/ Passes(d)
      PROVE  event'[c]
  BY <1>2 DEF Tool, ToolStarts, ToolChunk, ToolEnds, ToolKilled,
              ArmKillDeadline, Execute, Passes
<1>3. ASSUME NEW d \in Calls, Intervene(d)
      PROVE  event'[c]
  <2>1. CASE Cancel(d) \/ CancelForce(d) \/ ParentCancelled(d)
    BY <2>1 DEF Cancel, CancelForce, ForceCancel, ParentCancelled,
                HandleParentCancel, TimeOut
  <2> QED
    BY <1>3, <2>1 DEF Intervene, RequestOffload, ExtendOffloadDeadline,
                      ExtendKillDeadline, ParentCancelledAgain
<1>4. CASE \/ CancelRunningForSession \/ Configure \/ PopPendingHints
           \/ Shutdown \/ ShutdownEnds
  BY <1>4 DEF CancelRunningForSession, Configure, PopPendingHints, Shutdown,
              ShutdownEnds
<1> QED
  BY <1>1, <1>2, <1>3, <1>4 DEF Next

\* A step keeps StopInv when it leaves these variables alone.
LEMMA StopFrame ==
    ASSUME StopInv, FieldTypes, Next, UNCHANGED <<killed, task, listed>>,
           UNCHANGED <<reaping, stops, shutting>>
    PROVE  StopInv'
BY EventStays DEF StopInv

\* It does so when it cancels tasks that have the signal and are not over.
LEMMA StopKill ==
    ASSUME StopInv, FieldTypes, Next, UNCHANGED <<task, listed, reaping>>,
           UNCHANGED <<stops, shutting>>,
           \A c \in Calls :
               killed'[c] => killed[c] \/ (event'[c] /\ task[c] # "done")
    PROVE  StopInv'
BY EventStays DEF StopInv

\* Every step keeps StopInv.
LEMMA StopStep ==
    ASSUME TypeOK, StopInv, Next
    PROVE  StopInv'
<1>0. FieldTypes /\ (stops \in Nat)
  BY BoundsAreNaturals DEF TypeOK, CounterBounds
<1>1. ASSUME NEW c \in Calls, Tool(c)
      PROVE  StopInv'
  <2>1. UNCHANGED <<event, listed, reaping, stops, shutting>>
    BY <1>1 DEF Tool, ToolStarts, ToolChunk, ToolEnds, ToolKilled,
                ArmKillDeadline
  <2>2. CASE \/ ToolStarts(c)
             \/ \E outcome \in {"own", "error", "cancelled"} : ToolEnds(c, outcome)
    <3>1. ~killed[c] /\ UNCHANGED killed
      BY <2>2 DEF ToolStarts, ToolEnds
    <3>2. \A d \in Calls \ {c} : task'[d] = task[d]
      BY <1>0, <2>2 DEF ToolStarts, ToolEnds, FieldTypes
    <3> QED
      BY <2>1, <3>1, <3>2 DEF StopInv
  <2>3. CASE ToolKilled(c)
    BY <1>0, <2>1, <2>3 DEF ToolKilled, FieldTypes, StopInv
  <2> QED
    BY <1>0, <1>1, <2>1, <2>2, <2>3, StopFrame
       DEF Tool, ToolChunk, ArmKillDeadline, tool
<1>2. ASSUME NEW c \in Calls, Attend(c)
      PROVE  StopInv'
  <2>1. CASE GraceEnds(c)
    <3>1. UNCHANGED <<task, listed, reaping, stops, shutting>>
      BY <2>1 DEF GraceEnds
    <3>2. CASE task[c] = "done"
      BY <1>0, <2>1, <3>1, <3>2, StopKill DEF GraceEnds
    <3>3. CASE ForceCancel(c)
      BY <1>0, <3>1, <3>3, StopKill DEF ForceCancel, FieldTypes
    <3> QED
      BY <2>1, <3>2, <3>3 DEF GraceEnds
  <2>2. CASE Finalize(c)
    BY <1>0, <2>2 DEF Finalize, Unlist, FieldTypes, StopInv
  <2> QED
    BY <1>0, <1>2, <2>1, <2>2, StopFrame
       DEF Attend, Top, Wake, TakeChunk, Resume, Hint, tool
<1>3. ASSUME NEW c \in Calls, Execute(c)
      PROVE  StopInv'
  <2>1. \A d \in Calls : task'[d] = task[d] \/ task'[d] = "new"
    BY <1>0, <1>3 DEF Execute, FieldTypes
  <2> QED
    BY <1>3, <2>1 DEF Execute, StopInv
<1>4. ASSUME NEW c \in Calls, Intervene(c)
      PROVE  StopInv'
  <2>1. CASE CancelForce(c)
    <3>1. UNCHANGED <<task, listed, reaping, stops, shutting>>
      BY <2>1 DEF CancelForce
    <3> QED
      BY <1>0, <2>1, <3>1, StopKill DEF CancelForce, ForceCancel, FieldTypes
  <2>2. CASE ParentCancelled(c)
    <3>1. event'[c] /\ stops' = stops + 1
      BY <1>0, <2>2 DEF ParentCancelled, HandleParentCancel, TimeOut, FieldTypes
    <3>2. \A d \in Calls \ {c} : reaping'[d] = reaping[d]
      BY <1>0, <2>2 DEF ParentCancelled, FieldTypes
    <3>3. UNCHANGED <<killed, task, listed, shutting>>
      BY <2>2 DEF ParentCancelled, tool
    <3> QED
      BY <1>0, <3>1, <3>2, <3>3, EventStays DEF StopInv
  <2>3. CASE ParentCancelledAgain(c)
    <3>1. UNCHANGED <<task, listed, event, reaping, shutting>>
      BY <2>3 DEF ParentCancelledAgain
    <3>2. event[c]
      BY <2>3 DEF ParentCancelledAgain, StopInv
    <3>3. \A d \in Calls :
             killed'[d] => killed[d] \/ (event[d] /\ task[d] # "done")
      BY <1>0, <2>3, <3>2 DEF ParentCancelledAgain, FieldTypes
    <3>4. stops' = stops + 1
      BY <2>3 DEF ParentCancelledAgain
    <3> QED
      BY <1>0, <3>1, <3>3, <3>4 DEF StopInv
  <2> QED
    BY <1>0, <1>4, <2>1, <2>2, <2>3, StopFrame
       DEF Intervene, RequestOffload, Cancel, ExtendOffloadDeadline,
           ExtendKillDeadline, tool
<1>5. CASE CancelRunningForSession
  <2>1. UNCHANGED <<task, listed, reaping, stops, shutting>>
    BY <1>5 DEF CancelRunningForSession
  <2> QED
    BY <1>0, <1>5, <2>1, StopKill DEF CancelRunningForSession
<1>6. CASE Shutdown
  BY <1>0, <1>6 DEF Shutdown, StopInv, tool
<1>7. CASE ShutdownEnds
  BY <1>0, <1>7 DEF ShutdownEnds, StopInv
<1> QED
  BY <1>0, <1>1, <1>2, <1>3, <1>4, <1>5, <1>6, <1>7, StopFrame
     DEF Next, Passes, Configure, PopPendingHints, tool

\* StopInv holds in every behaviour of the coordinator.
LEMMA StopCorrect == Spec => [](TypeOK /\ StopInv)
<1>1. Init => TypeOK /\ StopInv
  BY BoundsAreNaturals
     DEF Init, TypeOK, FieldTypes, QueueTypes, CounterBounds, EntriesAreActive,
         StopInv
<1>2. TypeOK /\ StopInv /\ [Next]_vars => (TypeOK /\ StopInv)'
  <2>1. StopInv /\ UNCHANGED vars => StopInv'
    BY DEF StopInv, vars, tool
  <2> QED
    BY <2>1, TypeStep, StopStep
<1> QED
  BY <1>1, <1>2, PTL DEF Spec

(***************************************************************************)
(* Attendants.                                                             *)
(***************************************************************************)

\* An attendant stays one until it takes its call out of _entries.
LEMMA AttendantStays ==
    ASSUME FieldTypes, NEW c \in Calls, Attend(c), ~Finalize(c)
    PROVE  /\ UNCHANGED <<listed, reaping, stops>>
           /\ \A d \in Calls \ {c} : pc'[d] = pc[d] /\ status'[d] = status[d]
           /\ Attended(c) => pc'[c] \in {"yield", "top", "wait", "grace", "reap"}
           /\ ~Attended(c) => status'[c] = status[c]
<1> USE DEF FieldTypes, Attended
<1>1. CASE Top(c) \/ Wake(c)
  BY <1>1 DEF Top, Wake, Signalled, KillDeadlineReached, DeadlineReached,
              TimeOut, Grace, Offload, KeepForeground
<1>2. CASE TakeChunk(c) \/ Resume(c) \/ GraceEnds(c) \/ Hint(c)
  BY <1>2 DEF TakeChunk, Resume, GraceEnds, Hint
<1> QED
  BY <1>1, <1>2 DEF Attend

\* No other step takes an attendant away, but the second cancellation of the
\* agent's task does.
LEMMA OthersKeepAttendants ==
    ASSUME FieldTypes, NEW c \in Calls,
           Tool(c) \/ Passes(c) \/ (Intervene(c) /\ ~ParentCancelled(c)
                                    /\ ~ParentCancelledAgain(c))
    PROVE  UNCHANGED <<listed, status, pc, reaping, stops>>
BY DEF Tool, ToolStarts, ToolChunk, ToolEnds, ToolKilled, ArmKillDeadline,
       Passes, Intervene, RequestOffload, Cancel, CancelForce,
       ExtendOffloadDeadline, ExtendKillDeadline

\* A call is attended to, or abandoned with its signal set.
LEMMA AttendedFrame ==
    ASSUME ListedIsAttended, FieldTypes, Next,
           UNCHANGED <<listed, status, pc, reaping, stops>>
    PROVE  ListedIsAttended'
BY EventStays DEF ListedIsAttended, Attended

\* Every step keeps ListedIsAttended; the second cancellation finds the signal
\* of the first (StopInv).
LEMMA AttendedStep ==
    ASSUME TypeOK, StopInv, ListedIsAttended, Next
    PROVE  ListedIsAttended'
<1>0. FieldTypes /\ (stops \in Nat)
  BY BoundsAreNaturals DEF TypeOK, CounterBounds
<1>1. ASSUME NEW c \in Calls, Attend(c)
      PROVE  ListedIsAttended'
  <2>1. CASE Finalize(c)
    <3>1. ~listed'[c]
      BY <1>0, <2>1 DEF Finalize, Unlist, FieldTypes
    <3>2. \A d \in Calls \ {c} : /\ listed'[d] = listed[d]
                                 /\ pc'[d] = pc[d]
                                 /\ status'[d] = status[d]
      BY <1>0, <2>1 DEF Finalize, Unlist, FieldTypes
    <3>3. UNCHANGED <<event, reaping, stops>>
      BY <2>1 DEF Finalize
    <3> QED
      BY <3>1, <3>2, <3>3 DEF ListedIsAttended, Attended
  <2> QED
    BY <1>0, <1>1, <2>1, AttendantStays, EventStays
       DEF ListedIsAttended, Attended
<1>2. ASSUME NEW c \in Calls, Execute(c)
      PROVE  ListedIsAttended'
  BY <1>0, <1>2 DEF Execute, FieldTypes, ListedIsAttended, Attended
<1>3. ASSUME NEW c \in Calls, Intervene(c)
      PROVE  ListedIsAttended'
  <2>1. CASE ParentCancelled(c)
    <3>1. \A d \in Calls \ {c} : pc'[d] = pc[d] /\ reaping'[d] = reaping[d]
      BY <1>0, <2>1 DEF ParentCancelled, HandleParentCancel, TimeOut, Grace,
                        FieldTypes
    <3>2. pc'[c] \in {"grace", "reap"}
      BY <1>0, <2>1 DEF ParentCancelled, HandleParentCancel, TimeOut, Grace,
                        FieldTypes
    <3>3. UNCHANGED <<listed, status>> /\ stops' = stops + 1
      BY <2>1 DEF ParentCancelled
    <3> QED
      BY <1>0, <3>1, <3>2, <3>3, EventStays DEF ListedIsAttended, Attended
  <2>2. CASE ParentCancelledAgain(c)
    <3>1. \A d \in Calls \ {c} : pc'[d] = pc[d]
      BY <1>0, <2>2 DEF ParentCancelledAgain, FieldTypes
    <3>2. UNCHANGED <<listed, status, reaping, event>> /\ stops' = stops + 1
      BY <2>2 DEF ParentCancelledAgain
    <3>3. reaping[c] = "parent" /\ status[c] = "running" /\ event[c] /\ stops > 0
      BY <2>2 DEF ParentCancelledAgain, Running, StopInv
    <3> QED
      BY <1>0, <3>1, <3>2, <3>3 DEF ListedIsAttended, Attended
  <2> QED
    BY <1>0, <1>3, <2>1, <2>2, OthersKeepAttendants, AttendedFrame
<1> QED
  BY <1>0, <1>1, <1>2, <1>3, OthersKeepAttendants, AttendedFrame
     DEF Next, CancelRunningForSession, Configure, PopPendingHints, Shutdown,
         ShutdownEnds

\* A call in _entries has somebody who will finalize it, unless the agent's
\* task was cancelled twice (_handle_parent_cancel).
THEOREM ListedStaysAttended == Spec => []ListedIsAttended
<1>1. Init => ListedIsAttended
  BY DEF Init, ListedIsAttended
<1>2. TypeOK /\ StopInv /\ ListedIsAttended /\ [Next]_vars => ListedIsAttended'
  BY AttendedStep DEF vars, ListedIsAttended, Attended
<1> QED
  BY <1>1, <1>2, StopCorrect, PTL DEF Spec

(***************************************************************************)
(* A call in the background that is told to stop.                          *)
(***************************************************************************)

\* The supervisor has no offload deadline to wait for, and is where it
\* watches, waits for the grace or reaps.
BackInv ==
    \A c \in Calls :
        Offloaded(c) => offload[c] = "none" /\ pc[c] \in {"top", "wait", "grace", "reap"}

\* A step of the supervisor keeps it where it may be.
LEMMA SupervisorStays ==
    ASSUME FieldTypes, BackInv, NEW c \in Calls, Offloaded(c), Attend(c), Offloaded(c)'
    PROVE  offload'[c] = "none" /\ pc'[c] \in {"top", "wait", "grace", "reap"}
<1>0. /\ offload[c] = "none" /\ pc[c] \in {"top", "wait", "grace", "reap"} /\ ~Running(c)
      /\ pc \in [Calls -> {"none", "yield", "top", "wait", "grace", "reap",
                           "report", "done", "lost"}]
  BY DEF BackInv, FieldTypes, Offloaded, Running
<1>1. CASE Top(c) \/ Wake(c)
  BY <1>0, <1>1 DEF Top, Wake, Signalled, KillDeadlineReached, TimeOut, Grace, deadlines
<1>2. CASE GraceEnds(c)
  BY <1>0, <1>2 DEF GraceEnds, deadlines
<1>3. ~Finalize(c)
  BY DEF Finalize, Unlist, Offloaded, FieldTypes
<1>4. ~TakeChunk(c) /\ ~Resume(c) /\ ~Hint(c)
  BY <1>0 DEF TakeChunk, Resume, Hint
<1> QED
  BY <1>1, <1>2, <1>3, <1>4 DEF Attend

\* Nobody else moves the supervisor, or gives it an offload deadline.
LEMMA OthersLeaveSupervisor ==
    ASSUME FieldTypes, NEW c \in Calls, Offloaded(c), offload[c] = "none",
           Next, ~Attend(c)
    PROVE  pc'[c] = pc[c] /\ offload'[c] = "none"
<1> USE DEF FieldTypes, Offloaded
<1>1. ASSUME NEW d \in Calls, Attend(d)
      PROVE  pc'[c] = pc[c] /\ offload'[c] = "none"
  <2>1. d # c
    BY <1>1
  <2>2. CASE Top(d) \/ Wake(d)
    BY <2>1, <2>2 DEF Top, Wake, Signalled, KillDeadlineReached, DeadlineReached,
                TimeOut, Grace, Offload, KeepForeground, deadlines
  <2> QED
    BY <1>1, <2>1, <2>2
       DEF Attend, TakeChunk, Resume, GraceEnds, Finalize, Hint, deadlines
<1>2. ASSUME NEW d \in Calls, Tool(d)
      PROVE  pc'[c] = pc[c] /\ offload'[c] = "none"
  BY <1>2 DEF Tool, ToolStarts, ToolChunk, ToolEnds, ToolKilled, ArmKillDeadline, deadlines
<1>3. ASSUME NEW d \in Calls, Execute(d) \/ Passes(d)
      PROVE  pc'[c] = pc[c] /\ offload'[c] = "none"
  BY <1>3 DEF Execute, Passes
<1>4. ASSUME NEW d \in Calls, Intervene(d)
      PROVE  pc'[c] = pc[c] /\ offload'[c] = "none"
  <2>1. CASE ParentCancelled(d) \/ ParentCancelledAgain(d)
    BY <2>1 DEF ParentCancelled, ParentCancelledAgain, HandleParentCancel,
                TimeOut, Grace, Running, deadlines
  <2>2. CASE RequestOffload(d) \/ \E e \in {"none", "ahead"} : ExtendOffloadDeadline(d, e)
    BY <2>2 DEF RequestOffload, ExtendOffloadDeadline, Running
  <2> QED
    BY <1>4, <2>1, <2>2
       DEF Intervene, Cancel, CancelForce, ExtendKillDeadline, deadlines
<1>5. CASE CancelRunningForSession \/ Configure \/ PopPendingHints \/ Shutdown \/ ShutdownEnds
  BY <1>5 DEF CancelRunningForSession, Configure, PopPendingHints, Shutdown,
              ShutdownEnds, deadlines
<1> QED
  BY <1>1, <1>2, <1>3, <1>4, <1>5 DEF Next

\* A call comes into the background by its own generator, at its top.
LEMMA BackgroundBegins ==
    ASSUME FieldTypes, Next, NEW c \in Calls, ~Offloaded(c), Offloaded(c)'
    PROVE  offload'[c] = "none" /\ pc'[c] = "top"
<1> USE DEF FieldTypes, Offloaded
<1>1. ASSUME NEW d \in Calls, Top(d) \/ Wake(d)
      PROVE  offload'[c] = "none" /\ pc'[c] = "top"
  <2>1. UNCHANGED listed
    BY <1>1 DEF Top, Wake
  <2>2. \/ UNCHANGED status
        \/ /\ status' = [status EXCEPT ![d] = "offloaded"]
           /\ offload' = [offload EXCEPT ![d] = "none"] /\ pc' = [pc EXCEPT ![d] = "top"]
    BY <1>1 DEF Top, Wake, Signalled, KillDeadlineReached, DeadlineReached,
                Offload, KeepForeground
  <2> QED
    BY <2>1, <2>2
<1>2. ASSUME NEW d \in Calls, Execute(d) \/ Finalize(d)
      PROVE  FALSE
  BY <1>2 DEF Execute, Finalize, Unlist
<1>3. CASE UNCHANGED <<listed, status>>
  BY <1>3
<1>4. ASSUME NEW d \in Calls, TakeChunk(d) \/ Hint(d) \/ Tool(d) \/ Intervene(d)
      PROVE  UNCHANGED <<listed, status>>
  BY <1>4, QuietSteps
     DEF TakeChunk, Hint, Tool, ToolStarts, ToolChunk, ToolEnds, ToolKilled,
         Intervene, ParentCancelled, ParentCancelledAgain
<1> QED
  BY <1>1, <1>2, <1>3, <1>4, QuietSteps, QuietSessionSteps
     DEF Next, Attend, PopPendingHints

\* Every step keeps BackInv.
LEMMA BackStep ==
    ASSUME FieldTypes, BackInv, Next
    PROVE  BackInv'
<1> SUFFICES ASSUME NEW c \in Calls, Offloaded(c)'
             PROVE  offload'[c] = "none" /\ pc'[c] \in {"top", "wait", "grace", "reap"}
  BY DEF BackInv, Offloaded
<1>1. CASE ~Offloaded(c)
  BY <1>1, BackgroundBegins
<1>2. CASE Offloaded(c) /\ Attend(c)
  BY <1>2, SupervisorStays
<1>3. CASE Offloaded(c) /\ ~Attend(c)
  BY <1>3, OthersLeaveSupervisor DEF BackInv
<1> QED
  BY <1>1, <1>2, <1>3

\* BackInv always holds.
LEMMA BackCorrect == Spec => [](TypeOK /\ BackInv)
<1>1. Init => BackInv
  BY DEF Init, BackInv, Offloaded
<1>2. TypeOK /\ BackInv /\ [Next]_vars => BackInv'
  BY BackStep DEF TypeOK, BackInv, Offloaded, vars, deadlines
<1> QED
  BY <1>1, <1>2, TypeCorrect, PTL DEF Spec

\* The steps a supervisor is at most away from taking its call out of
\* _entries, once the call is told to stop.
StepsLeft(c) ==
    CASE pc[c] = "top" -> 3
      [] pc[c] = "wait" -> 2
      [] pc[c] = "grace" -> 1
      [] OTHER -> 0

\* With the signal set, a supervisor that stays does not look at the deadlines
\* twice: it goes on to the grace and to the reaping.
LEMMA SupervisorGoesOn ==
    ASSUME FieldTypes, BackInv, NEW c \in Calls, Offloaded(c), event[c],
           Attend(c), Offloaded(c)'
    PROVE  StepsLeft(c)' < StepsLeft(c)
<1>0. /\ offload[c] = "none" /\ pc[c] \in {"top", "wait", "grace", "reap"} /\ ~Running(c)
      /\ pc \in [Calls -> {"none", "yield", "top", "wait", "grace", "reap",
                           "report", "done", "lost"}]
  BY DEF BackInv, FieldTypes, Offloaded, Running
<1>1. CASE Top(c)
  <2>1. pc[c] = "top" /\ pc'[c] \in {"wait", "grace", "reap"}
    BY <1>0, <1>1 DEF Top, KillDeadlineReached, TimeOut, Grace
  <2> QED
    BY <2>1 DEF StepsLeft
<1>2. CASE Wake(c)
  <2>1. pc[c] = "wait" /\ pc'[c] \in {"grace", "reap"}
    BY <1>0, <1>2 DEF Wake, Signalled, Grace
  <2> QED
    BY <2>1 DEF StepsLeft
<1>3. CASE GraceEnds(c)
  <2>1. pc[c] = "grace" /\ pc'[c] = "reap"
    BY <1>0, <1>3 DEF GraceEnds
  <2> QED
    BY <2>1 DEF StepsLeft
<1>4. ~Finalize(c)
  BY DEF Finalize, Unlist, Offloaded, FieldTypes
<1>5. ~TakeChunk(c) /\ ~Resume(c) /\ ~Hint(c)
  BY <1>0 DEF TakeChunk, Resume, Hint
<1> QED
  BY <1>1, <1>2, <1>3, <1>4, <1>5 DEF Attend

\* A call in the background that was told to stop stays told so, and each step
\* of its supervisor brings it nearer to its end, whatever the user, the timers
\* and the tool do: what is left of CancelTakesEffect there is that the
\* supervisor's steps and the tool's end are taken.
THEOREM BackgroundStopGoesOn ==
    Spec => [][\A c \in Calls :
                  Offloaded(c) /\ event[c] /\ Offloaded(c)' =>
                      /\ event'[c] /\ StepsLeft(c)' <= StepsLeft(c)
                      /\ Attend(c) => StepsLeft(c)' < StepsLeft(c)]_vars
<1>1. ASSUME TypeOK, BackInv, Next, NEW c \in Calls, Offloaded(c), event[c], Offloaded(c)'
      PROVE  /\ event'[c] /\ StepsLeft(c)' <= StepsLeft(c)
             /\ Attend(c) => StepsLeft(c)' < StepsLeft(c)
  <2>1. FieldTypes
    BY <1>1 DEF TypeOK
  <2>2. event'[c]
    BY <1>1, <2>1, EventStays
  <2>3. Attend(c) => StepsLeft(c)' < StepsLeft(c)
    BY <1>1, <2>1, SupervisorGoesOn
  <2>4. StepsLeft(c) \in Nat /\ StepsLeft(c)' \in Nat
    BY DEF StepsLeft
  <2>5. ~Attend(c) => StepsLeft(c)' = StepsLeft(c)
    BY <1>1, <2>1, OthersLeaveSupervisor DEF StepsLeft, BackInv
  <2> QED
    BY <2>2, <2>3, <2>4, <2>5
<1>2. TypeOK /\ BackInv /\ [Next]_vars =>
         [\A c \in Calls :
             Offloaded(c) /\ event[c] /\ Offloaded(c)' =>
                 /\ event'[c] /\ StepsLeft(c)' <= StepsLeft(c)
                 /\ Attend(c) => StepsLeft(c)' < StepsLeft(c)]_vars
  BY <1>1
<1> QED
  BY <1>2, BackCorrect, PTL DEF Spec

(***************************************************************************)
(* Outcomes.                                                               *)
(***************************************************************************)

\* A success needs the tool's own result: the end state is only guessed when
\* the task ended without one, unsignalled, and then the tool returned.
OutcomeInv ==
    \A c \in Calls :
        /\ status[c] = "completed" => task[c] = "done"
        /\ endState[c] = "success" => task[c] = "done" /\ result[c] = "own"
        /\ task[c] = "done" /\ endState[c] = "none" /\ ~event[c] => result[c] = "own"

\* A step keeps OutcomeInv when it leaves the tools and their outcomes alone
\* and finalizes nothing.
LEMMA OutcomeFrame ==
    ASSUME OutcomeInv, FieldTypes, Next, UNCHANGED <<task, result, endState>>,
           \A c \in Calls : status'[c] = "completed" => status[c] = "completed"
    PROVE  OutcomeInv'
BY EventStays DEF OutcomeInv

\* Every step keeps OutcomeInv; a task that was cancelled before it ran has
\* its signal (StopInv).
LEMMA OutcomeStep ==
    ASSUME TypeOK, StopInv, OutcomeInv, Next
    PROVE  OutcomeInv'
<1>0. FieldTypes
  BY DEF TypeOK
<1>1. ASSUME NEW c \in Calls, Tool(c)
      PROVE  OutcomeInv'
  <2>1. UNCHANGED <<status, event>>
    BY <1>1 DEF Tool, ToolStarts, ToolChunk, ToolEnds, ToolKilled,
                ArmKillDeadline
  <2>2. CASE ToolStarts(c)
    BY <1>0, <2>1, <2>2 DEF ToolStarts, FieldTypes, OutcomeInv
  <2>3. ASSUME NEW outcome \in {"own", "error", "cancelled"}, ToolEnds(c, outcome)
        PROVE  OutcomeInv'
    <3>1. CASE outcome = "own"
      BY <1>0, <2>1, <2>3, <3>1 DEF ToolEnds, FieldTypes, OutcomeInv
    <3>2. CASE outcome = "error"
      BY <1>0, <2>1, <2>3, <3>2 DEF ToolEnds, FieldTypes, OutcomeInv
    <3>3. CASE outcome = "cancelled"
      BY <1>0, <2>1, <2>3, <3>3 DEF ToolEnds, FieldTypes, OutcomeInv
    <3> QED
      BY <3>1, <3>2, <3>3
  <2>4. CASE ToolKilled(c)
    <3>1. event[c]
      BY <2>4 DEF ToolKilled, StopInv
    <3> QED
      BY <1>0, <2>1, <2>4, <3>1 DEF ToolKilled, FieldTypes, OutcomeInv
  <2>5. CASE ToolChunk(c) \/ \E window \in {"far", "near"} : ArmKillDeadline(c, window)
    BY <1>0, <2>5, OutcomeFrame DEF ToolChunk, ArmKillDeadline, tool
  <2> QED
    BY <1>1, <2>2, <2>3, <2>4, <2>5 DEF Tool
<1>2. ASSUME NEW c \in Calls, Attend(c)
      PROVE  OutcomeInv'
  <2>1. CASE Finalize(c)
    BY <1>0, <2>1 DEF Finalize, FieldTypes, OutcomeInv
  <2>2. CASE Top(c) \/ Wake(c)
    <3>1. UNCHANGED <<task, result, endState>>
      BY <2>2 DEF Top, Wake, tool
    <3> QED
      BY <1>0, <2>2, <3>1, WatchMoves, OutcomeFrame DEF FieldTypes
  <2> QED
    BY <1>0, <1>2, <2>1, <2>2, OutcomeFrame
       DEF Attend, TakeChunk, Resume, GraceEnds, Hint, tool
<1>3. ASSUME NEW c \in Calls, Execute(c)
      PROVE  OutcomeInv'
  <2>1. task[c] = "none"
    BY <1>3 DEF Execute, TypeOK, EntriesAreActive
  <2> QED
    BY <1>0, <1>3, <2>1 DEF Execute, FieldTypes, OutcomeInv
<1>4. ASSUME NEW c \in Calls, Passes(c) \/ Intervene(c)
      PROVE  OutcomeInv'
  BY <1>0, <1>4, OutcomeFrame
     DEF Passes, Intervene, RequestOffload, Cancel, CancelForce,
         ExtendOffloadDeadline, ExtendKillDeadline, ParentCancelled,
         ParentCancelledAgain, tool
<1> QED
  BY <1>0, <1>1, <1>2, <1>3, <1>4, OutcomeFrame
     DEF Next, CancelRunningForSession, Configure, PopPendingHints, Shutdown,
         ShutdownEnds, tool

\* OutcomeInv holds in every behaviour of the coordinator.
LEMMA OutcomeInvCorrect == Spec => []OutcomeInv
<1>1. Init => OutcomeInv
  BY DEF Init, OutcomeInv
<1>2. TypeOK /\ StopInv /\ OutcomeInv /\ [Next]_vars => OutcomeInv'
  BY OutcomeStep DEF vars, tool, OutcomeInv
<1> QED
  BY <1>1, <1>2, StopCorrect, PTL DEF Spec

\* A call that is over leaves no task behind, and is a success only when the
\* tool itself returned (_finalize_completed).
THEOREM OutcomeStaysReal == Spec => []OutcomeIsReal
<1>1. StopInv /\ OutcomeInv => OutcomeIsReal
  BY DEF StopInv, OutcomeInv, OutcomeIsReal
<1> QED
  BY <1>1, StopCorrect, OutcomeInvCorrect, PTL

(***************************************************************************)
(* The refinement.                                                         *)
(***************************************************************************)

\* An attendant belongs to a call in _entries, and a call that is over is
\* only left to be reported: nobody finalizes it again.
AnswerInv ==
    \A c \in Calls :
        /\ Attended(c) => listed[c]
        /\ pc[c] = "report" => status[c] = "completed"
        /\ status[c] = "completed" => /\ pc[c] \in {"report", "done"}
                                     /\ endState[c] # "none"

\* A step keeps AnswerInv when it leaves these variables alone.
LEMMA AnswerFrame ==
    ASSUME AnswerInv, UNCHANGED <<status, listed, pc, endState>>
    PROVE  AnswerInv'
BY DEF AnswerInv, Attended

\* A tool sets the end state of a call that is not over.
LEMMA ToolOutcome ==
    ASSUME TypeOK, OutcomeInv, NEW c \in Calls, Tool(c)
    PROVE  /\ UNCHANGED <<status, listed, pc, hints>>
           /\ \A d \in Calls : status[d] = "completed" => endState'[d] = endState[d]
<1>1. UNCHANGED <<status, listed, pc, hints>>
  BY DEF Tool, ToolStarts, ToolChunk, ToolEnds, ToolKilled, ArmKillDeadline
<1>2. CASE UNCHANGED endState
  BY <1>1, <1>2
<1>3. CASE task[c] # "done" /\ \A d \in Calls \ {c} : endState'[d] = endState[d]
  BY <1>1, <1>3 DEF OutcomeInv
<1>4. ASSUME NEW outcome, ToolEnds(c, outcome)
      PROVE  task[c] # "done" /\ \A d \in Calls \ {c} : endState'[d] = endState[d]
  BY <1>4 DEF TypeOK, FieldTypes, ToolEnds
<1>5. ASSUME ToolKilled(c)
      PROVE  task[c] # "done" /\ \A d \in Calls \ {c} : endState'[d] = endState[d]
  BY <1>5 DEF TypeOK, FieldTypes, ToolKilled
<1> QED
  BY <1>2, <1>3, <1>4, <1>5 DEF Tool, ToolStarts, ToolChunk, ArmKillDeadline, tool

\* Every step keeps AnswerInv.
LEMMA AnswerStep ==
    ASSUME TypeOK, OutcomeInv, AnswerInv, Next
    PROVE  AnswerInv'
<1>0. FieldTypes
  BY DEF TypeOK
<1>1. ASSUME NEW c \in Calls, Tool(c)
      PROVE  AnswerInv'
  BY <1>1, ToolOutcome DEF AnswerInv, Attended
<1>2. ASSUME NEW c \in Calls, Attend(c)
      PROVE  AnswerInv'
  <2>1. CASE Finalize(c)
    BY <1>0, <2>1 DEF Finalize, Unlist, FieldTypes, AnswerInv, Attended
  <2>2. CASE Hint(c)
    BY <1>0, <2>2 DEF Hint, FieldTypes, AnswerInv, Attended, tool
  <2>3. CASE Top(c) \/ Wake(c)
    <3>1. UNCHANGED <<endState, listed>>
      BY <2>3 DEF Top, Wake, tool
    <3>2. listed[c] /\ status[c] # "completed"
      BY <2>3 DEF Top, Wake, AnswerInv, Attended, TypeOK, EntriesAreActive
    <3>3. \A d \in Calls \ {c} : pc'[d] = pc[d] /\ status'[d] = status[d]
      BY <1>0, <1>2, <2>3, AttendantStays DEF Top, Wake, Finalize
    <3>4. status'[c] # "completed" /\ pc'[c] # "report"
      BY <1>0, <1>2, <2>3, <3>2, WatchMoves, AttendantStays
         DEF FieldTypes, Top, Wake, Finalize, Attended
    <3> QED
      BY <3>1, <3>2, <3>3, <3>4 DEF AnswerInv, Attended
  <2>4. CASE TakeChunk(c) \/ Resume(c) \/ GraceEnds(c)
    <3>1. UNCHANGED <<status, endState, listed>>
      BY <2>4 DEF TakeChunk, Resume, GraceEnds, tool
    <3>2. listed[c] /\ status[c] # "completed"
      BY <2>4 DEF TakeChunk, Resume, GraceEnds, AnswerInv, Attended, TypeOK,
                  EntriesAreActive
    <3>3. pc'[c] # "report" /\ \A d \in Calls \ {c} : pc'[d] = pc[d]
      BY <1>0, <2>4 DEF TakeChunk, Resume, GraceEnds, FieldTypes
    <3> QED
      BY <3>1, <3>2, <3>3 DEF AnswerInv, Attended
  <2> QED
    BY <1>2, <2>1, <2>2, <2>3, <2>4 DEF Attend
<1>3. ASSUME NEW c \in Calls, Execute(c)
      PROVE  AnswerInv'
  BY <1>0, <1>3 DEF Execute, FieldTypes, AnswerInv, Attended
<1>4. ASSUME NEW c \in Calls, ParentCancelled(c) \/ ParentCancelledAgain(c)
      PROVE  AnswerInv'
  <2>1. Running(c) /\ UNCHANGED <<status, listed, endState>>
    BY <1>4 DEF ParentCancelled, ParentCancelledAgain, tool
  <2>2. pc'[c] # "report" /\ \A d \in Calls \ {c} : pc'[d] = pc[d]
    BY <1>0, <1>4 DEF ParentCancelled, ParentCancelledAgain,
                      HandleParentCancel, TimeOut, Grace, FieldTypes
  <2> QED
    BY <2>1, <2>2 DEF AnswerInv, Attended, Running
<1>5. ASSUME NEW c \in Calls, Passes(c) \/ Intervene(c)
      PROVE  AnswerInv'
  BY <1>4, <1>5, AnswerFrame
     DEF Passes, Intervene, RequestOffload, Cancel, CancelForce,
         ExtendOffloadDeadline, ExtendKillDeadline, tool
<1> QED
  BY <1>1, <1>2, <1>3, <1>5, AnswerFrame
     DEF Next, CancelRunningForSession, Configure, PopPendingHints, Shutdown,
         ShutdownEnds, tool

\* AnswerInv holds in every behaviour of the coordinator.
LEMMA AnswerInvCorrect == Spec => []AnswerInv
<1>1. Init => AnswerInv
  BY DEF Init, AnswerInv, Attended
<1>2. TypeOK /\ OutcomeInv /\ AnswerInv /\ [Next]_vars => AnswerInv'
  BY AnswerStep DEF vars, tool, AnswerInv, Attended
<1> QED
  BY <1>1, <1>2, TypeCorrect, OutcomeInvCorrect, PTL DEF Spec

\* What the abstract specification sees of the calls.
Phases == [c \in Calls |-> PhaseOf(c)]
OutcomesSoFar == [c \in Calls |-> OutcomeOf(c)]

\* A step that changes neither a status, nor the end state of a call that is
\* over, nor whether one is still to be reported, is not seen.
LEMMA Unseen ==
    ASSUME UNCHANGED status,
           \A c \in Calls : status[c] = "completed" =>
               /\ endState'[c] = endState[c]
               /\ (pc[c] = "report") <=> (pc'[c] = "report")
    PROVE  UNCHANGED <<Phases, OutcomesSoFar>>
<1>1. ASSUME NEW c \in Calls
      PROVE  PhaseOf(c)' = PhaseOf(c) /\ OutcomeOf(c)' = OutcomeOf(c)
  BY DEF PhaseOf, OutcomeOf
<1> QED
  BY <1>1 DEF Phases, OutcomesSoFar

\* A step that moves one call to another phase changes the phases at this call
\* only.
LEMMA OnePhase ==
    ASSUME NEW c \in Calls, NEW to, PhaseOf(c)' = to,
           \A d \in Calls \ {c} : status'[d] = status[d] /\ pc'[d] = pc[d]
    PROVE  Phases' = [Phases EXCEPT ![c] = to]
<1>1. \A d \in Calls \ {c} : PhaseOf(d)' = PhaseOf(d)
  BY DEF PhaseOf
<1> QED
  BY <1>1 DEF Phases

\* The same for the outcomes.
LEMMA OneOutcome ==
    ASSUME NEW c \in Calls, NEW o, OutcomeOf(c)' = o,
           \A d \in Calls \ {c} : status'[d] = status[d] /\ endState'[d] = endState[d]
    PROVE  OutcomesSoFar' = [OutcomesSoFar EXCEPT ![c] = o]
<1>1. \A d \in Calls \ {c} : OutcomeOf(d)' = OutcomeOf(d)
  BY DEF OutcomeOf
<1> QED
  BY <1>1 DEF OutcomesSoFar

\* A call that moves without coming to its end has no outcome yet.
LEMMA NoOutcomeYet ==
    ASSUME NEW c \in Calls, OutcomeOf(c)' = OutcomeOf(c),
           \A d \in Calls \ {c} : status'[d] = status[d] /\ endState'[d] = endState[d]
    PROVE  UNCHANGED OutcomesSoFar
<1>1. \A d \in Calls : OutcomeOf(d)' = OutcomeOf(d)
  BY DEF OutcomeOf
<1> QED
  BY <1>1 DEF OutcomesSoFar

\* An attendant that finalizes answers, or ends the call in the background.
LEMMA FinalizeAnswers ==
    ASSUME TypeOK, AnswerInv, NEW c \in Calls, Finalize(c)
    PROVE  \E o \in {"success", "error", "interrupted"} :
               Answers!Answer(c, o) \/ Answers!End(c, o)
<1>1. listed[c] /\ status[c] \in {"running", "offloaded"}
  BY DEF Finalize, AnswerInv, Attended, TypeOK, EntriesAreActive
<1> DEFINE o == endState'[c]
<1>2. o \in {"success", "error", "interrupted"}
  BY DEF Finalize, TypeOK, FieldTypes
<1>3. /\ status'[c] = "completed"
      /\ pc'[c] = IF status[c] = "offloaded" THEN "report" ELSE "done"
      /\ UNCHANGED hints
  BY DEF Finalize, Reports, TypeOK, FieldTypes
<1>4. \A d \in Calls \ {c} : /\ status'[d] = status[d]
                             /\ pc'[d] = pc[d]
                             /\ endState'[d] = endState[d]
  BY DEF Finalize, TypeOK, FieldTypes
<1>5. OutcomesSoFar' = [OutcomesSoFar EXCEPT ![c] = o]
  BY <1>3, <1>4, OneOutcome DEF OutcomeOf
<1>6. CASE status[c] = "running"
  <2>1. Phases' = [Phases EXCEPT ![c] = "over"]
    BY <1>3, <1>4, <1>6, OnePhase DEF PhaseOf
  <2>2. Phases[c] = "asked"
    BY <1>6 DEF Phases, PhaseOf
  <2> QED
    BY <1>2, <1>3, <1>5, <2>1, <2>2
       DEF Answers!Answer, Answers!ComeTo, Phases, OutcomesSoFar
<1>7. CASE status[c] = "offloaded"
  <2>1. Phases' = [Phases EXCEPT ![c] = "ended"]
    BY <1>3, <1>4, <1>7, OnePhase DEF PhaseOf
  <2>2. Phases[c] = "background"
    BY <1>7 DEF Phases, PhaseOf
  <2> QED
    BY <1>2, <1>3, <1>5, <2>1, <2>2
       DEF Answers!End, Answers!ComeTo, Phases, OutcomesSoFar
<1> QED
  BY <1>1, <1>6, <1>7

\* Looking at the signals and deadlines is a stutter, or tells the agent that
\* the call goes on in the background.
LEMMA WatchGoesOn ==
    ASSUME TypeOK, AnswerInv, NEW c \in Calls, Top(c) \/ Wake(c)
    PROVE  Answers!GoOn(c) \/ UNCHANGED Answers!answerVars
<1>1. UNCHANGED <<endState, hints>>
  BY DEF Top, Wake, tool
<1>2. listed[c] /\ status[c] # "completed"
  BY DEF Top, Wake, AnswerInv, Attended, TypeOK, EntriesAreActive
<1>3. \A d \in Calls \ {c} : pc'[d] = pc[d] /\ status'[d] = status[d]
  BY AttendantStays DEF Top, Wake, Finalize, Attend, TypeOK
<1>4. CASE UNCHANGED status
  <2>1. UNCHANGED <<Phases, OutcomesSoFar>>
    BY <1>1, <1>2, <1>3, <1>4, Unseen
  <2> QED
    BY <1>1, <2>1 DEF Answers!answerVars, Phases, OutcomesSoFar
<1>5. CASE Running(c) /\ status' = [status EXCEPT ![c] = "offloaded"]
  <2>1. status[c] = "running" /\ status'[c] = "offloaded"
    BY <1>5 DEF Running, TypeOK, FieldTypes
  <2>2. Phases' = [Phases EXCEPT ![c] = "background"]
    BY <1>3, <2>1, OnePhase DEF PhaseOf
  <2>3. UNCHANGED OutcomesSoFar
    BY <1>1, <1>3, <2>1, NoOutcomeYet DEF OutcomeOf
  <2>4. Phases[c] = "asked"
    BY <2>1 DEF Phases, PhaseOf
  <2> QED
    BY <1>1, <2>2, <2>3, <2>4 DEF Answers!GoOn, Phases, OutcomesSoFar
<1> QED
  BY <1>4, <1>5, WatchMoves

\* The hint of the supervisor is the report.
LEMMA HintReports ==
    ASSUME TypeOK, AnswerInv, NEW c \in Calls, Hint(c)
    PROVE  Answers!Report(c)
<1>1. pc[c] = "report" /\ status[c] = "completed" /\ pc'[c] = "done"
  BY DEF Hint, AnswerInv, TypeOK, FieldTypes
<1>2. \A d \in Calls \ {c} : pc'[d] = pc[d]
  BY DEF Hint, TypeOK, FieldTypes
<1>3. UNCHANGED <<status, endState>> /\ hints' = Append(hints, c)
  BY DEF Hint, tool
<1>4. Phases' = [Phases EXCEPT ![c] = "over"]
  BY <1>1, <1>2, <1>3, OnePhase DEF PhaseOf
<1>5. UNCHANGED OutcomesSoFar
  BY <1>3 DEF OutcomesSoFar, OutcomeOf
<1>6. Phases[c] = "ended"
  BY <1>1 DEF Phases, PhaseOf
<1> QED
  BY <1>3, <1>4, <1>5, <1>6 DEF Answers!Report, Phases, OutcomesSoFar

\* The agent asks by execute.
LEMMA ExecuteAsks ==
    ASSUME TypeOK, NEW c \in Calls, Execute(c)
    PROVE  Answers!Ask(c)
<1>1. status[c] = "none" /\ status'[c] = "running" /\ UNCHANGED <<endState, hints>>
  BY DEF Execute, TypeOK, FieldTypes
<1>2. \A d \in Calls \ {c} : status'[d] = status[d] /\ pc'[d] = pc[d]
  BY DEF Execute, TypeOK, FieldTypes
<1>3. Phases' = [Phases EXCEPT ![c] = "asked"]
  BY <1>1, <1>2, OnePhase DEF PhaseOf
<1>4. UNCHANGED OutcomesSoFar
  BY <1>1, <1>2, NoOutcomeYet DEF OutcomeOf
<1>5. Phases[c] = "new"
  BY <1>1 DEF Phases, PhaseOf
<1> QED
  BY <1>1, <1>3, <1>4, <1>5 DEF Answers!Ask, Phases, OutcomesSoFar

\* No other step is seen, but the agent's reading of the hints.
LEMMA OthersStutter ==
    ASSUME TypeOK, OutcomeInv, AnswerInv, NEW c \in Calls,
           \/ Tool(c) \/ Passes(c) \/ Intervene(c)
           \/ TakeChunk(c) \/ Resume(c) \/ GraceEnds(c)
    PROVE  UNCHANGED Answers!answerVars
<1>1. UNCHANGED <<status, hints>>
  BY DEF Tool, ToolStarts, ToolChunk, ToolEnds, ToolKilled, ArmKillDeadline,
         Passes, Intervene, RequestOffload, Cancel, CancelForce,
         ExtendOffloadDeadline, ExtendKillDeadline, ParentCancelled,
         ParentCancelledAgain, TakeChunk, Resume, GraceEnds
<1>2. \A d \in Calls : status[d] = "completed" => endState'[d] = endState[d]
  BY ToolOutcome
     DEF Passes, Intervene, RequestOffload, Cancel, CancelForce,
         ExtendOffloadDeadline, ExtendKillDeadline, ParentCancelled,
         ParentCancelledAgain, TakeChunk, Resume, GraceEnds, tool
<1>3. \A d \in Calls : status[d] = "completed" => pc'[d] = pc[d]
  <2>1. CASE Tool(c) \/ Passes(c)
    BY <2>1 DEF Tool, ToolStarts, ToolChunk, ToolEnds, ToolKilled,
                ArmKillDeadline, Passes
  <2>2. CASE Intervene(c)
    <3>1. UNCHANGED pc \/ (Running(c) /\ \A d \in Calls \ {c} : pc'[d] = pc[d])
      BY <2>2 DEF Intervene, RequestOffload, Cancel, CancelForce,
                  ExtendOffloadDeadline, ExtendKillDeadline, ParentCancelled,
                  ParentCancelledAgain, HandleParentCancel, TimeOut, Grace,
                  TypeOK, FieldTypes
    <3> QED
      BY <3>1 DEF Running
  <2>3. CASE TakeChunk(c) \/ Resume(c) \/ GraceEnds(c)
    <3>1. pc[c] \in {"wait", "yield", "grace"}
      BY <2>3 DEF TakeChunk, Resume, GraceEnds
    <3>2. \A d \in Calls \ {c} : pc'[d] = pc[d]
      BY <2>3 DEF TakeChunk, Resume, GraceEnds, TypeOK, FieldTypes
    <3> QED
      BY <3>1, <3>2 DEF AnswerInv
  <2> QED
    BY <2>1, <2>2, <2>3
<1>4. UNCHANGED <<Phases, OutcomesSoFar>>
  BY <1>1, <1>2, <1>3, Unseen
<1> QED
  BY <1>1, <1>4 DEF Answers!answerVars, Phases, OutcomesSoFar

\* Every step of the coordinator is a step of ToolAnswers, or a stutter.
LEMMA AnswersStep ==
    ASSUME TypeOK, OutcomeInv, AnswerInv, [Next]_vars
    PROVE  [Answers!Next]_Answers!answerVars
<1>1. ASSUME NEW c \in Calls, Attend(c)
      PROVE  [Answers!Next]_Answers!answerVars
  <2>1. CASE Top(c) \/ Wake(c)
    BY <2>1, WatchGoesOn DEF Answers!Next
  <2>2. CASE Finalize(c)
    BY <2>2, FinalizeAnswers DEF Answers!Next
  <2>3. CASE Hint(c)
    BY <2>3, HintReports DEF Answers!Next
  <2> QED
    BY <1>1, <2>1, <2>2, <2>3, OthersStutter DEF Attend
<1>2. ASSUME NEW c \in Calls, Execute(c)
      PROVE  Answers!Next
  BY <1>2, ExecuteAsks DEF Answers!Next
<1>3. ASSUME \/ UNCHANGED vars \/ CancelRunningForSession \/ Configure
             \/ Shutdown \/ ShutdownEnds
      PROVE  UNCHANGED Answers!answerVars
  <2>1. UNCHANGED <<status, pc, endState, hints>>
    BY <1>3 DEF vars, CancelRunningForSession, Configure, Shutdown,
                ShutdownEnds, tool
  <2> QED
    BY <2>1 DEF Answers!answerVars, PhaseOf, OutcomeOf
<1>4. ASSUME PopPendingHints
      PROVE  Answers!Next
  <2>1. UNCHANGED <<status, pc, endState>> /\ hints' = <<>>
    BY <1>4 DEF PopPendingHints, tool
  <2> QED
    BY <2>1 DEF Answers!Next, Answers!ReadReports, PhaseOf, OutcomeOf
<1> QED
  BY <1>1, <1>2, <1>3, <1>4, OthersStutter DEF Next

\* However the tool, its deadlines, cancellations and a shutdown race, a call
\* is answered exactly once, and its outcome never changes afterwards: the
\* coordinator implements ToolAnswers.
THEOREM AnswersOnce == Spec => ImplementsToolAnswers
<1>1. Init => Answers!Init
  BY DEF Init, Answers!Init, PhaseOf, OutcomeOf
<1>2. TypeOK /\ OutcomeInv /\ AnswerInv /\ [Next]_vars
        => [Answers!Next]_Answers!answerVars
  BY AnswersStep
<1> QED
  BY <1>1, <1>2, TypeCorrect, OutcomeInvCorrect, AnswerInvCorrect, PTL
     DEF Spec, ImplementsToolAnswers, Answers!Spec
=============================================================================
