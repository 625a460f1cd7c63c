------------------------- MODULE AgentReloadProofs -------------------------
(***************************************************************************)
(* Proofs about AgentReload, for every set of workspaces, reloads,         *)
(* requests and memory settings, and every number of edits.                *)
(***************************************************************************)
EXTENDS AgentReload, FiniteSetTheorems, TLAPS

(***************************************************************************)
(* The inductive invariants.                                               *)
(***************************************************************************)

\* The workspace is being started or is up, and is not being stopped.
Up(w) == life[w] \in {"created", "built", "running"}

Starting(q) == request[q] = "starting"

\* What serves is running, or being stopped under the lock.
ServingInv ==
    /\ agents # NoWs => life[agents] = IF locked THEN "stopping" ELSE "running"
    /\ locked => agents # NoWs

\* Only one request starts the agent, and nothing serves meanwhile.
StarterInv ==
    /\ \A q \in Requests : Starting(q) =>
          /\ owner[q] = pending /\ pending \in Workspaces /\ Up(pending)
          /\ agents = NoWs
    /\ \A p, q \in Requests : Starting(p) /\ Starting(q) => p = q

\* A reload in its last part has a candidate of its own.
CandidateInv ==
    \A r \in Reloads :
        /\ (candidate[r] # NoWs) <=> (call[r] = "building")
        /\ candidate[r] # NoWs =>
              /\ Up(candidate[r]) /\ candidate[r] # agents
              /\ \A q \in Requests : Starting(q) => owner[q] # candidate[r]
              /\ \A t \in Reloads : candidate[t] = candidate[r] => t = r

\* What is up is in somebody's hands.
HeldInv ==
    \A w \in Workspaces :
        /\ Up(w) => \/ agents = w
                    \/ \E r \in Reloads : candidate[r] = w
                    \/ \E q \in Requests : Starting(q) /\ owner[q] = w
        /\ life[w] = "stopping" => agents = w

HolderInv == ServingInv /\ StarterInv /\ CandidateInv /\ HeldInv

\* A run that came in time is on the workspace that serves, or its workspace
\* waits for it, or was removed.
RunInv ==
    \A q \in Requests :
        /\ request[q] \in {"starting", "held", "running", "restarting"} =>
              owner[q] \in Workspaces
        /\ q \notin late /\ Live(q) =>
              \/ owner[q] = agents
              \/ life[owner[q]] = "retiring" /\ q \in drains[owner[q]]
              \/ life[owner[q]] = "removed"

\* A workspace has a memory service from its build on, a candidate before; it
\* is its own, or that of one that has served.
Served(w) == w = agents \/ life[w] \in {"stopping", "retiring", "stopped", "removed"}

MadeInv ==
    \A w \in Workspaces :
        /\ life[w] = "unused" => ~borrowed[w] /\ memory[w] = NoWs
        /\ life[w] = "created" => (borrowed[w] <=> memory[w] # NoWs)
        /\ life[w] \in {"built", "running", "stopping", "retiring"} => memory[w] # NoWs
        /\ memory[w] # NoWs => life[memory[w]] \notin {"unused", "created"}
        /\ memory[w] # NoWs /\ memory[w] # w => Served(memory[w])
        /\ life[w] \in {"built", "running"} /\ w # agents /\ ~borrowed[w] =>
              memory[w] = w /\ w \in open
        /\ ~lends[w] => life[w] \in {"retiring", "stopped"}

\* The candidate's services are up.
Built(c) == life[c] \in {"built", "running"}

\* No change was noted since the reload began.
Current(r) == captured[r] = generation

\* A candidate that may be installed has the config and the settings of now.
FreshInv ==
    \A r \in Reloads :
        candidate[r] # NoWs /\ Current(r) /\ Built(candidate[r]) =>
            /\ config[candidate[r]] >= noted
            /\ settings[memory[candidate[r]]] = backend

\* A reload knows who lent its candidate a memory service; a candidate that
\* may be installed uses that of the workspace that serves, or its lender's
\* did not fit the settings of now.
LentOf(r) ==
    LET c == candidate[r]
        l == lent[r] IN
    /\ call[r] \in {"preparing", "building"} => agents # NoWs
    /\ c # NoWs =>
          /\ l # NoWs /\ life[l] \notin {"unused", "created"} /\ memory[l] # NoWs
          /\ life[c] = "created" => memory[c] = memory[l]
          /\ Current(r) /\ life[c] = "created" /\ settings[memory[c]] = backend
                => memory[c] = memory[agents]
          /\ Current(r) /\ Built(c) /\ borrowed[c] => memory[c] = memory[agents]
          /\ Current(r) /\ Built(c) /\ ~borrowed[c] => settings[memory[l]] # backend

LentInv == \A r \in Reloads : LentOf(r)

\* The memory service in use is open, and no retiring workspace will close it.
OpenInv ==
    /\ agents # NoWs => memory[agents] \in open
    /\ \A w \in Workspaces :
          agents # NoWs /\ life[w] = "retiring" /\ ~Kept(w) => memory[w] # memory[agents]
    /\ \A q \in Requests : Starting(q) => ~borrowed[owner[q]]

\* Whoever will close an open memory service.
ClosedBy(m) ==
    \/ agents # NoWs /\ memory[agents] = m
    \/ Built(m) /\ m # agents /\ ~borrowed[m]
    \/ \E w \in Workspaces : life[w] = "retiring" /\ memory[w] = m /\ ~Kept(w)

UserInv == \A m \in open : ClosedBy(m)

Shared == LentInv /\ OpenInv /\ UserInv

SharedInv == ~crossed /\ ~misbooked => Shared

(***************************************************************************)
(* Types.                                                                  *)
(***************************************************************************)

\* The actions, one by one.
LEMMA Steps ==
    ASSUME [Next]_vars
    PROVE  \/ \E q \in Requests :
                 \/ RequestHolds(q) \/ RequestWaits(q) \/ RequestFails(q)
                 \/ Install(q) \/ RunStarts(q) \/ RunEnds(q)
           \/ \E q \in Requests, w \in Workspaces : RequestStarts(q, w)
           \/ \E w \in Workspaces :
                 Build(w) \/ FinishStart(w) \/ StartFails(w) \/ Retire(w)
           \/ \E r \in Reloads :
                 \/ \E b \in Backends : SaveConfig(r, b)
                 \/ \E w \in Workspaces : WatcherNotices(w, r)
                 \/ \E q \in Requests : Restart(q, r)
                 \/ ReloadBegins(r) \/ ReloadChecks(r)
                 \/ \E c \in Workspaces : Prepare(r, c)
                 \/ SwapRefused(r) \/ SwapCommits(r)
           \/ ReleaseWaiters \/ EditFile \/ StopBegins \/ StopEnds
           \/ UNCHANGED vars
BY DEF Next, GetAgent, Start, Trigger, Reload

\* The file and the counters.
LEMMA FileTypesStep ==
    ASSUME TypeOK, [Next]_vars
    PROVE  /\ FileTypes' /\ version <= version' /\ version' \in Nat /\ version \in Nat
           /\ noted' = noted \/ (generation' = generation + 1 /\ noted' = version')
<1>1. \/ UNCHANGED fileVars
      \/ \E b \in Backends : /\ version < MaxEdits /\ version' = version + 1
                             /\ backend' = b /\ noted' = version'
                             /\ generation' = generation + 1
      \/ /\ version < MaxEdits /\ version' = version + 1
         /\ UNCHANGED <<backend, noted>>
      \/ /\ noted' = version /\ UNCHANGED <<version, backend>>
         /\ generation' = generation + 1
  BY Steps, ZenonT(60)
     DEF RequestHolds, RequestWaits, RequestFails, Install, RunStarts, RunEnds,
         RequestStarts, Claims, Build, Builds, FinishStart, StartFails, Retire,
         StopOld, SaveConfig, WatcherNotices, Restart, ReloadBegins,
         ReloadChecks, Prepare, SwapRefused, Swaps, SwapCommits,
         ReleaseWaiters, EditFile, StopBegins, StopEnds, Removes, fileVars, vars
<1> QED
  BY <1>1, MaxEditsAssumption DEF TypeOK, FileTypes, fileVars

\* The manager's own variables.
LEMMA ManagerTypesStep ==
    ASSUME TypeOK, [Next]_vars
    PROVE  ManagerTypes' /\ generation <= generation'
<1>0. ManagerTypes /\ CallTypes /\ RequestTypes
  BY DEF TypeOK
<1>1. agents' \in Workspaces \cup {NoWs}
  <2>1. \/ UNCHANGED agents \/ agents' = NoWs
        \/ \E q \in Requests : agents' = owner[q]
        \/ \E r \in Reloads : agents' = candidate[r]
    BY Steps
       DEF RequestHolds, RequestWaits, RequestFails, Install, RunStarts,
           RunEnds, RequestStarts, Claims, Build, Builds, FinishStart,
           StartFails, Retire, StopOld, SaveConfig, WatcherNotices, Restart,
           ReloadBegins, ReloadChecks, Prepare, SwapRefused, Swaps,
           SwapCommits, Commit, ReleaseWaiters, EditFile, StopBegins,
           StopEnds, Removes, vars
  <2> QED
    BY <1>0, <2>1 DEF ManagerTypes, CallTypes, RequestTypes
<1>2. locked' \in BOOLEAN /\ pending' \in Workspaces \cup {NoWs}
  <2>1. /\ UNCHANGED locked \/ locked' \in BOOLEAN
        /\ UNCHANGED pending \/ pending' \in Workspaces \cup {NoWs}
    BY Steps
       DEF RequestHolds, RequestWaits, RequestFails, Install, RunStarts,
           RunEnds, RequestStarts, Claims, Build, Builds, FinishStart,
           StartFails, Retire, StopOld, SaveConfig, WatcherNotices, Restart,
           ReloadBegins, ReloadChecks, Prepare, SwapRefused, Swaps,
           SwapCommits, ReleaseWaiters, EditFile, StopBegins,
           StopEnds, Removes, vars
  <2> QED
    BY <1>0, <2>1 DEF ManagerTypes
<1>3. generation' \in Nat /\ generation <= generation'
  <2>1. UNCHANGED generation \/ generation' = generation + 1
    BY Steps
       DEF RequestHolds, RequestWaits, RequestFails, Install, RunStarts,
           RunEnds, RequestStarts, Claims, Build, Builds, FinishStart,
           StartFails, Retire, StopOld, SaveConfig, WatcherNotices, Restart,
           ReloadBegins, ReloadChecks, Prepare, SwapRefused, Swaps,
           SwapCommits, ReleaseWaiters, EditFile, StopBegins,
           StopEnds, Removes, vars
  <2> QED
    BY <1>0, <2>1 DEF ManagerTypes
<1>4. crossed' \in BOOLEAN /\ misbooked' \in BOOLEAN
  <2>1. /\ UNCHANGED crossed
           \/ crossed' = (crossed \/ \E r \in Reloads : call[r] \in {"preparing", "building"})
        /\ UNCHANGED misbooked
           \/ \E r \in Reloads :
                 misbooked' = (misbooked \/ ((lent[r] # NoWs /\ ~borrowed[candidate[r]])
                                             /\ lent[r] # agents))
    BY Steps
       DEF RequestHolds, RequestWaits, RequestFails, Install, RunStarts,
           RunEnds, RequestStarts, Claims, Build, Builds, FinishStart,
           StartFails, Retire, StopOld, SaveConfig, WatcherNotices, Restart,
           ReloadBegins, ReloadChecks, Prepare, SwapRefused, Swaps,
           SwapCommits, Commit, ReleaseWaiters, EditFile, StopBegins,
           StopEnds, Removes, historyVars, vars
  <2> QED
    BY <1>0, <2>1 DEF ManagerTypes
<1> QED
  BY <1>1, <1>2, <1>3, <1>4 DEF ManagerTypes

\* The workspaces.
LEMMA WorkspaceTypesStep ==
    ASSUME TypeOK, [Next]_vars
    PROVE  WorkspaceTypes'
<1>0. WorkspaceTypes /\ FileTypes /\ version <= version' /\ version' \in Nat /\ version \in Nat
  BY FileTypesStep DEF TypeOK
<1>1. life' \in [Workspaces -> Life]
  <2>1. \/ UNCHANGED life
        \/ \E w, l : l \in Life /\ life' = [life EXCEPT ![w] = l]
    BY Steps
       DEF RequestHolds, RequestWaits, RequestFails, Install, RunStarts,
           RunEnds, RequestStarts, Claims, Build, Builds, FinishStart,
           StartFails, Discard, Retire, StopOld, SaveConfig, WatcherNotices,
           Restart, ReloadBegins, ReloadChecks, Prepare, SwapRefused, Swaps,
           SwapCommits, Commit, ReleaseWaiters, EditFile, StopBegins,
           StopEnds, Removes, wsVars, vars, Life
  <2> QED
    BY <1>0, <2>1 DEF WorkspaceTypes
<1>2. config' \in [Workspaces -> 0 .. version'] /\ seen' \in [Workspaces -> 0 .. version']
  <2>1. \/ UNCHANGED <<config, seen>>
        \/ /\ UNCHANGED <<seen, version>>
           /\ \E w : config' = [config EXCEPT ![w] = version]
        \/ /\ UNCHANGED <<config, version>>
           /\ \E w : seen' = [seen EXCEPT ![w] = version]
    BY Steps, ZenonT(60)
       DEF RequestHolds, RequestWaits, RequestFails, Install, RunStarts,
           RunEnds, RequestStarts, Claims, Build, Builds, FinishStart,
           StartFails, Discard, Retire, StopOld, SaveConfig, WatcherNotices,
           Restart, ReloadBegins, ReloadChecks, Prepare, SwapRefused, Swaps,
           SwapCommits, Commit, ReleaseWaiters, EditFile, StopBegins,
           StopEnds, Removes, fileVars, wsVars, vars
  <2>2. \A n \in 0 .. version : n \in 0 .. version'
    BY <1>0
  <2>3. version \in 0 .. version
    BY <1>0
  <2> QED
    BY <1>0, <2>1, <2>2, <2>3 DEF WorkspaceTypes
<1>3. watching' \in [Workspaces -> BOOLEAN] /\ lends' \in [Workspaces -> BOOLEAN]
  <2>1. /\ UNCHANGED watching
           \/ \E w, b : b \in BOOLEAN /\ watching' = [watching EXCEPT ![w] = b]
        /\ UNCHANGED lends
           \/ \E w, b : b \in BOOLEAN /\ lends' = [lends EXCEPT ![w] = lends[w] /\ b]
    <3>1. ASSUME NEW r \in Reloads, SwapCommits(r)
          PROVE  UNCHANGED watching
                 /\ \E w, b : b \in BOOLEAN /\ lends' = [lends EXCEPT ![w] = lends[w] /\ b]
      BY <3>1 DEF SwapCommits, Commit
    <3> QED
      BY Steps, <3>1
         DEF RequestHolds, RequestWaits, RequestFails, Install, RunStarts,
             RunEnds, RequestStarts, Claims, Build, Builds, FinishStart,
             StartFails, Discard, Retire, StopOld, SaveConfig, WatcherNotices,
             Restart, ReloadBegins, ReloadChecks, Prepare, SwapRefused, Swaps,
             ReleaseWaiters, EditFile, StopBegins,
             StopEnds, Removes, wsVars, vars
  <2> QED
    BY <1>0, <2>1 DEF WorkspaceTypes
<1>4. drains' \in [Workspaces -> SUBSET Requests]
  <2>1. UNCHANGED drains \/ \E w : drains' = [drains EXCEPT ![w] = RunsOf(w)]
    BY Steps
       DEF RequestHolds, RequestWaits, RequestFails, Install, RunStarts,
           RunEnds, RequestStarts, Claims, Build, Builds, FinishStart,
           StartFails, Discard, Retire, StopOld, SaveConfig, WatcherNotices,
           Restart, ReloadBegins, ReloadChecks, Prepare, SwapRefused, Swaps,
           SwapCommits, Commit, ReleaseWaiters, EditFile, StopBegins,
           StopEnds, Removes, wsVars, vars
  <2> QED
    BY <1>0, <2>1 DEF WorkspaceTypes, RunsOf
<1> QED
  BY <1>1, <1>2, <1>3, <1>4 DEF WorkspaceTypes

\* The memory services.
LEMMA MemoryTypesStep ==
    ASSUME TypeOK, [Next]_vars
    PROVE  MemoryTypes'
<1>0. MemoryTypes /\ FileTypes
  BY DEF TypeOK
<1>1. memory' \in [Workspaces -> Workspaces \cup {NoWs}]
  <2>1. \/ UNCHANGED memory
        \/ \E w \in Workspaces : memory' = [memory EXCEPT ![w] = w]
        \/ \E c \in Workspaces : /\ agents \in Workspaces
                                 /\ memory' = [memory EXCEPT ![c] = memory[agents]]
    BY Steps, ZenonT(60)
       DEF RequestHolds, RequestWaits, RequestFails, Install, RunStarts,
           RunEnds, RequestStarts, Claims, Build, Builds, FinishStart,
           StartFails, Discard, Retire, StopOld, SaveConfig, WatcherNotices,
           Restart, ReloadBegins, ReloadChecks, Prepare, SwapRefused, Swaps,
           SwapCommits, Commit, ReleaseWaiters, EditFile, StopBegins,
           StopEnds, Removes, wsVars, vars, TypeOK, ManagerTypes
  <2> QED
    BY <1>0, <2>1 DEF MemoryTypes
<1>2. borrowed' \in [Workspaces -> BOOLEAN]
  <2>1. ASSUME NEW w, NEW b \in BOOLEAN, borrowed' = [borrowed EXCEPT ![w] = b]
        PROVE  borrowed' \in [Workspaces -> BOOLEAN]
    BY <1>0, <2>1 DEF MemoryTypes
  <2>2. ASSUME NEW r \in Reloads, SwapCommits(r)
        PROVE  \E w, b : b \in BOOLEAN /\ borrowed' = [borrowed EXCEPT ![w] = borrowed[w] /\ b]
    BY <2>2 DEF SwapCommits, Commit
  <2>3. ASSUME NEW w, NEW b \in BOOLEAN, borrowed' = [borrowed EXCEPT ![w] = borrowed[w] /\ b]
        PROVE  borrowed' \in [Workspaces -> BOOLEAN]
    BY <1>0, <2>3 DEF MemoryTypes
  <2>4. ASSUME NEW w \in Workspaces, Build(w)
        PROVE  borrowed' \in [Workspaces -> BOOLEAN]
    <3>1. (borrowed[w] /\ settings[memory[w]] = backend) \in BOOLEAN
      BY <1>0 DEF MemoryTypes
    <3> QED
      BY <1>0, <2>1, <2>4, <3>1 DEF Build, Builds
  <2>5. ASSUME NEW r \in Reloads, NEW c \in Workspaces, Prepare(r, c)
        PROVE  borrowed' \in [Workspaces -> BOOLEAN]
    <3>1. lends \in [Workspaces -> BOOLEAN] /\ agents \in Workspaces \cup {NoWs}
      BY DEF TypeOK, WorkspaceTypes, ManagerTypes
    <3>2. (agents # NoWs /\ lends[agents]) \in BOOLEAN
      BY <3>1
    <3>3. borrowed' = [borrowed EXCEPT ![c] = agents # NoWs /\ lends[agents]]
      BY <2>5 DEF Prepare
    <3> QED
      BY <2>1, <3>2, <3>3
  <2>6. \/ UNCHANGED borrowed
        \/ \E w \in Workspaces : Build(w)
        \/ \E r \in Reloads : SwapCommits(r) \/ \E c \in Workspaces : Prepare(r, c)
    BY Steps
       DEF RequestHolds, RequestWaits, RequestFails, Install, RunStarts,
           RunEnds, RequestStarts, Claims, FinishStart,
           StartFails, Discard, Retire, StopOld, SaveConfig, WatcherNotices,
           Restart, ReloadBegins, ReloadChecks, SwapRefused, Swaps,
           ReleaseWaiters, EditFile, StopBegins, StopEnds, Removes, wsVars, vars
  <2>7. CASE UNCHANGED borrowed
    BY <1>0, <2>7 DEF MemoryTypes
  <2> QED
    BY <2>2, <2>3, <2>4, <2>5, <2>6, <2>7
<1>3. open' \subseteq Workspaces /\ settings' \in [Workspaces -> Backends]
  <2>1. /\ UNCHANGED open
           \/ \E m : open' = open \ {m}
           \/ \E w \in Workspaces : open' = open \cup {w}
        /\ UNCHANGED settings \/ \E w : settings' = [settings EXCEPT ![w] = backend]
    BY Steps
       DEF RequestHolds, RequestWaits, RequestFails, Install, RunStarts,
           RunEnds, RequestStarts, Claims, Build, Builds, FinishStart,
           StartFails, Discard, Retire, StopOld, SaveConfig, WatcherNotices,
           Restart, ReloadBegins, ReloadChecks, Prepare, SwapRefused, Swaps,
           SwapCommits, Commit, ReleaseWaiters, EditFile, StopBegins,
           StopEnds, Removes, memVars, vars
  <2> QED
    BY <1>0, <2>1 DEF MemoryTypes, FileTypes
<1> QED
  BY <1>1, <1>2, <1>3 DEF MemoryTypes

\* The reloads.
LEMMA CallTypesStep ==
    ASSUME TypeOK, [Next]_vars
    PROVE  CallTypes'
<1>0. /\ CallTypes /\ agents \in Workspaces \cup {NoWs}
      /\ generation \in Nat /\ generation' \in Nat /\ generation <= generation'
  BY ManagerTypesStep DEF TypeOK, ManagerTypes
<1>1. call' \in [Reloads -> Call] /\ candidate' \in [Reloads -> Workspaces \cup {NoWs}]
  <2>1. ASSUME NEW w \in Workspaces, StartFails(w)
        PROVE  call' \in [Reloads -> Call] /\ candidate' \in [Reloads -> Workspaces \cup {NoWs}]
    BY <1>0, <2>1 DEF StartFails, CallTypes, Call
  <2>2. \/ \E w \in Workspaces : StartFails(w)
        \/ /\ UNCHANGED call
              \/ \E r, c : c \in Call /\ call' = [call EXCEPT ![r] = c]
           /\ UNCHANGED candidate
              \/ \E r, c : c \in Workspaces \cup {NoWs} /\ candidate' = [candidate EXCEPT ![r] = c]
    BY Steps, ZenonT(60)
       DEF RequestHolds, RequestWaits, RequestFails, Install, RunStarts,
           RunEnds, RequestStarts, Claims, Build, Builds, FinishStart,
           Retire, StopOld, SaveConfig, WatcherNotices,
           Restart, ReloadBegins, ReloadChecks, Prepare, SwapRefused, Swaps,
           SwapCommits, ReleaseWaiters, EditFile, StopBegins,
           StopEnds, Removes, callVars, vars, Call
  <2> QED
    BY <1>0, <2>1, <2>2 DEF CallTypes
<1>2. captured' \in [Reloads -> 0 .. generation']
  <2>1. UNCHANGED captured \/ \E r : captured' = [captured EXCEPT ![r] = generation]
    BY Steps
       DEF RequestHolds, RequestWaits, RequestFails, Install, RunStarts,
           RunEnds, RequestStarts, Claims, Build, Builds, FinishStart,
           StartFails, Retire, StopOld, SaveConfig, WatcherNotices,
           Restart, ReloadBegins, ReloadChecks, Prepare, SwapRefused, Swaps,
           SwapCommits, ReleaseWaiters, EditFile, StopBegins,
           StopEnds, Removes, callVars, vars
  <2>2. (\A n \in 0 .. generation : n \in 0 .. generation') /\ generation \in 0 .. generation
    BY <1>0
  <2> QED
    BY <1>0, <2>1, <2>2 DEF CallTypes
<1>3. lent' \in [Reloads -> Workspaces \cup {NoWs}]
  <2>1. \/ UNCHANGED lent
        \/ \E r, l : l \in {agents, NoWs} /\ lent' = [lent EXCEPT ![r] = l]
    BY Steps
       DEF RequestHolds, RequestWaits, RequestFails, Install, RunStarts,
           RunEnds, RequestStarts, Claims, Build, Builds, FinishStart,
           StartFails, Retire, StopOld, SaveConfig, WatcherNotices,
           Restart, ReloadBegins, ReloadChecks, Prepare, SwapRefused, Swaps,
           SwapCommits, ReleaseWaiters, EditFile, StopBegins,
           StopEnds, Removes, callVars, vars
  <2> QED
    BY <1>0, <2>1 DEF CallTypes
<1> QED
  BY <1>1, <1>2, <1>3 DEF CallTypes

\* The requests.
LEMMA RequestTypesStep ==
    ASSUME TypeOK, [Next]_vars
    PROVE  RequestTypes'
<1>0. RequestTypes /\ agents \in Workspaces \cup {NoWs}
  BY DEF TypeOK, ManagerTypes
<1>1. request' \in [Requests -> RequestState]
  <2>1. ASSUME NEW w \in Workspaces, StartFails(w)
        PROVE  request' \in [Requests -> RequestState]
    BY <1>0, <2>1 DEF StartFails, RequestTypes, RequestState
  <2>2. \/ \E w \in Workspaces : StartFails(w)
        \/ UNCHANGED request
        \/ \E q, s : s \in RequestState /\ request' = [request EXCEPT ![q] = s]
    BY Steps
       DEF RequestHolds, RequestWaits, RequestFails, Install, RunStarts,
           RunEnds, RequestStarts, Claims, Build, Builds, FinishStart,
           Retire, StopOld, SaveConfig, WatcherNotices,
           Restart, ReloadBegins, ReloadChecks, Prepare, SwapRefused, Swaps,
           SwapCommits, ReleaseWaiters, EditFile, StopBegins,
           StopEnds, Removes, requestVars, vars, RequestState
  <2> QED
    BY <1>0, <2>1, <2>2 DEF RequestTypes
<1>2. owner' \in [Requests -> Workspaces \cup {NoWs}] /\ late' \subseteq Requests
  <2>1. /\ UNCHANGED owner
           \/ \E q, w : w \in Workspaces \cup {NoWs} /\ owner' = [owner EXCEPT ![q] = w]
        /\ UNCHANGED late \/ \E q \in Requests : late' = late \cup {q}
    BY <1>0, Steps
       DEF RequestHolds, RequestWaits, RequestFails, Install, RunStarts,
           RunEnds, RequestStarts, Claims, Build, Builds, FinishStart,
           StartFails, Retire, StopOld, SaveConfig, WatcherNotices,
           Restart, ReloadBegins, ReloadChecks, Prepare, SwapRefused, Swaps,
           SwapCommits, Commit, ReleaseWaiters, EditFile, StopBegins,
           StopEnds, Removes, requestVars, historyVars, vars
  <2> QED
    BY <1>0, <2>1 DEF RequestTypes
<1> QED
  BY <1>1, <1>2 DEF RequestTypes

\* Every variable of the agent's life cycle keeps its type: no counter goes
\* back, no reload has captured a generation that is yet to come, no
\* workspace has a config of later than now.
THEOREM TypeCorrect == Spec => []TypeOK
<1>1. Init => TypeOK
  <2> SUFFICES ASSUME Init
               PROVE  TypeOK
    OBVIOUS
  <2>0. ManagerTypes
    BY DEF Init, ManagerTypes
  <2>1. FileTypes
    <3>1. 0 \in 0 .. 0 /\ 0 \in 0 .. MaxEdits
      BY MaxEditsAssumption
    <3> QED
      BY <3>1 DEF Init, FileTypes
  <2>2. WorkspaceTypes
    BY DEF Init, WorkspaceTypes, Life
  <2>4. MemoryTypes
    BY DEF Init, MemoryTypes
  <2>3. CallTypes /\ RequestTypes
    BY DEF Init, CallTypes, RequestTypes, Call, RequestState
  <2> QED
    BY <2>0, <2>1, <2>2, <2>3, <2>4 DEF TypeOK
<1>2. TypeOK /\ [Next]_vars => TypeOK'
  BY FileTypesStep, ManagerTypesStep, WorkspaceTypesStep, MemoryTypesStep,
     CallTypesStep, RequestTypesStep DEF TypeOK
<1> QED
  BY <1>1, <1>2, PTL DEF Spec

(***************************************************************************)
(* Who holds a workspace.                                                  *)
(***************************************************************************)

\* What HolderInv speaks of is not touched.
HolderVars == <<agents, locked, pending, life, candidate, call, request, owner>>

\* A request that moves on without starting the agent.
LEMMA RequestKeepsHolders ==
    ASSUME TypeOK, HolderInv, NEW q \in Requests,
           \/ RequestHolds(q) \/ RequestWaits(q) \/ RequestFails(q)
           \/ RunStarts(q) \/ RunEnds(q)
           \/ \E r \in Reloads : Restart(q, r)
    PROVE  HolderInv'
<1>1. /\ UNCHANGED <<agents, locked, pending, life, candidate>>
      /\ ~Starting(q)
      /\ \E s \in RequestState \ {"starting"} : request' = [request EXCEPT ![q] = s]
      /\ UNCHANGED owner \/ \E w : owner' = [owner EXCEPT ![q] = w]
      /\ UNCHANGED call
            \/ \E r \in Reloads : call[r] = "idle" /\ call' = [call EXCEPT ![r] = "scheduled"]
  BY DEF RequestHolds, RequestWaits, RequestFails, RunStarts, RunEnds, Restart,
         Live, Starting, RequestState, wsVars, callVars, requestVars
<1>2. RequestTypes /\ CallTypes
  BY DEF TypeOK
<1>3. \A p \in Requests : Starting(p)' <=> Starting(p) /\ p # q
  BY <1>1, <1>2 DEF RequestTypes, Starting, RequestState
<1>4. \A p \in Requests : Starting(p) => owner'[p] = owner[p] /\ p # q
  BY <1>1, <1>2 DEF RequestTypes
<1>5. \A r \in Reloads : call'[r] = "building" <=> call[r] = "building"
  BY <1>1, <1>2 DEF CallTypes
<1>6. ServingInv'
  BY <1>1 DEF HolderInv, ServingInv
<1>7. StarterInv'
  BY <1>1, <1>3, <1>4 DEF HolderInv, StarterInv, Up
<1>8. CandidateInv'
  BY <1>1, <1>3, <1>4, <1>5 DEF HolderInv, CandidateInv, Up
<1>9. HeldInv'
  BY <1>1, <1>3, <1>4 DEF HolderInv, HeldInv, Up
<1> QED
  BY <1>6, <1>7, <1>8, <1>9 DEF HolderInv

\* A reload that is called, begins or looks at what serves.
LEMMA CallKeepsHolders ==
    ASSUME TypeOK, HolderInv, NEW r \in Reloads,
           \/ \E b \in Backends : SaveConfig(r, b)
           \/ \E w \in Workspaces : WatcherNotices(w, r)
           \/ ReloadBegins(r) \/ ReloadChecks(r)
    PROVE  HolderInv'
<1>1. /\ UNCHANGED <<agents, locked, pending, life, candidate, request, owner>>
      /\ call[r] # "building"
      /\ \E s \in Call \ {"building"} : call' = [call EXCEPT ![r] = s]
  BY DEF SaveConfig, WatcherNotices, ReloadBegins, ReloadChecks, Call, wsVars,
         callVars, requestVars
<1>2. \A t \in Reloads : call'[t] = "building" <=> call[t] = "building"
  BY <1>1 DEF TypeOK, CallTypes
<1>3. (ServingInv /\ StarterInv /\ HeldInv)'
  BY <1>1 DEF HolderInv, ServingInv, StarterInv, HeldInv, Starting, Up
<1>4. CandidateInv'
  BY <1>1, <1>2 DEF HolderInv, CandidateInv, Starting, Up
<1> QED
  BY <1>3, <1>4 DEF HolderInv

\* A start under way goes on; nobody's hold changes.
LEMMA StartKeepsHolders ==
    ASSUME TypeOK, HolderInv, NEW w \in Workspaces, Build(w) \/ FinishStart(w)
    PROVE  HolderInv'
<1>1. /\ UNCHANGED <<agents, locked, pending, candidate, call, request, owner>>
      /\ life[w] \in {"created", "built"}
      /\ \E s \in {"built", "running"} : life' = [life EXCEPT ![w] = s]
  BY DEF Build, Builds, FinishStart, callVars, requestVars
<1>2. life \in [Workspaces -> Life] /\ agents \in Workspaces \cup {NoWs}
      /\ candidate \in [Reloads -> Workspaces \cup {NoWs}]
  BY DEF TypeOK, WorkspaceTypes, ManagerTypes, CallTypes
<1>3. /\ \A v \in Workspaces : Up(v)' <=> Up(v)
      /\ \A v \in Workspaces : life'[v] = "stopping" <=> life[v] = "stopping"
      /\ \A v \in Workspaces : v # w => life'[v] = life[v]
  BY <1>1, <1>2 DEF Up
<1>4. agents # w
  BY <1>1, <1>2, NoWsAssumption DEF HolderInv, ServingInv
<1>5. ServingInv'
  BY <1>1, <1>2, <1>3, <1>4 DEF HolderInv, ServingInv
<1>6. StarterInv'
  BY <1>1, <1>2, <1>3 DEF HolderInv, StarterInv, Starting
<1>7. CandidateInv'
  BY <1>1, <1>2, <1>3 DEF HolderInv, CandidateInv, Starting
<1>8. HeldInv'
  BY <1>1, <1>3 DEF HolderInv, HeldInv, Starting
<1> QED
  BY <1>5, <1>6, <1>7, <1>8 DEF HolderInv

\* The first request takes a workspace nobody ever held.
LEMMA ClaimKeepsHolders ==
    ASSUME TypeOK, HolderInv, NEW q \in Requests, NEW w \in Workspaces,
           RequestStarts(q, w)
    PROVE  HolderInv'
<1>1. /\ UNCHANGED <<agents, locked, candidate, call>>
      /\ agents = NoWs /\ ~locked /\ pending = NoWs /\ pending' = w
      /\ life[w] = "unused" /\ life' = [life EXCEPT ![w] = "created"]
      /\ request' = [request EXCEPT ![q] = "starting"]
      /\ owner' = [owner EXCEPT ![q] = w]
  BY DEF RequestStarts, Claims, callVars
<1>2. life \in [Workspaces -> Life] /\ candidate \in [Reloads -> Workspaces \cup {NoWs}]
      /\ request \in [Requests -> RequestState] /\ owner \in [Requests -> Workspaces \cup {NoWs}]
  BY DEF TypeOK, WorkspaceTypes, CallTypes, RequestTypes
<1>3. \A p \in Requests : ~Starting(p)
  BY <1>1, NoWsAssumption DEF HolderInv, StarterInv
<1>4. \A p \in Requests : Starting(p)' <=> p = q
  BY <1>1, <1>2, <1>3 DEF Starting
<1>5. owner'[q] = w /\ life'[w] = "created"
      /\ \A v \in Workspaces : v # w => life'[v] = life[v]
  BY <1>1, <1>2
<1>6. ServingInv'
  BY <1>1, <1>2 DEF HolderInv, ServingInv
<1>7. StarterInv'
  BY <1>1, <1>4, <1>5 DEF HolderInv, StarterInv, Up
<1>8. CandidateInv'
  BY <1>1, <1>2, <1>4, <1>5, NoWsAssumption DEF HolderInv, CandidateInv, Up
<1>9. HeldInv'
  BY <1>1, <1>3, <1>4, <1>5 DEF HolderInv, HeldInv, Up
<1> QED
  BY <1>6, <1>7, <1>8, <1>9 DEF HolderInv

\* The starter puts its workspace in service.
LEMMA InstallKeepsHolders ==
    ASSUME TypeOK, HolderInv, NEW q \in Requests, Install(q)
    PROVE  HolderInv'
<1>1. /\ UNCHANGED <<locked, pending, life, candidate, call, owner>>
      /\ Starting(q) /\ life[owner[q]] = "running" /\ ~locked
      /\ agents' = owner[q] /\ request' = [request EXCEPT ![q] = "held"]
  BY DEF Install, Starting, callVars, wsVars
<1>2. request \in [Requests -> RequestState] /\ candidate \in [Reloads -> Workspaces \cup {NoWs}]
  BY DEF TypeOK, RequestTypes, CallTypes
<1>3. agents = NoWs /\ owner[q] \in Workspaces
      /\ \A p \in Requests : Starting(p) => p = q
  BY <1>1 DEF HolderInv, StarterInv
<1>4. \A p \in Requests : ~Starting(p)'
  BY <1>1, <1>2, <1>3 DEF Starting
<1>5. ServingInv'
  BY <1>1, <1>3, NoWsAssumption DEF HolderInv, ServingInv
<1>6. StarterInv'
  BY <1>4 DEF StarterInv
<1>7. CandidateInv'
  BY <1>1, <1>2, <1>3, <1>4 DEF HolderInv, CandidateInv, Up
<1>8. HeldInv'
  BY <1>1, <1>3, NoWsAssumption DEF HolderInv, HeldInv, Up
<1> QED
  BY <1>5, <1>6, <1>7, <1>8 DEF HolderInv

\* A start that fails: whoever held the workspace lets it go.
LEMMA FailureKeepsHolders ==
    ASSUME TypeOK, HolderInv, NEW w \in Workspaces, StartFails(w)
    PROVE  HolderInv'
<1>1. /\ UNCHANGED <<agents, locked, pending, owner>>
      /\ life[w] \in {"created", "built"} /\ life' = [life EXCEPT ![w] = "stopped"]
      /\ request' = [q \in Requests |->
                       IF request[q] = "starting" /\ owner[q] = w THEN "over"
                                                                 ELSE request[q]]
      /\ call' = [r \in Reloads |-> IF candidate[r] = w THEN "idle" ELSE call[r]]
      /\ candidate' = [r \in Reloads |->
                         IF candidate[r] = w THEN NoWs ELSE candidate[r]]
  BY DEF StartFails, Discard
<1>2. life \in [Workspaces -> Life] /\ agents \in Workspaces \cup {NoWs}
  BY DEF TypeOK, WorkspaceTypes, ManagerTypes
<1>3. agents # w /\ w # NoWs
  BY <1>1, NoWsAssumption DEF HolderInv, ServingInv
<1>4. \A p \in Requests : Starting(p)' <=> Starting(p) /\ owner[p] # w
  BY <1>1 DEF Starting
<1>5. life'[w] = "stopped" /\ \A v \in Workspaces : v # w => life'[v] = life[v]
  BY <1>1, <1>2
<1>6. \A r \in Reloads : \/ candidate[r] = w /\ candidate'[r] = NoWs /\ call'[r] = "idle"
                         \/ candidate[r] # w /\ candidate'[r] = candidate[r]
                            /\ call'[r] = call[r]
  BY <1>1
<1>7. ServingInv'
  BY <1>1, <1>2, <1>3, <1>5 DEF HolderInv, ServingInv
<1>8. StarterInv'
  BY <1>1, <1>4, <1>5 DEF HolderInv, StarterInv, Up
<1>9. CandidateInv'
  <2>1. candidate \in [Reloads -> Workspaces \cup {NoWs}]
    BY DEF TypeOK, CallTypes
  <2> QED
    BY <1>1, <1>3, <1>4, <1>5, <1>6, <2>1 DEF HolderInv, CandidateInv, Up
<1>10. HeldInv'
  BY <1>1, <1>4, <1>5, <1>6 DEF HolderInv, HeldInv, Up
<1> QED
  BY <1>7, <1>8, <1>9, <1>10 DEF HolderInv

\* A reload takes a workspace nobody ever held.
LEMMA PrepareKeepsHolders ==
    ASSUME TypeOK, HolderInv, NEW r \in Reloads, NEW c \in Workspaces, Prepare(r, c)
    PROVE  HolderInv'
<1>1. /\ UNCHANGED <<agents, locked, pending, request, owner>>
      /\ call[r] = "preparing" /\ call' = [call EXCEPT ![r] = "building"]
      /\ candidate' = [candidate EXCEPT ![r] = c]
      /\ life[c] = "unused" /\ life' = [life EXCEPT ![c] = "created"]
  BY DEF Prepare, requestVars
<1>2. life \in [Workspaces -> Life] /\ agents \in Workspaces \cup {NoWs}
      /\ candidate \in [Reloads -> Workspaces \cup {NoWs}] /\ call \in [Reloads -> Call]
  BY DEF TypeOK, WorkspaceTypes, ManagerTypes, CallTypes
<1>3. /\ agents # c /\ c # NoWs
      /\ \A t \in Reloads : candidate[t] # c
      /\ \A q \in Requests : Starting(q) => owner[q] # c
  BY <1>1, <1>2, NoWsAssumption DEF HolderInv, ServingInv, StarterInv, CandidateInv, Up
<1>4. life'[c] = "created" /\ \A v \in Workspaces : v # c => life'[v] = life[v]
  BY <1>1, <1>2
<1>5. candidate'[r] = c /\ \A t \in Reloads : t # r => candidate'[t] = candidate[t]
  BY <1>1, <1>2
<1>6. candidate[r] = NoWs
  BY <1>1 DEF HolderInv, CandidateInv
<1>7. ServingInv'
  BY <1>1, <1>2, <1>3, <1>4 DEF HolderInv, ServingInv
<1>8. StarterInv'
  BY <1>1, <1>4 DEF HolderInv, StarterInv, Starting, Up
<1>9. CandidateInv'
  BY <1>1, <1>2, <1>3, <1>4, <1>5 DEF HolderInv, CandidateInv, Starting, Up
<1>10. HeldInv'
  BY <1>1, <1>2, <1>3, <1>4, <1>5, <1>6, NoWsAssumption DEF HolderInv, HeldInv, Starting, Up
<1> QED
  BY <1>7, <1>8, <1>9, <1>10 DEF HolderInv

\* What a swap finds, committed or not.
LEMMA SwapFacts ==
    ASSUME TypeOK, HolderInv, NEW r \in Reloads, Swaps(r)
    PROVE  /\ ~locked /\ candidate[r] \in Workspaces /\ candidate[r] # agents
           /\ life[candidate[r]] = "running"
           /\ UNCHANGED <<locked, pending, request, owner>>
           /\ \A q \in Requests : Starting(q) => owner[q] # candidate[r]
           /\ candidate'[r] = NoWs /\ call'[r] = "idle"
           /\ \A t \in Reloads : t # r =>
                 /\ candidate'[t] = candidate[t] /\ call'[t] = call[t]
                 /\ candidate[t] # candidate[r]
<1>1. /\ candidate \in [Reloads -> Workspaces \cup {NoWs}] /\ call \in [Reloads -> Call]
      /\ call[r] = "building" /\ ~locked /\ life[candidate[r]] = "running"
      /\ call' = [call EXCEPT ![r] = "idle"]
      /\ candidate' = [candidate EXCEPT ![r] = NoWs]
      /\ UNCHANGED <<locked, pending, request, owner>>
  BY DEF Swaps, TypeOK, CallTypes, requestVars
<1>2. candidate[r] # NoWs /\ candidate[r] # agents
      /\ (\A q \in Requests : Starting(q) => owner[q] # candidate[r])
      /\ (\A t \in Reloads : candidate[t] = candidate[r] => t = r)
  BY <1>1 DEF HolderInv, CandidateInv
<1> QED
  BY <1>1, <1>2

\* A candidate that is not installed is stopped by its reload.
LEMMA RefusalKeepsHolders ==
    ASSUME TypeOK, HolderInv, NEW r \in Reloads, SwapRefused(r)
    PROVE  HolderInv'
<1> DEFINE c == candidate[r]
<1>1. Swaps(r) /\ UNCHANGED agents /\ life' = [life EXCEPT ![c] = "stopped"]
  BY DEF SwapRefused, Discard
<1>2. life \in [Workspaces -> Life]
  BY DEF TypeOK, WorkspaceTypes
<1>3. /\ ~locked /\ c \in Workspaces /\ c # agents /\ life[c] = "running"
      /\ UNCHANGED <<agents, locked, pending, request, owner>>
      /\ \A q \in Requests : Starting(q) => owner[q] # c
      /\ candidate'[r] = NoWs /\ call'[r] = "idle"
      /\ \A t \in Reloads : t # r =>
            /\ candidate'[t] = candidate[t] /\ call'[t] = call[t]
            /\ candidate[t] # c
  BY <1>1, SwapFacts
<1>4. life'[c] = "stopped" /\ \A v \in Workspaces : v # c => life'[v] = life[v]
  BY <1>1, <1>2, <1>3
<1>5. agents \in Workspaces \cup {NoWs} /\ candidate \in [Reloads -> Workspaces \cup {NoWs}]
  BY DEF TypeOK, ManagerTypes, CallTypes
<1> HIDE DEF c
<1>6. ServingInv'
  BY <1>3, <1>4, <1>5 DEF HolderInv, ServingInv
<1>7. StarterInv'
  BY <1>3, <1>4 DEF HolderInv, StarterInv, Starting, Up
<1>8. CandidateInv'
  BY <1>3, <1>4, <1>5 DEF HolderInv, CandidateInv, Starting, Up
<1>9. HeldInv'
  <2>1. \A t \in Reloads : t = r => candidate[t] = c
    BY DEF c
  <2> QED
    BY <1>3, <1>4, <2>1 DEF HolderInv, HeldInv, Starting, Up
<1> QED
  BY <1>6, <1>7, <1>8, <1>9 DEF HolderInv

\* The swap hands the candidate to the manager, and what served to its
\* delayed cleanup.
LEMMA CommitKeepsHolders ==
    ASSUME TypeOK, HolderInv, NEW r \in Reloads, SwapCommits(r)
    PROVE  HolderInv'
<1> DEFINE c == candidate[r]
<1>1. Swaps(r) /\ agents # NoWs /\ agents' = c
      /\ life' = [life EXCEPT ![agents] = "retiring"]
  BY DEF SwapCommits, Commit
<1>2. life \in [Workspaces -> Life] /\ agents \in Workspaces
  BY <1>1 DEF TypeOK, WorkspaceTypes, ManagerTypes
<1>3. /\ ~locked /\ c \in Workspaces /\ c # agents /\ life[c] = "running"
      /\ UNCHANGED <<locked, pending, request, owner>>
      /\ \A q \in Requests : Starting(q) => owner[q] # c
      /\ candidate'[r] = NoWs /\ call'[r] = "idle"
      /\ \A t \in Reloads : t # r =>
            /\ candidate'[t] = candidate[t] /\ call'[t] = call[t]
            /\ candidate[t] # c
  BY <1>1, SwapFacts
<1>4. life'[agents] = "retiring" /\ \A v \in Workspaces : v # agents => life'[v] = life[v]
  BY <1>1, <1>2, <1>3
<1>5. candidate \in [Reloads -> Workspaces \cup {NoWs}]
      /\ \A q \in Requests : ~Starting(q)
  BY <1>1 DEF TypeOK, CallTypes, HolderInv, StarterInv
<1> HIDE DEF c
<1>6. ServingInv'
  BY <1>1, <1>3, <1>4 DEF HolderInv, ServingInv
<1>7. StarterInv'
  BY <1>3, <1>5 DEF HolderInv, StarterInv, Starting
<1>8. CandidateInv'
  BY <1>1, <1>3, <1>4, <1>5 DEF HolderInv, CandidateInv, Starting, Up
<1>9. HeldInv'
  <2>1. \A t \in Reloads : t = r => candidate[t] = c
    BY DEF c
  <2> QED
    BY <1>1, <1>3, <1>4, <1>5, <2>1 DEF HolderInv, HeldInv, Starting, Up
<1> QED
  BY <1>6, <1>7, <1>8, <1>9 DEF HolderInv

\* A cleanup, a stop, a release of the waiters.
LEMMA StopKeepsHolders ==
    ASSUME TypeOK, HolderInv,
           \/ \E w \in Workspaces : Retire(w)
           \/ StopBegins \/ StopEnds \/ ReleaseWaiters
    PROVE  HolderInv'
<1>1. life \in [Workspaces -> Life] /\ agents \in Workspaces \cup {NoWs}
      /\ candidate \in [Reloads -> Workspaces \cup {NoWs}]
  BY DEF TypeOK, WorkspaceTypes, ManagerTypes, CallTypes
<1>2. ASSUME NEW w \in Workspaces, Retire(w)
      PROVE  HolderInv'
  <2>1. /\ UNCHANGED <<agents, locked, pending, candidate, call, request, owner>>
        /\ life[w] = "retiring" /\ life' = [life EXCEPT ![w] = "stopped"]
    BY <1>2 DEF Retire, StopOld, callVars, requestVars
  <2>2. /\ \A v \in Workspaces : Up(v)' <=> Up(v)
        /\ \A v \in Workspaces : life'[v] = "stopping" <=> life[v] = "stopping"
        /\ \A v \in Workspaces : v # w => life'[v] = life[v]
    BY <1>1, <2>1 DEF Up
  <2>3. agents # w
    BY <1>1, <2>1, NoWsAssumption DEF HolderInv, ServingInv
  <2>4. ServingInv'
    BY <1>1, <2>1, <2>2, <2>3 DEF HolderInv, ServingInv
  <2>5. (StarterInv /\ CandidateInv /\ HeldInv)'
    BY <1>1, <2>1, <2>2 DEF HolderInv, StarterInv, CandidateInv, HeldInv, Starting
  <2> QED
    BY <2>4, <2>5 DEF HolderInv
<1>3. ASSUME StopBegins
      PROVE  HolderInv'
  <2>1. /\ UNCHANGED <<agents, pending, candidate, call, request, owner>>
        /\ ~locked /\ locked' /\ agents # NoWs
        /\ life' = [life EXCEPT ![agents] = "stopping"]
    BY <1>3 DEF StopBegins, callVars, requestVars
  <2>2. life'[agents] = "stopping" /\ \A v \in Workspaces : v # agents => life'[v] = life[v]
    BY <1>1, <2>1
  <2>3. ServingInv'
    BY <2>1, <2>2 DEF HolderInv, ServingInv
  <2>4. StarterInv'
    BY <2>1, <2>2 DEF HolderInv, StarterInv, Starting
  <2>5. CandidateInv'
    BY <1>1, <2>1, <2>2 DEF HolderInv, CandidateInv, Starting, Up
  <2>6. HeldInv'
    BY <2>1, <2>2 DEF HolderInv, HeldInv, Starting, Up
  <2> QED
    BY <2>3, <2>4, <2>5, <2>6 DEF HolderInv
<1>4. ASSUME StopEnds
      PROVE  HolderInv'
  <2>1. /\ UNCHANGED <<pending, candidate, call, request, owner>>
        /\ locked /\ ~locked' /\ agents' = NoWs
        /\ life' = [life EXCEPT ![agents] = "removed"]
    BY <1>4 DEF StopEnds, Removes, callVars, requestVars
  <2>2. agents \in Workspaces
    BY <1>1, <2>1 DEF HolderInv, ServingInv
  <2>3. life'[agents] = "removed" /\ \A v \in Workspaces : v # agents => life'[v] = life[v]
    BY <1>1, <2>1, <2>2
  <2>4. ServingInv'
    BY <2>1 DEF ServingInv
  <2>5. StarterInv'
    BY <2>1, <2>2, <2>3, NoWsAssumption DEF HolderInv, StarterInv, Starting, Up
  <2>6. CandidateInv'
    BY <1>1, <2>1, <2>2, <2>3 DEF HolderInv, CandidateInv, Starting, Up
  <2>7. HeldInv'
    BY <2>1, <2>2, <2>3 DEF HolderInv, HeldInv, Starting, Up
  <2> QED
    BY <2>4, <2>5, <2>6, <2>7 DEF HolderInv
<1>5. ASSUME ReleaseWaiters
      PROVE  HolderInv'
  <2>1. /\ UNCHANGED <<agents, locked, life, candidate, call, request, owner>>
        /\ \A q \in Requests : Starting(q) => owner[q] # pending
    BY <1>5 DEF ReleaseWaiters, Starting, wsVars, callVars, requestVars
  <2>2. \A q \in Requests : ~Starting(q)
    BY <2>1 DEF HolderInv, StarterInv
  <2> QED
    BY <2>1, <2>2 DEF HolderInv, ServingInv, StarterInv, CandidateInv, HeldInv, Starting, Up
<1> QED
  BY <1>2, <1>3, <1>4, <1>5

\* Every step keeps the holders in order.
LEMMA HolderStep ==
    ASSUME TypeOK, HolderInv, [Next]_vars
    PROVE  HolderInv'
<1>1. CASE EditFile \/ UNCHANGED vars
  <2>1. UNCHANGED HolderVars
    BY <1>1 DEF EditFile, HolderVars, wsVars, callVars, requestVars, vars
  <2> QED
    BY <2>1 DEF HolderVars, HolderInv, ServingInv, StarterInv, CandidateInv,
                HeldInv, Starting, Up
<1> QED
  BY <1>1, Steps, RequestKeepsHolders, CallKeepsHolders, StartKeepsHolders,
     ClaimKeepsHolders, InstallKeepsHolders, FailureKeepsHolders,
     PrepareKeepsHolders, RefusalKeepsHolders, CommitKeepsHolders,
     StopKeepsHolders

\* Who holds what, always.
LEMMA HoldersInOrder == Spec => [](TypeOK /\ HolderInv)
<1>1. Init => HolderInv
  BY DEF Init, HolderInv, ServingInv, StarterInv, CandidateInv, HeldInv,
         Starting, Up
<1> QED
  BY <1>1, TypeCorrect, HolderStep, PTL DEF Spec

\* No interleaving of starts, reloads and stops leaves a workspace running
\* that nobody will ever stop, has two install it, or puts one that was
\* stopped back in service.
THEOREM OneInCharge == Spec => []OneHolder
<1>1. TypeOK /\ HolderInv => OneHolder
  <2> SUFFICES ASSUME TypeOK, HolderInv, NEW w \in Workspaces
               PROVE  Cardinality(Holders(w)) =
                        IF life[w] \in {"created", "built", "running", "stopping"}
                        THEN 1 ELSE 0
    BY DEF OneHolder
  <2> DEFINE R == {r \in Reloads : candidate[r] = w}
             Q == {q \in Requests : Starting(q) /\ owner[q] = w}
             A == {a \in {agents} : a = w}
  <2>1. Holders(w) = R \cup Q \cup A
    BY DEF Holders, Starting
  <2>2. w # NoWs /\ (w = agents => life[w] \in {"running", "stopping"})
    BY NoWsAssumption DEF HolderInv, ServingInv
  <2>3. CASE life[w] \in {"created", "built", "running", "stopping"}
    <3>1. \E h : Holders(w) = {h}
      <4>1. CASE w = agents
        <5>1. R = {} /\ A = {w}
          BY <4>1, <2>2 DEF HolderInv, CandidateInv
        <5>2. Q = {}
          BY <4>1, <2>2 DEF HolderInv, StarterInv
        <5> QED
          BY <2>1, <5>1, <5>2
      <4>2. CASE \E r \in Reloads : candidate[r] = w
        <5>1. PICK r \in Reloads : candidate[r] = w
          BY <4>2
        <5>2. R = {r} /\ Q = {} /\ A = {}
          BY <5>1, <2>2 DEF HolderInv, CandidateInv
        <5> QED
          BY <2>1, <5>2
      <4>3. CASE \E q \in Requests : Starting(q) /\ owner[q] = w
        <5>1. PICK q \in Requests : Starting(q) /\ owner[q] = w
          BY <4>3
        <5>2. R = {}
          BY <5>1, <2>2 DEF HolderInv, CandidateInv
        <5>3. Q = {q} /\ A = {}
          BY <5>1, <2>2 DEF HolderInv, StarterInv
        <5> QED
          BY <2>1, <5>2, <5>3
      <4> QED
        BY <2>3, <4>1, <4>2, <4>3 DEF HolderInv, HeldInv, Up
    <3> QED
      BY <2>3, <3>1, FS_Singleton
  <2>4. CASE life[w] \notin {"created", "built", "running", "stopping"}
    <3>1. R = {} /\ Q = {} /\ A = {}
      BY <2>2, <2>4 DEF HolderInv, CandidateInv, StarterInv, Up
    <3> QED
      BY <2>1, <2>4, <3>1, FS_EmptySet
  <2> QED
    BY <2>3, <2>4
<1> QED
  BY <1>1, HoldersInOrder, PTL

(***************************************************************************)
(* The runs.                                                               *)
(***************************************************************************)

\* A request that moves on.
LEMMA RequestKeepsRuns ==
    ASSUME TypeOK, HolderInv, RunInv, NEW q \in Requests,
           \/ RequestHolds(q) \/ RequestWaits(q) \/ RequestFails(q) \/ Install(q)
           \/ RunStarts(q) \/ RunEnds(q)
           \/ \E w \in Workspaces : RequestStarts(q, w)
           \/ \E r \in Reloads : Restart(q, r)
    PROVE  RunInv'
<1>1. /\ \A p \in Requests : p # q => request'[p] = request[p] /\ owner'[p] = owner[p]
      /\ \A p \in Requests : p # q => (p \in late' <=> p \in late)
  BY DEF RequestHolds, RequestWaits, RequestFails, Install, RunStarts, RunEnds,
         RequestStarts, Claims, Restart, TypeOK, RequestTypes, historyVars,
         requestVars
<1>2. /\ UNCHANGED drains
      /\ UNCHANGED agents \/ agents = NoWs
      /\ UNCHANGED life \/ \E w \in Workspaces : life[w] = "unused"
                                                 /\ life' = [life EXCEPT ![w] = "created"]
  <2>1. Starting(q) => agents = NoWs
    BY DEF HolderInv, StarterInv
  <2> QED
    BY <2>1 DEF RequestHolds, RequestWaits, RequestFails, Install, RunStarts, RunEnds,
         RequestStarts, Claims, Restart, wsVars, Starting
<1>3. \/ owner'[q] = owner[q] /\ (request'[q] = "over" \/ request'[q] = "waiting")
      \/ request'[q] = "held" /\ owner'[q] = agents /\ agents # NoWs
      \/ request'[q] = "held" /\ Starting(q) /\ owner'[q] = owner[q]
      \/ \E w \in Workspaces : request'[q] = "starting" /\ owner'[q] = w
      \/ /\ request'[q] = "running" /\ request[q] = "held"
         /\ owner'[q] = owner[q] /\ UNCHANGED <<agents, life>>
         /\ late' = IF agents = owner[q] THEN late ELSE late \cup {q}
      \/ /\ request'[q] = "restarting" /\ request[q] = "running"
         /\ owner'[q] = owner[q] /\ UNCHANGED <<agents, life, late>>
  BY DEF RequestHolds, RequestWaits, RequestFails, Install, RunStarts, RunEnds,
         RequestStarts, Claims, Restart, TypeOK, RequestTypes, historyVars,
         requestVars, wsVars, Starting
<1>4. agents \in Workspaces \cup {NoWs} /\ life \in [Workspaces -> Life]
  BY DEF TypeOK, ManagerTypes, WorkspaceTypes
<1>5. ASSUME NEW p \in Requests
      PROVE  /\ request'[p] \in {"starting", "held", "running", "restarting"} =>
                   owner'[p] \in Workspaces
             /\ p \notin late' /\ Live(p)' =>
                  \/ owner'[p] = agents'
                  \/ life'[owner'[p]] = "retiring" /\ p \in drains'[owner'[p]]
                  \/ life'[owner'[p]] = "removed"
  <2>1. CASE p = q
    <3>1. request'[q] \in {"starting", "held", "running", "restarting"} =>
                   owner'[q] \in Workspaces
      BY <1>3, <1>4 DEF RunInv, Starting
    <3>2. q \notin late' /\ Live(q)' =>
                  \/ owner'[q] = agents'
                  \/ life'[owner'[q]] = "retiring" /\ q \in drains'[owner'[q]]
                  \/ life'[owner'[q]] = "removed"
      BY <1>2, <1>3, <1>4 DEF RunInv, Live
    <3> QED
      BY <2>1, <3>1, <3>2
  <2>2. CASE p # q
    BY <1>1, <1>2, <1>4, <2>2, NoWsAssumption DEF RunInv, Live
  <2> QED
    BY <2>1, <2>2
<1> QED
  BY <1>5 DEF RunInv

\* A workspace that is being prepared, and its start.
LEMMA StartKeepsRuns ==
    ASSUME TypeOK, HolderInv, RunInv, NEW w \in Workspaces,
           \/ Build(w) \/ FinishStart(w) \/ StartFails(w)
           \/ \E r \in Reloads : Prepare(r, w)
    PROVE  RunInv'
<1>1. /\ UNCHANGED <<agents, owner, drains, late>>
      /\ life[w] \in {"unused", "created", "built"}
      /\ \E s : life' = [life EXCEPT ![w] = s]
  BY DEF Build, Builds, FinishStart, StartFails, Discard, Prepare, requestVars,
         historyVars
<1>2. \A q \in Requests : request'[q] = request[q] \/ request'[q] = "over"
  BY DEF Build, Builds, FinishStart, StartFails, Prepare, requestVars
<1>3. life \in [Workspaces -> Life]
  BY DEF TypeOK, WorkspaceTypes
<1> QED
  BY <1>1, <1>2, <1>3 DEF RunInv, Live

\* The swap, the cleanups and stop_agent.
LEMMA StopKeepsRuns ==
    ASSUME TypeOK, HolderInv, RunInv,
           \/ \E r \in Reloads : SwapRefused(r) \/ SwapCommits(r)
           \/ \E w \in Workspaces : Retire(w)
           \/ StopBegins \/ StopEnds
    PROVE  RunInv'
<1>1. life \in [Workspaces -> Life] /\ agents \in Workspaces \cup {NoWs}
      /\ drains \in [Workspaces -> SUBSET Requests]
  BY DEF TypeOK, WorkspaceTypes, ManagerTypes
<1>2. ASSUME NEW r \in Reloads, SwapRefused(r)
      PROVE  RunInv'
  <2>1. /\ UNCHANGED <<agents, request, owner, drains, late>>
        /\ life' = [life EXCEPT ![candidate[r]] = "stopped"]
    BY <1>2 DEF SwapRefused, Swaps, Discard, requestVars
  <2>2. candidate[r] # agents /\ life[candidate[r]] = "running"
    BY <1>2, SwapFacts DEF SwapRefused
  <2> QED
    BY <1>1, <2>1, <2>2 DEF RunInv, Live
<1>3. ASSUME NEW r \in Reloads, SwapCommits(r)
      PROVE  RunInv'
  <2>1. /\ UNCHANGED <<request, owner, late>> /\ agents \in Workspaces
        /\ life' = [life EXCEPT ![agents] = "retiring"]
        /\ drains' = [drains EXCEPT ![agents] = RunsOf(agents)]
        /\ ~locked
    BY <1>1, <1>3 DEF SwapCommits, Swaps, Commit, requestVars
  <2>2. life'[agents] = "retiring" /\ drains'[agents] = RunsOf(agents)
        /\ \A v \in Workspaces : v # agents => life'[v] = life[v] /\ drains'[v] = drains[v]
    BY <1>1, <2>1
  <2> QED
    BY <2>1, <2>2 DEF RunInv, RunsOf, Live
<1>4. ASSUME NEW w \in Workspaces, Retire(w)
      PROVE  RunInv'
  <2>1. /\ UNCHANGED <<agents, request, owner, drains, late>>
        /\ life' = [life EXCEPT ![w] = "stopped"]
        /\ life[w] = "retiring" /\ Drained(w)
    BY <1>4 DEF Retire, StopOld, requestVars, historyVars
  <2>2. \A q \in Requests : Live(q) => q \notin drains[w]
    BY <2>1 DEF Drained, Live
  <2>3. \A q \in Requests : Live(q)' <=> Live(q)
    BY <2>1 DEF Live
  <2>4. \A v \in Workspaces : v # w => life'[v] = life[v]
    BY <1>1, <2>1
  <2>5. ASSUME NEW q \in Requests, q \notin late, Live(q), owner[q] # agents
        PROVE  \/ life'[owner[q]] = "retiring" /\ q \in drains[owner[q]]
               \/ life'[owner[q]] = "removed"
    <3>1. owner[q] \in Workspaces
      BY <2>5 DEF RunInv, Live
    <3> QED
      BY <2>1, <2>2, <2>4, <2>5, <3>1 DEF RunInv
  <2> QED
    BY <2>1, <2>3, <2>5 DEF RunInv
<1>5. ASSUME StopBegins
      PROVE  RunInv'
  <2>1. /\ UNCHANGED <<agents, request, owner, drains, late>> /\ ~locked /\ agents # NoWs
        /\ life' = [life EXCEPT ![agents] = "stopping"]
    BY <1>5 DEF StopBegins, wsVars, requestVars, historyVars
  <2> QED
    BY <1>1, <2>1 DEF RunInv, Live
<1>6. ASSUME StopEnds
      PROVE  RunInv'
  <2>1. /\ UNCHANGED <<request, owner, drains, late>> /\ locked
        /\ life' = [life EXCEPT ![agents] = "removed"]
    BY <1>6 DEF StopEnds, Removes, requestVars
  <2>2. agents \in Workspaces
    BY <1>1, <2>1 DEF HolderInv, ServingInv
  <2>3. life'[agents] = "removed" /\ \A v \in Workspaces : v # agents => life'[v] = life[v]
    BY <1>1, <2>1, <2>2
  <2> QED
    BY <2>1, <2>3 DEF RunInv, Live
<1> QED
  BY <1>2, <1>3, <1>4, <1>5, <1>6

\* Every step keeps the runs with a workspace that is up, or waits for them.
LEMMA RunStep ==
    ASSUME TypeOK, HolderInv, RunInv, [Next]_vars
    PROVE  RunInv'
<1>1. ASSUME \/ \E r \in Reloads :
                   \/ \E b \in Backends : SaveConfig(r, b)
                   \/ \E w \in Workspaces : WatcherNotices(w, r)
                   \/ ReloadBegins(r) \/ ReloadChecks(r)
             \/ ReleaseWaiters \/ EditFile \/ UNCHANGED vars
      PROVE  RunInv'
  <2>1. UNCHANGED <<agents, life, drains, request, owner, late>>
    BY <1>1 DEF SaveConfig, WatcherNotices, ReloadBegins, ReloadChecks,
                ReleaseWaiters, EditFile, wsVars, requestVars, historyVars, vars
  <2> QED
    BY <2>1 DEF RunInv, Live
<1> QED
  BY <1>1, Steps, RequestKeepsRuns, StartKeepsRuns, StopKeepsRuns

\* A reload never stops a workspace under a run it served: the run's workspace
\* serves on, waits for it, or somebody removed the agent.
THEOREM ServedRunsAreKept == Spec => []RunsKept
<1>1. Init => RunInv
  BY DEF Init, RunInv, Live
<1>2. TypeOK /\ HolderInv /\ RunInv => RunsKept
  <2> SUFFICES ASSUME TypeOK, HolderInv, RunInv, NEW q \in Requests \ late, Live(q)
               PROVE  life[owner[q]] # "stopped"
    BY DEF RunsKept
  <2>1. owner[q] \in Workspaces
    BY DEF RunInv, Live
  <2> QED
    BY <2>1, NoWsAssumption DEF RunInv, HolderInv, ServingInv
<1>3. TypeOK /\ HolderInv /\ RunInv /\ [Next]_vars => RunInv'
  BY RunStep
<1> QED
  BY <1>1, <1>2, <1>3, HoldersInOrder, PTL DEF Spec

(***************************************************************************)
(* Memory services and settings.                                           *)
(***************************************************************************)

\* What MadeInv speaks of is not touched.
MadeVars == <<agents, life, memory, borrowed, lends, open>>

\* A start claimed or prepared, and its services coming up.
LEMMA StartKeepsMade ==
    ASSUME TypeOK, HolderInv, MadeInv, NEW w \in Workspaces,
           \/ \E q \in Requests : RequestStarts(q, w)
           \/ \E r \in Reloads : Prepare(r, w)
           \/ Build(w) \/ FinishStart(w)
    PROVE  MadeInv'
<1>1. /\ life \in [Workspaces -> Life] /\ lends \in [Workspaces -> BOOLEAN]
      /\ memory \in [Workspaces -> Workspaces \cup {NoWs}]
      /\ borrowed \in [Workspaces -> BOOLEAN] /\ agents \in Workspaces \cup {NoWs}
      /\ agents # NoWs => life[agents] \in {"running", "stopping"}
  BY DEF TypeOK, WorkspaceTypes, MemoryTypes, ManagerTypes, HolderInv, ServingInv
<1>2. ASSUME NEW q \in Requests, RequestStarts(q, w)
      PROVE  MadeInv'
  <2>1. /\ UNCHANGED <<agents, memory, borrowed, lends, open>>
        /\ life[w] = "unused" /\ life' = [life EXCEPT ![w] = "created"]
    BY <1>2 DEF RequestStarts, Claims, memVars
  <2>2. life'[w] = "created" /\ \A v \in Workspaces : v # w => life'[v] = life[v]
    BY <1>1, <2>1
  <2> QED
    BY <1>1, <2>1, <2>2 DEF MadeInv, Served
<1>3. ASSUME NEW r \in Reloads, Prepare(r, w)
      PROVE  MadeInv'
  <2> DEFINE lendable == agents # NoWs /\ lends[agents]
  <2>1. /\ UNCHANGED <<agents, lends, open>>
        /\ life[w] = "unused" /\ life' = [life EXCEPT ![w] = "created"]
        /\ borrowed' = [borrowed EXCEPT ![w] = lendable]
        /\ memory' = IF lendable THEN [memory EXCEPT ![w] = memory[agents]] ELSE memory
    BY <1>3 DEF Prepare, memVars
  <2>2. /\ life'[w] = "created" /\ \A v \in Workspaces : v # w => life'[v] = life[v]
        /\ borrowed'[w] = lendable
        /\ \A v \in Workspaces : v # w => borrowed'[v] = borrowed[v] /\ memory'[v] = memory[v]
    BY <1>1, <2>1
  <2>3. CASE lendable
    <3> DEFINE m == memory[agents]
    <3>1. /\ memory'[w] = m /\ m \in Workspaces /\ m # NoWs /\ agents \in Workspaces
          /\ life[m] \notin {"unused", "created"} /\ Served(m)
      BY <1>1, <2>1, <2>3, NoWsAssumption DEF MadeInv, Served
    <3> HIDE DEF m
    <3> QED
      BY <1>1, <2>1, <2>2, <2>3, <3>1 DEF MadeInv, Served
  <2>4. CASE ~lendable
    BY <1>1, <2>1, <2>2, <2>4 DEF MadeInv, Served
  <2> QED
    BY <2>3, <2>4
<1>4. ASSUME Build(w)
      PROVE  MadeInv'
  <2>1. /\ UNCHANGED <<agents, lends>>
        /\ life[w] = "created" /\ life' = [life EXCEPT ![w] = "built"]
    BY <1>4 DEF Build, Builds
  <2>2. life'[w] = "built" /\ \A v \in Workspaces : v # w => life'[v] = life[v]
    BY <1>1, <2>1
  <2>3. \A v \in Workspaces : memory[v] # NoWs => memory[v] # w
    BY <1>1, <2>1 DEF MadeInv
  <2>4. \A v \in Workspaces : Served(v)' <=> Served(v)
    BY <2>1, <2>2 DEF Served
  <2>5. CASE borrowed[w] /\ settings[memory[w]] = backend
    <3>1. Builds(w, TRUE)
      BY <1>1, <1>4, <2>5, Zenon DEF Build
    <3>2. UNCHANGED <<memory, open>> /\ borrowed' = [borrowed EXCEPT ![w] = TRUE]
      BY <3>1 DEF Builds
    <3>3. borrowed'[w] /\ \A v \in Workspaces : v # w => borrowed'[v] = borrowed[v]
      BY <1>1, <3>2
    <3> QED
      BY <1>1, <2>1, <2>2, <2>3, <2>4, <2>5, <3>2, <3>3 DEF MadeInv
  <2>6. CASE ~(borrowed[w] /\ settings[memory[w]] = backend)
    <3>1. /\ memory' = [memory EXCEPT ![w] = w] /\ open' = open \cup {w}
          /\ borrowed' = [borrowed EXCEPT ![w] = FALSE]
      BY <1>1, <1>4, <2>6 DEF Build, Builds
    <3>2. /\ ~borrowed'[w] /\ memory'[w] = w /\ w \in open' /\ open \subseteq open'
          /\ \A v \in Workspaces : v # w =>
                borrowed'[v] = borrowed[v] /\ memory'[v] = memory[v]
      BY <1>1, <3>1
    <3> QED
      BY <1>1, <2>1, <2>2, <2>3, <2>4, <3>2, NoWsAssumption DEF MadeInv
  <2> QED
    BY <2>5, <2>6
<1>5. ASSUME FinishStart(w)
      PROVE  MadeInv'
  <2>1. /\ UNCHANGED <<agents, memory, borrowed, lends, open>>
        /\ life[w] = "built" /\ life' = [life EXCEPT ![w] = "running"]
    BY <1>5 DEF FinishStart, memVars
  <2>2. life'[w] = "running" /\ \A v \in Workspaces : v # w => life'[v] = life[v]
    BY <1>1, <2>1
  <2> QED
    BY <1>1, <2>1, <2>2 DEF MadeInv, Served
<1> QED
  BY <1>2, <1>3, <1>4, <1>5

\* A workspace that is stopped, and why nobody else loses what is his own.
LEMMA StopKeepsMade ==
    ASSUME TypeOK, HolderInv, MadeInv, NEW w \in Workspaces,
           NEW s \in {"stopped", "removed"},
           life' = [life EXCEPT ![w] = s], life[w] \in Life \ {"unused"},
           UNCHANGED <<memory, borrowed, lends>>,
           \/ w # agents /\ UNCHANGED agents /\ s = "stopped"
              /\ life[w] \in {"created", "built", "running"}
              /\ open' = IF borrowed[w] THEN open ELSE open \ {memory[w]}
           \/ w # agents /\ UNCHANGED agents /\ s = "stopped" /\ life[w] = "retiring"
              /\ open' \in {open, open \ {memory[w]}}
           \/ w = agents /\ agents' = NoWs /\ s = "removed"
              /\ open' = open \ {memory[w]}
    PROVE  MadeInv'
<1>1. /\ life \in [Workspaces -> Life] /\ lends \in [Workspaces -> BOOLEAN]
      /\ memory \in [Workspaces -> Workspaces \cup {NoWs}]
      /\ borrowed \in [Workspaces -> BOOLEAN] /\ agents \in Workspaces \cup {NoWs}
      /\ agents # NoWs => life[agents] \in {"running", "stopping"}
  BY DEF TypeOK, WorkspaceTypes, MemoryTypes, ManagerTypes, HolderInv, ServingInv
<1>2. life'[w] = s /\ \A v \in Workspaces : v # w => life'[v] = life[v]
  BY <1>1
<1>3. \A v \in Workspaces : Served(v) => Served(v)'
  BY <1>1, <1>2 DEF Served
<1>4. ASSUME NEW v \in Workspaces, v # w, life[v] \in {"built", "running"},
             v # agents, v \in open, memory[w] = v
      PROVE  v \in open'
  <2>1. Served(memory[w])
    BY <1>1, <1>4, NoWsAssumption DEF MadeInv
  <2> QED
    BY <1>4, <2>1 DEF Served
<1>5. ASSUME NEW v \in Workspaces, life'[v] \in {"built", "running"}, v # agents',
             ~borrowed[v]
      PROVE  memory[v] = v /\ v \in open'
  <2>1. v # w /\ life[v] = life'[v] /\ v # agents
    BY <1>2, <1>5
  <2>2. memory[v] = v /\ v \in open
    BY <1>5, <2>1 DEF MadeInv
  <2> QED
    BY <1>4, <1>5, <2>1, <2>2
<1>6. \A v \in Workspaces : ~lends[v] => life'[v] \in {"retiring", "stopped"}
  BY <1>1, <1>2, NoWsAssumption DEF MadeInv
<1> QED
  BY <1>1, <1>2, <1>3, <1>5, <1>6 DEF MadeInv

\* Every step keeps the memory services in order.
LEMMA MadeStep ==
    ASSUME TypeOK, HolderInv, MadeInv, [Next]_vars
    PROVE  MadeInv'
<1>0. /\ life \in [Workspaces -> Life] /\ lends \in [Workspaces -> BOOLEAN]
      /\ memory \in [Workspaces -> Workspaces \cup {NoWs}]
      /\ borrowed \in [Workspaces -> BOOLEAN] /\ agents \in Workspaces \cup {NoWs}
      /\ agents # NoWs => life[agents] = IF locked THEN "stopping" ELSE "running"
  BY DEF TypeOK, WorkspaceTypes, MemoryTypes, ManagerTypes, HolderInv, ServingInv
<1>1. ASSUME \/ \E q \in Requests :
                   \/ RequestHolds(q) \/ RequestWaits(q) \/ RequestFails(q)
                   \/ RunStarts(q) \/ RunEnds(q)
             \/ \E r \in Reloads :
                   \/ \E b \in Backends : SaveConfig(r, b)
                   \/ \E w \in Workspaces : WatcherNotices(w, r)
                   \/ \E q \in Requests : Restart(q, r)
                   \/ ReloadBegins(r) \/ ReloadChecks(r)
             \/ ReleaseWaiters \/ EditFile \/ UNCHANGED vars
      PROVE  MadeInv'
  <2>1. UNCHANGED MadeVars
    BY <1>1 DEF RequestHolds, RequestWaits, RequestFails, RunStarts, RunEnds,
                SaveConfig, WatcherNotices, Restart, ReloadBegins,
                ReloadChecks, ReleaseWaiters, EditFile, MadeVars, wsVars,
                memVars, vars
  <2> QED
    BY <2>1 DEF MadeVars, MadeInv, Served
<1>2. ASSUME NEW q \in Requests, Install(q)
      PROVE  MadeInv'
  <2>1. UNCHANGED <<life, memory, borrowed, lends, open>> /\ agents = NoWs
    BY <1>2 DEF Install, HolderInv, StarterInv, Starting, wsVars, memVars
  <2> QED
    BY <1>0, <2>1, NoWsAssumption DEF MadeInv, Served
<1>3. ASSUME NEW w \in Workspaces, StartFails(w)
      PROVE  MadeInv'
  <2>1. /\ UNCHANGED <<agents, memory, borrowed, lends>>
        /\ life[w] \in {"created", "built"} /\ life' = [life EXCEPT ![w] = "stopped"]
        /\ open' = IF borrowed[w] THEN open ELSE open \ {memory[w]}
    BY <1>3 DEF StartFails, Discard
  <2>2. w # agents /\ life[w] \in Life \ {"unused"}
    BY <1>0, <2>1, NoWsAssumption
  <2> QED
    BY <2>1, <2>2, StopKeepsMade
<1>4. ASSUME NEW r \in Reloads, SwapRefused(r)
      PROVE  MadeInv'
  <2> DEFINE c == candidate[r]
  <2>1. /\ UNCHANGED <<agents, memory, borrowed, lends>>
        /\ life' = [life EXCEPT ![c] = "stopped"]
        /\ open' = IF borrowed[c] THEN open ELSE open \ {memory[c]}
    BY <1>4 DEF SwapRefused, Discard
  <2>2. c \in Workspaces /\ c # agents /\ life[c] = "running" /\ life[c] \in Life \ {"unused"}
    BY <1>4, SwapFacts DEF SwapRefused, Life
  <2> HIDE DEF c
  <2> QED
    BY <2>1, <2>2, StopKeepsMade
<1>5. ASSUME NEW w \in Workspaces, Retire(w)
      PROVE  MadeInv'
  <2>1. /\ UNCHANGED <<agents, memory, borrowed, lends>>
        /\ life[w] = "retiring" /\ life' = [life EXCEPT ![w] = "stopped"]
        /\ open' \in {open, open \ {memory[w]}}
    BY <1>5 DEF Retire, StopOld
  <2>2. w # agents /\ life[w] \in Life \ {"unused"}
    BY <1>0, <2>1, NoWsAssumption
  <2> QED
    BY <2>1, <2>2, StopKeepsMade
<1>6. ASSUME StopEnds
      PROVE  MadeInv'
  <2>1. /\ UNCHANGED <<memory, borrowed, lends>> /\ agents' = NoWs
        /\ life' = [life EXCEPT ![agents] = "removed"] /\ open' = open \ {memory[agents]}
        /\ locked
    BY <1>6 DEF StopEnds, Removes
  <2>2. agents \in Workspaces /\ life[agents] = "stopping" /\ life[agents] \in Life \ {"unused"}
    BY <1>0, <2>1 DEF HolderInv, ServingInv, Life
  <2>3. PICK a \in Workspaces : a = agents
    BY <2>2
  <2> QED
    BY <2>1, <2>2, <2>3, StopKeepsMade
<1>7. ASSUME StopBegins
      PROVE  MadeInv'
  <2>1. /\ UNCHANGED <<agents, memory, borrowed, lends, open>>
        /\ agents # NoWs /\ life' = [life EXCEPT ![agents] = "stopping"] /\ ~locked
    BY <1>7 DEF StopBegins, memVars
  <2>2. life'[agents] = "stopping" /\ \A v \in Workspaces : v # agents => life'[v] = life[v]
    BY <1>0, <2>1
  <2> QED
    BY <1>0, <2>1, <2>2 DEF MadeInv, Served
<1>8. ASSUME NEW r \in Reloads, SwapCommits(r)
      PROVE  MadeInv'
  <2>1. /\ UNCHANGED <<memory, open>> /\ agents' = candidate[r] /\ agents # NoWs
        /\ life' = [life EXCEPT ![agents] = "retiring"]
    BY <1>8 DEF SwapCommits, Commit, memVars
  <2>2. \E b : lends' = [lends EXCEPT ![agents] = b]
    BY <1>8 DEF SwapCommits, Commit
  <2>3. \E b : borrowed' = [borrowed EXCEPT ![agents] = b]
    BY <1>8 DEF SwapCommits, Commit
  <2>4. /\ life'[agents] = "retiring"
        /\ \A v \in Workspaces : v # agents =>
              life'[v] = life[v] /\ borrowed'[v] = borrowed[v] /\ lends'[v] = lends[v]
    BY <1>0, <2>1, <2>2, <2>3
  <2>5. \A v \in Workspaces : Served(v) => Served(v)'
    BY <1>0, <2>1, <2>4 DEF Served
  <2>6. life[agents] \in {"running", "stopping"}
    BY <1>0, <2>1
  <2> QED
    BY <1>0, <2>1, <2>4, <2>5, <2>6 DEF MadeInv
<1> QED
  BY <1>1, <1>2, <1>3, <1>4, <1>5, <1>6, <1>7, <1>8, Steps, StartKeepsMade

\* A build keeps a borrowed memory service that fits, or makes one.
LEMMA BuildCases ==
    ASSUME TypeOK, NEW w \in Workspaces, Build(w)
    PROVE  \/ /\ borrowed[w] /\ settings[memory[w]] = backend
              /\ UNCHANGED <<memory, open, settings>> /\ borrowed'[w]
           \/ /\ ~(borrowed[w] /\ settings[memory[w]] = backend)
              /\ memory' = [memory EXCEPT ![w] = w] /\ open' = open \cup {w}
              /\ settings' = [settings EXCEPT ![w] = backend] /\ ~borrowed'[w]
<1>1. borrowed \in [Workspaces -> BOOLEAN]
  BY DEF TypeOK, MemoryTypes
<1>2. CASE borrowed[w] /\ settings[memory[w]] = backend
  <2>1. Builds(w, TRUE)
    BY <1>1, <1>2, Zenon DEF Build
  <2>2. UNCHANGED <<memory, open, settings>> /\ borrowed' = [borrowed EXCEPT ![w] = TRUE]
    BY <2>1 DEF Builds
  <2> QED
    BY <1>1, <1>2, <2>2
<1>3. CASE ~(borrowed[w] /\ settings[memory[w]] = backend)
  <2>1. /\ memory' = [memory EXCEPT ![w] = w] /\ open' = open \cup {w}
        /\ settings' = [settings EXCEPT ![w] = backend]
        /\ borrowed' = [borrowed EXCEPT ![w] = FALSE]
    BY <1>3 DEF Build, Builds
  <2> QED
    BY <1>1, <1>3, <2>1
<1> QED
  BY <1>2, <1>3

\* A candidate's services come up.
LEMMA BuildKeepsFresh ==
    ASSUME TypeOK, HolderInv, MadeInv, FreshInv, NEW w \in Workspaces, Build(w)
    PROVE  FreshInv'
<1>1. /\ UNCHANGED <<version, backend, noted, generation, captured, candidate>>
      /\ life[w] = "created" /\ life' = [life EXCEPT ![w] = "built"]
      /\ config' = [config EXCEPT ![w] = version]
  BY DEF Build, Builds, fileVars, callVars
<1>2. /\ life \in [Workspaces -> Life] /\ config \in [Workspaces -> 0 .. version]
      /\ memory \in [Workspaces -> Workspaces \cup {NoWs}]
      /\ settings \in [Workspaces -> Backends]
      /\ candidate \in [Reloads -> Workspaces \cup {NoWs}]
      /\ version \in Nat /\ noted \in 0 .. version
  BY MaxEditsAssumption DEF TypeOK, WorkspaceTypes, MemoryTypes, CallTypes, FileTypes
<1>3. config'[w] >= noted
  BY <1>1, <1>2
<1>4. settings'[memory'[w]] = backend
  BY <1>2, BuildCases
<1>5. ASSUME NEW v \in Workspaces, v # w, Built(v)
      PROVE  life'[v] = life[v] /\ config'[v] = config[v]
             /\ settings'[memory'[v]] = settings[memory[v]]
  <2>1. memory[v] # NoWs /\ memory[v] # w
    BY <1>1, <1>5 DEF MadeInv, Built
  <2> QED
    BY <1>1, <1>2, <1>5, <2>1, BuildCases
<1>6. ASSUME NEW r \in Reloads, candidate'[r] # NoWs, Current(r)', Built(candidate[r])'
      PROVE  config'[candidate'[r]] >= noted' /\ settings'[memory'[candidate'[r]]] = backend'
  <2>1. CASE candidate[r] = w
    BY <1>1, <1>3, <1>4, <2>1
  <2>2. CASE candidate[r] # w
    <3>1. candidate[r] \in Workspaces /\ Built(candidate[r]) /\ Current(r)
      BY <1>1, <1>2, <1>6, <2>2 DEF Built, Current
    <3> QED
      BY <1>1, <1>5, <1>6, <2>2, <3>1 DEF FreshInv
  <2> QED
    BY <2>1, <2>2
<1> QED
  BY <1>1, <1>6 DEF FreshInv

\* A reload that began before the last noted change stays behind it, and a
\* candidate that is up has the config and the settings of now.
LEMMA FreshStep ==
    ASSUME TypeOK, HolderInv, MadeInv, FreshInv, [Next]_vars
    PROVE  FreshInv'
<1>0. /\ generation \in Nat /\ captured \in [Reloads -> 0 .. generation]
      /\ candidate \in [Reloads -> Workspaces \cup {NoWs}] /\ call \in [Reloads -> Call]
      /\ life \in [Workspaces -> Life]
      /\ memory \in [Workspaces -> Workspaces \cup {NoWs}]
  BY DEF TypeOK, ManagerTypes, CallTypes, WorkspaceTypes, MemoryTypes
<1>1. ASSUME \E r \in Reloads :
                \/ \E b \in Backends : SaveConfig(r, b)
                \/ \E w \in Workspaces : WatcherNotices(w, r)
      PROVE  FreshInv'
  <2>1. generation' = generation + 1 /\ UNCHANGED captured
    BY <1>1 DEF SaveConfig, WatcherNotices
  <2>2. \A r \in Reloads : captured'[r] # generation'
    BY <1>0, <2>1
  <2> QED
    BY <2>2 DEF FreshInv, Current
<1>2. ASSUME NEW r \in Reloads, ReloadBegins(r)
      PROVE  FreshInv'
  <2>1. /\ UNCHANGED <<life, config, memory, settings, backend, noted, generation, candidate>>
        /\ call[r] = "scheduled" /\ captured' = [captured EXCEPT ![r] = generation]
    BY <1>2 DEF ReloadBegins, wsVars, memVars, fileVars
  <2>2. candidate[r] = NoWs
    BY <2>1 DEF HolderInv, CandidateInv
  <2>3. \A t \in Reloads : t # r => captured'[t] = captured[t]
    BY <1>0, <2>1
  <2> QED
    BY <2>1, <2>2, <2>3 DEF FreshInv, Current, Built
<1>3. ASSUME NEW w \in Workspaces,
             \/ \E q \in Requests : RequestStarts(q, w)
             \/ \E r \in Reloads : Prepare(r, w)
      PROVE  FreshInv'
  <2>1. /\ UNCHANGED <<config, settings, backend, noted, generation, captured>>
        /\ life[w] = "unused" /\ life' = [life EXCEPT ![w] = "created"]
        /\ \A v \in Workspaces : v # w => memory'[v] = memory[v]
        /\ \A r \in Reloads : candidate'[r] \in {candidate[r], w}
    BY <1>0, <1>3 DEF RequestStarts, Claims, Prepare, memVars, fileVars, callVars
  <2>2. ASSUME NEW r \in Reloads, candidate'[r] # NoWs, Current(r)', Built(candidate[r])'
        PROVE  /\ candidate'[r] = candidate[r] /\ candidate[r] \in Workspaces
               /\ Current(r) /\ Built(candidate[r])
               /\ memory'[candidate[r]] = memory[candidate[r]]
    <3>1. candidate'[r] # w
      BY <1>0, <2>1, <2>2 DEF Built
    <3>2. candidate'[r] = candidate[r] /\ candidate[r] \in Workspaces
      BY <1>0, <2>1, <2>2, <3>1
    <3> QED
      BY <1>0, <2>1, <2>2, <3>1, <3>2 DEF Built, Current
  <2> QED
    BY <2>1, <2>2 DEF FreshInv
<1>4. ASSUME NEW w \in Workspaces, FinishStart(w) \/ StartFails(w) \/ Retire(w)
      PROVE  FreshInv'
  <2>1. /\ UNCHANGED <<config, memory, settings, backend, noted, generation, captured>>
        /\ \/ life[w] = "built" /\ life' = [life EXCEPT ![w] = "running"]
           \/ life' = [life EXCEPT ![w] = "stopped"]
        /\ \A r \in Reloads : candidate'[r] \in {candidate[r], NoWs}
    BY <1>4 DEF FinishStart, StartFails, Discard, Retire, StopOld, memVars,
                fileVars, callVars
  <2>2. \A v \in Workspaces : Built(v)' => Built(v)
    BY <1>0, <2>1 DEF Built
  <2>3. ASSUME NEW r \in Reloads, candidate'[r] # NoWs, Current(r)', Built(candidate[r])'
        PROVE  candidate'[r] = candidate[r] /\ Current(r) /\ Built(candidate[r])
    BY <1>0, <2>1, <2>2, <2>3 DEF Current, Built
  <2> QED
    BY <2>1, <2>3 DEF FreshInv
<1>5. ASSUME \/ StopBegins \/ StopEnds
             \/ \E r \in Reloads : SwapRefused(r) \/ SwapCommits(r)
      PROVE  FreshInv'
  <2>1. /\ UNCHANGED <<config, memory, settings, backend, noted, generation, captured>>
        /\ \A r \in Reloads : candidate'[r] \in {candidate[r], NoWs}
        /\ \E w, s : s \in {"stopped", "stopping", "retiring", "removed"}
                     /\ life' = [life EXCEPT ![w] = s]
    BY <1>0, <1>5 DEF StopBegins, StopEnds, Removes, SwapRefused, Swaps, Discard,
                SwapCommits, Commit, memVars, fileVars, callVars
  <2>2. \A v \in Workspaces : Built(v)' => Built(v)
    BY <1>0, <2>1 DEF Built
  <2>3. ASSUME NEW r \in Reloads, candidate'[r] # NoWs, Current(r)', Built(candidate[r])'
        PROVE  candidate'[r] = candidate[r] /\ Current(r) /\ Built(candidate[r])
    BY <1>0, <2>1, <2>2, <2>3 DEF Current, Built
  <2> QED
    BY <2>1, <2>3 DEF FreshInv
<1>6. ASSUME \/ \E q \in Requests :
                   \/ RequestHolds(q) \/ RequestWaits(q) \/ RequestFails(q)
                   \/ Install(q) \/ RunStarts(q) \/ RunEnds(q)
                   \/ \E r \in Reloads : Restart(q, r)
             \/ \E r \in Reloads : ReloadChecks(r)
             \/ ReleaseWaiters \/ EditFile \/ UNCHANGED vars
      PROVE  FreshInv'
  <2>1. UNCHANGED <<life, config, memory, settings, backend, noted, generation,
                    captured, candidate>>
    BY <1>6 DEF RequestHolds, RequestWaits, RequestFails, Install, RunStarts,
                RunEnds, Restart, ReloadChecks, ReleaseWaiters, EditFile,
                wsVars, memVars, fileVars, callVars, vars
  <2> QED
    BY <2>1 DEF FreshInv, Current, Built
<1> QED
  BY <1>1, <1>2, <1>3, <1>4, <1>5, <1>6, Steps, BuildKeepsFresh

\* The candidates and their memory services, always.
LEMMA CandidatesInOrder == Spec => [](TypeOK /\ HolderInv /\ MadeInv /\ FreshInv)
<1>1. Init => MadeInv /\ FreshInv
  BY NoWsAssumption DEF Init, MadeInv, FreshInv
<1> QED
  BY <1>1, HoldersInOrder, MadeStep, FreshStep, PTL DEF Spec

\* Only the swap of a reload puts another workspace in the place of one that
\* serves, and what it puts there is fresh.
LEMMA SwapIsFresh ==
    ASSUME TypeOK, HolderInv, FreshInv, [Next]_vars,
           agents # NoWs, agents' \notin {agents, NoWs}
    PROVE  config[agents'] >= noted /\ settings[memory[agents']] = backend
<1>1. PICK r \in Reloads : SwapCommits(r)
  <2>1. \/ UNCHANGED agents \/ agents' = NoWs \/ \E q \in Requests : Install(q)
        \/ \E r \in Reloads : SwapCommits(r)
    BY Steps
       DEF RequestHolds, RequestWaits, RequestFails, RunStarts,
           RunEnds, RequestStarts, Claims, Build, Builds, FinishStart,
           StartFails, Retire, StopOld, SaveConfig, WatcherNotices, Restart,
           ReloadBegins, ReloadChecks, Prepare, SwapRefused, Swaps,
           ReleaseWaiters, EditFile, StopBegins, StopEnds, Removes, vars
  <2>2. \A q \in Requests : ~Install(q)
    BY DEF Install, HolderInv, StarterInv, Starting
  <2> QED
    BY <2>1, <2>2
<1>2. /\ Current(r) /\ Built(candidate[r]) /\ agents' = candidate[r]
      /\ call[r] = "building"
  BY <1>1 DEF SwapCommits, Swaps, Commit, Current, Built
<1>3. candidate[r] # NoWs
  BY <1>2 DEF HolderInv, CandidateInv
<1> QED
  BY <1>2, <1>3 DEF FreshInv

\* A swap never installs a workspace older than the last noted change of the
\* config: whatever reloads overlap, a save is not reverted.
THEOREM SwapsAreNotStale == Spec => NoStaleSwap
<1>1. TypeOK /\ HolderInv /\ FreshInv /\ [Next]_vars =>
        [agents # NoWs /\ agents' \notin {agents, NoWs} => config[agents'] >= noted]_vars
  BY SwapIsFresh
<1> QED
  BY <1>1, CandidatesInOrder, PTL DEF Spec, NoStaleSwap

\* A swap installs a workspace whose memory service was made with the memory
\* settings of now, its own or a borrowed one.
THEOREM SwapsApplySettings == Spec => SwapAppliesSettings
<1>1. TypeOK /\ HolderInv /\ FreshInv /\ [Next]_vars =>
        [agents # NoWs /\ agents' \notin {agents, NoWs}
           => settings[memory[agents']] = backend]_vars
  BY SwapIsFresh
<1> QED
  BY <1>1, CandidatesInOrder, PTL DEF Spec, SwapAppliesSettings

(***************************************************************************)
(* The memory service that is handed on.                                   *)
(***************************************************************************)

Ordered == TypeOK /\ HolderInv /\ MadeInv /\ FreshInv

\* The types and the facts the steps below need.
LEMMA OrderedFacts ==
    ASSUME Ordered
    PROVE  /\ life \in [Workspaces -> Life] /\ lends \in [Workspaces -> BOOLEAN]
           /\ memory \in [Workspaces -> Workspaces \cup {NoWs}]
           /\ borrowed \in [Workspaces -> BOOLEAN]
           /\ settings \in [Workspaces -> Backends] /\ open \subseteq Workspaces
           /\ candidate \in [Reloads -> Workspaces \cup {NoWs}]
           /\ lent \in [Reloads -> Workspaces \cup {NoWs}]
           /\ call \in [Reloads -> Call] /\ captured \in [Reloads -> 0 .. generation]
           /\ agents \in Workspaces \cup {NoWs} /\ generation \in Nat
           /\ agents # NoWs =>
                 /\ life[agents] \in {"running", "stopping"}
                 /\ memory[agents] # NoWs /\ lends[agents]
                 /\ \A q \in Requests : ~Starting(q)
           /\ \A r \in Reloads : candidate[r] # NoWs => call[r] = "building"
BY DEF Ordered, TypeOK, WorkspaceTypes, MemoryTypes, ManagerTypes, CallTypes,
       HolderInv, ServingInv, StarterInv, CandidateInv, MadeInv

\* A workspace that is up and never served is used by nobody but itself.
LEMMA OwnMemory ==
    ASSUME Ordered, NEW x \in Workspaces, Built(x), x # agents,
           NEW w \in Workspaces, w # x
    PROVE  memory[w] # x
BY NoWsAssumption DEF Ordered, MadeInv, Built, Served

\* Steps that leave the workspaces and the file alone.
LEMMA IdleKeepsShared ==
    ASSUME Ordered, Shared,
           \/ \E q \in Requests :
                 \/ RequestHolds(q) \/ RequestWaits(q) \/ RequestFails(q)
                 \/ RunStarts(q) \/ RunEnds(q)
                 \/ \E r \in Reloads : Restart(q, r)
           \/ \E r \in Reloads : ReloadChecks(r)
           \/ ReleaseWaiters \/ EditFile \/ UNCHANGED vars
    PROVE  Shared'
<1>1. UNCHANGED <<agents, life, memory, borrowed, lends, open, settings, backend,
                  generation, captured, candidate, lent>>
  BY DEF RequestHolds, RequestWaits, RequestFails, RunStarts, RunEnds, Restart,
         ReloadChecks, ReleaseWaiters, EditFile, wsVars, memVars, fileVars,
         callVars, vars
<1>2. \A q \in Requests : Starting(q)' => Starting(q) /\ owner'[q] = owner[q]
  BY DEF RequestHolds, RequestWaits, RequestFails, RunStarts, RunEnds, Restart,
         ReloadChecks, ReleaseWaiters, EditFile, requestVars, vars, Starting,
         Ordered, TypeOK, RequestTypes
<1>3. \A r \in Reloads : call'[r] \in {"preparing", "building"} =>
         call[r] \in {"preparing", "building"} \/ agents # NoWs
  BY DEF RequestHolds, RequestWaits, RequestFails, RunStarts, RunEnds, Restart,
         ReloadChecks, ReleaseWaiters, EditFile, callVars, vars, Ordered, TypeOK,
         CallTypes
<1>4. LentInv'
  BY <1>1, <1>3 DEF Shared, LentInv, LentOf, Current, Built
<1>5. (OpenInv /\ UserInv)'
  BY <1>1, <1>2 DEF Shared, OpenInv, UserInv, ClosedBy, Kept, Built
<1> QED
  BY <1>4, <1>5 DEF Shared

\* A change is noted, or a reload begins: the candidates there are are no
\* longer to be installed, or go on as they were.
LEMMA NoteKeepsShared ==
    ASSUME Ordered, Shared, NEW r \in Reloads,
           \/ \E b \in Backends : SaveConfig(r, b)
           \/ \E w \in Workspaces : WatcherNotices(w, r)
           \/ ReloadBegins(r)
    PROVE  Shared'
<1>1. /\ UNCHANGED <<agents, life, memory, borrowed, lends, open, settings,
                     candidate, lent, request, owner>>
      /\ \A t \in Reloads : call'[t] \in {"preparing", "building"} => call'[t] = call[t]
  BY OrderedFacts DEF SaveConfig, WatcherNotices, ReloadBegins, wsVars, memVars, requestVars
<1>2. \A t \in Reloads : candidate[t] # NoWs /\ Current(t)' =>
         Current(t) /\ UNCHANGED backend
  <2>1. ASSUME ReloadBegins(r)
        PROVE  \A t \in Reloads : candidate[t] # NoWs /\ Current(t)' =>
                  Current(t) /\ UNCHANGED backend
    <3>1. candidate[r] = NoWs
      BY <2>1, OrderedFacts DEF ReloadBegins
    <3> QED
      BY <2>1, <3>1, OrderedFacts DEF ReloadBegins, Current, fileVars
  <2>2. ASSUME generation' = generation + 1, UNCHANGED captured
        PROVE  \A t \in Reloads : ~Current(t)'
    BY <2>2, OrderedFacts DEF Current
  <2> QED
    BY <2>1, <2>2 DEF SaveConfig, WatcherNotices
<1>3. LentInv'
  BY <1>1, <1>2 DEF Shared, LentInv, LentOf, Built
<1>4. (OpenInv /\ UserInv)'
  BY <1>1 DEF Shared, OpenInv, UserInv, ClosedBy, Kept, Built, Starting
<1> QED
  BY <1>3, <1>4 DEF Shared

\* The first request claims a workspace: nothing serves, no reload is under way.
LEMMA ClaimKeepsShared ==
    ASSUME Ordered, Shared, NEW q \in Requests, NEW w \in Workspaces,
           RequestStarts(q, w)
    PROVE  Shared'
<1>1. /\ UNCHANGED <<agents, memory, borrowed, lends, open, call, candidate>>
      /\ agents = NoWs /\ pending = NoWs
      /\ life[w] = "unused" /\ life' = [life EXCEPT ![w] = "created"]
      /\ request' = [request EXCEPT ![q] = "starting"]
      /\ owner' = [owner EXCEPT ![q] = w]
  BY DEF RequestStarts, Claims, memVars, callVars
<1>2. life'[w] = "created" /\ \A v \in Workspaces : v # w => life'[v] = life[v]
  BY <1>1, OrderedFacts
<1>3. LentInv'
  BY <1>1, OrderedFacts DEF Shared, LentInv, LentOf
<1>4. OpenInv'
  <2>1. \A p \in Requests : Starting(p)' => p = q
    BY <1>1, NoWsAssumption
       DEF Ordered, HolderInv, StarterInv, Starting, TypeOK, RequestTypes
  <2>2. owner'[q] = w /\ ~borrowed[w]
    BY <1>1 DEF Ordered, MadeInv, TypeOK, RequestTypes
  <2> QED
    BY <1>1, <2>1, <2>2 DEF OpenInv
<1>5. UserInv'
  BY <1>1, <1>2, OrderedFacts DEF Shared, UserInv, ClosedBy, Kept, Built
<1> QED
  BY <1>3, <1>4, <1>5 DEF Shared

\* The starter's workspace has a memory service of its own.
LEMMA InstallKeepsShared ==
    ASSUME Ordered, Shared, NEW q \in Requests, Install(q)
    PROVE  Shared'
<1>1. /\ UNCHANGED <<life, memory, borrowed, lends, open, call, candidate, owner>>
      /\ Starting(q) /\ life[owner[q]] = "running"
      /\ agents' = owner[q] /\ request' = [request EXCEPT ![q] = "held"]
  BY DEF Install, Starting, wsVars, memVars, callVars
<1>2. PICK x \in Workspaces : x = owner[q] /\ agents = NoWs /\ x # NoWs
  BY <1>1, NoWsAssumption DEF Ordered, HolderInv, StarterInv
<1>3. memory[x] = x /\ x \in open /\ Built(x) /\ x # agents
  BY <1>1, <1>2 DEF Shared, OpenInv, Ordered, MadeInv, Built
<1>4. LentInv'
  BY <1>1, <1>2, OrderedFacts DEF Shared, LentInv, LentOf
<1>5. OpenInv'
  <2>1. \A p \in Requests : ~Starting(p)'
    BY <1>1 DEF Ordered, HolderInv, StarterInv, Starting, TypeOK, RequestTypes
  <2>2. \A w \in Workspaces : life[w] = "retiring" => memory[w] # x
    BY <1>1, <1>2, <1>3, OwnMemory
  <2> QED
    BY <1>1, <1>2, <1>3, <2>1, <2>2 DEF OpenInv
<1>6. UserInv'
  BY <1>1, <1>2, <1>3 DEF Shared, UserInv, ClosedBy, Kept, Built
<1> QED
  BY <1>4, <1>5, <1>6 DEF Shared

\* The services of a workspace come up: a borrowed memory service is kept if
\* it fits, and then it is the one in use, or rejected.
LEMMA BuildKeepsShared ==
    ASSUME Ordered, Shared, NEW w \in Workspaces, Build(w)
    PROVE  Shared'
<1>1. /\ UNCHANGED <<agents, lends, backend, generation, captured, call,
                     candidate, lent, request, owner>>
      /\ life[w] = "created" /\ life' = [life EXCEPT ![w] = "built"]
      /\ \E b : borrowed' = [borrowed EXCEPT ![w] = b]
  BY DEF Build, Builds, fileVars, callVars, requestVars
<1>2. /\ life'[w] = "built" /\ w # agents /\ w # NoWs
      /\ \A v \in Workspaces : v # w => life'[v] = life[v] /\ borrowed'[v] = borrowed[v]
  BY <1>1, OrderedFacts, NoWsAssumption
<1>3. \A v \in Workspaces : memory[v] # NoWs => memory[v] # w
  BY <1>1 DEF Ordered, MadeInv
<1>4. \/ /\ borrowed[w] /\ settings[memory[w]] = backend
         /\ UNCHANGED <<memory, open, settings>> /\ borrowed'[w]
      \/ /\ ~(borrowed[w] /\ settings[memory[w]] = backend)
         /\ memory' = [memory EXCEPT ![w] = w] /\ open' = open \cup {w}
         /\ settings' = [settings EXCEPT ![w] = backend] /\ ~borrowed'[w]
  BY BuildCases DEF Ordered
<1>5. \A v \in Workspaces : v # w => memory'[v] = memory[v]
      /\ \A m \in Workspaces : m # w => settings'[m] = settings[m]
  BY <1>4, OrderedFacts
<1>6. LentInv'
  <2> SUFFICES ASSUME NEW r \in Reloads
               PROVE  LentOf(r)'
    BY DEF LentInv
  <2>1. LentOf(r)
    BY DEF Shared, LentInv
  <2>2. Current(r)' <=> Current(r)
    BY <1>1 DEF Current
  <2>3. CASE candidate[r] = NoWs
    BY <1>1, <2>1, <2>3 DEF LentOf
  <2>4. ASSUME candidate[r] # NoWs
        PROVE  LentOf(r)'
    <3> DEFINE l == lent[r]
               c == candidate[r]
    <3>1. /\ l \in Workspaces /\ l # w /\ c \in Workspaces /\ agents \in Workspaces
          /\ call[r] = "building" /\ memory[l] # NoWs /\ agents # NoWs
      BY <1>1, <2>1, <2>4, OrderedFacts DEF LentOf
    <3>2. /\ memory'[l] = memory[l] /\ memory'[agents] = memory[agents]
          /\ memory[agents] # NoWs /\ life'[l] = life[l]
      BY <1>2, <1>5, <3>1, OrderedFacts
    <3>3. CASE c # w
      <4>1. /\ life'[c] = life[c] /\ borrowed'[c] = borrowed[c] /\ memory'[c] = memory[c]
        BY <1>2, <1>5, <3>1, <3>3
      <4>2. life[c] = "created" => settings'[memory[c]] = settings[memory[c]]
        BY <1>3, <1>5, <2>1, <2>4, <3>1, OrderedFacts DEF LentOf
      <4>3. settings'[memory[l]] = settings[memory[l]]
        BY <1>3, <1>5, <3>1, OrderedFacts
      <4> QED
        BY <1>1, <2>1, <2>2, <2>4, <3>1, <3>2, <3>3, <4>1, <4>2, <4>3 DEF LentOf, Built
    <3>4. CASE c = w
      <4>1. memory[w] = memory[l] /\ memory[w] # NoWs /\ borrowed[w]
        BY <1>1, <2>1, <2>4, <3>4 DEF LentOf, Ordered, MadeInv
      <4>2. CASE borrowed[w] /\ settings[memory[w]] = backend
        <5>1. UNCHANGED <<memory, settings>> /\ borrowed'[w]
          BY <1>4, <4>2
        <5> QED
          BY <1>1, <1>2, <2>1, <2>2, <2>4, <3>1, <3>2, <3>4, <4>1, <4>2, <5>1 DEF LentOf, Built
      <4>3. CASE ~(borrowed[w] /\ settings[memory[w]] = backend)
        <5>1. ~borrowed'[w] /\ settings[memory[l]] # backend
          BY <1>4, <4>1, <4>3
        <5>2. memory[l] \in Workspaces /\ memory[l] # w
          BY <1>3, <3>1, <4>1, OrderedFacts
        <5>3. settings'[memory[l]] # backend
          BY <1>5, <5>1, <5>2
        <5> QED
          BY <1>1, <1>2, <2>4, <3>1, <3>2, <3>4, <5>1, <5>3, <2>1 DEF LentOf
      <4> QED
        BY <4>2, <4>3
    <3> QED
      BY <3>3, <3>4
  <2> QED
    BY <2>3, <2>4
<1>7. OpenInv'
  <2>1. open \subseteq open'
    BY <1>4
  <2>2. agents # NoWs => agents \in Workspaces /\ memory'[agents] = memory[agents]
    BY <1>2, <1>5, OrderedFacts
  <2>3. \A v \in Workspaces : life'[v] = "retiring" =>
           /\ life[v] = "retiring" /\ (Kept(v)' <=> Kept(v)) /\ memory'[v] = memory[v]
    BY <1>1, <1>2, <1>5 DEF Kept
  <2>4. ASSUME NEW q \in Requests, Starting(q)
        PROVE  ~borrowed'[owner[q]]
    <3>1. owner[q] \in Workspaces /\ ~borrowed[owner[q]]
      BY <2>4 DEF Shared, OpenInv, Ordered, HolderInv, StarterInv
    <3> QED
      BY <1>2, <1>4, <3>1
  <2> QED
    BY <1>1, <2>1, <2>2, <2>3, <2>4 DEF Shared, OpenInv, Starting
<1>8. UserInv'
  <2> SUFFICES ASSUME NEW m \in open'
               PROVE  ClosedBy(m)'
    BY DEF UserInv
  <2>1. CASE m \in open
    <3>1. ClosedBy(m) /\ m \in Workspaces
      BY <2>1, OrderedFacts DEF Shared, UserInv
    <3>2. Built(m) => m # w
      BY <1>1 DEF Built
    <3>3. agents # NoWs => agents \in Workspaces /\ memory'[agents] = memory[agents]
      BY <1>2, <1>5, OrderedFacts
    <3>4. \A v \in Workspaces : life[v] = "retiring" =>
             /\ life'[v] = "retiring" /\ (Kept(v)' <=> Kept(v)) /\ memory'[v] = memory[v]
      BY <1>1, <1>2, <1>5 DEF Kept
    <3> QED
      BY <1>1, <1>2, <3>1, <3>2, <3>3, <3>4 DEF ClosedBy, Built
  <2>2. CASE m \notin open
    <3>1. m = w /\ ~borrowed'[w]
      BY <1>4, <2>2
    <3> QED
      BY <1>1, <1>2, <3>1 DEF ClosedBy, Built
  <2> QED
    BY <2>1, <2>2
<1> QED
  BY <1>6, <1>7, <1>8 DEF Shared

\* The watcher comes up, or the agent's stop begins.
LEMMA PhaseKeepsShared ==
    ASSUME Ordered, Shared,
           \/ \E w \in Workspaces : FinishStart(w)
           \/ StopBegins
    PROVE  Shared'
<1>1. /\ UNCHANGED <<agents, memory, borrowed, lends, open, settings, backend,
                     generation, captured, call, candidate, lent, request, owner>>
      /\ \E w \in Workspaces :
            \/ life[w] = "built" /\ life' = [life EXCEPT ![w] = "running"]
            \/ w = agents /\ life' = [life EXCEPT ![w] = "stopping"]
  BY OrderedFacts
     DEF FinishStart, StopBegins, memVars, fileVars, callVars, requestVars
<1>2. \A v \in Workspaces :
         /\ life'[v] = "created" <=> life[v] = "created"
         /\ life'[v] = "unused" <=> life[v] = "unused"
         /\ life'[v] = "retiring" <=> life[v] = "retiring"
         /\ v # agents => (Built(v)' <=> Built(v))
  BY <1>1, OrderedFacts, NoWsAssumption DEF Built
<1>3. LentInv'
  <2> SUFFICES ASSUME NEW r \in Reloads
               PROVE  LentOf(r)'
    BY DEF LentInv
  <2>1. candidate[r] # NoWs => candidate[r] # agents
    BY DEF Ordered, HolderInv, CandidateInv
  <2>2. LentOf(r) /\ candidate[r] \in Workspaces \cup {NoWs}
        /\ lent[r] \in Workspaces \cup {NoWs}
    BY OrderedFacts DEF Shared, LentInv
  <2>3. Current(r)' <=> Current(r)
    BY <1>1 DEF Current
  <2> QED
    BY <1>1, <1>2, <2>1, <2>2, <2>3 DEF LentOf
<1>4. OpenInv'
  BY <1>1, <1>2 DEF Shared, OpenInv, Kept, Starting
<1>5. UserInv'
  BY <1>1, <1>2, OrderedFacts DEF Shared, UserInv, ClosedBy, Kept
<1> QED
  BY <1>3, <1>4, <1>5 DEF Shared

\* A workspace that never served is discarded: its memory service goes if it
\* is its own, and nobody else uses that one.
LEMMA DiscardKeepsShared ==
    ASSUME Ordered, Shared, NEW w \in Workspaces, w # agents,
           life[w] \in {"created", "built", "running"},
           life' = [life EXCEPT ![w] = "stopped"],
           open' = IF borrowed[w] THEN open ELSE open \ {memory[w]},
           UNCHANGED <<agents, memory, borrowed, lends, settings, backend,
                       generation, captured, lent, owner>>,
           \A t \in Reloads :
              \/ candidate'[t] = NoWs /\ call'[t] = "idle"
              \/ candidate'[t] = candidate[t] /\ call'[t] = call[t] /\ candidate[t] # w,
           \A q \in Requests : Starting(q)' => Starting(q)
    PROVE  Shared'
<1>1. life'[w] = "stopped" /\ \A v \in Workspaces : v # w => life'[v] = life[v]
  BY OrderedFacts
<1>2. ~borrowed[w] => \/ life[w] = "created" /\ memory[w] = NoWs
                      \/ Built(w) /\ memory[w] = w
  BY OrderedFacts DEF Ordered, MadeInv, Built
<1>3. LentInv'
  <2> SUFFICES ASSUME NEW r \in Reloads
               PROVE  LentOf(r)'
    BY DEF LentInv
  <2>1. LentOf(r) /\ candidate[r] \in Workspaces \cup {NoWs}
        /\ lent[r] \in Workspaces \cup {NoWs}
    BY OrderedFacts DEF Shared, LentInv
  <2>2. Current(r)' <=> Current(r)
    BY DEF Current
  <2> QED
    BY <1>1, <2>1, <2>2 DEF LentOf, Built
<1>4. OpenInv'
  <2>1. agents # NoWs /\ ~borrowed[w] => memory[agents] # memory[w]
    <3> SUFFICES ASSUME agents # NoWs, ~borrowed[w]
                 PROVE  memory[agents] # memory[w]
      OBVIOUS
    <3>1. agents \in Workspaces /\ memory[agents] # NoWs
      BY OrderedFacts
    <3> QED
      BY <1>2, <3>1, OwnMemory
  <2> QED
    BY <1>1, <2>1 DEF Shared, OpenInv, Kept
<1>5. UserInv'
  <2> SUFFICES ASSUME NEW m \in open'
               PROVE  ClosedBy(m)'
    BY DEF UserInv
  <2>1. m \in open /\ ClosedBy(m) /\ m \in Workspaces
    BY OrderedFacts DEF Shared, UserInv
  <2>2. ~borrowed[w] => m # memory[w]
    OBVIOUS
  <2>3. Built(m) /\ ~borrowed[m] => m # w
    BY <1>2, <2>2 DEF Built
  <2> QED
    BY <1>1, <2>1, <2>3 DEF ClosedBy, Kept, Built
<1> QED
  BY <1>3, <1>4, <1>5 DEF Shared

\* A failed start and a refused swap discard a workspace.
LEMMA GiveUpKeepsShared ==
    ASSUME Ordered, Shared,
           \/ \E w \in Workspaces : StartFails(w)
           \/ \E r \in Reloads : SwapRefused(r)
    PROVE  Shared'
<1>1. ASSUME NEW w \in Workspaces, StartFails(w)
      PROVE  Shared'
  <2>1. /\ life[w] \in {"created", "built", "running"}
        /\ life' = [life EXCEPT ![w] = "stopped"]
        /\ open' = IF borrowed[w] THEN open ELSE open \ {memory[w]}
        /\ UNCHANGED <<agents, memory, borrowed, lends, settings, backend,
                       generation, captured, lent, owner>>
    BY <1>1 DEF StartFails, Discard, fileVars
  <2>2. w # agents
    BY <1>1, OrderedFacts, NoWsAssumption DEF StartFails
  <2>3. \A t \in Reloads :
           \/ candidate'[t] = NoWs /\ call'[t] = "idle"
           \/ candidate'[t] = candidate[t] /\ call'[t] = call[t] /\ candidate[t] # w
    BY <1>1 DEF StartFails
  <2>4. \A q \in Requests : Starting(q)' => Starting(q)
    BY <1>1 DEF StartFails, Starting
  <2> QED
    BY <2>1, <2>2, <2>3, <2>4, DiscardKeepsShared
<1>2. ASSUME NEW r \in Reloads, SwapRefused(r)
      PROVE  Shared'
  <2>1. PICK c \in Workspaces : c = candidate[r]
    BY <1>2, SwapFacts DEF SwapRefused, Ordered
  <2>2. /\ life[c] \in {"created", "built", "running"} /\ c # agents
        /\ UNCHANGED <<request, owner>>
        /\ candidate'[r] = NoWs /\ call'[r] = "idle"
        /\ \A t \in Reloads : t # r =>
              candidate'[t] = candidate[t] /\ call'[t] = call[t] /\ candidate[t] # c
    BY <1>2, <2>1, SwapFacts DEF SwapRefused, Ordered
  <2>3. /\ life' = [life EXCEPT ![c] = "stopped"]
        /\ open' = IF borrowed[c] THEN open ELSE open \ {memory[c]}
        /\ UNCHANGED <<agents, memory, borrowed, lends, settings, backend,
                       generation, captured, lent, owner>>
    BY <1>2, <2>1, <2>2 DEF SwapRefused, Swaps, Discard, fileVars
  <2>4. \A q \in Requests : Starting(q)' => Starting(q)
    BY <2>2 DEF Starting
  <2>5. \A t \in Reloads :
           \/ candidate'[t] = NoWs /\ call'[t] = "idle"
           \/ candidate'[t] = candidate[t] /\ call'[t] = call[t] /\ candidate[t] # c
    BY <2>2
  <2> QED
    BY <2>2, <2>3, <2>4, <2>5, DiscardKeepsShared
<1> QED
  BY <1>1, <1>2

\* A delayed cleanup closes a memory service that is not the one in use.
LEMMA RetireKeepsShared ==
    ASSUME Ordered, Shared, NEW w \in Workspaces, Retire(w)
    PROVE  Shared'
<1>1. /\ UNCHANGED <<agents, memory, borrowed, lends, settings, backend, generation,
                     captured, call, candidate, lent, request, owner>>
      /\ life[w] = "retiring" /\ life' = [life EXCEPT ![w] = "stopped"]
      /\ open' = IF Kept(w) THEN open ELSE open \ {memory[w]}
  BY DEF Retire, StopOld, fileVars, callVars, requestVars
<1>2. life'[w] = "stopped" /\ \A v \in Workspaces : v # w => life'[v] = life[v]
  BY <1>1, OrderedFacts
<1>3. LentInv'
  <2> SUFFICES ASSUME NEW r \in Reloads
               PROVE  LentOf(r)'
    BY DEF LentInv
  <2>1. LentOf(r) /\ candidate[r] \in Workspaces \cup {NoWs}
        /\ lent[r] \in Workspaces \cup {NoWs}
    BY OrderedFacts DEF Shared, LentInv
  <2>2. candidate[r] # NoWs => candidate[r] # w
    BY <1>1 DEF Ordered, HolderInv, CandidateInv, Up
  <2>3. Current(r)' <=> Current(r)
    BY <1>1 DEF Current
  <2> QED
    BY <1>1, <1>2, <2>1, <2>2, <2>3 DEF LentOf, Built
<1>4. OpenInv'
  BY <1>1, <1>2 DEF Shared, OpenInv, Kept, Starting
<1>5. UserInv'
  BY <1>1, <1>2, OrderedFacts DEF Shared, UserInv, ClosedBy, Kept, Built
<1> QED
  BY <1>3, <1>4, <1>5 DEF Shared

\* A reload hands the memory service in use to its candidate.
LEMMA PrepareKeepsShared ==
    ASSUME Ordered, Shared, NEW r \in Reloads, NEW c \in Workspaces, Prepare(r, c)
    PROVE  Shared'
<1>1. /\ UNCHANGED <<agents, lends, open, settings, backend, generation,
                     captured, request, owner>>
      /\ call[r] = "preparing" /\ call' = [call EXCEPT ![r] = "building"]
      /\ candidate' = [candidate EXCEPT ![r] = c]
      /\ life[c] = "unused" /\ life' = [life EXCEPT ![c] = "created"]
      /\ \E b : borrowed' = [borrowed EXCEPT ![c] = b]
  BY DEF Prepare, memVars, fileVars, requestVars
<1>2. agents # NoWs /\ agents \in Workspaces /\ agents # c /\ lends[agents]
      /\ memory[agents] # NoWs /\ life[agents] \in {"running", "stopping"}
  BY <1>1, OrderedFacts DEF Shared, LentInv, LentOf
<1>3. /\ lent' = [lent EXCEPT ![r] = agents]
      /\ memory' = [memory EXCEPT ![c] = memory[agents]]
  BY <1>2 DEF Prepare
<1>4. /\ life'[c] = "created" /\ memory'[c] = memory[agents]
      /\ \A v \in Workspaces : v # c =>
            life'[v] = life[v] /\ memory'[v] = memory[v] /\ borrowed'[v] = borrowed[v]
  BY <1>1, <1>3, OrderedFacts
<1>5. /\ candidate'[r] = c /\ lent'[r] = agents
      /\ \A t \in Reloads : t # r =>
            /\ candidate'[t] = candidate[t] /\ lent'[t] = lent[t] /\ call'[t] = call[t]
  BY <1>1, <1>3, OrderedFacts
<1>6. LentInv'
  <2> SUFFICES ASSUME NEW t \in Reloads
               PROVE  LentOf(t)'
    BY DEF LentInv
  <2>1. CASE t = r
    BY <1>1, <1>2, <1>4, <1>5, <2>1 DEF LentOf, Built
  <2>2. CASE t # r
    <3>1. LentOf(t) /\ candidate[t] \in Workspaces \cup {NoWs}
          /\ lent[t] \in Workspaces \cup {NoWs}
      BY OrderedFacts DEF Shared, LentInv
    <3>2. candidate[t] # NoWs => candidate[t] # c /\ lent[t] # c
      BY <1>1, <3>1 DEF Ordered, HolderInv, CandidateInv, Up, LentOf
    <3>3. Current(t)' <=> Current(t)
      BY <1>1 DEF Current
    <3> QED
      BY <1>1, <1>2, <1>4, <1>5, <2>2, <3>1, <3>2, <3>3 DEF LentOf, Built
  <2> QED
    BY <2>1, <2>2
<1>7. OpenInv'
  <2>1. \A q \in Requests : ~Starting(q)
    BY <1>2, OrderedFacts
  <2> QED
    BY <1>1, <1>2, <1>4, <2>1 DEF Shared, OpenInv, Kept, Starting
<1>8. UserInv'
  BY <1>1, <1>2, <1>4, OrderedFacts DEF Shared, UserInv, ClosedBy, Kept, Built
<1> QED
  BY <1>6, <1>7, <1>8 DEF Shared

\* The final stop of an agent no reload is working on.
LEMMA RemovalKeepsShared ==
    ASSUME Ordered, Shared, StopEnds, ~crossed'
    PROVE  Shared'
<1>1. /\ UNCHANGED <<memory, borrowed, lends, call, candidate, request, owner>>
      /\ locked /\ agents' = NoWs
      /\ life' = [life EXCEPT ![agents] = "removed"]
      /\ open' = open \ {memory[agents]}
      /\ \A r \in Reloads : call[r] \notin {"preparing", "building"}
  BY DEF StopEnds, Removes, callVars, requestVars
<1>2. agents # NoWs /\ agents \in Workspaces
  BY <1>1, OrderedFacts DEF Ordered, HolderInv, ServingInv
<1>3. \A v \in Workspaces : v # agents => life'[v] = life[v]
  BY <1>1, <1>2, OrderedFacts
<1>4. LentInv'
  BY <1>1, OrderedFacts DEF LentInv, LentOf
<1>5. OpenInv'
  BY <1>1, <1>2, OrderedFacts DEF OpenInv, Starting
<1>6. UserInv'
  <2> SUFFICES ASSUME NEW m \in open'
               PROVE  ClosedBy(m)'
    BY DEF UserInv
  <2>1. m \in open /\ ClosedBy(m) /\ m \in Workspaces /\ m # memory[agents]
    BY <1>1, OrderedFacts DEF Shared, UserInv
  <2> QED
    BY <1>1, <1>2, <1>3, <2>1, OrderedFacts, NoWsAssumption DEF ClosedBy, Kept, Built
<1> QED
  BY <1>4, <1>5, <1>6 DEF Shared

\* The swap.  A candidate that kept the borrowed memory service goes on with
\* the one in use; one that rejected it has its own, and then no other
\* candidate that may be installed holds on to the rejected one.
LEMMA CommitKeepsShared ==
    ASSUME Ordered, Shared, NEW r \in Reloads, SwapCommits(r), ~misbooked'
    PROVE  Shared'
<1>1. PICK new \in Workspaces, old \in Workspaces : new = candidate[r] /\ old = agents
  BY SwapFacts, OrderedFacts DEF SwapCommits, Ordered
<1>2. /\ UNCHANGED <<memory, open, settings, backend, generation, captured, lent,
                     request, owner>>
      /\ agents' = new /\ agents # NoWs /\ life' = [life EXCEPT ![old] = "retiring"]
  BY <1>1 DEF SwapCommits, Swaps, Commit, memVars, fileVars, requestVars
<1>3. /\ \E b : lends' = [lends EXCEPT ![old] = b]
      /\ \E b : borrowed' = [borrowed EXCEPT ![old] = b]
  BY <1>1 DEF SwapCommits, Commit
<1>4. /\ new # old /\ Built(new) /\ Current(r) /\ new # NoWs
      /\ candidate'[r] = NoWs /\ call'[r] = "idle"
      /\ \A t \in Reloads : t # r =>
            candidate'[t] = candidate[t] /\ call'[t] = call[t] /\ candidate[t] # new
  <2>1. TypeOK /\ HolderInv /\ Swaps(r) /\ captured[r] = generation
    BY DEF Ordered, SwapCommits
  <2>2. /\ candidate[r] # agents /\ life[candidate[r]] = "running"
        /\ candidate'[r] = NoWs /\ call'[r] = "idle"
        /\ \A t \in Reloads : t # r =>
              /\ candidate'[t] = candidate[t] /\ call'[t] = call[t]
              /\ candidate[t] # candidate[r]
    BY <2>1, SwapFacts
  <2>3. Built(new) /\ Current(r) /\ new # NoWs
    BY <1>1, <2>1, <2>2, NoWsAssumption DEF Current, Built
  <2> QED
    BY <1>1, <2>2, <2>3
<1>5. /\ life'[old] = "retiring" /\ life[old] \in {"running", "stopping"}
      /\ \A v \in Workspaces : v # old =>
            life'[v] = life[v] /\ lends'[v] = lends[v] /\ borrowed'[v] = borrowed[v]
  BY <1>1, <1>2, <1>3, OrderedFacts
<1>6. LentOf(r) /\ candidate[r] # NoWs /\ lent[r] # NoWs
  BY <1>1, <1>4 DEF Shared, LentInv, LentOf
<1>7. \A q \in Requests : ~Starting(q)' /\ ~Starting(q)
  BY <1>2, OrderedFacts DEF Starting
<1>8. \A t \in Reloads : candidate[t] # NoWs => candidate[t] # old
  BY <1>1 DEF Ordered, HolderInv, CandidateInv
<1>9. \A t \in Reloads : LentOf(t) /\ candidate[t] \in Workspaces \cup {NoWs}
                         /\ lent[t] \in Workspaces \cup {NoWs} /\ (Current(t)' <=> Current(t))
  BY <1>2, OrderedFacts DEF Shared, LentInv, Current
<1>10. ASSUME borrowed[new]
       PROVE  Shared'
  <2>1. lends' = [lends EXCEPT ![old] = lends[old] /\ TRUE]
    BY <1>1, <1>10 DEF SwapCommits, Commit
  <2>2. lends'[old]
    BY <1>1, <1>2, <2>1, OrderedFacts
  <2>3. memory[new] = memory[old]
    BY <1>1, <1>4, <1>6, <1>10 DEF LentOf
  <2>4. LentInv'
    <3> SUFFICES ASSUME NEW t \in Reloads
                 PROVE  LentOf(t)'
      BY DEF LentInv
    <3>1. CASE t = r
      BY <1>4, <3>1 DEF LentOf
    <3>2. CASE t # r
      BY <1>1, <1>2, <1>4, <1>5, <1>8, <1>9, <2>3, <3>2 DEF LentOf, Built
    <3> QED
      BY <3>1, <3>2
  <2>5. OpenInv'
    BY <1>1, <1>2, <1>4, <1>5, <1>7, <2>2, <2>3 DEF Shared, OpenInv, Kept
  <2>6. UserInv'
    BY <1>1, <1>2, <1>4, <1>5, <1>10, <2>3, OrderedFacts
       DEF Shared, UserInv, ClosedBy, Kept, Built
  <2> QED
    BY <2>4, <2>5, <2>6 DEF Shared
<1>11. ASSUME ~borrowed[new]
       PROVE  Shared'
  <2>1. lent[r] = old
    BY <1>1, <1>6, <1>11 DEF SwapCommits, Commit
  <2>2. ~lends'[old] /\ ~borrowed'[old]
    <3>1. /\ lends' = [lends EXCEPT ![old] = lends[old] /\ FALSE]
          /\ borrowed' = [borrowed EXCEPT ![old] = borrowed[old] /\ FALSE]
      BY <1>1, <1>6, <1>11 DEF SwapCommits, Commit
    <3> QED
      BY <1>1, <3>1, OrderedFacts
  <2>3. memory[new] = new /\ new \in open
    BY <1>1, <1>4, <1>11 DEF Ordered, MadeInv, Built
  <2>4. settings[memory[old]] # backend
    BY <1>1, <1>4, <1>6, <1>11, <2>1 DEF LentOf
  <2>5. LentInv'
    <3> SUFFICES ASSUME NEW t \in Reloads
                 PROVE  LentOf(t)'
      BY DEF LentInv
    <3>1. CASE t = r
      BY <1>4, <3>1 DEF LentOf
    <3>2. ASSUME t # r
          PROVE  LentOf(t)'
      <4>1. candidate[t] # NoWs /\ Current(t) /\ life[candidate[t]] = "created"
               => settings[memory[candidate[t]]] # backend
        BY <1>1, <1>9, <2>4 DEF LentOf
      <4>2. candidate[t] # NoWs /\ Current(t) /\ Built(candidate[t])
               => ~borrowed[candidate[t]]
        BY <1>1, <1>9, <2>4 DEF LentOf, Ordered, FreshInv
      <4> QED
        BY <1>1, <1>2, <1>4, <1>5, <1>8, <1>9, <3>2, <4>1, <4>2 DEF LentOf, Built
    <3> QED
      BY <3>1, <3>2
  <2>6. \A w \in Workspaces : w # new => memory[w] # new
    BY <1>1, <1>4, OwnMemory
  <2>7. OpenInv'
    BY <1>1, <1>2, <1>4, <1>5, <1>7, <2>3, <2>6 DEF OpenInv, Built
  <2>8. UserInv'
    <3> SUFFICES ASSUME NEW m \in open'
                 PROVE  ClosedBy(m)'
      BY DEF UserInv
    <3>1. ClosedBy(m) /\ m \in Workspaces
      BY <1>2, OrderedFacts DEF Shared, UserInv
    <3>2. CASE memory[old] = m
      BY <1>1, <1>2, <1>5, <2>2, <3>2 DEF ClosedBy, Kept
    <3>3. CASE m = new
      BY <1>2, <1>4, <2>3, <3>3 DEF ClosedBy
    <3>4. CASE memory[old] # m /\ m # new
      BY <1>1, <1>2, <1>5, <3>1, <3>4 DEF ClosedBy, Kept, Built
    <3> QED
      BY <3>2, <3>3, <3>4
  <2> QED
    BY <2>5, <2>7, <2>8 DEF Shared
<1> QED
  BY <1>10, <1>11

\* Every step keeps the memory service in use open, and every open one with
\* somebody who will close it.
LEMMA SharedStep ==
    ASSUME Ordered, SharedInv, [Next]_vars
    PROVE  SharedInv'
<1> SUFFICES ASSUME ~crossed', ~misbooked'
             PROVE  Shared'
  BY DEF SharedInv
<1>1. ~crossed /\ ~misbooked
  <2>1. /\ UNCHANGED crossed
           \/ crossed' = (crossed \/ \E r \in Reloads : call[r] \in {"preparing", "building"})
        /\ UNCHANGED misbooked
           \/ \E r \in Reloads :
                 misbooked' = (misbooked \/ ((lent[r] # NoWs /\ ~borrowed[candidate[r]])
                                             /\ lent[r] # agents))
    BY Steps
       DEF RequestHolds, RequestWaits, RequestFails, Install, RunStarts,
           RunEnds, RequestStarts, Claims, Build, Builds, FinishStart,
           StartFails, Retire, StopOld, SaveConfig, WatcherNotices, Restart,
           ReloadBegins, ReloadChecks, Prepare, SwapRefused, Swaps,
           SwapCommits, Commit, ReleaseWaiters, EditFile, StopBegins,
           StopEnds, Removes, historyVars, vars
  <2>2. crossed \in BOOLEAN /\ misbooked \in BOOLEAN
    BY DEF Ordered, TypeOK, ManagerTypes
  <2>3. crossed => crossed'
    BY <2>1
  <2>4. misbooked => misbooked'
    BY <2>1
  <2> QED
    BY <2>3, <2>4
<1>2. Shared
  BY <1>1 DEF SharedInv
<1> QED
  BY <1>2, Steps, IdleKeepsShared, NoteKeepsShared, ClaimKeepsShared,
     InstallKeepsShared, BuildKeepsShared, PhaseKeepsShared, GiveUpKeepsShared,
     RetireKeepsShared, PrepareKeepsShared, RemovalKeepsShared, CommitKeepsShared

\* The memory service that is handed on, always.
LEMMA MemoryInOrder == Spec => [](Ordered /\ SharedInv)
<1>1. Init => SharedInv
  BY NoWsAssumption DEF Init, SharedInv, Shared, LentInv, LentOf, OpenInv, UserInv,
                        Starting
<1>2. Ordered /\ SharedInv /\ [Next]_vars => SharedInv'
  BY SharedStep
<1>3. Spec => []Ordered
  BY CandidatesInOrder, PTL DEF Ordered
<1> QED
  BY <1>1, <1>2, <1>3, PTL DEF Spec

\* The memory service of the serving workspace is open, whatever candidates
\* were discarded and predecessors stopped, unless a final stop fell into a
\* reload or a rejection was booked on the wrong workspace.
THEOREM ServingMemoryStaysOpen == Spec => []ServingMemoryOpen
<1>1. SharedInv => ServingMemoryOpen
  BY DEF SharedInv, Shared, OpenInv, ServingMemoryOpen
<1> QED
  BY <1>1, MemoryInOrder, PTL

\* Handing a memory service on and rejecting it never leak it, with the same
\* exceptions: some workspace that is not stopped uses it and will close it.
THEOREM OpenMemoryIsUsed == Spec => []MemoryHasUser
<1>1. Ordered /\ SharedInv => MemoryHasUser
  <2> SUFFICES ASSUME Ordered, Shared, NEW m \in open
               PROVE  \E w \in Workspaces :
                         memory[w] = m /\ life[w] \notin {"stopped", "removed"}
    BY DEF SharedInv, MemoryHasUser
  <2>1. ClosedBy(m) /\ m \in Workspaces
    BY OrderedFacts DEF Shared, UserInv
  <2>2. CASE agents # NoWs /\ memory[agents] = m
    BY <2>2, OrderedFacts
  <2>3. CASE Built(m) /\ m # agents /\ ~borrowed[m]
    BY <2>1, <2>3 DEF Ordered, MadeInv, Built
  <2> QED
    BY <2>1, <2>2, <2>3 DEF ClosedBy
<1> QED
  BY <1>1, MemoryInOrder, PTL

(***************************************************************************)
(* The memory service of the runs a replaced workspace still serves.       *)
(***************************************************************************)

Removed == \E w \in Workspaces : life[w] = "removed"

\* A workspace that was not stopped yet has a memory service.
InUse(w) ==
    /\ life[w] \in {"created", "built", "running", "stopping", "retiring"}
    /\ memory[w] # NoWs

\* Another workspace had the same one, a candidate rejected it, and it was
\* closed when that workspace was stopped.
ClosedByOther(w) ==
    \E v \in Workspaces \ {w} :
        life[v] = "stopped" /\ ~lends[v] /\ memory[v] = memory[w]

\* Until the agent is removed, what is in use is open but for that one case.
RetainedInv ==
    ~Removed => \A w \in Workspaces :
        InUse(w) => memory[w] \in open \/ ClosedByOther(w)

\* A stopped workspace stays as it is, and what was rejected is never lent
\* again.
LEMMA GoneStays ==
    ASSUME Ordered, [Next]_vars, NEW v \in Workspaces, life[v] \in {"stopped", "removed"}
    PROVE  /\ life'[v] = life[v] /\ memory'[v] = memory[v]
           /\ ~lends[v] => ~lends'[v]
<1>0. /\ life \in [Workspaces -> Life] /\ memory \in [Workspaces -> Workspaces \cup {NoWs}]
      /\ lends \in [Workspaces -> BOOLEAN]
      /\ agents # NoWs => life[agents] \in {"running", "stopping"}
      /\ locked => agents # NoWs
  BY OrderedFacts DEF Ordered, HolderInv, ServingInv
<1>1. \/ UNCHANGED life
      \/ \E w, s : life[w] \notin {"stopped", "removed"} /\ life' = [life EXCEPT ![w] = s]
  <2>1. ASSUME (\E r \in Reloads : SwapCommits(r)) \/ StopBegins \/ StopEnds
        PROVE  agents # NoWs /\ \E s : life' = [life EXCEPT ![agents] = s]
    BY <1>0, <2>1 DEF SwapCommits, Commit, StopBegins, StopEnds, Removes
  <2>2. ASSUME NEW r \in Reloads, SwapRefused(r)
        PROVE  life[candidate[r]] = "running"
               /\ life' = [life EXCEPT ![candidate[r]] = "stopped"]
    BY <2>2 DEF SwapRefused, Swaps, Discard
  <2>3. ASSUME NEW w \in Workspaces,
               \/ Build(w) \/ FinishStart(w) \/ StartFails(w) \/ Retire(w)
               \/ \E q \in Requests : RequestStarts(q, w)
               \/ \E r \in Reloads : Prepare(r, w)
        PROVE  life[w] \in {"unused", "created", "built", "retiring"}
               /\ \E s : life' = [life EXCEPT ![w] = s]
    BY <2>3 DEF RequestStarts, Claims, Build, Builds, FinishStart, StartFails,
                Discard, Retire, StopOld, Prepare
  <2>4. \/ UNCHANGED life
        \/ (\E r \in Reloads : SwapCommits(r)) \/ StopBegins \/ StopEnds
        \/ \E r \in Reloads : SwapRefused(r)
        \/ \E w \in Workspaces :
              \/ Build(w) \/ FinishStart(w) \/ StartFails(w) \/ Retire(w)
              \/ \E q \in Requests : RequestStarts(q, w)
              \/ \E r \in Reloads : Prepare(r, w)
    BY Steps, ZenonT(60)
       DEF RequestHolds, RequestWaits, RequestFails, Install, RunStarts,
           RunEnds, SaveConfig, WatcherNotices, Restart, ReloadBegins,
           ReloadChecks, ReleaseWaiters, EditFile, wsVars, vars
  <2>5. ASSUME NEW w, NEW s, life[w] \in {"unused", "created", "built", "retiring"},
               life' = [life EXCEPT ![w] = s]
        PROVE  life[w] \notin {"stopped", "removed"}
    BY <2>5
  <2>6. CASE (\E r \in Reloads : SwapCommits(r)) \/ StopBegins \/ StopEnds
    BY <1>0, <2>1, <2>6
  <2>7. CASE \E r \in Reloads : SwapRefused(r)
    BY <2>2, <2>7
  <2>8. CASE \E w \in Workspaces :
                \/ Build(w) \/ FinishStart(w) \/ StartFails(w) \/ Retire(w)
                \/ \E q \in Requests : RequestStarts(q, w)
                \/ \E r \in Reloads : Prepare(r, w)
    BY <2>3, <2>5, <2>8
  <2> QED
    BY <2>4, <2>6, <2>7, <2>8
<1>2. \/ UNCHANGED memory
      \/ \E w, s : life[w] \in {"unused", "created"} /\ memory' = [memory EXCEPT ![w] = s]
  <2>1. ASSUME NEW w \in Workspaces, Build(w)
        PROVE  UNCHANGED memory \/ (life[w] = "created" /\ memory' = [memory EXCEPT ![w] = w])
    BY <2>1, BuildCases DEF Build, Builds, Ordered
  <2>2. ASSUME NEW r \in Reloads, NEW w \in Workspaces, Prepare(r, w)
        PROVE  UNCHANGED memory \/ \E s : life[w] = "unused" /\ memory' = [memory EXCEPT ![w] = s]
    BY <2>2 DEF Prepare
  <2>3. \/ UNCHANGED memory \/ \E w \in Workspaces : Build(w)
        \/ \E r \in Reloads, w \in Workspaces : Prepare(r, w)
    BY Steps, ZenonT(60)
       DEF RequestHolds, RequestWaits, RequestFails, Install, RunStarts,
           RunEnds, RequestStarts, Claims, FinishStart,
           StartFails, Discard, Retire, StopOld, SaveConfig, WatcherNotices, Restart,
           ReloadBegins, ReloadChecks, SwapRefused, SwapCommits, Commit,
           ReleaseWaiters, EditFile, StopBegins, StopEnds, Removes, wsVars, vars
  <2> QED
    BY <2>1, <2>2, <2>3
<1>3. \/ UNCHANGED lends
      \/ \E b : b = FALSE /\ lends' = [lends EXCEPT ![agents] = b]
      \/ \E b : b = lends[agents] /\ lends' = [lends EXCEPT ![agents] = b]
  <2>1. UNCHANGED lends \/ \E r \in Reloads : SwapCommits(r)
    BY Steps, ZenonT(60)
       DEF RequestHolds, RequestWaits, RequestFails, Install, RunStarts,
           RunEnds, RequestStarts, Claims, Build, Builds, FinishStart,
           StartFails, Discard, Retire, StopOld, SaveConfig, WatcherNotices, Restart,
           ReloadBegins, ReloadChecks, Prepare, SwapRefused,
           ReleaseWaiters, EditFile, StopBegins, StopEnds, Removes, wsVars, vars
  <2>2. ASSUME NEW r \in Reloads, SwapCommits(r)
        PROVE  \E b \in BOOLEAN : /\ b => lends[agents]
                                  /\ lends' = [lends EXCEPT ![agents] = b]
    BY <2>2 DEF SwapCommits, Commit
  <2> QED
    BY <1>0, <2>1, <2>2, OrderedFacts
<1> QED
  BY <1>0, <1>1, <1>2, <1>3

\* What is in use on, and was not closed by this step, is retained.
LEMMA StaysRetained ==
    ASSUME Ordered, RetainedInv, [Next]_vars, ~Removed, NEW w \in Workspaces,
           InUse(w), memory'[w] = memory[w], memory[w] \in open => memory[w] \in open'
    PROVE  memory'[w] \in open' \/ ClosedByOther(w)'
<1>1. CASE memory[w] \in open
  BY <1>1
<1>2. CASE ClosedByOther(w)
  BY <1>2, GoneStays DEF ClosedByOther
<1> QED
  BY <1>1, <1>2 DEF RetainedInv

\* A workspace that never served closes its own memory service only.
LEMMA DiscardSparesOthers ==
    ASSUME Ordered, NEW c \in Workspaces, Up(c), c # agents, Discard(c),
           NEW w \in Workspaces, w # c, memory[w] \in open
    PROVE  memory[w] \in open' /\ life'[w] = life[w] /\ memory'[w] = memory[w]
<1>1. /\ UNCHANGED memory /\ life' = [life EXCEPT ![c] = "stopped"]
      /\ open' = IF borrowed[c] THEN open ELSE open \ {memory[c]}
  BY DEF Discard
<1>2. CASE life[c] = "created"
  <2>1. borrowed[c] \/ memory[c] = NoWs
    BY <1>2 DEF Ordered, MadeInv
  <2> QED
    BY <1>1, <2>1, OrderedFacts, NoWsAssumption
<1>3. CASE Built(c)
  <2>1. borrowed[c] \/ memory[c] = c
    BY <1>3 DEF Ordered, MadeInv, Built
  <2>2. memory[w] # c
    BY <1>3, OwnMemory
  <2> QED
    BY <1>1, <2>1, <2>2, OrderedFacts
<1> QED
  BY <1>2, <1>3 DEF Up, Built

\* A candidate is not what serves, and neither is what a request starts.
LEMMA DiscardedIsUp ==
    ASSUME Ordered, NEW c \in Workspaces,
           StartFails(c) \/ \E r \in Reloads : SwapRefused(r) /\ candidate[r] = c
    PROVE  Up(c) /\ c # agents /\ Discard(c)
<1>1. CASE StartFails(c)
  BY <1>1, OrderedFacts, NoWsAssumption DEF StartFails, Up
<1>2. ASSUME NEW r \in Reloads, SwapRefused(r), candidate[r] = c
      PROVE  Up(c) /\ c # agents /\ Discard(c)
  BY <1>2, SwapFacts DEF SwapRefused, Up, Ordered
<1> QED
  BY <1>1, <1>2

\* Every step retains what is in use.
LEMMA RetainedStep ==
    ASSUME Ordered, RetainedInv, [Next]_vars
    PROVE  RetainedInv'
<1> SUFFICES ASSUME ~Removed', NEW w \in Workspaces, InUse(w)'
             PROVE  memory'[w] \in open' \/ ClosedByOther(w)'
  BY DEF RetainedInv
<1>0. /\ life \in [Workspaces -> Life] /\ memory \in [Workspaces -> Workspaces \cup {NoWs}]
      /\ open \subseteq Workspaces /\ agents \in Workspaces \cup {NoWs}
      /\ NoWs \notin Workspaces
  BY OrderedFacts, NoWsAssumption
<1>1. ~Removed
  BY GoneStays DEF Removed
<1>2. ASSUME NEW b \in Workspaces, Build(b)
      PROVE  memory'[w] \in open' \/ ClosedByOther(w)'
  <2>1. life[b] = "created" /\ \A v \in Workspaces : v # b => life'[v] = life[v]
    BY <1>0, <1>2 DEF Build, Builds
  <2>2. CASE UNCHANGED <<memory, open>> /\ borrowed[b]
    <3>1. InUse(w)
      BY <1>0, <2>1, <2>2 DEF InUse, Ordered, MadeInv
    <3> QED
      BY <1>1, <2>2, <3>1, StaysRetained
  <2>3. CASE memory' = [memory EXCEPT ![b] = b] /\ open' = open \cup {b} /\ w = b
    BY <1>0, <2>3
  <2>4. CASE memory' = [memory EXCEPT ![b] = b] /\ open' = open \cup {b} /\ w # b
    <3>1. InUse(w) /\ memory'[w] = memory[w]
      BY <1>0, <2>1, <2>4 DEF InUse
    <3> QED
      BY <1>1, <2>4, <3>1, StaysRetained
  <2> QED
    BY <1>2, <2>2, <2>3, <2>4, BuildCases DEF Ordered
<1>3. ASSUME NEW r \in Reloads, NEW c \in Workspaces, Prepare(r, c)
      PROVE  memory'[w] \in open' \/ ClosedByOther(w)'
  <2>1. /\ life[c] = "unused" /\ UNCHANGED open
        /\ \A v \in Workspaces : v # c => life'[v] = life[v] /\ memory'[v] = memory[v]
        /\ memory'[c] = memory[c] \/ (agents # NoWs /\ memory'[c] = memory[agents])
    BY <1>0, <1>3 DEF Prepare, memVars
  <2>2. CASE w # c
    <3>1. InUse(w)
      BY <2>1, <2>2 DEF InUse
    <3> QED
      BY <1>1, <2>1, <2>2, <3>1, StaysRetained
  <2>3. CASE w = c
    <3>1. agents \in Workspaces /\ memory'[c] = memory[agents] /\ agents # c
      BY <1>0, <2>1, <2>3, OrderedFacts DEF InUse, Ordered, MadeInv
    <3>2. PICK a \in Workspaces : a = agents
      BY <3>1
    <3>3. InUse(a) /\ memory'[a] = memory[a] /\ memory'[w] = memory'[a] /\ life'[w] # "stopped"
      BY <1>0, <2>1, <2>3, <3>1, <3>2, OrderedFacts DEF InUse
    <3>4. memory'[a] \in open' \/ ClosedByOther(a)'
      BY <1>1, <2>1, <3>3, StaysRetained
    <3>5. ClosedByOther(a)' => ClosedByOther(w)'
      BY <3>3 DEF ClosedByOther
    <3> QED
      BY <3>3, <3>4, <3>5
  <2> QED
    BY <2>2, <2>3
<1>4. ASSUME NEW q \in Requests, NEW c \in Workspaces, RequestStarts(q, c)
      PROVE  memory'[w] \in open' \/ ClosedByOther(w)'
  <2>1. /\ life[c] = "unused" /\ UNCHANGED <<memory, open>>
        /\ \A v \in Workspaces : v # c => life'[v] = life[v]
    BY <1>0, <1>4 DEF RequestStarts, Claims, memVars
  <2>2. InUse(w)
    BY <2>1 DEF InUse, Ordered, MadeInv
  <2> QED
    BY <1>1, <2>1, <2>2, StaysRetained
<1>5. ASSUME NEW c \in Workspaces,
             StartFails(c) \/ \E r \in Reloads : SwapRefused(r) /\ candidate[r] = c
      PROVE  memory'[w] \in open' \/ ClosedByOther(w)'
  <2>1. Up(c) /\ c # agents /\ Discard(c)
    BY <1>5, DiscardedIsUp
  <2>2. life'[c] = "stopped" /\ UNCHANGED memory
        /\ \A v \in Workspaces : v # c => life'[v] = life[v]
    BY <1>0, <2>1 DEF Discard
  <2>3. w # c /\ InUse(w)
    BY <2>2 DEF InUse
  <2>4. memory[w] \in open => memory[w] \in open'
    BY <2>1, <2>3, DiscardSparesOthers
  <2> QED
    BY <1>1, <2>2, <2>3, <2>4, StaysRetained
<1>6. ASSUME NEW o \in Workspaces, Retire(o)
      PROVE  memory'[w] \in open' \/ ClosedByOther(w)'
  <2>1. /\ life[o] = "retiring" /\ life'[o] = "stopped" /\ UNCHANGED <<memory, lends>>
        /\ \A v \in Workspaces : v # o => life'[v] = life[v]
        /\ open' = IF Kept(o) THEN open ELSE open \ {memory[o]}
    BY <1>0, <1>6 DEF Retire, StopOld
  <2>2. w # o /\ InUse(w)
    BY <2>1 DEF InUse
  <2>3. CASE ~Kept(o) /\ memory[w] = memory[o]
    <3>1. ClosedByOther(w)'
      BY <2>1, <2>2, <2>3 DEF ClosedByOther, Kept
    <3> QED
      BY <3>1
  <2>4. CASE Kept(o) \/ memory[w] # memory[o]
    <3>1. memory[w] \in open => memory[w] \in open'
      BY <2>1, <2>4
    <3> QED
      BY <1>1, <2>1, <2>2, <3>1, StaysRetained
  <2> QED
    BY <2>3, <2>4
<1>7. CASE (\E r \in Reloads : SwapCommits(r)) \/ StopBegins
  <2>1. agents # NoWs /\ UNCHANGED <<memory, open>> /\ \E s : life' = [life EXCEPT ![agents] = s]
    BY <1>7 DEF SwapCommits, Commit, StopBegins, memVars
  <2>2. InUse(w)
    BY <1>0, <2>1, OrderedFacts DEF InUse
  <2> QED
    BY <1>1, <2>1, <2>2, StaysRetained
<1>8. CASE StopEnds
  <2>1. life'[agents] = "removed" /\ agents \in Workspaces
    BY <1>0, <1>8 DEF StopEnds, Removes, Ordered, HolderInv, ServingInv
  <2> QED
    BY <2>1 DEF Removed
<1>9. CASE UNCHANGED <<life, memory, open>> \/ \E v \in Workspaces : FinishStart(v)
  <2>1. /\ UNCHANGED <<memory, open>>
        /\ UNCHANGED life
           \/ \E v \in Workspaces : life[v] = "built" /\ life' = [life EXCEPT ![v] = "running"]
    BY <1>9 DEF FinishStart, memVars
  <2>2. InUse(w)
    BY <1>0, <2>1 DEF InUse
  <2> QED
    BY <1>1, <2>1, <2>2, StaysRetained
<1>10. ASSUME NEW r \in Reloads, SwapRefused(r)
       PROVE  \E c \in Workspaces : SwapRefused(r) /\ candidate[r] = c
  BY <1>10, SwapFacts DEF SwapRefused, Ordered
<1>11. \/ UNCHANGED <<life, memory, open>>
       \/ \E v \in Workspaces : Build(v) \/ FinishStart(v) \/ StartFails(v) \/ Retire(v)
       \/ \E q \in Requests, v \in Workspaces : RequestStarts(q, v)
       \/ \E r \in Reloads :
             SwapRefused(r) \/ SwapCommits(r) \/ \E v \in Workspaces : Prepare(r, v)
       \/ StopBegins \/ StopEnds
  BY Steps, ZenonT(60)
     DEF RequestHolds, RequestWaits, RequestFails, Install, RunStarts, RunEnds,
         SaveConfig, WatcherNotices, Restart, ReloadBegins, ReloadChecks,
         ReleaseWaiters, EditFile, wsVars, memVars, vars
<1> QED
  BY <1>2, <1>3, <1>4, <1>5, <1>6, <1>7, <1>8, <1>9, <1>10, <1>11

\* "The old workspace must retain it for any in-flight requests"
\* (multi_agent_manager.py:675), as far as the code keeps it: until the agent
\* is removed, the memory service of a live run is open, unless a candidate
\* rejected it when another workspace served, which was stopped since.
RunsKeepMemory ==
    \A q \in Requests \ late :
        Live(q) /\ ~Removed => memory[owner[q]] \in open \/ ClosedByOther(owner[q])

THEOREM RejectionAloneClosesMemory == Spec => []RunsKeepMemory
<1>1. Init => RetainedInv /\ RunInv
  BY NoWsAssumption DEF Init, RetainedInv, InUse, RunInv, Live
<1>2. Ordered /\ RunInv /\ RetainedInv => RunsKeepMemory
  <2> SUFFICES ASSUME Ordered, RunInv, RetainedInv, NEW q \in Requests \ late,
                      Live(q), ~Removed
               PROVE  memory[owner[q]] \in open \/ ClosedByOther(owner[q])
    BY DEF RunsKeepMemory
  <2>1. owner[q] \in Workspaces
    BY DEF RunInv, Live
  <2>2. owner[q] = agents \/ life[owner[q]] = "retiring"
    BY <2>1 DEF RunInv, Removed
  <2>3. life[owner[q]] \in {"running", "stopping", "retiring"}
    BY <2>1, <2>2, OrderedFacts, NoWsAssumption
  <2>4. InUse(owner[q])
    BY <2>1, <2>3 DEF InUse, Ordered, MadeInv
  <2> QED
    BY <2>1, <2>4 DEF RetainedInv
<1>3. Ordered /\ RunInv /\ [Next]_vars => RunInv'
  BY RunStep DEF Ordered
<1>4. Spec => []Ordered
  BY CandidatesInOrder, PTL DEF Ordered
<1> QED
  BY <1>1, <1>2, <1>3, <1>4, RetainedStep, PTL DEF Spec

\* The promise itself is kept as long as no swap marked a memory service as
\* rejected: nothing else closes one under a run.
THEOREM MemoryIsKeptUnlessRejected ==
    Spec => []((\A w \in Workspaces : lends[w]) => InFlightKeepsMemory)
<1>1. RunsKeepMemory => ((\A w \in Workspaces : lends[w]) => InFlightKeepsMemory)
  BY DEF RunsKeepMemory, ClosedByOther, InFlightKeepsMemory, Removed
<1> QED
  BY <1>1, RejectionAloneClosesMemory, PTL

(***************************************************************************)
(* The last noted change of the config.                                    *)
(***************************************************************************)

\* The reload will bring the last noted change to the workspace that serves.
BringsNoted(r) ==
    \/ call[r] = "scheduled"
    \/ call[r] = "checking" /\ Current(r)
    \/ call[r] \in {"preparing", "building"} /\ Current(r) /\ agents # NoWs

Awaited == \E r \in Reloads : BringsNoted(r)

\* What serves, or was built to serve, has the last noted change, or a reload
\* brings it.
NotedInv ==
    /\ agents # NoWs => config[agents] >= noted \/ Awaited
    /\ \A q \in Requests :
          Starting(q) /\ Built(owner[q]) => config[owner[q]] >= noted \/ Awaited

\* The two steps that drop a noted change: a reload that finds no workspace
\* while one is being started with its services already built, and a reload
\* whose candidate fails to start.
LosesNote ==
    \/ \E r \in Reloads : /\ ReloadChecks(r)
                          /\ \E q \in Requests : Starting(q) /\ Built(owner[q])
    \/ \E w \in Workspaces : StartFails(w) /\ \E r \in Reloads : candidate[r] = w

\* A step that puts nothing new in service and ends no reload that matters.
LEMMA NotedStays ==
    ASSUME NotedInv, Awaited => Awaited', UNCHANGED <<config, noted>>,
           agents' \in {agents, NoWs},
           \A q \in Requests : Starting(q)' /\ Built(owner[q])' =>
               Starting(q) /\ owner'[q] = owner[q] /\ Built(owner[q])
    PROVE  NotedInv'
BY DEF NotedInv

\* The calls are not touched, and neither is what they compare.
LEMMA CallsStayAwaited ==
    ASSUME UNCHANGED <<call, captured, generation, agents>>
    PROVE  Awaited => Awaited'
BY DEF Awaited, BringsNoted, Current

\* Requests and starts that put nothing in service.
LEMMA RequestKeepsNoted ==
    ASSUME Ordered, NotedInv,
           \/ \E q \in Requests :
                 \/ RequestHolds(q) \/ RequestWaits(q) \/ RequestFails(q)
                 \/ RunStarts(q) \/ RunEnds(q)
                 \/ \E w \in Workspaces : RequestStarts(q, w)
           \/ \E w \in Workspaces : FinishStart(w) \/ Retire(w)
           \/ ReleaseWaiters \/ EditFile \/ UNCHANGED vars
    PROVE  NotedInv'
<1>0. /\ life \in [Workspaces -> Life] /\ request \in [Requests -> RequestState]
      /\ owner \in [Requests -> Workspaces \cup {NoWs}]
  BY DEF Ordered, TypeOK, WorkspaceTypes, RequestTypes
<1>1. UNCHANGED <<config, noted, call, captured, generation, agents>>
  BY DEF RequestHolds, RequestWaits, RequestFails, RunStarts, RunEnds,
         RequestStarts, Claims, FinishStart, Retire, StopOld, ReleaseWaiters,
         EditFile, wsVars, fileVars, callVars, vars
<1>2. ASSUME NEW q \in Requests, Starting(q)', Built(owner[q])'
      PROVE  Starting(q) /\ owner'[q] = owner[q] /\ Built(owner[q])
  <2>1. ASSUME NEW p \in Requests,
               \/ RequestHolds(p) \/ RequestWaits(p) \/ RequestFails(p)
               \/ RunStarts(p) \/ RunEnds(p)
        PROVE  /\ UNCHANGED life
               /\ request'[q] = "starting" =>
                    request[q] = "starting" /\ owner'[q] = owner[q]
    BY <1>0, <2>1 DEF RequestHolds, RequestWaits, RequestFails, RunStarts, RunEnds,
                      wsVars, requestVars
  <2>2. ASSUME NEW p \in Requests, NEW w \in Workspaces, RequestStarts(p, w)
        PROVE  /\ \A v \in Workspaces : life'[v] # "created" => life'[v] = life[v]
               /\ request'[q] = "starting" /\ life'[owner'[q]] # "created" =>
                    request[q] = "starting" /\ owner'[q] = owner[q]
    BY <1>0, <2>2 DEF RequestStarts, Claims
  <2>3. CASE ReleaseWaiters \/ EditFile \/ UNCHANGED vars
    BY <1>2, <2>3 DEF ReleaseWaiters, EditFile, wsVars, requestVars, vars, Starting, Built
  <2>4. ASSUME NEW w \in Workspaces, FinishStart(w) \/ Retire(w)
        PROVE  /\ UNCHANGED <<request, owner>>
               /\ \A v \in Workspaces : Built(v)' => Built(v)
    BY <1>0, <2>4 DEF FinishStart, Retire, StopOld, requestVars, Built
  <2>5. CASE \E p \in Requests : \/ RequestHolds(p) \/ RequestWaits(p)
                                 \/ RequestFails(p) \/ RunStarts(p) \/ RunEnds(p)
    BY <1>2, <2>1, <2>5 DEF Starting, Built
  <2>6. Starting(q) => owner[q] \in Workspaces
    BY DEF Ordered, HolderInv, StarterInv
  <2>7. CASE \E p \in Requests, w \in Workspaces : RequestStarts(p, w)
    BY <1>2, <2>2, <2>6, <2>7 DEF Starting, Built
  <2>8. CASE \E w \in Workspaces : FinishStart(w) \/ Retire(w)
    <3>1. UNCHANGED <<request, owner>> /\ \A v \in Workspaces : Built(v)' => Built(v)
      BY <2>4, <2>8
    <3> QED
      BY <1>2, <2>6, <3>1 DEF Starting, Built
  <2> QED
    BY <2>3, <2>5, <2>7, <2>8
<1> QED
  BY <1>1, <1>2, CallsStayAwaited, NotedStays

\* A start whose services come up, fails, or is installed.
LEMMA StartKeepsNoted ==
    ASSUME Ordered, NotedInv, ~LosesNote,
           \/ \E w \in Workspaces : Build(w) \/ StartFails(w)
           \/ \E q \in Requests : Install(q)
    PROVE  NotedInv'
<1>0. /\ life \in [Workspaces -> Life] /\ request \in [Requests -> RequestState]
      /\ owner \in [Requests -> Workspaces \cup {NoWs}]
      /\ config \in [Workspaces -> 0 .. version] /\ version \in Nat
      /\ noted \in 0 .. version /\ agents \in Workspaces \cup {NoWs}
      /\ \A q \in Requests : Starting(q) => owner[q] \in Workspaces /\ agents = NoWs
  BY MaxEditsAssumption
     DEF Ordered, TypeOK, WorkspaceTypes, RequestTypes, FileTypes, ManagerTypes,
         HolderInv, StarterInv
<1>1. ASSUME NEW w \in Workspaces, Build(w)
      PROVE  NotedInv'
  <2>1. /\ UNCHANGED <<noted, call, captured, generation, agents, request, owner>>
        /\ life[w] = "created" /\ config' = [config EXCEPT ![w] = version]
        /\ life' = [life EXCEPT ![w] = "built"]
    BY <1>1 DEF Build, Builds, fileVars, callVars, requestVars
  <2>2. Awaited => Awaited'
    BY <2>1, CallsStayAwaited
  <2>3. agents # NoWs => agents # w
    BY <2>1, OrderedFacts
  <2>4. config'[w] >= noted' /\ \A v \in Workspaces : v # w => config'[v] = config[v] /\ life'[v] = life[v]
    BY <1>0, <2>1
  <2>5. agents' # NoWs => config'[agents'] >= noted' \/ Awaited'
    BY <1>0, <2>1, <2>2, <2>3, <2>4 DEF NotedInv
  <2>6. ASSUME NEW q \in Requests, Starting(q)', Built(owner[q])'
        PROVE  config'[owner'[q]] >= noted' \/ Awaited'
    <3>1. Starting(q) /\ owner'[q] = owner[q] /\ owner[q] \in Workspaces
      BY <1>0, <2>1, <2>6 DEF Starting
    <3>2. CASE owner[q] = w
      BY <2>4, <3>1, <3>2
    <3>3. CASE owner[q] # w
      <4>1. Built(owner[q]) /\ config'[owner[q]] = config[owner[q]]
        BY <2>4, <2>6, <3>1, <3>3 DEF Built
      <4> QED
        BY <2>1, <2>2, <3>1, <4>1 DEF NotedInv
    <3> QED
      BY <3>2, <3>3
  <2> QED
    BY <2>5, <2>6 DEF NotedInv
<1>2. ASSUME NEW w \in Workspaces, StartFails(w)
      PROVE  NotedInv'
  <2>1. \A r \in Reloads : candidate[r] # w
    BY <1>2 DEF LosesNote
  <2>2. /\ UNCHANGED <<config, noted, captured, generation, agents, owner>>
        /\ call' = [r \in Reloads |-> IF candidate[r] = w THEN "idle" ELSE call[r]]
        /\ request' = [q \in Requests |->
                        IF request[q] = "starting" /\ owner[q] = w THEN "over"
                                                                  ELSE request[q]]
        /\ life' = [life EXCEPT ![w] = "stopped"]
    BY <1>2 DEF StartFails, Discard, fileVars
  <2>3. \A r \in Reloads : call'[r] = call[r]
    BY <2>1, <2>2
  <2>4. Awaited => Awaited'
    BY <2>2, <2>3 DEF Awaited, BringsNoted, Current
  <2>5. ASSUME NEW q \in Requests, Starting(q)', Built(owner[q])'
        PROVE  Starting(q) /\ owner'[q] = owner[q] /\ Built(owner[q])
    BY <1>0, <2>2, <2>5 DEF Starting, Built
  <2> QED
    BY <2>2, <2>4, <2>5, NotedStays
<1>3. ASSUME NEW q \in Requests, Install(q)
      PROVE  NotedInv'
  <2>1. /\ UNCHANGED <<config, noted, call, captured, generation, owner, life>>
        /\ Starting(q) /\ Built(owner[q]) /\ agents' = owner[q]
        /\ request' = [request EXCEPT ![q] = "held"]
    BY <1>3 DEF Install, wsVars, fileVars, callVars, Starting, Built
  <2>2. agents = NoWs
    BY <1>0, <2>1
  <2>3. Awaited => Awaited'
    BY <2>1, <2>2 DEF Awaited, BringsNoted, Current
  <2>4. config'[agents'] >= noted' \/ Awaited'
    BY <2>1, <2>3 DEF NotedInv
  <2>5. \A p \in Requests : ~Starting(p)'
    BY <1>0, <2>1 DEF Starting, Ordered, HolderInv, StarterInv
  <2> QED
    BY <2>4, <2>5 DEF NotedInv
<1> QED
  BY <1>1, <1>2, <1>3

\* The reloads, and stop_agent.
LEMMA ReloadKeepsNoted ==
    ASSUME Ordered, NotedInv, ~LosesNote,
           \/ \E r \in Reloads :
                 \/ \E b \in Backends : SaveConfig(r, b)
                 \/ \E w \in Workspaces : WatcherNotices(w, r)
                 \/ \E q \in Requests : Restart(q, r)
                 \/ ReloadBegins(r) \/ ReloadChecks(r)
                 \/ \E c \in Workspaces : Prepare(r, c)
                 \/ SwapRefused(r) \/ SwapCommits(r)
           \/ StopBegins \/ StopEnds
    PROVE  NotedInv'
<1>0. /\ life \in [Workspaces -> Life] /\ call \in [Reloads -> Call]
      /\ captured \in [Reloads -> 0 .. generation] /\ generation \in Nat
      /\ agents \in Workspaces \cup {NoWs}
      /\ \A q \in Requests : Starting(q) => owner[q] \in Workspaces /\ agents = NoWs
  BY DEF Ordered, TypeOK, WorkspaceTypes, CallTypes, ManagerTypes, HolderInv, StarterInv
<1>1. ASSUME NEW r \in Reloads,
             \/ \E b \in Backends : SaveConfig(r, b)
             \/ \E w \in Workspaces : WatcherNotices(w, r)
             \/ \E q \in Requests : Restart(q, r)
             \/ ReloadBegins(r)
      PROVE  NotedInv'
  <2>1. \/ call' = [call EXCEPT ![r] = "scheduled"]
        \/ /\ call' = [call EXCEPT ![r] = "checking"] /\ UNCHANGED generation
           /\ captured' = [captured EXCEPT ![r] = generation]
    BY <1>1 DEF SaveConfig, WatcherNotices, Restart, ReloadBegins
  <2>2. BringsNoted(r)'
    BY <1>0, <2>1 DEF BringsNoted, Current
  <2> QED
    BY <2>2 DEF NotedInv, Awaited
<1>2. ASSUME NEW r \in Reloads, ReloadChecks(r)
      PROVE  NotedInv'
  <2>1. /\ UNCHANGED <<config, noted, captured, generation, agents, request, owner, life>>
        /\ call[r] = "checking"
        /\ agents # NoWs => call' = [call EXCEPT ![r] = "preparing"]
    BY <1>2 DEF ReloadChecks, fileVars, requestVars
  <2>2. \A q \in Requests : ~(Starting(q)' /\ Built(owner[q])')
    BY <1>2, <2>1 DEF LosesNote, Starting, Built
  <2>3. agents # NoWs => (Awaited => Awaited')
    BY <1>0, <2>1 DEF Awaited, BringsNoted, Current
  <2> QED
    BY <2>1, <2>2, <2>3 DEF NotedInv
<1>3. ASSUME NEW r \in Reloads, NEW c \in Workspaces, Prepare(r, c)
      PROVE  NotedInv'
  <2>1. /\ UNCHANGED <<config, noted, captured, generation, agents, request, owner>>
        /\ call[r] = "preparing" /\ call' = [call EXCEPT ![r] = "building"]
        /\ life[c] = "unused" /\ life' = [life EXCEPT ![c] = "created"]
    BY <1>3 DEF Prepare, fileVars, requestVars
  <2>2. Awaited => Awaited'
    BY <1>0, <2>1 DEF Awaited, BringsNoted, Current
  <2>3. ASSUME NEW q \in Requests, Starting(q)', Built(owner[q])'
        PROVE  Starting(q) /\ owner'[q] = owner[q] /\ Built(owner[q])
    BY <1>0, <2>1, <2>3 DEF Starting, Built
  <2> QED
    BY <2>1, <2>2, <2>3, NotedStays
<1>4. ASSUME NEW r \in Reloads, SwapRefused(r)
      PROVE  NotedInv'
  <2>1. /\ UNCHANGED <<config, noted, captured, generation, agents, request, owner>>
        /\ call[r] = "building" /\ call' = [call EXCEPT ![r] = "idle"]
        /\ life' = [life EXCEPT ![candidate[r]] = "stopped"]
        /\ agents = NoWs \/ ~Current(r)
    BY <1>4 DEF SwapRefused, Swaps, Discard, fileVars, requestVars, Current
  <2>2. ~BringsNoted(r)
    BY <2>1 DEF BringsNoted
  <2>3. Awaited => Awaited'
    BY <1>0, <2>1, <2>2 DEF Awaited, BringsNoted, Current
  <2>4. ASSUME NEW q \in Requests, Starting(q)', Built(owner[q])'
        PROVE  Starting(q) /\ owner'[q] = owner[q] /\ Built(owner[q])
    BY <1>0, <2>1, <2>4 DEF Starting, Built
  <2> QED
    BY <2>1, <2>3, <2>4, NotedStays
<1>5. ASSUME NEW r \in Reloads, SwapCommits(r)
      PROVE  NotedInv'
  <2>1. /\ UNCHANGED <<config, noted, request>> /\ agents # NoWs
        /\ agents' = candidate[r] /\ call[r] = "building" /\ Current(r)
        /\ Built(candidate[r])
    BY <1>5 DEF SwapCommits, Swaps, Commit, fileVars, requestVars, Current, Built
  <2>2. candidate[r] # NoWs
    BY <2>1 DEF Ordered, HolderInv, CandidateInv
  <2>3. config'[agents'] >= noted'
    BY <2>1, <2>2 DEF Ordered, FreshInv
  <2>4. \A q \in Requests : ~Starting(q)'
    BY <1>0, <2>1 DEF Starting
  <2> QED
    BY <2>3, <2>4 DEF NotedInv
<1>6. CASE StopBegins \/ StopEnds
  <2>1. /\ UNCHANGED <<config, noted, request, call, captured>>
        /\ agents' \in {agents, NoWs} /\ UNCHANGED generation /\ agents # NoWs
    BY <1>6 DEF StopBegins, StopEnds, Removes, fileVars, callVars, requestVars,
                Ordered, HolderInv, ServingInv
  <2>2. \A q \in Requests : ~Starting(q)'
    BY <1>0, <2>1 DEF Starting
  <2>3. agents' = agents => (Awaited => Awaited')
    BY <2>1, CallsStayAwaited
  <2> QED
    BY <2>1, <2>2, <2>3 DEF NotedInv
<1> QED
  BY <1>1, <1>2, <1>3, <1>4, <1>5, <1>6

\* Every other step keeps a noted change with what serves.
LEMMA NotedStep ==
    ASSUME Ordered, NotedInv, [Next /\ ~LosesNote]_vars
    PROVE  NotedInv'
<1>1. CASE UNCHANGED vars
  BY <1>1, RequestKeepsNoted
<1>2. CASE Next /\ ~LosesNote
  <2>1. [Next]_vars
    BY <1>2
  <2> QED
    BY <1>2, <2>1, Steps, RequestKeepsNoted, StartKeepsNoted, ReloadKeepsNoted
<1> QED
  BY <1>1, <1>2

\* "Agent not running, will be loaded on next request"
\* (multi_agent_manager.py:586) loses a change in two ways only.  In a behavior
\* in which no reload finds a half-started workspace and no candidate fails to
\* start, however saves, edits, reloads, starts and stops overlap, a noted
\* change is in the workspace that serves once the reloads are over.
THEOREM NotesAreLostInTwoWays ==
    Init /\ [][Next /\ ~LosesNote]_vars => []NotedIsServed
<1>1. Init => NotedInv
  BY DEF Init, NotedInv, Starting
<1>2. [Next /\ ~LosesNote]_vars => [Next]_vars
  OBVIOUS
<1>3. Init /\ [][Next /\ ~LosesNote]_vars => []Ordered
  BY <1>2, CandidatesInOrder, PTL DEF Ordered, Spec
<1>4. Ordered /\ NotedInv => NotedIsServed
  BY DEF NotedInv, NotedIsServed, Awaited, BringsNoted
<1> QED
  BY <1>1, <1>3, <1>4, NotedStep, PTL
=============================================================================
