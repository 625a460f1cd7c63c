----------------------------- MODULE AgentReload -----------------------------
(***************************************************************************)
(* The life of one agent's workspaces in MultiAgentManager                 *)
(* (app/multi_agent_manager.py): lazy start, zero-downtime reload, stop,   *)
(* the config watcher that triggers reloads (app/agent_config_watcher.py), *)
(* and the memory service that a reload hands from the old workspace to    *)
(* the new one (app/workspace/service_manager.py).                         *)
(*                                                                         *)
(* All of it runs on one asyncio loop.  The manager's lock is held across  *)
(* an await by stop_agent only; the other sections under it are one step.  *)
(* A memory service is named after the workspace that created it.  The     *)
(* config file is a version number, and the memory settings in it.         *)
(***************************************************************************)
EXTENDS Naturals, FiniteSets

CONSTANTS
    Workspaces,  \* identities of Workspace instances, each started once
    Reloads,     \* concurrent calls of reload_agent
    Requests,    \* chat requests, each makes one run
    Backends,    \* what the memory settings of the config can be
    Faulty,      \* workspaces one of whose services may fail to start
    NoWs,        \* no workspace
    MaxEdits     \* bound: edits of the config file

ASSUME FaultyAssumption == Faulty \subseteq Workspaces
ASSUME NoWsAssumption == NoWs \notin Workspaces
ASSUME MaxEditsAssumption == MaxEdits \in Nat

VARIABLES
    agents,      \* the workspace that serves the agent
    locked,      \* stop_agent holds the manager's lock
    pending,     \* the workspace that get_agent is starting
    life,        \* where a workspace is in its life
    config,      \* the config version its services were built from
    seen,        \* the version its watcher compares the file with
    watching,    \* its watcher polls
    memory,      \* the memory service it uses
    borrowed,    \* "memory_manager" is in its reused_services
    lends,       \* its memory_manager descriptor is reusable
    drains,      \* runs its delayed cleanup waits for
    open,        \* memory services that are open
    settings,    \* memory settings each of them was made with
    version,     \* the config file: version ...
    backend,     \* ... and memory settings
    noted,       \* version at the last note_agent_config_changed
    generation,  \* _config_generations
    call,        \* where a reload_agent call is
    captured,    \* the generation it captured
    candidate,   \* the workspace it builds
    lent,        \* the workspace whose memory service it handed over
    request,     \* where a chat request is
    owner,       \* the workspace it goes to
    crossed,     \* history: a stop_agent ended while a reload was under way
    misbooked,   \* history: a service was marked rejected on another workspace
                 \* than the one that lent it
    late         \* history: runs started on a workspace no longer serving

wsVars == <<life, config, seen, watching, memory, borrowed, lends, drains>>
memVars == <<open, settings>>
fileVars == <<version, backend, noted>>
callVars == <<call, captured, candidate, lent>>
requestVars == <<request, owner>>
vars == <<agents, locked, pending, life, config, seen, watching, memory,
          borrowed, lends, drains, open, settings, version, backend, noted,
          generation, call, captured, candidate, lent, request, owner,
          crossed, misbooked, late>>
historyVars == <<crossed, misbooked, late>>

\* "serving" is not among them: agents says so.  "removed" is a final stop.
Life == {"unused", "created", "built", "running", "retiring", "stopping",
         "stopped", "removed"}
Call == {"idle", "scheduled", "checking", "preparing", "building"}
RequestState == {"new", "starting", "waiting", "held", "running", "restarting", "over"}

Init ==
    /\ agents = NoWs
    /\ locked = FALSE
    /\ pending = NoWs
    /\ life = [w \in Workspaces |-> "unused"]
    /\ config = [w \in Workspaces |-> 0]
    /\ seen = [w \in Workspaces |-> 0]
    /\ watching = [w \in Workspaces |-> FALSE]
    /\ memory = [w \in Workspaces |-> NoWs]
    /\ borrowed = [w \in Workspaces |-> FALSE]
    /\ lends = [w \in Workspaces |-> TRUE]
    /\ drains = [w \in Workspaces |-> {}]
    /\ open = {}
    /\ version = 0
    /\ backend \in Backends
    /\ settings = [w \in Workspaces |-> backend]
    /\ noted = 0
    /\ generation = 0
    /\ call = [r \in Reloads |-> "idle"]
    /\ captured = [r \in Reloads |-> 0]
    /\ candidate = [r \in Reloads |-> NoWs]
    /\ lent = [r \in Reloads |-> NoWs]
    /\ request = [q \in Requests |-> "new"]
    /\ owner = [q \in Requests |-> NoWs]
    /\ crossed = FALSE
    /\ misbooked = FALSE
    /\ late = {}

(***************************************************************************)
(* get_agent: the first request starts the workspace, the others wait.     *)
(***************************************************************************)

\* The fast path, without the lock; or the starter ahead is done.
RequestHolds(q) ==
    /\ \/ request[q] = "new"
       \/ request[q] = "waiting" /\ pending = NoWs
    /\ agents # NoWs
    /\ request' = [request EXCEPT ![q] = "held"]
    /\ owner' = [owner EXCEPT ![q] = agents]
    /\ UNCHANGED <<agents, locked, pending, wsVars, memVars, fileVars>>
    /\ UNCHANGED <<generation, callVars, historyVars>>

\* The caller claims the start and creates the workspace.
Claims(q, w) ==
    /\ request[q] = "new"
    /\ agents = NoWs /\ ~locked
    /\ life[w] = "unused"
    /\ request' = [request EXCEPT ![q] = "starting"]
    /\ owner' = [owner EXCEPT ![q] = w]
    /\ pending' = w
    /\ life' = [life EXCEPT ![w] = "created"]
    /\ UNCHANGED <<agents, locked, config, seen, watching, memory, borrowed>>
    /\ UNCHANGED <<lends, drains, memVars, fileVars, generation, callVars>>
    /\ UNCHANGED historyVars

\* Mutant: concurrent first requests are not coordinated.
RequestStartsAlways(q, w) == Claims(q, w)

RequestStarts(q, w) == pending = NoWs /\ Claims(q, w)

RequestWaits(q) ==
    /\ request[q] = "new"
    /\ agents = NoWs /\ pending # NoWs /\ ~locked
    /\ request' = [request EXCEPT ![q] = "waiting"]
    /\ UNCHANGED <<agents, locked, pending, wsVars, memVars, fileVars>>
    /\ UNCHANGED <<generation, callVars, owner, historyVars>>

\* "failed to initialize"
RequestFails(q) ==
    /\ request[q] = "waiting" /\ pending = NoWs /\ agents = NoWs
    /\ request' = [request EXCEPT ![q] = "over"]
    /\ UNCHANGED <<agents, locked, pending, wsVars, memVars, fileVars>>
    /\ UNCHANGED <<generation, callVars, owner, historyVars>>

\* The starter installs its workspace, whatever happened meanwhile; then the
\* plugins' hooks run.
Install(q) ==
    /\ request[q] = "starting"
    /\ life[owner[q]] = "running"
    /\ agents # owner[q] /\ ~locked
    /\ agents' = owner[q]
    /\ request' = [request EXCEPT ![q] = "held"]
    /\ UNCHANGED <<locked, pending, wsVars, memVars, fileVars, generation>>
    /\ UNCHANGED <<callVars, owner, historyVars>>

\* The finally block of get_agent: the waiters are let go.
ReleaseWaiters ==
    /\ pending # NoWs /\ ~locked
    /\ \A q \in Requests : request[q] = "starting" => owner[q] # pending
    /\ pending' = NoWs
    /\ UNCHANGED <<agents, locked, wsVars, memVars, fileVars, generation>>
    /\ UNCHANGED <<callVars, requestVars, historyVars>>

(***************************************************************************)
(* Workspace.start: the services, in order of priority.  The memory        *)
(* service and the channels (20 to 45), then the config watcher (50).      *)
(***************************************************************************)

\* The memory service and the channels are up: a borrowed memory service is
\* kept, or replaced by a new one.
Builds(w, keep) ==
    /\ life[w] = "created"
    /\ life' = [life EXCEPT ![w] = "built"]
    /\ config' = [config EXCEPT ![w] = version]
    /\ borrowed' = [borrowed EXCEPT ![w] = keep]
    /\ IF keep THEN UNCHANGED <<memory, open, settings>>
               ELSE /\ memory' = [memory EXCEPT ![w] = w]
                    /\ open' = open \cup {w}
                    /\ settings' = [settings EXCEPT ![w] = backend]
    /\ UNCHANGED <<agents, locked, pending, seen, watching, lends, drains>>
    /\ UNCHANGED <<fileVars, generation, callVars, requestVars, historyVars>>

\* Mutant: a borrowed memory service is never compared with the settings.
BuildReusing(w) == Builds(w, borrowed[w])

\* A borrowed memory service is kept if it was made with the settings of now.
Build(w) == Builds(w, borrowed[w] /\ settings[memory[w]] = backend)

FinishStart(w) ==
    /\ life[w] = "built"
    /\ life' = [life EXCEPT ![w] = "running"]
    /\ seen' = [seen EXCEPT ![w] = version]
    /\ watching' = [watching EXCEPT ![w] = TRUE]
    /\ UNCHANGED <<agents, locked, pending, config, memory, borrowed, lends>>
    /\ UNCHANGED <<drains, memVars, fileVars, generation, callVars>>
    /\ UNCHANGED <<requestVars, historyVars>>

\* stop(final=True, preserve_reused=True) of a workspace that never served:
\* its own memory service is closed, a borrowed one is not.
Discard(w) ==
    /\ life' = [life EXCEPT ![w] = "stopped"]
    /\ watching' = [watching EXCEPT ![w] = FALSE]
    /\ open' = IF borrowed[w] THEN open ELSE open \ {memory[w]}
    /\ UNCHANGED <<config, seen, memory, borrowed, lends, drains, settings>>

\* A service fails to start: the workspace cleans up and its builder gives up.
StartFails(w) ==
    /\ w \in Faulty
    /\ life[w] \in {"created", "built"}
    /\ Discard(w)
    /\ request' = [q \in Requests |->
                     IF request[q] = "starting" /\ owner[q] = w THEN "over"
                                                               ELSE request[q]]
    /\ call' = [r \in Reloads |-> IF candidate[r] = w THEN "idle" ELSE call[r]]
    /\ candidate' = [r \in Reloads |->
                       IF candidate[r] = w THEN NoWs ELSE candidate[r]]
    /\ UNCHANGED <<agents, locked, pending, fileVars, generation, captured>>
    /\ UNCHANGED <<lent, owner, historyVars>>

(***************************************************************************)
(* What calls reload_agent.                                                *)
(***************************************************************************)

\* A handler saves the config: schedule_agent_reload notes the change and
\* makes a task of the reload.
SaveConfig(r, b) ==
    /\ version < MaxEdits
    /\ version' = version + 1
    /\ backend' = b
    /\ noted' = version'
    /\ generation' = generation + 1
    /\ call[r] = "idle"
    /\ call' = [call EXCEPT ![r] = "scheduled"]
    /\ UNCHANGED <<agents, locked, pending, wsVars, memVars, captured>>
    /\ UNCHANGED <<candidate, lent, requestVars, historyVars>>

\* Somebody edits the file (its channels or heartbeat).
EditFile ==
    /\ version < MaxEdits
    /\ version' = version + 1
    /\ UNCHANGED <<agents, locked, pending, wsVars, memVars, backend, noted>>
    /\ UNCHANGED <<generation, callVars, requestVars, historyVars>>

\* The watcher of a workspace notices an edit: it disables itself, notes the
\* change and calls reload_agent.
WatcherNotices(w, r) ==
    /\ watching[w]
    /\ seen[w] # version
    /\ watching' = [watching EXCEPT ![w] = FALSE]
    /\ seen' = [seen EXCEPT ![w] = version]
    /\ noted' = version
    /\ generation' = generation + 1
    /\ call[r] = "idle"
    /\ call' = [call EXCEPT ![r] = "scheduled"]
    /\ UNCHANGED <<agents, locked, pending, life, config, memory, borrowed>>
    /\ UNCHANGED <<lends, drains, memVars, version, backend, captured>>
    /\ UNCHANGED <<candidate, lent, requestVars, historyVars>>

\* The /daemon restart command, the whole of a chat run: no change is noted.
Restart(q, r) ==
    /\ request[q] = "running"
    /\ request' = [request EXCEPT ![q] = "restarting"]
    /\ call[r] = "idle"
    /\ call' = [call EXCEPT ![r] = "scheduled"]
    /\ UNCHANGED <<agents, locked, pending, wsVars, memVars, fileVars>>
    /\ UNCHANGED <<generation, captured, candidate, lent, owner, historyVars>>

(***************************************************************************)
(* reload_agent.                                                           *)
(***************************************************************************)

\* The generation is captured before the wait for the lock.
ReloadBegins(r) ==
    /\ call[r] = "scheduled"
    /\ call' = [call EXCEPT ![r] = "checking"]
    /\ captured' = [captured EXCEPT ![r] = generation]
    /\ UNCHANGED <<agents, locked, pending, wsVars, memVars, fileVars>>
    /\ UNCHANGED <<generation, candidate, lent, requestVars, historyVars>>

\* "Agent not running, will be loaded on next request"; or the watcher of
\* the serving workspace is stopped.
ReloadChecks(r) ==
    /\ call[r] = "checking" /\ ~locked
    /\ \/ /\ agents = NoWs
          /\ call' = [call EXCEPT ![r] = "idle"]
          /\ UNCHANGED watching
       \/ /\ agents # NoWs
          /\ call' = [call EXCEPT ![r] = "preparing"]
          /\ watching' = [watching EXCEPT ![agents] = FALSE]
    /\ UNCHANGED <<agents, locked, pending, life, config, seen, memory>>
    /\ UNCHANGED <<borrowed, lends, drains, memVars, fileVars, generation>>
    /\ UNCHANGED <<captured, candidate, lent, requestVars, historyVars>>

\* _prepare_reload_candidate: the candidate borrows the memory service of the
\* workspace that serves now, and starts.
Prepare(r, c) ==
    LET lendable == agents # NoWs /\ lends[agents] IN
    /\ call[r] = "preparing" /\ ~locked
    /\ life[c] = "unused"
    /\ call' = [call EXCEPT ![r] = "building"]
    /\ candidate' = [candidate EXCEPT ![r] = c]
    /\ lent' = [lent EXCEPT ![r] = IF lendable THEN agents ELSE NoWs]
    /\ life' = [life EXCEPT ![c] = "created"]
    /\ borrowed' = [borrowed EXCEPT ![c] = lendable]
    /\ memory' = IF lendable THEN [memory EXCEPT ![c] = memory[agents]] ELSE memory
    /\ UNCHANGED <<agents, locked, pending, config, seen, watching, lends>>
    /\ UNCHANGED <<drains, memVars, fileVars, generation, captured>>
    /\ UNCHANGED <<requestVars, historyVars>>

\* The candidate is up and the lock free: the call ends.
Swaps(r) ==
    /\ call[r] = "building" /\ ~locked
    /\ life[candidate[r]] = "running"
    /\ call' = [call EXCEPT ![r] = "idle"]
    /\ candidate' = [candidate EXCEPT ![r] = NoWs]
    /\ UNCHANGED <<locked, pending, fileVars, generation, captured, lent>>
    /\ UNCHANGED <<requestVars, crossed, late>>

\* The agent was removed during the rebuild, or its config changed.
SwapRefused(r) ==
    /\ Swaps(r)
    /\ agents = NoWs \/ captured[r] # generation
    /\ Discard(candidate[r])
    /\ UNCHANGED <<agents, misbooked>>

\* The run of request q is live.
Live(q) == request[q] \in {"running", "restarting"}

\* The runs on workspace w that are live.
RunsOf(w) == {q \in Requests : Live(q) /\ owner[q] = w}

\* The swap.  The old workspace keeps the memory service that was handed on,
\* unless the new one rejected it; it is stopped when its runs are over.  What
\* was handed on belonged to the workspace that served at Prepare, what is
\* marked belongs to the one that serves now.
Commit(r) ==
    LET new == candidate[r]
        rejected == lent[r] # NoWs /\ ~borrowed[new] IN
    /\ agents' = new
    /\ life' = [life EXCEPT ![agents] = "retiring"]
    /\ drains' = [drains EXCEPT ![agents] = RunsOf(agents)]
    /\ lends' = [lends EXCEPT ![agents] = @ /\ ~rejected]
    /\ borrowed' = [borrowed EXCEPT ![agents] = @ /\ ~rejected]
    /\ misbooked' = (misbooked \/ (rejected /\ lent[r] # agents))
    /\ UNCHANGED <<config, seen, watching, memory, memVars>>

\* Mutant: the captured generation is not compared.
SwapCommitsAnyway(r) ==
    /\ Swaps(r)
    /\ agents # NoWs
    /\ Commit(r)

SwapCommits(r) ==
    /\ Swaps(r)
    /\ agents # NoWs /\ captured[r] = generation
    /\ Commit(r)

\* The old workspace is stopped, its memory service kept or closed.
StopOld(w, kept) ==
    /\ life[w] = "retiring"
    /\ life' = [life EXCEPT ![w] = "stopped"]
    /\ watching' = [watching EXCEPT ![w] = FALSE]
    /\ open' = IF kept THEN open ELSE open \ {memory[w]}
    /\ UNCHANGED <<agents, locked, pending, config, seen, memory, borrowed>>
    /\ UNCHANGED <<lends, drains, settings, fileVars, generation, callVars>>
    /\ UNCHANGED <<requestVars, historyVars>>

Drained(w) == \A q \in drains[w] : request[q] = "over"

\* stop(final=False) skips reusable services, and borrowed ones.
Kept(w) == lends[w] \/ borrowed[w]

\* Mutant: the old workspace is stopped without a look at its runs.
RetireAtOnce(w) == StopOld(w, Kept(w))

\* Mutant: the stop of a replaced workspace is a final one.
RetireFinally(w) == Drained(w) /\ StopOld(w, FALSE)

\* Mutant: the memory service of a replaced workspace is never closed.
RetireKeepsMemory(w) == Drained(w) /\ StopOld(w, TRUE)

\* The snapshot of runs is over.
Retire(w) == Drained(w) /\ StopOld(w, Kept(w))

(***************************************************************************)
(* stop_agent, and the runs.                                               *)
(***************************************************************************)

StopBegins ==
    /\ ~locked /\ agents # NoWs
    /\ locked' = TRUE
    /\ life' = [life EXCEPT ![agents] = "stopping"]
    /\ watching' = [watching EXCEPT ![agents] = FALSE]
    /\ UNCHANGED <<agents, pending, config, seen, memory, borrowed, lends>>
    /\ UNCHANGED <<drains, memVars, fileVars, generation, callVars>>
    /\ UNCHANGED <<requestVars, historyVars>>

\* The final stop closes the memory service, whoever else uses it.
Removes ==
    /\ locked
    /\ locked' = FALSE
    /\ agents' = NoWs
    /\ life' = [life EXCEPT ![agents] = "removed"]
    /\ open' = open \ {memory[agents]}
    /\ crossed' = (crossed \/ \E r \in Reloads : call[r] \in {"preparing", "building"})
    /\ UNCHANGED <<pending, config, seen, watching, memory, borrowed, lends>>
    /\ UNCHANGED <<drains, settings, fileVars, callVars, requestVars>>
    /\ UNCHANGED <<misbooked, late>>

\* Mutant: the change counter of a removed agent is forgotten.
StopEndsForgetsGeneration == Removes /\ generation' = 0

StopEnds == Removes /\ UNCHANGED generation

\* The request's handler comes to attach_or_start(owner=workspace).
RunStarts(q) ==
    /\ request[q] = "held"
    /\ request' = [request EXCEPT ![q] = "running"]
    /\ late' = IF agents = owner[q] THEN late ELSE late \cup {q}
    /\ UNCHANGED <<agents, locked, pending, wsVars, memVars, fileVars>>
    /\ UNCHANGED <<generation, callVars, owner, crossed, misbooked>>

RunEnds(q) ==
    /\ Live(q)
    /\ request' = [request EXCEPT ![q] = "over"]
    /\ UNCHANGED <<agents, locked, pending, wsVars, memVars, fileVars>>
    /\ UNCHANGED <<generation, callVars, owner, historyVars>>

(***************************************************************************)
(* The specification.                                                      *)
(***************************************************************************)

GetAgent(q) ==
    \/ RequestHolds(q) \/ RequestWaits(q) \/ RequestFails(q) \/ Install(q)
    \/ \E w \in Workspaces : RequestStarts(q, w)

Start(w) == Build(w) \/ FinishStart(w) \/ StartFails(w)

Trigger(r) ==
    \/ \E b \in Backends : SaveConfig(r, b)
    \/ \E w \in Workspaces : WatcherNotices(w, r)
    \/ \E q \in Requests : Restart(q, r)

Reload(r) ==
    \/ ReloadBegins(r) \/ ReloadChecks(r)
    \/ \E c \in Workspaces : Prepare(r, c)
    \/ SwapRefused(r) \/ SwapCommits(r)

Next ==
    \/ \E q \in Requests : GetAgent(q) \/ RunStarts(q) \/ RunEnds(q)
    \/ ReleaseWaiters
    \/ \E w \in Workspaces : Start(w) \/ Retire(w)
    \/ \E r \in Reloads : Trigger(r) \/ Reload(r)
    \/ EditFile \/ StopBegins \/ StopEnds

Spec == Init /\ [][Next]_vars

(***************************************************************************)
(* Properties.                                                             *)
(***************************************************************************)

ManagerTypes ==
    /\ agents \in Workspaces \cup {NoWs}
    /\ locked \in BOOLEAN
    /\ pending \in Workspaces \cup {NoWs}
    /\ generation \in Nat
    /\ crossed \in BOOLEAN
    /\ misbooked \in BOOLEAN

WorkspaceTypes ==
    /\ life \in [Workspaces -> Life]
    /\ config \in [Workspaces -> 0 .. version]
    /\ seen \in [Workspaces -> 0 .. version]
    /\ watching \in [Workspaces -> BOOLEAN]
    /\ lends \in [Workspaces -> BOOLEAN]
    /\ drains \in [Workspaces -> SUBSET Requests]

MemoryTypes ==
    /\ memory \in [Workspaces -> Workspaces \cup {NoWs}]
    /\ borrowed \in [Workspaces -> BOOLEAN]
    /\ open \subseteq Workspaces
    /\ settings \in [Workspaces -> Backends]

FileTypes ==
    /\ version \in 0 .. MaxEdits
    /\ backend \in Backends
    /\ noted \in 0 .. version

CallTypes ==
    /\ call \in [Reloads -> Call]
    /\ captured \in [Reloads -> 0 .. generation]
    /\ candidate \in [Reloads -> Workspaces \cup {NoWs}]
    /\ lent \in [Reloads -> Workspaces \cup {NoWs}]

RequestTypes ==
    /\ request \in [Requests -> RequestState]
    /\ owner \in [Requests -> Workspaces \cup {NoWs}]
    /\ late \subseteq Requests

\* Every variable keeps its type.
TypeOK ==
    /\ ManagerTypes /\ WorkspaceTypes /\ MemoryTypes
    /\ FileTypes /\ CallTypes /\ RequestTypes

\* Who will install or stop workspace w.
Holders(w) ==
    {r \in Reloads : candidate[r] = w}
        \cup {q \in Requests : request[q] = "starting" /\ owner[q] = w}
        \cup {a \in {agents} : a = w}

\* A workspace with services up is in exactly one pair of hands, and one that
\* is being or was stopped in none: no interleaving of starts, reloads and
\* stops leaves a workspace running that nobody will ever stop, has two
\* install it, or puts a stopped one in service.
OneHolder ==
    \A w \in Workspaces :
        Cardinality(Holders(w)) =
            IF life[w] \in {"created", "built", "running", "stopping"} THEN 1 ELSE 0

\* A reload never stops a workspace under a run it served: only runs that
\* came to it after it was replaced can find it stopped.
RunsKept ==
    \A q \in Requests \ late :
        Live(q) => life[owner[q]] # "stopped"

\* The memory service of the serving workspace is open, whatever candidates
\* were discarded and predecessors stopped, unless a final stop fell into a
\* reload or a rejection was booked on the wrong workspace.
ServingMemoryOpen ==
    agents # NoWs /\ ~crossed /\ ~misbooked => memory[agents] \in open

\* An open memory service is one that some workspace will close: handing it
\* on and rejecting it never leak it, with the same exceptions.
MemoryHasUser ==
    ~crossed /\ ~misbooked => \A m \in open :
        \E w \in Workspaces : memory[w] = m /\ life[w] \notin {"stopped", "removed"}

\* A swap never installs a workspace older than the last noted change of the
\* config, so a save is not reverted by a reload that began before it.
NoStaleSwap ==
    [][agents # NoWs /\ agents' \notin {agents, NoWs} => config[agents'] >= noted]_vars

\* A swap installs a workspace whose memory service was made with the memory
\* settings of now, be it its own or a borrowed one: a change of backend is
\* never lost by handing the old service on.
SwapAppliesSettings ==
    [][agents # NoWs /\ agents' \notin {agents, NoWs}
         => settings[memory[agents']] = backend]_vars

\* "The old workspace must retain it for any in-flight requests"
\* (multi_agent_manager.py:675): as long as nobody removed the agent, the
\* memory service of a live run's workspace is open.
InFlightKeepsMemory ==
    \A q \in Requests \ late :
        Live(q) /\ (\A w \in Workspaces : life[w] # "removed")
            => memory[owner[q]] \in open

\* "Agent not running, will be loaded on next request"
\* (multi_agent_manager.py:586): with no start and no reload under way, a
\* noted change of the config is in the workspace that serves.
NotedIsServed ==
    /\ agents # NoWs
    /\ pending = NoWs
    /\ \A r \in Reloads : call[r] = "idle"
    => config[agents] >= noted
=============================================================================
