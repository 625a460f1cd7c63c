--------------------------- MODULE MCAgentReload ---------------------------
(***************************************************************************)
(* TLC instances of AgentReload.                                           *)
(***************************************************************************)
EXTENDS AgentReload, TLC

\* Identities are interchangeable; the faulty workspaces among themselves.
Symmetry == Permutations(Faulty) \cup Permutations(Workspaces \ Faulty)
                \cup Permutations(Reloads) \cup Permutations(Requests)
                \cup Permutations(Backends)

(***************************************************************************)
(* What of a state can still matter to the actions, and to the properties  *)
(* of the safety run: none reads the fields of a stopped workspace (but    *)
(* its life), the settings of a closed memory service, the captured        *)
(* generation of an idle call or the owner of a request that is over; and  *)
(* versions, which only grow, are compared with version and noted alone.   *)
(***************************************************************************)
Gone(w) == life[w] \in {"unused", "stopped", "removed"}

Used == {w \in Workspaces : ~Gone(w)}

View ==
    <<agents, locked, pending, life, version, backend, noted, crossed, misbooked,
      {q \in late : request[q] # "over"}, open, call, candidate, request,
      [w \in Used |-> <<config[w] < noted, config[w] < version,
                          watching[w], watching[w] /\ seen[w] # version,
                          memory[w], borrowed[w], lends[w],
                          {q \in drains[w] : request[q] # "over"}>>],
      [m \in (open \cup {memory[w] : w \in Used}) \ {NoWs} |-> settings[m]],
      [r \in {x \in Reloads : call[x] \notin {"idle", "scheduled"}} |->
          <<captured[r] = generation, lent[r] = NoWs, lent[r] = agents>>],
      [q \in {x \in Requests : request[x] \in {"starting", "held", "running", "restarting"}} |->
          owner[q]]>>
=============================================================================
