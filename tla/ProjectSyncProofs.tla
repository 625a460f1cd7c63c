-------------------------- MODULE ProjectSyncProofs --------------------------
(***************************************************************************)
(* Proofs about ProjectSync, for every set of projects, fields and saves,  *)
(* and every bound.                                                        *)
(***************************************************************************)
EXTENDS ProjectSync, FiniteSetTheorems, TLAPS

(***************************************************************************)
(* The bounds.                                                             *)
(***************************************************************************)

\* Using one of the bounded resources counts it, within its bound.
LEMMA UseStep ==
    ASSUME UseBounds, NEW K \in SUBSET Kinds, Use(K)
    PROVE  /\ UseBounds'
           /\ \A k \in Kinds : used'[k] = IF k \in K THEN used[k] + 1 ELSE used[k]
           /\ \A k \in K : used[k] < Limits[k]
<1>1. Limits \in [Kinds -> Nat]
  BY BoundsAreNaturals DEF Limits, Kinds
<1>2. DOMAIN used = Kinds
  BY DEF UseBounds
<1>3. \A k \in Kinds : used'[k] = IF k \in K THEN used[k] + 1 ELSE used[k]
  BY <1>2 DEF Use
<1>4. \A k \in K : used[k] < Limits[k]
  BY DEF Use
<1>5. used' \in [Kinds -> Nat]
  BY <1>2 DEF Use, UseBounds
<1> QED
  BY <1>1, <1>3, <1>4, <1>5 DEF UseBounds

\* Every step uses what it uses within the bounds.
LEMMA AnyUse ==
    ASSUME UseBounds, [Next]_vars
    PROVE  /\ UseBounds'
           /\ \A k \in Kinds : used'[k] \in {used[k], used[k] + 1}
<1>1. CASE UNCHANGED used
  BY <1>1 DEF UseBounds
<1>2. ASSUME NEW K \in SUBSET Kinds, Use(K)
      PROVE  /\ UseBounds'
             /\ \A k \in Kinds : used'[k] \in {used[k], used[k] + 1}
  BY <1>2, UseStep
<1>3. \/ UNCHANGED used
      \/ Use({"values"}) \/ Use({"turns"}) \/ Use({"saves"})
      \/ Use({"saves", "values"})
  BY DEF Next, vars, AgentWrites, Delete, PollAnswered, PollFails,
         PollApplied, ExtraPoll, Show, Edit, SaveArrives, SaveFails, Apply,
         PatchDirectly, SaveReplied, SaveRefused, TimerFires, Leave, Merge,
         Discard, AcceptConflicts
<1>4. /\ {"values"} \in SUBSET Kinds
      /\ {"turns"} \in SUBSET Kinds
      /\ {"saves"} \in SUBSET Kinds
      /\ {"saves", "values"} \in SUBSET Kinds
  BY DEF Kinds
<1> QED
  BY <1>1, <1>2, <1>3, <1>4

\* A new value is within the bound, and larger than every value so far.
LEMMA NewValueType ==
    ASSUME UseBounds, NEW K \in SUBSET Kinds, "values" \in K, Use(K)
    PROVE  /\ NewValue \in 1..MaxValues
           /\ used'["values"] = NewValue
<1>1. used["values"] < Limits["values"] /\ used'["values"] = used["values"] + 1
  BY UseStep
<1>2. Limits["values"] = MaxValues /\ MaxValues \in Nat /\ used["values"] \in Nat
  BY BoundsAreNaturals DEF Limits, UseBounds, Kinds
<1> QED
  BY <1>1, <1>2 DEF NewValue

(***************************************************************************)
(* Typing under a save.                                                    *)
(***************************************************************************)

\* What the user types is noted at the saves of the draft; nothing else of a
\* save changes.
LEMMA EditSaves ==
    ASSUME SaveTypes, NEW f \in Fields, Edit(f)
    PROVE  /\ DOMAIN save' = Saves
           /\ \A s \in Saves :
                 /\ save'[s] = [save[s] EXCEPT !.late = save[s].draft]
                 /\ save'[s].st = save[s].st /\ save'[s].draft = save[s].draft
                 /\ save'[s].proj = save[s].proj /\ save'[s].here = save[s].here
                 /\ save'[s].before = save[s].before /\ save'[s].after = save[s].after
                 /\ save'[s].gen = save[s].gen /\ save'[s].doc = save[s].doc
                 /\ save'[s].known = save[s].known /\ save'[s].late = save[s].draft
<1>1. save' = [s \in Saves |-> [save[s] EXCEPT !.late = save[s].draft]]
  BY DEF Edit
<1>2. ASSUME NEW s \in Saves
      PROVE  /\ save'[s] = [save[s] EXCEPT !.late = save[s].draft]
             /\ save'[s].st = save[s].st /\ save'[s].draft = save[s].draft
             /\ save'[s].proj = save[s].proj /\ save'[s].here = save[s].here
             /\ save'[s].before = save[s].before /\ save'[s].after = save[s].after
             /\ save'[s].gen = save[s].gen /\ save'[s].doc = save[s].doc
             /\ save'[s].known = save[s].known /\ save'[s].late = save[s].draft
  BY <1>1 DEF SaveTypes
<1> QED
  BY <1>1, <1>2

(***************************************************************************)
(* Generations.                                                            *)
(***************************************************************************)

\* The saves that may still be carried out.
Pending == {s \in Saves : save[s].st = "sent"}

\* A generation is made by a write of an agent or by a save that arrives, and
\* a save that is still under way has made none.
GenInv ==
    /\ IsFiniteSet(Pending)
    /\ \A p \in Projects :
           server[p].gen + Cardinality(Pending)
               <= 1 + used["values"] + used["saves"]

\* What GenInv says of the sets and counters as numbers.
LEMMA GenNumbers ==
    ASSUME ServerTypes, GenInv
    PROVE  /\ Cardinality(Pending) \in Nat
           /\ \A p \in Projects : server[p].gen \in Nat
           /\ \A s \in Saves \ Pending :
                 Cardinality(Pending \cup {s}) = Cardinality(Pending) + 1
           /\ \A s \in Pending :
                 Cardinality(Pending \ {s}) = Cardinality(Pending) - 1
<1>1. IsFiniteSet(Pending)
  BY DEF GenInv
<1>2. Cardinality(Pending) \in Nat
  BY <1>1, FS_CardinalityType
<1>3. \A p \in Projects : server[p].gen \in Nat
  BY BoundsAreNaturals DEF ServerTypes, Gens
<1>4. ASSUME NEW s \in Saves \ Pending
      PROVE  Cardinality(Pending \cup {s}) = Cardinality(Pending) + 1
  BY <1>1, FS_AddElement
<1>5. ASSUME NEW s \in Pending
      PROVE  Cardinality(Pending \ {s}) = Cardinality(Pending) - 1
  BY <1>1, FS_RemoveElement
<1> QED
  BY <1>2, <1>3, <1>4, <1>5

\* A step keeps GenInv when no generation is made and no save is sent.
LEMMA GenFrame ==
    ASSUME ServerTypes, UseBounds, GenInv, [Next]_vars, Pending' = Pending,
           \A p \in Projects : server'[p].gen = server[p].gen
    PROVE  GenInv'
<1>1. \A k \in Kinds : used'[k] \in {used[k], used[k] + 1} /\ used[k] \in Nat
  BY AnyUse DEF UseBounds
<1> QED
  BY <1>1, GenNumbers DEF GenInv, Kinds

\* A save that is sent is counted.
LEMMA GenSend ==
    ASSUME ServerTypes, SaveTypes, UseBounds, GenInv, UNCHANGED server,
           NEW K \in SUBSET Kinds, "saves" \in K, Use(K),
           NEW s \in Saves, save[s].st = "none", save'[s].st = "sent",
           \A t \in Saves \ {s} : save'[t] = save[t]
    PROVE  GenInv'
<1>1. Pending' = Pending \cup {s} /\ s \in Saves \ Pending
  BY DEF Pending
<1>2. /\ used'["saves"] = used["saves"] + 1 /\ used["saves"] \in Nat
      /\ used'["values"] >= used["values"] /\ used["values"] \in Nat
      /\ used'["values"] \in Nat
  BY UseStep DEF UseBounds, Kinds
<1>3. IsFiniteSet(Pending')
  BY <1>1, FS_AddElement DEF GenInv
<1>4. Cardinality(Pending') = Cardinality(Pending) + 1
  BY <1>1, GenNumbers
<1> QED
  BY <1>2, <1>3, <1>4, GenNumbers DEF GenInv

\* A save that ends makes one generation at most.
LEMMA GenEnd ==
    ASSUME ServerTypes, SaveTypes, UseBounds, GenInv, [Next]_vars,
           NEW s \in Pending, save'[s].st # "sent",
           \A t \in Saves \ {s} : save'[t] = save[t],
           \A p \in Projects : server'[p].gen \in {server[p].gen, server[p].gen + 1}
    PROVE  GenInv'
<1>1. Pending' = Pending \ {s}
  BY DEF Pending
<1>2. \A k \in Kinds : used'[k] \in {used[k], used[k] + 1} /\ used[k] \in Nat
  BY AnyUse DEF UseBounds
<1>3. IsFiniteSet(Pending')
  BY <1>1, FS_RemoveElement DEF GenInv
<1>4. Cardinality(Pending') = Cardinality(Pending) - 1
  BY <1>1, GenNumbers
<1> QED
  BY <1>2, <1>3, <1>4, GenNumbers DEF GenInv, Kinds

\* Every step keeps GenInv.
LEMMA GenStep ==
    ASSUME ServerTypes, SaveTypes, UseBounds, GenInv, [Next]_vars
    PROVE  GenInv'
<1>1. CASE UNCHANGED <<server, save>>
  <2>1. Pending' = Pending
    BY <1>1 DEF Pending
  <2> QED
    BY <1>1, <2>1, GenFrame
<1>2. ASSUME NEW p \in Projects, NEW f \in Fields, AgentWrites(p, f)
      PROVE  GenInv'
  <2>1. Pending' = Pending
    BY <1>2 DEF AgentWrites, Pending
  <2>2. \A q \in Projects : server'[q].gen \in {server[q].gen, server[q].gen + 1}
    BY <1>2 DEF AgentWrites, ServerTypes
  <2>3. {"values"} \in SUBSET Kinds
    BY DEF Kinds
  <2>4. /\ used'["values"] = used["values"] + 1
        /\ used'["saves"] = used["saves"]
        /\ used["values"] \in Nat /\ used["saves"] \in Nat
    BY <1>2, <2>3, UseStep DEF AgentWrites, UseBounds, Kinds
  <2> QED
    BY <2>1, <2>2, <2>4, GenNumbers DEF GenInv
<1>3. ASSUME NEW p \in Projects, Delete(p)
      PROVE  GenInv'
  <2>1. Pending' = Pending
    BY <1>3 DEF Delete, Pending
  <2>2. \A q \in Projects : server'[q].gen = server[q].gen
    BY <1>3 DEF Delete, ServerTypes
  <2> QED
    BY <2>1, <2>2, GenFrame
<1>4. ASSUME NEW s \in Saves, SaveArrives(s)
      PROVE  GenInv'
  <2>1. s \in Pending
    BY <1>4 DEF SaveArrives, Pending
  <2>2. save'[s].st # "sent" /\ \A t \in Saves \ {s} : save'[t] = save[t]
    <3>1. CASE save' = [save EXCEPT ![s] = Refused(s)]
      BY <3>1 DEF SaveTypes, Refused, NoSave
    <3>2. ASSUME NEW g, NEW d, save' = [save EXCEPT ![s].st = "saved",
                                                   ![s].gen = g, ![s].doc = d]
          PROVE  save'[s].st # "sent" /\ \A t \in Saves \ {s} : save'[t] = save[t]
      BY <3>2 DEF SaveTypes
    <3> QED
      BY <1>4, <3>1, <3>2 DEF SaveArrives
  <2>3. \A p \in Projects : server'[p].gen \in {server[p].gen, server[p].gen + 1}
    BY <1>4 DEF SaveArrives, ServerTypes
  <2> QED
    BY <2>1, <2>2, <2>3, GenEnd
<1>5. ASSUME NEW s \in Saves, SaveFails(s)
      PROVE  GenInv'
  <2>1. save'[s].st # "sent" /\ \A t \in Saves \ {s} : save'[t] = save[t]
    BY <1>5 DEF SaveFails, SaveTypes, Refused, NoSave
  <2>2. UNCHANGED server
    BY <1>5 DEF SaveFails
  <2>3. CASE s \notin Pending
    <3>1. Pending' = Pending
      BY <2>1, <2>3 DEF Pending
    <3> QED
      BY <2>2, <3>1, GenFrame
  <2> QED
    BY <2>1, <2>2, <2>3, GenEnd
<1>6. ASSUME NEW s \in Saves, SaveReplied(s) \/ SaveRefused(s)
      PROVE  GenInv'
  <2>1. Pending' = Pending
    BY <1>6 DEF SaveReplied, SaveRefused, SaveTypes, Pending, NoSave
  <2>2. UNCHANGED server
    BY <1>6 DEF SaveReplied, SaveRefused
  <2> QED
    BY <2>1, <2>2, GenFrame
<1>7. CASE Leave \/ \E p \in Projects : Show(p)
  <2>1. Pending' = Pending
    BY <1>7 DEF Leave, Show, SaveTypes, Pending
  <2>2. UNCHANGED server
    BY <1>7 DEF Leave, Show
  <2> QED
    BY <2>1, <2>2, GenFrame
<1>8. ASSUME NEW s \in Saves, Apply(s) \/ \E f \in Fields : PatchDirectly(s, f)
      PROVE  GenInv'
  <2>1. PICK K \in SUBSET Kinds : "saves" \in K /\ Use(K)
    BY <1>8 DEF Apply, PatchDirectly, Kinds
  <2>2. UNCHANGED server /\ save[s].st = "none"
    BY <1>8 DEF Apply, PatchDirectly, Send
  <2>3. save'[s].st = "sent" /\ \A t \in Saves \ {s} : save'[t] = save[t]
    <3>1. PICK draft, before, after : Send(s, draft, before, after)
      BY <1>8 DEF Apply, PatchDirectly
    <3> QED
      BY <3>1 DEF Send, SaveTypes, NoSave
  <2> QED
    BY <2>1, <2>2, <2>3, GenSend
<1>9. ASSUME NEW f \in Fields, Edit(f)
      PROVE  GenInv'
  <2>1. UNCHANGED server
    BY <1>9 DEF Edit
  <2>2. Pending' = Pending
    BY <1>9, EditSaves DEF Pending
  <2> QED
    BY <2>1, <2>2, GenFrame
<1> QED
  BY <1>1, <1>2, <1>3, <1>4, <1>5, <1>6, <1>7, <1>8, <1>9
     DEF Next, vars, PollAnswered, PollFails, PollApplied, ExtraPoll,
         TimerFires, Merge, Discard, AcceptConflicts

\* A save that arrives finds room for the generation it makes.
LEMMA GenBound ==
    ASSUME ServerTypes, UseBounds, GenInv
    PROVE  /\ \A p \in Projects : server[p].gen \in Gens
           /\ Pending # {} => \A p \in Projects : server[p].gen + 1 \in Gens
           /\ used["values"] < MaxValues => \A p \in Projects : server[p].gen + 1 \in Gens
<1>1. /\ used["values"] \in 0..MaxValues
      /\ used["saves"] \in 0..MaxSaves
  BY BoundsAreNaturals DEF UseBounds, Limits, Kinds
<1>2. Pending # {} => Cardinality(Pending) >= 1
  BY GenNumbers, FS_EmptySet DEF GenInv
<1> QED
  BY <1>1, <1>2, GenNumbers, BoundsAreNaturals DEF GenInv, Gens

(***************************************************************************)
(* Types.  Each part of TypeOK is kept on its own.                         *)
(***************************************************************************)

\* What is loaded, saved or polled for is a project.
PlaceInv ==
    /\ store.loaded => store.proj \in Projects
    /\ poller.ph # "off" => poller.proj \in Projects
    /\ \A s \in Saves : save[s].st \in {"sent", "saved"} => save[s].proj \in Projects

\* Nothing is in a blank document.
LEMMA BlankType == Blank \in Docs
BY BoundsAreNaturals DEF Blank, Docs

\* The server's documents and generations keep their types.
LEMMA ServerStep ==
    ASSUME TypeOK, GenInv, [Next]_vars
    PROVE  ServerTypes'
<1> USE DEF TypeOK
<1>1. CASE UNCHANGED server
  BY <1>1 DEF ServerTypes
<1>2. ASSUME NEW p \in Projects, NEW g \in Gens, NEW d \in Docs,
             server' = [server EXCEPT ![p].gen = g, ![p].doc = d]
      PROVE  ServerTypes'
  <2> DEFINE R == [gen: Gens, doc: Docs, alive: BOOLEAN]
  <2>1. server'[p] \in R
    BY <1>2 DEF ServerTypes
  <2>2. \A q \in Projects \ {p} : server'[q] \in R
    BY <1>2 DEF ServerTypes
  <2>3. server' = [q \in Projects |-> server'[q]]
    BY <1>2 DEF ServerTypes
  <2> QED
    BY <2>1, <2>2, <2>3 DEF ServerTypes
<1>3. ASSUME NEW p \in Projects, NEW f \in Fields, AgentWrites(p, f)
      PROVE  ServerTypes'
  <2>1. {"values"} \in SUBSET Kinds
    BY DEF Kinds
  <2>2. NewValue \in 1..MaxValues /\ used["values"] < MaxValues
    BY <1>3, <2>1, NewValueType, UseStep DEF AgentWrites, Limits
  <2>3. server[p].gen + 1 \in Gens
    BY <2>2, GenBound
  <2> DEFINE d == [server[p].doc EXCEPT ![f] = NewValue]
  <2>4. d \in Docs
    BY <2>2, BoundsAreNaturals DEF ServerTypes, Docs
  <2>5. server' = [server EXCEPT ![p].gen = server[p].gen + 1, ![p].doc = d]
    BY <1>3 DEF AgentWrites, ServerTypes
  <2> QED
    BY <1>2, <2>3, <2>4, <2>5
<1>4. ASSUME NEW p \in Projects, Delete(p)
      PROVE  ServerTypes'
  BY <1>4 DEF Delete, ServerTypes
<1>5. ASSUME NEW s \in Saves, SaveArrives(s), ~UNCHANGED server
      PROVE  ServerTypes'
  <2> DEFINE p == save[s].proj
             d == Patched(s, server[p].doc)
  <2>1. server' = [server EXCEPT ![p].gen = @ + 1, ![p].doc = d]
    BY <1>5 DEF SaveArrives
  <2>2. CASE p \notin Projects
    BY <2>1, <2>2, <1>5 DEF ServerTypes
  <2>3. CASE p \in Projects
    <3>1. server[p].gen + 1 \in Gens
      BY <1>5, <2>3, GenBound DEF SaveArrives, Pending
    <3>2. d \in Docs
      BY <2>3 DEF ServerTypes, SaveTypes, Patched, Docs
    <3> QED
      BY <1>2, <2>1, <2>3, <3>1, <3>2
  <2> QED
    BY <2>2, <2>3
<1> QED
  BY <1>1, <1>3, <1>4, <1>5
     DEF Next, vars, PollAnswered, PollFails, PollApplied, ExtraPoll, Show,
         Edit, SaveFails, Apply, PatchDirectly, SaveReplied, SaveRefused,
         TimerFires, Leave, Merge, Discard, AcceptConflicts

\* A snapshot of the store, loaded or not.
StoreRec ==
    [proj: Projects \cup {NoProject}, loaded: BOOLEAN,
     of: Projects \cup {NoProject}, gen: Gens, doc: Docs, patching: BOOLEAN]

\* Turning to a project gives a snapshot of it, that of before or a blank one.
LEMMA EnsureType ==
    ASSUME StoreTypes, NEW p \in Projects
    PROVE  /\ SnapshotBase(p) \in StoreRec
           /\ EnsureProject(p) \in StoreRec
           /\ EnsureProject(p).proj = p
           /\ EnsureProject(p).loaded => EnsureProject(p) = store
           /\ ~SnapshotBase(p).loaded /\ SnapshotBase(p).proj = p
<1>1. 0 \in Gens
  BY BoundsAreNaturals DEF Gens
<1>2. SnapshotBase(p) \in StoreRec
  BY <1>1, BlankType DEF SnapshotBase, StoreRec
<1>3. ~SnapshotBase(p).loaded /\ SnapshotBase(p).proj = p
  BY DEF SnapshotBase
<1> QED
  BY <1>2, <1>3 DEF EnsureProject, StoreTypes, StoreRec

\* What a step does to the store.
StoreMoves ==
    \/ UNCHANGED store
    \/ \E p \in Projects : store' = EnsureProject(p) \/ store' = SnapshotBase(p)
    \/ \E on \in BOOLEAN : store' = [store EXCEPT !.patching = on]
    \/ \E p \in Projects :
           /\ poll[p].st = "snapshot" /\ Takes(p) /\ NotOlder(p)
           /\ store' = [store EXCEPT !.loaded = TRUE, !.of = p,
                                     !.gen = poll[p].gen, !.doc = poll[p].doc]
    \/ \E s \in Saves :
           /\ save[s].st = "saved" /\ store.proj = save[s].proj
           /\ ~store.loaded \/ store.gen <= save[s].gen
           /\ store' = [store EXCEPT !.loaded = TRUE, !.of = save[s].proj,
                                     !.gen = save[s].gen, !.doc = save[s].doc,
                                     !.patching = FALSE]

\* Every step of the page moves the store in one of these ways.
LEMMA StoreMove ==
    ASSUME TypeOK, PlaceInv, [Next]_vars
    PROVE  StoreMoves
<1>1. ASSUME NEW p \in Projects, PollOnce(p)
      PROVE  StoreMoves
  BY <1>1 DEF PollOnce, StoreMoves
<1>2. ASSUME NEW p \in Projects, PollApplied(p)
      PROVE  StoreMoves
  BY <1>2 DEF PollApplied, StoreMoves
<1>3. ASSUME NEW p \in Projects, Show(p)
      PROVE  StoreMoves
  BY <1>3 DEF Show, StoreMoves
<1>4. ASSUME NEW s \in Saves, SaveReplied(s)
      PROVE  StoreMoves
  <2>1. store.patching \in BOOLEAN
    BY DEF TypeOK, StoreTypes
  <2>2. (store.patching /\ ~(store.proj = save[s].proj)) \in BOOLEAN
    BY <2>1
  <2> QED
    BY <1>4, <2>2 DEF SaveReplied, StoreMoves
<1>5. ASSUME NEW s \in Saves, SaveRefused(s)
      PROVE  StoreMoves
  <2>1. store.patching \in BOOLEAN
    BY DEF TypeOK, StoreTypes
  <2>2. (store.patching /\ store.proj # save[s].proj) \in BOOLEAN
    BY <2>1
  <2> QED
    BY <1>5, <2>2 DEF SaveRefused, StoreMoves
<1>6. ASSUME NEW s \in Saves, Apply(s) \/ \E f \in Fields : PatchDirectly(s, f)
      PROVE  StoreMoves
  BY <1>6 DEF Apply, PatchDirectly, Send, StoreMoves
<1>7. CASE TimerFires
  <2>1. poller.proj \in Projects /\ PollOnce(poller.proj)
    BY <1>7 DEF TimerFires, PlaceInv
  <2> QED
    BY <1>1, <2>1
<1>8. CASE UNCHANGED store
  BY <1>8 DEF StoreMoves
<1> QED
  BY <1>1, <1>2, <1>3, <1>4, <1>5, <1>6, <1>7, <1>8
     DEF Next, vars, AgentWrites, Delete, PollAnswered, PollFails, ExtraPoll,
         Edit, SaveArrives, SaveFails, Leave, Merge, Discard, AcceptConflicts

\* The store keeps its type, and what it has loaded is of its own project: an
\* answer is only taken for the project the store keeps to.
LEMMA StoreMovesType ==
    ASSUME TypeOK, PlaceInv, StoreMoves
    PROVE  /\ store' \in StoreRec
           /\ store'.loaded => store'.proj \in Projects
           /\ OwnSnapshot => OwnSnapshot'
<1>0. StoreTypes /\ store \in StoreRec
  BY DEF TypeOK, StoreTypes, StoreRec
<1>1. CASE UNCHANGED store
  BY <1>0, <1>1 DEF PlaceInv, OwnSnapshot
<1>2. ASSUME NEW p \in Projects, store' = EnsureProject(p) \/ store' = SnapshotBase(p)
      PROVE  /\ store' \in StoreRec
             /\ store'.loaded => store'.proj \in Projects
             /\ OwnSnapshot => OwnSnapshot'
  BY <1>0, <1>2, EnsureType DEF OwnSnapshot
<1>3. ASSUME NEW on \in BOOLEAN, store' = [store EXCEPT !.patching = on]
      PROVE  /\ store' \in StoreRec
             /\ store'.loaded => store'.proj \in Projects
             /\ OwnSnapshot => OwnSnapshot'
  BY <1>0, <1>3 DEF PlaceInv, OwnSnapshot, StoreRec
<1>4. ASSUME NEW p \in Projects, NEW g \in Gens, NEW d \in Docs, NEW on \in BOOLEAN,
             store.proj = p,
             store' = [store EXCEPT !.loaded = TRUE, !.of = p, !.gen = g,
                                    !.doc = d, !.patching = on]
      PROVE  /\ store' \in StoreRec
             /\ store'.loaded => store'.proj \in Projects
             /\ OwnSnapshot => OwnSnapshot'
  BY <1>0, <1>4 DEF OwnSnapshot, StoreRec
<1>5. ASSUME NEW p \in Projects, Takes(p),
             store' = [store EXCEPT !.loaded = TRUE, !.of = p,
                                    !.gen = poll[p].gen, !.doc = poll[p].doc]
      PROVE  /\ store' \in StoreRec
             /\ store'.loaded => store'.proj \in Projects
             /\ OwnSnapshot => OwnSnapshot'
  <2>1. poll[p].gen \in Gens /\ poll[p].doc \in Docs /\ store.proj = p
    BY <1>5 DEF TypeOK, PollTypes, Takes
  <2> QED
    BY <1>0, <1>5, <2>1 DEF OwnSnapshot, StoreRec
<1>6. ASSUME NEW s \in Saves, save[s].st = "saved", store.proj = save[s].proj,
             store' = [store EXCEPT !.loaded = TRUE, !.of = save[s].proj,
                                    !.gen = save[s].gen, !.doc = save[s].doc,
                                    !.patching = FALSE]
      PROVE  /\ store' \in StoreRec
             /\ store'.loaded => store'.proj \in Projects
             /\ OwnSnapshot => OwnSnapshot'
  <2>1. save[s].proj \in Projects /\ save[s].gen \in Gens /\ save[s].doc \in Docs
    BY <1>6 DEF TypeOK, SaveTypes, PlaceInv
  <2> QED
    BY <1>4, <1>6, <2>1
<1> QED
  BY <1>1, <1>2, <1>3, <1>5, <1>6 DEF StoreMoves

\* A request for a snapshot, or its answer.
PollRec ==
    [st: {"none", "sent", "snapshot", "not_modified", "not_found", "failed"},
     etag: Gens, fresh: BOOLEAN, gen: Gens, doc: Docs]

\* Fencing keeps the polls' types, and afterwards only answers for the store's
\* new project are welcome.
LEMMA FencedType ==
    ASSUME StoreTypes, PollTypes, NEW p \in Projects
    PROVE  /\ Fenced(p, poll) \in [Projects -> PollRec]
           /\ \A q \in Projects : Fenced(p, poll)[q].fresh => q = p
<1>1. CASE store.proj = p
  BY <1>1 DEF Fenced, PollTypes, PollRec
<1>2. CASE store.proj # p
  <2>1. Fenced(p, poll) = [q \in Projects |-> [poll[q] EXCEPT !.fresh = FALSE]]
    BY <1>2 DEF Fenced
  <2>2. \A q \in Projects : /\ [poll[q] EXCEPT !.fresh = FALSE] \in PollRec
                            /\ ~[poll[q] EXCEPT !.fresh = FALSE].fresh
    BY DEF PollTypes, PollRec
  <2> QED
    BY <2>1, <2>2
<1> QED
  BY <1>1, <1>2

\* So does asking for the project the store turns to.
LEMMA AskType ==
    ASSUME StoreTypes, PollTypes, NEW p \in Projects
    PROVE  LET polls == Ask(p, EnsureProject(p), Fenced(p, poll))
           IN  /\ polls \in [Projects -> PollRec]
               /\ \A q \in Projects : polls[q].fresh => q = p
<1> DEFINE new == [NoPoll EXCEPT !.st = "sent", !.fresh = TRUE,
                                 !.etag = EnsureProject(p).gen]
<1>1. EnsureProject(p).gen \in Gens /\ 0 \in Gens
  BY EnsureType, BoundsAreNaturals DEF StoreRec, Gens
<1>2. new \in PollRec
  BY <1>1, BlankType DEF NoPoll, PollRec
<1>3. Ask(p, EnsureProject(p), Fenced(p, poll)) = [Fenced(p, poll) EXCEPT ![p] = new]
  BY DEF Ask
<1> HIDE DEF new
<1> QED
  BY <1>2, <1>3, FencedType

\* A poll that is asked, answered, lost or applied keeps the types of the
\* polls; nothing makes an answer for another project welcome again.
LEMMA PollStep ==
    ASSUME TypeOK, PlaceInv, [Next]_vars
    PROVE  /\ poll' \in [Projects -> PollRec]
           /\ \A p \in Projects : poll'[p].fresh => p = store'.proj
<1> DEFINE Good == /\ poll' \in [Projects -> PollRec]
                   /\ \A p \in Projects : poll'[p].fresh => p = store'.proj
<1>0. StoreTypes /\ PollTypes
  BY DEF TypeOK
<1>1. ASSUME UNCHANGED poll, store'.proj = store.proj
      PROVE  Good
  BY <1>0, <1>1 DEF PollTypes, PollRec
<1>2. ASSUME NEW p \in Projects, NEW new \in PollRec, new.fresh => poll[p].fresh,
             poll' = [poll EXCEPT ![p] = new], store'.proj = store.proj
      PROVE  Good
  BY <1>0, <1>2 DEF PollTypes, PollRec
<1>3. ASSUME NEW p \in Projects, PollAnswered(p)
      PROVE  Good
  <2>1. UNCHANGED store
    BY <1>3 DEF PollAnswered
  <2> DEFINE none == [NoPoll EXCEPT !.fresh = poll[p].fresh]
             new == IF ~server[p].alive THEN [none EXCEPT !.st = "not_found"]
                    ELSE IF poll[p].etag = server[p].gen
                    THEN [none EXCEPT !.st = "not_modified"]
                    ELSE [none EXCEPT !.st = "snapshot", !.gen = server[p].gen,
                                      !.doc = server[p].doc]
  <2>2. poll' = [poll EXCEPT ![p] = new]
    BY <1>0, <1>3 DEF PollAnswered, PollTypes
  <2>3. none \in PollRec /\ none.fresh = poll[p].fresh
    BY <1>0, BlankType, BoundsAreNaturals DEF PollTypes, PollRec, NoPoll, Gens
  <2>4. server[p].gen \in Gens /\ server[p].doc \in Docs
    BY DEF TypeOK, ServerTypes
  <2>5. new \in PollRec /\ new.fresh = poll[p].fresh
    <3> HIDE DEF none
    <3> QED
      BY <2>3, <2>4 DEF PollRec
  <2> HIDE DEF new
  <2> QED
    BY <1>2, <2>1, <2>2, <2>5
<1>4. ASSUME NEW p \in Projects, PollFails(p)
      PROVE  Good
  <2> DEFINE new == [NoPoll EXCEPT !.st = "failed", !.fresh = poll[p].fresh]
  <2>0. poll[p].fresh \in BOOLEAN /\ 0 \in Gens
    BY <1>0, BoundsAreNaturals DEF PollTypes, Gens
  <2>1. new \in PollRec /\ new.fresh = poll[p].fresh
    BY <2>0, BlankType DEF PollRec, NoPoll
  <2>2. poll' = [poll EXCEPT ![p] = new] /\ UNCHANGED store
    BY <1>4 DEF PollFails
  <2> HIDE DEF new
  <2> QED
    BY <1>2, <2>1, <2>2
<1>5. ASSUME NEW p \in Projects, PollApplied(p)
      PROVE  Good
  <2>1. NoPoll \in PollRec /\ ~NoPoll.fresh
    BY BlankType, BoundsAreNaturals DEF PollRec, NoPoll, Gens
  <2>2. store'.proj = store.proj
    BY <1>0, <1>5 DEF PollApplied, Takes, SnapshotBase, StoreTypes
  <2> QED
    BY <1>2, <1>5, <2>1, <2>2 DEF PollApplied
<1>6. ASSUME NEW p \in Projects, PollOnce(p)
      PROVE  Good
  BY <1>0, <1>1, <1>6, AskType, EnsureType DEF PollOnce
<1>7. ASSUME NEW p \in Projects, Show(p)
      PROVE  Good
  BY <1>0, <1>7, AskType, FencedType, EnsureType DEF Show
<1>8. ASSUME TimerFires
      PROVE  Good
  <2>1. poller.proj \in Projects /\ PollOnce(poller.proj)
    BY <1>8 DEF TimerFires, PlaceInv
  <2> QED
    BY <1>6, <2>1
<1>9. ASSUME NEW s \in Saves,
             \/ SaveReplied(s) \/ SaveRefused(s) \/ Apply(s)
             \/ \E f \in Fields : PatchDirectly(s, f)
      PROVE  Good
  <2>1. store'.proj = store.proj /\ UNCHANGED poll
    BY <1>0, <1>9 DEF SaveReplied, SaveRefused, Apply, PatchDirectly, Send,
                      StoreTypes
  <2> QED
    BY <1>1, <2>1
<1>10. ASSUME UNCHANGED <<store, poll>>
       PROVE  Good
  BY <1>1, <1>10
<1>11. \/ \E p \in Projects : \/ PollAnswered(p) \/ PollFails(p)
                              \/ PollApplied(p) \/ PollOnce(p) \/ Show(p)
       \/ \E s \in Saves : \/ SaveReplied(s) \/ SaveRefused(s) \/ Apply(s)
                           \/ \E f \in Fields : PatchDirectly(s, f)
       \/ TimerFires
       \/ UNCHANGED <<store, poll>>
  BY DEF Next, vars, AgentWrites, Delete, ExtraPoll, Edit, SaveArrives,
         SaveFails, Leave, Merge, Discard, AcceptConflicts
<1> HIDE DEF Good
<1>12. Good
  BY <1>3, <1>4, <1>5, <1>6, <1>7, <1>8, <1>9, <1>10, <1>11
<1> QED
  BY <1>12 DEF Good

\* A save under way.
SaveRec ==
    [st: {"none", "sent", "saved", "refused"}, draft: BOOLEAN,
     proj: Projects \cup {NoProject}, here: BOOLEAN, before: Docs,
     after: Docs, gen: Gens, doc: Docs, known: Docs, late: BOOLEAN]

\* A save that is done, or refused, is one.
LEMMA NoSaveType ==
    /\ NoSave \in SaveRec
    /\ \A s \in Saves : SaveTypes => Refused(s) \in SaveRec
<1>1. 0 \in Gens
  BY BoundsAreNaturals DEF Gens
<1>2. NoSave \in SaveRec
  BY <1>1, BlankType DEF NoSave, SaveRec
<1>3. ASSUME SaveTypes, NEW s \in Saves
      PROVE  Refused(s) \in SaveRec
  <2>1. save[s].proj \in Projects \cup {NoProject} /\ save[s].draft \in BOOLEAN
    BY <1>3 DEF SaveTypes
  <2>2. NoSave \in SaveRec
    BY <1>2
  <2> QED
    BY <2>1, <2>2 DEF Refused, SaveRec
<1> QED
  BY <1>2, <1>3

\* What is shown is a document of a project.
LEMMA ActiveType ==
    ASSUME StoreTypes, DraftTypes
    PROVE  /\ Scope \in Projects \cup {NoProject} /\ Authority \in Docs
           /\ Active \in [scope: Projects \cup {NoProject}, base: Docs,
                          draft: Docs, conf: SUBSET Fields]
<1>1. Scope \in Projects \cup {NoProject} /\ Authority \in Docs
  BY BlankType DEF StoreTypes, Scope, Authority
<1>2. Fresh(Scope, Authority) \in [scope: Projects \cup {NoProject}, base: Docs,
                                   draft: Docs, conf: SUBSET Fields]
  BY <1>1 DEF Fresh
<1> QED
  BY <1>1, <1>2 DEF Active, DraftTypes

\* A save that is sent is one of a project, with documents before and after.
LEMMA SendType ==
    ASSUME StoreTypes, DraftTypes, SaveTypes, PlaceInv, Shown, NEW s \in Saves,
           NEW draft \in BOOLEAN, NEW before \in Docs, NEW after \in Docs,
           Send(s, draft, before, after)
    PROVE  /\ save'[s] \in SaveRec /\ save'[s].proj \in Projects
           /\ \A t \in Saves \ {s} : save'[t] = save[t]
           /\ save' = [t \in Saves |-> save'[t]]
<1> DEFINE known == IF draft THEN seen ELSE Blank
           new == [NoSave EXCEPT !.st = "sent", !.draft = draft, !.proj = page,
                                 !.here = TRUE, !.before = before,
                                 !.after = after, !.known = known]
<1>1. known \in Docs
  BY BlankType DEF DraftTypes
<1>2. page \in Projects
  BY DEF Shown, PlaceInv
<1>3. save' = [save EXCEPT ![s] = new]
  BY DEF Send
<1> HIDE DEF known
<1>4. new \in SaveRec /\ new.proj = page
  BY <1>1, <1>2, NoSaveType DEF SaveRec
<1> HIDE DEF new
<1> QED
  BY <1>2, <1>3, <1>4 DEF SaveTypes

\* Every step keeps the saves' types, and a save keeps to its project.
LEMMA SaveStep ==
    ASSUME TypeOK, PlaceInv, GenInv, [Next]_vars
    PROVE  /\ SaveTypes'
           /\ \A s \in Saves :
                 save'[s].st \in {"sent", "saved"} => save'[s].proj \in Projects
<1> DEFINE Good == /\ save' \in [Saves -> SaveRec]
                   /\ \A s \in Saves : save'[s].st \in {"sent", "saved"}
                                         => save'[s].proj \in Projects
<1>0. SaveTypes /\ save \in [Saves -> SaveRec]
  BY DEF TypeOK, SaveTypes, SaveRec
<1>1. ASSUME UNCHANGED save
      PROVE  Good
  BY <1>0, <1>1 DEF PlaceInv
<1>2. ASSUME NEW s \in Saves, NEW new \in SaveRec,
             new.st \in {"sent", "saved"} => new.proj \in Projects,
             save' = [save EXCEPT ![s] = new]
      PROVE  Good
  BY <1>0, <1>2 DEF PlaceInv
<1>3. ASSUME NEW s \in Saves,
             SaveReplied(s) \/ SaveRefused(s) \/ SaveFails(s)
      PROVE  Good
  <2>1. save' = [save EXCEPT ![s] = NoSave] \/ save' = [save EXCEPT ![s] = Refused(s)]
    BY <1>3 DEF SaveReplied, SaveRefused, SaveFails
  <2>2. NoSave.st = "none" /\ Refused(s).st = "refused"
    BY DEF NoSave, Refused
  <2> QED
    BY <1>0, <1>2, <2>1, <2>2, NoSaveType
<1>4. ASSUME NEW s \in Saves, SaveArrives(s)
      PROVE  Good
  <2> DEFINE p == save[s].proj
             g == server[p].gen + 1
             d == Patched(s, server[p].doc)
  <2>1. CASE save' = [save EXCEPT ![s] = Refused(s)]
    <3>1. Refused(s).st = "refused"
      BY DEF NoSave, Refused
    <3> QED
      BY <1>0, <1>2, <2>1, <3>1, NoSaveType
  <2>2. CASE save' = [save EXCEPT ![s].st = "saved", ![s].gen = g, ![s].doc = d]
    <3>1. p \in Projects
      BY <1>4 DEF SaveArrives, PlaceInv
    <3>2. g \in Gens
      BY <1>4, <3>1, GenBound DEF SaveArrives, Pending, TypeOK
    <3>3. d \in Docs
      BY <1>0, <3>1 DEF TypeOK, ServerTypes, SaveTypes, Patched, Docs
    <3> HIDE DEF g, d
    <3>4. save'[s] \in SaveRec /\ save'[s].proj = p
      <4>1. /\ save[s] \in SaveRec
            /\ save'[s] = [save[s] EXCEPT !.st = "saved", !.gen = g, !.doc = d]
        BY <1>0, <2>2
      <4> QED
        BY <3>2, <3>3, <4>1 DEF SaveRec
    <3>5. \A t \in Saves \ {s} : save'[t] = save[t]
      BY <1>0, <2>2
    <3>6. save' = [t \in Saves |-> save'[t]]
      BY <1>0, <2>2
    <3> QED
      BY <1>0, <3>1, <3>4, <3>5, <3>6 DEF PlaceInv
  <2> QED
    BY <1>4, <2>1, <2>2 DEF SaveArrives
<1>5. ASSUME NEW s \in Saves, Apply(s) \/ \E f \in Fields : PatchDirectly(s, f)
      PROVE  Good
  <2>1. StoreTypes /\ DraftTypes /\ store.doc \in Docs
    BY DEF TypeOK, StoreTypes
  <2>2. Shown
    BY <1>5 DEF Apply, PatchDirectly
  <2>3. PICK draft \in BOOLEAN, before \in Docs, after \in Docs :
            Send(s, draft, before, after)
    <3>1. CASE Apply(s)
      BY <2>1, <3>1, ActiveType DEF Apply
    <3>2. ASSUME NEW f \in Fields, PatchDirectly(s, f)
          PROVE  \E before, after \in Docs : Send(s, FALSE, before, after)
      <4>1. {"saves", "values"} \in SUBSET Kinds
        BY DEF Kinds
      <4>2. NewValue \in 1..MaxValues
        BY <3>2, <4>1, NewValueType DEF PatchDirectly, TypeOK
      <4>3. [store.doc EXCEPT ![f] = NewValue] \in Docs
        BY <2>1, <4>2, BoundsAreNaturals DEF Docs
      <4> QED
        BY <2>1, <3>2, <4>3 DEF PatchDirectly
    <3> QED
      BY <1>5, <3>1, <3>2
  <2>4. /\ save'[s] \in SaveRec /\ save'[s].proj \in Projects
        /\ \A t \in Saves \ {s} : save'[t] = save[t]
        /\ save' = [t \in Saves |-> save'[t]]
    BY <1>0, <2>1, <2>2, <2>3, SendType
  <2> QED
    BY <1>0, <2>4 DEF PlaceInv
<1>6. ASSUME Leave \/ \E p \in Projects : Show(p)
      PROVE  Good
  <2>1. save' = [s \in Saves |-> [save[s] EXCEPT !.here = FALSE]]
    BY <1>6 DEF Leave, Show
  <2>2. ASSUME NEW s \in Saves
        PROVE  /\ [save[s] EXCEPT !.here = FALSE] \in SaveRec
               /\ [save[s] EXCEPT !.here = FALSE].st = save[s].st
               /\ [save[s] EXCEPT !.here = FALSE].proj = save[s].proj
    BY <1>0 DEF SaveRec
  <2> QED
    BY <2>1, <2>2 DEF PlaceInv
<1>7. ASSUME NEW f \in Fields, Edit(f)
      PROVE  Good
  <2>1. ASSUME NEW s \in Saves
        PROVE  /\ save'[s] \in SaveRec
               /\ save'[s].st = save[s].st /\ save'[s].proj = save[s].proj
    <3>1. save[s] \in SaveRec /\ save[s].draft \in BOOLEAN
      BY <1>0 DEF SaveRec
    <3>2. [save[s] EXCEPT !.late = save[s].draft] \in SaveRec
      BY <3>1 DEF SaveRec
    <3> QED
      BY <1>0, <1>7, <3>2, EditSaves
  <2>2. save' = [s \in Saves |-> save'[s]]
    BY <1>7 DEF Edit
  <2> QED
    BY <2>1, <2>2 DEF PlaceInv
<1>8. \/ UNCHANGED save
      \/ Leave \/ \E p \in Projects : Show(p)
      \/ \E f \in Fields : Edit(f)
      \/ \E s \in Saves : \/ SaveReplied(s) \/ SaveRefused(s) \/ SaveFails(s)
                          \/ SaveArrives(s) \/ Apply(s)
                          \/ \E f \in Fields : PatchDirectly(s, f)
  BY DEF Next, vars, AgentWrites, Delete, PollAnswered, PollFails,
         PollApplied, ExtraPoll, TimerFires, Merge, Discard,
         AcceptConflicts
<1> HIDE DEF Good
<1>9. Good
  BY <1>1, <1>3, <1>4, <1>5, <1>6, <1>7, <1>8
<1> QED
  BY <1>9 DEF Good, SaveTypes, SaveRec

\* The state of a draft session.
DraftRec ==
    [scope: Projects \cup {NoProject}, base: Docs, draft: Docs,
     conf: SUBSET Fields]

\* A fresh session is one.
LEMMA FreshType ==
    ASSUME NEW scope \in Projects \cup {NoProject}, NEW doc \in Docs
    PROVE  Fresh(scope, doc) \in DraftRec
BY DEF Fresh, DraftRec

\* A merge gives a session of the same element over the new document.
LEMMA MergeType ==
    ASSUME DraftTypes, NEW doc \in Docs
    PROVE  MergeAuthority(doc) \in DraftRec
<1> DEFINE local == Changed(session.base, session.draft)
           remote == Changed(session.base, doc)
           over == [f \in Fields |-> IF f \in local THEN session.draft[f] ELSE doc[f]]
<1>1. session \in DraftRec
  BY DEF DraftTypes, DraftRec
<1>2. session.scope \in Projects \cup {NoProject} /\ session.draft \in Docs
  BY <1>1 DEF DraftRec
<1>3. over \in Docs
  BY <1>2 DEF Docs
<1>4. local \cap remote \subseteq Fields
  BY DEF Changed
<1> HIDE DEF local, remote, over
<1>5. [session EXCEPT !.base = doc, !.draft = over, !.conf = @ \cup (local \cap remote)]
        \in DraftRec
  BY <1>1, <1>3, <1>4 DEF DraftRec
<1>6. Fresh(session.scope, doc) \in DraftRec
  BY <1>2, FreshType
<1> QED
  BY <1>1, <1>5, <1>6 DEF MergeAuthority, local, remote, over

LEMMA MergedType ==
    ASSUME DraftTypes, NEW scope \in Projects \cup {NoProject}, NEW doc \in Docs
    PROVE  Merged(scope, doc) \in DraftRec
BY MergeType, FreshType DEF Merged

\* The reply is of the newest document the store knows of.
Newer(s) == /\ store.proj = save[s].proj
            /\ ~store.loaded \/ store.gen <= save[s].gen

\* What the effect makes of the draft before it is marked as applied.
ReplyMerge(s) == IF Newer(s) THEN Merged(page, save[s].doc)
                 ELSE IF news THEN Merged(Scope, Authority)
                 ELSE session

\* What the reply to a save does to the draft.
LEMMA ReplyDraft ==
    ASSUME StoreTypes, DraftTypes, SaveTypes, NEW s \in Saves, SaveReplied(s)
    PROVE  /\ ReplyMerge(s) \in DraftRec
           /\ save[s].draft /\ save[s].here =>
                 /\ session' = Fresh(ReplyMerge(s).scope, ReplyMerge(s).draft)
                 /\ news' = FALSE
                 /\ skewed' = (save[s].late \/ ~Newer(s))
           /\ ~(save[s].draft /\ save[s].here) =>
                 /\ news' = (news \/ Newer(s))
                 /\ UNCHANGED <<session, skewed>>
           /\ save[s].draft \in BOOLEAN /\ save[s].here \in BOOLEAN
           /\ save[s].late \in BOOLEAN /\ save[s].doc \in Docs
<1>1. /\ save[s].draft \in BOOLEAN /\ save[s].here \in BOOLEAN
      /\ save[s].late \in BOOLEAN /\ save[s].doc \in Docs
  BY DEF SaveTypes
<1>2. /\ Scope \in Projects \cup {NoProject} /\ Authority \in Docs
      /\ page \in Projects \cup {NoProject} /\ session \in DraftRec
  BY ActiveType DEF StoreTypes, DraftTypes, DraftRec
<1>3. ReplyMerge(s) \in DraftRec
  BY <1>1, <1>2, MergedType DEF ReplyMerge
<1>4. CASE save[s].draft /\ save[s].here
  <2>1. /\ session' = Fresh(ReplyMerge(s).scope, ReplyMerge(s).draft)
        /\ news' = FALSE
        /\ skewed' = (save[s].late \/ ~Newer(s))
    BY <1>4, Zenon DEF SaveReplied, Newer, ReplyMerge
  <2> QED
    BY <1>1, <1>3, <1>4, <2>1
<1>5. CASE ~(save[s].draft /\ save[s].here)
  <2>1. /\ news' = (news \/ Newer(s))
        /\ UNCHANGED <<session, skewed>>
    BY <1>5, Zenon DEF SaveReplied, Newer
  <2> QED
    BY <1>1, <1>3, <1>5, <2>1
<1> QED
  BY <1>4, <1>5

\* The draft, and what the histories say of it, keep their types.
LEMMA DraftStep ==
    ASSUME TypeOK, [Next]_vars
    PROVE  DraftTypes'
<1> DEFINE Others == news' \in BOOLEAN /\ typed' \in Docs /\ seen' \in Docs /\ skewed' \in BOOLEAN
<1>0. /\ StoreTypes /\ DraftTypes /\ session \in DraftRec
      /\ news \in BOOLEAN /\ typed \in Docs /\ seen \in Docs /\ skewed \in BOOLEAN
      /\ session.scope \in Projects \cup {NoProject}
      /\ session.base \in Docs /\ session.draft \in Docs
  BY DEF TypeOK, DraftTypes, DraftRec
<1>1. ASSUME session' \in DraftRec, Others
      PROVE  DraftTypes'
  BY <1>1 DEF DraftTypes, DraftRec
<1>2. Fresh(NoProject, Blank) \in DraftRec
  BY BlankType, FreshType
<1>3. ASSUME NEW p \in Projects, PollOnce(p) /\ UNCHANGED <<session, seen, skewed>>
      PROVE  DraftTypes'
  BY <1>0, <1>1, <1>3, BlankType DEF PollOnce
<1>4. CASE TimerFires
  BY <1>0, <1>1, <1>4, BlankType DEF TimerFires, PollOnce
<1>5. ASSUME NEW p \in Projects, PollApplied(p)
      PROVE  DraftTypes'
  BY <1>0, <1>1, <1>5, BlankType DEF PollApplied
<1>6. CASE Leave \/ \E p \in Projects : Show(p)
  BY <1>1, <1>2, <1>6, BlankType DEF Leave, Show
<1>7. CASE Merge
  <2>1. Scope \in Projects \cup {NoProject} /\ Authority \in Docs
    BY <1>0, ActiveType
  <2>2. session' \in DraftRec
    BY <1>7, <1>0, <2>1, MergedType DEF Merge
  <2> QED
    BY <1>0, <1>1, <1>7, <2>2 DEF Merge
<1>8. ASSUME NEW f \in Fields, Edit(f)
      PROVE  DraftTypes'
  <2>1. {"values"} \in SUBSET Kinds
    BY DEF Kinds
  <2>2. NewValue \in 0..MaxValues /\ 0 \in 0..MaxValues
    BY <1>8, <2>1, NewValueType, BoundsAreNaturals DEF Edit, TypeOK
  <2>3. Active \in DraftRec /\ Active.base \in Docs /\ Active.draft \in Docs
    BY <1>0, ActiveType DEF DraftRec
  <2>4. [Active.draft EXCEPT ![f] = NewValue] \in Docs
    BY <2>2, <2>3 DEF Docs
  <2>5. session' = [Active EXCEPT !.draft = [Active.draft EXCEPT ![f] = NewValue]]
    BY <1>8 DEF Edit
  <2>6. session' \in DraftRec
    BY <2>3, <2>4, <2>5 DEF DraftRec
  <2>7. seen' \in Docs
    BY <1>0, <1>8, <2>2, <2>3 DEF Edit, Docs
  <2>8. typed' \in Docs
    BY <1>0, <1>8, <2>2 DEF Edit, Docs
  <2> QED
    BY <1>0, <1>1, <1>8, <2>6, <2>7, <2>8 DEF Edit
<1>9. CASE Discard
  BY <1>0, <1>1, <1>9, FreshType, BlankType DEF Discard
<1>10. CASE AcceptConflicts
  <2>1. session' \in DraftRec
    BY <1>0, <1>10 DEF AcceptConflicts, DraftRec
  <2>2. seen' \in Docs
    BY <1>0, <1>10 DEF AcceptConflicts, Docs
  <2> QED
    BY <1>0, <1>1, <1>10, <2>1, <2>2 DEF AcceptConflicts
<1>11. ASSUME NEW s \in Saves, SaveReplied(s)
       PROVE  DraftTypes'
  <2>0. SaveTypes
    BY DEF TypeOK
  <2>1. session' \in DraftRec
    <3>1. ReplyMerge(s) \in DraftRec
      BY <1>0, <1>11, <2>0, ReplyDraft
    <3>2. Fresh(ReplyMerge(s).scope, ReplyMerge(s).draft) \in DraftRec
      BY <3>1, FreshType DEF DraftRec
    <3> QED
      BY <1>0, <1>11, <2>0, <3>2, ReplyDraft
  <2>2. news' \in BOOLEAN
    BY <1>0, <1>11, <2>0, ReplyDraft
  <2>3. skewed' \in BOOLEAN
    BY <1>0, <1>11, <2>0, ReplyDraft
  <2> QED
    BY <1>0, <1>1, <1>11, <2>1, <2>2, <2>3 DEF SaveReplied
<1>12. ASSUME NEW s \in Saves, SaveArrives(s)
       PROVE  DraftTypes'
  <2>1. typed' \in Docs
    BY <1>0, <1>12, BoundsAreNaturals DEF SaveArrives, Docs
  <2> QED
    BY <1>0, <1>1, <1>12, <2>1 DEF SaveArrives
<1>13. CASE UNCHANGED <<session, news, typed, seen, skewed>>
  BY <1>0, <1>1, <1>13
<1> QED
  BY <1>3, <1>4, <1>5, <1>6, <1>7, <1>8, <1>9, <1>10, <1>11, <1>12, <1>13
     DEF Next, vars, histories, AgentWrites, Delete, PollAnswered, PollFails,
         ExtraPoll, SaveFails, Apply, PatchDirectly, SaveRefused

\* The poll controller and the page keep their types and go together.
LEMMA PollerStep ==
    ASSUME TypeOK, PlaceInv, [Next]_vars
    PROVE  /\ page' \in Projects \cup {NoProject}
           /\ poller' \in [proj: Projects \cup {NoProject}, ph: {"off", "run", "timer"}]
           /\ poller'.proj \in {NoProject, page'}
           /\ poller'.ph # "off" => poller'.proj \in Projects
<1>0. /\ page \in Projects \cup {NoProject}
      /\ poller \in [proj: Projects \cup {NoProject}, ph: {"off", "run", "timer"}]
      /\ poller.proj \in {NoProject, page}
      /\ poller.ph # "off" => poller.proj \in Projects
  BY DEF TypeOK, StoreTypes, PollTypes, PlaceInv
<1>1. \/ UNCHANGED <<page, poller>>
      \/ page' = NoProject /\ poller' = Idle
      \/ \E p \in Projects : page' = p /\ poller' = [proj |-> p, ph |-> "run"]
      \/ UNCHANGED page /\ poller' = Idle
      \/ \E p \in Projects : /\ UNCHANGED page /\ poller.proj = p
                             /\ poller' = [poller EXCEPT !.ph = "timer"]
      \/ /\ UNCHANGED page /\ poller.ph = "timer"
         /\ poller' = [poller EXCEPT !.ph = "run"]
  BY DEF Next, vars, AgentWrites, Delete, PollAnswered, PollFails,
         PollApplied, ExtraPoll, Show, Edit, SaveArrives, SaveFails, Apply,
         PatchDirectly, SaveReplied, SaveRefused, TimerFires, Leave, Merge,
         Discard, AcceptConflicts
<1> QED
  BY <1>0, <1>1 DEF Idle

\* TypeOK with what it needs: projects where one is expected, and generations
\* within their bound.
TypeInv == TypeOK /\ PlaceInv /\ GenInv

\* Types are kept by every step.
LEMMA TypeStep == TypeInv /\ [Next]_vars => TypeInv'
<1> SUFFICES ASSUME TypeInv, [Next]_vars
             PROVE  TypeInv'
  OBVIOUS
<1> USE DEF TypeInv
<1>1. StoreMoves
  BY StoreMove
<1>2. store' \in StoreRec /\ (store'.loaded => store'.proj \in Projects)
  BY <1>1, StoreMovesType
<1>3. StoreTypes'
  BY <1>2, PollerStep DEF StoreTypes, StoreRec
<1>4. PollTypes'
  BY PollStep, PollerStep DEF PollTypes, PollRec
<1>5. UseBounds' /\ GenInv'
  BY AnyUse, GenStep DEF TypeOK
<1>6. TypeOK'
  BY <1>3, <1>4, <1>5, ServerStep, DraftStep, SaveStep DEF TypeOK
<1>7. PlaceInv'
  BY <1>2, PollerStep, SaveStep DEF PlaceInv
<1> QED
  BY <1>5, <1>6, <1>7

\* Every variable keeps its type in every behaviour of the page.
LEMMA TypeInvCorrect == Spec => []TypeInv
<1>1. Init => TypeInv
  <2> SUFFICES ASSUME Init
               PROVE  TypeInv
    OBVIOUS
  <2>1. 0 \in Gens /\ 1 \in Gens
    BY BoundsAreNaturals DEF Gens
  <2>2. ServerTypes
    BY <2>1, BlankType DEF Init, ServerTypes
  <2>3. StoreTypes
    BY <2>1, BlankType DEF Init, StoreTypes, SnapshotBase
  <2>4. PollTypes
    BY <2>1, BlankType DEF Init, PollTypes, NoPoll, Idle
  <2>5. DraftTypes
    BY BlankType DEF Init, DraftTypes, Fresh
  <2>6. SaveTypes
    BY NoSaveType, Zenon DEF Init, SaveTypes, SaveRec
  <2>7. UseBounds
    BY BoundsAreNaturals DEF Init, UseBounds, Kinds, Limits
  <2>8. PlaceInv
    BY DEF Init, PlaceInv, SnapshotBase, Idle, NoSave
  <2>9. GenInv
    <3>1. Pending = {}
      BY DEF Init, Pending, NoSave
    <3>2. \A p \in Projects : server[p].gen = 1
      BY DEF Init
    <3> QED
      BY <3>1, <3>2, FS_EmptySet DEF Init, GenInv
  <2> QED
    BY <2>2, <2>3, <2>4, <2>5, <2>6, <2>7, <2>8, <2>9 DEF TypeInv, TypeOK
<1> QED
  BY <1>1, TypeStep, PTL DEF Spec

\* Every variable keeps its type in every behaviour of the page.
THEOREM TypeCorrect == Spec => []TypeOK
<1>1. TypeInv => TypeOK
  BY DEF TypeInv
<1> QED
  BY <1>1, TypeInvCorrect, PTL

(***************************************************************************)
(* The store.                                                              *)
(***************************************************************************)

\* The page renders a snapshot of its own project only, however late the
\* answers for other projects come (projectSnapshotStore.ts, the epochs).
THEOREM SnapshotStaysOwn == Spec => []OwnSnapshot
<1>1. Init => OwnSnapshot
  BY DEF Init, OwnSnapshot, SnapshotBase
<1>2. TypeInv /\ OwnSnapshot /\ [Next]_vars => OwnSnapshot'
  BY StoreMove, StoreMovesType DEF TypeInv
<1> QED
  BY <1>1, <1>2, TypeInvCorrect, PTL DEF Spec

\* A snapshot that replaces a loaded one of the same project is not older.
LEMMA MovesForward ==
    ASSUME TypeOK, StoreMoves, store.loaded, store'.loaded, store'.proj = store.proj
    PROVE  store'.gen >= store.gen
<1>0. /\ store \in StoreRec /\ store.gen \in Nat
      /\ \A p \in Projects : poll[p].gen \in Nat
      /\ \A s \in Saves : save[s].gen \in Nat
  BY BoundsAreNaturals
     DEF TypeOK, StoreTypes, StoreRec, PollTypes, SaveTypes, Gens
<1>1. CASE \E p \in Projects : store' = EnsureProject(p) \/ store' = SnapshotBase(p)
  BY <1>0, <1>1, EnsureType DEF TypeOK
<1>2. CASE \E on \in BOOLEAN : store' = [store EXCEPT !.patching = on]
  BY <1>0, <1>2 DEF StoreRec
<1>3. ASSUME NEW p \in Projects, NotOlder(p),
             store' = [store EXCEPT !.loaded = TRUE, !.of = p,
                                    !.gen = poll[p].gen, !.doc = poll[p].doc]
      PROVE  store'.gen >= store.gen
  BY <1>0, <1>3 DEF NotOlder, StoreRec
<1>4. ASSUME NEW s \in Saves, ~store.loaded \/ store.gen <= save[s].gen,
             store' = [store EXCEPT !.loaded = TRUE, !.of = save[s].proj,
                                    !.gen = save[s].gen, !.doc = save[s].doc,
                                    !.patching = FALSE]
      PROVE  store'.gen >= store.gen
  BY <1>0, <1>4 DEF StoreRec
<1>5. CASE UNCHANGED store
  BY <1>0, <1>5
<1>6. ASSUME NEW p \in Projects,
             /\ poll[p].st = "snapshot" /\ Takes(p) /\ NotOlder(p)
             /\ store' = [store EXCEPT !.loaded = TRUE, !.of = p,
                                       !.gen = poll[p].gen, !.doc = poll[p].doc]
      PROVE  store'.gen >= store.gen
  BY <1>3, <1>6
<1> QED
  BY <1>1, <1>2, <1>4, <1>5, <1>6 DEF StoreMoves

\* While the store keeps to a project it never goes back to an older document:
\* neither a late answer nor a late confirmation of a save gets through.
THEOREM AuthorityNeverRollsBack == Spec => NeverRollsBack
<1>1. TypeInv /\ [Next]_vars =>
        [(store.loaded /\ store'.loaded /\ store'.proj = store.proj)
            => store'.gen >= store.gen]_vars
  BY StoreMove, MovesForward DEF TypeInv
<1> QED
  BY <1>1, TypeInvCorrect, PTL DEF Spec, NeverRollsBack

(***************************************************************************)
(* Saves replace what the user knows.                                      *)
(***************************************************************************)

\* The user knows what an unflagged change replaces.
DraftKnown ==
    \A f \in Changed(session.base, session.draft) \ session.conf :
        seen[f] = session.base[f]

\* A save of the draft that is under way replaces what its user knew.
SavesKnown ==
    \A s \in Saves :
        (save[s].st = "sent" /\ save[s].draft) =>
            \A f \in Changed(save[s].before, save[s].after) :
                save[s].known[f] = save[s].before[f]

\* NoBlindOverwrite is about the save alone; it needs the draft it was sent
\* from.
KnownInv == DraftKnown /\ SavesKnown

\* What the user knows of the draft on the page; a fresh one has no changes.
ActiveKnown ==
    \A f \in Changed(Active.base, Active.draft) \ Active.conf :
        seen[f] = Active.base[f]

\* The active session is the session, or a fresh one.
LEMMA ActiveIsKnown ==
    ASSUME KnownInv
    PROVE  ActiveKnown
BY DEF KnownInv, DraftKnown, ActiveKnown, Active, Fresh, Changed

\* A session without changes has nothing to know.
LEMMA FreshIsKnown ==
    ASSUME NEW scope, NEW doc
    PROVE  Changed(Fresh(scope, doc).base, Fresh(scope, doc).draft) = {}
BY DEF Fresh, Changed

\* Every step keeps the draft's part: a merge flags the fields whose known
\* value is not there any more.
LEMMA DraftKnownStep ==
    ASSUME TypeOK, KnownInv, [Next]_vars
    PROVE  DraftKnown'
<1>0. /\ session \in DraftRec /\ seen \in Docs /\ Active \in DraftRec
      /\ Scope \in Projects \cup {NoProject} /\ Authority \in Docs
  BY ActiveType DEF TypeOK, DraftTypes, DraftRec
<1>1. CASE UNCHANGED <<session, seen>>
  BY <1>1 DEF KnownInv, DraftKnown
<1>2. ASSUME NEW scope, NEW doc, session' = Fresh(scope, doc)
      PROVE  DraftKnown'
  BY <1>2, FreshIsKnown DEF DraftKnown
<1>3. ASSUME Merge, session' = MergeAuthority(Authority)
      PROVE  DraftKnown'
  <2> DEFINE doc == Authority
             local == Changed(session.base, session.draft)
             remote == Changed(session.base, doc)
             over == [f \in Fields |-> IF f \in local THEN session.draft[f] ELSE doc[f]]
  <2>1. CASE remote = {}
    BY <1>1, <1>3, <2>1 DEF Merge, MergeAuthority
  <2>2. CASE remote # {} /\ local = {}
    BY <1>2, <1>3, <2>2 DEF MergeAuthority
  <2>3. CASE remote # {} /\ local # {}
    <3>1. session' = [session EXCEPT !.base = doc, !.draft = over,
                                     !.conf = @ \cup (local \cap remote)]
      BY <1>3, <2>3 DEF MergeAuthority
    <3>2. /\ session'.base = doc /\ session'.draft = over
          /\ session'.conf = session.conf \cup (local \cap remote)
      <4> HIDE DEF doc, local, remote, over
      <4> QED
        BY <1>0, <3>1 DEF DraftRec
    <3>3. UNCHANGED seen
      BY <1>3 DEF Merge
    <3>4. ASSUME NEW f \in Fields, session'.base[f] # session'.draft[f],
                 f \notin session'.conf
          PROVE  seen[f] = session'.base[f]
      <4>1. f \in local
        BY <3>2, <3>4
      <4>2. f \notin session.conf /\ session.base[f] = doc[f]
        BY <3>2, <3>4, <4>1 DEF Changed
      <4> QED
        BY <3>2, <4>1, <4>2 DEF KnownInv, DraftKnown
    <3> QED
      BY <3>3, <3>4 DEF DraftKnown, Changed
  <2> QED
    BY <2>1, <2>2, <2>3
<1>4. CASE Merge
  BY <1>2, <1>3, <1>4 DEF Merge, Merged
<1>5. ASSUME NEW f \in Fields, Edit(f)
      PROVE  DraftKnown'
  <2>1. session' = [Active EXCEPT !.draft = [Active.draft EXCEPT ![f] = NewValue]]
    BY <1>5 DEF Edit
  <2>2. /\ session'.base = Active.base /\ session'.conf = Active.conf
        /\ \A g \in Fields \ {f} : session'.draft[g] = Active.draft[g]
    BY <1>0, <2>1 DEF DraftRec, Docs
  <2>3. \A g \in Fields :
           seen'[g] = IF Active.draft[g] # Active.base[g] THEN seen[g]
                      ELSE IF g = f THEN Active.base[f] ELSE 0
    BY <1>5 DEF Edit
  <2>4. ActiveKnown
    BY ActiveIsKnown
  <2>5. ASSUME NEW g \in Fields, session'.base[g] # session'.draft[g],
               g \notin session'.conf
        PROVE  seen'[g] = session'.base[g]
    BY <2>2, <2>3, <2>4, <2>5 DEF ActiveKnown, Changed
  <2> QED
    BY <2>5 DEF DraftKnown, Changed
<1>6. CASE Discard
  BY <1>2, <1>6 DEF Discard
<1>7. CASE AcceptConflicts
  <2>1. /\ session'.base = session.base /\ session'.draft = session.draft
        /\ \A f \in Fields : seen'[f] = IF f \in session.conf THEN session.base[f]
                                        ELSE seen[f]
    BY <1>0, <1>7 DEF AcceptConflicts, DraftRec
  <2> QED
    BY <2>1 DEF KnownInv, DraftKnown, Changed
<1>8. CASE Leave \/ \E p \in Projects : Show(p)
  BY <1>2, <1>8 DEF Leave, Show
<1>9. ASSUME NEW s \in Saves, SaveReplied(s)
      PROVE  DraftKnown'
  <2>1. UNCHANGED seen
    BY <1>9 DEF SaveReplied
  <2>2. \/ session' = session
        \/ session' = Fresh(ReplyMerge(s).scope, ReplyMerge(s).draft)
    BY <1>9, ReplyDraft DEF TypeOK
  <2> QED
    BY <1>1, <1>2, <2>1, <2>2
<1> QED
  BY <1>1, <1>4, <1>5, <1>6, <1>7, <1>8, <1>9
     DEF Next, vars, histories, AgentWrites, Delete, PollAnswered, PollFails,
         PollApplied, ExtraPoll, TimerFires, SaveArrives, SaveFails, Apply,
         PatchDirectly, SaveRefused

\* Every step keeps the saves' part: a save is only sent from a draft without
\* flagged fields.
LEMMA SavesKnownStep ==
    ASSUME TypeOK, KnownInv, [Next]_vars
    PROVE  SavesKnown'
<1>0. save \in [Saves -> SaveRec] /\ SavesKnown
  BY DEF TypeOK, SaveTypes, SaveRec, KnownInv, SavesKnown
<1>1. ASSUME NEW s \in Saves, save'[s].st # "sent" \/ ~save'[s].draft,
             \A t \in Saves \ {s} : save'[t] = save[t]
      PROVE  SavesKnown'
  BY <1>0, <1>1 DEF SavesKnown
<1>2. ASSUME NEW s \in Saves, SaveArrives(s)
      PROVE  SavesKnown'
  <2>1. save'[s].st # "sent" /\ \A t \in Saves \ {s} : save'[t] = save[t]
    <3>1. CASE save' = [save EXCEPT ![s] = Refused(s)]
      BY <1>0, <3>1 DEF Refused, NoSave
    <3>2. ASSUME NEW g, NEW d, save' = [save EXCEPT ![s].st = "saved",
                                                   ![s].gen = g, ![s].doc = d]
          PROVE  save'[s].st # "sent" /\ \A t \in Saves \ {s} : save'[t] = save[t]
      BY <1>0, <3>2 DEF SaveRec
    <3> QED
      BY <1>2, <3>1, <3>2 DEF SaveArrives
  <2> QED
    BY <1>1, <2>1
<1>3. ASSUME NEW s \in Saves, SaveFails(s) \/ SaveReplied(s) \/ SaveRefused(s)
      PROVE  SavesKnown'
  <2>1. save' = [save EXCEPT ![s] = NoSave] \/ save' = [save EXCEPT ![s] = Refused(s)]
    BY <1>3 DEF SaveFails, SaveReplied, SaveRefused
  <2>2. NoSave.st = "none" /\ Refused(s).st = "refused"
    BY DEF NoSave, Refused
  <2>3. save'[s].st # "sent" /\ \A t \in Saves \ {s} : save'[t] = save[t]
    BY <1>0, <2>1, <2>2
  <2> QED
    BY <1>1, <2>3
<1>4. ASSUME NEW s \in Saves, NEW before, NEW after,
             Send(s, TRUE, before, after)
      PROVE  /\ save'[s].before = before /\ save'[s].after = after
             /\ save'[s].known = seen
             /\ \A t \in Saves \ {s} : save'[t] = save[t]
  BY <1>0, <1>4 DEF Send, NoSave
<1>5. ASSUME NEW s \in Saves, Apply(s)
      PROVE  SavesKnown'
  <2>1. /\ save'[s].before = Active.base /\ save'[s].after = Active.draft
        /\ save'[s].known = seen
        /\ \A t \in Saves \ {s} : save'[t] = save[t]
    BY <1>4, <1>5 DEF Apply
  <2>2. Active.conf = {} /\ ActiveKnown
    BY <1>5, ActiveIsKnown DEF Apply
  <2>3. \A f \in Changed(save'[s].before, save'[s].after) :
            save'[s].known[f] = save'[s].before[f]
    BY <2>1, <2>2 DEF ActiveKnown
  <2> QED
    BY <1>0, <2>1, <2>3 DEF SavesKnown
<1>6. ASSUME NEW s \in Saves, NEW f \in Fields, PatchDirectly(s, f)
      PROVE  SavesKnown'
  <2>1. PICK before, after : Send(s, FALSE, before, after)
    BY <1>6 DEF PatchDirectly
  <2>2. ~save'[s].draft /\ \A t \in Saves \ {s} : save'[t] = save[t]
    BY <1>0, <2>1 DEF Send, NoSave
  <2> QED
    BY <1>1, <2>2
<1>7. CASE Leave \/ \E p \in Projects : Show(p)
  <2>1. save' = [s \in Saves |-> [save[s] EXCEPT !.here = FALSE]]
    BY <1>7 DEF Leave, Show
  <2>2. \A s \in Saves : /\ save'[s].st = save[s].st
                         /\ save'[s].draft = save[s].draft
                         /\ save'[s].before = save[s].before
                         /\ save'[s].after = save[s].after
                         /\ save'[s].known = save[s].known
    BY <1>0, <2>1 DEF SaveRec
  <2> QED
    BY <1>0, <2>2 DEF SavesKnown
<1>8. CASE UNCHANGED save
  BY <1>0, <1>8 DEF SavesKnown
<1>9. ASSUME NEW f \in Fields, Edit(f)
      PROVE  SavesKnown'
  <2>1. \A s \in Saves : /\ save'[s].st = save[s].st
                         /\ save'[s].draft = save[s].draft
                         /\ save'[s].before = save[s].before
                         /\ save'[s].after = save[s].after
                         /\ save'[s].known = save[s].known
    BY <1>9, EditSaves DEF TypeOK
  <2> QED
    BY <1>0, <2>1 DEF SavesKnown
<1> QED
  BY <1>2, <1>3, <1>5, <1>6, <1>7, <1>8, <1>9
     DEF Next, vars, AgentWrites, Delete, PollAnswered, PollFails,
         PollApplied, ExtraPoll, TimerFires, Merge, Discard,
         AcceptConflicts

\* KnownInv holds in every behaviour of the page.
LEMMA KnownInvCorrect == Spec => []KnownInv
<1>1. Init => KnownInv
  BY DEF Init, KnownInv, DraftKnown, SavesKnown, Fresh, Changed, NoSave
<1>2. TypeInv /\ KnownInv /\ [Next]_vars => KnownInv'
  BY DraftKnownStep, SavesKnownStep DEF TypeInv, KnownInv
<1> QED
  BY <1>1, <1>2, TypeInvCorrect, PTL DEF Spec

\* Only a save that arrives, and is not refused, goes from "sent" to "saved".
LEMMA SavedByArriving ==
    ASSUME TypeOK, [Next]_vars, NEW s \in Saves,
           save[s].st = "sent", save'[s].st = "saved"
    PROVE  ReplacesCurrent(s)
<1>0. save \in [Saves -> SaveRec]
  BY DEF TypeOK, SaveTypes, SaveRec
<1>1. ASSUME NEW t \in Saves, SaveArrives(t)
      PROVE  ReplacesCurrent(s)
  <2>1. CASE save' = [save EXCEPT ![t] = Refused(t)]
    <3>1. Refused(t).st = "refused"
      BY DEF Refused, NoSave
    <3> QED
      BY <1>0, <2>1, <3>1
  <2>2. CASE save' # [save EXCEPT ![t] = Refused(t)]
    <3>1. ReplacesCurrent(t)
      BY <1>1, <2>2 DEF SaveArrives
    <3>2. \A u \in Saves \ {t} : save'[u] = save[u]
      BY <1>0, <1>1, <2>2 DEF SaveArrives
    <3> QED
      BY <3>1, <3>2
  <2> QED
    BY <2>1, <2>2
<1>2. ASSUME NEW t \in Saves, SaveFails(t) \/ SaveReplied(t) \/ SaveRefused(t)
      PROVE  FALSE
  <2>1. save' = [save EXCEPT ![t] = NoSave] \/ save' = [save EXCEPT ![t] = Refused(t)]
    BY <1>2 DEF SaveFails, SaveReplied, SaveRefused
  <2>2. NoSave.st = "none" /\ Refused(t).st = "refused"
    BY DEF NoSave, Refused
  <2> QED
    BY <1>0, <2>1, <2>2
<1>3. ASSUME NEW t \in Saves, Apply(t) \/ \E f \in Fields : PatchDirectly(t, f)
      PROVE  FALSE
  <2>1. PICK draft, before, after : Send(t, draft, before, after)
    BY <1>3 DEF Apply, PatchDirectly
  <2>2. save'[t].st = "sent" /\ \A u \in Saves \ {t} : save'[u] = save[u]
    BY <1>0, <2>1 DEF Send, NoSave
  <2> QED
    BY <2>2
<1>4. ASSUME Leave \/ \E p \in Projects : Show(p)
      PROVE  FALSE
  <2>1. save'[s] = [save[s] EXCEPT !.here = FALSE]
    BY <1>4 DEF Leave, Show
  <2> QED
    BY <1>0, <2>1 DEF SaveRec
<1>5. ASSUME NEW f \in Fields, Edit(f)
      PROVE  FALSE
  BY <1>5, EditSaves DEF TypeOK
<1> QED
  BY <1>1, <1>2, <1>3, <1>4, <1>5
     DEF Next, vars, AgentWrites, Delete, PollAnswered, PollFails,
         PollApplied, ExtraPoll, TimerFires, Merge, Discard,
         AcceptConflicts

\* A save of the draft replaces only values its user knows of: the draft's
\* baseline, the flagged conflicts and the backend's comparison together keep
\* everybody else's writes (useProjectDraft.ts, project_file_routes.py).
THEOREM SavesReplaceTheKnown == Spec => NoBlindOverwrite
<1>1. TypeInv /\ KnownInv /\ [Next]_vars =>
        [\A s \in Saves :
            (save[s].st = "sent" /\ save'[s].st = "saved" /\ save[s].draft)
            => \A f \in Changed(save[s].before, save[s].after) :
                  server[save[s].proj].doc[f] = save[s].known[f]]_vars
  BY SavedByArriving DEF TypeInv, KnownInv, SavesKnown, ReplacesCurrent
<1> QED
  BY <1>1, TypeInvCorrect, KnownInvCorrect, PTL DEF Spec, NoBlindOverwrite

(***************************************************************************)
(* What is typed is kept.                                                  *)
(***************************************************************************)

\* A value is at a field of some document: one of the backend, on its way to
\* the store, in the store or on its way back from a save.
At(f, v) ==
    \/ v = 0
    \/ \E p \in Projects : server[p].doc[f] = v \/ poll[p].doc[f] = v
    \/ store.doc[f] = v
    \/ \E s \in Saves : save[s].doc[f] = v

\* Documents are copied around; only an agent and a save that arrives bring a
\* value to a field where no document had it.
LEMMA DocumentsMove ==
    ASSUME TypeInv, [Next]_vars, NEW f \in Fields, NEW v, At(f, v)'
    PROVE  \/ At(f, v)
           \/ \E p \in Projects : AgentWrites(p, f) /\ v = NewValue
           \/ \E s \in Saves : /\ SaveArrives(s)
                               /\ save'[s].st = "saved"
                               /\ v = save[s].after[f]
<1>0. /\ TypeOK /\ PlaceInv /\ GenInv
      /\ server \in [Projects -> [gen: Gens, doc: Docs, alive: BOOLEAN]]
      /\ poll \in [Projects -> PollRec] /\ save \in [Saves -> SaveRec]
      /\ store \in StoreRec
  BY DEF TypeInv, TypeOK, ServerTypes, PollTypes, PollRec, SaveTypes, SaveRec,
         StoreTypes, StoreRec
<1>1. CASE UNCHANGED <<server, poll, store, save>>
  BY <1>1 DEF At
<1>2. ASSUME NEW p \in Projects, NEW g \in Fields, AgentWrites(p, g)
      PROVE  At(f, v) \/ (g = f /\ v = NewValue)
  <2>1. \A q \in Projects \ {p} : server'[q] = server[q]
    BY <1>0, <1>2 DEF AgentWrites
  <2>2. server'[p].doc = [server[p].doc EXCEPT ![g] = NewValue]
    BY <1>0, <1>2 DEF AgentWrites
  <2>3. server'[p].doc[f] = IF g = f THEN NewValue ELSE server[p].doc[f]
    BY <1>0, <2>2 DEF Docs
  <2> QED
    BY <1>2, <2>1, <2>3 DEF AgentWrites, At
<1>3. ASSUME NEW p \in Projects, Delete(p)
      PROVE  At(f, v)
  <2>1. \A q \in Projects : server'[q].doc = server[q].doc
    BY <1>0, <1>3 DEF Delete
  <2> QED
    BY <1>3, <2>1 DEF Delete, At
<1>5. ASSUME NEW p \in Projects, PollAnswered(p)
      PROVE  At(f, v)
  <2>1. \A q \in Projects \ {p} : poll'[q] = poll[q]
    BY <1>0, <1>5 DEF PollAnswered
  <2>2. poll'[p].doc = server[p].doc \/ poll'[p].doc = Blank
    BY <1>0, <1>5 DEF PollAnswered, NoPoll
  <2> QED
    BY <1>5, <2>1, <2>2 DEF PollAnswered, At, Blank
<1>6. ASSUME NEW p \in Projects, PollFails(p)
      PROVE  At(f, v)
  <2>1. \A q \in Projects \ {p} : poll'[q] = poll[q]
    BY <1>0, <1>6 DEF PollFails
  <2>2. poll'[p].doc = Blank
    BY <1>0, <1>6 DEF PollFails, NoPoll
  <2> QED
    BY <1>6, <2>1, <2>2 DEF PollFails, At, Blank
<1>7. store'.doc[f] = store.doc[f] \/ At(f, store'.doc[f])
  <2>1. CASE \E p \in Projects : store' = EnsureProject(p) \/ store' = SnapshotBase(p)
    BY <2>1 DEF EnsureProject, SnapshotBase, Blank, At
  <2>2. CASE \E on \in BOOLEAN : store' = [store EXCEPT !.patching = on]
    BY <1>0, <2>2 DEF StoreRec
  <2>3. ASSUME NEW p \in Projects,
               store' = [store EXCEPT !.loaded = TRUE, !.of = p,
                                      !.gen = poll[p].gen, !.doc = poll[p].doc]
        PROVE  At(f, store'.doc[f])
    BY <1>0, <2>3 DEF StoreRec, At
  <2>4. ASSUME NEW s \in Saves,
               store' = [store EXCEPT !.loaded = TRUE, !.of = save[s].proj,
                                      !.gen = save[s].gen, !.doc = save[s].doc,
                                      !.patching = FALSE]
        PROVE  At(f, store'.doc[f])
    BY <1>0, <2>4 DEF StoreRec, At
  <2>5. StoreMoves
    BY <1>0, StoreMove
  <2> QED
    BY <2>1, <2>2, <2>3, <2>4, <2>5 DEF StoreMoves
<1>8. ASSUME UNCHANGED server,
             \A p \in Projects : poll'[p].doc = poll[p].doc \/ poll'[p].doc = Blank,
             \A s \in Saves : save'[s].doc = save[s].doc \/ save'[s].doc = Blank
      PROVE  At(f, v)
  BY <1>7, <1>8 DEF At, Blank
<1>9. ASSUME NEW p \in Projects, PollApplied(p)
      PROVE  At(f, v)
  <2>1. \A q \in Projects : poll'[q].doc = poll[q].doc \/ poll'[q].doc = Blank
    BY <1>0, <1>9 DEF PollApplied, NoPoll
  <2> QED
    BY <1>8, <1>9, <2>1 DEF PollApplied
<1>10. ASSUME NEW p \in Projects
       PROVE  /\ \A q \in Projects : Fenced(p, poll)[q].doc = poll[q].doc
              /\ \A q \in Projects :
                    LET polls == Ask(p, EnsureProject(p), Fenced(p, poll))
                    IN  polls[q].doc = poll[q].doc \/ polls[q].doc = Blank
  <2>1. \A q \in Projects : Fenced(p, poll)[q].doc = poll[q].doc
    BY <1>0 DEF Fenced, PollRec
  <2>2. Fenced(p, poll) \in [Projects -> PollRec]
    BY <1>0, FencedType DEF TypeOK
  <2> QED
    BY <2>1, <2>2 DEF Ask, NoPoll
<1>11. ASSUME NEW p \in Projects, PollOnce(p), UNCHANGED <<server, save>>
       PROVE  At(f, v)
  BY <1>8, <1>10, <1>11 DEF PollOnce
<1>12. CASE TimerFires
  <2>1. poller.proj \in Projects /\ PollOnce(poller.proj)
    BY <1>0, <1>12 DEF TimerFires, PlaceInv
  <2> QED
    BY <1>11, <1>12, <2>1 DEF TimerFires
<1>13. ASSUME NEW p \in Projects, Show(p)
       PROVE  At(f, v)
  <2>1. \A s \in Saves : save'[s].doc = save[s].doc
    BY <1>0, <1>13 DEF Show, SaveRec
  <2>2. \A q \in Projects : poll'[q].doc = poll[q].doc \/ poll'[q].doc = Blank
    BY <1>10, <1>13 DEF Show
  <2> QED
    BY <1>8, <1>13, <2>1, <2>2 DEF Show
<1>14. CASE Leave
  <2>1. \A s \in Saves : save'[s].doc = save[s].doc
    BY <1>0, <1>14 DEF Leave, SaveRec
  <2> QED
    BY <1>8, <1>14, <2>1 DEF Leave
<1>15. ASSUME NEW s \in Saves, SaveFails(s) \/ SaveReplied(s) \/ SaveRefused(s)
       PROVE  At(f, v)
  <2>1. save' = [save EXCEPT ![s] = NoSave] \/ save' = [save EXCEPT ![s] = Refused(s)]
    BY <1>15 DEF SaveFails, SaveReplied, SaveRefused
  <2>2. NoSave.doc = Blank /\ Refused(s).doc = Blank
    BY DEF NoSave, Refused
  <2>3. \A t \in Saves : save'[t].doc = save[t].doc \/ save'[t].doc = Blank
    BY <1>0, <2>1, <2>2
  <2> QED
    BY <1>8, <1>15, <2>3 DEF SaveFails, SaveReplied, SaveRefused
<1>16. ASSUME NEW s \in Saves, Apply(s) \/ \E g \in Fields : PatchDirectly(s, g)
       PROVE  At(f, v)
  <2>1. PICK draft, before, after : Send(s, draft, before, after)
    BY <1>16 DEF Apply, PatchDirectly
  <2>2. \A t \in Saves : save'[t].doc = save[t].doc \/ save'[t].doc = Blank
    BY <1>0, <2>1 DEF Send, NoSave
  <2> QED
    BY <1>8, <1>16, <2>2 DEF Apply, PatchDirectly
<1>17. ASSUME NEW s \in Saves, SaveArrives(s)
       PROVE  At(f, v) \/ (save'[s].st = "saved" /\ v = save[s].after[f])
  <2> DEFINE p == save[s].proj
             d == Patched(s, server[p].doc)
  <2>1. CASE save' = [save EXCEPT ![s] = Refused(s)] /\ UNCHANGED server
    <3>1. Refused(s).doc = Blank
      BY DEF NoSave, Refused
    <3>2. \A t \in Saves : save'[t].doc = save[t].doc \/ save'[t].doc = Blank
      BY <1>0, <2>1, <3>1
    <3> QED
      BY <1>8, <1>17, <2>1, <3>2 DEF SaveArrives
  <2>2. CASE /\ server' = [server EXCEPT ![p].gen = @ + 1, ![p].doc = d]
             /\ save' = [save EXCEPT ![s].st = "saved",
                                     ![s].gen = server[p].gen + 1, ![s].doc = d]
    <3>1. p \in Projects
      BY <1>0, <1>17 DEF SaveArrives, PlaceInv
    <3>2. d[f] = save[s].after[f] \/ d[f] = server[p].doc[f]
      BY DEF Patched
    <3> HIDE DEF d
    <3>3. \A q \in Projects : server'[q].doc = server[q].doc \/ server'[q].doc = d
      BY <1>0, <2>2
    <3>4. \A t \in Saves : save'[t].doc = save[t].doc \/ save'[t].doc = d
      BY <1>0, <2>2 DEF SaveRec
    <3>5. UNCHANGED <<poll, store>>
      BY <1>17 DEF SaveArrives
    <3>6. At(f, v) \/ v = d[f]
      BY <3>3, <3>4, <3>5 DEF At
    <3>7. save'[s].st = "saved"
      BY <1>0, <2>2 DEF SaveRec
    <3> QED
      BY <3>1, <3>2, <3>6, <3>7 DEF At
  <2> QED
    BY <1>17, <2>1, <2>2 DEF SaveArrives
<1>18. ASSUME NEW g \in Fields, Edit(g)
       PROVE  At(f, v)
  <2>1. \A s \in Saves : save'[s].doc = save[s].doc
    BY <1>0, <1>18, EditSaves DEF TypeOK
  <2> QED
    BY <1>8, <1>18, <2>1 DEF Edit
<1>19. \/ UNCHANGED <<server, poll, store, save>>
       \/ \E p \in Projects : \/ \E g \in Fields : AgentWrites(p, g)
                              \/ Delete(p) \/ PollAnswered(p) \/ PollFails(p)
                              \/ PollApplied(p) \/ Show(p)
                              \/ PollOnce(p) /\ UNCHANGED <<server, save>>
       \/ TimerFires \/ Leave
       \/ \E g \in Fields : Edit(g)
       \/ \E s \in Saves : \/ SaveFails(s) \/ SaveReplied(s) \/ SaveRefused(s)
                           \/ Apply(s) \/ \E g \in Fields : PatchDirectly(s, g)
                           \/ SaveArrives(s)
  BY DEF Next, vars, ExtraPoll, Merge, Discard, AcceptConflicts
<1> QED
  BY <1>1, <1>2, <1>3, <1>5, <1>6, <1>9, <1>11, <1>12, <1>13, <1>14, <1>15,
     <1>16, <1>17, <1>18, <1>19

\* What is rendered is at its field of a document.
LEMMA AuthorityIsAt ==
    ASSUME NEW f \in Fields
    PROVE  At(f, Authority[f])
BY DEF At, Authority, Blank

\* Merging takes the baseline and the draft from each other and from the
\* document.
LEMMA MergedMove ==
    ASSUME DraftTypes, NEW scope \in Projects \cup {NoProject}, NEW doc \in Docs, NEW f \in Fields
    PROVE  /\ Merged(scope, doc).base[f] \in {session.base[f], session.draft[f], doc[f]}
           /\ Merged(scope, doc).draft[f] \in {session.base[f], session.draft[f], doc[f]}
<1> DEFINE Old == {session.base[f], session.draft[f], doc[f]}
           local == Changed(session.base, session.draft)
           remote == Changed(session.base, doc)
           over == [g \in Fields |-> IF g \in local THEN session.draft[g] ELSE doc[g]]
           mixed == [session EXCEPT !.base = doc, !.draft = over,
                                    !.conf = @ \cup (local \cap remote)]
<1>0. session \in DraftRec
  BY DEF DraftTypes, DraftRec
<1>1. over[f] \in Old
  OBVIOUS
<1>2. mixed.base = doc /\ mixed.draft = over
  <2> HIDE DEF local, remote, over
  <2> QED
    BY <1>0 DEF DraftRec
<1>3. Fresh(scope, doc).base = doc /\ Fresh(scope, doc).draft = doc
      /\ Fresh(session.scope, doc).base = doc /\ Fresh(session.scope, doc).draft = doc
  BY DEF Fresh
<1>4. Merged(scope, doc) \in {session, Fresh(scope, doc), Fresh(session.scope, doc), mixed}
  BY DEF Merged, MergeAuthority
<1> HIDE DEF mixed, over
<1> QED
  BY <1>1, <1>2, <1>3, <1>4

\* A step takes the baseline and the draft from each other and from documents;
\* only the user brings a new value into the draft.
LEMMA DraftMove ==
    ASSUME TypeOK, [Next]_vars, NEW f \in Fields
    PROVE  /\ \/ session'.base[f] \in {session.base[f], session.draft[f]}
              \/ At(f, session'.base[f])
           /\ \/ session'.draft[f] \in {session.base[f], session.draft[f]}
              \/ At(f, session'.draft[f])
              \/ Edit(f) /\ session'.draft[f] = NewValue
           /\ \/ typed'[f] \in {typed[f], 0}
              \/ Edit(f) /\ typed'[f] = NewValue
<1> DEFINE Known(v) == v \in {session.base[f], session.draft[f]} \/ At(f, v)
<1>0. /\ session \in DraftRec /\ Active \in DraftRec /\ Authority \in Docs
      /\ Scope \in Projects \cup {NoProject} /\ page \in Projects \cup {NoProject}
      /\ typed \in Docs /\ StoreTypes /\ DraftTypes /\ SaveTypes
  BY ActiveType DEF TypeOK, DraftTypes, DraftRec, StoreTypes
<1>1. Known(session.base[f]) /\ Known(session.draft[f]) /\ Known(Authority[f]) /\ Known(0)
  BY AuthorityIsAt DEF At
<1>2. Blank[f] = 0
  BY DEF Blank
<1>3. ASSUME NEW scope, NEW doc, Known(doc[f])
      PROVE  Known(Fresh(scope, doc).base[f]) /\ Known(Fresh(scope, doc).draft[f])
  BY <1>3 DEF Fresh
<1>4. CASE Merge
  <2>1. session' = Merged(Scope, Authority)
    BY <1>4 DEF Merge
  <2>2. /\ session'.base[f] \in {session.base[f], session.draft[f], Authority[f]}
        /\ session'.draft[f] \in {session.base[f], session.draft[f], Authority[f]}
    BY <1>0, <2>1, MergedMove
  <2>3. UNCHANGED typed
    BY <1>4 DEF Merge
  <2> QED
    BY <1>1, <2>2, <2>3
<1>5. ASSUME NEW g \in Fields, Edit(g)
      PROVE  /\ Known(session'.base[f])
             /\ Known(session'.draft[f]) \/ (g = f /\ session'.draft[f] = NewValue)
             /\ typed'[f] \in {typed[f], 0} \/ (g = f /\ typed'[f] = NewValue)
  <2>1. session' = [Active EXCEPT !.draft = [Active.draft EXCEPT ![g] = NewValue]]
    BY <1>5 DEF Edit
  <2>2. /\ session'.base = Active.base
        /\ session'.draft = [Active.draft EXCEPT ![g] = NewValue]
    BY <1>0, <2>1 DEF DraftRec
  <2>3. session'.draft[f] = IF g = f THEN NewValue ELSE Active.draft[f]
    BY <1>0, <2>2 DEF DraftRec, Docs
  <2>4. Known(Active.base[f]) /\ Known(Active.draft[f])
    BY <1>1 DEF Active, Fresh
  <2>5. typed'[f] \in {typed[f], 0} \/ (g = f /\ typed'[f] = NewValue)
    BY <1>0, <1>5 DEF Edit, Docs
  <2> HIDE DEF Known
  <2> QED
    BY <2>2, <2>3, <2>4, <2>5
<1>6. CASE Discard
  <2>1. session' = Fresh(session.scope, session.base) /\ typed' = Blank
    BY <1>6 DEF Discard
  <2> QED
    BY <1>1, <1>2, <1>3, <2>1
<1>7. CASE AcceptConflicts
  BY <1>0, <1>7 DEF AcceptConflicts, DraftRec
<1>8. CASE Leave \/ \E p \in Projects : Show(p)
  <2>1. session' = Fresh(NoProject, Blank) /\ typed' = Blank
    BY <1>8 DEF Leave, Show
  <2> QED
    BY <1>1, <1>2, <1>3, <2>1
<1>9. ASSUME NEW s \in Saves, SaveReplied(s)
      PROVE  Known(session'.base[f]) /\ Known(session'.draft[f]) /\ UNCHANGED typed
  <2>1. UNCHANGED typed
    BY <1>9 DEF SaveReplied
  <2>2. save[s].doc \in Docs /\ At(f, save[s].doc[f])
    BY <1>0, <1>9, ReplyDraft DEF At
  <2>3. Known(Merged(page, save[s].doc).draft[f])
    BY <1>0, <2>2, MergedMove
  <2>4. Known(Merged(Scope, Authority).draft[f])
    BY <1>0, <1>1, MergedMove
  <2>5. Known(ReplyMerge(s).draft[f])
    BY <1>1, <2>3, <2>4 DEF ReplyMerge
  <2>6. \/ session' = session
        \/ session' = Fresh(ReplyMerge(s).scope, ReplyMerge(s).draft)
    BY <1>0, <1>9, ReplyDraft
  <2> QED
    BY <1>1, <1>3, <2>1, <2>5, <2>6
<1>10. ASSUME NEW s \in Saves, SaveArrives(s)
       PROVE  UNCHANGED session /\ typed'[f] \in {typed[f], 0}
  BY <1>10 DEF SaveArrives
<1>11. ASSUME NEW p \in Projects, PollApplied(p) \/ ExtraPoll(p)
       PROVE  UNCHANGED session /\ typed'[f] \in {typed[f], 0}
  BY <1>2, <1>11 DEF PollApplied, ExtraPoll, PollOnce
<1>12. CASE TimerFires
  BY <1>2, <1>12 DEF TimerFires, PollOnce
<1>13. CASE UNCHANGED <<session, typed>>
  BY <1>13
<1> QED
  BY <1>4, <1>5, <1>6, <1>7, <1>8, <1>9, <1>10, <1>11, <1>12, <1>13
     DEF Next, vars, histories, AgentWrites, Delete, PollAnswered, PollFails,
         SaveFails, Apply, PatchDirectly, SaveRefused

\* A save is sent with values of the draft, of the store, or a new one.
LEMMA SaveMove ==
    ASSUME TypeOK, PlaceInv, [Next]_vars, NEW s \in Saves, NEW f \in Fields
    PROVE  \/ save'[s].after[f]
                \in {save[s].after[f], Active.draft[f], store.doc[f], 0}
           \/ PatchDirectly(s, f) /\ save'[s].after[f] = NewValue
<1> DEFINE Old == {save[s].after[f], Active.draft[f], store.doc[f], 0}
<1>0. /\ save \in [Saves -> SaveRec] /\ store.doc \in Docs
  BY DEF TypeOK, SaveTypes, SaveRec, StoreTypes
<1>1. ASSUME NEW t \in Saves, SaveArrives(t)
      PROVE  save'[s].after[f] \in Old
  <2>1. Refused(t).after[f] = 0
    BY DEF Refused, NoSave, Blank
  <2>2. CASE save' = [save EXCEPT ![t] = Refused(t)]
    BY <1>0, <2>1, <2>2
  <2>3. ASSUME NEW g, NEW d, save' = [save EXCEPT ![t].st = "saved",
                                                 ![t].gen = g, ![t].doc = d]
        PROVE  save'[s].after[f] \in Old
    <3>1. save'[s].after = save[s].after
      BY <1>0, <2>3 DEF SaveRec
    <3> QED
      BY <3>1
  <2> HIDE DEF Old
  <2> QED
    BY <1>1, <2>2, <2>3 DEF SaveArrives
<1>2. ASSUME NEW t \in Saves, SaveFails(t) \/ SaveReplied(t) \/ SaveRefused(t)
      PROVE  save'[s].after[f] \in Old
  <2>1. save' = [save EXCEPT ![t] = NoSave] \/ save' = [save EXCEPT ![t] = Refused(t)]
    BY <1>2 DEF SaveFails, SaveReplied, SaveRefused
  <2>2. NoSave.after[f] = 0 /\ Refused(t).after[f] = 0
    BY DEF NoSave, Refused, Blank
  <2> QED
    BY <1>0, <2>1, <2>2
<1>4. ASSUME NEW t \in Saves, Apply(t)
      PROVE  save'[s].after[f] \in Old
  <2>1. Send(t, TRUE, Active.base, Active.draft)
    BY <1>4 DEF Apply
  <2>2. /\ save'[t].after = Active.draft
        /\ \A u \in Saves \ {t} : save'[u] = save[u]
    BY <1>0, <2>1 DEF Send, NoSave
  <2>3. CASE s = t
    BY <2>2, <2>3
  <2>4. CASE s # t
    <3>1. save'[s] = save[s]
      BY <2>2, <2>4
    <3> QED
      BY <3>1
  <2> QED
    BY <2>3, <2>4
<1>5. ASSUME NEW t \in Saves, NEW g \in Fields, PatchDirectly(t, g)
      PROVE  \/ save'[s].after[f] \in Old
             \/ t = s /\ g = f /\ save'[s].after[f] = NewValue
  <2> DEFINE new == [store.doc EXCEPT ![g] = NewValue]
  <2>1. Send(t, FALSE, store.doc, new)
    BY <1>5 DEF PatchDirectly
  <2>2. new[f] = IF g = f THEN NewValue ELSE store.doc[f]
    BY <1>0 DEF Docs
  <2> HIDE DEF new
  <2>3. /\ save'[t].after = new
        /\ \A u \in Saves \ {t} : save'[u] = save[u]
    BY <1>0, <2>1 DEF Send, NoSave
  <2>4. CASE s = t
    BY <2>2, <2>3, <2>4
  <2>5. CASE s # t
    <3>1. save'[s] = save[s]
      BY <2>3, <2>5
    <3> QED
      BY <3>1
  <2> QED
    BY <2>4, <2>5
<1>6. CASE Leave \/ \E p \in Projects : Show(p)
  <2>1. save'[s] = [save[s] EXCEPT !.here = FALSE]
    BY <1>6 DEF Leave, Show
  <2> QED
    BY <1>0, <2>1 DEF SaveRec
<1>7. CASE UNCHANGED save
  BY <1>7
<1>8. ASSUME NEW g \in Fields, Edit(g)
      PROVE  save'[s].after[f] \in Old
  <2>1. save'[s].after = save[s].after
    BY <1>8, EditSaves DEF TypeOK
  <2> QED
    BY <2>1
<1> QED
  BY <1>1, <1>2, <1>4, <1>5, <1>6, <1>7, <1>8
     DEF Next, vars, AgentWrites, Delete, PollAnswered, PollFails,
         PollApplied, ExtraPoll, TimerFires, Merge, Discard,
         AcceptConflicts

\* Values are used in order: what is in a document, in the draft, or on its
\* way to the backend was used before.
DocsOld == \A f \in Fields : \A v \in 0..MaxValues : At(f, v) => v <= used["values"]
DraftOld ==
    \A f \in Fields : /\ session.base[f] <= used["values"]
                      /\ session.draft[f] <= used["values"]
                      /\ typed[f] <= used["values"]
SavesOld == \A s \in Saves : \A f \in Fields : save[s].after[f] <= used["values"]
ValInv == DocsOld /\ DraftOld /\ SavesOld

\* What ValInv says as numbers, and of what is rendered.
LEMMA OldNumbers ==
    ASSUME TypeOK, ValInv, [Next]_vars
    PROVE  /\ used["values"] \in 0..MaxValues /\ used'["values"] \in Nat
           /\ used["values"] <= used'["values"]
           /\ \A f \in Fields :
                 /\ store.doc[f] \in 0..used["values"]
                 /\ Authority[f] \in 0..used["values"]
                 /\ session.base[f] \in 0..used["values"]
                 /\ session.draft[f] \in 0..used["values"]
                 /\ typed[f] \in 0..used["values"]
                 /\ Active.base[f] \in 0..used["values"]
                 /\ Active.draft[f] \in 0..used["values"]
                 /\ \A s \in Saves : save[s].after[f] \in 0..used["values"]
<1>1. /\ used["values"] \in 0..MaxValues /\ used'["values"] \in Nat
      /\ used["values"] <= used'["values"]
  BY AnyUse, BoundsAreNaturals DEF TypeOK, UseBounds, Kinds, Limits
<1> SUFFICES ASSUME NEW f \in Fields
             PROVE  /\ store.doc[f] \in 0..used["values"]
                    /\ Authority[f] \in 0..used["values"]
                    /\ session.base[f] \in 0..used["values"]
                    /\ session.draft[f] \in 0..used["values"]
                    /\ typed[f] \in 0..used["values"]
                    /\ Active.base[f] \in 0..used["values"]
                    /\ Active.draft[f] \in 0..used["values"]
                    /\ \A s \in Saves : save[s].after[f] \in 0..used["values"]
  BY <1>1
<1>2. store.doc[f] \in 0..MaxValues /\ Authority[f] \in 0..MaxValues
  BY ActiveType DEF TypeOK, StoreTypes, Docs
<1>3. At(f, store.doc[f]) /\ At(f, Authority[f])
  BY AuthorityIsAt DEF At
<1>4. store.doc[f] \in 0..used["values"] /\ Authority[f] \in 0..used["values"]
  BY <1>1, <1>2, <1>3 DEF ValInv, DocsOld
<1>5. /\ session.base[f] \in 0..MaxValues /\ session.draft[f] \in 0..MaxValues
      /\ typed[f] \in 0..MaxValues
  BY DEF TypeOK, DraftTypes, Docs
<1>6. /\ session.base[f] \in 0..used["values"]
      /\ session.draft[f] \in 0..used["values"]
      /\ typed[f] \in 0..used["values"]
  BY <1>1, <1>5 DEF ValInv, DraftOld
<1>7. Active.base[f] \in 0..used["values"] /\ Active.draft[f] \in 0..used["values"]
  BY <1>4, <1>6 DEF Active, Fresh
<1>8. ASSUME NEW s \in Saves
      PROVE  save[s].after[f] \in 0..used["values"]
  <2>1. save[s].after[f] \in 0..MaxValues
    BY DEF TypeOK, SaveTypes, Docs
  <2> QED
    BY <1>1, <2>1 DEF ValInv, SavesOld
<1> QED
  BY <1>4, <1>6, <1>7, <1>8

\* A step that makes a value uses it.
LEMMA Makes ==
    ASSUME TypeOK,
           \/ \E p \in Projects, f \in Fields : AgentWrites(p, f)
           \/ \E f \in Fields : Edit(f)
           \/ \E s \in Saves, f \in Fields : PatchDirectly(s, f)
    PROVE  used'["values"] = NewValue /\ NewValue = used["values"] + 1
<1>1. {"values"} \in SUBSET Kinds /\ {"saves", "values"} \in SUBSET Kinds
  BY DEF Kinds
<1>2. Use({"values"}) \/ Use({"saves", "values"})
  BY DEF AgentWrites, Edit, PatchDirectly
<1>3. used'["values"] = NewValue
  BY <1>1, <1>2, NewValueType DEF TypeOK
<1> QED
  BY <1>3 DEF NewValue

\* Every step keeps ValInv.
LEMMA ValStep ==
    ASSUME TypeInv, ValInv, [Next]_vars
    PROVE  ValInv'
<1>0. /\ TypeOK /\ PlaceInv
      /\ used["values"] \in 0..MaxValues /\ used'["values"] \in Nat
      /\ used["values"] <= used'["values"]
  BY OldNumbers DEF TypeInv
<1>1. ASSUME NEW f \in Fields, NEW v \in 0..MaxValues, At(f, v)'
      PROVE  v <= used'["values"]
  <2>1. CASE At(f, v)
    BY <1>0, <2>1 DEF ValInv, DocsOld
  <2>2. ASSUME NEW p \in Projects, AgentWrites(p, f), v = NewValue
        PROVE  v <= used'["values"]
    BY <1>0, <2>2, Makes
  <2>3. ASSUME NEW s \in Saves, v = save[s].after[f]
        PROVE  v <= used'["values"]
    BY <1>0, <2>3, OldNumbers
  <2> QED
    BY <1>1, <2>1, <2>2, <2>3, DocumentsMove
<1>2. DocsOld'
  BY <1>1 DEF DocsOld
<1>3. ASSUME NEW f \in Fields
      PROVE  /\ session'.base[f] <= used'["values"]
             /\ session'.draft[f] <= used'["values"]
             /\ typed'[f] <= used'["values"]
  <2>1. Edit(f) => NewValue = used'["values"]
    BY <1>0, Makes
  <2>2. /\ Authority[f] \in 0..used["values"]
        /\ session.base[f] \in 0..used["values"]
        /\ session.draft[f] \in 0..used["values"]
        /\ typed[f] \in 0..used["values"]
    BY <1>0, OldNumbers
  <2>6. session'.base[f] \in 0..MaxValues /\ session'.draft[f] \in 0..MaxValues
    BY <1>0, DraftStep DEF DraftTypes, Docs
  <2>7. ASSUME NEW v \in 0..MaxValues, At(f, v)
        PROVE  v <= used["values"]
    BY <2>7 DEF ValInv, DocsOld
  <2>8. /\ At(f, session'.base[f]) => session'.base[f] <= used["values"]
        /\ At(f, session'.draft[f]) => session'.draft[f] <= used["values"]
    BY <2>6, <2>7
  <2>3. session'.base[f] <= used'["values"]
    BY <1>0, <2>2, <2>6, <2>8, DraftMove
  <2>4. session'.draft[f] <= used'["values"]
    BY <1>0, <2>1, <2>2, <2>6, <2>8, DraftMove
  <2>5. typed'[f] <= used'["values"]
    BY <1>0, <2>1, <2>2, DraftMove
  <2> QED
    BY <2>3, <2>4, <2>5
<1>4. DraftOld'
  BY <1>3 DEF DraftOld
<1>5. ASSUME NEW s \in Saves, NEW f \in Fields
      PROVE  save'[s].after[f] <= used'["values"]
  <2>1. PatchDirectly(s, f) => NewValue = used'["values"]
    BY <1>0, Makes
  <2>2. /\ store.doc[f] \in 0..used["values"]
        /\ Active.draft[f] \in 0..used["values"]
        /\ save[s].after[f] \in 0..used["values"]
    BY <1>0, OldNumbers
  <2> QED
    BY <1>0, <2>1, <2>2, SaveMove
<1>6. SavesOld'
  BY <1>5 DEF SavesOld
<1> QED
  BY <1>2, <1>4, <1>6 DEF ValInv

\* How a save goes with what was typed: one from this page's draft carries it,
\* no other does, and none that has been carried out is left.
SaveGoesWith(s, f) ==
    /\ save[s].st = "sent" =>
          (save[s].after[f] = typed[f] <=> (save[s].draft /\ save[s].here))
    /\ ~(save[s].st = "saved" /\ save[s].draft /\ save[s].here)

\* What is typed is a change of the draft, of the element that is shown, and
\* nowhere but in the draft and in saves of it that have not arrived.
Kept(f) ==
    /\ Shown /\ session.scope = page
    /\ session.draft[f] = typed[f] /\ session.base[f] # typed[f]
    /\ ~At(f, typed[f])
    /\ \A s \in Saves : SaveGoesWith(s, f)

\* TypedIsKept is not inductive: a merge keeps only what differs from the
\* baseline, and the end of a save forgets what it did not carry.
KeptInv == \A f \in Fields : typed[f] # 0 => Kept(f)

\* What is typed while no save of the draft is under way is kept.
LEMMA KeptByEdit ==
    ASSUME TypeInv, ValInv, NEW f \in Fields, Edit(f), typed'[f] # 0
    PROVE  Kept(f)'
<1>0. /\ TypeOK /\ [Next]_vars /\ Active \in DraftRec /\ typed \in Docs
      /\ NewValue = used["values"] + 1
  BY ActiveType, Makes DEF TypeInv, TypeOK, DraftTypes, Next, DraftRec
<1>1. /\ Shown /\ UNCHANGED <<server, page, store, poll>>
      /\ \A s \in Saves : /\ save'[s].st = save[s].st /\ save'[s].draft = save[s].draft
                           /\ save'[s].here = save[s].here /\ save'[s].doc = save[s].doc
                           /\ save'[s].after = save[s].after
  BY <1>0, EditSaves DEF Edit, TypeOK
<1>2. typed'[f] = NewValue /\ ~Saving
  BY <1>0 DEF Edit, Docs
<1>3. session' = [Active EXCEPT !.draft = [Active.draft EXCEPT ![f] = NewValue]]
  BY DEF Edit
<1>4. /\ session'.scope = Active.scope /\ session'.base = Active.base
      /\ session'.draft = [Active.draft EXCEPT ![f] = NewValue]
  BY <1>0, <1>3 DEF DraftRec
<1>5. session'.draft[f] = NewValue
  BY <1>0, <1>4 DEF DraftRec, Docs
<1>6. Active.scope = page
  BY <1>1 DEF Active, Fresh, Scope
<1>7. Active.base[f] # NewValue /\ \A s \in Saves : save[s].after[f] # NewValue
  BY <1>0, OldNumbers
<1>8. ~At(f, NewValue)
  <2>1. {"values"} \in SUBSET Kinds /\ Use({"values"})
    BY DEF Kinds, Edit
  <2>2. NewValue \in 0..MaxValues
    BY <1>0, <2>1, NewValueType, BoundsAreNaturals DEF TypeOK
  <2> QED
    BY <1>0, <2>2, OldNumbers DEF ValInv, DocsOld
<1>9. At(f, typed[f])' => At(f, NewValue)
  BY <1>1, <1>2 DEF At
<1>10. Shown'
  BY <1>1 DEF Shown
<1>11. \A s \in Saves : SaveGoesWith(s, f)'
  BY <1>1, <1>2, <1>7 DEF SaveGoesWith, Saving
<1> QED
  BY <1>1, <1>2, <1>4, <1>5, <1>6, <1>7, <1>8, <1>9, <1>10, <1>11 DEF Kept

\* The element stays the one that is shown while something typed is kept: the
\* store gives up the history with the project.
LEMMA KeptPlace ==
    ASSUME TypeInv, [Next]_vars, NEW f \in Fields, Kept(f), typed'[f] # 0
    PROVE  Shown' /\ session'.scope = page'
<1>0. /\ TypeOK /\ PlaceInv /\ Shown /\ session.scope = page /\ Scope = page
      /\ store \in StoreRec /\ session \in DraftRec /\ Active = session
  BY DEF TypeInv, TypeOK, StoreTypes, StoreRec, DraftTypes, DraftRec, Kept,
         Scope, Active
<1>1. Blank[f] = 0
  BY DEF Blank
<1>2. ASSUME NEW p, PollOnce(p), UNCHANGED <<page, session>>
      PROVE  Shown' /\ session'.scope = page'
  <2>1. UNCHANGED store
    BY <1>1, <1>2 DEF PollOnce, EnsureProject
  <2> QED
    BY <1>0, <1>2, <2>1 DEF Shown
<1>3. ASSUME NEW p \in Projects, PollApplied(p)
      PROVE  Shown' /\ session'.scope = page'
  <2>1. store'.proj = store.proj /\ store'.loaded
    BY <1>0, <1>1, <1>3 DEF PollApplied, Shown, StoreRec
  <2> QED
    BY <1>0, <1>3, <2>1 DEF PollApplied, Shown
<1>4. ~Leave /\ \A p \in Projects : ~Show(p)
  BY <1>1 DEF Leave, Show
<1>5. ~Discard
  BY <1>1 DEF Discard
<1>6. CASE Merge
  <2>1. session' = MergeAuthority(Authority)
    BY <1>0, <1>6 DEF Merge, Merged
  <2>2. session'.scope = session.scope
    BY <1>0, <2>1 DEF MergeAuthority, Fresh, DraftRec
  <2> QED
    BY <1>0, <1>6, <2>2 DEF Merge, Shown
<1>7. ASSUME NEW g \in Fields, Edit(g)
      PROVE  Shown' /\ session'.scope = page'
  <2>1. session'.scope = session.scope
    BY <1>0, <1>7 DEF Edit, DraftRec
  <2> QED
    BY <1>0, <1>7, <2>1 DEF Edit, Shown
<1>8. CASE AcceptConflicts
  <2>1. session'.scope = session.scope
    BY <1>0, <1>8 DEF AcceptConflicts, DraftRec
  <2> QED
    BY <1>0, <1>8, <2>1 DEF AcceptConflicts, Shown
<1>9. ASSUME NEW s \in Saves, Apply(s) \/ \E g \in Fields : PatchDirectly(s, g)
      PROVE  Shown' /\ session'.scope = page'
  BY <1>0, <1>9 DEF Apply, PatchDirectly, Send, Shown, StoreRec
<1>10. ASSUME NEW s \in Saves, SaveReplied(s) \/ SaveRefused(s)
       PROVE  Shown' /\ session'.scope = page'
  <2>1. store'.proj = store.proj /\ store'.loaded = store.loaded
    BY <1>0, <1>10 DEF SaveReplied, SaveRefused, Shown, StoreRec
  <2>2. UNCHANGED session
    <3>1. CASE SaveReplied(s)
      <4>1. ~(save[s].draft /\ save[s].here)
        BY <3>1 DEF SaveReplied, Kept, SaveGoesWith
      <4> QED
        BY <1>0, <3>1, <4>1, ReplyDraft DEF TypeOK
    <3>2. CASE SaveRefused(s)
      BY <3>2 DEF SaveRefused
    <3> QED
      BY <1>10, <3>1, <3>2
  <2>3. session'.scope = session.scope /\ UNCHANGED page
    BY <1>10, <2>2 DEF SaveReplied, SaveRefused
  <2> QED
    BY <1>0, <2>1, <2>3 DEF Shown
<1>11. CASE UNCHANGED <<page, store, session>>
  BY <1>0, <1>11 DEF Shown
<1> QED
  BY <1>2, <1>3, <1>4, <1>5, <1>6, <1>7, <1>8, <1>9, <1>10, <1>11
     DEF Next, vars, AgentWrites, Delete, PollAnswered, PollFails, ExtraPoll,
         SaveArrives, SaveFails, TimerFires

\* What was typed before stays in the draft and differs from the baseline: a
\* merge keeps it over the new document, and no save forgets it.
LEMMA KeptInDraft ==
    ASSUME TypeInv, [Next]_vars, NEW f \in Fields, Kept(f), typed'[f] # 0,
           typed'[f] = typed[f]
    PROVE  session'.draft[f] = typed'[f] /\ session'.base[f] # typed'[f]
<1>0. /\ TypeOK /\ PlaceInv /\ Shown /\ session.scope = page /\ Scope = page
      /\ session \in DraftRec /\ Active = session /\ typed \in Docs
      /\ session.draft[f] = typed[f] /\ session.base[f] # typed[f]
      /\ Authority = store.doc /\ store.doc[f] # typed[f]
  BY DEF TypeInv, TypeOK, DraftTypes, DraftRec, Kept, Scope, Active, Authority, At
<1>1. Blank[f] = 0
  BY DEF Blank
<1>2. ~Leave /\ ~Discard /\ \A p \in Projects : ~Show(p)
  BY <1>1 DEF Leave, Show, Discard
<1>3. CASE Merge
  <2> DEFINE local == Changed(session.base, session.draft)
             remote == Changed(session.base, Authority)
             over == [g \in Fields |-> IF g \in local THEN session.draft[g]
                                       ELSE Authority[g]]
  <2>1. session' = MergeAuthority(Authority)
    BY <1>0, <1>3 DEF Merge, Merged
  <2>2. f \in local
    BY <1>0 DEF Changed
  <2>3. CASE remote = {}
    <3>1. session' = session
      BY <2>1, <2>3 DEF MergeAuthority
    <3> QED
      BY <1>0, <3>1
  <2>4. CASE remote # {}
    <3>1. session' = [session EXCEPT !.base = Authority, !.draft = over,
                                     !.conf = @ \cup (local \cap remote)]
      BY <2>1, <2>2, <2>4 DEF MergeAuthority
    <3>2. session'.base = Authority /\ session'.draft = over
      <4> HIDE DEF local, remote, over
      <4> QED
        BY <1>0, <3>1 DEF DraftRec
    <3>3. over[f] = session.draft[f]
      BY <2>2
    <3> QED
      BY <1>0, <3>2, <3>3
  <2> QED
    BY <2>3, <2>4
<1>4. ASSUME NEW g \in Fields, Edit(g)
      PROVE  session'.draft[f] = typed'[f] /\ session'.base[f] # typed'[f]
  <2>1. session' = [session EXCEPT !.draft = [session.draft EXCEPT ![g] = NewValue]]
    BY <1>0, <1>4 DEF Edit
  <2>2. /\ session'.base = session.base
        /\ session'.draft = [session.draft EXCEPT ![g] = NewValue]
    BY <1>0, <2>1 DEF DraftRec
  <2>3. g = f => typed'[f] = NewValue
    BY <1>0, <1>4 DEF Edit, Docs
  <2>4. session'.draft[f] = IF g = f THEN NewValue ELSE session.draft[f]
    BY <1>0, <2>2 DEF DraftRec, Docs
  <2> QED
    BY <1>0, <2>2, <2>3, <2>4
<1>5. CASE AcceptConflicts
  <2>1. session'.draft = session.draft /\ session'.base = session.base
    BY <1>0, <1>5 DEF AcceptConflicts, DraftRec
  <2> QED
    BY <1>0, <2>1
<1>6. ASSUME NEW s \in Saves, SaveReplied(s)
      PROVE  UNCHANGED session
  <2>1. ~(save[s].draft /\ save[s].here)
    BY <1>6 DEF SaveReplied, Kept, SaveGoesWith
  <2> QED
    BY <1>0, <1>6, <2>1, ReplyDraft DEF TypeOK
<1>7. CASE UNCHANGED session
  BY <1>0, <1>7
<1> QED
  BY <1>2, <1>3, <1>4, <1>5, <1>6, <1>7
     DEF Next, vars, AgentWrites, Delete, PollAnswered, PollFails,
         PollApplied, ExtraPoll, SaveArrives, SaveFails, Apply, PatchDirectly,
         SaveRefused, TimerFires

\* What was typed does not come into a document but by its own save, and then
\* it need not be kept.
LEMMA KeptAway ==
    ASSUME TypeInv, ValInv, [Next]_vars, NEW f \in Fields, Kept(f),
           typed'[f] # 0, typed'[f] = typed[f]
    PROVE  ~At(f, typed[f])'
<1>0. TypeOK /\ ~At(f, typed[f]) /\ typed[f] \in 0..used["values"]
  BY OldNumbers DEF TypeInv, Kept
<1>1. ASSUME NEW p \in Projects, AgentWrites(p, f)
      PROVE  typed[f] # NewValue
  <2>1. NewValue = used["values"] + 1 /\ used["values"] \in Nat
    BY <1>0, <1>1, OldNumbers DEF NewValue
  <2> QED
    BY <1>0, <2>1
<1>2. ASSUME NEW s \in Saves, SaveArrives(s), save'[s].st = "saved"
      PROVE  typed[f] # save[s].after[f]
  <2>1. save[s].st = "sent" /\ SaveGoesWith(s, f)
    BY <1>2 DEF SaveArrives, Kept
  <2>2. CASE save[s].draft /\ save[s].here
    <3>1. save[s].after[f] = typed[f]
      BY <2>1, <2>2 DEF SaveGoesWith
    <3>2. save' = [save EXCEPT ![s] = Refused(s)] => save'[s].st = "refused"
      BY <1>0 DEF TypeOK, SaveTypes, Refused, NoSave
    <3>3. typed'[f] = 0
      BY <1>2, <2>2, <3>1, <3>2 DEF SaveArrives
    <3> QED
      BY <3>3
  <2>3. CASE ~(save[s].draft /\ save[s].here)
    BY <2>1, <2>3 DEF SaveGoesWith
  <2> QED
    BY <2>2, <2>3
<1>3. ASSUME NEW u, u = typed[f], At(f, u)'
      PROVE  FALSE
  BY <1>0, <1>1, <1>2, <1>3, DocumentsMove
<1>4. At(f, typed[f])' => \E u : u = typed[f] /\ At(f, u)'
  BY DEF At
<1> QED
  BY <1>3, <1>4

\* The saves go on as they go with what was typed: those sent now carry it,
\* and the one that carried it home has ended the history.
LEMMA KeptBySaves ==
    ASSUME TypeInv, ValInv, [Next]_vars, NEW f \in Fields, Kept(f),
           typed'[f] # 0, typed'[f] = typed[f], NEW s \in Saves
    PROVE  SaveGoesWith(s, f)'
<1>0. /\ TypeOK /\ save \in [Saves -> SaveRec] /\ store.doc \in Docs
      /\ SaveGoesWith(s, f) /\ Shown /\ Active = session
      /\ session.draft[f] = typed[f] /\ store.doc[f] # typed[f]
      /\ typed[f] \in 0..used["values"]
  BY OldNumbers DEF TypeInv, TypeOK, SaveTypes, SaveRec, StoreTypes, Kept, At,
                    Active, Scope
<1>1. ASSUME save'[s] = save[s]
      PROVE  SaveGoesWith(s, f)'
  BY <1>0, <1>1 DEF SaveGoesWith
<1>2. ASSUME save'[s].st \in {"none", "refused"}
      PROVE  SaveGoesWith(s, f)'
  BY <1>2 DEF SaveGoesWith
<1>3. Blank[f] = 0
  BY DEF Blank
<1>4. ~Leave /\ \A p \in Projects : ~Show(p)
  BY <1>3 DEF Leave, Show
<1>5. ASSUME NEW t \in Saves, SaveArrives(t)
      PROVE  SaveGoesWith(s, f)'
  <2>1. CASE save' = [save EXCEPT ![t] = Refused(t)]
    <3>1. Refused(t).st = "refused"
      BY DEF Refused, NoSave
    <3> QED
      BY <1>0, <1>1, <1>2, <2>1, <3>1
  <2>2. CASE save' # [save EXCEPT ![t] = Refused(t)]
    <3>1. PICK g, d : save' = [save EXCEPT ![t].st = "saved", ![t].gen = g,
                                           ![t].doc = d]
      BY <1>5, <2>2 DEF SaveArrives
    <3>2. CASE t # s
      BY <1>0, <1>1, <3>1, <3>2
    <3>3. CASE t = s
      <4>1. /\ save'[s].st = "saved" /\ save'[s].draft = save[s].draft
            /\ save'[s].here = save[s].here
        BY <1>0, <3>1, <3>3 DEF SaveRec
      <4>2. typed' = [g2 \in Fields |->
                        IF /\ save[s].draft /\ save[s].here
                           /\ typed[g2] = save[s].after[g2]
                        THEN 0 ELSE typed[g2]]
        BY <1>5, <2>2, <3>3 DEF SaveArrives
      <4>3. save[s].st = "sent"
        BY <1>5, <3>3 DEF SaveArrives
      <4>4. ~(save[s].draft /\ save[s].here)
        BY <1>0, <4>2, <4>3 DEF SaveGoesWith
      <4> QED
        BY <4>1, <4>4 DEF SaveGoesWith
    <3> QED
      BY <3>2, <3>3
  <2> QED
    BY <2>1, <2>2
<1>6. ASSUME NEW t \in Saves, SaveFails(t) \/ SaveReplied(t) \/ SaveRefused(t)
      PROVE  SaveGoesWith(s, f)'
  <2>1. save' = [save EXCEPT ![t] = NoSave] \/ save' = [save EXCEPT ![t] = Refused(t)]
    BY <1>6 DEF SaveFails, SaveReplied, SaveRefused
  <2>2. NoSave.st = "none" /\ Refused(t).st = "refused"
    BY DEF NoSave, Refused
  <2> QED
    BY <1>0, <1>1, <1>2, <2>1, <2>2
<1>8. ASSUME NEW t \in Saves, Apply(t)
      PROVE  SaveGoesWith(s, f)'
  <2>1. Send(t, TRUE, Active.base, Active.draft)
    BY <1>8 DEF Apply
  <2>2. \A u \in Saves \ {t} : save'[u] = save[u]
    BY <1>0, <2>1 DEF Send
  <2>3. /\ save'[t].st = "sent" /\ save'[t].draft /\ save'[t].here
        /\ save'[t].after = Active.draft
    BY <1>0, <2>1 DEF Send, NoSave
  <2> QED
    BY <1>0, <1>1, <2>2, <2>3 DEF SaveGoesWith
<1>9. ASSUME NEW t \in Saves, NEW g \in Fields, PatchDirectly(t, g)
      PROVE  SaveGoesWith(s, f)'
  <2> DEFINE new == [store.doc EXCEPT ![g] = NewValue]
  <2>1. Send(t, FALSE, store.doc, new)
    BY <1>9 DEF PatchDirectly
  <2>2. NewValue = used["values"] + 1 /\ used["values"] \in Nat
    BY <1>0, <1>9, OldNumbers DEF NewValue
  <2>3. new[f] # typed[f]
    BY <1>0, <2>2 DEF Docs
  <2> HIDE DEF new
  <2>4. \A u \in Saves \ {t} : save'[u] = save[u]
    BY <1>0, <2>1 DEF Send
  <2>5. save'[t].st = "sent" /\ ~save'[t].draft /\ save'[t].after = new
    BY <1>0, <2>1 DEF Send, NoSave
  <2> QED
    BY <1>1, <2>3, <2>4, <2>5 DEF SaveGoesWith
<1>10. CASE UNCHANGED save
  BY <1>1, <1>10
<1>11. ASSUME NEW g \in Fields, Edit(g)
       PROVE  SaveGoesWith(s, f)'
  <2>1. /\ save'[s].st = save[s].st /\ save'[s].draft = save[s].draft
        /\ save'[s].here = save[s].here /\ save'[s].after = save[s].after
    BY <1>0, <1>11, EditSaves DEF TypeOK
  <2> QED
    BY <1>0, <2>1 DEF SaveGoesWith
<1> QED
  BY <1>4, <1>5, <1>6, <1>8, <1>9, <1>10, <1>11
     DEF Next, vars, AgentWrites, Delete, PollAnswered, PollFails,
         PollApplied, ExtraPoll, TimerFires, Merge, Discard,
         AcceptConflicts

\* Every step keeps KeptInv.
LEMMA KeptStep ==
    ASSUME TypeInv, ValInv, KeptInv, [Next]_vars
    PROVE  KeptInv'
<1> SUFFICES ASSUME NEW f \in Fields, typed'[f] # 0
             PROVE  Kept(f)'
  BY DEF KeptInv
<1>1. CASE Edit(f) /\ typed'[f] # typed[f]
  BY <1>1, KeptByEdit
<1>2. CASE typed'[f] = typed[f]
  <2>1. Kept(f)
    BY <1>2 DEF KeptInv
  <2>2. Shown' /\ session'.scope = page'
    BY <2>1, KeptPlace
  <2>3. session'.draft[f] = typed'[f] /\ session'.base[f] # typed'[f]
    BY <1>2, <2>1, KeptInDraft
  <2>4. ~At(f, typed[f])'
    BY <1>2, <2>1, KeptAway
  <2>5. \A s \in Saves : SaveGoesWith(s, f)'
    BY <1>2, <2>1, KeptBySaves
  <2> QED
    BY <2>2, <2>3, <2>4, <2>5 DEF Kept
<1> QED
  BY <1>1, <1>2, DraftMove DEF TypeInv

\* What the user typed is in the draft until it is saved or given up, however
\* often polls, agents, other panels and conflicts change the document under
\* it (useProjectDraft.ts, the merge).
THEOREM TypedStaysKept == Spec => []TypedIsKept
<1>1. Init => ValInv /\ KeptInv
  <2> SUFFICES ASSUME Init
               PROVE  ValInv /\ KeptInv
    OBVIOUS
  <2>1. \A f \in Fields : Blank[f] = 0
    BY DEF Blank
  <2>2. \A f \in Fields, v \in 0..MaxValues : At(f, v) => v = 0
    BY <2>1 DEF Init, At, SnapshotBase, NoPoll, NoSave
  <2>3. used["values"] = 0 /\ typed = Blank
    BY DEF Init
  <2>4. DocsOld
    BY <2>2, <2>3 DEF DocsOld
  <2>5. DraftOld
    BY <2>1, <2>3 DEF Init, DraftOld, Fresh
  <2>6. SavesOld
    BY <2>1, <2>3 DEF Init, SavesOld, NoSave
  <2> QED
    BY <2>1, <2>3, <2>4, <2>5, <2>6 DEF ValInv, KeptInv
<1>2. TypeInv /\ ValInv /\ KeptInv /\ [Next]_vars => (ValInv /\ KeptInv)'
  BY ValStep, KeptStep
<1>3. KeptInv => TypedIsKept
  BY DEF KeptInv, Kept, TypedIsKept
<1> QED
  BY <1>1, <1>2, <1>3, TypeInvCorrect, PTL DEF Spec

(***************************************************************************)
(* What the page converges to.                                             *)
(***************************************************************************)

\* A generation with a document is one the project has had: not later than
\* the one of now, and with the document of now when it is that one.
Copy(g, d, p) ==
    g <= server[p].gen /\ (g = server[p].gen => d = server[p].doc)

\* What the store shows, a poll brings and a save is told are such copies.
CopyInv ==
    /\ store.loaded => Copy(store.gen, store.doc, store.proj)
    /\ \A p \in Projects : poll[p].st = "snapshot" => Copy(poll[p].gen, poll[p].doc, p)
    /\ \A s \in Saves :
           save[s].st = "saved" => Copy(save[s].gen, save[s].doc, save[s].proj)

\* Whoever changes a document, an agent or a save, makes a generation.
LEMMA ServerWrites ==
    ASSUME TypeOK, PlaceInv, [Next]_vars, NEW p \in Projects
    PROVE  \/ server'[p].gen = server[p].gen /\ server'[p].doc = server[p].doc
           \/ server'[p].gen = server[p].gen + 1
<1>0. ServerTypes
  BY DEF TypeOK
<1>1. ASSUME NEW q \in Projects, \E f \in Fields : AgentWrites(q, f)
      PROVE  \/ server'[p].gen = server[p].gen /\ server'[p].doc = server[p].doc
             \/ server'[p].gen = server[p].gen + 1
  BY <1>0, <1>1 DEF AgentWrites, ServerTypes
<1>2. ASSUME NEW q \in Projects, Delete(q)
      PROVE  server'[p].gen = server[p].gen /\ server'[p].doc = server[p].doc
  BY <1>0, <1>2 DEF Delete, ServerTypes
<1>3. ASSUME NEW s \in Saves, SaveArrives(s)
      PROVE  \/ server'[p].gen = server[p].gen /\ server'[p].doc = server[p].doc
             \/ server'[p].gen = server[p].gen + 1
  <2>1. save[s].proj \in Projects
    BY <1>3 DEF SaveArrives, PlaceInv
  <2>2. \/ UNCHANGED server
        \/ \E d : server' = [server EXCEPT ![save[s].proj].gen = @ + 1,
                                           ![save[s].proj].doc = d]
    BY <1>3 DEF SaveArrives
  <2>3. CASE p = save[s].proj
    BY <1>0, <2>1, <2>2, <2>3 DEF ServerTypes
  <2>4. CASE p # save[s].proj
    BY <1>0, <2>2, <2>4 DEF ServerTypes
  <2> QED
    BY <2>3, <2>4
<1>4. \/ UNCHANGED server
      \/ \E q \in Projects : (\E f \in Fields : AgentWrites(q, f)) \/ Delete(q)
      \/ \E s \in Saves : SaveArrives(s)
  BY ZenonT(60)
     DEF Next, vars, PollAnswered, PollFails, PollApplied, ExtraPoll, Show,
         Edit, SaveFails, Apply, PatchDirectly, SaveReplied, SaveRefused,
         TimerFires, Leave, Merge, Discard, AcceptConflicts
<1> QED
  BY <1>1, <1>2, <1>3, <1>4

\* So a copy stays one.
LEMMA CopyStays ==
    ASSUME TypeOK, PlaceInv, [Next]_vars, NEW p \in Projects, NEW g \in Gens, NEW d,
           Copy(g, d, p)
    PROVE  Copy(g, d, p)'
<1>1. server[p].gen \in Nat /\ g \in Nat
  BY BoundsAreNaturals DEF TypeOK, ServerTypes, Gens
<1> QED
  BY <1>1, ServerWrites DEF Copy

\* What the store takes from a poll or a save is a copy; 304 leaves it alone.
LEMMA CopyInStore ==
    ASSUME TypeOK, PlaceInv, CopyInv, [Next]_vars, store'.loaded
    PROVE  Copy(store.gen, store.doc, store.proj)'
<1>0. StoreTypes /\ store \in StoreRec
  BY DEF TypeOK, StoreTypes, StoreRec
<1>1. ASSUME store.loaded, store'.proj = store.proj, store'.gen = store.gen,
             store'.doc = store.doc
      PROVE  Copy(store.gen, store.doc, store.proj)'
  <2>1. store.proj \in Projects /\ store.gen \in Gens
    BY <1>0, <1>1 DEF PlaceInv, StoreRec
  <2>2. PICK p \in Projects : p = store.proj
    BY <2>1
  <2>3. PICK g \in Gens : g = store.gen
    BY <2>1
  <2>4. PICK d : d = store.doc
    OBVIOUS
  <2>5. Copy(g, d, p)'
    BY <1>1, <2>2, <2>3, <2>4, CopyStays DEF CopyInv
  <2> QED
    BY <1>1, <2>2, <2>3, <2>4, <2>5 DEF Copy
<1>2. ASSUME NEW p \in Projects, store' = EnsureProject(p) \/ store' = SnapshotBase(p)
      PROVE  Copy(store.gen, store.doc, store.proj)'
  <2>1. store' = store
    BY <1>0, <1>2, EnsureType
  <2> QED
    BY <1>1, <2>1
<1>3. ASSUME NEW on \in BOOLEAN, store' = [store EXCEPT !.patching = on]
      PROVE  Copy(store.gen, store.doc, store.proj)'
  <2>1. /\ store.loaded /\ store'.proj = store.proj
        /\ store'.gen = store.gen /\ store'.doc = store.doc
    BY <1>0, <1>3 DEF StoreRec
  <2> QED
    BY <1>1, <2>1
<1>4. ASSUME NEW p \in Projects, poll[p].st = "snapshot", Takes(p),
             store' = [store EXCEPT !.loaded = TRUE, !.of = p,
                                    !.gen = poll[p].gen, !.doc = poll[p].doc]
      PROVE  Copy(store.gen, store.doc, store.proj)'
  <2>1. PICK g \in Gens : g = poll[p].gen
    BY DEF TypeOK, PollTypes
  <2>2. PICK d : d = poll[p].doc
    OBVIOUS
  <2>3. Copy(g, d, p)'
    BY <1>4, <2>1, <2>2, CopyStays DEF CopyInv
  <2>4. store'.proj = p /\ store'.gen = g /\ store'.doc = d
    BY <1>0, <1>4, <2>1, <2>2 DEF Takes, StoreRec
  <2> QED
    BY <2>3, <2>4 DEF Copy
<1>5. ASSUME NEW s \in Saves, save[s].st = "saved", store.proj = save[s].proj,
             store' = [store EXCEPT !.loaded = TRUE, !.of = save[s].proj,
                                    !.gen = save[s].gen, !.doc = save[s].doc,
                                    !.patching = FALSE]
      PROVE  Copy(store.gen, store.doc, store.proj)'
  <2>1. PICK p \in Projects : p = save[s].proj
    BY <1>5 DEF PlaceInv
  <2>2. PICK g \in Gens : g = save[s].gen
    BY DEF TypeOK, SaveTypes
  <2>3. PICK d : d = save[s].doc
    OBVIOUS
  <2>4. Copy(g, d, p)'
    BY <1>5, <2>1, <2>2, <2>3, CopyStays DEF CopyInv
  <2>5. store'.proj = p /\ store'.gen = g /\ store'.doc = d
    BY <1>0, <1>5, <2>1, <2>2, <2>3 DEF StoreRec
  <2> QED
    BY <2>4, <2>5 DEF Copy
<1>6. CASE UNCHANGED store
  BY <1>1, <1>6
<1>7. StoreMoves
  BY StoreMove
<1> QED
  BY <1>2, <1>3, <1>4, <1>5, <1>6, <1>7, ZenonT(30) DEF StoreMoves

\* A snapshot that is not one under way already is what the backend has.
LEMMA CopyInPolls ==
    ASSUME TypeOK, PlaceInv, CopyInv, [Next]_vars, NEW p \in Projects,
           poll'[p].st = "snapshot"
    PROVE  Copy(poll[p].gen, poll[p].doc, p)'
<1>0. StoreTypes /\ PollTypes
  BY DEF TypeOK
<1>1. ASSUME poll[p].st = "snapshot", poll'[p].gen = poll[p].gen, poll'[p].doc = poll[p].doc
      PROVE  Copy(poll[p].gen, poll[p].doc, p)'
  <2>1. PICK g \in Gens : g = poll[p].gen
    BY <1>0 DEF PollTypes
  <2>2. PICK d : d = poll[p].doc
    OBVIOUS
  <2>3. Copy(g, d, p)'
    BY <1>1, <2>1, <2>2, CopyStays DEF CopyInv
  <2> QED
    BY <1>1, <2>1, <2>2, <2>3 DEF Copy
<1>2. ASSUME NEW q \in Projects, Fenced(q, poll)[p].st = "snapshot"
      PROVE  /\ poll[p].st = "snapshot" /\ Fenced(q, poll)[p].gen = poll[p].gen
             /\ Fenced(q, poll)[p].doc = poll[p].doc
  BY <1>0, <1>2 DEF Fenced, PollTypes
<1>3. ASSUME NEW q \in Projects, NEW st, Ask(q, st, Fenced(q, poll))[p].st = "snapshot"
      PROVE  Fenced(q, poll)[p] = Ask(q, st, Fenced(q, poll))[p]
  <2>1. p \in DOMAIN Fenced(q, poll)
    BY <1>0, FencedType
  <2> QED
    BY <1>3, <2>1 DEF Ask, NoPoll
<1>4. ASSUME NEW q \in Projects, PollOnce(q) \/ Show(q)
      PROVE  Copy(poll[p].gen, poll[p].doc, p)'
  BY <1>1, <1>2, <1>3, <1>4 DEF PollOnce, Show
<1>5. ASSUME NEW q \in Projects, PollAnswered(q)
      PROVE  Copy(poll[p].gen, poll[p].doc, p)'
  <2>1. CASE p # q
    BY <1>0, <1>1, <1>5, <2>1 DEF PollAnswered, PollTypes
  <2>2. CASE p = q
    <3>1. /\ poll'[p].gen = server[p].gen /\ poll'[p].doc = server[p].doc
          /\ UNCHANGED server
      BY <1>0, <1>5, <2>2 DEF PollAnswered, PollTypes, NoPoll
    <3>2. server[p].gen \in Nat
      BY BoundsAreNaturals DEF TypeOK, ServerTypes, Gens
    <3> QED
      BY <3>1, <3>2 DEF Copy
  <2> QED
    BY <2>1, <2>2
<1>6. ASSUME NEW q \in Projects, PollFails(q) \/ PollApplied(q)
      PROVE  Copy(poll[p].gen, poll[p].doc, p)'
  <2> DEFINE lost == [NoPoll EXCEPT !.st = "failed", !.fresh = poll[q].fresh]
  <2>1. lost.st = "failed" /\ NoPoll.st = "none"
    BY DEF NoPoll
  <2>2. poll' = [poll EXCEPT ![q] = lost] \/ poll' = [poll EXCEPT ![q] = NoPoll]
    BY <1>6 DEF PollFails, PollApplied
  <2> HIDE DEF lost
  <2>3. p # q
    BY <1>0, <2>1, <2>2 DEF PollTypes
  <2>4. poll'[p] = poll[p]
    BY <1>0, <2>2, <2>3 DEF PollTypes
  <2> QED
    BY <1>1, <2>4
<1>7. CASE TimerFires
  <2>1. poller.proj \in Projects /\ PollOnce(poller.proj)
    BY <1>7 DEF TimerFires, PlaceInv
  <2> QED
    BY <1>4, <2>1
<1>8. CASE UNCHANGED poll
  BY <1>1, <1>8
<1>9. \/ UNCHANGED poll \/ TimerFires
      \/ \E q \in Projects : \/ PollAnswered(q) \/ PollFails(q) \/ PollApplied(q)
                             \/ PollOnce(q) \/ Show(q)
  BY ZenonT(60)
     DEF Next, vars, AgentWrites, Delete, ExtraPoll, Edit, SaveArrives,
         SaveFails, Apply, PatchDirectly, SaveReplied, SaveRefused, Leave,
         Merge, Discard, AcceptConflicts
<1> QED
  BY <1>4, <1>5, <1>6, <1>7, <1>8, <1>9

\* A save is told the generation and the document it has made.
LEMMA CopyInSaves ==
    ASSUME TypeOK, PlaceInv, CopyInv, [Next]_vars, NEW s \in Saves,
           save'[s].st = "saved"
    PROVE  Copy(save[s].gen, save[s].doc, save[s].proj)'
<1>0. SaveTypes
  BY DEF TypeOK
<1>1. ASSUME save[s].st = "saved", save'[s].gen = save[s].gen,
             save'[s].doc = save[s].doc, save'[s].proj = save[s].proj
      PROVE  Copy(save[s].gen, save[s].doc, save[s].proj)'
  <2>1. PICK p \in Projects : p = save[s].proj
    BY <1>1 DEF PlaceInv
  <2>2. PICK g \in Gens : g = save[s].gen
    BY <1>0 DEF SaveTypes
  <2>3. PICK d : d = save[s].doc
    OBVIOUS
  <2>4. Copy(g, d, p)'
    BY <1>1, <2>1, <2>2, <2>3, CopyStays DEF CopyInv
  <2> QED
    BY <1>1, <2>1, <2>2, <2>3, <2>4 DEF Copy
<1>2. ASSUME NEW t \in Saves, SaveArrives(t)
      PROVE  Copy(save[s].gen, save[s].doc, save[s].proj)'
  <2>1. CASE s # t
    <3>1. save'[s] = save[s]
      BY <1>0, <1>2, <2>1 DEF SaveArrives, SaveTypes
    <3> QED
      BY <1>1, <3>1
  <2>2. CASE s = t
    <3>0. save[s].proj \in Projects
      BY <1>2, <2>2 DEF SaveArrives, PlaceInv
    <3>1. PICK p \in Projects : p = save[s].proj
      BY <3>0
    <3>2. PICK d : d = Patched(s, server[p].doc)
      OBVIOUS
    <3>3. save' # [save EXCEPT ![s] = Refused(s)]
      <4>1. Refused(s).st = "refused"
        BY DEF Refused, NoSave
      <4> QED
        BY <1>0, <4>1 DEF SaveTypes
    <3>4. /\ server' = [server EXCEPT ![p].gen = @ + 1, ![p].doc = d]
          /\ save' = [save EXCEPT ![s].st = "saved", ![s].gen = server[p].gen + 1,
                                  ![s].doc = d]
      BY <1>2, <2>2, <3>1, <3>2, <3>3 DEF SaveArrives
    <3>5. /\ save'[s].gen = server[p].gen + 1 /\ save'[s].doc = d
          /\ save'[s].proj = p
      BY <1>0, <3>1, <3>4 DEF SaveTypes
    <3>6. /\ server'[p].gen = server[p].gen + 1 /\ server'[p].doc = d
          /\ server[p].gen \in Nat
      BY <3>4, BoundsAreNaturals DEF TypeOK, ServerTypes, Gens
    <3> QED
      BY <3>5, <3>6 DEF Copy
  <2> QED
    BY <2>1, <2>2
<1>3. ASSUME NEW t \in Saves, \/ SaveFails(t) \/ SaveReplied(t) \/ SaveRefused(t)
                              \/ Apply(t) \/ \E f \in Fields : PatchDirectly(t, f)
      PROVE  save'[s] = save[s]
  <2>1. save'[t].st # "saved" /\ \A u \in Saves \ {t} : save'[u] = save[u]
    <3>1. CASE SaveFails(t)
      BY <1>0, <3>1 DEF SaveFails, SaveTypes, Refused, NoSave
    <3>2. CASE SaveReplied(t) \/ SaveRefused(t)
      BY <1>0, <3>2 DEF SaveReplied, SaveRefused, SaveTypes, NoSave
    <3>3. CASE Apply(t) \/ \E f \in Fields : PatchDirectly(t, f)
      <4>1. PICK draft, before, after : Send(t, draft, before, after)
        BY <3>3 DEF Apply, PatchDirectly
      <4> QED
        BY <1>0, <4>1 DEF Send, SaveTypes, NoSave
    <3> QED
      BY <1>3, <3>1, <3>2, <3>3
  <2> QED
    BY <2>1
<1>4. ASSUME Leave \/ \E p \in Projects : Show(p)
      PROVE  /\ save'[s].st = save[s].st /\ save'[s].gen = save[s].gen
             /\ save'[s].doc = save[s].doc /\ save'[s].proj = save[s].proj
  BY <1>0, <1>4 DEF Leave, Show, SaveTypes
<1>5. ASSUME NEW f \in Fields, Edit(f)
      PROVE  /\ save'[s].st = save[s].st /\ save'[s].gen = save[s].gen
             /\ save'[s].doc = save[s].doc /\ save'[s].proj = save[s].proj
  BY <1>0, <1>5, EditSaves
<1>6. \/ UNCHANGED save \/ Leave
      \/ \E p \in Projects : Show(p)
      \/ \E f \in Fields : Edit(f)
      \/ \E t \in Saves : \/ SaveArrives(t) \/ SaveFails(t) \/ SaveReplied(t)
                          \/ SaveRefused(t) \/ Apply(t)
                          \/ \E f \in Fields : PatchDirectly(t, f)
  BY ZenonT(60)
     DEF Next, vars, AgentWrites, Delete, PollAnswered, PollFails,
         PollApplied, ExtraPoll, TimerFires, Merge, Discard,
         AcceptConflicts
<1> QED
  BY <1>1, <1>2, <1>3, <1>4, <1>5, <1>6

\* CopyInv always holds.
LEMMA CopyCorrect == Spec => []CopyInv
<1>1. Init => CopyInv
  BY DEF Init, CopyInv, SnapshotBase, NoPoll, NoSave
<1>2. TypeInv /\ CopyInv /\ [Next]_vars => CopyInv'
  BY CopyInStore, CopyInPolls, CopyInSaves DEF TypeInv, CopyInv, Copy
<1> QED
  BY <1>1, <1>2, TypeInvCorrect, PTL DEF Spec

\* What is polled again: the controller of a page waits for its timer or for a
\* poll under way, and only a project that is gone ends it.
PollInv ==
    /\ poller.ph = "run" => poll[poller.proj].st # "none"
    /\ poller.ph = "off" /\ page # NoProject => ~server[page].alive
    /\ \A p \in Projects : poll[p].st = "not_found" => ~server[p].alive

\* A project that is gone stays so.
LEMMA GoneStaysGone ==
    ASSUME TypeOK, PlaceInv, [Next]_vars, NEW p \in Projects, ~server[p].alive
    PROVE  ~server'[p].alive
<1>0. ServerTypes
  BY DEF TypeOK
<1>1. ASSUME NEW q \in Projects, (\E f \in Fields : AgentWrites(q, f)) \/ Delete(q)
      PROVE  ~server'[p].alive
  BY <1>0, <1>1 DEF AgentWrites, Delete, ServerTypes
<1>2. ASSUME NEW s \in Saves, SaveArrives(s)
      PROVE  ~server'[p].alive
  <2>1. \/ UNCHANGED server
        \/ \E d : server' = [server EXCEPT ![save[s].proj].gen = @ + 1,
                                           ![save[s].proj].doc = d]
    BY <1>2 DEF SaveArrives
  <2> QED
    BY <1>0, <2>1 DEF ServerTypes
<1>3. \/ UNCHANGED server
      \/ \E q \in Projects : (\E f \in Fields : AgentWrites(q, f)) \/ Delete(q)
      \/ \E s \in Saves : SaveArrives(s)
  BY ZenonT(60)
     DEF Next, vars, PollAnswered, PollFails, PollApplied, ExtraPoll, Show,
         Edit, SaveFails, Apply, PatchDirectly, SaveReplied, SaveRefused,
         TimerFires, Leave, Merge, Discard, AcceptConflicts
<1> QED
  BY <1>1, <1>2, <1>3

\* What a step does to the polls: one is answered, lost or applied, the others
\* stay or are fenced off, and nobody takes a request back.
LEMMA PollsGoOn ==
    ASSUME TypeOK, PlaceInv, [Next]_vars
    PROVE  /\ \A p \in Projects : poll[p].st # "none" /\ ~PollApplied(p)
                                      => poll'[p].st # "none"
           /\ \A p \in Projects : poll'[p].st = "not_found" =>
                                      poll[p].st = "not_found" \/ ~server[p].alive
           /\ \A p \in Projects : PollOnce(p) \/ Show(p) => poll'[p].st # "none"
<1> DEFINE Good ==
        /\ \A p \in Projects : poll[p].st # "none" /\ ~PollApplied(p)
                                   => poll'[p].st # "none"
        /\ \A p \in Projects : poll'[p].st = "not_found" =>
                                   poll[p].st = "not_found" \/ ~server[p].alive
<1>0. StoreTypes /\ PollTypes
  BY DEF TypeOK
<1>1. ASSUME NEW q \in Projects, NEW p \in Projects
      PROVE  Fenced(q, poll)[p].st = poll[p].st
  BY <1>0 DEF Fenced, PollTypes
<1>2. ASSUME NEW q \in Projects, NEW p \in Projects, NEW st
      PROVE  Ask(q, st, Fenced(q, poll))[p].st = IF p = q THEN "sent" ELSE poll[p].st
  <2>1. p \in DOMAIN Fenced(q, poll)
    BY <1>0, FencedType
  <2> QED
    BY <1>1, <2>1 DEF Ask, NoPoll
<1>3. ASSUME NEW q \in Projects, PollOnce(q) \/ Show(q)
      PROVE  /\ \A p \in Projects \ {q} : poll'[p].st = poll[p].st
             /\ poll'[q].st = IF poll[q].st = "none" THEN "sent" ELSE poll[q].st
  BY <1>1, <1>2, <1>3 DEF PollOnce, Show
<1>4. ASSUME NEW q \in Projects, PollAnswered(q) \/ PollFails(q)
      PROVE  Good
  <2>1. \A p \in Projects \ {q} : poll'[p] = poll[p]
    BY <1>0, <1>4 DEF PollAnswered, PollFails, PollTypes
  <2>2. poll'[q].st # "none" /\ (poll'[q].st = "not_found" => ~server[q].alive)
    <3> DEFINE none == [NoPoll EXCEPT !.fresh = poll[q].fresh]
               lost == [NoPoll EXCEPT !.st = "failed", !.fresh = poll[q].fresh]
               gone == [none EXCEPT !.st = "not_found"]
               same == [none EXCEPT !.st = "not_modified"]
               snap == [none EXCEPT !.st = "snapshot", !.gen = server[q].gen,
                                    !.doc = server[q].doc]
    <3>1. /\ lost.st = "failed" /\ gone.st = "not_found"
          /\ same.st = "not_modified" /\ snap.st = "snapshot"
      BY DEF NoPoll
    <3>2. \/ poll' = [poll EXCEPT ![q] = lost] \/ poll' = [poll EXCEPT ![q] = same]
          \/ poll' = [poll EXCEPT ![q] = snap]
          \/ ~server[q].alive /\ poll' = [poll EXCEPT ![q] = gone]
      BY <1>0, <1>4 DEF PollAnswered, PollFails, PollTypes
    <3> HIDE DEF lost, gone, same, snap
    <3>3. \/ poll'[q] = lost \/ poll'[q] = same \/ poll'[q] = snap
          \/ ~server[q].alive /\ poll'[q] = gone
      BY <1>0, <3>2 DEF PollTypes
    <3> QED
      BY <3>1, <3>3
  <2> QED
    BY <2>1, <2>2
<1>5. ASSUME NEW q \in Projects, PollApplied(q)
      PROVE  Good
  <2>1. poll' = [poll EXCEPT ![q] = NoPoll] /\ NoPoll.st = "none"
    BY <1>5 DEF PollApplied, NoPoll
  <2>2. \A p \in Projects \ {q} : poll'[p] = poll[p]
    BY <1>0, <2>1 DEF PollTypes
  <2>3. poll'[q].st = "none"
    BY <1>0, <2>1 DEF PollTypes
  <2> QED
    BY <1>5, <2>2, <2>3
<1>6. CASE TimerFires
  <2>1. poller.proj \in Projects /\ PollOnce(poller.proj)
    BY <1>6 DEF TimerFires, PlaceInv
  <2> QED
    BY <1>3, <2>1
<1>7. \/ UNCHANGED poll \/ TimerFires
      \/ \E q \in Projects : \/ PollAnswered(q) \/ PollFails(q) \/ PollApplied(q)
                             \/ PollOnce(q) \/ Show(q)
  BY ZenonT(60)
     DEF Next, vars, AgentWrites, Delete, ExtraPoll, Edit, SaveArrives,
         SaveFails, Apply, PatchDirectly, SaveReplied, SaveRefused, Leave,
         Merge, Discard, AcceptConflicts
<1>8. ASSUME NEW q \in Projects, PollOnce(q) \/ Show(q)
      PROVE  Good /\ poll'[q].st # "none"
  BY <1>3, <1>8
<1>9. Good
  BY <1>4, <1>5, <1>6, <1>7, <1>8
<1> QED
  BY <1>8, <1>9

\* Every step keeps PollInv.
LEMMA PollInvStep ==
    ASSUME TypeOK, PlaceInv, PollInv, [Next]_vars
    PROVE  PollInv'
<1>0. /\ poller \in [proj: Projects \cup {NoProject}, ph: {"off", "run", "timer"}]
      /\ poller.proj \in {NoProject, page} /\ page \in Projects \cup {NoProject}
      /\ poller.ph # "off" => poller.proj \in Projects
  BY DEF TypeOK, StoreTypes, PollTypes, PlaceInv
<1>1. ASSUME NEW p \in Projects, poll'[p].st = "not_found"
      PROVE  ~server'[p].alive
  BY <1>1, PollsGoOn, GoneStaysGone DEF PollInv
<1>2. ASSUME UNCHANGED <<page, poller>>, \A p \in Projects : ~PollApplied(p)
      PROVE  PollInv'
  <2>1. poller'.ph = "run" => poll'[poller'.proj].st # "none"
    BY <1>0, <1>2, PollsGoOn DEF PollInv
  <2>2. poller'.ph = "off" /\ page' # NoProject => ~server'[page'].alive
    BY <1>0, <1>2, GoneStaysGone DEF PollInv
  <2> QED
    BY <1>1, <2>1, <2>2 DEF PollInv
<1>3. ASSUME NEW q \in Projects, PollApplied(q)
      PROVE  PollInv'
  <2>1. UNCHANGED <<page, server>>
    BY <1>3 DEF PollApplied
  <2>2. CASE poller.proj # q
    <3>1. UNCHANGED poller
      BY <1>3, <2>2 DEF PollApplied
    <3>2. poller.ph = "run" => poll'[poller.proj] = poll[poller.proj]
      BY <1>3, <2>2 DEF PollApplied, TypeOK, PollTypes
    <3> QED
      BY <1>1, <2>1, <3>1, <3>2 DEF PollInv
  <2>3. CASE poller.proj = q /\ Final(q)
    <3>1. page = q /\ ~server[q].alive
      BY <1>0, <2>3, NoProjectIsNoProject DEF Final, PollInv
    <3>2. poller' = Idle \/ poller' = [poller EXCEPT !.ph = "timer"]
      BY <1>3, <2>3 DEF PollApplied
    <3>3. poller'.ph # "run"
      BY <1>0, <3>2 DEF Idle
    <3> QED
      BY <1>1, <2>1, <3>1, <3>3 DEF PollInv
  <2>4. CASE poller.proj = q /\ ~Final(q)
    <3>1. poller' = [poller EXCEPT !.ph = "timer"]
      BY <1>3, <2>4 DEF PollApplied
    <3>2. poller'.ph = "timer"
      BY <1>0, <3>1
    <3> QED
      BY <1>1, <3>2 DEF PollInv
  <2> QED
    BY <2>2, <2>3, <2>4
<1>4. ASSUME NEW q \in Projects, Show(q)
      PROVE  PollInv'
  <2>1. poll'[q].st # "none"
    BY <1>4, PollsGoOn
  <2>2. poller'.proj = q /\ poller'.ph = "run"
    BY <1>4 DEF Show
  <2> QED
    BY <1>1, <2>1, <2>2 DEF PollInv
<1>5. CASE Leave
  <2>1. page' = NoProject /\ poller' = Idle
    BY <1>5 DEF Leave
  <2> QED
    BY <1>1, <2>1 DEF PollInv, Idle
<1>6. CASE TimerFires
  <2>1. /\ poller' = [poller EXCEPT !.ph = "run"] /\ poller.proj \in Projects
        /\ PollOnce(poller.proj)
    BY <1>6 DEF TimerFires, PlaceInv
  <2>2. poll'[poller.proj].st # "none"
    BY <2>1, PollsGoOn
  <2>3. poller'.ph = "run" /\ poller'.proj = poller.proj
    BY <1>0, <2>1
  <2> QED
    BY <1>1, <2>2, <2>3 DEF PollInv
<1>7. \/ UNCHANGED <<page, poller>> /\ \A p \in Projects : ~PollApplied(p)
      \/ \E q \in Projects : PollApplied(q) \/ Show(q)
      \/ Leave \/ TimerFires
  BY ZenonT(60)
     DEF Next, vars, AgentWrites, Delete, PollAnswered, PollFails, ExtraPoll,
         Edit, SaveArrives, SaveFails, Apply, PatchDirectly, SaveReplied,
         SaveRefused, Merge, Discard, AcceptConflicts
<1> QED
  BY <1>2, <1>3, <1>4, <1>5, <1>6, <1>7

\* The page of a living project is always going to be polled for again: its
\* controller's timer runs, or a poll of the project is under way, its own or
\* one it joined (projectSnapshotStore.ts).  What is left of Converges is that
\* timers fire and requests are answered.
THEOREM PollingGoesOn ==
    Spec => [](page # NoProject /\ server[page].alive
                  => poller.proj = page /\ (poller.ph = "timer" \/ poll[page].st # "none"))
<1>1. Init => PollInv
  BY DEF Init, PollInv, Idle, NoPoll
<1>2. TypeInv /\ PollInv /\ [Next]_vars => PollInv'
  BY PollInvStep DEF TypeInv
<1>3. TypeInv /\ PollInv =>
        (page # NoProject /\ server[page].alive
            => poller.proj = page /\ (poller.ph = "timer" \/ poll[page].st # "none"))
  BY NoProjectIsNoProject DEF TypeInv, TypeOK, StoreTypes, PollTypes, PlaceInv, PollInv
<1> QED
  BY <1>1, <1>2, <1>3, TypeInvCorrect, PTL DEF Spec

\* Once the effect has run the baseline of the draft is the snapshot shown.
BaseInv ==
    Shown /\ ~news /\ ~skewed => session.scope = page /\ session.base = store.doc

\* The reply to a save of the draft, which is marked as applied.
Marks(s) == SaveReplied(s) /\ save[s].draft /\ save[s].here

\* A step that puts another document before the page leaves it to the effect.
LEMMA NewsOfDocuments ==
    ASSUME TypeOK, PlaceInv, [Next]_vars, Shown', ~news', ~Merge,
           \A s \in Saves : ~Marks(s)
    PROVE  /\ Shown /\ ~news /\ page' = page
           /\ store'.doc = store.doc
           /\ skewed => skewed'
<1>0. StoreTypes /\ store \in StoreRec
  BY DEF TypeOK, StoreTypes, StoreRec
<1>1. ASSUME NEW p \in Projects, PollOnce(p), UNCHANGED <<page, skewed>>
      PROVE  /\ Shown /\ ~news /\ page' = page /\ store'.doc = store.doc
             /\ skewed => skewed'
  BY <1>0, <1>1 DEF PollOnce, EnsureProject, Shown
<1>2. ASSUME NEW p \in Projects, PollApplied(p)
      PROVE  /\ Shown /\ ~news /\ page' = page /\ store'.doc = store.doc
             /\ skewed => skewed'
  BY <1>0, <1>2 DEF PollApplied, Shown, SnapshotBase
<1>3. ASSUME NEW p \in Projects, Show(p)
      PROVE  FALSE
  BY <1>3 DEF Show
<1>4. ~Leave
  <2>1. SUFFICES ASSUME Leave
                 PROVE  FALSE
    OBVIOUS
  <2>2. store.loaded /\ store.proj = NoProject
    BY <2>1 DEF Leave, Shown
  <2> QED
    BY <2>2, NoProjectIsNoProject DEF PlaceInv
<1>5. ASSUME NEW s \in Saves,
             \/ SaveReplied(s) \/ SaveRefused(s) \/ Apply(s)
             \/ \E f \in Fields : PatchDirectly(s, f)
      PROVE  /\ Shown /\ ~news /\ page' = page /\ store'.doc = store.doc
             /\ skewed => skewed'
  <2>0. SaveReplied(s) => ~news /\ ~Newer(s) /\ UNCHANGED <<session, skewed>>
    BY ReplyDraft DEF TypeOK, Marks
  <2>1. \E on \in BOOLEAN : store' = [store EXCEPT !.patching = on]
    <3>1. store.patching \in BOOLEAN
      BY <1>0 DEF StoreRec
    <3>2. CASE SaveReplied(s)
      <4>1. ~Newer(s)
        BY <2>0, <3>2
      <4>2. store' = [store EXCEPT !.patching = @ /\ ~(store.proj = save[s].proj)]
        BY <3>2, <4>1 DEF SaveReplied, Newer
      <4> QED
        BY <1>0, <3>1, <4>2 DEF StoreRec
    <3>4. CASE SaveRefused(s)
      <4>1. store' = [store EXCEPT !.patching = @ /\ store.proj # save[s].proj]
        BY <3>4 DEF SaveRefused
      <4> QED
        BY <1>0, <3>1, <4>1 DEF StoreRec
    <3>3. CASE Apply(s) \/ \E f \in Fields : PatchDirectly(s, f)
      <4>1. PICK draft, before, after : Send(s, draft, before, after)
        BY <3>3 DEF Apply, PatchDirectly
      <4> QED
        BY <4>1 DEF Send
    <3> QED
      BY <1>5, <3>2, <3>3, <3>4
  <2>2. ~news /\ page' = page /\ (skewed => skewed')
    <3>1. CASE SaveReplied(s)
      <4>1. page' = page
        BY <3>1 DEF SaveReplied
      <4> QED
        BY <2>0, <3>1, <4>1
    <3>2. CASE SaveRefused(s)
      BY <3>2 DEF SaveRefused, histories
    <3>3. CASE Apply(s)
      BY <3>3 DEF Apply, histories
    <3>4. CASE \E f \in Fields : PatchDirectly(s, f)
      BY <3>4 DEF PatchDirectly, histories
    <3> QED
      BY <1>5, <3>1, <3>2, <3>3, <3>4
  <2>3. store'.proj = store.proj /\ store'.loaded = store.loaded /\ store'.doc = store.doc
    BY <1>0, <2>1 DEF StoreRec
  <2> QED
    BY <2>2, <2>3 DEF Shown
<1>6. CASE TimerFires
  <2>1. poller.proj \in Projects /\ PollOnce(poller.proj) /\ UNCHANGED <<page, skewed>>
    BY <1>6 DEF TimerFires, PlaceInv
  <2> QED
    BY <1>1, <2>1
<1>7. CASE UNCHANGED <<store, page, news, skewed>>
  BY <1>7 DEF Shown
<1>8. \/ UNCHANGED <<store, page, news, skewed>> \/ TimerFires
      \/ \E p \in Projects : \/ PollOnce(p) /\ UNCHANGED <<page, skewed>>
                             \/ PollApplied(p) \/ Show(p)
      \/ \E s \in Saves : \/ SaveReplied(s) \/ SaveRefused(s) \/ Apply(s)
                          \/ \E f \in Fields : PatchDirectly(s, f)
  BY <1>4, ZenonT(60)
     DEF Next, vars, histories, AgentWrites, Delete, PollAnswered, PollFails,
         ExtraPoll, Edit, SaveArrives, SaveFails, Merge, Discard, AcceptConflicts
<1> QED
  BY <1>1, <1>2, <1>3, <1>5, <1>6, <1>7, <1>8

\* Merging makes the document the baseline, whether it differs or not; what was
\* changed in the draft stays, and nothing else differs from the document.
LEMMA MergeRebases ==
    ASSUME DraftTypes, NEW scope \in Projects \cup {NoProject}, NEW doc \in Docs
    PROVE  /\ Merged(scope, doc).scope = scope /\ Merged(scope, doc).base = doc
           /\ \A f \in Fields :
                  \/ Merged(scope, doc).draft[f] = doc[f]
                  \/ /\ session.scope = scope
                     /\ f \in Changed(session.base, session.draft)
                     /\ Merged(scope, doc).draft[f] = session.draft[f]
<1>0. session \in DraftRec /\ session.base \in Docs /\ session.draft \in Docs
  BY DEF DraftTypes, DraftRec
<1>1. CASE session.scope # scope
  BY <1>1 DEF Merged, Fresh
<1>2. CASE session.scope = scope
  <2>0. Merged(scope, doc) = MergeAuthority(doc)
    BY <1>2 DEF Merged
  <2>1. CASE Changed(session.base, doc) = {}
    <3>1. \A f \in Fields : session.base[f] = doc[f]
      BY <2>1 DEF Changed
    <3>2. session.base = doc
      BY <1>0, <3>1 DEF Docs
    <3>3. MergeAuthority(doc) = session
      BY <2>1 DEF MergeAuthority
    <3>4. \A f \in Fields : \/ session.draft[f] = doc[f]
                            \/ f \in Changed(session.base, session.draft)
      BY <3>1 DEF Changed
    <3> QED
      BY <1>2, <2>0, <3>2, <3>3, <3>4
  <2>2. CASE Changed(session.base, doc) # {}
    <3> DEFINE local == Changed(session.base, session.draft)
    <3>1. CASE local = {}
      <4>1. MergeAuthority(doc) = Fresh(session.scope, doc)
        BY <2>2, <3>1 DEF MergeAuthority
      <4> QED
        BY <1>2, <2>0, <4>1 DEF Fresh
    <3>2. CASE local # {}
      <4> DEFINE draft == [f \in Fields |-> IF f \in local THEN session.draft[f]
                                            ELSE doc[f]]
                 conf == session.conf \cup (local \cap Changed(session.base, doc))
                 mixed == [session EXCEPT !.base = doc, !.draft = draft, !.conf = conf]
      <4>1. MergeAuthority(doc) = mixed
        BY <1>0, <2>2, <3>2 DEF MergeAuthority, DraftRec
      <4>2. \A f \in Fields : \/ draft[f] = doc[f]
                              \/ f \in local /\ draft[f] = session.draft[f]
        OBVIOUS
      <4> HIDE DEF draft, conf, local
      <4>3. mixed.scope = session.scope /\ mixed.base = doc /\ mixed.draft = draft
        BY <1>0 DEF DraftRec
      <4> HIDE DEF mixed
      <4>4. \A f \in Fields : \/ mixed.draft[f] = doc[f]
                              \/ f \in local /\ mixed.draft[f] = session.draft[f]
        BY <4>2, <4>3
      <4> QED
        BY <1>2, <2>0, <4>1, <4>3, <4>4 DEF local
    <3> QED
      BY <3>1, <3>2
  <2> QED
    BY <2>1, <2>2
<1> QED
  BY <1>1, <1>2

\* Nothing but the merge and the end of a save moves the baseline.
LEMMA BaseStays ==
    ASSUME TypeOK, PlaceInv, [Next]_vars, Shown', ~news', ~skewed', ~Merge,
           \A s \in Saves : ~Marks(s),
           session.scope = page, session.base = store.doc
    PROVE  session'.scope = session.scope /\ session'.base = session.base
<1>0. session \in DraftRec /\ Shown /\ Scope = page
  BY NewsOfDocuments DEF TypeOK, DraftTypes, DraftRec, Scope
<1>1. ASSUME NEW f \in Fields, Edit(f)
      PROVE  session'.scope = session.scope /\ session'.base = session.base
  BY <1>0, <1>1 DEF Edit, Active, DraftRec
<1>2. CASE Discard \/ AcceptConflicts
  BY <1>0, <1>2 DEF Discard, AcceptConflicts, Fresh, DraftRec
<1>3. ASSUME NEW s \in Saves, SaveReplied(s)
      PROVE  UNCHANGED session
  BY <1>3, ReplyDraft DEF TypeOK, Marks
<1>4. ASSUME NEW p \in Projects, Show(p)
      PROVE  FALSE
  BY <1>4 DEF Show
<1>5. ~Leave
  <2>1. page' = page /\ page \in Projects
    BY <1>0, NewsOfDocuments DEF Shown, PlaceInv
  <2> QED
    BY <2>1, NoProjectIsNoProject DEF Leave
<1> QED
  BY <1>1, <1>2, <1>3, <1>4, <1>5, ZenonT(60)
     DEF Next, vars, AgentWrites, Delete, PollAnswered, PollFails, PollApplied,
         ExtraPoll, SaveArrives, SaveFails, Apply, PatchDirectly, SaveRefused,
         TimerFires

\* A save that was carried out has its values in its document.
CarriedOut(s) ==
    save[s].st = "saved" =>
        \A f \in Changed(save[s].before, save[s].after) :
            save[s].doc[f] = save[s].after[f]

\* A save of the draft is under way, and nothing was typed since it was sent.
Holds(s) == /\ save[s].st \in {"sent", "saved"} /\ save[s].draft /\ save[s].here
            /\ ~save[s].late /\ session.scope = page

\* What is changed in the draft is in that save then.
Covers(s) ==
    Holds(s) => \A f \in Changed(session.base, session.draft) :
                    /\ f \in Changed(save[s].before, save[s].after)
                    /\ session.draft[f] = save[s].after[f]

ReplyInv == \A s \in Saves : CarriedOut(s) /\ Covers(s)

\* A save ends, stays, is carried out, is sent, or is left behind.
LEMMA SaveSteps ==
    ASSUME TypeOK, PlaceInv, [Next]_vars, NEW s \in Saves
    PROVE  \/ save'[s].st \in {"none", "refused"}
           \/ /\ save'[s].st = "saved" /\ save[s].st = "sent"
              /\ save'[s].before = save[s].before /\ save'[s].after = save[s].after
              /\ save'[s].draft = save[s].draft /\ save'[s].here = save[s].here
              /\ save'[s].late = save[s].late
              /\ \A f \in Changed(save[s].before, save[s].after) :
                    save'[s].doc[f] = save[s].after[f]
              /\ UNCHANGED <<page, session>>
           \/ /\ save'[s].st = save[s].st /\ save'[s].doc = save[s].doc
              /\ save'[s].before = save[s].before /\ save'[s].after = save[s].after
              /\ save'[s].draft = save[s].draft
              /\ \/ ~save'[s].here
                 \/ save'[s].here = save[s].here /\ save'[s].late = save[s].late
                 \/ save'[s].late = save'[s].draft
           \/ /\ save'[s].st = "sent" /\ ~save'[s].draft
           \/ /\ save'[s].st = "sent" /\ Scope = page
              /\ save'[s].before = Active.base /\ save'[s].after = Active.draft
              /\ UNCHANGED <<page, session>>
<1>0. save \in [Saves -> SaveRec]
  BY DEF TypeOK, SaveTypes, SaveRec
<1>1. ASSUME NEW t \in Saves, SaveFails(t) \/ SaveReplied(t) \/ SaveRefused(t)
      PROVE  save'[s].st \in {"none", "refused"} \/ save'[s] = save[s]
  <2>1. save' = [save EXCEPT ![t] = NoSave] \/ save' = [save EXCEPT ![t] = Refused(t)]
    BY <1>1 DEF SaveFails, SaveReplied, SaveRefused
  <2>2. NoSave.st = "none" /\ Refused(t).st = "refused"
    BY DEF NoSave, Refused
  <2> QED
    BY <1>0, <2>1, <2>2
<1>2. ASSUME NEW t \in Saves, t # s,
             \/ SaveArrives(t) \/ Apply(t)
             \/ \E f \in Fields : PatchDirectly(t, f)
      PROVE  save'[s] = save[s]
  <2>1. CASE SaveArrives(t)
    BY <1>0, <1>2, <2>1 DEF SaveArrives, SaveRec
  <2>2. CASE Apply(t) \/ \E f \in Fields : PatchDirectly(t, f)
    <3>1. PICK draft, before, after : Send(t, draft, before, after)
      BY <2>2 DEF Apply, PatchDirectly
    <3> QED
      BY <1>0, <1>2, <3>1 DEF Send
  <2> QED
    BY <1>2, <2>1, <2>2
<1>3. CASE SaveArrives(s)
  <2>1. CASE save' = [save EXCEPT ![s] = Refused(s)]
    <3>1. Refused(s).st = "refused"
      BY DEF Refused, NoSave
    <3> QED
      BY <1>0, <2>1, <3>1
  <2>2. CASE save' # [save EXCEPT ![s] = Refused(s)]
    <3> DEFINE doc == Patched(s, server[save[s].proj].doc)
               gen == server[save[s].proj].gen + 1
    <3>1. save' = [save EXCEPT ![s].st = "saved", ![s].gen = gen, ![s].doc = doc]
      BY <1>3, <2>2 DEF SaveArrives
    <3>2. \A f \in Changed(save[s].before, save[s].after) : doc[f] = save[s].after[f]
      BY DEF Patched, Changed
    <3> HIDE DEF doc, gen
    <3>3. /\ save'[s].st = "saved" /\ save'[s].doc = doc
          /\ save'[s].before = save[s].before /\ save'[s].after = save[s].after
          /\ save'[s].draft = save[s].draft /\ save'[s].here = save[s].here
          /\ save'[s].late = save[s].late
      BY <1>0, <3>1 DEF SaveRec
    <3>4. save[s].st = "sent" /\ UNCHANGED <<page, session>>
      BY <1>3 DEF SaveArrives
    <3> QED
      BY <3>2, <3>3, <3>4
  <2> QED
    BY <2>1, <2>2
<1>4. CASE Apply(s)
  <2>1. Send(s, TRUE, Active.base, Active.draft) /\ Shown /\ UNCHANGED <<page, session>>
    BY <1>4 DEF Apply
  <2>2. /\ save'[s].st = "sent"
        /\ save'[s].before = Active.base /\ save'[s].after = Active.draft
    BY <1>0, <2>1 DEF Send, NoSave
  <2> QED
    BY <2>1, <2>2 DEF Scope
<1>5. ASSUME NEW f \in Fields, PatchDirectly(s, f)
      PROVE  save'[s].st = "sent" /\ ~save'[s].draft
  <2>1. PICK before, after : Send(s, FALSE, before, after)
    BY <1>5 DEF PatchDirectly
  <2> QED
    BY <1>0, <2>1 DEF Send, NoSave
<1>6. ASSUME Leave \/ \E p \in Projects : Show(p)
      PROVE  /\ save'[s].st = save[s].st /\ save'[s].doc = save[s].doc
             /\ save'[s].before = save[s].before /\ save'[s].after = save[s].after
             /\ save'[s].draft = save[s].draft /\ ~save'[s].here
  BY <1>0, <1>6 DEF Leave, Show, SaveRec
<1>7. ASSUME NEW f \in Fields, Edit(f)
      PROVE  /\ save'[s].st = save[s].st /\ save'[s].doc = save[s].doc
             /\ save'[s].before = save[s].before /\ save'[s].after = save[s].after
             /\ save'[s].draft = save[s].draft /\ save'[s].late = save'[s].draft
  BY <1>7, EditSaves DEF TypeOK
<1>8. ASSUME save'[s] = save[s]
      PROVE  /\ save'[s].st = save[s].st /\ save'[s].doc = save[s].doc
             /\ save'[s].before = save[s].before /\ save'[s].after = save[s].after
             /\ save'[s].draft = save[s].draft
             /\ save'[s].here = save[s].here /\ save'[s].late = save[s].late
  BY <1>8
<1>9. \/ UNCHANGED save \/ Leave
      \/ \E p \in Projects : Show(p)
      \/ \E f \in Fields : Edit(f)
      \/ \E t \in Saves : \/ SaveArrives(t) \/ SaveFails(t) \/ SaveReplied(t)
                          \/ SaveRefused(t) \/ Apply(t)
                          \/ \E f \in Fields : PatchDirectly(t, f)
  BY ZenonT(60)
     DEF Next, vars, AgentWrites, Delete, PollAnswered, PollFails,
         PollApplied, ExtraPoll, TimerFires, Merge, Discard, AcceptConflicts
<1>10. CASE UNCHANGED save
  BY <1>8, <1>10
<1>11. ASSUME NEW t \in Saves, t # s,
              \/ SaveArrives(t) \/ SaveFails(t) \/ SaveReplied(t)
              \/ SaveRefused(t) \/ Apply(t)
              \/ \E f \in Fields : PatchDirectly(t, f)
       PROVE  save'[s].st \in {"none", "refused"} \/ save'[s] = save[s]
  BY <1>1, <1>2, <1>11
<1> QED
  BY <1>1, <1>3, <1>4, <1>5, <1>6, <1>7, <1>8, <1>9, <1>10, <1>11

\* Without the user typing, the draft only loses changes.
LEMMA ChangesShrink ==
    ASSUME TypeOK, [Next]_vars, session'.scope = page',
           ~Leave, \A p \in Projects : ~Show(p), \A f \in Fields : ~Edit(f)
    PROVE  \A f \in Changed(session'.base, session'.draft) :
              /\ session.scope = page
              /\ f \in Changed(session.base, session.draft)
              /\ session'.draft[f] = session.draft[f]
<1>0. /\ session \in DraftRec /\ DraftTypes /\ Authority \in Docs
      /\ Scope \in Projects \cup {NoProject}
  BY ActiveType DEF TypeOK, DraftTypes, DraftRec, StoreTypes
<1>1. ASSUME NEW scope, NEW doc, session' = Fresh(scope, doc)
      PROVE  Changed(session'.base, session'.draft) = {}
  BY <1>1 DEF Fresh, Changed
<1>2. CASE Merge
  <2>1. session' = Merged(Scope, Authority) /\ page' = page
    BY <1>2 DEF Merge
  <2>2. session'.scope = Scope /\ session'.base = Authority
    BY <1>0, <2>1, MergeRebases
  <2>3. \A f \in Fields : \/ session'.draft[f] = Authority[f]
                          \/ /\ session.scope = Scope
                             /\ f \in Changed(session.base, session.draft)
                             /\ session'.draft[f] = session.draft[f]
    BY <1>0, <2>1, MergeRebases
  <2>4. \A f \in Changed(session'.base, session'.draft) :
            f \in Fields /\ session'.draft[f] # Authority[f]
    BY <2>2 DEF Changed
  <2>5. Scope = page
    BY <2>1, <2>2
  <2> QED
    BY <2>3, <2>4, <2>5
<1>3. CASE Discard
  BY <1>1, <1>3 DEF Discard
<1>4. ASSUME NEW s \in Saves, SaveReplied(s)
      PROVE  \/ UNCHANGED <<session, page>>
             \/ Changed(session'.base, session'.draft) = {}
  <2>1. UNCHANGED page
    BY <1>4 DEF SaveReplied
  <2>2. \/ UNCHANGED session
        \/ session' = Fresh(ReplyMerge(s).scope, ReplyMerge(s).draft)
    BY <1>4, ReplyDraft DEF TypeOK
  <2> QED
    BY <1>1, <2>1, <2>2
<1>5. CASE AcceptConflicts
  BY <1>0, <1>5 DEF AcceptConflicts, DraftRec
<1>6. CASE UNCHANGED <<session, page>>
  BY <1>6
<1> QED
  BY <1>2, <1>3, <1>4, <1>5, <1>6, ZenonT(60)
     DEF Next, vars, AgentWrites, Delete, PollAnswered, PollFails, PollApplied,
         ExtraPoll, SaveArrives, SaveFails, Apply, PatchDirectly, SaveRefused,
         TimerFires

\* Every step keeps ReplyInv.
LEMMA ReplyInvStep ==
    ASSUME TypeOK, PlaceInv, ReplyInv, [Next]_vars
    PROVE  ReplyInv'
<1> SUFFICES ASSUME NEW s \in Saves
             PROVE  CarriedOut(s)' /\ Covers(s)'
  BY DEF ReplyInv
<1>0. CarriedOut(s) /\ Covers(s)
  BY DEF ReplyInv
<1>1. CASE save'[s].st \in {"none", "refused"}
  BY <1>1 DEF CarriedOut, Covers, Holds
<1>2. CASE /\ save'[s].st = "saved" /\ save[s].st = "sent"
           /\ save'[s].before = save[s].before /\ save'[s].after = save[s].after
           /\ save'[s].draft = save[s].draft /\ save'[s].here = save[s].here
           /\ save'[s].late = save[s].late
           /\ \A f \in Changed(save[s].before, save[s].after) :
                 save'[s].doc[f] = save[s].after[f]
           /\ UNCHANGED <<page, session>>
  <2>1. CarriedOut(s)'
    BY <1>2 DEF CarriedOut
  <2>2. Covers(s)'
    BY <1>0, <1>2 DEF Covers, Holds
  <2> QED
    BY <2>1, <2>2
<1>3. CASE /\ save'[s].st = save[s].st /\ save'[s].doc = save[s].doc
           /\ save'[s].before = save[s].before /\ save'[s].after = save[s].after
           /\ save'[s].draft = save[s].draft
           /\ \/ ~save'[s].here
              \/ save'[s].here = save[s].here /\ save'[s].late = save[s].late
              \/ save'[s].late = save'[s].draft
  <2>1. CarriedOut(s)'
    BY <1>0, <1>3 DEF CarriedOut
  <2>2. SUFFICES ASSUME Holds(s)'
                 PROVE  Covers(s)'
    BY <2>1 DEF Covers
  <2>3. /\ save[s].st \in {"sent", "saved"} /\ save[s].draft /\ save[s].here
        /\ ~save[s].late /\ save'[s].here /\ ~save'[s].late
        /\ session'.scope = page'
    BY <1>3, <2>2 DEF Holds
  <2>4. ~Leave /\ \A p \in Projects : ~Show(p)
    BY <2>3 DEF Leave, Show, TypeOK, SaveTypes
  <2>5. \A f \in Fields : ~Edit(f)
    BY <2>3, EditSaves DEF TypeOK
  <2>6. \A f \in Changed(session'.base, session'.draft) :
            /\ session.scope = page
            /\ f \in Changed(session.base, session.draft)
            /\ session'.draft[f] = session.draft[f]
    BY <2>3, <2>4, <2>5, ChangesShrink
  <2>7. \A f \in Changed(session'.base, session'.draft) :
            /\ f \in Changed(save[s].before, save[s].after)
            /\ session'.draft[f] = save[s].after[f]
    BY <1>0, <2>3, <2>6 DEF Covers, Holds
  <2> QED
    BY <1>3, <2>7 DEF Covers
<1>4. CASE save'[s].st = "sent" /\ ~save'[s].draft
  BY <1>4 DEF CarriedOut, Covers, Holds
<1>5. CASE /\ save'[s].st = "sent" /\ Scope = page
           /\ save'[s].before = Active.base /\ save'[s].after = Active.draft
           /\ UNCHANGED <<page, session>>
  <2>1. CarriedOut(s)'
    BY <1>5 DEF CarriedOut
  <2>2. session.scope = page => Active = session
    BY <1>5 DEF Active
  <2>3. Covers(s)'
    BY <1>5, <2>2 DEF Covers, Holds
  <2> QED
    BY <2>1, <2>3
<1> QED
  BY <1>1, <1>2, <1>3, <1>4, <1>5, SaveSteps

\* Marking a draft that the save covers makes the document of the save, which
\* the store takes in the same turn, the baseline.
LEMMA MarkingRebases ==
    ASSUME TypeOK, ReplyInv, NEW s \in Saves, Marks(s), Shown', ~skewed'
    PROVE  session'.scope = page' /\ session'.base = store'.doc
<1>0. /\ StoreTypes /\ DraftTypes /\ SaveTypes /\ store \in StoreRec
      /\ page \in Projects \cup {NoProject}
  BY DEF TypeOK, StoreTypes, StoreRec
<1>1. /\ SaveReplied(s) /\ save[s].draft /\ save[s].here
      /\ save[s].st = "saved" /\ page' = page
  BY DEF Marks, SaveReplied
<1>2. /\ session' = Fresh(ReplyMerge(s).scope, ReplyMerge(s).draft)
      /\ ~save[s].late /\ Newer(s) /\ save[s].doc \in Docs
  <2>1. /\ session' = Fresh(ReplyMerge(s).scope, ReplyMerge(s).draft)
        /\ skewed' = (save[s].late \/ ~Newer(s))
        /\ save[s].doc \in Docs
    BY <1>0, <1>1, ReplyDraft
  <2> QED
    BY <2>1
<1>3. PICK doc \in Docs : doc = save[s].doc
  BY <1>2
<1>4. store'.doc = doc
  <2>1. store' = [store EXCEPT !.loaded = TRUE, !.of = save[s].proj,
                               !.gen = save[s].gen, !.doc = save[s].doc,
                               !.patching = FALSE]
    BY <1>1, <1>2 DEF SaveReplied, Newer
  <2> QED
    BY <1>0, <1>3, <2>1 DEF StoreRec
<1>5. ReplyMerge(s) = Merged(page, doc)
  BY <1>2, <1>3 DEF ReplyMerge
<1>6. /\ Merged(page, doc).scope = page
      /\ \A f \in Fields :
            \/ Merged(page, doc).draft[f] = doc[f]
            \/ /\ session.scope = page
               /\ f \in Changed(session.base, session.draft)
               /\ Merged(page, doc).draft[f] = session.draft[f]
  BY <1>0, MergeRebases
<1>7. ASSUME NEW f \in Fields
      PROVE  Merged(page, doc).draft[f] = doc[f]
  <2>1. CASE Merged(page, doc).draft[f] # doc[f]
    <3>1. /\ session.scope = page
          /\ f \in Changed(session.base, session.draft)
          /\ Merged(page, doc).draft[f] = session.draft[f]
      BY <1>6, <2>1
    <3>2. /\ f \in Changed(save[s].before, save[s].after)
          /\ session.draft[f] = save[s].after[f]
      BY <1>1, <1>2, <3>1 DEF ReplyInv, Covers, Holds
    <3>3. save[s].doc[f] = save[s].after[f]
      BY <1>1, <3>2 DEF ReplyInv, CarriedOut
    <3> QED
      BY <1>3, <3>1, <3>2, <3>3
  <2> QED
    BY <2>1
<1>8. Merged(page, doc).draft \in Docs
  BY <1>0, MergedType DEF DraftRec
<1>9. Merged(page, doc).draft = doc
  BY <1>7, <1>8 DEF Docs
<1>10. session' = Fresh(page, doc)
  BY <1>2, <1>5, <1>6, <1>9
<1> QED
  BY <1>1, <1>4, <1>10 DEF Fresh

\* Every step keeps BaseInv.
LEMMA BaseStep ==
    ASSUME TypeOK, PlaceInv, ReplyInv, BaseInv, [Next]_vars
    PROVE  BaseInv'
<1> SUFFICES ASSUME Shown', ~news', ~skewed'
             PROVE  session'.scope = page' /\ session'.base = store'.doc
  BY DEF BaseInv
<1>1. CASE Merge
  <2>1. /\ Shown /\ page' = page /\ store' = store
        /\ session' = Merged(Scope, Authority)
    BY <1>1 DEF Merge, Shown
  <2>2. Scope = page /\ Authority = store.doc
    BY <2>1 DEF Scope, Authority
  <2>3. DraftTypes /\ store.doc \in Docs /\ page \in Projects \cup {NoProject}
    BY DEF TypeOK, StoreTypes
  <2>4. Merged(page, store.doc).scope = page /\ Merged(page, store.doc).base = store.doc
    BY <2>3, MergeRebases
  <2> QED
    BY <2>1, <2>2, <2>4
<1>2. ASSUME NEW s \in Saves, Marks(s)
      PROVE  session'.scope = page' /\ session'.base = store'.doc
  BY <1>2, MarkingRebases
<1>3. CASE ~Merge /\ \A s \in Saves : ~Marks(s)
  <2>1. Shown /\ ~news /\ ~skewed /\ page' = page /\ store'.doc = store.doc
    BY <1>3, NewsOfDocuments
  <2>2. session.scope = page /\ session.base = store.doc
    BY <2>1 DEF BaseInv
  <2>3. session'.scope = session.scope /\ session'.base = session.base
    BY <1>3, <2>2, BaseStays
  <2> QED
    BY <2>1, <2>2, <2>3
<1> QED
  BY <1>1, <1>2, <1>3

\* A page whose store has the generation of now shows the document of now: a
\* comparison of generations, by the ETag or in ``never roll back'', does not
\* take one document for another.  Once the effect has run the draft is over
\* that document too, except after a save that was marked as applied over a
\* newer snapshot, or over text typed since it was sent: a save whose values
\* are all that is changed in the draft leaves the document as the baseline,
\* though markApplied takes the draft for it and never looks at the document
\* (useProjectDraft.ts), and though the effect has merged the save's own
\* snapshot before.  Converges rests on this: polling brings no document then.
THEOREM CurrentIsTheDocument ==
    Spec => [](Shown /\ store.gen = server[page].gen
                  => /\ store.doc = server[page].doc
                     /\ ~news /\ ~skewed => session.scope = page /\ session.base = server[page].doc)
<1>1. Init => BaseInv /\ ReplyInv
  BY DEF Init, BaseInv, Shown, SnapshotBase, ReplyInv, CarriedOut, Covers, Holds, NoSave
<1>2. TypeInv /\ ReplyInv /\ BaseInv /\ [Next]_vars => (ReplyInv /\ BaseInv)'
  BY ReplyInvStep, BaseStep DEF TypeInv
<1>3. CopyInv /\ BaseInv =>
        (Shown /\ store.gen = server[page].gen
            => /\ store.doc = server[page].doc
               /\ ~news /\ ~skewed => session.scope = page /\ session.base = server[page].doc)
  BY DEF CopyInv, BaseInv, Copy, Shown
<1> QED
  BY <1>1, <1>2, <1>3, TypeInvCorrect, CopyCorrect, PTL DEF Spec
=============================================================================
