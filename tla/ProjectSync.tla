---------------------------- MODULE ProjectSync ----------------------------
(***************************************************************************)
(* A project page of the creator plugin (creator/ui: the store             *)
(* projectSnapshotStore.ts, the hook useProjectDraft.ts) and the backend's *)
(* project document (backend/api/project_file_routes.py).                  *)
(*                                                                         *)
(* The store keeps the last good snapshot of one project and polls for a   *)
(* newer one.  The page edits a draft over a baseline: an effect merges    *)
(* each new snapshot into it, keeping the user's changes and flagging the  *)
(* fields somebody else changed too.  A save sends the changed fields with *)
(* the values they replace; the backend refuses it when one of them is no  *)
(* longer the current value.  Agents write the document at any time.       *)
(*                                                                         *)
(* A document is a function from fields to values; each value is written   *)
(* once, so a value says who wrote it.  An ETag is a generation here.      *)
(***************************************************************************)
EXTENDS Naturals, FiniteSets

CONSTANTS
    Projects,   \* projects of this creator
    Fields,     \* fields of the element the page edits
    Saves,      \* PATCH requests that can be under way at the same time
    NoProject,  \* no project; also the scope of an element not shown
    Written,    \* bound: the projects that are edited, written and deleted
    AgentFields,\* bound: the fields agents write
    MaxValues,  \* bound: values written by agents and typed by the user
    MaxSaves,   \* bound: saves
    MaxTurns    \* bound: page changes, extra polls, deletions, failed polls,
                \* lost requests and lost replies

ASSUME NoProjectIsNoProject == NoProject \notin Projects

ASSUME BoundsAreSubsets == Written \subseteq Projects /\ AgentFields \subseteq Fields

ASSUME BoundsAreNaturals ==
    {MaxValues, MaxSaves, MaxTurns} \subseteq Nat

VARIABLES
    server,     \* server[p]: generation and document; "deleted" is gone
    page,       \* the project whose page is shown
    store,      \* the snapshot store
    poll,       \* poll[p]: the request in inFlightByProject, if any
    poller,     \* the poll controller: its project and what it waits for
    session,    \* the draft session of the page
    news,       \* the page's element was replaced since the last effect
    save,       \* save[s]: a PATCH under way; with what the user knew, `seen',
                \* and whether the user has typed since it was sent, `late'
    used,       \* what is used of the bounds
    typed,      \* history variable: what the user typed and is neither saved
                \* nor given up; 0 when there is nothing
    seen,       \* history variable: the value the user knows to replace
    skewed      \* history variable: a save was marked as applied over a
                \* snapshot newer than the save, or over text typed since
                \* it was sent, and nothing was merged since

histories == <<typed, seen, skewed>>
vars == <<server, page, store, poll, poller, session, news, save, used,
          histories>>

Blank == [f \in Fields |-> 0]
Docs == [Fields -> 0..MaxValues]

\* snapshotBase: nothing is loaded yet.
SnapshotBase(p) ==
    [proj |-> p, loaded |-> FALSE, of |-> NoProject, gen |-> 0,
     doc |-> Blank, patching |-> FALSE]

NoPoll == [st |-> "none", etag |-> 0, fresh |-> FALSE, gen |-> 0,
           doc |-> Blank]
NoSave == [st |-> "none", draft |-> FALSE, proj |-> NoProject,
           here |-> FALSE, before |-> Blank, after |-> Blank, gen |-> 0,
           doc |-> Blank, known |-> Blank, late |-> FALSE]
Idle == [proj |-> NoProject, ph |-> "off"]

\* What the page renders: the element of its project, when it is loaded.
Shown == store.proj = page /\ store.loaded
Scope == IF Shown THEN page ELSE NoProject
Authority == IF Shown THEN store.doc ELSE Blank

Fresh(scope, doc) ==
    [scope |-> scope, base |-> doc, draft |-> doc, conf |-> {}]
Active == IF session.scope = Scope THEN session ELSE Fresh(Scope, Authority)
Changed(base, doc) == {f \in Fields : base[f] # doc[f]}
Dirty == Changed(Active.base, Active.draft)

\* A save of the draft is under way.
Saving == \E s \in Saves : save[s].st # "none" /\ save[s].draft

Limits == [values |-> MaxValues, saves |-> MaxSaves, turns |-> MaxTurns]
Use(kinds) ==
    /\ \A k \in kinds : used[k] < Limits[k]
    /\ used' = [k \in DOMAIN used |-> IF k \in kinds THEN used[k] + 1
                                      ELSE used[k]]
NewValue == used.values + 1

Init ==
    /\ server = [p \in Projects |-> [gen |-> 1, doc |-> Blank,
                                     alive |-> TRUE]]
    /\ page = NoProject
    /\ store = SnapshotBase(NoProject)
    /\ poll = [p \in Projects |-> NoPoll]
    /\ poller = Idle
    /\ session = Fresh(NoProject, Blank)
    /\ news = FALSE
    /\ save = [s \in Saves |-> NoSave]
    /\ used = [values |-> 0, saves |-> 0, turns |-> 0]
    /\ typed = Blank
    /\ seen = Blank
    /\ skewed = FALSE

-----------------------------------------------------------------------------
(* The backend.                                                            *)

\* An agent, or another window, writes a field.
AgentWrites(p, f) ==
    /\ p \in Written /\ f \in AgentFields /\ server[p].alive
    /\ Use({"values"})
    /\ server' = [server EXCEPT ![p].gen = @ + 1,
                                ![p].doc[f] = NewValue]
    /\ UNCHANGED <<page, store, poll, poller, session, news, save, histories>>

Delete(p) ==
    /\ p \in Written /\ server[p].alive
    /\ Use({"turns"})
    /\ server' = [server EXCEPT ![p].alive = FALSE]
    /\ UNCHANGED <<page, store, poll, poller, session, news, save, histories>>

\* GET: the snapshot, or 304 when the client has it.
PollAnswered(p) ==
    /\ poll[p].st = "sent"
    /\ poll' = [poll EXCEPT ![p] =
           LET none == [NoPoll EXCEPT !.fresh = poll[p].fresh]
           IN  IF ~server[p].alive THEN [none EXCEPT !.st = "not_found"]
               ELSE IF @.etag = server[p].gen
               THEN [none EXCEPT !.st = "not_modified"]
               ELSE [none EXCEPT !.st = "snapshot", !.gen = server[p].gen,
                                 !.doc = server[p].doc]]
    /\ UNCHANGED <<server, page, store, poller, session, news, save, used,
                   histories>>

\* The request or its answer is lost, or the backend cannot answer.
PollFails(p) ==
    /\ poll[p].st = "sent"
    /\ Use({"turns"})
    /\ poll' = [poll EXCEPT ![p] = [NoPoll EXCEPT !.st = "failed",
                                                !.fresh = poll[p].fresh]]
    /\ UNCHANGED <<server, page, store, poller, session, news, save, histories>>

\* Bug: the values to be replaced are not compared.
ReplacesAnything(s) == TRUE

\* _build_patch_candidate: every operation replaces the value it expects.
ReplacesCurrent(s) ==
    \A f \in Changed(save[s].before, save[s].after) :
        save[s].before[f] = server[save[s].proj].doc[f]

\* What the document is after the operations of a save.
Patched(s, doc) ==
    [f \in Fields |-> IF f \in Changed(save[s].before, save[s].after)
                      THEN save[s].after[f] ELSE doc[f]]

Refused(s) == [NoSave EXCEPT !.st = "refused", !.proj = save[s].proj,
                             !.draft = save[s].draft]

SaveArrives(s) ==
    /\ save[s].st = "sent"
    /\ LET p == save[s].proj
           doc == Patched(s, server[p].doc)
       IN  IF server[p].alive /\ ReplacesCurrent(s)
           THEN /\ server' = [server EXCEPT ![p].gen = @ + 1, ![p].doc = doc]
                /\ save' = [save EXCEPT ![s].st = "saved",
                                        ![s].gen = server[p].gen + 1,
                                        ![s].doc = doc]
                /\ typed' = [f \in Fields |->
                                IF /\ save[s].draft /\ save[s].here
                                   /\ typed[f] = save[s].after[f]
                                THEN 0 ELSE typed[f]]
           ELSE /\ save' = [save EXCEPT ![s] = Refused(s)]
                /\ UNCHANGED <<server, typed>>
    /\ UNCHANGED <<page, store, poll, poller, session, news, used, seen, skewed>>

\* The request does not arrive, or its reply is lost.
SaveFails(s) ==
    /\ save[s].st \in {"sent", "saved"}
    /\ Use({"turns"})
    /\ save' = [save EXCEPT ![s] = Refused(s)]
    /\ UNCHANGED <<server, page, store, poll, poller, session, news, histories>>

-----------------------------------------------------------------------------
(* The snapshot store.                                                     *)

\* Bug: the answers to come are not fenced off.
NotFenced(p, polls) == polls

\* The store turns to a project: the snapshot of another one is given up,
\* and so are the answers still to come, whatever their project.
EnsureProject(p) ==
    IF store.proj = p THEN store ELSE SnapshotBase(p)

Fenced(p, polls) ==
    IF store.proj = p THEN polls
    ELSE [q \in Projects |-> [polls[q] EXCEPT !.fresh = FALSE]]

Ask(p, st, polls) ==
    [polls EXCEPT ![p] = [NoPoll EXCEPT !.st = "sent", !.fresh = TRUE,
                                        !.etag = st.gen]]

\* pollOnce: join the request under way, or turn to the project and ask.
PollOnce(p) ==
    IF poll[p].st # "none" THEN UNCHANGED <<store, poll, news, typed>>
    ELSE /\ store' = EnsureProject(p)
         /\ poll' = Ask(p, EnsureProject(p), Fenced(p, poll))
         /\ news' = (news \/ store.proj # p)
         /\ typed' = IF store.proj = p THEN typed ELSE Blank

\* Bug: an answer is taken whatever the store has turned to since.
TakesAnything(p) == TRUE

\* The answer is for the project and the epoch of the store.
Takes(p) == poll[p].fresh /\ store.proj = p

\* Bug: the answer that comes last is the newest.
NotNull(p) == TRUE

\* ``Never roll Project authority back''.
NotOlder(p) == ~store.loaded \/ poll[p].gen >= store.gen

\* Bug: any failed poll ends the polling.
FailedForGood(p) == poll[p].st \in {"not_found", "failed"}

\* Only a missing project is final.
Final(p) == poll[p].st = "not_found"

\* The answer reaches the store, and the controller goes on.
PollApplied(p) ==
    /\ poll[p].st \notin {"none", "sent"}
    /\ poll' = [poll EXCEPT ![p] = NoPoll]
    /\ LET snapshot == /\ Takes(p) /\ poll[p].st = "snapshot" /\ NotOlder(p)
           gone == Takes(p) /\ poll[p].st = "not_found"
       IN  /\ store' = IF snapshot
                       THEN [store EXCEPT !.loaded = TRUE, !.of = p,
                                          !.gen = poll[p].gen,
                                          !.doc = poll[p].doc]
                       ELSE IF gone
                       THEN SnapshotBase(p)
                       ELSE store
           /\ news' = (news \/ snapshot \/ gone)
           /\ typed' = IF gone THEN Blank ELSE typed
    /\ poller' = IF poller.proj # p THEN poller
                 ELSE IF Takes(p) /\ Final(p) THEN Idle
                 ELSE [poller EXCEPT !.ph = "timer"]
    /\ UNCHANGED <<server, page, session, save, used, seen, skewed>>

\* The timer of the controller, or the window becoming visible again.
TimerFires ==
    /\ poller.ph = "timer"
    /\ poller' = [poller EXCEPT !.ph = "run"]
    /\ PollOnce(poller.proj)
    /\ UNCHANGED <<server, page, session, save, used, seen, skewed>>

\* A panel, or a callback of a page that was left, polls on its own.
ExtraPoll(p) ==
    /\ page # NoProject
    /\ Use({"turns"})
    /\ PollOnce(p)
    /\ UNCHANGED <<server, page, poller, session, save, seen, skewed>>

\* The page of a project is shown: the polling of the last one ends, that of
\* the new one starts with a poll, joining one already under way.
Show(p) ==
    /\ page # p
    /\ Use({"turns"})
    /\ page' = p
    /\ store' = EnsureProject(p)
    /\ poll' = IF poll[p].st # "none" THEN Fenced(p, poll)
               ELSE Ask(p, EnsureProject(p), Fenced(p, poll))
    /\ poller' = [proj |-> p, ph |-> "run"]
    /\ session' = Fresh(NoProject, Blank)
    /\ news' = TRUE
    /\ save' = [s \in Saves |-> [save[s] EXCEPT !.here = FALSE]]
    /\ typed' = Blank
    /\ seen' = Blank
    /\ skewed' = FALSE
    /\ UNCHANGED server

Leave ==
    /\ page # NoProject
    /\ Use({"turns"})
    /\ page' = NoProject
    /\ poller' = Idle
    /\ session' = Fresh(NoProject, Blank)
    /\ news' = FALSE
    /\ save' = [s \in Saves |-> [save[s] EXCEPT !.here = FALSE]]
    /\ typed' = Blank
    /\ seen' = Blank
    /\ skewed' = FALSE
    /\ UNCHANGED <<server, store, poll>>

-----------------------------------------------------------------------------
(* The draft.                                                              *)

\* Bug: the snapshot wins where both sides changed a field.
TheirsWins(doc) ==
    LET local == Changed(session.base, session.draft)
        remote == Changed(session.base, doc)
    IN  [session EXCEPT !.base = doc,
                        !.draft = [f \in Fields |->
                            IF f \in local \ remote THEN session.draft[f]
                            ELSE doc[f]]]

\* Local changes are kept and put over the new document; a field both sides
\* changed is flagged.
MergeAuthority(doc) ==
    LET local == Changed(session.base, session.draft)
        remote == Changed(session.base, doc)
    IN  IF remote = {} THEN session
        ELSE IF local = {} THEN Fresh(session.scope, doc)
        ELSE [session EXCEPT !.base = doc,
                             !.draft = [f \in Fields |->
                                 IF f \in local THEN session.draft[f]
                                 ELSE doc[f]],
                             !.conf = @ \cup (local \cap remote)]

\* What the effect makes of the session.
Merged(scope, doc) == IF session.scope = scope THEN MergeAuthority(doc)
                      ELSE Fresh(scope, doc)

\* The effect runs after the element was replaced.
Merge ==
    /\ news
    /\ news' = FALSE
    /\ session' = Merged(Scope, Authority)
    /\ skewed' = FALSE
    /\ UNCHANGED <<server, page, store, poll, poller, save, used, typed, seen>>

\* The user types; the fields are disabled while the store says `patching'.
\* What is typed while a save of the draft is under way, the end of that save
\* takes for saved; it is not asked to be kept here.
Edit(f) ==
    /\ Shown /\ ~store.patching /\ page \in Written
    /\ Use({"values"})
    /\ session' = [Active EXCEPT !.draft[f] = NewValue]
    /\ seen' = [g \in Fields |-> IF Active.draft[g] # Active.base[g] THEN seen[g]
                                 ELSE IF g = f THEN Active.base[f] ELSE 0]
    /\ typed' = [typed EXCEPT ![f] = IF Saving THEN 0 ELSE NewValue]
    /\ save' = [s \in Saves |-> [save[s] EXCEPT !.late = save[s].draft]]
    /\ UNCHANGED <<server, page, store, poll, poller, news, skewed>>

Discard ==
    /\ Dirty # {} /\ ~store.patching
    /\ session.scope = Scope
    /\ session' = Fresh(session.scope, session.base)
    /\ typed' = Blank
    /\ UNCHANGED <<server, page, store, poll, poller, news, save, used, seen,
                   skewed>>

AcceptConflicts ==
    /\ session.scope = Scope /\ session.conf # {}
    /\ session' = [session EXCEPT !.conf = {}]
    /\ seen' = [f \in Fields |-> IF f \in session.conf THEN session.base[f]
                                 ELSE seen[f]]
    /\ UNCHANGED <<server, page, store, poll, poller, news, save, used, typed,
                   skewed>>

Send(s, draft, before, after) ==
    /\ save[s].st = "none"
    /\ save' = [save EXCEPT ![s] = [NoSave EXCEPT !.st = "sent",
                    !.draft = draft, !.proj = page, !.here = TRUE,
                    !.before = before, !.after = after, !.known = IF draft THEN seen ELSE Blank]]
    /\ store' = [store EXCEPT !.patching = TRUE]

\* The draft is saved: the button, or a field that loses the focus.
Apply(s) ==
    /\ Shown
    /\ Dirty # {} /\ Active.conf = {}
    /\ Use({"saves"})
    /\ Send(s, TRUE, Active.base, Active.draft)
    /\ UNCHANGED <<server, page, poll, poller, session, news, histories>>

\* Another panel of the page saves a field straight from the snapshot.
PatchDirectly(s, f) ==
    /\ Shown /\ page \in Written
    /\ Use({"saves", "values"})
    /\ Send(s, FALSE, store.doc, [store.doc EXCEPT ![f] = NewValue])
    /\ UNCHANGED <<server, page, poll, poller, session, news, histories>>

\* The reply, in one turn of the event loop: the store takes the document
\* unless it has a newer one; the page is rendered again, which runs the effect
\* if the element was replaced; then the page that sent its draft goes on after
\* its await and takes what the draft is now for the baseline (markApplied).
SaveReplied(s) ==
    /\ save[s].st = "saved"
    /\ save' = [save EXCEPT ![s] = NoSave]
    /\ LET here == store.proj = save[s].proj
           newer == here /\ (~store.loaded \/ store.gen <= save[s].gen)
           merged == IF newer THEN Merged(page, save[s].doc)
                     ELSE IF news THEN Merged(Scope, Authority)
                     ELSE session
       IN  /\ store' = IF newer
                       THEN [store EXCEPT !.loaded = TRUE,
                                          !.of = save[s].proj,
                                          !.gen = save[s].gen,
                                          !.doc = save[s].doc,
                                          !.patching = FALSE]
                       ELSE [store EXCEPT !.patching = @ /\ ~here]
           /\ IF save[s].draft /\ save[s].here
              THEN /\ session' = Fresh(merged.scope, merged.draft)
                   /\ news' = FALSE
                   /\ skewed' = (save[s].late \/ ~newer)
              ELSE /\ news' = (news \/ newer)
                   /\ UNCHANGED <<session, skewed>>
    /\ UNCHANGED <<server, page, poll, poller, used, typed, seen>>

SaveRefused(s) ==
    /\ save[s].st = "refused"
    /\ save' = [save EXCEPT ![s] = NoSave]
    /\ store' = [store EXCEPT !.patching = @ /\ store.proj # save[s].proj]
    /\ UNCHANGED <<server, page, poll, poller, session, news, used, histories>>

-----------------------------------------------------------------------------
Next ==
    \/ \E p \in Projects : \/ \E f \in Fields : AgentWrites(p, f)
                           \/ Delete(p) \/ PollAnswered(p) \/ PollFails(p)
                           \/ PollApplied(p) \/ ExtraPoll(p) \/ Show(p)
    \/ \E f \in Fields : Edit(f)
    \/ \E s \in Saves : \/ SaveArrives(s) \/ SaveFails(s) \/ Apply(s)
                        \/ \E f \in Fields : PatchDirectly(s, f)
                        \/ SaveReplied(s) \/ SaveRefused(s)
    \/ TimerFires \/ Leave \/ Merge \/ Discard \/ AcceptConflicts

Spec == Init /\ [][Next]_vars

\* Timers fire, requests are answered or fail, effects run.
FairSpec ==
    /\ Spec
    /\ WF_vars(TimerFires) /\ WF_vars(Merge)
    /\ \A p \in Projects : WF_vars(PollAnswered(p)) /\ WF_vars(PollApplied(p))
    /\ \A s \in Saves : /\ WF_vars(SaveArrives(s))
                        /\ WF_vars(SaveReplied(s) \/ SaveRefused(s))

-----------------------------------------------------------------------------
(* Properties.                                                             *)

Gens == 0..(1 + MaxValues + MaxSaves)

ServerTypes == server \in [Projects -> [gen: Gens, doc: Docs, alive: BOOLEAN]]

StoreTypes ==
    /\ page \in Projects \cup {NoProject}
    /\ store \in [proj: Projects \cup {NoProject}, loaded: BOOLEAN,
                  of: Projects \cup {NoProject}, gen: Gens, doc: Docs,
                  patching: BOOLEAN]

PollTypes ==
    /\ poll \in [Projects ->
           [st: {"none", "sent", "snapshot", "not_modified", "not_found",
                 "failed"},
            etag: Gens, fresh: BOOLEAN, gen: Gens, doc: Docs]]
    /\ poller \in [proj: Projects \cup {NoProject}, ph: {"off", "run", "timer"}]
    /\ poller.proj \in {NoProject, page}
    /\ \A p \in Projects : poll[p].fresh => p = store.proj

DraftTypes ==
    /\ session \in [scope: Projects \cup {NoProject}, base: Docs, draft: Docs,
                    conf: SUBSET Fields]
    /\ news \in BOOLEAN
    /\ typed \in Docs /\ seen \in Docs
    /\ skewed \in BOOLEAN

SaveTypes ==
    save \in [Saves ->
        [st: {"none", "sent", "saved", "refused"}, draft: BOOLEAN,
         proj: Projects \cup {NoProject}, here: BOOLEAN, before: Docs,
         after: Docs, gen: Gens, doc: Docs, known: Docs, late: BOOLEAN]]

Kinds == {"values", "saves", "turns"}

UseBounds ==
    /\ used \in [Kinds -> Nat]
    /\ \A k \in Kinds : used[k] <= Limits[k]

\* Every variable has its type; polling is off or for the page's project, and
\* only an answer for the store's project is still welcome.
TypeOK ==
    /\ ServerTypes /\ StoreTypes /\ PollTypes
    /\ DraftTypes /\ SaveTypes /\ UseBounds

\* The snapshot the page renders is one of its own project, however late the
\* answers to polls for other projects, or from an earlier visit, come.
OwnSnapshot == store.loaded => store.of = store.proj

\* While the store keeps to a project it never goes back to an older
\* document: not by an answer that was under way when a save was confirmed,
\* nor by the confirmation of a save that a poll has overtaken.
NeverRollsBack ==
    [][(store.loaded /\ store'.loaded /\ store'.proj = store.proj)
       => store'.gen >= store.gen]_vars

\* What the user typed is in the draft until it is saved or given up, however
\* often the document under it changes.  Given up: discarded, or the page was
\* left; the store turned to another project, by a late callback of a page
\* that was left; or it was typed while a save of the draft was under way.
TypedIsKept ==
    \A f \in Fields : typed[f] # 0 => session.draft[f] = typed[f]

\* A save replaces only values its user knows of: the one that was there when
\* the user changed the field, or one a conflict was accepted for.
NoBlindOverwrite ==
    [][\A s \in Saves :
          (save[s].st = "sent" /\ save'[s].st = "saved" /\ save[s].draft)
          => \A f \in Changed(save[s].before, save[s].after) :
                server[save[s].proj].doc[f] = save[s].known[f]]_vars

\* Once the writing, moving and failing stop, the page shows the document of
\* the backend, in the store and under the draft.  The baseline is excused
\* where a save was marked as applied over a newer snapshot, or over text typed
\* since the save was sent: that text becomes the baseline, is no change any
\* more, and nothing repairs it until the document changes again.
Converges ==
    <>[](\/ page = NoProject
         \/ ~server[page].alive
         \/ /\ store.proj = page /\ store.loaded
            /\ store.doc = server[page].doc
            /\ skewed \/ session.base = store.doc)
=============================================================================
