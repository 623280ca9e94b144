----------------------------- MODULE PartConfig -----------------------------
(***************************************************************************)
(* Editing the stored config of a machine part in the standalone app       *)
(* (hooks/usePartConfig.svelte.ts): the query of the part, the edited copy *)
(* and its dirty mark, save and discard, and the undo history over it.     *)
(*                                                                         *)
(* The state of the hook is one record `page`. A step of the page is a call *)
(* or an answer followed by the effects it triggers, in the order of their *)
(* creation. The app's API, the query cache and runed's StateHistory are   *)
(* the libraries the hook works with.                                      *)
(***************************************************************************)
EXTENDS Naturals, Sequences, FiniteSets

CONSTANTS
    Parts,          \* the parts one may select
    None,           \* no data, no config
    Contents,       \* what a config with components may say
    Blank,          \* what one without says
    Original,       \* what the stored configs say at first
    MaxChanges,     \* edits, here or elsewhere, and parts selected
    MaxDrags,       \* drags
    MaxLog,         \* entries of the undo log
    MaxSaves        \* saves under way at once

\* A config is known by the part it was written for and what it says. Empty
\* has nothing in it: what a config that is not there yet is read as.
Empty == [part |-> None, content |-> Blank]
Configs == [part : Parts, content : Contents]
Config(part, content) == [part |-> part, content |-> content]
Snapshot(config) == IF config = None THEN Empty ELSE config

VARIABLES
    stored,     \* what the app stores, by part
    cache,      \* what the query holds, by part
    fetch,      \* an answer of getRobotPart on its way
    saves,      \* updateRobotPart calls not answered yet
    page,       \* the state of the hook
    spent       \* changes and drags so far

vars == <<stored, cache, fetch, saves, page, spent>>

---------------------------------------------------------------------------
(* The effects.                                                            *)

\* The network's config replaces the edited copy unless that is dirty.
FollowNetwork_Once(p) ==
    IF p.network # None /\ p.current = None THEN [p EXCEPT !.current = p.network]
    ELSE p
FollowNetwork(p) ==
    IF p.network # None /\ ~p.isDirty THEN [p EXCEPT !.current = p.network] ELSE p

\* A write of the watched state: the history's effect is due if it changes.
SetSnapshot(p, snapshot) ==
    [p EXCEPT !.historySnapshot = snapshot,
              !.changed = @ \/ snapshot # p.historySnapshot]

\* The history follows the config, except within a drag.
FollowConfig_WithinDrag(p) == SetSnapshot(p, Snapshot(p.current))
FollowConfig_Raw(p) == IF p.depth = 0 THEN SetSnapshot(p, p.current) ELSE p
FollowConfig(p) == IF p.depth = 0 THEN SetSnapshot(p, Snapshot(p.current)) ELSE p

FollowClean(p) ==
    IF p.isDirty THEN p ELSE [p EXCEPT !.cleanSnapshot = Snapshot(p.current)]

\* StateHistory logs each change it sees, but the first one after its own undo
\* or redo.
Log(p) ==
    IF ~p.changed THEN p
    ELSE IF p.ignore THEN [p EXCEPT !.ignore = FALSE, !.changed = FALSE]
    ELSE [p EXCEPT !.log = Append(@, p.historySnapshot), !.redo = <<>>,
                   !.changed = FALSE]

Effects(p) == Log(FollowClean(FollowConfig(FollowNetwork(p))))

\* A call of the page, then its effects. The undo log is bounded.
Step(p) ==
    /\ page' = Effects(p)
    /\ Len(page'.log) <= MaxLog

\* The type of every variable; between steps no effect is left to run.
TypeOK ==
    LET Snapshots == Configs \cup {Empty}
    IN /\ stored \in [Parts -> Snapshots]
       /\ cache \in [Parts -> Snapshots \cup {None}]
       /\ fetch \in [part : Parts, config : Snapshots] \cup {None}
       /\ saves \in SUBSET [part : Parts, config : Snapshots, done : BOOLEAN]
       /\ page \in [part : Parts, network : Snapshots \cup {None},
                    current : Snapshots \cup {None}, isDirty : BOOLEAN,
                    historySnapshot : Snapshots, changed : {FALSE},
                    log : Seq(Snapshots), redo : Seq(Snapshots),
                    ignore : BOOLEAN, historyActive : BOOLEAN, depth : 0..1,
                    start : Snapshots, cleanSnapshot : Snapshots]
       /\ spent \in [changes : 0..MaxChanges, drags : 0..MaxDrags]

\* The bounds: every edit and every selection of a part counts, and every drag.
Change == spent.changes < MaxChanges /\ spent' = [spent EXCEPT !.changes = @ + 1]
Drag == spent.drags < MaxDrags /\ spent' = [spent EXCEPT !.drags = @ + 1]

Init ==
    /\ stored = [part \in Parts |-> Config(part, Original)]
    /\ cache = [part \in Parts |-> None]
    /\ fetch = None
    /\ saves = {}
    /\ \E part \in Parts :
         page = [part |-> part, network |-> None, current |-> None,
                 isDirty |-> FALSE, historySnapshot |-> Empty, changed |-> FALSE,
                 log |-> <<Empty>>, redo |-> <<>>, ignore |-> FALSE,
                 historyActive |-> FALSE, depth |-> 0, start |-> Empty,
                 cleanSnapshot |-> Empty]
    /\ spent = [changes |-> 0, drags |-> 0]

---------------------------------------------------------------------------
(* The query.                                                              *)

FetchServed ==
    /\ fetch = None
    /\ fetch' = [part |-> page.part, config |-> stored[page.part]]
    /\ UNCHANGED <<stored, cache, saves, page, spent>>

\* New data recomputes the derived networkPartConfig, whatever a save had
\* written over it.
FetchArrives ==
    /\ fetch # None
    /\ cache' = [cache EXCEPT ![fetch.part] = fetch.config]
    /\ Step(IF fetch.part = page.part THEN [page EXCEPT !.network = fetch.config]
            ELSE page)
    /\ fetch' = None
    /\ UNCHANGED <<stored, saves, spent>>

\* Another part: what was edited for the one before is dropped. A gizmo that
\* loses its frame closes the drag (SelectedTransformControls.svelte).
SelectPart(part) ==
    /\ part # page.part /\ page.depth = 0
    /\ Change
    /\ Step([page EXCEPT !.part = part, !.network = cache[part],
                         !.isDirty = FALSE, !.current = None,
                         !.historyActive = FALSE])
    /\ UNCHANGED <<stored, cache, fetch, saves>>

---------------------------------------------------------------------------
(* Editing and its history.                                                *)

\* The frame and component editors: each reads the config, changes it and
\* sets it, dirty.
Edit(content) ==
    /\ page.current # None /\ Change
    /\ Step([page EXCEPT !.current = Config(page.part, content), !.isDirty = TRUE,
                         !.historyActive = TRUE])
    /\ UNCHANGED <<stored, cache, fetch, saves>>

\* An edit that finds no such component or changes nothing: createFrame sets
\* the config all the same, the others return.
EditMisses(sets) ==
    /\ page.current # None /\ Change
    /\ Step([page EXCEPT !.isDirty = @ \/ sets, !.historyActive = TRUE])
    /\ UNCHANGED <<stored, cache, fetch, saves>>

\* A drag: one history entry from its begin to its end.
beginFrameEditHistoryEntry ==
    /\ page.depth = 0 /\ page.current # None
    /\ Drag
    /\ Step(SetSnapshot([page EXCEPT !.historyActive = TRUE, !.depth = 1,
                                     !.start = Snapshot(page.current)],
                        Snapshot(page.current)))
    /\ UNCHANGED <<stored, cache, fetch, saves>>

endFrameEditHistoryEntry ==
    /\ page.depth = 1
    /\ LET closed == [page EXCEPT !.depth = 0, !.start = Empty]
       IN Step(IF page.start = Snapshot(page.current) THEN closed
               ELSE SetSnapshot(closed, Snapshot(page.current)))
    /\ UNCHANGED <<stored, cache, fetch, saves, spent>>

canUseHistory ==
    /\ page.depth = 0 /\ page.historyActive
    /\ page.historySnapshot = Snapshot(page.current)

applyHistorySnapshot(p, snapshot) ==
    SetSnapshot([p EXCEPT !.current = snapshot,
                          !.isDirty = snapshot # p.cleanSnapshot], snapshot)

undoFrameEdit ==
    /\ canUseHistory /\ page.isDirty /\ Len(page.log) > 1
    /\ LET n == Len(page.log)
       IN Step(applyHistorySnapshot(
                 [page EXCEPT !.log = SubSeq(@, 1, n - 1),
                              !.redo = Append(@, page.log[n]), !.ignore = TRUE],
                 page.log[n - 1]))
    /\ UNCHANGED <<stored, cache, fetch, saves, spent>>

redoFrameEdit ==
    /\ canUseHistory /\ page.redo # <<>>
    /\ LET next == page.redo[Len(page.redo)]
       IN Step(applyHistorySnapshot(
                 [page EXCEPT !.log = Append(@, next), !.ignore = TRUE,
                              !.redo = SubSeq(@, 1, Len(@) - 1)],
                 next))
    /\ UNCHANGED <<stored, cache, fetch, saves, spent>>

---------------------------------------------------------------------------
(* Save and discard.                                                       *)

deactivateHistory(p) ==
    SetSnapshot([p EXCEPT !.historyActive = FALSE, !.depth = 0, !.start = Empty],
                Snapshot(p.current))

\* The network's config is set to what is saved before the call is made. The
\* part's name comes from the query: without it nothing is saved.
Save ==
    LET saving == page.current # None /\ cache[page.part] # None
        idle == deactivateHistory(page)
    IN /\ saving => Cardinality(saves) < MaxSaves
       /\ Step(IF saving THEN [idle EXCEPT !.network = page.current] ELSE idle)
       /\ saves' = IF ~saving THEN saves
                   ELSE saves \cup {[part |-> page.part, config |-> page.current,
                                     done |-> FALSE]}
       /\ UNCHANGED <<stored, cache, fetch, spent>>

SaveStored(s) ==
    /\ s \in saves /\ ~s.done
    /\ stored' = [stored EXCEPT ![s.part] = s.config]
    /\ saves' = (saves \ {s}) \cup {[s EXCEPT !.done = TRUE]}
    /\ UNCHANGED <<cache, fetch, page, spent>>

\* The answer clears the dirty mark, of whatever is edited by then.
SaveReturns(s) ==
    /\ s \in saves /\ s.done
    /\ saves' = saves \ {s}
    /\ Step([page EXCEPT !.isDirty = FALSE])
    /\ UNCHANGED <<stored, cache, fetch, spent>>

\* A call that fails, before or after the app stored its config, rejects the
\* promise: nothing else happens.
SaveFails(s) ==
    /\ s \in saves
    /\ saves' = saves \ {s}
    /\ UNCHANGED <<stored, cache, fetch, page, spent>>

discardChanges ==
    /\ Step([deactivateHistory(page) EXCEPT !.current = page.network,
                                            !.isDirty = FALSE])
    /\ UNCHANGED <<stored, cache, fetch, saves, spent>>

\* Somebody else edits the part in the app.
EditedElsewhere(content) ==
    /\ Change
    /\ stored' = [stored EXCEPT ![page.part] = Config(page.part, content)]
    /\ UNCHANGED <<cache, fetch, saves, page>>

---------------------------------------------------------------------------
(* Properties.                                                             *)

\* A clean page shows what it holds of the network: answers, saves and
\* switches in any order leave no other config on screen without the mark that
\* makes it savable (the pre-effect of useStandalonePartConfig).
CleanFollowsNetwork ==
    ~page.isDirty /\ page.network # None => page.current = page.network

\* Whatever is edited, fetched or saved meanwhile, an open drag leaves the
\* history at the config it began from: undo takes the whole drag back
\* (beginFrameEditHistoryEntry and the effect it holds back).
DragIsOneEntry == page.depth = 1 => page.historySnapshot = page.start

\* "Part changed: drop any in-memory edits from the previous part"
\* (usePartConfig.svelte.ts): no config written for another part is shown or
\* saved for this one. The undo log is not dropped with the edits.
PreviousPartDropped ==
    /\ page.current # None => page.current.part \in {page.part, None}
    /\ \A s \in saves : s.config.part \in {s.part, None}

\* "Undo the last frame edit" (BuildActionsBar.svelte): undoing takes edits
\* back and never the loading of the config they were made on. An edit that
\* changes nothing is dirty without an entry in the log; undo then takes back
\* what came before it, at last the config itself.
LoadIsNotUndone == page.network # None => page.current # Empty

=============================================================================
