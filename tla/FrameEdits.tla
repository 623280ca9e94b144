----------------------------- MODULE FrameEdits -----------------------------
(***************************************************************************)
(* Editing frames in the scene: the entities of a part's frames            *)
(* (hooks/useFrames.svelte.ts, usePoses.svelte.ts), edits staged on them   *)
(* (editing/FrameEditor.ts) and what becomes of these when the part config *)
(* is saved, discarded, undone or redone (editing/frameHistory.ts), over   *)
(* the part config of PartConfig.                                          *)
(*                                                                         *)
(* Frames are components of the part, with nothing but a pose. Poses form  *)
(* the group of the integers modulo N, in the place of the rigid motions.  *)
(***************************************************************************)
EXTENDS Integers, Sequences

CONSTANTS
    Frames,         \* the components of a part
    N,              \* poses
    Reports,        \* the frames the machine may report, None for the others
    NoFrame,        \* the component has no frame
    Missing,        \* the config has no such component
    Parts, None, MaxChanges, MaxDrags, MaxLog, MaxSaves    \* as in PartConfig

ASSUME FramesAssumption ==
    /\ N \in Nat \ {0} /\ {None, NoFrame, Missing} \cap Nat = {}
    /\ None # NoFrame /\ None # Missing /\ NoFrame # Missing /\ None \notin Parts
    /\ MaxChanges \in Nat /\ MaxDrags \in Nat /\ MaxLog \in Nat /\ MaxSaves \in Nat

Poses == 0..(N - 1)

ASSUME ReportsAssumption == Reports \subseteq [Frames -> Poses \cup {None}]

\* What a config says: a frame or none for each component. Blank has no components.
Blank == [f \in Frames |-> Missing]
Original == [f \in Frames |-> 0]
Contents == [Frames -> Poses \cup {NoFrame}]

VARIABLES
    stored, cache, fetch, saves, page, spent,     \* as in PartConfig
    entities,   \* the scene, by frame
    reported,   \* the frames the machine reported, None for the others
    connected,  \* a live connection to the machine
    mode        \* what the user does in the scene

config == <<stored, cache, fetch, saves, page, spent>>
scene == <<entities, reported, connected, mode>>
vars == <<config, scene>>

Config == INSTANCE PartConfig

\* landed is a history: the config took the staged edit. There may be nothing in
\* it to edit, for a frame only the machine knows.
Entities == [matrix : Poses, live : Poses, edited : Poses \cup {None}, landed : BOOLEAN]
Unedited(matrix, live) == [matrix |-> matrix, live |-> live, edited |-> None, landed |-> TRUE]
Unstaged(e) == [e EXCEPT !.edited = None, !.landed = TRUE]
Staged(e, pose, landed) == [e EXCEPT !.edited = pose, !.landed = landed]
NoEntities == [f \in Frames |-> None]

ASSUME NoneAssumption == None \notin Entities \cup Config!Configs \cup {Config!Empty}

---------------------------------------------------------------------------
(* Frames and poses.                                                       *)

Content(p) == IF p.current = None THEN Blank ELSE p.current.content
Declared(content) == {f \in Frames : content[f] \in Poses}

\* What a frame is drawn at, relative to its parent: a staged edit moves it
\* from where it is by what it moves it in the config (composeLocalMatrix).
Local(e) == IF e.edited = None THEN e.live ELSE (e.live - e.matrix + e.edited) % N

\* The config wins while building and where no machine is.
isConfigAuthoritative(m, c) == m = "build" \/ ~c

CurrentFrames(content, seen, authoritative) ==
    [f \in Frames |->
        IF ~authoritative \/ content[f] = Missing THEN seen[f]
        ELSE IF content[f] = NoFrame THEN None
        ELSE content[f]]

---------------------------------------------------------------------------
(* What an action leaves in the scene.                                     *)

\* A baseline follows its frame only while monitoring a clean config.
Synced_Eager(e, frame, frozen) == [e EXCEPT !.matrix = frame]
Synced(e, frame, frozen) == IF frozen THEN e ELSE [e EXCEPT !.matrix = frame]

\* The effect of useFrames: entities come and go with the frames.
SyncFrames(es, frames, frozen) ==
    [f \in Frames |->
        IF frames[f] = None THEN None
        ELSE IF es[f] = None THEN Unedited(frames[f], frames[f])
        ELSE Synced(es[f], frames[f], frozen)]

\* An edit that is over: the frame is the baseline, and a save keeps what is drawn.
Settled_SnapsBack(e, frame, how) == Unedited(frame, e.live)
Settled_KeepsEdit(e, frame, how) == [e EXCEPT !.matrix = frame]
Settled(e, frame, how) ==
    Unedited(frame, IF how = "save" THEN Local(e) ELSE e.live)

\* A config put into the scene, as an edit to stage or as one that is over.
applyFrameHistorySnapshotToWorld(es, content, how) ==
    [f \in Frames |->
        IF es[f] = None THEN None
        ELSE IF f \in Declared(content)
             THEN IF how = "edit" THEN Staged(es[f], content[f], TRUE)
                  ELSE Settled(es[f], content[f], how)
        ELSE IF how # "edit" \/ content[f] = NoFrame THEN Unstaged(es[f])
        ELSE es[f]]

resetStagedEdits(es) ==
    [f \in Frames |-> IF es[f] = None THEN None ELSE Unstaged(es[f])]

\* The effects after a call or an answer that left es: that of useFrames, when
\* something it reads is new, then the one of usePartConfig that settles the
\* staged edits once the config is clean again.
Flush(es, new, how) ==
    LET frames == CurrentFrames(Content(page'), reported',
                                isConfigAuthoritative(mode', connected'))
        synced == IF new THEN SyncFrames(es, frames, page'.isDirty \/ mode' = "build")
                  ELSE es
    IN entities' = IF page.isDirty /\ ~page'.isDirty
                   THEN applyFrameHistorySnapshotToWorld(synced, Content(page'), how)
                   ELSE synced

TypeOK ==
    /\ Config!TypeOK
    /\ entities \in [Frames -> Entities \cup {None}]
    /\ reported \in [Frames -> Poses \cup {None}]
    /\ connected \in BOOLEAN
    /\ mode \in {"monitor", "build"}

Init ==
    /\ Config!Init
    /\ entities = NoEntities
    /\ reported = NoEntities
    /\ connected = FALSE
    /\ mode = "monitor"

---------------------------------------------------------------------------
(* The part config and the machine.                                        *)

FetchArrives ==
    /\ Config!FetchArrives
    /\ UNCHANGED <<reported, connected, mode>>
    /\ Flush(entities, fetch.part = page.part /\ ~page.isDirty, "save")

\* The entities are those of the part, so all of them are new.
SelectPart(part) ==
    /\ Config!SelectPart(part)
    /\ reported' \in Reports /\ connected' \in BOOLEAN /\ UNCHANGED mode
    /\ Flush(NoEntities, TRUE, "save")

\* An answer for what was edited meanwhile is followed by a config that is new;
\* it may be new and say the same.
SaveReturns(s) ==
    /\ Config!SaveReturns(s)
    /\ UNCHANGED <<reported, connected, mode>>
    /\ \E new \in {TRUE, page'.current # page.current} : Flush(entities, new, "save")

Elsewhere ==
    /\ \/ Config!FetchServed \/ Config!Save
       \/ \E s \in saves : Config!SaveStored(s) \/ Config!SaveFails(s)
       \/ \E content \in Contents : Config!EditedElsewhere(content)
    /\ UNCHANGED scene

Connection ==
    /\ connected' = ~connected
    /\ UNCHANGED <<config, reported, mode>>
    /\ Flush(entities, mode # "build", "save")

\* frameSystemConfig is asked of a connected machine only.
FramesAnswer ==
    /\ connected
    /\ reported' \in Reports
    /\ UNCHANGED <<config, connected, mode>>
    /\ Flush(entities, TRUE, "save")

\* getPose of a frame the machine knows, wherever the robot moved it. What it
\* last said is shown without a connection too.
PoseArrives(f) ==
    /\ entities[f] # None /\ reported[f] # None
    /\ \E pose \in Poses : entities' = [entities EXCEPT ![f].live = pose]
    /\ UNCHANGED <<config, reported, connected, mode>>

---------------------------------------------------------------------------
(* The user.                                                               *)

\* A frame is edited with the gizmo or its panel, in build mode.
CanEdit(f) == mode = "build" /\ page.network # None /\ entities[f] # None

Write(f, frame) ==
    IF f \in Declared(Content(page))
    THEN Config!Edit([Content(page) EXCEPT ![f] = frame])
    ELSE Config!EditMisses(FALSE)

setPose(f, pose) ==
    /\ CanEdit(f)
    /\ Write(f, pose)
    /\ UNCHANGED <<reported, connected, mode>>
    /\ Flush([entities EXCEPT ![f] =
                 Staged(@, pose, f \in Declared(Content(page)))], TRUE, "save")

deleteFrame(f) ==
    /\ CanEdit(f)
    /\ Write(f, NoFrame)
    /\ UNCHANGED <<reported, connected, mode>>
    /\ Flush(entities, TRUE, "save")

\* Offered for a component without a frame. Its panel may outlive the component,
\* for which the config is set as it was.
createFrame(f) ==
    /\ mode = "build"
    /\ \/ Content(page)[f] = NoFrame /\ Config!Edit([Content(page) EXCEPT ![f] = 0])
       \/ Content(page)[f] = Missing /\ Config!EditMisses(TRUE)
    /\ UNCHANGED <<reported, connected, mode>>
    /\ Flush(entities, TRUE, "save")

beginDrag ==
    /\ \E f \in Frames : CanEdit(f)
    /\ Config!beginFrameEditHistoryEntry
    /\ UNCHANGED scene

endDrag ==
    /\ Config!endFrameEditHistoryEntry
    /\ UNCHANGED scene

\* The snapshot is put into the scene before the effects run.
applyHistorySnapshot(target) ==
    /\ UNCHANGED <<reported, connected, mode>>
    /\ Flush(applyFrameHistorySnapshotToWorld(
                 entities, target.content,
                 IF target = page.cleanSnapshot THEN "discard" ELSE "edit"),
             TRUE, "save")

undo ==
    /\ Config!undoFrameEdit
    /\ applyHistorySnapshot(page.log[Len(page.log) - 1])

redo ==
    /\ Config!redoFrameEdit
    /\ applyHistorySnapshot(page.redo[Len(page.redo)])

discard ==
    /\ mode = "build" /\ page.isDirty
    /\ Config!discardChanges
    /\ UNCHANGED <<reported, connected, mode>>
    /\ Flush(resetStagedEdits(entities), TRUE, "discard")

\* Building is not left with edits: they are discarded, when the user confirms.
SwitchMode ==
    /\ mode' = IF mode = "build" THEN "monitor" ELSE "build"
    /\ UNCHANGED <<reported, connected>>
    /\ IF mode = "build" /\ page.isDirty
       THEN /\ Config!discardChanges
            /\ \E new \in {TRUE, connected \/ page'.current # page.current} :
                 Flush(resetStagedEdits(entities), new, "discard")
       ELSE UNCHANGED config /\ Flush(entities, connected, "save")

Next ==
    \/ FetchArrives \/ \E part \in Parts : SelectPart(part)
    \/ \E s \in saves : SaveReturns(s)
    \/ Elsewhere \/ Connection \/ FramesAnswer
    \/ \E f \in Frames : PoseArrives(f) \/ deleteFrame(f) \/ createFrame(f)
    \/ \E f \in Frames, pose \in Poses : setPose(f, pose)
    \/ beginDrag \/ endDrag \/ undo \/ redo \/ discard \/ SwitchMode

Spec == Init /\ [][Next]_vars

---------------------------------------------------------------------------
(* Properties.                                                             *)

\* Of the part config: a clean page shows what it holds of the network, and a
\* drag is one entry of its history, whatever happens in the scene.
CleanFollowsNetwork == Config!CleanFollowsNetwork
DragIsOneEntry == Config!DragIsOneEntry
PreviousPartDropped == Config!PreviousPartDropped
LoadIsNotUndone == Config!LoadIsNotUndone

\* What is staged in the scene is what a save would write, and nothing is staged
\* over a clean config, after any undo, save that ends late, discard, answer or
\* change of mode or part (FrameEditor and applyFrameHistorySnapshotToWorld
\* write two states that nothing else keeps together).
StagedIsSaved ==
    \A f \in Declared(Content(page)) :
        entities[f] # None /\ entities[f].edited # None /\ entities[f].landed =>
            page.isDirty /\ entities[f].edited = Content(page)[f]

\* The end of a save leaves every frame where it is drawn, wherever the robot
\* has moved it meanwhile ("the frame snaps back to where it started",
\* usePartConfig.svelte.ts, says what its effect is there to avoid).
SaveKeepsPicture ==
    [][\A f \in Declared(Content(page)) :
         /\ saves' # saves /\ page.isDirty /\ ~page'.isDirty
         /\ page'.current = page.current /\ mode = "build"
         /\ entities[f] # None
         => entities'[f] # None /\ Local(entities'[f]) = Local(entities[f])]_vars

\* "So this re-sync can't fight an in-progress edit" (useFrames.svelte.ts):
\* while the config stays dirty and as it is, no report, pose, reconnection or
\* fetched config touches a staged edit it took or the baseline that is drawn against.
EditIsNotFought ==
    [][\A f \in Declared(Content(page)) :
         /\ page.isDirty /\ page'.isDirty /\ page'.current = page.current
         /\ entities[f] # None /\ entities'[f] # None
         /\ entities[f].edited # None /\ entities[f].landed
         => /\ entities'[f].edited = entities[f].edited
            /\ entities'[f].matrix = entities[f].matrix]_vars

=============================================================================
