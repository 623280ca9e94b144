---------------------------- MODULE ReplayPanel ----------------------------
(***************************************************************************)
(* The panel of the motion plan replayer                                   *)
(* (plugins/MotionPlanReplayer/MotionPlanReplayerUI.svelte) over the        *)
(* replayer and the IK inspection, which both outlive it: uploads of plan  *)
(* files, the switch between replaying and inspecting, and leaving and     *)
(* entering replay mode.                                                   *)
(***************************************************************************)
EXTENDS Sequences, Integers

CONSTANTS Files, Steps, Broken, MaxPlans,
          Candidates, Status, MinSteps, MaxSteps, DefaultSteps, MaxRequests, None,
          MaxSwitches,    \* times replay mode is left or entered
          MaxUploads,     \* files on their way at once
          Toggled         \* kinds of pose the user shows and hides

ASSUME PlansAssumption ==
    /\ Steps \in [Files -> Nat \cup {Broken}]
    /\ Broken \notin Nat /\ MaxPlans \in Nat \ {0}

ASSUME CandidatesAssumption ==
    /\ Status \in [Candidates -> {"valid", "path-invalid", "invalid", "unsolved"}]
    /\ MinSteps \in Nat /\ MaxSteps \in Nat /\ DefaultSteps \in MinSteps..MaxSteps
    /\ MinSteps >= 2 /\ MaxRequests \in Nat
    /\ None \notin Candidates /\ None \notin Files

ASSUME PanelAssumption ==
    /\ MaxSwitches \in Nat /\ MaxUploads \in Nat
    /\ Toggled \subseteq {"start", "lastGood", "end", "path"}

VARIABLES
    plans, snapshotStore, nextPlanId, active, player, root, drawn,
    requests, asked, ik,
    mounted,        \* the panel is on screen: replay mode
    uploads,        \* files read or resolved: [slot, file, stage, late]
    switches

Plans == INSTANCE MotionPlanReplayer
IK == INSTANCE IKInspection WITH Names <- Files

ASSUME NoneAssumption == None \notin IK!Drawn

panel == <<mounted, uploads, switches>>
planVars == <<plans, snapshotStore, nextPlanId, active, player, root, drawn>>
ikVars == <<requests, asked, ik>>
vars == <<planVars, ikVars, panel>>

\* A late upload was chosen in a panel that is gone.
Uploads == [slot : 1..MaxUploads, file : Files, stage : {"reading", "resolving"},
            late : BOOLEAN]

TypeOK ==
    /\ Plans!TypeOK /\ IK!TypeOK
    /\ mounted \in BOOLEAN /\ uploads \subseteq Uploads /\ switches \in 0..MaxSwitches

Init ==
    /\ Plans!Init /\ IK!Init
    /\ mounted \in BOOLEAN /\ uploads = {} /\ switches = 0

\* The plans are listed while nothing is inspected.
Listed == mounted /\ ~ik.isActive
\* Every panel counts its own.
uploadsInFlight == {u \in uploads : u.stage = "resolving" /\ ~u.late}

ChooseFile(file) ==
    /\ Listed /\ uploadsInFlight = {}
    /\ \E slot \in 1..MaxUploads \ {u.slot : u \in uploads} :
         uploads' = uploads \cup {[slot |-> slot, file |-> file,
                                  stage |-> "reading", late |-> FALSE]}
    /\ UNCHANGED <<planVars, ikVars, mounted, switches>>

\* A file of a name that is listed already is refused.
FileRead(u) ==
    /\ u.stage = "reading"
    /\ LET others == uploads \ {u}
       IN uploads' = IF \E i \in DOMAIN plans : plans[i].file = u.file THEN others
                     ELSE others \cup {[u EXCEPT !.stage = "resolving"]}
    /\ UNCHANGED <<planVars, ikVars, mounted, switches>>

\* The host may compute the snapshots, also of a plan the client cannot read,
\* or give none.
planDropper(file) ==
    (IF Steps[file] = Broken THEN {} ELSE {Steps[file]}) \cup {0, 1}

FileResolved(u) ==
    /\ u.stage = "resolving"
    /\ uploads' = uploads \ {u}
    /\ \E precomputed \in planDropper(u.file) : Plans!AddPlan(u.file, precomputed)
    /\ UNCHANGED <<ikVars, mounted, switches>>

FileFailed(u) ==
    /\ u.stage = "reading" \/ Steps[u.file] = Broken
    /\ uploads' = uploads \ {u}
    /\ UNCHANGED <<planVars, ikVars, mounted, switches>>

ClickPlan(i) ==
    /\ Listed
    /\ IF active = i THEN Plans!ClearActivePlan ELSE Plans!SelectPlan(i)
    /\ UNCHANGED <<ikVars, panel>>
ClickRemove(i) ==
    /\ Listed /\ Plans!RemovePlan(i) /\ UNCHANGED <<ikVars, panel>>

\* "Inspect mode takes the panel over": the replayed plan goes first.
ClickInspect(i) ==
    /\ Listed /\ ik.status # "loading"
    /\ Plans!ClearActivePlan /\ IK!inspect(plans[i].file)
    /\ UNCHANGED panel

ReplayScrubbed == Listed /\ Plans!Scrub /\ UNCHANGED <<ikVars, panel>>
ReplayTicks == Plans!Tick /\ UNCHANGED <<ikVars, panel>>

Inspecting == mounted /\ ik.isActive
ClickBack == Inspecting /\ IK!exit /\ UNCHANGED <<planVars, panel>>
ClickCandidate(id) ==
    /\ Inspecting /\ ik.status = "ready"
    /\ IK!select(id) /\ UNCHANGED <<planVars, panel>>
\* The detail pane of the selected candidate.
Detail == Inspecting /\ ik.status = "ready" /\ ik.selectedId # None
TogglePose(kind) ==
    /\ Detail
    /\ IF kind = "path" THEN ik.pathLength > 0
       ELSE kind \in IK!poseSetsForCandidate(ik, ik.selectedId)
    /\ IK!setPoseVisible(kind, kind \notin ik.visible) /\ UNCHANGED <<planVars, panel>>
ChangeSteps(steps) ==
    /\ Detail /\ ik.pathLength > 0 /\ IK!setPathSteps(steps) /\ UNCHANGED <<planVars, panel>>
PathScrubbed == Detail /\ IK!Scrub /\ UNCHANGED <<planVars, panel>>
PathTicks == IK!Tick /\ UNCHANGED <<planVars, panel>>

Answer(request) ==
    /\ IK!Resolved(request) \/ IK!Rejected(request)
    /\ UNCHANGED <<planVars, panel>>

\* Leaving replay mode: the panel clears what it leaves, uploads go on.
Unmount ==
    /\ mounted /\ switches < MaxSwitches
    /\ mounted' = FALSE /\ switches' = switches + 1
    /\ Plans!ClearActivePlan /\ IK!exit
    /\ uploads' = {[u EXCEPT !.late = TRUE] : u \in uploads}
Mount ==
    /\ ~mounted /\ switches < MaxSwitches
    /\ mounted' = TRUE /\ switches' = switches + 1
    /\ UNCHANGED <<planVars, ikVars, uploads>>

Next ==
    \/ \E file \in Files : ChooseFile(file)
    \/ \E u \in uploads : FileRead(u) \/ FileResolved(u) \/ FileFailed(u)
    \/ \E i \in DOMAIN plans : ClickPlan(i) \/ ClickRemove(i) \/ ClickInspect(i)
    \/ ReplayScrubbed \/ ReplayTicks
    \/ ClickBack \/ \E id \in Candidates : ClickCandidate(id)
    \/ \E kind \in Toggled : TogglePose(kind)
    \/ \E steps \in MinSteps..MaxSteps : ChangeSteps(steps)
    \/ PathScrubbed \/ PathTicks
    \/ \E request \in requests : Answer(request)
    \/ Mount \/ Unmount

Spec == Init /\ [][Next]_vars

---------------------------------------------------------------------------
(* Properties.                                                             *)

\* The list of plans, the snapshots kept for it, the player and the screen
\* agree after any sequence of uploads, selections, removals and playback.
PlansAgree == Plans!ScreenShowsStep /\ Plans!StoreMatchesList

\* What is drawn of an inspection is what its panel says: the path at the step of
\* its player, and every set of the selected candidate, visible as toggled,
\* after answers, selections, resolutions and toggles in any order.
InspectionFollowsPanel == IK!PathAtItsStep /\ IK!SetsOfSelection

\* Of IKInspection: all that is drawn of an inspection is of one answer.
OneResult == IK!OneResult

\* Out of replay mode, and back in the list of plans, nothing of an inspection
\* is left in the scene, however late its answer (the teardown of the panel
\* and isStale).
InspectionLeavesNothing == IK!AnswerIsForPlanShown /\ (~mounted => ~ik.isActive)

\* "Geometry left behind would have no controls to remove it"
\* (MotionPlanReplayerUI.svelte): a plan is drawn only while the list that can
\* take it away is on screen. An upload that is answered later draws anyway.
PlanHasControls == drawn # {} => Listed

=============================================================================
