---------------------------- MODULE MovePanels ----------------------------
(***************************************************************************)
(* The move panels (plugins/MoveFrame): one per selected frame that the    *)
(* motion service can move. A panel stages a goal, has a move to it        *)
(* planned, previews the plan as ghost twins of the frames it moves, and   *)
(* runs that plan or lets the machine plan a move of its own. Panels share *)
(* the gizmo (moveGizmoOwner) and the machine (moveExecutionOwner), and    *)
(* their awaited requests outlive them.                                    *)
(*                                                                         *)
(* Abstractions. A pose, the JSON fields with the chosen service, and the  *)
(* frame system are values that are equal or not. The code tells an        *)
(* abandoned request by a generation that only grows; here the request     *)
(* says itself whether it is `current`. `overtakenBy` names, as a history  *)
(* of a plan, the frames that began to move since it was asked for. Mode,  *)
(* poses on the screen, toasts and collisions are left out.                *)
(***************************************************************************)
EXTENDS TrajectoryPlayer, FiniteSets, Sequences

CONSTANTS
    Frames,                 \* the frames that can be selected
    Goals,                  \* the poses a panel can stage
    Options,                \* contents of the JSON fields, and the service
    Unreadable,             \* those of them that do not parse
    Parts,                  \* frame systems the machine may report
    Trajectories,           \* answers of the planner, by the frames that
                            \* each of their segments costs
    MaxInterpolatedFrames,  \* the cap of the interpolation
    MaxRequests,            \* plan requests in flight at once
    None

\* A plan on offer, and what it was made for.
Plans == [goal : Goals, options : Options, parts : Parts, overtakenBy : SUBSET Frames,
          trajectory : Trajectories]

ASSUME NoneAssumption == None \notin Frames \cup Goals \cup Plans
ASSUME UnreadableAssumption == Unreadable \subseteq Options
ASSUME TrajectoriesAssumption == Trajectories \subseteq Seq(Nat) \ {<<>>}
ASSUME MaxInterpolatedFramesAssumption == MaxInterpolatedFrames \in Nat \ {0}

VARIABLES
    panels,       \* per frame, the panel that is open for it or was last
    twins,        \* the twins in the world: whose, and the frame they show
    armedFrame,   \* moveGizmoOwner
    movingFrame,  \* moveExecutionOwner
    options,      \* per frame, its persisted fields
    parts,        \* frames.parts
    requests,     \* plan requests in flight
    moves         \* commands the machine executes

vars == <<panels, twins, armedFrame, movingFrame, options, parts, requests, moves>>

---------------------------------------------------------------------------
(* Playback of a trajectory (motion/interpolateTrajectory.ts).             *)

Waypoint(w) == [waypoint |-> w, division |-> 0]
waypointFrames(t) == [k \in 1..Len(t) + 1 |-> Waypoint(k - 1)]

Total(t) == LET upTo[k \in 0..Len(t)] == IF k = 0 THEN 0 ELSE upTo[k - 1] + t[k]
            IN upTo[Len(t)]

\* Frames a segment is divided into: its cost, or its share of the cap.
Divisions(t, k) ==
    LET share == IF Total(t) <= MaxInterpolatedFrames THEN t[k]
                 ELSE (t[k] * MaxInterpolatedFrames + Total(t) - 1) \div Total(t)
    IN IF share = 0 THEN 1 ELSE share

interpolatedFrames(t) ==
    LET interior(k) == [d \in 1..Divisions(t, k) - 1 |->
                            [waypoint |-> k - 1, division |-> d]]
        upTo[k \in 0..Len(t)] ==
            IF k = 0 THEN <<Waypoint(0)>> ELSE upTo[k - 1] \o interior(k) \o <<Waypoint(k)>>
    IN upTo[Len(t)]

Details == {"waypoints", "interpolated"}
playbackFrames(p) ==
    IF p.plan = None THEN <<>>
    ELSE IF p.detail = "waypoints" THEN waypointFrames(p.plan.trajectory)
    ELSE interpolatedFrames(p.plan.trajectory)

totalSteps(p) == Len(playbackFrames(p))

---------------------------------------------------------------------------
(* The preview of a panel (usePreviewMove.svelte.ts).                      *)

Opened == {f \in Frames : panels[f].open}
Ready == {f \in Opened : panels[f].status = "ready"}

resetPreview_KeepsTrajectory(p) == [p EXCEPT !.player = Resting]
resetPreview(p) == [p EXCEPT !.plan = None, !.player = Resting]

clear(p) == [resetPreview(p) EXCEPT !.status = "idle"]
settle(p, status) == [resetPreview(p) EXCEPT !.status = status]

\* The effect on everything a plan was computed from.
invalidateOn(p) == IF p.status = "idle" THEN p ELSE clear(p)

TwinsOf(fs) == {t \in twins : t.frame \in fs}

\* What resetPreview does beside the panel's own state, for panels `fs`.
Abandon(fs) ==
    /\ twins' = twins \ TwinsOf(fs)
    /\ requests' = {IF r.frame \in fs THEN [r EXCEPT !.current = FALSE] ELSE r
                        : r \in requests}

\* renderStep: the twins of f show the step that its panel is told to draw.
ShowStep(f, p, step) ==
    twins' = IF step = NoStep THEN twins
             ELSE (twins \ TwinsOf({f}))
                    \cup {[frame |-> f, shows |-> playbackFrames(p)[step + 1]]}

---------------------------------------------------------------------------
Mounted(p) ==
    [open |-> TRUE, goal |-> None, status |-> "idle", plan |-> None,
     detail |-> "waypoints", player |-> Resting]
Unmounted(p) == [resetPreview(p) EXCEPT !.open = FALSE, !.goal = None, !.status = "idle"]

Init ==
    /\ panels = [f \in Frames |->
                    [open |-> FALSE, goal |-> None, status |-> "idle", plan |-> None,
                     detail |-> "waypoints", player |-> Resting]]
    /\ twins = {} /\ requests = {} /\ moves = {}
    /\ armedFrame = None /\ movingFrame = None
    /\ options \in [Frames -> Options]
    /\ parts \in Parts

\* The selection, or the mode, changes: panels that are not wanted unmount,
\* those that mount arm the gizmo one after another.
Select(selected) ==
    LET fresh == selected \ Opened
        gone == Opened \ selected
    IN /\ selected # Opened
       /\ panels' = [f \in Frames |-> IF f \in fresh THEN Mounted(panels[f])
                                      ELSE IF f \in gone THEN Unmounted(panels[f])
                                      ELSE panels[f]]
       /\ Abandon(gone)
       /\ moves' = {IF m.frame \in gone THEN [m EXCEPT !.mounted = FALSE] ELSE m : m \in moves}
       /\ \/ armedFrame' \in fresh
          \/ fresh = {} /\ armedFrame' = IF armedFrame \in gone THEN None ELSE armedFrame
       /\ UNCHANGED <<movingFrame, options, parts>>

UseItHere(f) ==
    /\ f \in Opened /\ armedFrame # f
    /\ armedFrame' = f
    /\ UNCHANGED <<panels, twins, movingFrame, options, parts, requests, moves>>

\* The effects of panels `fs` on a change that makes the panels `changed`.
Invalidated(fs, changed) ==
    /\ panels' = [f \in Frames |-> IF f \in fs THEN invalidateOn(changed[f]) ELSE changed[f]]
    /\ Abandon(fs)

stagePose_WhileMoving(f, goal) ==
    /\ f \in Opened
    /\ Invalidated({f}, [panels EXCEPT ![f].goal = goal])
    /\ UNCHANGED <<armedFrame, movingFrame, options, parts, moves>>
\* A drag of the gizmo or an edit of a field; neither works while it moves.
stagePose(f, goal) ==
    /\ f \in Opened /\ movingFrame # f
    /\ Invalidated({f}, [panels EXCEPT ![f].goal = goal])
    /\ UNCHANGED <<armedFrame, movingFrame, options, parts, moves>>

ChangeOptions(f, o) ==
    /\ f \in Opened
    /\ o # options[f]
    /\ options' = [options EXCEPT ![f] = o]
    /\ Invalidated({f}, panels)
    /\ UNCHANGED <<armedFrame, movingFrame, parts, moves>>

\* useFrames has fetched another frame system.
Refetch(ps) ==
    /\ ps # parts
    /\ parts' = ps
    /\ Invalidated(Opened, panels)
    /\ UNCHANGED <<armedFrame, movingFrame, options, moves>>

\* Its buttons also wait for a client, which comes and goes at any time.
MayCommand(f) == f \in Opened /\ movingFrame = None

requestPreview(f) ==
    LET p == panels[f]
        asked == [frame |-> f, current |-> TRUE, goal |-> p.goal, options |-> options[f],
                  parts |-> parts, overtakenBy |-> {}]
    IN /\ MayCommand(f)
       /\ p.goal # None /\ p.status # "planning"
       /\ twins' = twins \ TwinsOf({f})
       /\ \/ /\ options[f] \in Unreadable
             /\ panels' = [panels EXCEPT ![f] = settle(@, "error")]
             /\ UNCHANGED requests
          \/ /\ options[f] \notin Unreadable
             /\ Cardinality(requests) < MaxRequests
             /\ panels' = [panels EXCEPT ![f] = settle(@, "planning")]
             /\ requests' = requests \cup {asked}
       /\ UNCHANGED <<armedFrame, movingFrame, options, parts, moves>>

\* An answer or a failure of a request nobody waits for any more.
isStale_Never(r) == FALSE
isStale(r) == ~r.current

LandStale(r) ==
    /\ isStale(r)
    /\ requests' = requests \ {r}
    /\ UNCHANGED <<panels, twins, armedFrame, movingFrame, options, parts, moves>>

\* The twins of a plan, drawn at its start.
Spawned(f) == [frame |-> f, shows |-> Waypoint(0)]

LandPlan(r, trajectory) ==
    LET f == r.frame
        plan == [goal |-> r.goal, options |-> r.options, parts |-> r.parts,
                 overtakenBy |-> r.overtakenBy, trajectory |-> trajectory]
        p == [panels[f] EXCEPT !.plan = plan, !.status = "ready"]
    IN /\ ~isStale(r)
       /\ requests' = requests \ {r}
       /\ panels' = [panels EXCEPT ![f] = p]
       /\ twins' = twins \cup {Spawned(f)}
       /\ UNCHANGED <<armedFrame, movingFrame, options, parts, moves>>

\* The machine is there already, the request failed, the reply is malformed
\* or has nothing to draw.
LandWithoutPlan(r, status) ==
    /\ ~isStale(r)
    /\ requests' = requests \ {r}
    /\ panels' = [panels EXCEPT ![r.frame] = settle(@, status)]
    /\ UNCHANGED <<twins, armedFrame, movingFrame, options, parts, moves>>

setDetail(f) ==
    LET p == [panels[f] EXCEPT !.detail = IF @ = "waypoints" THEN "interpolated" ELSE "waypoints",
                               !.player = Resting]
    IN /\ f \in Ready
       /\ panels' = [panels EXCEPT ![f] = p]
       /\ ShowStep(f, p, 0)
       /\ UNCHANGED <<armedFrame, movingFrame, options, parts, requests, moves>>

Playing(f) ==
    LET p == panels[f]
        ticks == IF p.player.playing THEN {tick(p.player, totalSteps(p), TRUE)} ELSE {}
    IN /\ f \in Ready
       /\ \E s \in Scrubbed(p.player, totalSteps(p), TRUE) \cup ticks :
        /\ panels' = [panels EXCEPT ![f].player = s.player]
        /\ ShowStep(f, p, s.shows)
        /\ UNCHANGED <<armedFrame, movingFrame, options, parts, requests, moves>>

---------------------------------------------------------------------------
(* Moves (MoveControls.svelte, moveExecutionOwner.svelte.ts).              *)

Overtaken(x, f) == [x EXCEPT !.overtakenBy = @ \cup {f}]

\* claim, and the command it is taken for: every plan is now behind.
Begin(f, kind, cleared) ==
    /\ movingFrame = None
    /\ movingFrame' = f
    /\ moves' = moves \cup {[frame |-> f, kind |-> kind, goal |-> panels[f].goal, mounted |-> TRUE]}
    /\ panels' = [g \in Frames |->
                    LET p == IF g \in cleared THEN clear(panels[g]) ELSE panels[g]
                    IN IF p.plan = None THEN p ELSE [p EXCEPT !.plan = Overtaken(@, f)]]
    /\ twins' = twins \ TwinsOf(cleared)
    /\ requests' = {Overtaken(IF r.frame \in cleared THEN [r EXCEPT !.current = FALSE] ELSE r, f)
                        : r \in requests}
    /\ UNCHANGED <<armedFrame, options, parts>>

executePreviewedMove(f) ==
    /\ MayCommand(f) /\ f \in Ready
    /\ Begin(f, "execute", {})

executeMove(f) ==
    /\ MayCommand(f) /\ panels[f].goal # None
    /\ \/ options[f] \notin Unreadable /\ Begin(f, "move", {f})
       \/ /\ options[f] \in Unreadable
          /\ panels' = [panels EXCEPT ![f] = clear(@)]
          /\ Abandon({f})
          /\ UNCHANGED <<armedFrame, movingFrame, options, parts, moves>>

resetTarget(p) == clear([p EXCEPT !.goal = None])

MoveEnds_KeepsPlan(m, done) ==
    LET f == m.frame
        after == IF m.mounted /\ done THEN resetTarget(panels[f]) ELSE panels[f]
    IN /\ moves' = moves \ {m}
       /\ movingFrame' = IF movingFrame = f THEN None ELSE movingFrame
       /\ panels' = [panels EXCEPT ![f] = after]
       /\ IF m.mounted /\ done THEN Abandon({f}) ELSE UNCHANGED <<twins, requests>>
       /\ UNCHANGED <<armedFrame, options, parts>>
\* The command is answered, or fails, and the panel that sent it reacts,
\* mounted or not; `finally` releases the lock.
MoveEnds(m, done) ==
    LET f == m.frame
        drops == m.mounted /\ (done \/ m.kind = "execute")
        after == IF ~drops THEN panels[f]
                 ELSE IF done THEN resetTarget(panels[f]) ELSE clear(panels[f])
    IN /\ moves' = moves \ {m}
       /\ movingFrame' = IF movingFrame = f THEN None ELSE movingFrame
       /\ panels' = [panels EXCEPT ![f] = after]
       /\ IF drops THEN Abandon({f}) ELSE UNCHANGED <<twins, requests>>
       /\ UNCHANGED <<armedFrame, options, parts>>

Reset(f) ==
    /\ f \in Opened /\ movingFrame # f
    /\ panels[f].goal # None
    /\ panels' = [panels EXCEPT ![f] = resetTarget(@)]
    /\ Abandon({f})
    /\ UNCHANGED <<armedFrame, movingFrame, options, parts, moves>>

Next ==
    \/ \E selected \in SUBSET Frames : Select(selected)
    \/ \E f \in Frames : UseItHere(f)
    \/ \E f \in Frames, goal \in Goals : stagePose(f, goal)
    \/ \E f \in Frames, o \in Options : ChangeOptions(f, o)
    \/ \E ps \in Parts : Refetch(ps)
    \/ \E f \in Frames : requestPreview(f)
    \/ \E r \in requests : LandStale(r)
    \/ \E r \in requests, trajectory \in Trajectories : LandPlan(r, trajectory)
    \/ \E r \in requests, status \in {"already-at-goal", "error"} : LandWithoutPlan(r, status)
    \/ \E f \in Frames : setDetail(f)
    \/ \E f \in Frames : Playing(f)
    \/ \E f \in Frames : executePreviewedMove(f)
    \/ \E f \in Frames : executeMove(f)
    \/ \E m \in moves, done \in BOOLEAN : MoveEnds(m, done)
    \/ \E f \in Frames : Reset(f)

Spec == Init /\ [][Next]_vars

---------------------------------------------------------------------------
Statuses == {"idle", "planning", "ready", "already-at-goal", "error"}

Requests == [frame : Frames, current : BOOLEAN, goal : Goals, options : Options,
             parts : Parts, overtakenBy : SUBSET Frames]
Panels == [open : BOOLEAN, goal : Goals \cup {None}, status : Statuses,
           plan : Plans \cup {None}, detail : Details, player : Players(Nat)]
Moves == [frame : Frames, kind : {"execute", "move"}, goal : Goals, mounted : BOOLEAN]

\* Types, and the small print: a panel has a plan just when it is ready, a
\* request that is waited for just when it is planning.
TypeOK ==
    /\ panels \in [Frames -> Panels]
    /\ armedFrame \in Opened \cup {None}
    /\ movingFrame \in Frames \cup {None}
    /\ options \in [Frames -> Options]
    /\ parts \in Parts
    /\ requests \subseteq Requests
    /\ moves \subseteq Moves
    /\ \A f \in Frames :
        /\ (panels[f].plan # None) <=> (f \in Ready)
        /\ (panels[f].status = "planning") <=> \E r \in requests : r.frame = f /\ r.current

\* The machine runs one move at a time, whatever panels open, close and
\* reopen meanwhile, and the panel that sent it still has the goal it is
\* for, so that its end drops no other (moveExecutionOwner.svelte.ts).
OneMoveAtATime ==
    /\ IF movingFrame = None THEN moves = {} ELSE \E m \in moves : moves = {m}
    /\ \A m \in moves :
        /\ m.frame = movingFrame
        /\ m.mounted => m.frame \in Opened /\ panels[m.frame].goal = m.goal

PlanIsForGoal ==
    \A f \in Ready : LET plan == panels[f].plan
                     IN /\ plan.goal = panels[f].goal
                        /\ plan.options = options[f]
                        /\ plan.parts = parts
TwinsShowStep ==
    twins = {[frame |-> f, shows |-> playbackFrames(panels[f])[panels[f].player.step + 1]]
                : f \in Ready}
\* A plan that a panel offers was made for what the panel shows: its goal,
\* its fields and the frame system, however answers overlap with edits.
\* Its twins, and no others, stand at the step that the player is at
\* (usePreviewMove.svelte.ts: generation, invalidateOn).
PreviewIsForGoal == PlanIsForGoal /\ TwinsShowStep

\* Once a move of its panel is over no plan is offered that was asked for
\* before it: it would start where the machine is no more (executeMove,
\* executePreviewedMove: "the plan no longer starts where the machine is").
NoPlanSurvivesItsMove ==
    \A f \in Ready : movingFrame # f => f \notin panels[f].plan.overtakenBy

\* The same for the moves of other panels. The code does not promise it:
\* the plan of another panel stays, and the machine refuses to start it.
PlansStartHere == \A f \in Ready : movingFrame = None => panels[f].plan.overtakenBy = {}

\* "Another move panel has the gizmo." is what a panel says that is not
\* armed. It does not hold: the armed panel may have been closed.
PreemptedMeansOther == \A f \in Opened : armedFrame # f => armedFrame \in Opened \ {f}
=============================================================================
