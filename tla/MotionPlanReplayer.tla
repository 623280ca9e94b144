------------------------- MODULE MotionPlanReplayer -------------------------
(***************************************************************************)
(* The list of motion plans and the one drawn                              *)
(* (plugins/MotionPlanReplayer/useMotionPlanReplayer.svelte.ts): plans with *)
(* their snapshots, the active plan, its entities and their player.        *)
(***************************************************************************)
EXTENDS Sequences, TrajectoryPlayer

CONSTANTS
    Files,      \* the plans one may have, known by their name
    Steps,      \* the snapshots the client parses from a file, or Broken
    Broken,
    MaxPlans    \* plans added in one behaviour, the ones given on mount included

VARIABLES
    plans,          \* the list: [id, file, status, steps]
    snapshotStore,  \* plan id -> number of its snapshots
    nextPlanId,
    active,         \* activePlanIndex, 1-based; 0 is null
    player,
    root,           \* planEntity exists
    drawn           \* what is in the world under the root: {[plan, step]}

vars == <<plans, snapshotStore, nextPlanId, active, player, root, drawn>>

Statuses == {"idle", "ready", "error", "no-trajectory"}

TypeOK ==
    /\ plans \in Seq([id : 1..MaxPlans, file : Files, status : Statuses,
                      steps : Nat])
    /\ DOMAIN snapshotStore \subseteq 1..MaxPlans
    /\ \A id \in DOMAIN snapshotStore : snapshotStore[id] \in Nat \ {0}
    /\ nextPlanId \in 1..(MaxPlans + 1)
    /\ active \in 0..Len(plans)
    /\ player.step \in Nat /\ player.playing \in BOOLEAN
    /\ root \in BOOLEAN
    /\ drawn \subseteq [plan : 1..MaxPlans, step : Nat]

Idle(id, file) == [id |-> id, file |-> file, status |-> "idle", steps |-> 0]

\* The application may give plans of its own, of the same name too.
Init ==
    /\ \E n \in 0..MaxPlans : \E initialPlans \in [1..n -> Files] :
         /\ plans = [i \in 1..n |-> Idle(i, initialPlans[i])]
         /\ nextPlanId = n + 1
    /\ snapshotStore = [id \in {} |-> 0]
    /\ active = 0 /\ player = Resting /\ root = FALSE /\ drawn = {}

---------------------------------------------------------------------------
(* The state of the hook as one record, which its operations work on.      *)

State == [plans |-> plans, store |-> snapshotStore, active |-> active,
          player |-> player, root |-> root, drawn |-> drawn]

\* An index that is not in the list counts as none.
totalSteps(s) ==
    IF s.active \in 1..Len(s.plans) THEN s.plans[s.active].steps ELSE 0

Become(s) ==
    /\ plans' = s.plans /\ snapshotStore' = s.store /\ active' = s.active
    /\ player' = Unloaded(s.player, totalSteps(s))
    /\ root' = s.root /\ drawn' = s.drawn

\* The root takes every entity of the plan with it.
clearActivePlan(s) ==
    [s EXCEPT !.root = FALSE, !.drawn = {}, !.player = Resting, !.active = 0]

\* Reconciling replaces the entities the root holds.
applyStep(s, plan, step) == [s EXCEPT !.drawn = {[plan |-> plan, step |-> step]}]

Shown(s, index) ==
    applyStep([s EXCEPT !.active = index, !.player = Resting, !.root = TRUE],
              s.plans[index].id, 0)

loadPlan(s, index) ==
    LET plan == s.plans[index]
        parsed == Steps[plan.file]
        Marked(status, steps) == [s EXCEPT !.plans[index].status = status,
                                           !.plans[index].steps = steps]
    IN IF plan.id \in DOMAIN s.store THEN Shown(s, index)
       ELSE IF parsed = Broken THEN Marked("error", plan.steps)
       ELSE IF parsed = 0 THEN [Marked("no-trajectory", 0) EXCEPT !.active = index]
       ELSE Shown([Marked("ready", parsed) EXCEPT
                     !.store = [id \in DOMAIN @ \cup {plan.id} |->
                                  IF id = plan.id THEN parsed ELSE @[id]]],
                  index)

selectPlan(s, index) ==
    loadPlan(IF s.active \notin {0, index} THEN clearActivePlan(s) ELSE s, index)

\* The snapshots a server may have computed come with the plan.
addPlan(s, file, precomputed) ==
    LET id == nextPlanId
        added == [s EXCEPT
                    !.plans = Append(@, IF precomputed = 0 THEN Idle(id, file)
                                        ELSE [Idle(id, file) EXCEPT
                                                !.status = "ready",
                                                !.steps = precomputed]),
                    !.store = IF precomputed = 0 THEN @
                              ELSE [i \in DOMAIN @ \cup {id} |->
                                      IF i = id THEN precomputed ELSE @[i]]]
    IN selectPlan(added, Len(added.plans))

Without(seq, index) ==
    SubSeq(seq, 1, index - 1) \o SubSeq(seq, index + 1, Len(seq))

removePlan_KeepsIndex(s, index) ==
    LET kept == IF s.active = index THEN clearActivePlan(s) ELSE s
    IN [kept EXCEPT
          !.plans = Without(@, index),
          !.store = [i \in DOMAIN @ \ {s.plans[index].id} |-> @[i]]]
removePlan(s, index) ==
    LET kept == IF s.active = index THEN clearActivePlan(s) ELSE s
    IN [kept EXCEPT
          !.plans = Without(@, index),
          !.store = [i \in DOMAIN @ \ {s.plans[index].id} |-> @[i]],
          !.active = IF @ > index THEN @ - 1 ELSE @]

---------------------------------------------------------------------------
(* The operations of the hook.                                             *)

AddPlan(file, precomputed) ==
    /\ nextPlanId <= MaxPlans
    /\ nextPlanId' = nextPlanId + 1
    /\ Become(addPlan(State, file, precomputed))

SelectPlan(index) ==
    /\ Become(selectPlan(State, index)) /\ UNCHANGED nextPlanId
RemovePlan(index) ==
    /\ Become(removePlan(State, index)) /\ UNCHANGED nextPlanId
ClearActivePlan ==
    /\ Become(clearActivePlan(State)) /\ UNCHANGED nextPlanId

\* The player's onStep draws the step of the active plan, from its snapshots.
onStep == active \in 1..Len(plans) /\ plans[active].id \in DOMAIN snapshotStore
Moved(move) ==
    /\ Become(IF move.shows = NoStep THEN [State EXCEPT !.player = move.player]
              ELSE applyStep([State EXCEPT !.player = move.player],
                             plans[active].id, move.shows))
    /\ UNCHANGED nextPlanId

Scrub == \E move \in Scrubbed(player, totalSteps(State), onStep) : Moved(move)
Tick == player.playing /\ Moved(tick(player, totalSteps(State), onStep))

\* The scrubber that leaves the screen pauses the player.
Pause == Moved(Still(pause(player)))

---------------------------------------------------------------------------
(* Properties.                                                             *)

\* What is drawn is the current step of the active plan and nothing else, by
\* whichever way plans were added, selected, removed and played: "the index
\* answers what is on screen" (trajectoryPlayer.svelte.ts).
ScreenShowsStep ==
    drawn = IF totalSteps(State) = 0 THEN {}
            ELSE {[plan |-> plans[active].id, step |-> player.step]}

\* Snapshots are kept for exactly the listed plans that are ready, as many as
\* the list says: removing reindexes the list but not the store.
StoreMatchesList ==
    /\ \A id \in DOMAIN snapshotStore :
         \E i \in DOMAIN plans : plans[i].id = id
    /\ \A i \in DOMAIN plans :
         /\ plans[i].status = "ready" <=> plans[i].id \in DOMAIN snapshotStore
         /\ plans[i].status = "ready" => plans[i].steps = snapshotStore[plans[i].id]

=============================================================================
