---------------------------- MODULE IKInspection ----------------------------
(***************************************************************************)
(* Inspecting the inverse-kinematics candidates of a plan                  *)
(* (plugins/MotionPlanReplayer/inspect-ik/useIKInspection.svelte.ts): a    *)
(* request per inspection, its candidates, the poses drawn for the selected *)
(* one and the interpolated path one may scrub. Sorting, filtering and     *)
(* expanding the list are left out: nothing else reads them.               *)
(***************************************************************************)
EXTENDS FiniteSets, TrajectoryPlayer

CONSTANTS
    Names,          \* plans to inspect
    Candidates,     \* candidate ids: "seed:index", the same in every result
    Status,         \* candidate -> "valid", "path-invalid", "invalid", "unsolved"
    MinSteps, MaxSteps, DefaultSteps,   \* bounds and default of pathSteps
    MaxRequests,    \* inspections in one behaviour
    None

VARIABLES
    requests,   \* resolveIKSolutions calls not answered: [number, name]
    asked,      \* number of requests so far
    ik          \* the state of the hook

vars == <<requests, asked, ik>>

Kinds == {"start", "lastGood", "end", "path"}
Results == [number : 1..MaxRequests, name : Names, hasStart : BOOLEAN,
            obstacles : BOOLEAN]
\* A drawn set: of which result, for which candidate, shown or hidden. The
\* path also knows its step.
Drawn == [result : Results, candidate : Candidates, visible : BOOLEAN]

TypeOK ==
    /\ requests \subseteq [number : 1..MaxRequests, name : Names]
    /\ asked \in 0..MaxRequests
    /\ ik \in [isActive : BOOLEAN,
               status : {"idle", "loading", "ready", "error"},
               planName : Names \cup {None},
               result : Results \cup {None},
               selectedId : Candidates \cup {None},
               visible : SUBSET Kinds,
               sets : [Kinds -> Drawn \cup {None}],
               obstacles : Results \cup {None},
               pathSteps : MinSteps..MaxSteps,
               pathLength : {0} \cup MinSteps..(MaxSteps + 1),
               pathStep : {NoStep} \cup 0..MaxSteps,
               player : Players(0..MaxSteps)]

NoSets == [kind \in Kinds |-> None]

Init ==
    /\ requests = {} /\ asked = 0
    /\ ik = [isActive |-> FALSE, status |-> "idle", planName |-> None,
             result |-> None, selectedId |-> None, visible |-> Kinds,
             sets |-> NoSets, obstacles |-> None, pathSteps |-> DefaultSteps,
             pathLength |-> 0, pathStep |-> NoStep, player |-> Resting]

Become(s) ==
    /\ ik' = [s EXCEPT !.player = Unloaded(@, s.pathLength)]
    /\ UNCHANGED <<requests, asked>>

---------------------------------------------------------------------------
(* Drawing.                                                                *)

clearPath(s) ==
    [s EXCEPT !.sets["path"] = None, !.pathLength = 0, !.pathStep = NoStep,
              !.player = Resting]

clearPoseSets(s) == [clearPath(s) EXCEPT !.sets = NoSets]

teardownScene(s) == [clearPoseSets(s) EXCEPT !.obstacles = None]

supportsInterpolation(s, candidate) ==
    Status[candidate] \in {"valid", "path-invalid"} /\ s.result.hasStart

\* The last good configuration is one more step of the path, unless a sample
\* falls on it.
PathLengths(s, candidate) ==
    {s.pathSteps}
        \cup (IF Status[candidate] = "path-invalid" THEN {s.pathSteps + 1} ELSE {})

\* Math.round: halves go up.
Rounded(a, b) == (2 * a + b) \div (2 * b)

\* The step that keeps the fraction of the path one was at.
Held(s, length) ==
    IF s.pathLength > 1
    THEN Rounded(s.player.step * (length - 1), s.pathLength - 1)
    ELSE 0

\* The states a rebuilt path may lead to.
rebuildPath_RestsPlayer(s, candidate) ==
    IF candidate = None \/ s.result = None THEN {clearPath(s)}
    ELSE IF ~supportsInterpolation(s, candidate) THEN {clearPath(s)}
    ELSE {[clearPath(s) EXCEPT
             !.pathLength = length,
             !.sets["path"] = [result |-> s.result, candidate |-> candidate,
                               visible |-> "path" \in s.visible],
             !.pathStep = Clamped(Held(s, length), length)]
          : length \in PathLengths(s, candidate)}
rebuildPath(s, candidate) ==
    IF candidate = None \/ s.result = None THEN {clearPath(s)}
    ELSE IF ~supportsInterpolation(s, candidate) THEN {clearPath(s)}
    ELSE {LET step == Clamped(Held(s, length), length)
          IN [clearPath(s) EXCEPT
                !.pathLength = length,
                !.sets["path"] = [result |-> s.result, candidate |-> candidate,
                                  visible |-> "path" \in s.visible],
                !.pathStep = step,
                !.player = [Resting EXCEPT !.step = step]]
          : length \in PathLengths(s, candidate)}

poseSetsForCandidate(s, candidate) ==
    {kind \in Kinds \ {"path"} :
        \/ kind = "start" /\ s.result.hasStart
        \/ kind = "lastGood" /\ Status[candidate] = "path-invalid"
        \/ kind = "end" /\ Status[candidate] # "unsolved"}

defaultVisibility(s) ==
    IF s.result # None /\ s.selectedId # None
    THEN IF supportsInterpolation(s, s.selectedId) THEN {"path"} ELSE Kinds
    ELSE Kinds

\* A result that is gone has no candidates.
drawSelection(s) ==
    LET cleared == [clearPoseSets(s) EXCEPT !.visible = defaultVisibility(s)]
        ghosts == poseSetsForCandidate(s, s.selectedId)
    IN IF s.selectedId = None \/ s.result = None THEN {cleared}
       ELSE rebuildPath(
              [cleared EXCEPT
                 !.sets = [kind \in Kinds |->
                             IF kind \notin ghosts THEN None
                             ELSE [result |-> s.result, candidate |-> s.selectedId,
                                   visible |-> kind \in cleared.visible]]],
              s.selectedId)

ensureObstacles(s) ==
    IF s.obstacles # None \/ ~s.result.obstacles THEN s
    ELSE [s EXCEPT !.obstacles = s.result]

clear(s) ==
    [teardownScene(s) EXCEPT !.result = None, !.selectedId = None,
                             !.status = "idle"]

---------------------------------------------------------------------------
(* Inspections.                                                            *)

inspect(name) ==
    /\ asked < MaxRequests
    /\ asked' = asked + 1
    /\ requests' = requests \cup {[number |-> asked + 1, name |-> name]}
    /\ ik' = [clear(ik) EXCEPT !.planName = name, !.status = "loading",
                               !.isActive = TRUE]

exit == Become([clear(ik) EXCEPT !.planName = None, !.isActive = FALSE])

isStale_OnlyExited(request) == ~ik.isActive
isStale(request) == ~ik.isActive \/ ik.planName # request.name

Answered(request) == requests' = requests \ {request} /\ UNCHANGED asked

Resolved(request) ==
    /\ Answered(request)
    /\ IF isStale(request) THEN UNCHANGED ik
       ELSE \E hasStart \in BOOLEAN, obstacles \in BOOLEAN :
              ik' = [ensureObstacles(
                       [ik EXCEPT !.result = [number |-> request.number,
                                              name |-> request.name,
                                              hasStart |-> hasStart,
                                              obstacles |-> obstacles]])
                     EXCEPT !.status = "ready"]

\* The call is rejected, or its answer cannot be parsed.
Rejected(request) ==
    /\ Answered(request)
    /\ ik' = IF isStale(request) THEN ik ELSE [ik EXCEPT !.status = "error"]

select(id) == \E s \in drawSelection([ik EXCEPT !.selectedId = id]) : Become(s)

\* The toggle of a set changes its root as well.
setPoseVisible(kind, visible) ==
    Become([ik EXCEPT !.visible = IF visible THEN @ \cup {kind} ELSE @ \ {kind},
                      !.sets[kind] = IF @ = None THEN @
                                     ELSE [@ EXCEPT !.visible = visible]])

setPathSteps(steps) ==
    /\ steps # ik.pathSteps
    /\ \E s \in rebuildPath([ik EXCEPT !.pathSteps = steps],
                            IF ik.result = None THEN None ELSE ik.selectedId) :
         Become(s)

\* The path's player draws into the set of the path.
onStep == ik.sets["path"] # None
Moved(move) ==
    Become([ik EXCEPT !.player = move.player,
                      !.pathStep = IF move.shows = NoStep THEN @ ELSE move.shows])

Scrub == \E move \in Scrubbed(ik.player, ik.pathLength, onStep) : Moved(move)
Tick == ik.player.playing /\ Moved(tick(ik.player, ik.pathLength, onStep))
Pause == Moved(Still(pause(ik.player)))

---------------------------------------------------------------------------
(* Properties.                                                             *)

InScene == {kind \in Kinds : ik.sets[kind] # None}

\* Whatever requests are still under way, an inspection that was left has
\* nothing in the scene, and what is listed came from a request for the plan
\* named in the panel (isStale).
AnswerIsForPlanShown ==
    /\ ~ik.isActive => InScene = {} /\ ik.obstacles = None
    /\ ik.result # None => ik.result.name = ik.planName

\* The path in the scene is at the step its player names, the resolution
\* changes and candidates selected meanwhile included, and there is a player to
\* move exactly when there is a path.
PathAtItsStep ==
    /\ ik.pathLength = 0 <=> ik.sets["path"] = None
    /\ ik.pathLength > 0 => ik.pathStep = ik.player.step /\ ik.pathStep < ik.pathLength

\* Every set drawn is of the selected candidate, and hidden exactly when its
\* toggle says so.
SetsOfSelection ==
    \A kind \in InScene :
        /\ ik.sets[kind].candidate = ik.selectedId
        /\ ik.sets[kind].visible <=> kind \in ik.visible

\* "Exiting or inspecting another plan mid-request makes this result stale"
\* (useIKInspection.svelte.ts): all that is drawn and listed is of one answer.
\* A plan inspected again by the same name takes the answer of the first
\* request too.
OneResult ==
    \A kind \in InScene : ik.sets[kind].result = ik.result

=============================================================================
