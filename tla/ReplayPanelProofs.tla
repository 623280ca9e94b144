-------------------------- MODULE ReplayPanelProofs --------------------------
(***************************************************************************)
(* For any files, candidates and resolutions: the list of plans, the       *)
(* snapshots, the player and the screen agree, and an inspection is drawn  *)
(* as its panel says and leaves nothing behind.                            *)
(***************************************************************************)
EXTENDS ReplayPanel, TrajectoryPlayer, SequenceTheorems, TLAPS

---------------------------------------------------------------------------
(* The player.                                                             *)

\* A move of the player: either it stays where it is and nothing is drawn, or it
\* is at a step of the trajectory and that one is drawn.
Follow(p, total, draws, move) ==
    /\ move.player \in Players(Nat)
    /\ \/ move.shows = NoStep /\ move.player.step = p.step
       \/ /\ total > 0 /\ draws /\ move.shows \in 0..(total - 1)
          /\ move.shows # NoStep /\ move.player.step = move.shows

LEMMA ClampedInside ==
  \A step \in Int, total \in Nat \ {0} : Clamped(step, total) \in 0..(total - 1)
BY DEF Clamped, lastStep

LEMMA MoveFollows ==
  \A p \in Players(Nat), step \in Int, total \in Nat, draws \in BOOLEAN :
     Follow(p, total, draws, moveTo(p, step, total, draws))
<1> SUFFICES ASSUME NEW p \in Players(Nat), NEW step \in Int, NEW total \in Nat,
                    NEW draws \in BOOLEAN
             PROVE  Follow(p, total, draws, moveTo(p, step, total, draws))
  OBVIOUS
<1>1. CASE total = 0 \/ ~draws BY <1>1 DEF moveTo, Still, Follow
<1>2. CASE total # 0 /\ draws
  <2> DEFINE c == Clamped(step, total)
             q == [p EXCEPT !.step = c]
             moved == moveTo(p, step, total, draws)
  <2>1. c \in 0..(total - 1) BY <1>2, ClampedInside
  <2>2. moved = [player |-> q, shows |-> c] BY <1>2 DEF moveTo, Drew
  <2> HIDE DEF c
  <2>3. q \in Players(Nat) /\ q.step = c BY <2>1 DEF Players
  <2> HIDE DEF q, moved
  <2>4. moved.player = q /\ moved.shows = c BY <2>2
  <2>5. Follow(p, total, draws, moved)
    BY <1>2, <2>1, <2>3, <2>4 DEF Follow, NoStep
  <2> QED BY <2>5 DEF moved
<1> QED BY <1>1, <1>2

LEMMA PauseTyped ==
  \A p \in Players(Nat) : pause(p) \in Players(Nat) /\ pause(p).step = p.step
BY DEF pause, Players

LEMMA PlayTyped ==
  \A p \in Players(Nat), total \in Nat :
     play(p, total) \in Players(Nat) /\ play(p, total).step = p.step
BY DEF play, Players

LEMMA StillFollows ==
  \A p, q \in Players(Nat), total \in Nat, draws \in BOOLEAN :
     q.step = p.step => Follow(p, total, draws, Still(q))
BY DEF Still, Follow

LEMMA ToggleFollows ==
  \A p \in Players(Nat), total \in Nat, draws \in BOOLEAN :
     Follow(p, total, draws, toggle(p, total, draws))
<1> SUFFICES ASSUME NEW p \in Players(Nat), NEW total \in Nat, NEW draws \in BOOLEAN
             PROVE  Follow(p, total, draws, toggle(p, total, draws))
  OBVIOUS
<1>1. CASE p.playing
  <2>1. toggle(p, total, draws) = Still(pause(p)) BY <1>1 DEF toggle
  <2> QED BY <2>1, PauseTyped, StillFollows
<1>2. CASE ~p.playing
  <2> DEFINE rewound == IF p.step >= lastStep(total) THEN moveTo(p, 0, total, draws)
                        ELSE Still(p)
  <2>1. Follow(p, total, draws, rewound) BY MoveFollows, StillFollows
  <2>2. rewound = [player |-> rewound.player, shows |-> rewound.shows]
    BY DEF moveTo, Still, Drew
  <2>3. toggle(p, total, draws) = [rewound EXCEPT !.player = play(@, total)]
    BY <1>2 DEF toggle
  <2> HIDE DEF rewound
  <2>4. toggle(p, total, draws)
          = [player |-> play(rewound.player, total), shows |-> rewound.shows]
    BY <2>2, <2>3
  <2>5. /\ play(rewound.player, total) \in Players(Nat)
        /\ play(rewound.player, total).step = rewound.player.step
    BY <2>1, PlayTyped DEF Follow
  <2> QED BY <2>1, <2>4, <2>5 DEF Follow
<1> QED BY <1>1, <1>2

\* Every control of the scrubber and every tick.
LEMMA MovesFollow ==
  \A p \in Players(Nat), total \in Nat, draws \in BOOLEAN :
     \A move \in Scrubbed(p, total, draws) \cup {tick(p, total, draws)} :
        Follow(p, total, draws, move)
<1> SUFFICES ASSUME NEW p \in Players(Nat), NEW total \in Nat, NEW draws \in BOOLEAN,
                    NEW move \in Scrubbed(p, total, draws) \cup {tick(p, total, draws)}
             PROVE  Follow(p, total, draws, move)
  OBVIOUS
<1>1. pause(p) \in Players(Nat) /\ pause(p).step = p.step /\ p.step \in Nat
  BY PauseTyped DEF Players
<1>2. \A step \in Int : Follow(p, total, draws, moveTo(pause(p), step, total, draws))
  <2>1. \A step \in Int :
          Follow(pause(p), total, draws, moveTo(pause(p), step, total, draws))
    BY <1>1, MoveFollows
  <2> QED BY <1>1, <2>1 DEF Follow
<1>3. \A step \in 0..lastStep(total) : Follow(p, total, draws, seek(p, step, total, draws))
  BY <1>2 DEF seek
<1>4. \A delta \in {-1, 1} : Follow(p, total, draws, stepBy(p, delta, total, draws))
  BY <1>1, <1>2 DEF stepBy
<1>5. Follow(p, total, draws, tick(p, total, draws))
  BY <1>1, MoveFollows, StillFollows DEF tick
<1> QED BY <1>3, <1>4, <1>5, ToggleFollows DEF Scrubbed

\* The player of the plans and that of the path are this one.
LEMMA PlayersOfPlans ==
  \A p, total, draws :
     /\ Plans!Scrubbed(p, total, draws) = Scrubbed(p, total, draws)
     /\ Plans!tick(p, total, draws) = tick(p, total, draws)
BY DEF Plans!Scrubbed, Plans!tick, Plans!toggle, Plans!seek, Plans!stepBy, Plans!moveTo,
       Plans!pause, Plans!play, Plans!Still, Plans!Drew, Plans!Clamped, Plans!lastStep,
       Plans!NoStep, Scrubbed, tick, toggle, seek, stepBy, moveTo,
       pause, play, Still, Drew, Clamped, lastStep, NoStep

LEMMA PlayersOfPaths ==
  \A p, total, draws :
     /\ IK!Scrubbed(p, total, draws) = Scrubbed(p, total, draws)
     /\ IK!tick(p, total, draws) = tick(p, total, draws)
BY DEF IK!Scrubbed, IK!tick, IK!toggle, IK!seek, IK!stepBy, IK!moveTo,
       IK!pause, IK!play, IK!Still, IK!Drew, IK!Clamped, IK!lastStep,
       IK!NoStep, Scrubbed, tick, toggle, seek, stepBy, moveTo,
       pause, play, Still, Drew, Clamped, lastStep, NoStep

---------------------------------------------------------------------------
(* The list of plans.                                                      *)

PlanType == [id : 1..MaxPlans, file : Files, status : Plans!Statuses, steps : Nat]

\* No two plans have the same id, and the next one has another still.
Listing(list, next) ==
    /\ list \in Seq(PlanType)
    /\ \A i \in DOMAIN list : list[i].id < next
    /\ \A i, j \in DOMAIN list : list[i].id = list[j].id => i = j

\* Snapshots are kept of listed plans, and a plan has steps to play exactly
\* when its snapshots are kept.
Stored(list, store) ==
    /\ \A id \in DOMAIN store :
         store[id] \in Nat \ {0} /\ \E i \in DOMAIN list : list[i].id = id
    /\ \A i \in DOMAIN list :
         /\ list[i].status = "ready" <=> list[i].id \in DOMAIN store
         /\ list[i].steps = IF list[i].id \in DOMAIN store THEN store[list[i].id] ELSE 0

\* A record of the hook's fields, whatever they hold.
StateShape(s) ==
    s \in [plans : {s.plans}, store : {s.store}, active : {s.active},
           player : {s.player}, root : {s.root}, drawn : {s.drawn}]

OnScreen(s) ==
    /\ s.active \in 0..Len(s.plans) /\ s.player \in Players(Nat) /\ s.root \in BOOLEAN
    /\ s.drawn = IF Plans!totalSteps(s) = 0 THEN {}
                 ELSE {[plan |-> s.plans[s.active].id, step |-> s.player.step]}

Sound(s, next) ==
    StateShape(s) /\ Listing(s.plans, next) /\ Stored(s.plans, s.store) /\ OnScreen(s)

PlansInv == nextPlanId \in 1..(MaxPlans + 1) /\ Sound(Plans!State, nextPlanId)

LEMMA RestingTyped == Resting \in Players(Nat) /\ Resting.step = 0
BY DEF Resting, Players

LEMMA ClearSound ==
  ASSUME NEW s, NEW next, Sound(s, next)
  PROVE  LET cleared == Plans!clearActivePlan(s)
         IN /\ Sound(cleared, next) /\ cleared.active = 0
            /\ cleared.plans = s.plans /\ cleared.store = s.store
<1> DEFINE cleared == Plans!clearActivePlan(s)
<1>1. /\ StateShape(cleared) /\ cleared.plans = s.plans /\ cleared.store = s.store
      /\ cleared.active = 0 /\ cleared.player = Resting
      /\ cleared.root \in BOOLEAN /\ cleared.drawn = {}
  BY DEF Sound, StateShape, Plans!clearActivePlan, Plans!Resting, Resting
<1> HIDE DEF cleared
<1>2. OnScreen(cleared)
  BY <1>1, RestingTyped DEF OnScreen, Plans!totalSteps, Sound, Listing
<1>3. Sound(cleared, next) BY <1>1, <1>2 DEF Sound
<1> QED BY <1>1, <1>3 DEF cleared

LEMMA ShownSound ==
  ASSUME NEW s, NEW next, StateShape(s), Listing(s.plans, next), Stored(s.plans, s.store),
         NEW index \in DOMAIN s.plans, s.plans[index].id \in DOMAIN s.store
  PROVE  Sound(Plans!Shown(s, index), next)
<1> DEFINE shown == Plans!Shown(s, index)
<1>1. /\ StateShape(shown) /\ shown.plans = s.plans /\ shown.store = s.store
      /\ shown.active = index /\ shown.player = Resting /\ shown.root \in BOOLEAN
      /\ shown.drawn = {[plan |-> s.plans[index].id, step |-> 0]}
  BY DEF StateShape, Plans!Shown, Plans!applyStep, Plans!Resting, Resting
<1> HIDE DEF shown
<1>2. index \in 1..Len(s.plans) /\ s.plans[index].steps \in Nat \ {0}
  BY DEF Listing, Stored
<1>3. Plans!totalSteps(shown) = s.plans[index].steps BY <1>1, <1>2 DEF Plans!totalSteps
<1>4. OnScreen(shown) BY <1>1, <1>2, <1>3, RestingTyped DEF OnScreen, Listing
<1>5. Sound(shown, next) BY <1>1, <1>4 DEF Sound
<1> QED BY <1>5 DEF shown

\* A plan that is marked keeps its place, its id and its file.
Marked(list, index, status, steps) ==
    [list EXCEPT ![index].status = status, ![index].steps = steps]

LEMMA MarkedList ==
  ASSUME NEW list \in Seq(PlanType), NEW index \in DOMAIN list,
         NEW status \in Plans!Statuses, NEW steps \in Nat
  PROVE  LET marked == Marked(list, index, status, steps)
         IN /\ marked \in Seq(PlanType) /\ Len(marked) = Len(list)
            /\ DOMAIN marked = DOMAIN list
            /\ \A i \in DOMAIN list : marked[i].id = list[i].id
            /\ \A i \in DOMAIN list \ {index} : marked[i] = list[i]
            /\ marked[index].status = status /\ marked[index].steps = steps
<1> DEFINE plan == [list[index] EXCEPT !.status = status, !.steps = steps]
           marked == [list EXCEPT ![index] = plan]
<1>1. list[index] \in PlanType OBVIOUS
<1>2. /\ plan \in PlanType /\ plan.id = list[index].id
      /\ plan.status = status /\ plan.steps = steps
  BY <1>1 DEF PlanType
<1>3. Marked(list, index, status, steps) = marked
  BY DEF Marked
<1> HIDE DEF plan
<1>4. /\ marked \in Seq(PlanType) /\ Len(marked) = Len(list) /\ DOMAIN marked = DOMAIN list
      /\ marked[index] = plan /\ \A i \in DOMAIN list \ {index} : marked[i] = list[i]
  BY <1>2
<1> HIDE DEF marked
<1>5. \A i \in DOMAIN list : marked[i].id = list[i].id BY <1>2, <1>4
<1> QED BY <1>2, <1>3, <1>4, <1>5

LEMMA LoadSound ==
  ASSUME NEW s, NEW next, Sound(s, next), s.active = 0, NEW index \in DOMAIN s.plans
  PROVE  Sound(Plans!loadPlan(s, index), next)
<1> DEFINE plan == s.plans[index]
           parsed == Steps[plan.file]
           List(status, steps) == Marked(s.plans, index, status, steps)
<1>1. StateShape(s) /\ Listing(s.plans, next) /\ Stored(s.plans, s.store) /\ OnScreen(s)
  BY DEF Sound
<1>2. plan \in PlanType /\ parsed \in Nat \cup {Broken}
  <2>1. plan \in PlanType
    <3> HIDE DEF PlanType
    <3> QED BY <1>1 DEF Listing
  <2>2. plan.file \in Files BY <2>1 DEF PlanType
  <2> HIDE DEF plan
  <2> QED BY <2>1, <2>2, PlansAssumption
<1>3. s.drawn = {} BY <1>1 DEF OnScreen, Plans!totalSteps
<1>4. ASSUME plan.id \notin DOMAIN s.store, NEW status \in {"error", "no-trajectory"}
      PROVE  /\ Listing(List(status, 0), next) /\ Stored(List(status, 0), s.store)
             /\ Len(List(status, 0)) = Len(s.plans) /\ List(status, 0)[index].steps = 0
  <2> DEFINE list == List(status, 0)
  <2>1. s.plans \in Seq(PlanType) /\ status \in Plans!Statuses BY <1>1 DEF Listing, Plans!Statuses
  <2>2. /\ list \in Seq(PlanType) /\ Len(list) = Len(s.plans)
        /\ DOMAIN list = DOMAIN s.plans
        /\ \A i \in DOMAIN s.plans : list[i].id = s.plans[i].id
        /\ \A i \in DOMAIN s.plans \ {index} : list[i] = s.plans[i]
        /\ list[index].status = status /\ list[index].steps = 0
    BY <2>1, MarkedList
  <2> HIDE DEF list
  <2>3. Listing(list, next) BY <1>1, <2>2 DEF Listing
  <2>4. Stored(list, s.store)
    <3>1. list[index].id = plan.id /\ list[index].status # "ready" BY <2>2
    <3> HIDE DEF plan
    <3> QED BY <1>1, <1>4, <2>2, <3>1 DEF Stored
  <2> QED BY <2>2, <2>3, <2>4 DEF list
<1>5. CASE plan.id \in DOMAIN s.store
  <2>1. Plans!loadPlan(s, index) = Plans!Shown(s, index) BY <1>5 DEF Plans!loadPlan
  <2> QED BY <1>1, <1>5, <2>1, ShownSound
<1>6. CASE plan.id \notin DOMAIN s.store /\ parsed = Broken
  <2> DEFINE list == List("error", plan.steps)
             loaded == Plans!loadPlan(s, index)
  <2>1. plan.steps = 0 BY <1>1, <1>6 DEF Stored
  <2>2. Listing(list, next) /\ Stored(list, s.store) /\ Len(list) = Len(s.plans)
    BY <1>4, <1>6, <2>1
  <2>3. /\ StateShape(loaded) /\ loaded.plans = list /\ loaded.store = s.store
        /\ loaded.active = 0 /\ loaded.player = s.player
        /\ loaded.root = s.root /\ loaded.drawn = {}
    BY <1>1, <1>3, <1>6 DEF StateShape, Plans!loadPlan, Marked
  <2> HIDE DEF list, loaded
  <2>4. OnScreen(loaded) BY <1>1, <2>2, <2>3 DEF OnScreen, Plans!totalSteps
  <2> QED BY <2>2, <2>3, <2>4 DEF Sound, loaded
<1>7. CASE plan.id \notin DOMAIN s.store /\ parsed = 0
  <2> DEFINE list == List("no-trajectory", 0)
             loaded == Plans!loadPlan(s, index)
  <2>1. /\ Listing(list, next) /\ Stored(list, s.store) /\ Len(list) = Len(s.plans)
        /\ list[index].steps = 0
    BY <1>4, <1>7
  <2>2. parsed # Broken BY <1>7, PlansAssumption
  <2>3. /\ StateShape(loaded) /\ loaded.plans = list /\ loaded.store = s.store
        /\ loaded.active = index /\ loaded.player = s.player
        /\ loaded.root = s.root /\ loaded.drawn = {}
    BY <1>1, <1>3, <1>7, <2>2 DEF StateShape, Plans!loadPlan, Marked
  <2>4. index \in 1..Len(s.plans) BY <1>1 DEF Listing
  <2> HIDE DEF list, loaded
  <2>5. OnScreen(loaded) BY <1>1, <2>1, <2>3, <2>4 DEF OnScreen, Plans!totalSteps
  <2> QED BY <2>1, <2>3, <2>5 DEF Sound, loaded
<1>8. CASE plan.id \notin DOMAIN s.store /\ parsed \notin {Broken, 0}
  <2> DEFINE list == List("ready", parsed)
             store == [id \in DOMAIN s.store \cup {plan.id} |->
                         IF id = plan.id THEN parsed ELSE s.store[id]]
             read == [[s EXCEPT !.plans[index].status = "ready",
                                !.plans[index].steps = parsed] EXCEPT !.store = store]
  <2>1. s.plans \in Seq(PlanType) /\ parsed \in Nat \ {0} /\ "ready" \in Plans!Statuses
    BY <1>1, <1>2, <1>8 DEF Listing, Plans!Statuses
  <2>2. /\ list \in Seq(PlanType) /\ Len(list) = Len(s.plans)
        /\ DOMAIN list = DOMAIN s.plans
        /\ \A i \in DOMAIN s.plans : list[i].id = s.plans[i].id
        /\ \A i \in DOMAIN s.plans \ {index} : list[i] = s.plans[i]
        /\ list[index].status = "ready" /\ list[index].steps = parsed
    <3> HIDE DEF parsed
    <3> QED BY <2>1, MarkedList
  <2>3. Plans!loadPlan(s, index) = Plans!Shown(read, index)
    BY <1>1, <1>8 DEF StateShape, Plans!loadPlan
  <2>8. StateShape(read) /\ read.plans = list /\ read.store = store
    BY <1>1 DEF StateShape, Marked
  <2> HIDE DEF list
  <2>4. Listing(list, next) BY <1>1, <2>2 DEF Listing
  <2>5. Stored(list, store)
    <3>1. /\ DOMAIN store = DOMAIN s.store \cup {plan.id} /\ store[plan.id] = parsed
          /\ \A id \in DOMAIN s.store : id # plan.id => store[id] = s.store[id]
      OBVIOUS
    <3>2. list[index].id = plan.id BY <2>2
    <3>3. \A i \in DOMAIN s.plans \ {index} : s.plans[i].id # plan.id
      BY <1>1 DEF Listing
    <3> HIDE DEF store, plan, parsed
    <3>4. \A id \in DOMAIN store :
            store[id] \in Nat \ {0} /\ \E i \in DOMAIN list : list[i].id = id
      BY <1>1, <2>1, <2>2, <3>1, <3>2 DEF Stored
    <3>5. \A i \in DOMAIN list :
            /\ list[i].status = "ready" <=> list[i].id \in DOMAIN store
            /\ list[i].steps = IF list[i].id \in DOMAIN store THEN store[list[i].id] ELSE 0
      <4> SUFFICES ASSUME NEW i \in DOMAIN s.plans
                   PROVE  /\ list[i].status = "ready" <=> list[i].id \in DOMAIN store
                          /\ list[i].steps = IF list[i].id \in DOMAIN store
                                             THEN store[list[i].id] ELSE 0
        BY <2>2
      <4>1. CASE i = index BY <2>2, <3>1, <3>2, <4>1
      <4>2. CASE i # index
        <5>1. list[i] = s.plans[i] /\ s.plans[i].id # plan.id BY <2>2, <3>3, <4>2
        <5> QED BY <1>1, <3>1, <5>1 DEF Stored
      <4> QED BY <4>1, <4>2
    <3> QED BY <3>4, <3>5 DEF Stored
  <2>6. list[index].id \in DOMAIN store /\ index \in DOMAIN list BY <2>2
  <2> HIDE DEF store, read
  <2>7. Sound(Plans!Shown(read, index), next) BY <2>4, <2>5, <2>6, <2>8, ShownSound
  <2> QED BY <2>3, <2>7
<1> QED BY <1>2, <1>5, <1>6, <1>7, <1>8

LEMMA SelectSound ==
  ASSUME NEW s, NEW next, Sound(s, next), NEW index \in DOMAIN s.plans, s.active # index
  PROVE  Sound(Plans!selectPlan(s, index), next)
<1> DEFINE rest == IF s.active \notin {0, index} THEN Plans!clearActivePlan(s) ELSE s
<1>1. Sound(rest, next) /\ rest.active = 0 /\ rest.plans = s.plans BY ClearSound
<1>2. Plans!selectPlan(s, index) = Plans!loadPlan(rest, index) BY DEF Plans!selectPlan
<1> HIDE DEF rest
<1> QED BY <1>1, <1>2, LoadSound

\* The effect that follows a change: the player rests when there are no steps.
LEMMA BecomeKept ==
  ASSUME NEW s, NEW next \in 1..(MaxPlans + 1), Sound(s, next),
         nextPlanId' = next, Plans!Become(s)
  PROVE  PlansInv'
<1> DEFINE total == Plans!totalSteps(s)
           now == Plans!State'
<1>1. /\ StateShape(now) /\ now.plans = s.plans /\ now.store = s.store
      /\ now.active = s.active /\ now.root = s.root /\ now.drawn = s.drawn
      /\ now.player = IF total = 0 THEN Resting ELSE s.player
  BY DEF Plans!State, StateShape, Plans!Become, Plans!Unloaded, Plans!Resting, Resting
<1>2. OnScreen(s) BY DEF Sound
<1> HIDE DEF now
<1>3. Plans!totalSteps(now) = total BY <1>1 DEF Plans!totalSteps
<1> HIDE DEF total
<1>4. OnScreen(now)
  <2>1. total = 0 => now.player = Resting /\ now.drawn = {}
    BY <1>1, <1>2 DEF OnScreen, total
  <2>2. total # 0 => now.player = s.player
    BY <1>1
  <2> QED BY <1>1, <1>2, <1>3, <2>1, <2>2, RestingTyped DEF OnScreen, total
<1>5. Sound(now, next) BY <1>1, <1>4 DEF Sound
<1> QED BY <1>5 DEF PlansInv, now

LEMMA SameSound ==
  PlansInv /\ UNCHANGED planVars => PlansInv'
BY DEF PlansInv, planVars, Plans!State

\* A plan as it is listed, with or without the snapshots of a server.
Arrived(id, file, precomputed) ==
    IF precomputed = 0 THEN Plans!Idle(id, file)
    ELSE [Plans!Idle(id, file) EXCEPT !.status = "ready", !.steps = precomputed]

LEMMA ArrivedTyped ==
  ASSUME NEW id \in 1..MaxPlans, NEW file \in Files, NEW precomputed \in Nat
  PROVE  LET plan == Arrived(id, file, precomputed)
         IN /\ plan \in PlanType /\ plan.id = id /\ plan.steps = precomputed
            /\ plan.status = "ready" <=> precomputed # 0
BY DEF Arrived, Plans!Idle, PlanType, Plans!Statuses

LEMMA AddSound ==
  ASSUME PlansInv, nextPlanId <= MaxPlans, NEW file \in Files, NEW precomputed \in Nat
  PROVE  Sound(Plans!addPlan(Plans!State, file, precomputed), nextPlanId + 1)
<1> DEFINE id == nextPlanId
           s == Plans!State
           plan == Arrived(id, file, precomputed)
           list == Append(s.plans, plan)
           store == IF precomputed = 0 THEN s.store
                    ELSE [i \in DOMAIN s.store \cup {id} |->
                            IF i = id THEN precomputed ELSE s.store[i]]
           added == [s EXCEPT !.plans = list, !.store = store]
<1>1. /\ id \in 1..MaxPlans /\ StateShape(s) /\ Listing(s.plans, id)
      /\ Stored(s.plans, s.store) /\ OnScreen(s)
  BY PlansAssumption DEF PlansInv, Sound
<1>2. /\ plan \in PlanType /\ plan.id = id /\ plan.steps = precomputed
      /\ plan.status = "ready" <=> precomputed # 0
  BY <1>1, ArrivedTyped
<1>3. Plans!addPlan(s, file, precomputed) = Plans!selectPlan(added, Len(list))
  BY DEF Plans!addPlan, Plans!State, Arrived
<1>4. StateShape(added) /\ added.plans = list /\ added.store = store
      /\ added.active = s.active /\ added.player = s.player
      /\ added.root = s.root /\ added.drawn = s.drawn
  BY DEF StateShape, Plans!State
<1> DEFINE n == Len(s.plans)
<1>5. n \in Nat /\ DOMAIN s.plans = 1..n BY <1>1 DEF Listing
<1> HIDE DEF s, plan
<1>6. /\ list \in Seq(PlanType) /\ Len(list) = n + 1 /\ list[n + 1] = plan
      /\ \A i \in 1..n : list[i] = s.plans[i]
  BY <1>1, <1>2 DEF Listing
<1>7. DOMAIN list = 1..(n + 1) BY <1>6
<1>8. \A i \in 1..n : s.plans[i].id < id /\ s.plans[i].id # id
  <2> SUFFICES ASSUME NEW i \in 1..n PROVE s.plans[i].id < id /\ s.plans[i].id # id
    OBVIOUS
  <2>1. s.plans[i] \in PlanType /\ s.plans[i].id < id BY <1>1, <1>5 DEF Listing
  <2>2. s.plans[i].id \in Nat BY <2>1 DEF PlanType
  <2> QED BY <1>1, <2>1, <2>2
<1>9. /\ DOMAIN store = IF precomputed = 0 THEN DOMAIN s.store ELSE DOMAIN s.store \cup {id}
      /\ precomputed # 0 => store[id] = precomputed
      /\ \A i \in DOMAIN s.store : i # id => store[i] = s.store[i]
  OBVIOUS
<1>10. id \notin DOMAIN s.store
  BY <1>1, <1>5, <1>8 DEF Stored
<1> HIDE DEF list, store, added
<1>11. Listing(list, id + 1)
  <2>1. \A i \in DOMAIN list : list[i].id < id + 1
    <3> SUFFICES ASSUME NEW i \in 1..(n + 1) PROVE list[i].id < id + 1 BY <1>7
    <3>1. CASE i = n + 1 BY <1>1, <1>2, <1>6, <3>1
    <3>2. CASE i \in 1..n
      <4>1. list[i] = s.plans[i] /\ s.plans[i] \in PlanType
        <5> HIDE DEF PlanType
        <5> QED BY <1>1, <1>5, <1>6, <3>2 DEF Listing
      <4>2. s.plans[i].id \in Int BY <4>1 DEF PlanType
      <4> QED BY <1>1, <1>8, <3>2, <4>1, <4>2
    <3> QED BY <1>5, <3>1, <3>2
  <2>2. ASSUME NEW i \in DOMAIN list, NEW j \in DOMAIN list, list[i].id = list[j].id
        PROVE  i = j
    <3> HIDE DEF n
    <3>1. CASE i = n + 1 /\ j = n + 1 BY <3>1
    <3>2. CASE i \in 1..n /\ j \in 1..n BY <1>1, <1>5, <1>6, <2>2, <3>2 DEF Listing
    <3>3. CASE i = n + 1 /\ j \in 1..n BY <1>2, <1>6, <1>8, <2>2, <3>3
    <3>4. CASE i \in 1..n /\ j = n + 1 BY <1>2, <1>6, <1>8, <2>2, <3>4
    <3> QED BY <1>5, <1>7, <3>1, <3>2, <3>3, <3>4
  <2> QED BY <1>6, <2>1, <2>2 DEF Listing
<1>12. Stored(list, store)
  <2> HIDE DEF n
  <2>1. \A k \in DOMAIN store :
          store[k] \in Nat \ {0} /\ \E i \in DOMAIN list : list[i].id = k
    <3> SUFFICES ASSUME NEW k \in DOMAIN store
                 PROVE  store[k] \in Nat \ {0} /\ \E i \in DOMAIN list : list[i].id = k
      OBVIOUS
    <3>1. CASE k = id
      <4>1. precomputed # 0 BY <1>9, <1>10, <3>1
      <4>2. n + 1 \in DOMAIN list BY <1>5, <1>7
      <4> QED BY <1>2, <1>6, <1>9, <3>1, <4>1, <4>2
    <3>2. CASE k # id
      <4>1. k \in DOMAIN s.store /\ store[k] = s.store[k] BY <1>9, <3>2
      <4>2. PICK i \in 1..n : s.plans[i].id = k BY <1>1, <1>5, <4>1 DEF Stored
      <4>3. i \in DOMAIN list /\ list[i].id = k BY <1>5, <1>6, <1>7, <4>2
      <4> QED BY <1>1, <4>1, <4>3 DEF Stored
    <3> QED BY <3>1, <3>2
  <2>2. \A i \in DOMAIN list :
          /\ list[i].status = "ready" <=> list[i].id \in DOMAIN store
          /\ list[i].steps = IF list[i].id \in DOMAIN store THEN store[list[i].id] ELSE 0
    <3> SUFFICES ASSUME NEW i \in 1..(n + 1)
                 PROVE  /\ list[i].status = "ready" <=> list[i].id \in DOMAIN store
                        /\ list[i].steps = IF list[i].id \in DOMAIN store
                                           THEN store[list[i].id] ELSE 0
      BY <1>7
    <3>1. CASE i = n + 1
      <4>1. id \in DOMAIN store <=> precomputed # 0 BY <1>9, <1>10
      <4> QED BY <1>2, <1>6, <1>9, <3>1, <4>1
    <3>2. CASE i \in 1..n
      <4>1. list[i] = s.plans[i] /\ s.plans[i].id # id BY <1>6, <1>8, <3>2
      <4>2. /\ s.plans[i].id \in DOMAIN store <=> s.plans[i].id \in DOMAIN s.store
            /\ s.plans[i].id \in DOMAIN s.store
                 => store[s.plans[i].id] = s.store[s.plans[i].id]
        BY <1>9, <4>1
      <4> QED BY <1>1, <1>5, <3>2, <4>1, <4>2 DEF Stored
    <3> QED BY <1>5, <3>1, <3>2
  <2> QED BY <2>1, <2>2 DEF Stored
<1>13. OnScreen(added)
  <2>1. s.active \in 0..n BY <1>1 DEF OnScreen
  <2>2. s.active # 0 => list[s.active] = s.plans[s.active] BY <1>5, <1>6, <2>1
  <2>3. Plans!totalSteps(added) = Plans!totalSteps(s)
    <3>1. /\ s.active \in 1..n <=> s.active \in 1..(n + 1)
          /\ added.active = s.active
      BY <1>4, <2>1
    <3>2. s.active \in 1..n => added.plans[s.active] = s.plans[s.active]
      BY <1>4, <2>2
    <3> QED BY <1>4, <1>5, <1>6, <3>1, <3>2 DEF Plans!totalSteps
  <2>4. Plans!totalSteps(s) # 0 => s.active # 0 BY DEF Plans!totalSteps
  <2>5. added.active \in 0..Len(added.plans) BY <1>4, <1>5, <1>6, <2>1
  <2> QED BY <1>1, <1>4, <2>2, <2>3, <2>4, <2>5 DEF OnScreen
<1>14. Sound(added, id + 1) BY <1>4, <1>11, <1>12, <1>13 DEF Sound
<1>15. Len(list) \in DOMAIN added.plans /\ added.active # Len(list)
  <2>1. s.active \in 0..n BY <1>1 DEF OnScreen
  <2> QED BY <1>4, <1>5, <1>6, <1>7, <2>1
<1>16. Sound(Plans!selectPlan(added, Len(list)), id + 1)
  <2> HIDE DEF id
  <2> QED BY <1>14, <1>15, SelectSound
<1> QED BY <1>3, <1>16 DEF s

\* A list without one of its elements.
LEMMA WithoutList ==
  ASSUME NEW list \in Seq(PlanType), NEW index \in DOMAIN list
  PROVE  LET rest == Plans!Without(list, index)
         IN /\ rest \in Seq(PlanType) /\ Len(rest) = Len(list) - 1
            /\ \A i \in 1..(Len(list) - 1) :
                 rest[i] = list[IF i < index THEN i ELSE i + 1]
<1> DEFINE n == Len(list)
           left == SubSeq(list, 1, index - 1)
           right == SubSeq(list, index + 1, n)
<1>1. n \in Nat /\ index \in 1..n /\ DOMAIN list = 1..n OBVIOUS
<1>2. \A i \in 1..n : list[i] \in PlanType
  <2> HIDE DEF PlanType
  <2> QED OBVIOUS
<1>3. /\ left \in Seq(PlanType) /\ Len(left) = index - 1
      /\ \A i \in 1..(index - 1) : left[i] = list[i]
  <2>1. \A i \in 1..(index - 1) : list[i] \in PlanType BY <1>1, <1>2
  <2> HIDE DEF n, PlanType
  <2> QED BY <1>1, <2>1, SubSeqProperties
<1>4. /\ right \in Seq(PlanType) /\ Len(right) = n - index
      /\ \A i \in 1..(n - index) : right[i] = list[index + i]
  <2>1. \A i \in (index + 1)..n : list[i] \in PlanType BY <1>1, <1>2
  <2>2. index + 1 \in Int /\ n \in Int BY <1>1
  <2> HIDE DEF n, PlanType
  <2>3. /\ right \in Seq(PlanType)
        /\ Len(right) = IF index + 1 <= n THEN n - (index + 1) + 1 ELSE 0
        /\ \A i \in 1..(n - (index + 1) + 1) : right[i] = list[(index + 1) + i - 1]
    BY <2>1, <2>2, SubSeqProperties
  <2>4. n - (index + 1) + 1 = n - index /\ \A i \in Int : (index + 1) + i - 1 = index + i
    BY <1>1
  <2>5. Len(right) = n - index BY <1>1, <2>3, <2>4
  <2> HIDE DEF right
  <2>6. \A i \in 1..(n - index) : right[i] = list[index + i]
    <3> SUFFICES ASSUME NEW i \in 1..(n - index) PROVE right[i] = list[index + i]
      OBVIOUS
    <3>1. i \in Int /\ i \in 1..(n - (index + 1) + 1) BY <1>1, <2>4
    <3>2. right[i] = list[(index + 1) + i - 1] BY <2>3, <3>1
    <3> QED BY <2>4, <3>1, <3>2
  <2> QED BY <2>3, <2>5, <2>6
<1> HIDE DEF left, right
<1>5. /\ left \o right \in Seq(PlanType) /\ Len(left \o right) = n - 1
      /\ \A i \in 1..(n - 1) :
           (left \o right)[i] = IF i < index THEN left[i] ELSE right[i - (index - 1)]
  <2>1. /\ left \o right \in Seq(PlanType) /\ Len(left \o right) = Len(left) + Len(right)
        /\ \A i \in 1..(Len(left) + Len(right)) :
             (left \o right)[i] = IF i <= Len(left) THEN left[i] ELSE right[i - Len(left)]
    <3> HIDE DEF PlanType
    <3> QED BY <1>3, <1>4, ConcatProperties
  <2>2. Len(left) + Len(right) = n - 1 BY <1>1, <1>3, <1>4
  <2> HIDE DEF n
  <2>3. \A i \in 1..(n - 1) : i <= Len(left) <=> i < index BY <1>1, <1>3
  <2> QED BY <1>3, <2>1, <2>2, <2>3
<1>6. \A i \in 1..(n - 1) : (left \o right)[i] = list[IF i < index THEN i ELSE i + 1]
  <2> SUFFICES ASSUME NEW i \in 1..(n - 1)
               PROVE  (left \o right)[i] = list[IF i < index THEN i ELSE i + 1]
    OBVIOUS
  <2> HIDE DEF n
  <2>1. CASE i < index
    <3>1. i \in 1..(index - 1) BY <1>1, <2>1
    <3> QED BY <1>3, <1>5, <2>1, <3>1
  <2>2. CASE ~(i < index)
    <3>1. i - (index - 1) \in 1..(n - index) /\ index + (i - (index - 1)) = i + 1
      BY <1>1, <2>2
    <3> QED BY <1>4, <1>5, <2>2, <3>1
  <2> QED BY <2>1, <2>2
<1>7. Plans!Without(list, index) = left \o right BY DEF Plans!Without, left, right
<1> QED BY <1>5, <1>6, <1>7

\* Removing a plan that is not on screen: the one that is keeps its steps.
LEMMA TakenOutSound ==
  ASSUME NEW s, NEW next, Sound(s, next), NEW index \in DOMAIN s.plans, s.active # index,
         NEW r, StateShape(r), r.plans = Plans!Without(s.plans, index),
         r.store = [i \in DOMAIN s.store \ {s.plans[index].id} |-> s.store[i]],
         r.active = IF s.active > index THEN s.active - 1 ELSE s.active,
         r.player = s.player, r.root = s.root, r.drawn = s.drawn
  PROVE  Sound(r, next)
<1> DEFINE n == Len(s.plans)
           gone == s.plans[index].id
           from(i) == IF i < index THEN i ELSE i + 1
<1>1. /\ Listing(s.plans, next) /\ Stored(s.plans, s.store) /\ OnScreen(s)
  BY DEF Sound
<1>2. n \in Nat /\ index \in 1..n /\ DOMAIN s.plans = 1..n /\ s.active \in 0..n
  BY <1>1 DEF Listing, OnScreen
<1>3. /\ r.plans \in Seq(PlanType) /\ Len(r.plans) = n - 1
      /\ \A i \in 1..(n - 1) : r.plans[i] = s.plans[from(i)]
  <2> DEFINE rest == Plans!Without(s.plans, index)
  <2>1. s.plans \in Seq(PlanType) BY <1>1 DEF Listing
  <2>2. /\ rest \in Seq(PlanType) /\ Len(rest) = Len(s.plans) - 1
        /\ \A i \in 1..(Len(s.plans) - 1) : rest[i] = s.plans[from(i)]
    <3> HIDE DEF PlanType
    <3> QED BY <2>1, WithoutList
  <2> QED BY <2>2
<1> HIDE DEF n
<1>4. DOMAIN r.plans = 1..(n - 1) BY <1>3
<1>5. /\ \A i \in 1..(n - 1) : from(i) \in 1..n /\ from(i) # index
      /\ \A i, j \in 1..(n - 1) : from(i) = from(j) => i = j
      /\ \A k \in 1..n : k # index => \E i \in 1..(n - 1) : from(i) = k
  <2>1. ASSUME NEW k \in 1..n, k # index PROVE \E i \in 1..(n - 1) : from(i) = k
    <3>1. CASE k < index
      <4>1. k \in 1..(n - 1) /\ from(k) = k BY <1>2, <3>1
      <4> QED BY <4>1
    <3>2. CASE k > index
      <4>1. k - 1 \in 1..(n - 1) /\ from(k - 1) = k BY <1>2, <3>2
      <4> QED BY <4>1
    <3> QED BY <1>2, <2>1, <3>1, <3>2
  <2> QED BY <1>2, <2>1
<1>6. \A k \in 1..n : s.plans[k].id = gone => k = index BY <1>1, <1>2 DEF Listing
<1>7. /\ DOMAIN r.store = DOMAIN s.store \ {gone}
      /\ \A id \in DOMAIN r.store : r.store[id] = s.store[id]
  OBVIOUS
<1>8. \A i \in DOMAIN r.plans :
        \E k \in 1..n : k = from(i) /\ k # index /\ r.plans[i] = s.plans[k]
                        /\ s.plans[k].id # gone
  <2> SUFFICES ASSUME NEW i \in 1..(n - 1)
               PROVE  \E k \in 1..n : k = from(i) /\ k # index /\ r.plans[i] = s.plans[k]
                                       /\ s.plans[k].id # gone
    BY <1>4
  <2>1. from(i) \in 1..n /\ from(i) # index BY <1>5
  <2> HIDE DEF from
  <2>2. r.plans[i] = s.plans[from(i)] BY <1>3
  <2>3. s.plans[from(i)].id # gone BY <1>6, <2>1
  <2> QED BY <2>1, <2>2, <2>3
<1>9. s.active # 0 =>
        /\ r.active \in 1..(n - 1) /\ from(r.active) = s.active
  BY <1>2
<1>10. s.active = 0 => r.active = 0 BY <1>2
<1> HIDE DEF gone, from
<1>11. Listing(r.plans, next)
  <2>1. \A i \in DOMAIN r.plans : r.plans[i].id < next
    BY <1>1, <1>2, <1>8 DEF Listing
  <2>2. ASSUME NEW i \in DOMAIN r.plans, NEW j \in DOMAIN r.plans,
               r.plans[i].id = r.plans[j].id
        PROVE  i = j
    <3>1. /\ from(i) \in 1..n /\ r.plans[i] = s.plans[from(i)]
          /\ from(j) \in 1..n /\ r.plans[j] = s.plans[from(j)]
      BY <1>8
    <3>2. s.plans[from(i)].id = s.plans[from(j)].id BY <2>2, <3>1
    <3>3. from(i) = from(j) BY <1>1, <1>2, <3>1, <3>2 DEF Listing
    <3> QED BY <1>4, <1>5, <3>3
  <2> QED BY <1>3, <2>1, <2>2 DEF Listing
<1>12. Stored(r.plans, r.store)
  <2>1. \A id \in DOMAIN r.store :
          r.store[id] \in Nat \ {0} /\ \E i \in DOMAIN r.plans : r.plans[i].id = id
    <3> SUFFICES ASSUME NEW id \in DOMAIN r.store
                 PROVE  /\ r.store[id] \in Nat \ {0}
                        /\ \E i \in DOMAIN r.plans : r.plans[i].id = id
      OBVIOUS
    <3>1. id \in DOMAIN s.store /\ id # gone /\ r.store[id] = s.store[id] BY <1>7
    <3>2. PICK k \in 1..n : s.plans[k].id = id BY <1>1, <1>2, <3>1 DEF Stored
    <3>3. k # index BY <3>1, <3>2 DEF gone
    <3>4. PICK i \in 1..(n - 1) : from(i) = k BY <1>5, <3>3
    <3> QED BY <1>1, <1>3, <1>4, <3>1, <3>2, <3>4 DEF Stored
  <2>2. \A i \in DOMAIN r.plans :
          /\ r.plans[i].status = "ready" <=> r.plans[i].id \in DOMAIN r.store
          /\ r.plans[i].steps = IF r.plans[i].id \in DOMAIN r.store
                                THEN r.store[r.plans[i].id] ELSE 0
    <3> SUFFICES ASSUME NEW i \in DOMAIN r.plans
                 PROVE  /\ r.plans[i].status = "ready" <=> r.plans[i].id \in DOMAIN r.store
                        /\ r.plans[i].steps = IF r.plans[i].id \in DOMAIN r.store
                                              THEN r.store[r.plans[i].id] ELSE 0
      OBVIOUS
    <3>1. PICK k \in 1..n : r.plans[i] = s.plans[k] /\ s.plans[k].id # gone BY <1>8
    <3>2. /\ s.plans[k].id \in DOMAIN r.store <=> s.plans[k].id \in DOMAIN s.store
          /\ s.plans[k].id \in DOMAIN s.store
               => r.store[s.plans[k].id] = s.store[s.plans[k].id]
      BY <1>7, <3>1
    <3> QED BY <1>1, <1>2, <3>1, <3>2 DEF Stored
  <2> QED BY <2>1, <2>2 DEF Stored
<1>13. OnScreen(r)
  <2>1. CASE s.active = 0
    <3>1. r.active \in 0..Len(r.plans) BY <1>2, <1>3, <1>10, <2>1
    <3> QED BY <1>1, <1>10, <2>1, <3>1 DEF OnScreen, Plans!totalSteps
  <2>2. CASE s.active # 0
    <3>1. r.active \in 0..Len(r.plans) /\ r.active # 0 BY <1>2, <1>3, <1>9, <2>2
    <3>2. r.plans[r.active] = s.plans[s.active] BY <1>3, <1>9, <2>2
    <3>3. Plans!totalSteps(r) = Plans!totalSteps(s)
      <4>1. r.active \in 1..Len(r.plans) BY <1>2, <1>3, <3>1
      <4>2. s.active \in 1..Len(s.plans) BY <1>1, <1>2, <2>2 DEF OnScreen
      <4> QED BY <3>2, <4>1, <4>2 DEF Plans!totalSteps
    <3> QED BY <1>1, <3>1, <3>2, <3>3 DEF OnScreen
  <2> QED BY <2>1, <2>2
<1> QED BY <1>11, <1>12, <1>13 DEF Sound

LEMMA RemoveSound ==
  ASSUME NEW s, NEW next, Sound(s, next), NEW index \in DOMAIN s.plans
  PROVE  Sound(Plans!removePlan(s, index), next)
<1> DEFINE kept == IF s.active = index THEN Plans!clearActivePlan(s) ELSE s
           r == Plans!removePlan(s, index)
<1>1. /\ Sound(kept, next) /\ kept.plans = s.plans /\ kept.store = s.store
      /\ kept.active # index
  <2>1. index # 0 BY DEF Sound, Listing
  <2> QED BY <2>1, ClearSound
<1>2. StateShape(kept) BY <1>1 DEF Sound
<1>3. r = [kept EXCEPT !.plans = Plans!Without(@, index),
                       !.store = [i \in DOMAIN @ \ {s.plans[index].id} |-> @[i]],
                       !.active = IF @ > index THEN @ - 1 ELSE @]
  BY DEF Plans!removePlan
<1> HIDE DEF kept, r
<1>4. /\ StateShape(r) /\ r.plans = Plans!Without(kept.plans, index)
      /\ r.store = [i \in DOMAIN kept.store \ {s.plans[index].id} |-> kept.store[i]]
      /\ r.active = IF kept.active > index THEN kept.active - 1 ELSE kept.active
      /\ r.player = kept.player /\ r.root = kept.root /\ r.drawn = kept.drawn
  BY <1>2, <1>3 DEF StateShape
<1>5. Sound(r, next)
  BY <1>1, <1>4, TakenOutSound
<1> QED BY <1>5 DEF r

\* A move of the player on the plan that is on screen.
LEMMA MovedKept ==
  ASSUME PlansInv, NEW move, Plans!Moved(move),
         Follow(player, Plans!totalSteps(Plans!State), Plans!onStep, move)
  PROVE  PlansInv'
<1> DEFINE s == Plans!State
           total == Plans!totalSteps(s)
           still == [s EXCEPT !.player = move.player]
           moved == IF move.shows = NoStep THEN still
                    ELSE Plans!applyStep(still, plans[active].id, move.shows)
<1>1. nextPlanId' = nextPlanId /\ nextPlanId \in 1..(MaxPlans + 1) /\ Sound(s, nextPlanId)
  BY DEF Plans!Moved, PlansInv
<1>2. Plans!Become(moved) BY DEF Plans!Moved, Plans!NoStep, NoStep
<1>3. /\ s.plans = plans /\ s.active = active /\ s.player = player /\ StateShape(s)
  BY DEF Plans!State, StateShape
<1> HIDE DEF s
<1>4. /\ StateShape(moved) /\ moved.plans = s.plans /\ moved.store = s.store
      /\ moved.active = s.active /\ moved.player = move.player /\ moved.root = s.root
      /\ move.shows = NoStep => moved.drawn = s.drawn
      /\ move.shows # NoStep =>
           moved.drawn = {[plan |-> plans[active].id, step |-> move.shows]}
  BY <1>3 DEF StateShape, Plans!applyStep
<1> HIDE DEF moved
<1>5. Plans!totalSteps(moved) = total BY <1>4 DEF Plans!totalSteps
<1>6. OnScreen(s) BY <1>1 DEF Sound
<1>7. /\ move.player \in Players(Nat)
      /\ \/ move.shows = NoStep /\ move.player.step = s.player.step
         \/ total # 0 /\ move.shows # NoStep /\ move.player.step = move.shows
  <2>1. Follow(s.player, total, Plans!onStep, move) BY <1>3 DEF s
  <2>2. total > 0 => total # 0 OBVIOUS
  <2> HIDE DEF total
  <2> QED BY <2>1, <2>2 DEF Follow
<1> HIDE DEF total
<1>8. OnScreen(moved)
  <2>1. CASE move.shows = NoStep /\ move.player.step = s.player.step
    BY <1>4, <1>5, <1>6, <1>7, <2>1 DEF OnScreen, total
  <2>2. CASE total # 0 /\ move.shows # NoStep /\ move.player.step = move.shows
    BY <1>3, <1>4, <1>5, <1>6, <1>7, <2>2 DEF OnScreen
  <2> QED BY <1>7, <2>1, <2>2
<1>9. Sound(moved, nextPlanId) BY <1>1, <1>4, <1>8 DEF Sound
<1> QED BY <1>1, <1>2, <1>9, BecomeKept

---------------------------------------------------------------------------
(* Every step of the panel.                                                *)

PanelTyped ==
    mounted \in BOOLEAN /\ uploads \subseteq Uploads /\ switches \in 0..MaxSwitches

LEMMA PlansInit ==
  ASSUME Init
  PROVE  PlansInv
<1>1. PICK n \in 0..MaxPlans :
        \E initialPlans \in [1..n -> Files] :
           /\ plans = [i \in 1..n |-> Plans!Idle(i, initialPlans[i])]
           /\ nextPlanId = n + 1
  BY DEF Init, Plans!Init
<1>2. PICK initialPlans \in [1..n -> Files] :
        /\ plans = [i \in 1..n |-> Plans!Idle(i, initialPlans[i])]
        /\ nextPlanId = n + 1
  BY <1>1
<1>3. /\ snapshotStore = [id \in {} |-> 0] /\ active = 0
      /\ player = Resting /\ root = FALSE /\ drawn = {}
  BY DEF Init, Plans!Init, Plans!Resting, Resting
<1>4. MaxPlans \in Nat \ {0} BY PlansAssumption
<1> DEFINE s == Plans!State
<1>5. /\ StateShape(s) /\ s.plans = plans /\ s.store = [id \in {} |-> 0] /\ s.active = 0
      /\ s.player = Resting /\ s.root \in BOOLEAN /\ s.drawn = {}
  BY <1>3 DEF Plans!State, StateShape
<1>6. \A i \in 1..n :
        /\ plans[i] \in PlanType /\ plans[i].id = i
        /\ plans[i].status # "ready" /\ plans[i].steps = 0
  <2> TAKE i \in 1..n
  <2>1. plans[i] = Plans!Idle(i, initialPlans[i]) BY <1>2
  <2>2. i \in 1..MaxPlans /\ initialPlans[i] \in Files BY <1>4
  <2> QED BY <2>1, <2>2 DEF Plans!Idle, PlanType, Plans!Statuses
<1> HIDE DEF s, PlanType
<1>7. DOMAIN plans = 1..n BY <1>2
<1>8. plans \in Seq(PlanType) /\ Len(plans) = n
  <2>1. plans \in [1..n -> PlanType] BY <1>2, <1>6
  <2>2. n \in Nat OBVIOUS
  <2> QED BY <1>7, <2>1, <2>2, SeqDef
<1>9. DOMAIN s.store = {} BY <1>5
<1>10. Listing(s.plans, n + 1) BY <1>5, <1>6, <1>7, <1>8 DEF Listing
<1>11. Stored(s.plans, s.store) BY <1>5, <1>6, <1>7, <1>9 DEF Stored
<1>12. OnScreen(s) BY <1>5, <1>8, RestingTyped DEF OnScreen, Plans!totalSteps
<1>13. Sound(s, n + 1) BY <1>5, <1>10, <1>11, <1>12 DEF Sound
<1>14. nextPlanId = n + 1 /\ n + 1 \in 1..(MaxPlans + 1) BY <1>2, <1>4
<1> QED BY <1>13, <1>14 DEF PlansInv, s

LEMMA ClearKept ==
  ASSUME PlansInv, Plans!ClearActivePlan
  PROVE  PlansInv'
BY ClearSound, BecomeKept DEF PlansInv, Plans!ClearActivePlan

LEMMA AddKept ==
  ASSUME PlansInv, NEW file \in Files, NEW precomputed \in Nat,
         Plans!AddPlan(file, precomputed)
  PROVE  PlansInv'
<1> DEFINE s == Plans!addPlan(Plans!State, file, precomputed)
<1>1. /\ nextPlanId <= MaxPlans /\ nextPlanId' = nextPlanId + 1 /\ Plans!Become(s)
  BY DEF Plans!AddPlan
<1>2. Sound(s, nextPlanId + 1) BY <1>1, AddSound
<1>3. nextPlanId + 1 \in 1..(MaxPlans + 1) BY <1>1, PlansAssumption DEF PlansInv
<1> HIDE DEF s
<1> QED BY <1>1, <1>2, <1>3, BecomeKept

LEMMA SelectKept ==
  ASSUME PlansInv, NEW index \in DOMAIN plans, active # index, Plans!SelectPlan(index)
  PROVE  PlansInv'
<1>1. index \in DOMAIN Plans!State.plans /\ Plans!State.active # index
  BY DEF Plans!State
<1> QED BY <1>1, SelectSound, BecomeKept DEF PlansInv, Plans!SelectPlan

LEMMA RemoveKept ==
  ASSUME PlansInv, NEW index \in DOMAIN plans, Plans!RemovePlan(index)
  PROVE  PlansInv'
<1>1. index \in DOMAIN Plans!State.plans BY DEF Plans!State
<1> QED BY <1>1, RemoveSound, BecomeKept DEF PlansInv, Plans!RemovePlan

LEMMA PlaybackKept ==
  ASSUME PlansInv, Plans!Scrub \/ Plans!Tick
  PROVE  PlansInv'
<1> DEFINE total == Plans!totalSteps(Plans!State)
<1>1. PICK move \in Scrubbed(player, total, Plans!onStep) \cup {tick(player, total, Plans!onStep)} :
        Plans!Moved(move)
  BY PlayersOfPlans DEF Plans!Scrub, Plans!Tick
<1>2. player \in Players(Nat) BY DEF PlansInv, Sound, OnScreen, Plans!State
<1>3. Plans!onStep \in BOOLEAN BY DEF Plans!onStep
<1>4. total \in Nat
  <2>1. /\ plans \in Seq(PlanType) /\ active \in 0..Len(plans)
    BY DEF PlansInv, Sound, OnScreen, Listing, Plans!State
  <2>2. active \in 1..Len(plans) => plans[active] \in PlanType
    <3> HIDE DEF PlanType
    <3> QED BY <2>1
  <2>3. total = IF active \in 1..Len(plans) THEN plans[active].steps ELSE 0
    BY DEF Plans!totalSteps, Plans!State
  <2> QED BY <2>2, <2>3 DEF PlanType
<1> HIDE DEF total
<1>5. Follow(player, total, Plans!onStep, move) BY <1>1, <1>2, <1>3, <1>4, MovesFollow
<1> QED BY <1>1, <1>5, MovedKept DEF total

\* The plans are kept by every step of the panel, and the panel has its types.
LEMMA PlansKept ==
  ASSUME PlansInv, PanelTyped, [Next]_vars
  PROVE  PlansInv' /\ PanelTyped'
<1>1. CASE UNCHANGED vars
  BY <1>1, SameSound DEF vars, panel, planVars, PanelTyped
<1>2. CASE \E file \in Files : ChooseFile(file)
  <2>1. PICK file \in Files : ChooseFile(file) BY <1>2
  <2>2. PICK slot \in 1..MaxUploads :
          uploads' = uploads \cup {[slot |-> slot, file |-> file,
                                   stage |-> "reading", late |-> FALSE]}
    BY <2>1 DEF ChooseFile
  <2>3. [slot |-> slot, file |-> file, stage |-> "reading", late |-> FALSE] \in Uploads
    BY DEF Uploads
  <2>4. uploads' \subseteq Uploads BY <2>2, <2>3 DEF PanelTyped
  <2> QED BY <2>1, <2>4, SameSound DEF ChooseFile, PanelTyped
<1>3. CASE \E u \in uploads : FileRead(u)
  BY <1>3, SameSound DEF FileRead, PanelTyped, Uploads
<1>4. CASE \E u \in uploads : FileFailed(u)
  BY <1>4, SameSound DEF FileFailed, PanelTyped
<1>5. CASE \E u \in uploads : FileResolved(u)
  <2>1. PICK u \in uploads : FileResolved(u) BY <1>5
  <2>2. u.file \in Files BY DEF PanelTyped, Uploads
  <2>3. PICK precomputed \in planDropper(u.file) : Plans!AddPlan(u.file, precomputed)
    BY <2>1 DEF FileResolved
  <2>4. precomputed \in Nat
    <3>1. Steps[u.file] \in Nat \cup {Broken} BY <2>2, PlansAssumption
    <3> QED BY <2>3, <3>1 DEF planDropper
  <2>5. PlansInv' BY <2>2, <2>3, <2>4, AddKept
  <2> QED BY <2>1, <2>5 DEF FileResolved, PanelTyped
<1>6. CASE \E i \in DOMAIN plans : ClickPlan(i)
  <2>1. PICK i \in DOMAIN plans : ClickPlan(i) BY <1>6
  <2>2. UNCHANGED panel BY <2>1 DEF ClickPlan
  <2>3. CASE active = i BY <2>1, <2>2, <2>3, ClearKept DEF ClickPlan, panel, PanelTyped
  <2>4. CASE active # i BY <2>1, <2>2, <2>4, SelectKept DEF ClickPlan, panel, PanelTyped
  <2> QED BY <2>3, <2>4
<1>7. CASE \E i \in DOMAIN plans : ClickRemove(i)
  BY <1>7, RemoveKept DEF ClickRemove, panel, PanelTyped
<1>8. CASE \E i \in DOMAIN plans : ClickInspect(i)
  BY <1>8, ClearKept DEF ClickInspect, panel, PanelTyped
<1>9. CASE ReplayScrubbed \/ ReplayTicks
  BY <1>9, PlaybackKept DEF ReplayScrubbed, ReplayTicks, panel, PanelTyped
<1>10. CASE ClickBack \/ (\E id \in Candidates : ClickCandidate(id))
  BY <1>10, SameSound DEF ClickBack, ClickCandidate, panel, PanelTyped
<1>11. CASE \/ \E kind \in Toggled : TogglePose(kind)
            \/ \E steps \in MinSteps..MaxSteps : ChangeSteps(steps)
  BY <1>11, SameSound DEF TogglePose, ChangeSteps, panel, PanelTyped
<1>12. CASE PathScrubbed \/ PathTicks \/ \E request \in requests : Answer(request)
  BY <1>12, SameSound DEF PathScrubbed, PathTicks, Answer, panel, PanelTyped
<1>13. CASE Unmount
  <2>1. PlansInv' BY <1>13, ClearKept DEF Unmount
  <2>2. switches' \in 0..MaxSwitches
    BY <1>13, PanelAssumption DEF Unmount, PanelTyped
  <2>3. \A u \in uploads : [u EXCEPT !.late = TRUE] \in Uploads
    BY DEF PanelTyped, Uploads
  <2>4. uploads' \subseteq Uploads BY <1>13, <2>3 DEF Unmount
  <2> QED BY <1>13, <2>1, <2>2, <2>4 DEF Unmount, PanelTyped
<1>14. CASE Mount
  <2>1. switches' \in 0..MaxSwitches
    BY <1>14, PanelAssumption DEF Mount, PanelTyped
  <2> QED BY <1>14, <2>1, SameSound DEF Mount, PanelTyped
<1> QED
  BY <1>1, <1>2, <1>3, <1>4, <1>5, <1>6, <1>7, <1>8, <1>9, <1>10, <1>11, <1>12, <1>13, <1>14
  DEF Next

\* What the theorems say of the plans.
LEMMA PlansInvSays ==
  ASSUME PlansInv
  PROVE  Plans!TypeOK /\ PlansAgree
<1>1. /\ plans \in Seq(PlanType) /\ Stored(plans, snapshotStore)
      /\ active \in 0..Len(plans) /\ player \in Players(Nat) /\ root \in BOOLEAN
      /\ nextPlanId \in 1..(MaxPlans + 1)
      /\ drawn = IF Plans!totalSteps(Plans!State) = 0 THEN {}
                 ELSE {[plan |-> plans[active].id, step |-> player.step]}
  BY DEF PlansInv, Sound, OnScreen, Listing, Plans!State
<1>2. \A i \in DOMAIN plans : plans[i] \in PlanType
  <2> HIDE DEF PlanType
  <2> QED BY <1>1
<1>3. DOMAIN snapshotStore \subseteq 1..MaxPlans
  <2>1. \A i \in DOMAIN plans : plans[i].id \in 1..MaxPlans BY <1>2 DEF PlanType
  <2> QED BY <1>1, <2>1 DEF Stored
<1>4. drawn \subseteq [plan : 1..MaxPlans, step : Nat]
  <2>1. Plans!totalSteps(Plans!State) # 0 => active # 0
    BY DEF Plans!totalSteps, Plans!State
  <2>2. active # 0 => plans[active].id \in 1..MaxPlans
    <3>1. active # 0 => active \in DOMAIN plans BY <1>1
    <3> QED BY <1>2, <3>1 DEF PlanType
  <2> QED BY <1>1, <2>1, <2>2 DEF Players
<1>5. Plans!TypeOK
  <2>1. player.step \in Nat /\ player.playing \in BOOLEAN BY <1>1 DEF Players
  <2>2. plans \in Seq([id : 1..MaxPlans, file : Files, status : Plans!Statuses, steps : Nat])
    BY <1>1 DEF PlanType
  <2> QED BY <1>1, <1>3, <1>4, <2>1, <2>2 DEF Plans!TypeOK, Stored
<1>6. Plans!ScreenShowsStep BY <1>1 DEF Plans!ScreenShowsStep
<1>7. Plans!StoreMatchesList BY <1>1 DEF Plans!StoreMatchesList, Stored
<1> QED BY <1>5, <1>6, <1>7 DEF PlansAgree

---------------------------------------------------------------------------
(* The inspection.                                                         *)

IKRecord ==
    [isActive : BOOLEAN,
     status : {"idle", "loading", "ready", "error"},
     planName : Files \cup {None},
     result : IK!Results \cup {None},
     selectedId : Candidates \cup {None},
     visible : SUBSET IK!Kinds,
     sets : [IK!Kinds -> IK!Drawn \cup {None}],
     obstacles : IK!Results \cup {None},
     pathSteps : MinSteps..MaxSteps,
     pathLength : {0} \cup MinSteps..(MaxSteps + 1),
     pathStep : {NoStep} \cup 0..MaxSteps,
     player : Players(0..MaxSteps)]

\* What drawing and clearing leave alone.
Alike(s, t) ==
    /\ t.isActive = s.isActive /\ t.status = s.status /\ t.planName = s.planName
    /\ t.result = s.result /\ t.selectedId = s.selectedId /\ t.visible = s.visible
    /\ t.obstacles = s.obstacles /\ t.pathSteps = s.pathSteps

AtItsStep(s) ==
    /\ s.pathLength = 0 <=> s.sets["path"] = None
    /\ s.pathLength > 0 => s.pathStep = s.player.step /\ s.pathStep < s.pathLength

OfSelection(s) ==
    \A kind \in IK!Kinds : s.sets[kind] # None =>
        /\ s.sets[kind].candidate = s.selectedId
        /\ s.sets[kind].visible <=> kind \in s.visible

LeftBehind(s) ==
    /\ ~s.isActive => s.obstacles = None /\ \A kind \in IK!Kinds : s.sets[kind] = None
    /\ s.result # None => s.result.name = s.planName

Steady(s) == s \in IKRecord /\ AtItsStep(s) /\ OfSelection(s) /\ LeftBehind(s)

RequestsTyped ==
    /\ requests \subseteq [number : 1..MaxRequests, name : Files]
    /\ asked \in 0..MaxRequests

IKInv == RequestsTyped /\ Steady(ik) /\ (~mounted => ~ik.isActive)

LEMMA RestingInside == Resting \in Players(0..MaxSteps) /\ Resting.step = 0
BY CandidatesAssumption DEF Resting, Players

LEMMA ClearPathIs ==
  ASSUME NEW s \in IKRecord
  PROVE  LET c == IK!clearPath(s)
         IN /\ c \in IKRecord /\ Alike(s, c)
            /\ c.sets = [s.sets EXCEPT !["path"] = None]
            /\ c.pathLength = 0 /\ c.pathStep = NoStep /\ c.player = Resting
<1> DEFINE sets == [s.sets EXCEPT !["path"] = None]
           c == IK!clearPath(s)
<1>1. s.sets \in [IK!Kinds -> IK!Drawn \cup {None}] BY DEF IKRecord
<1>2. sets \in [IK!Kinds -> IK!Drawn \cup {None}] BY <1>1
<1>3. c = [s EXCEPT !.sets = sets, !.pathLength = 0, !.pathStep = NoStep, !.player = Resting]
  BY DEF IK!clearPath, IK!NoStep, NoStep, IK!Resting, Resting
<1> HIDE DEF sets, c
<1>4. c \in IKRecord
  <2>1. Resting \in Players(0..MaxSteps) BY RestingInside
  <2>2. /\ 0 \in {0} \cup MinSteps..(MaxSteps + 1) /\ NoStep \in {NoStep} \cup 0..MaxSteps
    OBVIOUS
  <2> QED BY <1>2, <1>3, <2>1, <2>2, Zenon DEF IKRecord
<1>5. /\ c.sets = sets /\ c.pathLength = 0 /\ c.pathStep = NoStep /\ c.player = Resting
      /\ Alike(s, c)
  BY <1>3 DEF IKRecord, Alike
<1> QED BY <1>4, <1>5 DEF c, sets

LEMMA NoSetsTyped ==
  /\ IK!NoSets \in [IK!Kinds -> IK!Drawn \cup {None}]
  /\ \A kind \in IK!Kinds : IK!NoSets[kind] = None
BY DEF IK!NoSets

LEMMA ClearPoseSetsIs ==
  ASSUME NEW s \in IKRecord
  PROVE  LET c == IK!clearPoseSets(s)
         IN /\ c \in IKRecord /\ Alike(s, c) /\ c.sets = IK!NoSets
            /\ c.pathLength = 0 /\ c.pathStep = NoStep /\ c.player = Resting
<1> DEFINE p == IK!clearPath(s)
           c == IK!clearPoseSets(s)
<1>1. /\ p \in IKRecord /\ Alike(s, p)
      /\ p.pathLength = 0 /\ p.pathStep = NoStep /\ p.player = Resting
  BY ClearPathIs
<1>2. c = [p EXCEPT !.sets = IK!NoSets] BY DEF IK!clearPoseSets
<1> HIDE DEF p, c
<1>3. c \in IKRecord BY <1>1, <1>2, NoSetsTyped DEF IKRecord
<1>4. /\ c.sets = IK!NoSets /\ c.pathLength = p.pathLength /\ c.pathStep = p.pathStep
      /\ c.player = p.player /\ Alike(p, c)
  BY <1>1, <1>2 DEF IKRecord, Alike
<1> QED BY <1>1, <1>3, <1>4 DEF c, Alike

LEMMA PathInKinds == "path" \in IK!Kinds
BY DEF IK!Kinds

\* Nothing is drawn of an inspection that was cleared, whoever is named next.
LEMMA ClearedSteady ==
  ASSUME NEW s \in IKRecord, NEW name \in Files \cup {None}, NEW isActive \in BOOLEAN,
         NEW status \in {"idle", "loading"}
  PROVE  LET t == [IK!clear(s) EXCEPT !.planName = name, !.status = status,
                                      !.isActive = isActive]
         IN Steady(t) /\ t.isActive = isActive /\ t.pathLength = 0 /\ t.player = Resting
<1> DEFINE p == IK!clearPoseSets(s)
           t == [IK!clear(s) EXCEPT !.planName = name, !.status = status,
                                    !.isActive = isActive]
<1>1. /\ p \in IKRecord /\ p.sets = IK!NoSets
      /\ p.pathLength = 0 /\ p.pathStep = NoStep /\ p.player = Resting
  BY ClearPoseSetsIs
<1>2. t = [IK!clear(s) EXCEPT !.planName = name, !.status = status,
                              !.isActive = isActive]
  OBVIOUS
<1>3. /\ IK!clear(s) \in IKRecord
      /\ IK!clear(s).sets = p.sets /\ IK!clear(s).pathLength = p.pathLength
      /\ IK!clear(s).pathStep = p.pathStep /\ IK!clear(s).player = p.player
      /\ IK!clear(s).obstacles = None /\ IK!clear(s).result = None
  <2> DEFINE torn == [p EXCEPT !.obstacles = None]
             c == [torn EXCEPT !.result = None, !.selectedId = None, !.status = "idle"]
  <2>1. IK!clear(s) = c BY DEF IK!clear, IK!teardownScene, p
  <2>2. /\ torn \in IKRecord /\ torn.obstacles = None /\ torn.sets = p.sets
        /\ torn.pathLength = p.pathLength /\ torn.pathStep = p.pathStep
        /\ torn.player = p.player
    BY <1>1 DEF IKRecord
  <2> HIDE DEF torn
  <2>3. c \in IKRecord
    <3>1. torn \in IKRecord BY <2>2
    <3> QED BY <3>1 DEF IKRecord
  <2>4. /\ c.obstacles = None /\ c.sets = p.sets /\ c.pathLength = p.pathLength
        /\ c.pathStep = p.pathStep /\ c.player = p.player /\ c.result = None
    BY <2>2 DEF IKRecord
  <2> QED BY <2>1, <2>3, <2>4
<1> DEFINE c == IK!clear(s)
<1> HIDE DEF t, p, c
<1>4. t \in IKRecord BY <1>2, <1>3 DEF IKRecord, c
<1>5. /\ t.sets = p.sets /\ t.pathLength = p.pathLength /\ t.pathStep = p.pathStep
      /\ t.player = p.player /\ t.obstacles = None /\ t.result = None
      /\ t.isActive = isActive
  BY <1>2, <1>3 DEF IKRecord, c
<1>6. \A kind \in IK!Kinds : t.sets[kind] = None BY <1>1, <1>5, NoSetsTyped
<1>7. AtItsStep(t) BY <1>1, <1>5, <1>6, PathInKinds DEF AtItsStep
<1> QED BY <1>1, <1>3, <1>4, <1>5, <1>6, <1>7 DEF Steady, OfSelection, LeftBehind, t

LEMMA RoundedInt ==
  \A a \in Nat, b \in Nat \ {0} : IK!Rounded(a, b) \in Int
BY DEF IK!Rounded

LEMMA HeldInt ==
  ASSUME NEW s \in IKRecord, NEW length \in Nat \ {0}
  PROVE  IK!Held(s, length) \in Int
<1>1. s.player.step \in Nat /\ s.pathLength \in Nat /\ length - 1 \in Nat
  BY CandidatesAssumption DEF IKRecord, Players
<1>2. CASE s.pathLength > 1
  <2>1. s.player.step * (length - 1) \in Nat BY <1>1
  <2>2. s.pathLength - 1 \in Nat \ {0} BY <1>1, <1>2
  <2>3. IK!Rounded(s.player.step * (length - 1), s.pathLength - 1) \in Int
    BY <2>1, <2>2, RoundedInt
  <2> QED BY <1>2, <2>3 DEF IK!Held
<1>3. CASE ~(s.pathLength > 1) BY <1>3 DEF IK!Held
<1> QED BY <1>2, <1>3

\* A set that is drawn: of which candidate, shown or hidden.
DrawnOf(s, candidate, kind) ==
    [result |-> s.result, candidate |-> candidate, visible |-> kind \in s.visible]

LEMMA DrawnTyped ==
  ASSUME NEW s \in IKRecord, s.result # None, NEW candidate \in Candidates, NEW kind
  PROVE  DrawnOf(s, candidate, kind) \in IK!Drawn /\ DrawnOf(s, candidate, kind) # None
<1>1. s.result \in IK!Results BY DEF IKRecord
<1>2. DrawnOf(s, candidate, kind) \in IK!Drawn
  <2>1. (kind \in s.visible) \in BOOLEAN OBVIOUS
  <2> QED BY <1>1, <2>1 DEF DrawnOf, IK!Drawn
<1> QED BY <1>2, NoneAssumption

\* A path that is built anew: none, or one of the candidate, at its player's step.
LEMMA RebuiltPath ==
  ASSUME NEW s \in IKRecord, NEW candidate \in Candidates \cup {None},
         NEW t \in IK!rebuildPath(s, candidate)
  PROVE  /\ t \in IKRecord /\ Alike(s, t) /\ AtItsStep(t)
         /\ \A kind \in IK!Kinds \ {"path"} : t.sets[kind] = s.sets[kind]
         /\ \/ t.sets["path"] = None
            \/ /\ candidate # None /\ s.result # None
               /\ t.sets["path"] = DrawnOf(s, candidate, "path")
<1> DEFINE c == IK!clearPath(s)
<1>1. /\ c \in IKRecord /\ Alike(s, c)
      /\ c.sets = [s.sets EXCEPT !["path"] = None]
      /\ c.pathLength = 0 /\ c.pathStep = NoStep /\ c.player = Resting
  BY ClearPathIs
<1>2. s.sets \in [IK!Kinds -> IK!Drawn \cup {None}] BY DEF IKRecord
<1>3. /\ c.sets["path"] = None
      /\ \A kind \in IK!Kinds \ {"path"} : c.sets[kind] = s.sets[kind]
  BY <1>1, <1>2, PathInKinds
<1>4. CASE t = c
  <2> HIDE DEF c
  <2>1. AtItsStep(c) BY <1>1, <1>3 DEF AtItsStep
  <2> QED BY <1>1, <1>3, <1>4, <2>1
<1>5. CASE t # c
  <2> DEFINE At(length) == IK!Clamped(IK!Held(s, length), length)
             drew == DrawnOf(s, candidate, "path")
             Path(length) ==
               [c EXCEPT !.pathLength = length, !.sets["path"] = drew,
                         !.pathStep = At(length),
                         !.player = [Resting EXCEPT !.step = At(length)]]
  <2>1. /\ candidate # None /\ s.result # None
        /\ \E length \in IK!PathLengths(s, candidate) : t = Path(length)
    BY <1>5 DEF IK!rebuildPath, IK!Resting, Resting, DrawnOf
  <2>2. PICK length \in IK!PathLengths(s, candidate) : t = Path(length) BY <2>1
  <2>3. length \in MinSteps..(MaxSteps + 1) /\ length \in Nat \ {0}
    <3>1. s.pathSteps \in MinSteps..MaxSteps BY DEF IKRecord
    <3> QED BY <3>1, CandidatesAssumption DEF IK!PathLengths
  <2> DEFINE step == At(length)
             sets == [c.sets EXCEPT !["path"] = drew]
             player1 == [Resting EXCEPT !.step = step]
  <2>4. step \in 0..(length - 1)
    <3>1. IK!Held(s, length) \in Int BY <2>3, HeldInt
    <3>2. step = Clamped(IK!Held(s, length), length)
      BY DEF IK!Clamped, Clamped, IK!lastStep, lastStep
    <3> QED BY <2>3, <3>1, <3>2, ClampedInside
  <2>5. step \in 0..MaxSteps BY <2>3, <2>4, CandidatesAssumption
  <2>6. drew \in IK!Drawn /\ drew # None BY <2>1, DrawnTyped
  <2>7. t = [c EXCEPT !.pathLength = length, !.sets = sets, !.pathStep = step,
                      !.player = player1]
    BY <2>2
  <2> HIDE DEF c, step, drew
  <2>8. player1 \in Players(0..MaxSteps) /\ player1.step = step
    BY <2>5, RestingInside DEF Players
  <2>9. /\ sets \in [IK!Kinds -> IK!Drawn \cup {None}]
        /\ sets["path"] = drew
        /\ \A kind \in IK!Kinds \ {"path"} : sets[kind] = c.sets[kind]
    <3>1. c.sets \in [IK!Kinds -> IK!Drawn \cup {None}] BY <1>1 DEF IKRecord
    <3> QED BY <2>6, <3>1, PathInKinds
  <2> HIDE DEF player1, sets
  <2>10. t \in IKRecord
    <3>1. c \in IKRecord BY <1>1
    <3>2. length \in {0} \cup MinSteps..(MaxSteps + 1) /\ step \in {NoStep} \cup 0..MaxSteps
      BY <2>3, <2>5
    <3>3. player1 \in Players(0..MaxSteps) BY <2>8
    <3>4. sets \in [IK!Kinds -> IK!Drawn \cup {None}] BY <2>9
    <3> QED BY <2>7, <3>1, <3>2, <3>3, <3>4 DEF IKRecord
  <2>11. /\ t.pathLength = length /\ t.sets = sets /\ t.pathStep = step
         /\ t.player = player1 /\ Alike(c, t)
    <3>1. c \in IKRecord BY <1>1
    <3> QED BY <2>7, <3>1 DEF IKRecord, Alike
  <2>12. Alike(s, t) BY <1>1, <2>11 DEF Alike
  <2>13. AtItsStep(t)
    <3>1. step < length BY <2>3, <2>4
    <3> QED BY <2>3, <2>6, <2>8, <2>9, <2>11, <3>1 DEF AtItsStep
  <2> QED BY <1>3, <2>1, <2>9, <2>10, <2>11, <2>12, <2>13 DEF drew
<1> QED BY <1>4, <1>5

\* The player's effect leaves what is drawn alone.
LEMMA BecomeSteady ==
  ASSUME NEW s, Steady(s), IK!Become(s), RequestsTyped
  PROVE  Steady(ik') /\ ik'.isActive = s.isActive /\ RequestsTyped'
<1> DEFINE q == IF s.pathLength = 0 THEN Resting ELSE s.player
<1>1. ik' = [s EXCEPT !.player = q] /\ UNCHANGED <<requests, asked>>
  BY DEF IK!Become, IK!Unloaded, IK!Resting, Resting
<1>2. s \in IKRecord BY DEF Steady
<1>3. s.player \in Players(0..MaxSteps) BY <1>2 DEF IKRecord
<1>4. q \in Players(0..MaxSteps) BY <1>3, RestingInside
<1>5. s.pathLength > 0 => q = s.player
  BY <1>2, CandidatesAssumption DEF IKRecord
<1> HIDE DEF q
<1>6. ik' \in IKRecord BY <1>1, <1>2, <1>4 DEF IKRecord
<1>7. /\ Alike(s, ik') /\ ik'.sets = s.sets /\ ik'.pathLength = s.pathLength
      /\ ik'.pathStep = s.pathStep /\ ik'.player = q
  BY <1>1, <1>2 DEF IKRecord, Alike
<1>8. AtItsStep(ik') BY <1>5, <1>7 DEF AtItsStep, Steady
<1>9. OfSelection(ik') /\ LeftBehind(ik')
  BY <1>7 DEF Steady, OfSelection, LeftBehind, Alike
<1> QED BY <1>1, <1>6, <1>7, <1>8, <1>9 DEF Steady, RequestsTyped, Alike

\* Whatever path is built for the selection, every set stays its own.
LEMMA RebuiltSteady ==
  ASSUME NEW s \in IKRecord, OfSelection(s), LeftBehind(s), s.isActive,
         NEW candidate \in {None, s.selectedId}, NEW t \in IK!rebuildPath(s, candidate)
  PROVE  Steady(t) /\ t.isActive
<1>1. candidate \in Candidates \cup {None} BY DEF IKRecord
<1>2. /\ t \in IKRecord /\ Alike(s, t) /\ AtItsStep(t)
      /\ \A kind \in IK!Kinds \ {"path"} : t.sets[kind] = s.sets[kind]
      /\ \/ t.sets["path"] = None
         \/ /\ candidate # None /\ s.result # None
            /\ t.sets["path"] = DrawnOf(s, candidate, "path")
  BY <1>1, RebuiltPath
<1>3. OfSelection(t)
  <2> SUFFICES ASSUME NEW kind \in IK!Kinds, t.sets[kind] # None
               PROVE  /\ t.sets[kind].candidate = t.selectedId
                      /\ t.sets[kind].visible <=> kind \in t.visible
    BY DEF OfSelection
  <2>1. CASE kind = "path"
    <3>1. candidate = s.selectedId /\ t.sets["path"] = DrawnOf(s, candidate, "path")
      BY <1>2, <2>1
    <3>2. /\ DrawnOf(s, candidate, "path").candidate = candidate
          /\ DrawnOf(s, candidate, "path").visible <=> "path" \in s.visible
      BY DEF DrawnOf
    <3> QED BY <1>2, <2>1, <3>1, <3>2 DEF Alike
  <2>2. CASE kind # "path"
    BY <1>2, <2>2 DEF OfSelection, Alike
  <2> QED BY <2>1, <2>2
<1>4. LeftBehind(t) /\ t.isActive BY <1>2 DEF LeftBehind, Alike
<1> QED BY <1>2, <1>3, <1>4 DEF Steady

LEMMA DefaultsTyped ==
  \A s : IK!defaultVisibility(s) \in SUBSET IK!Kinds
BY DEF IK!defaultVisibility, IK!Kinds

\* A selection: every set is taken away, and those of the candidate are drawn.
LEMMA SelectedSteady ==
  ASSUME NEW s \in IKRecord, LeftBehind(s), s.isActive, s.selectedId \in Candidates,
         NEW t \in IK!drawSelection(s)
  PROVE  Steady(t) /\ t.isActive
<1> DEFINE p == IK!clearPoseSets(s)
           shown == IK!defaultVisibility(s)
           cleared == [p EXCEPT !.visible = shown]
           ghosts == IK!poseSetsForCandidate(s, s.selectedId)
           sets == [kind \in IK!Kinds |->
                      IF kind \notin ghosts THEN None
                      ELSE [result |-> s.result, candidate |-> s.selectedId,
                            visible |-> kind \in cleared.visible]]
           posed == [cleared EXCEPT !.sets = sets]
<1>1. /\ p \in IKRecord /\ Alike(s, p) /\ p.sets = IK!NoSets
      /\ p.pathLength = 0 /\ p.pathStep = NoStep /\ p.player = Resting
  BY ClearPoseSetsIs
<1>2. IF s.result = None THEN t = cleared ELSE t \in IK!rebuildPath(posed, s.selectedId)
  <2>1. s.selectedId # None BY CandidatesAssumption
  <2> QED BY <2>1 DEF IK!drawSelection
<1> HIDE DEF p, ghosts
<1>3. /\ cleared \in IKRecord /\ cleared.visible = shown /\ cleared.sets = p.sets
      /\ cleared.pathLength = p.pathLength /\ cleared.selectedId = p.selectedId
      /\ cleared.result = p.result /\ cleared.isActive = p.isActive
      /\ cleared.planName = p.planName /\ cleared.obstacles = p.obstacles
  <2>1. shown \in SUBSET IK!Kinds BY DefaultsTyped
  <2>2. p \in IKRecord BY <1>1
  <2> HIDE DEF shown
  <2>3. cleared \in IKRecord BY <2>1, <2>2 DEF IKRecord
  <2> QED BY <2>2, <2>3 DEF IKRecord
<1> HIDE DEF cleared, shown
<1>4. CASE s.result = None
  <2>1. t = cleared BY <1>2, <1>4
  <2>2. \A kind \in IK!Kinds : cleared.sets[kind] = None BY <1>1, <1>3, NoSetsTyped
  <2>3. AtItsStep(cleared) BY <1>1, <1>3, <2>2, PathInKinds DEF AtItsStep
  <2>4. OfSelection(cleared) BY <2>2 DEF OfSelection
  <2>5. LeftBehind(cleared) /\ cleared.isActive
    BY <1>1, <1>3, <1>4 DEF LeftBehind, Alike
  <2> QED BY <1>3, <2>1, <2>3, <2>4, <2>5 DEF Steady
<1>5. CASE s.result # None
  <2>1. sets \in [IK!Kinds -> IK!Drawn \cup {None}]
    <3>1. s.result \in IK!Results BY <1>5 DEF IKRecord
    <3>2. \A kind : [result |-> s.result, candidate |-> s.selectedId,
                     visible |-> kind \in cleared.visible] \in IK!Drawn
      BY <3>1 DEF IK!Drawn
    <3> QED BY <3>2
  <2>2. \A kind \in IK!Kinds : sets[kind] # None =>
          /\ sets[kind].candidate = s.selectedId
          /\ sets[kind].visible <=> kind \in cleared.visible
    OBVIOUS
  <2> HIDE DEF sets
  <2>3. posed \in IKRecord
    <3>1. cleared \in IKRecord BY <1>3
    <3> QED BY <2>1, <3>1 DEF IKRecord
  <2>4. posed.sets = sets /\ Alike(cleared, posed)
    <3>1. cleared \in IKRecord BY <1>3
    <3> QED BY <3>1 DEF IKRecord, Alike
  <2> HIDE DEF posed
  <2>5. OfSelection(posed)
    BY <1>1, <1>3, <2>2, <2>4 DEF OfSelection, Alike
  <2>6. LeftBehind(posed) /\ posed.isActive /\ posed.selectedId = s.selectedId
    BY <1>1, <1>3, <2>4 DEF LeftBehind, Alike
  <2> QED BY <1>2, <1>5, <2>3, <2>5, <2>6, RebuiltSteady
<1> QED BY <1>4, <1>5

LEMMA SelectSteady ==
  ASSUME IKInv, ik.isActive, NEW id \in Candidates, IK!select(id)
  PROVE  Steady(ik') /\ ik'.isActive /\ RequestsTyped'
<1> DEFINE s == [ik EXCEPT !.selectedId = id]
<1>1. ik \in IKRecord BY DEF IKInv, Steady
<1>2. s \in IKRecord BY <1>1 DEF IKRecord
<1>3. /\ s.isActive = ik.isActive /\ s.selectedId = id
      /\ s.result = ik.result /\ s.planName = ik.planName
  BY <1>1 DEF IKRecord
<1>4. PICK t \in IK!drawSelection(s) : IK!Become(t) BY DEF IK!select
<1> HIDE DEF s
<1>5. LeftBehind(s) BY <1>3 DEF IKInv, Steady, LeftBehind
<1>6. Steady(t) /\ t.isActive BY <1>2, <1>3, <1>4, <1>5, SelectedSteady
<1> QED BY <1>4, <1>6, BecomeSteady DEF IKInv

LEMMA ToggleSteady ==
  ASSUME IKInv, ik.isActive, NEW kind \in IK!Kinds, NEW visible \in BOOLEAN,
         IK!setPoseVisible(kind, visible)
  PROVE  Steady(ik') /\ ik'.isActive /\ RequestsTyped'
<1> DEFINE kinds == IF visible THEN ik.visible \cup {kind} ELSE ik.visible \ {kind}
           drew == IF ik.sets[kind] = None THEN None
                   ELSE [ik.sets[kind] EXCEPT !.visible = visible]
           sets == [ik.sets EXCEPT ![kind] = drew]
           s == [ik EXCEPT !.visible = kinds, !.sets = sets]
<1>1. IK!Become(s) BY DEF IK!setPoseVisible
<1>2. ik \in IKRecord /\ AtItsStep(ik) /\ OfSelection(ik) /\ LeftBehind(ik)
  BY DEF IKInv, Steady
<1>3. ik.visible \in SUBSET IK!Kinds /\ ik.sets \in [IK!Kinds -> IK!Drawn \cup {None}]
  BY <1>2 DEF IKRecord
<1>4. /\ ik.sets[kind] # None =>
           /\ drew \in IK!Drawn /\ drew.candidate = ik.sets[kind].candidate
           /\ drew.visible = visible
      /\ ik.sets[kind] = None => drew = None
  BY <1>3 DEF IK!Drawn
<1>5. drew = None <=> ik.sets[kind] = None BY <1>4, NoneAssumption
<1>6. /\ kinds \in SUBSET IK!Kinds /\ (kind \in kinds <=> visible)
      /\ \A k \in IK!Kinds \ {kind} : k \in kinds <=> k \in ik.visible
  BY <1>3
<1> HIDE DEF kinds, drew
<1>7. /\ sets \in [IK!Kinds -> IK!Drawn \cup {None}] /\ sets[kind] = drew
      /\ \A k \in IK!Kinds \ {kind} : sets[k] = ik.sets[k]
  BY <1>3, <1>4
<1> HIDE DEF sets
<1>8. s \in IKRecord
  <2>1. ik \in IKRecord /\ kinds \in SUBSET IK!Kinds
        /\ sets \in [IK!Kinds -> IK!Drawn \cup {None}]
    BY <1>2, <1>6, <1>7
  <2> QED BY <2>1 DEF IKRecord
<1>9. /\ s.sets = sets /\ s.visible = kinds /\ s.pathLength = ik.pathLength
      /\ s.pathStep = ik.pathStep /\ s.player = ik.player /\ s.selectedId = ik.selectedId
      /\ s.isActive = ik.isActive /\ s.result = ik.result /\ s.planName = ik.planName
      /\ s.obstacles = ik.obstacles
  BY <1>2 DEF IKRecord
<1> HIDE DEF s
<1>10. sets["path"] = None <=> ik.sets["path"] = None
  BY <1>5, <1>7, PathInKinds
<1>11. AtItsStep(s) BY <1>2, <1>9, <1>10 DEF AtItsStep
<1>12. OfSelection(s)
  <2> SUFFICES ASSUME NEW k \in IK!Kinds, sets[k] # None
               PROVE  sets[k].candidate = ik.selectedId /\ (sets[k].visible <=> k \in kinds)
    BY <1>9 DEF OfSelection
  <2>1. CASE k = kind
    <3>1. ik.sets[kind] # None BY <1>5, <1>7, <2>1
    <3> QED BY <1>2, <1>4, <1>6, <1>7, <2>1, <3>1 DEF OfSelection
  <2>2. CASE k # kind
    BY <1>2, <1>6, <1>7, <2>2 DEF OfSelection
  <2> QED BY <2>1, <2>2
<1>13. LeftBehind(s) BY <1>2, <1>9 DEF LeftBehind
<1>14. Steady(s) BY <1>8, <1>11, <1>12, <1>13 DEF Steady
<1> QED BY <1>1, <1>9, <1>14, BecomeSteady DEF IKInv

LEMMA StepsSteady ==
  ASSUME IKInv, ik.isActive, NEW steps \in MinSteps..MaxSteps, IK!setPathSteps(steps)
  PROVE  Steady(ik') /\ ik'.isActive /\ RequestsTyped'
<1> DEFINE s == [ik EXCEPT !.pathSteps = steps]
           candidate == IF ik.result = None THEN None ELSE ik.selectedId
<1>1. ik \in IKRecord /\ OfSelection(ik) /\ LeftBehind(ik) BY DEF IKInv, Steady
<1>2. s \in IKRecord BY <1>1 DEF IKRecord
<1>3. /\ s.isActive = ik.isActive /\ s.selectedId = ik.selectedId
      /\ s.result = ik.result /\ s.planName = ik.planName /\ s.sets = ik.sets
      /\ s.visible = ik.visible /\ s.obstacles = ik.obstacles
  BY <1>1 DEF IKRecord
<1>4. PICK t \in IK!rebuildPath(s, candidate) : IK!Become(t) BY DEF IK!setPathSteps
<1> HIDE DEF s
<1>5. OfSelection(s) /\ LeftBehind(s) BY <1>1, <1>3 DEF OfSelection, LeftBehind
<1>6. candidate \in {None, s.selectedId} BY <1>3
<1> HIDE DEF candidate
<1>7. Steady(t) /\ t.isActive BY <1>2, <1>3, <1>4, <1>5, <1>6, RebuiltSteady
<1> QED BY <1>4, <1>7, BecomeSteady DEF IKInv

LEMMA PathPlaybackSteady ==
  ASSUME IKInv, IK!Scrub \/ IK!Tick
  PROVE  Steady(ik') /\ ik'.isActive = ik.isActive /\ RequestsTyped'
<1>1. ik \in IKRecord /\ AtItsStep(ik) /\ OfSelection(ik) /\ LeftBehind(ik) /\ RequestsTyped
  BY DEF IKInv, Steady
<1>2. /\ ik.player \in Players(0..MaxSteps) /\ ik.pathLength \in Nat
      /\ ik.pathLength <= MaxSteps + 1 /\ ik.pathStep \in {NoStep} \cup 0..MaxSteps
  BY <1>1, CandidatesAssumption DEF IKRecord
<1>3. ik.player \in Players(Nat) BY <1>2, CandidatesAssumption DEF Players
<1>4. IK!onStep \in BOOLEAN BY DEF IK!onStep
<1>5. PICK move \in Scrubbed(ik.player, ik.pathLength, IK!onStep)
                      \cup {tick(ik.player, ik.pathLength, IK!onStep)} :
        IK!Moved(move)
  BY PlayersOfPaths DEF IK!Scrub, IK!Tick
<1>6. Follow(ik.player, ik.pathLength, IK!onStep, move)
  BY <1>2, <1>3, <1>4, <1>5, MovesFollow
<1> DEFINE at == IF move.shows = NoStep THEN ik.pathStep ELSE move.shows
           s == [ik EXCEPT !.player = move.player, !.pathStep = at]
<1>7. IK!Become(s) BY <1>5 DEF IK!Moved, IK!NoStep, NoStep
<1>8. /\ move.player \in Players(0..MaxSteps) /\ at \in {NoStep} \cup 0..MaxSteps
      /\ \/ at = ik.pathStep /\ move.player.step = ik.player.step
         \/ ik.pathLength > 0 /\ at < ik.pathLength /\ at = move.player.step
  <2>1. CASE move.shows = NoStep /\ move.player.step = ik.player.step
    <3>1. move.player.step \in 0..MaxSteps BY <1>2, <2>1 DEF Players
    <3>2. move.player \in Players(0..MaxSteps) BY <1>6, <3>1 DEF Follow, Players
    <3> QED BY <1>2, <2>1, <3>2
  <2>2. CASE /\ ik.pathLength > 0 /\ move.shows \in 0..(ik.pathLength - 1)
             /\ move.shows # NoStep /\ move.player.step = move.shows
    <3>1. move.player.step \in 0..MaxSteps /\ move.shows < ik.pathLength
      BY <1>2, <2>2, CandidatesAssumption
    <3>2. move.player \in Players(0..MaxSteps) BY <1>6, <3>1 DEF Follow, Players
    <3> QED BY <2>2, <3>1, <3>2
  <2> QED BY <1>6, <2>1, <2>2 DEF Follow
<1> HIDE DEF at
<1>9. s \in IKRecord BY <1>1, <1>8 DEF IKRecord
<1>10. /\ s.sets = ik.sets /\ s.visible = ik.visible /\ s.pathLength = ik.pathLength
       /\ s.pathStep = at /\ s.player = move.player /\ s.selectedId = ik.selectedId
       /\ s.isActive = ik.isActive /\ s.result = ik.result /\ s.planName = ik.planName
       /\ s.obstacles = ik.obstacles
  BY <1>1 DEF IKRecord
<1> HIDE DEF s
<1>11. AtItsStep(s) BY <1>1, <1>8, <1>10 DEF AtItsStep
<1>12. OfSelection(s) /\ LeftBehind(s) BY <1>1, <1>10 DEF OfSelection, LeftBehind
<1>13. Steady(s) BY <1>9, <1>11, <1>12 DEF Steady
<1> QED BY <1>1, <1>7, <1>10, <1>13, BecomeSteady

LEMMA ExitSteady ==
  ASSUME IKInv, IK!exit
  PROVE  Steady(ik') /\ ~ik'.isActive /\ RequestsTyped'
<1> DEFINE s == [IK!clear(ik) EXCEPT !.planName = None, !.isActive = FALSE]
           t == [IK!clear(ik) EXCEPT !.planName = None, !.status = "idle",
                                     !.isActive = FALSE]
<1>1. IK!Become(s) BY DEF IK!exit
<1>2. Steady(t) /\ t.isActive = FALSE
  BY ClearedSteady DEF IKInv, Steady
<1>3. s = t
  <2> DEFINE c == [IK!teardownScene(ik) EXCEPT !.result = None, !.selectedId = None,
                                               !.status = "idle"]
  <2>1. IK!clear(ik) = c BY DEF IK!clear
  <2>2. c.status = "idle" \/ "status" \notin DOMAIN c OBVIOUS
  <2> HIDE DEF c
  <2>3. [c EXCEPT !.planName = None, !.isActive = FALSE]
          = [c EXCEPT !.planName = None, !.status = "idle", !.isActive = FALSE]
    BY <2>2
  <2> QED BY <2>1, <2>3
<1> HIDE DEF s, t
<1> QED BY <1>1, <1>2, <1>3, BecomeSteady DEF IKInv

LEMMA InspectSteady ==
  ASSUME IKInv, NEW name \in Files, IK!inspect(name)
  PROVE  Steady(ik') /\ RequestsTyped'
<1>1. Steady(ik')
  <2>1. ik' = [IK!clear(ik) EXCEPT !.planName = name, !.status = "loading",
                                   !.isActive = TRUE]
    BY DEF IK!inspect
  <2>2. ik \in IKRecord BY DEF IKInv, Steady
  <2> QED BY <2>1, <2>2, ClearedSteady
<1>2. asked + 1 \in 1..MaxRequests /\ asked' \in 0..MaxRequests
  BY CandidatesAssumption DEF IK!inspect, IKInv, RequestsTyped
<1>3. requests' \subseteq [number : 1..MaxRequests, name : Files]
  BY <1>2 DEF IK!inspect, IKInv, RequestsTyped
<1> QED BY <1>1, <1>2, <1>3 DEF RequestsTyped

\* An answer that is late is dropped, any other is of the plan shown.
LEMMA AnswerSteady ==
  ASSUME IKInv, NEW request \in requests, IK!Resolved(request) \/ IK!Rejected(request)
  PROVE  Steady(ik') /\ ik'.isActive = ik.isActive /\ RequestsTyped'
<1>1. ik \in IKRecord /\ AtItsStep(ik) /\ OfSelection(ik) /\ LeftBehind(ik) /\ Steady(ik)
  BY DEF IKInv, Steady
<1>2. RequestsTyped'
  BY DEF IKInv, RequestsTyped, IK!Resolved, IK!Rejected, IK!Answered
<1>3. CASE ik' = ik BY <1>1, <1>2, <1>3
<1>4. CASE IK!Rejected(request) /\ ~IK!isStale(request)
  <2>1. ik' = [ik EXCEPT !.status = "error"] BY <1>4 DEF IK!Rejected
  <2>2. ik' \in IKRecord BY <1>1, <2>1 DEF IKRecord
  <2>3. /\ ik'.sets = ik.sets /\ ik'.visible = ik.visible /\ ik'.pathLength = ik.pathLength
        /\ ik'.pathStep = ik.pathStep /\ ik'.player = ik.player
        /\ ik'.selectedId = ik.selectedId /\ ik'.isActive = ik.isActive
        /\ ik'.result = ik.result /\ ik'.planName = ik.planName
        /\ ik'.obstacles = ik.obstacles
    BY <1>1, <2>1 DEF IKRecord
  <2>4. AtItsStep(ik') BY <1>1, <2>3 DEF AtItsStep
  <2>5. OfSelection(ik') /\ LeftBehind(ik') BY <1>1, <2>3 DEF OfSelection, LeftBehind
  <2> QED BY <1>2, <2>2, <2>3, <2>4, <2>5 DEF Steady
<1>5. CASE IK!Resolved(request) /\ ~IK!isStale(request)
  <2>1. PICK hasStart \in BOOLEAN, obstacles \in BOOLEAN :
          ik' = [IK!ensureObstacles(
                   [ik EXCEPT !.result = [number |-> request.number, name |-> request.name,
                                          hasStart |-> hasStart, obstacles |-> obstacles]])
                 EXCEPT !.status = "ready"]
    BY <1>5 DEF IK!Resolved
  <2> DEFINE result == [number |-> request.number, name |-> request.name,
                        hasStart |-> hasStart, obstacles |-> obstacles]
             s == [ik EXCEPT !.result = result]
             e == IK!ensureObstacles(s)
  <2>2. ik' = [e EXCEPT !.status = "ready"] BY <2>1
  <2>3. result \in IK!Results /\ result.name = request.name
    BY DEF IK!Results, IKInv, RequestsTyped
  <2>4. ik.isActive /\ ik.planName = request.name BY <1>5 DEF IK!isStale
  <2> HIDE DEF result
  <2>5. s \in IKRecord
    <3>1. ik \in IKRecord BY <1>1
    <3> QED BY <2>3, <3>1 DEF IKRecord
  <2>6. /\ s.sets = ik.sets /\ s.visible = ik.visible /\ s.pathLength = ik.pathLength
        /\ s.pathStep = ik.pathStep /\ s.player = ik.player /\ s.selectedId = ik.selectedId
        /\ s.isActive = ik.isActive /\ s.result = result /\ s.planName = ik.planName
    BY <1>1 DEF IKRecord
  <2>7. e = s \/ e = [s EXCEPT !.obstacles = result] BY <2>6 DEF IK!ensureObstacles
  <2> HIDE DEF s, e
  <2>8. /\ e \in IKRecord /\ e.sets = s.sets /\ e.visible = s.visible
        /\ e.pathLength = s.pathLength /\ e.pathStep = s.pathStep /\ e.player = s.player
        /\ e.selectedId = s.selectedId /\ e.isActive = s.isActive
        /\ e.result = s.result /\ e.planName = s.planName
    <3>1. CASE e = s BY <2>5, <3>1
    <3>2. CASE e = [s EXCEPT !.obstacles = result]
      <4>1. e \in IKRecord BY <2>3, <2>5, <3>2 DEF IKRecord
      <4> QED BY <2>5, <3>2, <4>1 DEF IKRecord
    <3> QED BY <2>7, <3>1, <3>2
  <2>9. ik' \in IKRecord
    <3>1. e \in IKRecord BY <2>8
    <3> QED BY <2>2, <3>1 DEF IKRecord
  <2>10. /\ ik'.sets = e.sets /\ ik'.visible = e.visible /\ ik'.pathLength = e.pathLength
         /\ ik'.pathStep = e.pathStep /\ ik'.player = e.player
         /\ ik'.selectedId = e.selectedId /\ ik'.isActive = e.isActive
         /\ ik'.result = e.result /\ ik'.planName = e.planName
    <3>1. e \in IKRecord BY <2>8
    <3> QED BY <2>2, <3>1 DEF IKRecord
  <2>11. /\ ik'.sets = ik.sets /\ ik'.visible = ik.visible /\ ik'.pathLength = ik.pathLength
         /\ ik'.pathStep = ik.pathStep /\ ik'.player = ik.player
         /\ ik'.selectedId = ik.selectedId
         /\ ik'.isActive = ik.isActive /\ ik'.result = result
         /\ ik'.planName = ik.planName
    BY <2>6, <2>8, <2>10
  <2>12. AtItsStep(ik') BY <1>1, <2>11 DEF AtItsStep
  <2>13. OfSelection(ik') BY <1>1, <2>11 DEF OfSelection
  <2>14. LeftBehind(ik') BY <2>3, <2>4, <2>11 DEF LeftBehind
  <2> QED BY <1>2, <2>9, <2>11, <2>12, <2>13, <2>14 DEF Steady
<1>6. ik' = ik \/ ~IK!isStale(request) BY DEF IK!Resolved, IK!Rejected
<1> QED BY <1>3, <1>4, <1>5, <1>6

LEMMA IKInit ==
  ASSUME Init
  PROVE  IKInv
<1>1. /\ requests = {} /\ asked = 0
      /\ ik = [isActive |-> FALSE, status |-> "idle", planName |-> None,
               result |-> None, selectedId |-> None, visible |-> IK!Kinds,
               sets |-> IK!NoSets, obstacles |-> None, pathSteps |-> DefaultSteps,
               pathLength |-> 0, pathStep |-> NoStep, player |-> Resting]
  BY DEF Init, IK!Init, IK!NoStep, NoStep, IK!Resting, Resting
<1>2. ik \in IKRecord
  <2>1. DefaultSteps \in MinSteps..MaxSteps BY CandidatesAssumption
  <2> QED BY <1>1, <2>1, NoSetsTyped, RestingInside DEF IKRecord
<1>3. /\ ik.sets = IK!NoSets /\ ik.pathLength = 0 /\ ~ik.isActive
      /\ ik.obstacles = None /\ ik.result = None
  BY <1>1
<1>4. \A kind \in IK!Kinds : ik.sets[kind] = None BY <1>3, NoSetsTyped
<1>5. AtItsStep(ik) BY <1>3, <1>4, PathInKinds DEF AtItsStep
<1>6. OfSelection(ik) /\ LeftBehind(ik) BY <1>3, <1>4 DEF OfSelection, LeftBehind
<1>7. RequestsTyped BY <1>1, CandidatesAssumption DEF RequestsTyped
<1> QED BY <1>2, <1>3, <1>5, <1>6, <1>7 DEF IKInv, Steady

\* The inspection is steady after every step of the panel.
LEMMA IKKept ==
  ASSUME PlansInv, IKInv, [Next]_vars
  PROVE  IKInv'
<1>1. ASSUME UNCHANGED ikVars, mounted' = mounted \/ mounted' PROVE IKInv'
  BY <1>1 DEF IKInv, RequestsTyped, ikVars
<1>2. CASE UNCHANGED vars
  BY <1>1, <1>2 DEF vars, panel
<1>3. CASE \E file \in Files : ChooseFile(file)
  BY <1>1, <1>3 DEF ChooseFile
<1>4. CASE \E u \in uploads : FileRead(u) \/ FileResolved(u) \/ FileFailed(u)
  BY <1>1, <1>4 DEF FileRead, FileResolved, FileFailed
<1>5. CASE \E i \in DOMAIN plans : ClickPlan(i) \/ ClickRemove(i)
  BY <1>1, <1>5 DEF ClickPlan, ClickRemove, panel
<1>6. CASE ReplayScrubbed \/ ReplayTicks
  BY <1>1, <1>6 DEF ReplayScrubbed, ReplayTicks, panel
<1>7. CASE Mount
  BY <1>1, <1>7 DEF Mount
<1>8. CASE \E i \in DOMAIN plans : ClickInspect(i)
  <2>1. PICK i \in DOMAIN plans : ClickInspect(i) BY <1>8
  <2>2. plans[i] \in PlanType
    <3>1. plans \in Seq(PlanType) BY DEF PlansInv, Sound, Listing, Plans!State
    <3> HIDE DEF PlanType
    <3> QED BY <3>1
  <2>3. plans[i].file \in Files BY <2>2 DEF PlanType
  <2> QED BY <2>1, <2>3, InspectSteady DEF ClickInspect, Listed, panel, IKInv
<1>9. CASE ClickBack
  BY <1>9, ExitSteady DEF ClickBack, panel, IKInv
<1>10. CASE \E id \in Candidates : ClickCandidate(id)
  BY <1>10, SelectSteady DEF ClickCandidate, Inspecting, panel, IKInv
<1>11. CASE \E kind \in Toggled : TogglePose(kind)
  <2>1. PICK kind \in Toggled : TogglePose(kind) BY <1>11
  <2>2. kind \in IK!Kinds BY PanelAssumption DEF IK!Kinds
  <2>3. /\ ik.isActive /\ mounted /\ UNCHANGED panel
        /\ IK!setPoseVisible(kind, kind \notin ik.visible)
    BY <2>1 DEF TogglePose, Detail, Inspecting
  <2>4. (kind \notin ik.visible) \in BOOLEAN OBVIOUS
  <2>5. Steady(ik') /\ ik'.isActive /\ RequestsTyped' BY <2>2, <2>3, <2>4, ToggleSteady
  <2> QED BY <2>3, <2>5 DEF IKInv, panel
<1>12. CASE \E steps \in MinSteps..MaxSteps : ChangeSteps(steps)
  BY <1>12, StepsSteady DEF ChangeSteps, Detail, Inspecting, panel, IKInv
<1>13. CASE PathScrubbed \/ PathTicks
  BY <1>13, PathPlaybackSteady DEF PathScrubbed, PathTicks, panel, IKInv
<1>14. CASE \E request \in requests : Answer(request)
  BY <1>14, AnswerSteady DEF Answer, panel, IKInv
<1>15. CASE Unmount
  BY <1>15, ExitSteady DEF Unmount, IKInv
<1> QED
  BY <1>2, <1>3, <1>4, <1>5, <1>6, <1>7, <1>8, <1>9, <1>10, <1>11, <1>12, <1>13, <1>14, <1>15
  DEF Next

\* What the theorems say of the inspection.
LEMMA IKInvSays ==
  ASSUME IKInv
  PROVE  IK!TypeOK /\ InspectionFollowsPanel /\ InspectionLeavesNothing
<1>1. /\ ik \in IKRecord /\ AtItsStep(ik) /\ OfSelection(ik) /\ LeftBehind(ik)
      /\ RequestsTyped /\ (~mounted => ~ik.isActive)
  BY DEF IKInv, Steady
<1>2. IK!TypeOK
  <2>1. NoStep = IK!NoStep BY DEF NoStep, IK!NoStep
  <2>2. Players(0..MaxSteps) = IK!Players(0..MaxSteps) BY DEF Players, IK!Players
  <2> QED BY <1>1, <2>1, <2>2 DEF IK!TypeOK, IKRecord, RequestsTyped
<1>3. \A kind \in IK!Kinds : kind \in IK!InScene <=> ik.sets[kind] # None
  BY DEF IK!InScene
<1>4. InspectionFollowsPanel
  BY <1>1, <1>3 DEF InspectionFollowsPanel, IK!PathAtItsStep, IK!SetsOfSelection,
                    IK!InScene, AtItsStep, OfSelection
<1>5. InspectionLeavesNothing
  BY <1>1, <1>3 DEF InspectionLeavesNothing, IK!AnswerIsForPlanShown, IK!InScene, LeftBehind
<1> QED BY <1>2, <1>4, <1>5

---------------------------------------------------------------------------
(* The theorems.                                                           *)

\* The inductive invariant: the plans, the panel and the inspection.
Inv == PlansInv /\ PanelTyped /\ IKInv

THEOREM InvCorrect == Spec => []Inv
<1>1. Init => Inv
  <2>1. Init => PanelTyped BY PanelAssumption DEF Init, PanelTyped
  <2> QED BY <2>1, PlansInit, IKInit DEF Inv
<1>2. Inv /\ [Next]_vars => Inv' BY PlansKept, IKKept DEF Inv
<1> QED BY <1>1, <1>2, PTL DEF Spec

\* The plans, the player, the inspection and the panel keep their types
\* (TypeOK of ReplayPanel, of the replayer and of the inspection).
THEOREM ReplayTypes == Spec => []TypeOK
<1>1. Inv => TypeOK BY PlansInvSays, IKInvSays DEF Inv, TypeOK, PanelTyped
<1> QED BY <1>1, InvCorrect, PTL

\* The screen shows the step of the active plan, and snapshots are kept of
\* exactly the listed plans that are ready, for any files, uploads, selections,
\* removals and playback (useMotionPlanReplayer.svelte.ts).
THEOREM PlansAlwaysAgree == Spec => []PlansAgree
<1>1. Inv => PlansAgree BY PlansInvSays DEF Inv
<1> QED BY <1>1, InvCorrect, PTL

\* The path is at the step of its player and every set is of the selected
\* candidate, shown as its toggle says, for any candidates, resolutions and
\* order of answers (useIKInspection.svelte.ts).
THEOREM InspectionsFollow == Spec => []InspectionFollowsPanel
<1>1. Inv => InspectionFollowsPanel BY IKInvSays DEF Inv
<1> QED BY <1>1, InvCorrect, PTL

\* However late an answer, an inspection that was left has nothing in the scene, and
\* what is listed is of the plan named (isStale, the teardown of the panel).
THEOREM InspectionsLeaveNothing == Spec => []InspectionLeavesNothing
<1>1. Inv => InspectionLeavesNothing BY IKInvSays DEF Inv
<1> QED BY <1>1, InvCorrect, PTL

=============================================================================
