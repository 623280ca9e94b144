-------------------------- MODULE MovePanelsProofs --------------------------
(***************************************************************************)
(* For any frames, goals, options and trajectories: one move at a time, a  *)
(* plan on offer is for what its panel shows, and none survives a move of  *)
(* its panel. Then the types and the twins, where of the division of a     *)
(* trajectory it matters that playback starts at the first waypoint.       *)
(***************************************************************************)
EXTENDS MovePanels, FiniteSetTheorems, SequenceTheorems, TLAPS

PanelShape(p) ==
    p = [open |-> p.open, goal |-> p.goal, status |-> p.status, plan |-> p.plan,
         detail |-> p.detail, player |-> p.player]

Types ==
    /\ panels = [f \in Frames |-> panels[f]]
    /\ \A f \in Frames : PanelShape(panels[f]) /\ panels[f].goal \in Goals \cup {None}
    /\ options \in [Frames -> Options] /\ parts \in Parts
    /\ movingFrame \in Frames \cup {None}
    /\ requests \subseteq Requests /\ moves \subseteq Moves

\* A request that is waited for is the one of its panel, and for what the
\* panel shows.
Waited ==
    /\ \A r \in requests : r.current =>
        /\ panels[r.frame].open /\ panels[r.frame].status = "planning"
        /\ r.goal = panels[r.frame].goal /\ r.options = options[r.frame] /\ r.parts = parts
        /\ r.frame \notin r.overtakenBy
    /\ \A r, s \in requests : r.current /\ s.current /\ r.frame = s.frame => r = s

Offered ==
    \A f \in Frames : panels[f].open /\ panels[f].status = "ready" =>
        /\ panels[f].plan \in Plans
        /\ panels[f].plan.goal = panels[f].goal
        /\ panels[f].plan.options = options[f] /\ panels[f].plan.parts = parts
        /\ movingFrame # f => f \notin panels[f].plan.overtakenBy

\* While it moves a panel has no preview but the one it executes.
Owned ==
    /\ IF movingFrame = None THEN moves = {} ELSE \E m \in moves : moves = {m}
    /\ \A m \in moves :
        /\ m.frame = movingFrame
        /\ m.mounted => panels[m.frame].open /\ panels[m.frame].goal = m.goal
        /\ ~m.mounted \/ m.kind = "move" => panels[m.frame].status \notin {"ready", "planning"}
        /\ panels[m.frame].status # "planning"

Inv == Types /\ Waited /\ Offered /\ Owned

---------------------------------------------------------------------------
LEMMA ResetPreviewPanel ==
    ASSUME NEW p, PanelShape(p)
    PROVE  /\ PanelShape(resetPreview(p))
           /\ resetPreview(p).open = p.open /\ resetPreview(p).goal = p.goal
<1>. DEFINE q == [p EXCEPT !.plan = None]
<1>1. PanelShape(q) /\ q.open = p.open /\ q.goal = p.goal
  BY DEF PanelShape
<1>2. resetPreview(p) = [q EXCEPT !.player = Resting]
  BY DEF resetPreview
<1>. HIDE DEF q
<1>. QED  BY <1>1, <1>2 DEF PanelShape

LEMMA SettledPanel ==
    ASSUME NEW p, PanelShape(p), NEW status
    PROVE  /\ PanelShape(settle(p, status))
           /\ settle(p, status).open = p.open /\ settle(p, status).goal = p.goal
           /\ settle(p, status).status = status
<1>. DEFINE q == resetPreview(p)
<1>1. PanelShape(q) /\ q.open = p.open /\ q.goal = p.goal
  BY ResetPreviewPanel
<1>2. settle(p, status) = [q EXCEPT !.status = status]
  BY DEF settle
<1>. HIDE DEF q
<1>. QED  BY <1>1, <1>2 DEF PanelShape

LEMMA ClearedPanel ==
    ASSUME NEW p, PanelShape(p)
    PROVE  /\ PanelShape(clear(p))
           /\ clear(p).open = p.open /\ clear(p).goal = p.goal /\ clear(p).status = "idle"
<1>1. clear(p) = settle(p, "idle")
  BY DEF clear, settle
<1>. QED  BY <1>1, SettledPanel

LEMMA InvalidatedPanel ==
    ASSUME NEW p, PanelShape(p)
    PROVE  /\ PanelShape(invalidateOn(p))
           /\ invalidateOn(p).open = p.open /\ invalidateOn(p).goal = p.goal
           /\ invalidateOn(p).status = "idle"
  BY ClearedPanel DEF invalidateOn

LEMMA GoalPanel ==
    ASSUME NEW p, PanelShape(p), NEW goal
    PROVE  /\ PanelShape([p EXCEPT !.goal = goal])
           /\ [p EXCEPT !.goal = goal].open = p.open
           /\ [p EXCEPT !.goal = goal].goal = goal
           /\ [p EXCEPT !.goal = goal].status = p.status
  BY DEF PanelShape

LEMMA OpenPanel ==
    ASSUME NEW p, PanelShape(p), NEW open
    PROVE  PanelShape([p EXCEPT !.open = open])
  BY DEF PanelShape

\* resetTarget leaves an idle panel without a goal.
LEMMA ResetPanel ==
    ASSUME NEW p, PanelShape(p)
    PROVE  /\ PanelShape(resetTarget(p)) /\ resetTarget(p).open = p.open
           /\ resetTarget(p).goal = None /\ resetTarget(p).status = "idle"
<1>. DEFINE q == [p EXCEPT !.goal = None]
<1>1. PanelShape(q) /\ q.open = p.open /\ q.goal = None
  BY GoalPanel
<1>2. resetTarget(p) = clear(q)
  BY DEF resetTarget
<1>. HIDE DEF q
<1>. QED  BY <1>1, <1>2, ClearedPanel

\* What most steps do: the previews and requests of some panels are dropped,
\* the other panels are left as they are.
LEMMA DroppedKeeps ==
    ASSUME Inv,
           NEW fs \in SUBSET Frames,
           Types',
           \A f \in fs : panels'[f].status \notin {"ready", "planning"},
           \A f \in Frames \ fs : panels'[f] = panels[f] /\ options'[f] = options[f],
           parts' = parts \/ \A f \in Frames : panels[f].open => f \in fs,
           \A s \in requests' : s.current => s \in requests /\ s.frame \in Frames \ fs,
           \A f \in Frames \ fs : movingFrame = f =>
                movingFrame' = f \/ panels[f].status \notin {"ready", "planning"}
    PROVE  Waited' /\ Offered'
<1>2. Waited'
  BY DEF Inv, Types, Waited, Requests
<1>3. Offered'
  BY DEF Inv, Types, Offered
<1>. QED  BY <1>2, <1>3

LEMMA OneDropped ==
    ASSUME Inv, NEW f \in Frames, Types',
           panels'[f].status \notin {"ready", "planning"},
           \A g \in Frames \ {f} : panels'[g] = panels[g] /\ options'[g] = options[g],
           parts' = parts,
           \A s \in requests' : s.current => s \in requests /\ s.frame # f,
           \A g \in Frames \ {f} : movingFrame = g =>
                movingFrame' = g \/ panels[g].status \notin {"ready", "planning"}
    PROVE  Waited' /\ Offered'
<1>1. \A s \in requests' : s.frame \in Frames
  BY DEF Types, Requests
<1>2. Waited'
  BY <1>1 DEF Inv, Types, Waited, Requests
<1>3. Offered'
  BY DEF Inv, Types, Offered
<1>. QED  BY <1>2, <1>3

\* Requests of dropped panels are still requests.
LEMMA AbandonTypes ==
    ASSUME Types, NEW fs, Abandon(fs)
    PROVE  /\ requests' \subseteq Requests
           /\ \A s \in requests' : s.current => s \in requests /\ s.frame \in Frames \ fs
  BY DEF Types, Abandon, Requests

LEMMA SelectKeeps ==
    ASSUME Inv, NEW selected \in SUBSET Frames, Select(selected)
    PROVE  Inv'
<1>. DEFINE fresh == selected \ Opened
            gone == Opened \ selected
            fs == fresh \cup gone
<1>0. /\ panels' = [f \in Frames |-> IF f \in fresh THEN Mounted(panels[f])
                                     ELSE IF f \in gone THEN Unmounted(panels[f])
                                     ELSE panels[f]]
      /\ Abandon(gone)
      /\ moves' = {IF m.frame \in gone THEN [m EXCEPT !.mounted = FALSE] ELSE m : m \in moves}
      /\ UNCHANGED <<movingFrame, options, parts>>
  BY DEF Select
<1>1. fs \in SUBSET Frames /\ fresh \cap gone = {} /\ fresh \subseteq Frames \ Opened /\ gone \subseteq Opened
  BY DEF Opened
<1>2. \A f \in Frames :
        /\ PanelShape(Mounted(panels[f])) /\ PanelShape(Unmounted(panels[f]))
        /\ Mounted(panels[f]).goal = None /\ Unmounted(panels[f]).goal = None
        /\ Mounted(panels[f]).status = "idle" /\ Unmounted(panels[f]).status = "idle"
  <2>. SUFFICES ASSUME NEW f \in Frames
                PROVE  /\ PanelShape(Mounted(panels[f])) /\ PanelShape(Unmounted(panels[f]))
                       /\ Mounted(panels[f]).goal = None /\ Unmounted(panels[f]).goal = None
                       /\ Mounted(panels[f]).status = "idle" /\ Unmounted(panels[f]).status = "idle"
    OBVIOUS
  <2>. DEFINE q == resetPreview(panels[f])
  <2>1. PanelShape(q)
    BY ResetPreviewPanel DEF Inv, Types
  <2>2. Unmounted(panels[f]) = [[[q EXCEPT !.open = FALSE] EXCEPT !.goal = None] EXCEPT !.status = "idle"]
    BY DEF Unmounted
  <2>. HIDE DEF q
  <2>3. PanelShape([q EXCEPT !.open = FALSE])
    BY <2>1, OpenPanel
  <2>4. PanelShape([[q EXCEPT !.open = FALSE] EXCEPT !.goal = None])
    BY <2>3, GoalPanel
  <2>5. /\ PanelShape(Unmounted(panels[f]))
        /\ Unmounted(panels[f]).goal = None /\ Unmounted(panels[f]).status = "idle"
    BY <2>2, <2>4 DEF PanelShape
  <2>. QED  BY <2>5 DEF Mounted, PanelShape
<1>3. moves' \subseteq Moves
  BY <1>0 DEF Inv, Types, Moves
<1>4. Types'
  BY <1>0, <1>1, <1>2, <1>3, AbandonTypes DEF Inv, Types
<1>5. \A s \in requests' : s.current => s \in requests /\ s.frame \in Frames \ fs
  BY <1>0, <1>1, AbandonTypes DEF Inv, Waited, Opened
<1>6. \A f \in fs : panels'[f].status = "idle"
  BY <1>0, <1>1, <1>2
<1>7. \A f \in Frames \ fs : panels'[f] = panels[f] /\ options'[f] = options[f]
  BY <1>0
<1>8. Waited' /\ Offered'
  <2>. HIDE DEF fs
  <2>. QED  BY <1>0, <1>1, <1>4, <1>5, <1>6, <1>7, DroppedKeeps
<1>9. Owned'
  <2>1. \A m \in moves' : \E n \in moves :
            /\ m.frame = n.frame /\ m.kind = n.kind /\ m.goal = n.goal
            /\ IF n.frame \in gone THEN m.mounted = FALSE ELSE m = n
    BY <1>0 DEF Inv, Types, Moves
  <2>2. \A n \in moves : n.frame \in fresh => ~n.mounted
    BY <1>1 DEF Inv, Owned, Opened
  <2>3. IF movingFrame' = None THEN moves' = {} ELSE \E m \in moves' : moves' = {m}
    <3>1. CASE movingFrame = None
      BY <1>0, <3>1 DEF Inv, Owned
    <3>2. CASE movingFrame # None
      <4>1. PICK m \in moves : moves = {m}
        BY <3>2 DEF Inv, Owned
      <4>2. moves' = {IF m.frame \in gone THEN [m EXCEPT !.mounted = FALSE] ELSE m}
        BY <1>0, <4>1
      <4>. QED  BY <1>0, <3>2, <4>2
    <3>. QED  BY <3>1, <3>2
  <2>4. \A m \in moves' :
          /\ m.frame = movingFrame'
          /\ m.mounted => panels'[m.frame].open /\ panels'[m.frame].goal = m.goal
          /\ ~m.mounted \/ m.kind = "move" => panels'[m.frame].status \notin {"ready", "planning"}
          /\ panels'[m.frame].status # "planning"
    <3>. SUFFICES ASSUME NEW m \in moves', NEW n \in moves,
                         m.frame = n.frame, m.kind = n.kind, m.goal = n.goal,
                         IF n.frame \in gone THEN m.mounted = FALSE ELSE m = n
                  PROVE  /\ m.frame = movingFrame'
                         /\ m.mounted => panels'[m.frame].open /\ panels'[m.frame].goal = m.goal
                         /\ ~m.mounted \/ m.kind = "move" => panels'[m.frame].status \notin {"ready", "planning"}
                         /\ panels'[m.frame].status # "planning"
      BY <2>1
    <3>1. n.frame \in Frames
      BY DEF Inv, Types, Moves
    <3>2. CASE n.frame \in fs
      BY <3>1, <3>2, <2>2, <1>0, <1>6 DEF Inv, Owned
    <3>3. CASE n.frame \notin fs
      BY <3>1, <3>3, <1>0, <1>7 DEF Inv, Owned
    <3>. QED  BY <3>2, <3>3
  <2>. QED  BY <2>3, <2>4 DEF Owned
<1>. QED  BY <1>4, <1>8, <1>9 DEF Inv

\* Steps that make panels `fs` idle and keep open, goal and moves.
LEMMA InvalidatedKeeps ==
    ASSUME Inv, NEW fs \in SUBSET Frames, NEW goals,
           panels' = [f \in Frames |-> IF f \in fs THEN invalidateOn([panels[f] EXCEPT !.goal = goals[f]])
                                       ELSE panels[f]],
           \A f \in fs : goals[f] \in Goals \cup {None}
    PROVE  /\ panels' = [f \in Frames |-> panels'[f]]
           /\ \A f \in Frames : PanelShape(panels'[f]) /\ panels'[f].goal \in Goals \cup {None}
           /\ \A f \in Frames : panels'[f].open = panels[f].open
           /\ \A f \in fs : panels'[f].status = "idle" /\ panels'[f].goal = goals[f]
           /\ \A f \in Frames \ fs : panels'[f] = panels[f]
<1>1. \A f \in Frames : PanelShape(panels[f]) /\ panels[f].goal \in Goals \cup {None}
  BY DEF Inv, Types
<1>2. \A f \in fs :
        /\ PanelShape(invalidateOn([panels[f] EXCEPT !.goal = goals[f]]))
        /\ invalidateOn([panels[f] EXCEPT !.goal = goals[f]]).open = panels[f].open
        /\ invalidateOn([panels[f] EXCEPT !.goal = goals[f]]).goal = goals[f]
        /\ invalidateOn([panels[f] EXCEPT !.goal = goals[f]]).status = "idle"
  <2>. SUFFICES ASSUME NEW f \in fs, NEW q, q = [panels[f] EXCEPT !.goal = goals[f]]
                PROVE  /\ PanelShape(invalidateOn(q)) /\ invalidateOn(q).open = panels[f].open
                       /\ invalidateOn(q).goal = goals[f] /\ invalidateOn(q).status = "idle"
    OBVIOUS
  <2>1. PanelShape(q) /\ q.open = panels[f].open /\ q.goal = goals[f]
    BY <1>1, GoalPanel
  <2>. QED  BY <2>1, InvalidatedPanel
<1>. QED  BY <1>1, <1>2

\* The moving frame is the frame of a move.
LEMMA MovingHasMove ==
    ASSUME Inv
    PROVE  /\ movingFrame # None => \E m \in moves : m.frame = movingFrame
           /\ movingFrame = None => moves = {}
  BY DEF Inv, Owned

LEMMA OwnedKept ==
    ASSUME Inv, UNCHANGED <<moves, movingFrame>>,
           \A f \in Frames : movingFrame = f =>
                /\ panels'[f].open = panels[f].open /\ panels'[f].goal = panels[f].goal
                /\ panels'[f].status \in {panels[f].status, "idle"}
    PROVE  Owned'
  BY DEF Inv, Owned, Types, Moves

LEMMA StageKeeps ==
    ASSUME Inv, NEW f \in Frames, NEW goal \in Goals, stagePose(f, goal)
    PROVE  Inv'
<1>. DEFINE goals == [g \in Frames |-> goal]
<1>1. panels' = [g \in Frames |-> IF g \in {f} THEN invalidateOn([panels[g] EXCEPT !.goal = goals[g]])
                                 ELSE panels[g]]
  BY DEF stagePose, Invalidated, Inv, Types
<1>2. /\ panels' = [g \in Frames |-> panels'[g]]
      /\ \A g \in Frames : PanelShape(panels'[g]) /\ panels'[g].goal \in Goals \cup {None}
      /\ panels'[f].status = "idle" /\ \A g \in Frames \ {f} : panels'[g] = panels[g]
  <2>. HIDE DEF goals
  <2>1. \A g \in {f} : goals[g] \in Goals \cup {None}
    BY DEF goals
  <2>. QED  BY <1>1, <2>1, InvalidatedKeeps
<1>3. Abandon({f}) /\ movingFrame # f /\ UNCHANGED <<movingFrame, options, parts, moves>>
  BY DEF stagePose, Invalidated
<1>4. requests' \subseteq Requests /\ \A s \in requests' : s.current => s \in requests /\ s.frame \in Frames \ {f}
  BY <1>3, AbandonTypes DEF Inv
<1>5. Types'
  BY <1>2, <1>3, <1>4 DEF Inv, Types
<1>6. Waited' /\ Offered'
  BY <1>2, <1>3, <1>4, <1>5, DroppedKeeps
<1>7. Owned'
  BY <1>2, <1>3, OwnedKept
<1>. QED  BY <1>5, <1>6, <1>7 DEF Inv

LEMMA OptionsKeeps ==
    ASSUME Inv, NEW f \in Frames, NEW o \in Options, ChangeOptions(f, o)
    PROVE  Inv'
<1>0. \A g \in Frames : [panels[g] EXCEPT !.goal = panels[g].goal] = panels[g]
  BY DEF Inv, Types, PanelShape
<1>. DEFINE goals == [g \in Frames |-> panels[g].goal]
<1>1. panels' = [g \in Frames |-> IF g \in {f} THEN invalidateOn([panels[g] EXCEPT !.goal = goals[g]])
                                 ELSE panels[g]]
  BY <1>0 DEF ChangeOptions, Invalidated, Inv, Types
<1>2. /\ panels' = [g \in Frames |-> panels'[g]]
      /\ \A g \in Frames : PanelShape(panels'[g]) /\ panels'[g].goal \in Goals \cup {None}
      /\ panels'[f].status = "idle" /\ panels'[f].open = panels[f].open
      /\ panels'[f].goal = panels[f].goal
      /\ \A g \in Frames \ {f} : panels'[g] = panels[g]
  <2>1. \A g \in {f} : goals[g] \in Goals \cup {None} /\ goals[g] = panels[g].goal
    BY DEF Inv, Types
  <2>. HIDE DEF goals
  <2>2. /\ panels' = [g \in Frames |-> panels'[g]]
        /\ \A g \in Frames : PanelShape(panels'[g]) /\ panels'[g].goal \in Goals \cup {None}
        /\ \A g \in Frames : panels'[g].open = panels[g].open
        /\ \A g \in {f} : panels'[g].status = "idle" /\ panels'[g].goal = goals[g]
        /\ \A g \in Frames \ {f} : panels'[g] = panels[g]
    BY <1>1, <2>1, InvalidatedKeeps
  <2>. QED  BY <2>1, <2>2
<1>3. /\ Abandon({f}) /\ UNCHANGED <<movingFrame, parts, moves>>
      /\ options' = [options EXCEPT ![f] = o]
  BY DEF ChangeOptions, Invalidated
<1>4. requests' \subseteq Requests /\ \A s \in requests' : s.current => s \in requests /\ s.frame \in Frames \ {f}
  BY <1>3, AbandonTypes DEF Inv
<1>5. Types'
  BY <1>2, <1>3, <1>4 DEF Inv, Types
<1>6. Waited' /\ Offered'
  <2>1. \A g \in Frames \ {f} : options'[g] = options[g]
    BY <1>3 DEF Inv, Types
  <2>. QED  BY <1>2, <1>3, <1>4, <1>5, <2>1, DroppedKeeps
<1>7. Owned'
  BY <1>2, <1>3, OwnedKept
<1>. QED  BY <1>5, <1>6, <1>7 DEF Inv

LEMMA RefetchKeeps ==
    ASSUME Inv, NEW ps \in Parts, Refetch(ps)
    PROVE  Inv'
<1>. SUFFICES ASSUME NEW os \in SUBSET Frames, os = Opened
              PROVE  Inv'
  BY DEF Opened
<1>1. panels' = [g \in Frames |-> IF g \in os THEN invalidateOn(panels[g]) ELSE panels[g]]
  BY DEF Refetch, Invalidated
<1>2. /\ panels' = [g \in Frames |-> panels'[g]]
      /\ \A g \in Frames : PanelShape(panels'[g]) /\ panels'[g].goal \in Goals \cup {None}
      /\ \A g \in os : /\ panels'[g].status = "idle" /\ panels'[g].open = panels[g].open
                       /\ panels'[g].goal = panels[g].goal
      /\ \A g \in Frames \ os : panels'[g] = panels[g]
  <2>1. \A g \in Frames : PanelShape(panels[g]) /\ panels[g].goal \in Goals \cup {None}
    BY DEF Inv, Types
  <2>2. \A g \in Frames : /\ PanelShape(invalidateOn(panels[g]))
                          /\ invalidateOn(panels[g]).open = panels[g].open
                          /\ invalidateOn(panels[g]).goal = panels[g].goal
                          /\ invalidateOn(panels[g]).status = "idle"
    BY <2>1, InvalidatedPanel
  <2>. QED  BY <1>1, <2>1, <2>2
<1>3. Abandon(os) /\ UNCHANGED <<movingFrame, options, moves>> /\ parts' = ps
  BY DEF Refetch, Invalidated
<1>4. requests' \subseteq Requests /\ \A s \in requests' : s.current => s \in requests /\ s.frame \in Frames \ os
  BY <1>3, AbandonTypes DEF Inv
<1>5. Types'
  BY <1>2, <1>3, <1>4 DEF Inv, Types
<1>6. Waited' /\ Offered'
  <2>1. \A g \in Frames : panels[g].open => g \in os
    BY DEF Opened
  <2>. QED  BY <1>2, <1>3, <1>4, <1>5, <2>1, DroppedKeeps
<1>7. Owned'
  BY <1>2, <1>3, OwnedKept
<1>. QED  BY <1>5, <1>6, <1>7 DEF Inv

---------------------------------------------------------------------------
LEMMA RequestKeeps ==
    ASSUME Inv, NEW f \in Frames, requestPreview(f)
    PROVE  Inv'
<1>. DEFINE asked == [frame |-> f, current |-> TRUE, goal |-> panels[f].goal, options |-> options[f],
                      parts |-> parts, overtakenBy |-> {}]
<1>0. /\ panels[f].open /\ movingFrame = None /\ moves = {}
      /\ panels[f].goal # None /\ panels[f].status # "planning"
      /\ UNCHANGED <<movingFrame, options, parts, moves>>
  BY MovingHasMove DEF requestPreview, MayCommand, Opened
<1>1. \A r \in requests : r.current => r.frame # f
  BY <1>0 DEF Inv, Waited
<1>2. Owned'
  BY <1>0 DEF Owned
<1>3. CASE panels' = [panels EXCEPT ![f] = settle(@, "error")] /\ UNCHANGED requests
  <2>1. /\ panels' = [g \in Frames |-> panels'[g]]
        /\ \A g \in Frames : PanelShape(panels'[g]) /\ panels'[g].goal \in Goals \cup {None}
        /\ panels'[f].status = "error" /\ \A g \in Frames \ {f} : panels'[g] = panels[g]
    BY <1>3, SettledPanel DEF Inv, Types
  <2>2. Types'
    BY <2>1, <1>0, <1>3 DEF Inv, Types
  <2>3. \A s \in requests' : s.current => s \in requests /\ s.frame # f
    BY <1>1, <1>3
  <2>4. Waited' /\ Offered'
    BY <2>1, <2>2, <2>3, <1>0, OneDropped
  <2>. QED  BY <2>2, <2>4, <1>2 DEF Inv
<1>4. CASE panels' = [panels EXCEPT ![f] = settle(@, "planning")] /\ requests' = requests \cup {asked}
  <2>1. /\ panels' = [g \in Frames |-> panels'[g]]
        /\ \A g \in Frames : PanelShape(panels'[g]) /\ panels'[g].goal \in Goals \cup {None}
        /\ panels'[f].status = "planning" /\ panels'[f].open /\ panels'[f].goal = panels[f].goal
        /\ \A g \in Frames \ {f} : panels'[g] = panels[g]
    BY <1>0, <1>4, SettledPanel DEF Inv, Types
  <2>2. asked \in Requests
    BY <1>0 DEF Inv, Types, Requests
  <2>3. Types'
    BY <2>1, <2>2, <1>0, <1>4 DEF Inv, Types
  <2>4. Waited'
    <3>1. \A r \in requests' : r.current => r = asked \/ (r \in requests /\ r.frame \in Frames \ {f})
      BY <1>1, <1>4 DEF Inv, Types, Requests
    <3>2. /\ asked.frame = f /\ asked.goal = panels[f].goal /\ asked.options = options[f]
          /\ asked.parts = parts /\ asked.overtakenBy = {}
      OBVIOUS
    <3>. HIDE DEF asked
    <3>. QED  BY <3>1, <3>2, <2>1, <1>0 DEF Inv, Waited
  <2>5. Offered'
    BY <2>1, <1>0 DEF Inv, Offered
  <2>. QED  BY <2>3, <2>4, <2>5, <1>2 DEF Inv
<1>. QED  BY <1>3, <1>4 DEF requestPreview

LEMMA LandStaleKeeps ==
    ASSUME Inv, NEW r \in requests, LandStale(r)
    PROVE  Inv'
  BY DEF Inv, LandStale, isStale, Types, Waited, Offered, Owned

\* A request that is waited for is its panel's only one.
LEMMA OnlyOneWaits ==
    ASSUME Inv, NEW r \in requests, ~isStale(r)
    PROVE  /\ r.frame \in Frames /\ movingFrame # r.frame
           /\ panels[r.frame].open /\ panels[r.frame].status = "planning"
           /\ \A s \in requests \ {r} : s.current => s.frame # r.frame
<1>1. r.frame \in Frames /\ r.current
  BY DEF Inv, Types, Requests, isStale
<1>2. panels[r.frame].open /\ panels[r.frame].status = "planning"
  BY <1>1 DEF Inv, Waited
<1>3. movingFrame # r.frame
  BY <1>1, <1>2, MovingHasMove, NoneAssumption DEF Inv, Owned
<1>. QED  BY <1>1, <1>2, <1>3 DEF Inv, Waited

LEMMA LandPlanKeeps ==
    ASSUME Inv, NEW r \in requests, NEW trajectory \in Trajectories, LandPlan(r, trajectory)
    PROVE  Inv'
<1>. DEFINE f == r.frame
            plan == [goal |-> r.goal, options |-> r.options, parts |-> r.parts,
                     overtakenBy |-> r.overtakenBy, trajectory |-> trajectory]
<1>0. /\ ~isStale(r) /\ requests' = requests \ {r}
      /\ panels' = [panels EXCEPT ![f] = [panels[f] EXCEPT !.plan = plan, !.status = "ready"]]
      /\ UNCHANGED <<movingFrame, options, parts, moves>>
  BY DEF LandPlan
<1>1. /\ f \in Frames /\ movingFrame # f /\ panels[f].open /\ r.current
      /\ \A s \in requests' : s.current => s.frame # f
  BY <1>0, OnlyOneWaits DEF isStale
<1>2. plan \in Plans
  BY DEF Inv, Types, Requests, Plans
<1>3. /\ panels' = [g \in Frames |-> panels'[g]]
      /\ \A g \in Frames \ {f} : panels'[g] = panels[g]
  BY <1>0 DEF Inv, Types
<1>4. /\ PanelShape(panels'[f]) /\ panels'[f].goal = panels[f].goal
      /\ panels'[f].open /\ panels'[f].status = "ready" /\ panels'[f].plan = plan
  <2>. DEFINE q == [panels[f] EXCEPT !.plan = plan]
  <2>1. PanelShape(panels[f])
    BY <1>1 DEF Inv, Types
  <2>2. /\ PanelShape(q) /\ q.goal = panels[f].goal /\ q.open = panels[f].open /\ q.plan = plan
    <3>. HIDE DEF plan
    <3>. QED  BY <2>1 DEF PanelShape
  <2>3. panels'[f] = [q EXCEPT !.status = "ready"]
    BY <1>0, <1>1 DEF Inv, Types
  <2>. HIDE DEF plan, q
  <2>. QED  BY <2>2, <2>3, <1>1 DEF PanelShape
<1>5. Types'
  BY <1>0, <1>1, <1>3, <1>4 DEF Inv, Types
<1>6. Waited'
  BY <1>0, <1>1, <1>3 DEF Inv, Types, Waited, Requests
<1>7. Offered'
  <2>1. /\ plan.goal = panels[f].goal /\ plan.options = options[f] /\ plan.parts = parts
        /\ f \notin plan.overtakenBy
    BY <1>1 DEF Inv, Waited
  <2>. HIDE DEF plan
  <2>. QED  BY <2>1, <1>0, <1>1, <1>2, <1>3, <1>4 DEF Inv, Offered
<1>8. Owned'
  BY <1>0, <1>1, <1>3, OwnedKept
<1>. QED  BY <1>5, <1>6, <1>7, <1>8 DEF Inv

LEMMA LandWithoutPlanKeeps ==
    ASSUME Inv, NEW r \in requests, NEW status \in {"already-at-goal", "error"},
           LandWithoutPlan(r, status)
    PROVE  Inv'
<1>. SUFFICES ASSUME NEW f \in Frames, f = r.frame
              PROVE  Inv'
  BY DEF Inv, Types, Requests
<1>0. /\ ~isStale(r) /\ requests' = requests \ {r}
      /\ panels' = [panels EXCEPT ![f] = settle(@, status)]
      /\ UNCHANGED <<movingFrame, options, parts, moves>>
  BY DEF LandWithoutPlan
<1>1. movingFrame # f /\ \A s \in requests' : s.current => s.frame # f
  BY <1>0, OnlyOneWaits
<1>2. /\ panels' = [g \in Frames |-> panels'[g]]
      /\ \A g \in Frames : PanelShape(panels'[g]) /\ panels'[g].goal \in Goals \cup {None}
      /\ panels'[f].status = status /\ \A g \in Frames \ {f} : panels'[g] = panels[g]
  BY <1>0, SettledPanel DEF Inv, Types
<1>3. Types'
  BY <1>0, <1>2 DEF Inv, Types
<1>4. \A s \in requests' : s.current => s \in requests /\ s.frame # f
  BY <1>0, <1>1
<1>5. Waited' /\ Offered'
  BY <1>0, <1>2, <1>3, <1>4, OneDropped
<1>6. Owned'
  BY <1>0, <1>1, <1>2, OwnedKept
<1>. QED  BY <1>3, <1>5, <1>6 DEF Inv

---------------------------------------------------------------------------
\* A step that only touches detail or player of panels, and twins.
LEMMA PlayerKeeps ==
    ASSUME Inv, UNCHANGED <<movingFrame, options, parts, requests, moves>>,
           panels' = [g \in Frames |-> panels'[g]],
           \A g \in Frames : /\ PanelShape(panels'[g]) /\ panels'[g].open = panels[g].open
                             /\ panels'[g].goal = panels[g].goal
                             /\ panels'[g].status = panels[g].status
                             /\ panels'[g].plan = panels[g].plan
    PROVE  Inv'
<1>1. Types'
  BY DEF Inv, Types
<1>2. Waited'
  BY DEF Inv, Types, Waited, Requests
<1>3. Offered'
  BY DEF Inv, Offered
<1>4. Owned'
  BY OwnedKept
<1>. QED  BY <1>1, <1>2, <1>3, <1>4 DEF Inv

LEMMA DetailKeeps ==
    ASSUME Inv, NEW f \in Frames, setDetail(f)
    PROVE  Inv'
<1>. DEFINE q == [panels[f] EXCEPT !.detail = IF @ = "waypoints" THEN "interpolated" ELSE "waypoints"]
            p == [q EXCEPT !.player = Resting]
<1>1. PanelShape(panels[f])
  BY DEF Inv, Types
<1>2. /\ PanelShape(q) /\ q.open = panels[f].open /\ q.goal = panels[f].goal
      /\ q.status = panels[f].status /\ q.plan = panels[f].plan
  BY <1>1 DEF PanelShape
<1>3. /\ PanelShape(p) /\ p.open = panels[f].open /\ p.goal = panels[f].goal
      /\ p.status = panels[f].status /\ p.plan = panels[f].plan
  <2>. HIDE DEF q
  <2>. QED  BY <1>2 DEF PanelShape
<1>4. panels' = [panels EXCEPT ![f] = p]
  BY DEF setDetail
<1>5. UNCHANGED <<movingFrame, options, parts, requests, moves>>
  BY DEF setDetail
<1>. HIDE DEF p
<1>. QED  BY <1>3, <1>4, <1>5, PlayerKeeps DEF Inv, Types

LEMMA PlayingKeeps ==
    ASSUME Inv, NEW f \in Frames, Playing(f)
    PROVE  Inv'
<1>1. PICK player : panels' = [panels EXCEPT ![f] = [panels[f] EXCEPT !.player = player]]
  BY DEF Playing
<1>2. UNCHANGED <<movingFrame, options, parts, requests, moves>>
  BY DEF Playing
<1>. DEFINE p == [panels[f] EXCEPT !.player = player]
<1>3. /\ PanelShape(p) /\ p.open = panels[f].open /\ p.goal = panels[f].goal
      /\ p.status = panels[f].status /\ p.plan = panels[f].plan
  BY DEF PanelShape, Inv, Types
<1>. HIDE DEF p
<1>. QED  BY <1>1, <1>2, <1>3, PlayerKeeps DEF Inv, Types, p

LEMMA UseItKeeps ==
    ASSUME Inv, NEW f \in Frames, UseItHere(f)
    PROVE  Inv'
  BY DEF Inv, UseItHere, Types, Waited, Offered, Owned

---------------------------------------------------------------------------
LEMMA OvertakenPlan ==
    ASSUME NEW plan \in Plans, NEW f \in Frames
    PROVE  /\ Overtaken(plan, f) \in Plans
           /\ Overtaken(plan, f).goal = plan.goal /\ Overtaken(plan, f).options = plan.options
           /\ Overtaken(plan, f).parts = plan.parts
           /\ Overtaken(plan, f).overtakenBy = plan.overtakenBy \cup {f}
  BY DEF Plans, Overtaken

LEMMA OvertakenRequest ==
    ASSUME NEW r \in Requests, NEW f \in Frames
    PROVE  /\ Overtaken(r, f) \in Requests
           /\ Overtaken(r, f).frame = r.frame /\ Overtaken(r, f).current = r.current
           /\ Overtaken(r, f).goal = r.goal /\ Overtaken(r, f).options = r.options
           /\ Overtaken(r, f).parts = r.parts
           /\ Overtaken(r, f).overtakenBy = r.overtakenBy \cup {f}
  BY DEF Requests, Overtaken

\* A move begins: of a ready panel that keeps its plan, or of one that is
\* cleared.
LEMMA BeginKeeps ==
    ASSUME Inv, NEW f \in Frames, NEW kind, NEW cleared, Begin(f, kind, cleared),
           panels[f].open, panels[f].goal \in Goals,
           \/ kind = "execute" /\ cleared = {} /\ panels[f].status = "ready"
           \/ kind = "move" /\ cleared = {f}
    PROVE  Inv'
<1>. DEFINE base(g) == IF g \in cleared THEN clear(panels[g]) ELSE panels[g]
            m == [frame |-> f, kind |-> kind, goal |-> panels[f].goal, mounted |-> TRUE]
<1>0. /\ movingFrame = None /\ movingFrame' = f /\ moves = {} /\ moves' = {m}
      /\ UNCHANGED <<options, parts>>
      /\ panels' = [g \in Frames |-> IF base(g).plan = None THEN base(g)
                                     ELSE [base(g) EXCEPT !.plan = Overtaken(@, f)]]
      /\ requests' = {Overtaken(IF r.frame \in cleared THEN [r EXCEPT !.current = FALSE] ELSE r, f)
                          : r \in requests}
  BY MovingHasMove DEF Begin
<1>1. \A g \in Frames :
        /\ PanelShape(base(g)) /\ base(g).open = panels[g].open /\ base(g).goal = panels[g].goal
        /\ base(g).status = IF g \in cleared THEN "idle" ELSE panels[g].status
        /\ g \notin cleared => base(g).plan = panels[g].plan
  BY ClearedPanel DEF Inv, Types
<1>2. \A g \in Frames :
        /\ PanelShape(panels'[g]) /\ panels'[g].open = panels[g].open
        /\ panels'[g].goal = panels[g].goal
        /\ panels'[g].status = IF g \in cleared THEN "idle" ELSE panels[g].status
        /\ g \notin cleared => panels'[g].plan \in {panels[g].plan, Overtaken(panels[g].plan, f)}
  <2>. HIDE DEF base
  <2>. SUFFICES ASSUME NEW g \in Frames, NEW q, q = base(g)
                PROVE  /\ PanelShape(panels'[g]) /\ panels'[g].open = panels[g].open
                       /\ panels'[g].goal = panels[g].goal
                       /\ panels'[g].status = IF g \in cleared THEN "idle" ELSE panels[g].status
                       /\ g \notin cleared =>
                            panels'[g].plan \in {panels[g].plan, Overtaken(panels[g].plan, f)}
    OBVIOUS
  <2>1. panels'[g] = IF q.plan = None THEN q ELSE [q EXCEPT !.plan = Overtaken(q.plan, f)]
    BY <1>0
  <2>2. PanelShape(q)
    BY <1>1
  <2>3. \A new : LET p == [q EXCEPT !.plan = new]
                IN PanelShape(p) /\ p.open = q.open /\ p.goal = q.goal
                   /\ p.status = q.status /\ p.plan = new
    BY <2>2 DEF PanelShape
  <2>4. /\ PanelShape(panels'[g]) /\ panels'[g].open = q.open /\ panels'[g].goal = q.goal
        /\ panels'[g].status = q.status /\ panels'[g].plan \in {q.plan, Overtaken(q.plan, f)}
    BY <2>1, <2>2, <2>3
  <2>. QED  BY <2>4, <1>1
<1>3. \A s \in requests' : \E r \in requests :
        /\ s \in Requests /\ s.frame = r.frame
        /\ s.current => r.current /\ r.frame \notin cleared /\ s = Overtaken(r, f)
  <2>. HIDE DEF m, base
  <2>. DEFINE left(r) == IF r.frame \in cleared THEN [r EXCEPT !.current = FALSE] ELSE r
  <2>1. \A r \in requests : /\ left(r) \in Requests /\ left(r).frame = r.frame
                            /\ left(r).current => r.current /\ r.frame \notin cleared /\ left(r) = r
    BY DEF Inv, Types, Requests
  <2>2. requests' = {Overtaken(left(r), f) : r \in requests}
    BY <1>0
  <2>. HIDE DEF left
  <2>3. \A r \in requests : /\ Overtaken(left(r), f) \in Requests
                            /\ Overtaken(left(r), f).frame = r.frame
                            /\ Overtaken(left(r), f).current = left(r).current
    BY <2>1, OvertakenRequest
  <2>. QED  BY <2>1, <2>2, <2>3
<1>4. m \in Moves
  BY DEF Moves
<1>5. Types'
  <2>. HIDE DEF m, base
  <2>1. requests' \subseteq Requests
    BY <1>3
  <2>. QED  BY <1>0, <1>2, <1>4, <2>1 DEF Inv, Types
<1>6. \A s \in requests' : s.current => \E r \in requests :
        /\ r \in Requests /\ r.current /\ s.frame = r.frame /\ s = Overtaken(r, f)
        /\ r.frame \in Frames /\ r.frame # f /\ r.frame \notin cleared
        /\ s.goal = r.goal /\ s.options = r.options /\ s.parts = r.parts
        /\ s.overtakenBy = r.overtakenBy \cup {f}
  <2>. SUFFICES ASSUME NEW s \in requests', s.current,
                       NEW r \in requests, s \in Requests, s.frame = r.frame, r.current,
                       r.frame \notin cleared, s = Overtaken(r, f)
                PROVE  /\ r \in Requests /\ r.frame \in Frames /\ r.frame # f
                       /\ s.goal = r.goal /\ s.options = r.options /\ s.parts = r.parts
                       /\ s.overtakenBy = r.overtakenBy \cup {f}
    BY <1>3
  <2>1. r \in Requests /\ r.frame \in Frames
    BY DEF Inv, Types, Requests
  <2>2. r.frame # f
    BY DEF Inv, Waited
  <2>. QED  BY <2>1, <2>2, OvertakenRequest
<1>7. Waited'
  <2>1. \A s \in requests' : s.current =>
            /\ panels'[s.frame].open /\ panels'[s.frame].status = "planning"
            /\ s.goal = panels'[s.frame].goal /\ s.options = options'[s.frame] /\ s.parts = parts'
            /\ s.frame \notin s.overtakenBy
    <3>. HIDE DEF m, base
    <3>. SUFFICES ASSUME NEW s \in requests', s.current
                  PROVE  /\ panels'[s.frame].open /\ panels'[s.frame].status = "planning"
                         /\ s.goal = panels'[s.frame].goal /\ s.options = options'[s.frame]
                         /\ s.parts = parts' /\ s.frame \notin s.overtakenBy
      OBVIOUS
    <3>1. PICK r \in requests :
            /\ r.current /\ s.frame = r.frame /\ r.frame \in Frames
            /\ r.frame # f /\ r.frame \notin cleared
            /\ s.goal = r.goal /\ s.options = r.options /\ s.parts = r.parts
            /\ s.overtakenBy = r.overtakenBy \cup {f}
      BY <1>6
    <3>2. /\ panels[r.frame].open /\ panels[r.frame].status = "planning"
          /\ r.goal = panels[r.frame].goal /\ r.options = options[r.frame] /\ r.parts = parts
          /\ r.frame \notin r.overtakenBy
      BY <3>1 DEF Inv, Waited
    <3>3. /\ panels'[r.frame].open /\ panels'[r.frame].goal = panels[r.frame].goal
          /\ panels'[r.frame].status = "planning"
      BY <1>2, <3>1, <3>2
    <3>4. s.frame \notin s.overtakenBy
      BY <3>1, <3>2
    <3>5. options' = options /\ parts' = parts
      BY <1>0
    <3>. QED  BY <3>1, <3>2, <3>3, <3>4, <3>5
  <2>2. \A r, s \in requests' : r.current /\ s.current /\ r.frame = s.frame => r = s
    BY <1>6 DEF Inv, Waited
  <2>. QED  BY <2>1, <2>2 DEF Waited
<1>8. Offered'
  <2>. SUFFICES ASSUME NEW g \in Frames, panels'[g].open, panels'[g].status = "ready"
                PROVE  /\ panels'[g].plan \in Plans
                       /\ panels'[g].plan.goal = panels'[g].goal
                       /\ panels'[g].plan.options = options'[g] /\ panels'[g].plan.parts = parts'
                       /\ movingFrame' # g => g \notin panels'[g].plan.overtakenBy
    BY DEF Offered
  <2>. HIDE DEF m, base
  <2>1. /\ g \notin cleared /\ panels[g].open /\ panels[g].status = "ready"
        /\ panels'[g].plan \in {panels[g].plan, Overtaken(panels[g].plan, f)}
        /\ panels'[g].goal = panels[g].goal
    BY <1>2
  <2>2. /\ panels[g].plan \in Plans /\ panels[g].plan.goal = panels[g].goal
        /\ panels[g].plan.options = options[g] /\ panels[g].plan.parts = parts
        /\ g \notin panels[g].plan.overtakenBy
    BY <2>1, <1>0, NoneAssumption DEF Inv, Offered
  <2>. QED  BY <2>1, <2>2, <1>0, OvertakenPlan
<1>9. Owned'
  <2>1. /\ m.frame = f /\ m.goal = panels[f].goal /\ m.kind = kind /\ m.mounted
    OBVIOUS
  <2>2. panels'[f].status # "planning" /\ (kind = "move" => panels'[f].status = "idle")
    BY <1>2
  <2>. HIDE DEF m, base
  <2>3. f # None /\ panels'[f].open = panels[f].open /\ panels'[f].goal = panels[f].goal
    BY <1>2, NoneAssumption
  <2>4. movingFrame' # None /\ moves' = {m}
    BY <1>0, <2>3
  <2>5. \A n \in moves' : n = m
    BY <2>4
  <2>. QED  BY <2>1, <2>2, <2>3, <2>4, <2>5, <1>0 DEF Owned
<1>. QED  BY <1>5, <1>7, <1>8, <1>9 DEF Inv

LEMMA ExecutePreviewedKeeps ==
    ASSUME Inv, NEW f \in Frames, executePreviewedMove(f)
    PROVE  Inv'
<1>1. panels[f].open /\ panels[f].status = "ready" /\ Begin(f, "execute", {})
  BY DEF executePreviewedMove, Ready, Opened
<1>2. panels[f].goal \in Goals
  BY <1>1 DEF Inv, Offered, Plans
<1>. QED  BY <1>1, <1>2, BeginKeeps

\* A panel is dropped without a move of its own in flight.
LEMMA ClearKeeps ==
    ASSUME Inv, NEW f \in Frames, movingFrame # f, NEW p, PanelShape(p),
           p.goal \in Goals \cup {None}, p.status = "idle",
           panels' = [panels EXCEPT ![f] = p], Abandon({f}),
           UNCHANGED <<movingFrame, options, parts, moves>>
    PROVE  Inv'
<1>1. /\ panels' = [g \in Frames |-> panels'[g]]
      /\ \A g \in Frames : PanelShape(panels'[g]) /\ panels'[g].goal \in Goals \cup {None}
      /\ panels'[f].status = "idle" /\ \A g \in Frames \ {f} : panels'[g] = panels[g]
  BY DEF Inv, Types
<1>2. requests' \subseteq Requests /\ \A s \in requests' : s.current => s \in requests /\ s.frame # f
  BY AbandonTypes DEF Inv
<1>3. Types'
  BY <1>1, <1>2 DEF Inv, Types
<1>4. Waited' /\ Offered'
  BY <1>1, <1>2, <1>3, OneDropped
<1>5. Owned'
  BY <1>1, OwnedKept
<1>. QED  BY <1>3, <1>4, <1>5 DEF Inv

LEMMA ExecuteKeeps ==
    ASSUME Inv, NEW f \in Frames, executeMove(f)
    PROVE  Inv'
<1>1. panels[f].open /\ movingFrame = None /\ panels[f].goal \in Goals
  BY DEF executeMove, MayCommand, Opened, Inv, Types
<1>2. CASE Begin(f, "move", {f})
  BY <1>1, <1>2, BeginKeeps
<1>3. CASE /\ panels' = [panels EXCEPT ![f] = clear(@)] /\ Abandon({f})
           /\ UNCHANGED <<movingFrame, options, parts, moves>>
  <2>. SUFFICES ASSUME NEW p, p = clear(panels[f])
                PROVE  Inv'
    OBVIOUS
  <2>1. PanelShape(p) /\ p.goal \in Goals \cup {None} /\ p.status = "idle"
    BY ClearedPanel DEF Inv, Types
  <2>. QED  BY <2>1, <1>1, <1>3, ClearKeeps, NoneAssumption
<1>. QED  BY <1>2, <1>3 DEF executeMove

LEMMA ResetKeeps ==
    ASSUME Inv, NEW f \in Frames, Reset(f)
    PROVE  Inv'
<1>. SUFFICES ASSUME NEW p, p = resetTarget(panels[f])
              PROVE  Inv'
  OBVIOUS
<1>1. PanelShape(p) /\ p.goal = None /\ p.status = "idle"
  BY ResetPanel DEF Inv, Types
<1>. QED  BY <1>1, ClearKeeps DEF Reset

LEMMA MoveEndsKeeps ==
    ASSUME Inv, NEW m \in moves, NEW done \in BOOLEAN, MoveEnds(m, done)
    PROVE  Inv'
<1>. SUFFICES ASSUME NEW f \in Frames, f = m.frame,
                     NEW drops, drops <=> m.mounted /\ (done \/ m.kind = "execute"),
                     NEW after, after = IF ~drops THEN panels[f]
                                        ELSE IF done THEN resetTarget(panels[f]) ELSE clear(panels[f])
              PROVE  Inv'
  BY DEF Inv, Types, Moves
<1>1. /\ moves = {m} /\ movingFrame = f /\ moves' = {} /\ movingFrame' = None
      /\ panels' = [panels EXCEPT ![f] = after]
      /\ IF drops THEN Abandon({f}) ELSE UNCHANGED <<twins, requests>>
      /\ UNCHANGED <<options, parts>>
  BY NoneAssumption DEF MoveEnds, Inv, Owned
<1>2. /\ PanelShape(after) /\ after.goal \in Goals \cup {None}
      /\ after.status \notin {"ready", "planning"}
  <2>1. PanelShape(panels[f]) /\ panels[f].goal \in Goals \cup {None}
    BY DEF Inv, Types
  <2>2. CASE drops
    BY <2>1, <2>2, ResetPanel, ClearedPanel
  <2>3. CASE ~drops
    <3>1. m.kind \in {"execute", "move"}
      BY DEF Inv, Types, Moves
    <3>2. ~m.mounted \/ m.kind = "move"
      BY <2>3, <3>1
    <3>. QED  BY <2>1, <2>3, <3>2 DEF Inv, Owned
  <2>. QED  BY <2>2, <2>3
<1>3. /\ panels' = [g \in Frames |-> panels'[g]]
      /\ \A g \in Frames : PanelShape(panels'[g]) /\ panels'[g].goal \in Goals \cup {None}
      /\ panels'[f].status \notin {"ready", "planning"}
      /\ \A g \in Frames \ {f} : panels'[g] = panels[g]
  BY <1>1, <1>2 DEF Inv, Types
<1>4. /\ requests' \subseteq Requests
      /\ \A s \in requests' : s.current => s \in requests /\ s.frame # f
  <2>1. CASE drops
    BY <1>1, <2>1, AbandonTypes DEF Inv
  <2>2. CASE ~drops
    BY <1>1, <2>2 DEF Inv, Types, Waited, Owned
  <2>. QED  BY <2>1, <2>2
<1>5. Types'
  BY <1>1, <1>3, <1>4 DEF Inv, Types
<1>6. Waited' /\ Offered'
  BY <1>1, <1>3, <1>4, <1>5, OneDropped
<1>7. Owned'
  BY <1>1 DEF Owned
<1>. QED  BY <1>5, <1>6, <1>7 DEF Inv

---------------------------------------------------------------------------
LEMMA InitInv == Init => Inv
<1>. SUFFICES ASSUME Init
              PROVE  Inv
  OBVIOUS
<1>1. Types
  BY DEF Init, Types, PanelShape, Resting
<1>2. Waited /\ Offered /\ Owned
  BY DEF Init, Waited, Offered, Owned
<1>. QED  BY <1>1, <1>2 DEF Inv

LEMMA NextKeepsInv == Inv /\ [Next]_vars => Inv'
<1>. SUFFICES ASSUME Inv, [Next]_vars
              PROVE  Inv'
  OBVIOUS
<1>1. CASE UNCHANGED vars
  BY <1>1 DEF vars, Inv, Types, Waited, Offered, Owned
<1>2. CASE Next
  BY <1>2, SelectKeeps, UseItKeeps, StageKeeps, OptionsKeeps, RefetchKeeps, RequestKeeps,
     LandStaleKeeps, LandPlanKeeps, LandWithoutPlanKeeps, DetailKeeps, PlayingKeeps,
     ExecutePreviewedKeeps, ExecuteKeeps, MoveEndsKeeps, ResetKeeps DEF Next
<1>. QED  BY <1>1, <1>2

LEMMA InvHolds == Spec => []Inv
  BY InitInv, NextKeepsInv, PTL DEF Spec

\* moveExecutionOwner admits one move, however panels mount and unmount
\* while it runs.
THEOREM MovePanelsOneMove == Spec => []OneMoveAtATime
<1>1. Inv => OneMoveAtATime
  BY DEF Inv, Types, Owned, OneMoveAtATime, Opened, Moves
<1>. QED  BY <1>1, InvHolds, PTL

\* What usePreviewMove offers was planned for the goal, the fields and the
\* frame system that its panel shows.
THEOREM MovePanelsPlanIsForGoal == Spec => []PlanIsForGoal
<1>1. Inv => PlanIsForGoal
  BY DEF Inv, Offered, PlanIsForGoal, Ready, Opened
<1>. QED  BY <1>1, InvHolds, PTL

\* No plan is offered that was asked for before a move of its panel.
THEOREM MovePanelsNoPlanSurvives == Spec => []NoPlanSurvivesItsMove
<1>1. Inv => NoPlanSurvivesItsMove
  BY DEF Inv, Offered, NoPlanSurvivesItsMove, Ready, Opened
<1>. QED  BY <1>1, InvHolds, PTL

---------------------------------------------------------------------------
(* Playback.                                                               *)

FrameShown == [waypoint : Nat, division : Nat]

\* What playback may be: frames, and the first is where the plan starts.
Playbacks == {w \in Seq(FrameShown) : w # <<>> /\ w[1] = Waypoint(0)}

LEMMA TrajectoryTyped ==
    \A t \in Trajectories : t \in Seq(Nat) /\ t # <<>>
  BY TrajectoriesAssumption

LEMMA WaypointTyped == \A w \in Nat : Waypoint(w) \in FrameShown
  BY DEF Waypoint, FrameShown

LEMMA WaypointsPlay ==
    ASSUME NEW t \in Seq(Nat)
    PROVE  waypointFrames(t) \in Playbacks
<1>1. Len(t) + 1 \in Nat /\ 1 \in 1..Len(t) + 1
  OBVIOUS
<1>2. \A k \in 1..Len(t) + 1 : Waypoint(k - 1) \in FrameShown
  BY WaypointTyped
<1>3. waypointFrames(t) \in [1..Len(t) + 1 -> FrameShown]
  BY <1>2 DEF waypointFrames
<1>4. waypointFrames(t) \in Seq(FrameShown) /\ Len(waypointFrames(t)) = Len(t) + 1
  BY <1>1, <1>3
<1>5. waypointFrames(t)[1] = Waypoint(0)
  BY <1>1 DEF waypointFrames
<1>. QED  BY <1>1, <1>4, <1>5 DEF Playbacks

---------------------------------------------------------------------------
(* What a recursive function over 0..N returns. Its definition is a CHOOSE *)
(* that no backend unfolds: one shows with StepwiseFunction that a         *)
(* function with its equation exists, so that the chosen one has it, and   *)
(* with StepwiseValues what its values are. The induction theorems of the  *)
(* library take an operator, which cannot be instantiated; these take sets *)
(* and functions.                                                          *)

\* Induction over the naturals, from the pigeonhole of the finite sets: below
\* a number that is not in the set, adding one would be an injection of a
\* finite set into itself without 0.
LEMMA NatSetInduction ==
  ASSUME NEW T \in SUBSET Nat, 0 \in T, \A n \in T : n + 1 \in T
  PROVE  T = Nat
<1> SUFFICES ASSUME NEW k \in Nat, k \notin T PROVE FALSE OBVIOUS
<1> DEFINE A == T \cap (0 .. k)
           B == A \ {0}
           f == [n \in A |-> n + 1]
<1>1. IsFiniteSet(A)
  <2>1. IsFiniteSet(0 .. k) BY FS_Interval
  <2>2. A \in SUBSET (0 .. k) OBVIOUS
  <2> QED BY <2>1, <2>2, FS_Subset
<1>2. IsFiniteSet(B) /\ Cardinality(B) = Cardinality(A) - 1
  <2>1. 0 \in A OBVIOUS
  <2> QED BY <1>1, <2>1, FS_RemoveElement
<1>3. f \in Injection(A, B)
  <2>1. \A n \in A : n + 1 \in B OBVIOUS
  <2>2. \A m, n \in A : f[m] = f[n] => m = n OBVIOUS
  <2> QED BY <2>1, <2>2 DEF Injection, IsInjective
<1>4. Cardinality(A) <= Cardinality(B)
  <2> HIDE DEF A, B, f
  <2> QED BY <1>2, <1>3, FS_Injection
<1>5. Cardinality(A) \in Nat BY <1>1, FS_CardinalityType
<1> QED BY <1>2, <1>4, <1>5

\* A recursive function with a value to start from and a total step exists,
\* and all its values are of the type of its steps.
Stepwise(V, first, N, step) ==
    first \in V /\ N \in Nat /\ step \in [1..N -> [V -> V]]

FollowsSteps(V, first, N, step, g) ==
    /\ g \in [0..N -> V] /\ g[0] = first
    /\ \A i \in 1..N : g[i] = step[i][g[i - 1]]

LEMMA StepwiseFunction ==
  ASSUME NEW V, NEW first, NEW N, NEW step, Stepwise(V, first, N, step)
  PROVE  \E g : FollowsSteps(V, first, N, step, g)
<1> USE DEF Stepwise
<1> DEFINE Steps(g, n) == g[0] = first /\ \A i \in 1..n : g[i] = step[i][g[i - 1]]
           Upto(n) == \E g \in [0..n -> V] : Steps(g, n)
           T == {n \in Nat : n <= N => Upto(n)}
<1>1. Upto(0)
  <2>1. [i \in 0..0 |-> first] \in [0..0 -> V] /\ Steps([i \in 0..0 |-> first], 0)
    OBVIOUS
  <2> QED BY <2>1
<1>2. ASSUME NEW n \in Nat, Upto(n), n + 1 <= N PROVE Upto(n + 1)
  <2>1. PICK g \in [0..n -> V] : Steps(g, n) BY <1>2
  <2> DEFINE next == step[n + 1][g[n]]
             h == [i \in 0..(n + 1) |-> IF i <= n THEN g[i] ELSE next]
  <2>2. next \in V
    <3>1. n + 1 \in 1..N /\ n \in 0..n BY <1>2
    <3>2. step[n + 1] \in [V -> V] /\ g[n] \in V BY <3>1
    <3> QED BY <3>2
  <2> HIDE DEF next
  <2>3. h \in [0..(n + 1) -> V] BY <2>2
  <2>4. h[0] = first BY <2>1
  <2>5. ASSUME NEW i \in 1..(n + 1)
        PROVE  h[i] = step[i][h[i - 1]]
    <3>1. CASE i <= n
      <4>1. i \in 1..n /\ i - 1 \in 0..n BY <3>1
      <4>2. h[i] = g[i] /\ h[i - 1] = g[i - 1] BY <4>1
      <4> QED BY <2>1, <4>1, <4>2
    <3>2. CASE i = n + 1
      <4>1. h[i] = next /\ h[i - 1] = g[n] BY <3>2
      <4> QED BY <3>2, <4>1 DEF next
    <3> QED BY <3>1, <3>2
  <2> QED BY <2>3, <2>4, <2>5
<1> HIDE DEF Upto
<1>3. 0 \in T BY <1>1
<1>4. \A n \in T : n + 1 \in T BY <1>2
<1>5. T = Nat
  <2>1. T \in SUBSET Nat OBVIOUS
  <2> HIDE DEF T
  <2> QED BY <1>3, <1>4, <2>1, NatSetInduction
<1>6. Upto(N) BY <1>5
<1> QED BY <1>6 DEF Upto, FollowsSteps

\* A function that goes by the steps stays in their type.
LEMMA StepwiseValues ==
  ASSUME NEW V, NEW first, NEW N, NEW step, Stepwise(V, first, N, step),
         NEW f, f[0] = first,
         \A i \in 1..N : f[i - 1] \in V => f[i] = step[i][f[i - 1]]
  PROVE  \A i \in 0..N : f[i] \in V
<1> USE DEF Stepwise
<1> DEFINE T == {n \in Nat : n <= N => f[n] \in V}
<1>1. 0 \in T OBVIOUS
<1>2. ASSUME NEW n \in T PROVE n + 1 \in T
  <2> SUFFICES ASSUME n + 1 <= N PROVE f[n + 1] \in V OBVIOUS
  <2>1. n + 1 \in 1..N /\ (n + 1) - 1 = n /\ f[n] \in V OBVIOUS
  <2>2. f[n + 1] = step[n + 1][f[n]] BY <2>1
  <2>3. step[n + 1] \in [V -> V] BY <2>1
  <2> QED BY <2>1, <2>2, <2>3
<1>3. T = Nat
  <2>1. T \in SUBSET Nat OBVIOUS
  <2> HIDE DEF T
  <2> QED BY <1>1, <1>2, <2>1, NatSetInduction
<1> QED BY <1>3

---------------------------------------------------------------------------
(* Playback of a trajectory.                                               *)

LEMMA TotalTyped ==
    ASSUME NEW t \in Seq(Nat)
    PROVE  Total(t) \in Nat
<1>. DEFINE N == Len(t)
            step == [k \in 1..N |-> [w \in Nat |-> w + t[k]]]
            Sums(g) == [k \in 0..N |-> IF k = 0 THEN 0 ELSE g[k - 1] + t[k]]
            sum == CHOOSE g : g = Sums(g)
<1>1. N \in Nat /\ \A k \in 1..N : t[k] \in Nat
  OBVIOUS
<1>2. step \in [1..N -> [Nat -> Nat]]
  BY <1>1
<1>3. Stepwise(Nat, 0, N, step)
  BY <1>1, <1>2 DEF Stepwise
<1>4. \E g : g = Sums(g)
  <2>1. PICK g : FollowsSteps(Nat, 0, N, step, g)
    <3>. HIDE DEF N, step
    <3>. QED  BY <1>3, StepwiseFunction
  <2>2. g \in [0..N -> Nat]
    BY <2>1 DEF FollowsSteps
  <2>3. \A k \in 0..N : g[k] = Sums(g)[k]
    <3>. SUFFICES ASSUME NEW k \in 0..N
                  PROVE  g[k] = IF k = 0 THEN 0 ELSE g[k - 1] + t[k]
      OBVIOUS
    <3>1. CASE k = 0
      BY <2>1, <3>1 DEF FollowsSteps
    <3>2. CASE k # 0
      <4>1. k \in 1..N /\ k - 1 \in 0..N
        BY <3>2
      <4>2. g[k] = step[k][g[k - 1]]
        BY <2>1, <4>1 DEF FollowsSteps
      <4>3. g[k - 1] \in Nat
        BY <2>2, <4>1
      <4>. QED  BY <3>2, <4>1, <4>2, <4>3
    <3>. QED  BY <3>1, <3>2
  <2>4. g = Sums(g)
    <3>. HIDE DEF N
    <3>. QED  BY <2>2, <2>3
  <2>. QED  BY <2>4
<1>5. sum = Sums(sum)
  BY <1>4
<1>6. Total(t) = sum[N]
  BY DEF Total
<1>. HIDE DEF sum
<1>7. sum[0] = 0
  BY <1>1, <1>5
<1>8. \A k \in 1..N : sum[k - 1] \in Nat => sum[k] = step[k][sum[k - 1]]
  <2>. SUFFICES ASSUME NEW k \in 1..N, sum[k - 1] \in Nat
                PROVE  sum[k] = step[k][sum[k - 1]]
    OBVIOUS
  <2>1. sum[k] = Sums(sum)[k]
    BY <1>5
  <2>. QED  BY <2>1
<1>. HIDE DEF N, step
<1>9. \A k \in 0..N : sum[k] \in Nat
  BY <1>3, <1>7, <1>8, StepwiseValues
<1>. QED  BY <1>1, <1>6, <1>9

\* Every segment has a frame at least, and a bounded number of them.
LEMMA DivisionsTyped ==
    ASSUME NEW t \in Seq(Nat), NEW k \in 1..Len(t)
    PROVE  Divisions(t, k) \in Nat \ {0}
<1>. DEFINE total == Total(t)
            cost == t[k]
            cap == MaxInterpolatedFrames
            spread == cost * cap + total - 1
            share == IF total <= cap THEN cost ELSE spread \div total
<1>1. total \in Nat /\ cost \in Nat /\ cap \in Nat \ {0}
  BY TotalTyped, MaxInterpolatedFramesAssumption
<1>2. Divisions(t, k) = IF share = 0 THEN 1 ELSE share
  BY DEF Divisions
<1>. HIDE DEF total, cost, cap
<1>3. share \in Nat
  <2>1. CASE total <= cap
    BY <1>1, <2>1
  <2>2. CASE ~(total <= cap)
    <3>1. total \in Nat \ {0}
      BY <1>1, <2>2
    <3>2. cost * cap \in Nat
      BY <1>1
    <3>3. spread \in Nat
      BY <3>1, <3>2
    <3>. HIDE DEF spread
    <3>4. spread \div total \in Nat
      BY <3>1, <3>3
    <3>. QED  BY <2>2, <3>4
  <2>. QED  BY <2>1, <2>2
<1>. HIDE DEF share
<1>. QED  BY <1>2, <1>3

LEMMA InterpolationPlays ==
    ASSUME NEW t \in Seq(Nat)
    PROVE  interpolatedFrames(t) \in Playbacks
<1>. DEFINE N == Len(t)
            interior(k) == [d \in 1..Divisions(t, k) - 1 |-> [waypoint |-> k - 1, division |-> d]]
            start == <<Waypoint(0)>>
            step == [k \in 1..N |-> [w \in Playbacks |-> w \o interior(k) \o <<Waypoint(k)>>]]
            Frame(g) == [k \in 0..N |-> IF k = 0 THEN start
                                        ELSE g[k - 1] \o interior(k) \o <<Waypoint(k)>>]
            upTo == CHOOSE g : g = Frame(g)
<1>1. N \in Nat
  OBVIOUS
<1>2. start \in Playbacks
  <2>1. Waypoint(0) \in FrameShown
    BY WaypointTyped
  <2>. QED  BY <2>1 DEF Playbacks
<1>3. \A k \in 1..N : interior(k) \in Seq(FrameShown)
  <2>. SUFFICES ASSUME NEW k \in 1..N
                PROVE  interior(k) \in Seq(FrameShown)
    OBVIOUS
  <2>. DEFINE n == Divisions(t, k) - 1
  <2>1. n \in Nat
    BY DivisionsTyped
  <2>. HIDE DEF n
  <2>2. \A d \in 1..n : [waypoint |-> k - 1, division |-> d] \in FrameShown
    BY <2>1 DEF FrameShown
  <2>3. [d \in 1..n |-> [waypoint |-> k - 1, division |-> d]] \in Seq(FrameShown)
    BY <2>1, <2>2
  <2>. QED  BY <2>3 DEF n
<1>. HIDE DEF interior
<1>4. \A k \in 1..N, w \in Playbacks : w \o interior(k) \o <<Waypoint(k)>> \in Playbacks
  <2>. SUFFICES ASSUME NEW k \in 1..N, NEW w \in Playbacks
                PROVE  w \o interior(k) \o <<Waypoint(k)>> \in Playbacks
    OBVIOUS
  <2>1. \A u, v \in Seq(FrameShown) :
            u # <<>> => /\ u \o v \in Seq(FrameShown) /\ u \o v # <<>>
                        /\ (u \o v)[1] = u[1]
    OBVIOUS
  <2>2. <<Waypoint(k)>> \in Seq(FrameShown)
    BY WaypointTyped
  <2>. DEFINE u == w \o interior(k)
  <2>3. u \in Seq(FrameShown) /\ u # <<>> /\ u[1] = Waypoint(0)
    BY <1>3, <2>1 DEF Playbacks
  <2>. HIDE DEF u
  <2>4. u \o <<Waypoint(k)>> \in Playbacks
    BY <2>1, <2>2, <2>3 DEF Playbacks
  <2>. QED  BY <2>4 DEF u
<1>5. Stepwise(Playbacks, start, N, step)
  <2>1. step \in [1..N -> [Playbacks -> Playbacks]]
    BY <1>4
  <2>. QED  BY <1>1, <1>2, <2>1 DEF Stepwise
<1>6. \E g : g = Frame(g)
  <2>1. PICK g : FollowsSteps(Playbacks, start, N, step, g)
    <3>. HIDE DEF N, step, start
    <3>. QED  BY <1>5, StepwiseFunction
  <2>2. g \in [0..N -> Playbacks]
    BY <2>1 DEF FollowsSteps
  <2>3. \A k \in 0..N : g[k] = Frame(g)[k]
    <3>. SUFFICES ASSUME NEW k \in 0..N
                  PROVE  g[k] = IF k = 0 THEN start
                                ELSE g[k - 1] \o interior(k) \o <<Waypoint(k)>>
      OBVIOUS
    <3>1. CASE k = 0
      BY <2>1, <3>1 DEF FollowsSteps
    <3>2. CASE k # 0
      <4>1. k \in 1..N /\ k - 1 \in 0..N
        BY <3>2
      <4>2. g[k] = step[k][g[k - 1]]
        BY <2>1, <4>1 DEF FollowsSteps
      <4>3. g[k - 1] \in Playbacks
        BY <2>2, <4>1
      <4>. QED  BY <3>2, <4>1, <4>2, <4>3
    <3>. QED  BY <3>1, <3>2
  <2>4. g = Frame(g)
    <3>. HIDE DEF N, start
    <3>. QED  BY <2>2, <2>3
  <2>. QED  BY <2>4
<1>7. upTo = Frame(upTo)
  BY <1>6
<1>8. interpolatedFrames(t) = upTo[N]
  BY DEF interpolatedFrames, interior
<1>. HIDE DEF upTo
<1>9. upTo[0] = start
  BY <1>1, <1>7
<1>10. \A k \in 1..N : upTo[k - 1] \in Playbacks => upTo[k] = step[k][upTo[k - 1]]
  <2>. SUFFICES ASSUME NEW k \in 1..N, upTo[k - 1] \in Playbacks
                PROVE  upTo[k] = step[k][upTo[k - 1]]
    OBVIOUS
  <2>1. upTo[k] = Frame(upTo)[k]
    BY <1>7
  <2>. QED  BY <2>1
<1>. HIDE DEF N, step, start
<1>11. \A k \in 0..N : upTo[k] \in Playbacks
  BY <1>5, <1>9, <1>10, StepwiseValues
<1>. QED  BY <1>1, <1>8, <1>11

LEMMA PlaybackTyped ==
    \A p : p.plan \in Plans => playbackFrames(p) \in Playbacks
<1>. SUFFICES ASSUME NEW p, p.plan \in Plans
              PROVE  playbackFrames(p) \in Playbacks
  OBVIOUS
<1>1. p.plan # None /\ p.plan.trajectory \in Trajectories
  BY NoneAssumption DEF Plans
<1>2. p.plan.trajectory \in Seq(Nat)
  BY <1>1, TrajectoryTyped
<1>. QED  BY <1>1, <1>2, WaypointsPlay, InterpolationPlays DEF playbackFrames

---------------------------------------------------------------------------
(* Panels and their twins.                                                 *)

\* What the twins of a panel show.
ShownBy(p) == playbackFrames(p)[p.player.step + 1]

\* Types, as far as Types does not say them, and the twins. A panel without
\* a plan on offer rests, so that the next plan is drawn at its start.
PreviewInv ==
    /\ panels \in [Frames -> Panels]
    /\ armedFrame \in Opened \cup {None}
    /\ \A f \in Frames :
        /\ (panels[f].plan # None) <=> (f \in Ready)
        /\ f \notin Ready => panels[f].player = Resting
        /\ panels[f].status = "planning" => \E r \in requests : r.frame = f /\ r.current
    /\ TwinsShowStep

\* A panel that offers nothing.
Quiet(p) == p.plan = None /\ p.player = Resting /\ p.status # "ready"

\* A panel that offers the same as another.
Alike(p, q) ==
    /\ p.open = q.open /\ p.status = q.status /\ p.detail = q.detail /\ p.player = q.player
    /\ (p.plan = None) <=> (q.plan = None)
    /\ p.plan # None => p.plan.trajectory = q.plan.trajectory

LEMMA RestingTyped == Resting \in Players(Nat)
  BY DEF Resting, Players

LEMMA PanelPut ==
    \A p \in Panels :
        /\ \A x \in Goals \cup {None} : [p EXCEPT !.goal = x] \in Panels
        /\ \A x \in BOOLEAN : [p EXCEPT !.open = x] \in Panels
        /\ \A x \in Statuses : [p EXCEPT !.status = x] \in Panels
        /\ \A x \in Plans \cup {None} : [p EXCEPT !.plan = x] \in Panels
        /\ \A x \in Details : [p EXCEPT !.detail = x] \in Panels
        /\ \A x \in Players(Nat) : [p EXCEPT !.player = x] \in Panels
  BY DEF Panels

LEMMA ResetQuiet ==
    \A p \in Panels : resetPreview(p) \in Panels
        /\ resetPreview(p).plan = None /\ resetPreview(p).player = Resting
        /\ resetPreview(p).status = p.status /\ resetPreview(p).open = p.open
  BY RestingTyped DEF resetPreview, Panels

LEMMA SettledQuiet ==
    \A p \in Panels, status \in Statuses :
        /\ settle(p, status) \in Panels
        /\ settle(p, status).plan = None /\ settle(p, status).player = Resting
        /\ settle(p, status).status = status /\ settle(p, status).open = p.open
<1>1. \A q \in Panels, status \in Statuses :
        LET s == [q EXCEPT !.status = status]
        IN s \in Panels /\ s.plan = q.plan /\ s.player = q.player /\ s.status = status
           /\ s.open = q.open
  BY DEF Panels
<1>. QED  BY <1>1, ResetQuiet DEF settle

LEMMA ClearedQuiet ==
    \A p \in Panels :
        /\ clear(p) \in Panels /\ Quiet(clear(p)) /\ clear(p).status = "idle"
        /\ clear(p).open = p.open
<1>1. \A p : clear(p) = settle(p, "idle")
  BY DEF clear, settle
<1>2. "idle" \in Statuses
  BY DEF Statuses
<1>. QED  BY <1>1, <1>2, SettledQuiet DEF Quiet

\* An idle panel offers nothing already.
LEMMA InvalidatedQuiet ==
    \A p \in Panels :
        (p.status = "idle" => Quiet(p)) =>
            /\ invalidateOn(p) \in Panels /\ Quiet(invalidateOn(p))
            /\ invalidateOn(p).status = "idle" /\ invalidateOn(p).open = p.open
  BY ClearedQuiet DEF invalidateOn

LEMMA AlikeShow ==
    \A p, q : Alike(p, q) => ShownBy(p) = ShownBy(q)
  BY DEF Alike, ShownBy, playbackFrames

\* A twin for every panel that offers something, and those of the panels
\* that no longer do are taken away.
LEMMA TwinsDropped ==
    ASSUME PreviewInv, NEW fs \in SUBSET Frames,
           twins' = twins \ TwinsOf(fs),
           \A f \in fs : f \notin Ready',
           \A f \in Frames \ fs : Alike(panels'[f], panels[f])
    PROVE  TwinsShowStep'
<1>1. twins = {[frame |-> f, shows |-> ShownBy(panels[f])] : f \in Ready}
  BY DEF PreviewInv, TwinsShowStep, ShownBy
<1>2. Ready \subseteq Frames /\ Ready' = Ready \ fs
  BY DEF Ready, Opened, Alike
<1>3. twins' = {[frame |-> f, shows |-> ShownBy(panels[f])] : f \in Ready \ fs}
  <2>. HIDE DEF Ready, ShownBy
  <2>. QED  BY <1>1 DEF TwinsOf
<1>4. \A f \in Ready' : ShownBy(panels'[f]) = ShownBy(panels[f])
  BY <1>2, AlikeShow
<1>5. twins' = {[frame |-> f, shows |-> ShownBy(panels'[f])] : f \in Ready'}
  <2>. HIDE DEF Ready, ShownBy
  <2>. QED  BY <1>2, <1>3, <1>4
<1>. QED  BY <1>5 DEF TwinsShowStep, ShownBy

\* What most steps do: panels `fs` offer nothing afterwards, the others what
\* they offered.
LEMMA QuietKeeps ==
    ASSUME PreviewInv, NEW fs \in SUBSET Frames,
           panels' \in [Frames -> Panels],
           \A f \in fs :
                /\ Quiet(panels'[f])
                /\ panels'[f].status = "planning" => \E r \in requests' : r.frame = f /\ r.current,
           \A f \in Frames \ fs : Alike(panels'[f], panels[f]),
           twins' = twins \ TwinsOf(fs),
           \A r \in requests : r.frame \notin fs /\ r.current
                => \E s \in requests' : s.frame = r.frame /\ s.current,
           armedFrame' \in Opened' \cup {None}
    PROVE  PreviewInv'
<1>1. \A f \in fs : f \notin Ready' /\ panels'[f].plan = None
  BY DEF Quiet, Ready
<1>2. TwinsShowStep'
  BY <1>1, TwinsDropped
<1>3. ASSUME NEW f \in Frames
      PROVE  /\ (panels'[f].plan # None) <=> (f \in Ready')
             /\ f \notin Ready' => panels'[f].player = Resting
             /\ panels'[f].status = "planning" => \E r \in requests' : r.frame = f /\ r.current
  <2>1. CASE f \in fs
    BY <1>1, <2>1 DEF Quiet
  <2>2. CASE f \notin fs
    <3>1. Alike(panels'[f], panels[f])
      BY <2>2
    <3>2. f \in Ready' <=> f \in Ready
      BY <3>1 DEF Ready, Opened, Alike
    <3>3. panels'[f].status = "planning" => \E r \in requests' : r.frame = f /\ r.current
      BY <2>2, <3>1 DEF PreviewInv, Alike
    <3>. QED  BY <3>1, <3>2, <3>3 DEF PreviewInv, Alike
  <2>. QED  BY <2>1, <2>2
<1>. QED  BY <1>2, <1>3 DEF PreviewInv

LEMMA AlikeItself == \A p : Alike(p, p)
  BY DEF Alike

\* Requests of the panels that are not abandoned stay as they are.
LEMMA AbandonLeaves ==
    ASSUME NEW fs, Abandon(fs)
    PROVE  /\ twins' = twins \ TwinsOf(fs)
           /\ \A r \in requests : r.frame \notin fs /\ r.current
                => \E s \in requests' : s.frame = r.frame /\ s.current
<1>1. \A r \in requests : r.frame \notin fs => r \in requests'
  BY DEF Abandon
<1>. QED  BY <1>1 DEF Abandon

\* One panel offers nothing afterwards and stays open or closed.
LEMMA OneQuietKeeps ==
    ASSUME PreviewInv, NEW f \in Frames, NEW p \in Panels,
           panels' = [panels EXCEPT ![f] = p],
           Quiet(p), p.status # "planning", p.open = panels[f].open,
           Abandon({f}) \/ (twins' = twins \ TwinsOf({f})
                /\ \A r \in requests : r.frame # f /\ r.current => r \in requests'),
           UNCHANGED armedFrame
    PROVE  PreviewInv'
<1>1. /\ panels' \in [Frames -> Panels] /\ panels'[f] = p
      /\ \A g \in Frames \ {f} : panels'[g] = panels[g]
  BY DEF PreviewInv
<1>2. \A g \in Frames \ {f} : Alike(panels'[g], panels[g])
  BY <1>1, AlikeItself
<1>3. /\ twins' = twins \ TwinsOf({f})
      /\ \A r \in requests : r.frame \notin {f} /\ r.current
            => \E s \in requests' : s.frame = r.frame /\ s.current
  BY AbandonLeaves
<1>4. \A g \in Frames : panels'[g].open = panels[g].open
  BY <1>1
<1>5. armedFrame' \in Opened' \cup {None}
  BY <1>4 DEF PreviewInv, Opened
<1>6. \A g \in {f} :
        /\ Quiet(panels'[g])
        /\ panels'[g].status = "planning" => \E r \in requests' : r.frame = g /\ r.current
  BY <1>1
<1>. QED  BY <1>1, <1>2, <1>3, <1>5, <1>6, QuietKeeps

LEMMA SelectPreviews ==
    ASSUME PreviewInv, NEW selected \in SUBSET Frames, Select(selected)
    PROVE  PreviewInv'
<1>. DEFINE fresh == selected \ Opened
            gone == Opened \ selected
            fs == fresh \cup gone
<1>0. /\ panels' = [f \in Frames |-> IF f \in fresh THEN Mounted(panels[f])
                                     ELSE IF f \in gone THEN Unmounted(panels[f])
                                     ELSE panels[f]]
      /\ Abandon(gone)
      /\ \/ armedFrame' \in fresh
         \/ fresh = {} /\ armedFrame' = IF armedFrame \in gone THEN None ELSE armedFrame
  BY DEF Select
<1>1. /\ fs \in SUBSET Frames /\ fresh \subseteq Frames /\ gone \subseteq Opened
      /\ \A f \in fresh : f \notin Ready /\ f \notin gone
      /\ \A f \in Frames \ fs : f \in selected <=> f \in Opened
      /\ \A f \in Opened : f \in gone \/ f \in Frames \ fs
  BY DEF Opened, Ready
<1>2. \A f \in Frames :
        /\ Mounted(panels[f]) \in Panels /\ Quiet(Mounted(panels[f]))
        /\ Mounted(panels[f]).open /\ Mounted(panels[f]).status = "idle"
  BY RestingTyped DEF Mounted, Panels, Quiet, Statuses, Details
<1>3. \A f \in Frames :
        /\ Unmounted(panels[f]) \in Panels /\ Quiet(Unmounted(panels[f]))
        /\ ~Unmounted(panels[f]).open /\ Unmounted(panels[f]).status = "idle"
  <2>. SUFFICES ASSUME NEW f \in Frames
                PROVE  /\ Unmounted(panels[f]) \in Panels /\ Quiet(Unmounted(panels[f]))
                       /\ ~Unmounted(panels[f]).open /\ Unmounted(panels[f]).status = "idle"
    OBVIOUS
  <2>. DEFINE q == resetPreview(panels[f])
  <2>1. q \in Panels /\ q.plan = None /\ q.player = Resting
    BY ResetQuiet DEF PreviewInv
  <2>2. Unmounted(panels[f]) = [q EXCEPT !.open = FALSE, !.goal = None, !.status = "idle"]
    BY DEF Unmounted
  <2>. HIDE DEF q
  <2>. QED  BY <2>1, <2>2 DEF Panels, Quiet, Statuses
<1>4. /\ panels' \in [Frames -> Panels]
      /\ \A f \in fs : Quiet(panels'[f]) /\ panels'[f].status = "idle"
      /\ \A f \in Frames \ fs : panels'[f] = panels[f]
  <2>. HIDE DEF fresh, gone
  <2>. QED  BY <1>0, <1>1, <1>2, <1>3 DEF PreviewInv
<1>5. twins' = twins \ TwinsOf(fs)
  <2>1. \A t \in twins : t.frame \in Ready
    BY DEF PreviewInv, TwinsShowStep
  <2>. QED  BY <1>0, <1>1, <2>1 DEF Abandon, TwinsOf
<1>6. \A r \in requests : r.frame \notin fs /\ r.current
         => \E s \in requests' : s.frame = r.frame /\ s.current
  BY <1>0, AbandonLeaves
<1>7. armedFrame' \in Opened' \cup {None}
  <2>1. \A f \in fresh : f \in Frames /\ panels'[f].open
    BY <1>0, <1>1, <1>2
  <2>2. \A f \in Opened : f \notin gone => f \in Frames /\ panels'[f].open
    BY <1>1, <1>4 DEF Opened
  <2>3. armedFrame \in Opened \cup {None}
    BY DEF PreviewInv
  <2>4. \A f \in Frames : panels'[f].open => f \in Opened'
    BY DEF Opened
  <2>. HIDE DEF fresh, gone, Opened
  <2>. QED  BY <1>0, <2>1, <2>2, <2>3, <2>4
<1>. HIDE DEF fs
<1>8. \A f \in Frames \ fs : Alike(panels'[f], panels[f])
  BY <1>4, AlikeItself
<1>. QED  BY <1>1, <1>4, <1>5, <1>6, <1>7, <1>8, QuietKeeps

LEMMA UseItPreviews ==
    ASSUME PreviewInv, NEW f \in Frames, UseItHere(f)
    PROVE  PreviewInv'
  BY DEF PreviewInv, UseItHere, TwinsShowStep, Ready, Opened

\* The effects that drop what was planned for something else.
LEMMA InvalidatedPreviews ==
    ASSUME PreviewInv, NEW fs \in SUBSET Frames, NEW changed \in [Frames -> Panels],
           Invalidated(fs, changed), UNCHANGED armedFrame,
           \A f \in fs : /\ changed[f].status = panels[f].status
                         /\ changed[f].open = panels[f].open
                         /\ changed[f].plan = panels[f].plan
                         /\ changed[f].player = panels[f].player,
           \A f \in Frames \ fs : changed[f] = panels[f]
    PROVE  PreviewInv'
<1>1. \A f \in fs : changed[f].status = "idle" => Quiet(changed[f])
  BY DEF PreviewInv, Ready, Quiet
<1>2. \A f \in fs :
        /\ invalidateOn(changed[f]) \in Panels /\ Quiet(invalidateOn(changed[f]))
        /\ invalidateOn(changed[f]).status = "idle"
        /\ invalidateOn(changed[f]).open = changed[f].open
  BY <1>1, InvalidatedQuiet
<1>3. /\ panels' \in [Frames -> Panels]
      /\ \A f \in fs : Quiet(panels'[f]) /\ panels'[f].status = "idle"
      /\ \A f \in Frames \ fs : panels'[f] = panels[f]
      /\ \A f \in Frames : panels'[f].open = panels[f].open
  BY <1>2 DEF Invalidated
<1>4. Abandon(fs)
  BY DEF Invalidated
<1>5. armedFrame' \in Opened' \cup {None}
  BY <1>3 DEF PreviewInv, Opened
<1>6. \A f \in Frames \ fs : Alike(panels'[f], panels[f])
  BY <1>3, AlikeItself
<1>. QED  BY <1>3, <1>4, <1>5, <1>6, AbandonLeaves, QuietKeeps

LEMMA StagePreviews ==
    ASSUME PreviewInv, NEW f \in Frames, NEW goal \in Goals, stagePose(f, goal)
    PROVE  PreviewInv'
<1>. DEFINE p == [panels[f] EXCEPT !.goal = goal]
            changed == [panels EXCEPT ![f] = p]
<1>1. panels[f] \in Panels
  BY DEF PreviewInv
<1>2. /\ p \in Panels /\ p.status = panels[f].status /\ p.open = panels[f].open
      /\ p.plan = panels[f].plan /\ p.player = panels[f].player
  BY <1>1 DEF Panels
<1>3. Invalidated({f}, changed) /\ UNCHANGED armedFrame
  BY DEF stagePose
<1>. HIDE DEF p
<1>4. /\ changed \in [Frames -> Panels] /\ changed[f] = p
      /\ \A g \in Frames \ {f} : changed[g] = panels[g]
  BY <1>2 DEF PreviewInv
<1>. HIDE DEF changed
<1>. QED  BY <1>2, <1>3, <1>4, InvalidatedPreviews

LEMMA RestPreviews ==
    ASSUME PreviewInv, NEW fs \in SUBSET Frames, Invalidated(fs, panels), UNCHANGED armedFrame
    PROVE  PreviewInv'
<1>1. panels \in [Frames -> Panels]
  BY DEF PreviewInv
<1>. QED  BY <1>1, InvalidatedPreviews

LEMMA OptionsPreviews ==
    ASSUME PreviewInv, NEW f \in Frames, NEW o \in Options, ChangeOptions(f, o)
    PROVE  PreviewInv'
  BY RestPreviews DEF ChangeOptions

LEMMA RefetchPreviews ==
    ASSUME PreviewInv, NEW ps \in Parts, Refetch(ps)
    PROVE  PreviewInv'
<1>1. Opened \in SUBSET Frames
  BY DEF Opened
<1>. QED  BY <1>1, RestPreviews DEF Refetch

LEMMA RequestPreviews ==
    ASSUME PreviewInv, NEW f \in Frames, requestPreview(f)
    PROVE  PreviewInv'
<1>. DEFINE asked == [frame |-> f, current |-> TRUE, goal |-> panels[f].goal, options |-> options[f],
                      parts |-> parts, overtakenBy |-> {}]
<1>1. twins' = twins \ TwinsOf({f}) /\ UNCHANGED armedFrame /\ panels[f] \in Panels
  BY DEF requestPreview, PreviewInv
<1>2. CASE panels' = [panels EXCEPT ![f] = settle(@, "error")] /\ UNCHANGED requests
  <2>. DEFINE p == settle(panels[f], "error")
  <2>1. p \in Panels /\ Quiet(p) /\ p.status # "planning" /\ p.open = panels[f].open
    BY <1>1, SettledQuiet DEF Quiet, Statuses
  <2>2. panels' = [panels EXCEPT ![f] = p]
    BY <1>2
  <2>. HIDE DEF p
  <2>. QED  BY <1>1, <1>2, <2>1, <2>2, OneQuietKeeps
<1>3. CASE panels' = [panels EXCEPT ![f] = settle(@, "planning")] /\ requests' = requests \cup {asked}
  <2>. DEFINE p == settle(panels[f], "planning")
  <2>1. p \in Panels /\ Quiet(p) /\ p.status = "planning" /\ p.open = panels[f].open
    BY <1>1, SettledQuiet DEF Quiet, Statuses
  <2>2. panels' = [panels EXCEPT ![f] = p]
    BY <1>3
  <2>3. asked.frame = f /\ asked.current /\ asked \in requests'
    BY <1>3
  <2>. HIDE DEF p, asked
  <2>4. /\ panels' \in [Frames -> Panels] /\ panels'[f] = p
        /\ \A g \in Frames \ {f} : panels'[g] = panels[g]
    BY <2>1, <2>2 DEF PreviewInv
  <2>5. \A g \in Frames : panels'[g].open = panels[g].open
    BY <2>1, <2>4
  <2>6. armedFrame' \in Opened' \cup {None}
    BY <1>1, <2>5 DEF PreviewInv, Opened
  <2>7. \A g \in {f} : Quiet(panels'[g]) /\ \E r \in requests' : r.frame = g /\ r.current
    BY <2>1, <2>3, <2>4
  <2>8. \A r \in requests : r \in requests'
    BY <1>3
  <2>9. \A g \in Frames \ {f} : Alike(panels'[g], panels[g])
    BY <2>4, AlikeItself
  <2>. QED  BY <1>1, <2>4, <2>6, <2>7, <2>8, <2>9, QuietKeeps
<1>. QED  BY <1>2, <1>3 DEF requestPreview

LEMMA LandStalePreviews ==
    ASSUME PreviewInv, NEW r \in requests, LandStale(r)
    PROVE  PreviewInv'
  BY DEF PreviewInv, LandStale, isStale, TwinsShowStep, Ready, Opened

LEMMA LandWithoutPlanPreviews ==
    ASSUME Inv, PreviewInv, NEW r \in requests, NEW status \in {"already-at-goal", "error"},
           LandWithoutPlan(r, status)
    PROVE  PreviewInv'
<1>. DEFINE f == r.frame
            p == settle(panels[f], status)
<1>1. /\ ~isStale(r) /\ requests' = requests \ {r}
      /\ panels' = [panels EXCEPT ![f] = p]
      /\ UNCHANGED <<twins, armedFrame>>
  BY DEF LandWithoutPlan
<1>2. f \in Frames /\ panels[f] \in Panels /\ panels[f].status = "planning"
  BY <1>1, OnlyOneWaits DEF PreviewInv
<1>3. p \in Panels /\ Quiet(p) /\ p.status # "planning" /\ p.open = panels[f].open
  BY <1>2, SettledQuiet DEF Quiet, Statuses
<1>4. \A t \in twins : t.frame # f
  BY <1>2 DEF PreviewInv, TwinsShowStep, Ready
<1>5. twins' = twins \ TwinsOf({f})
  BY <1>1, <1>4 DEF TwinsOf
<1>6. \A s \in requests : s.frame # f /\ s.current => s \in requests'
  BY <1>1
<1>. HIDE DEF p, f
<1>. QED  BY <1>1, <1>2, <1>3, <1>5, <1>6, OneQuietKeeps

\* One panel offers a plan, and its twins are drawn where its player is.
LEMMA ShownKeeps ==
    ASSUME PreviewInv, NEW f \in Frames, NEW q \in Panels,
           panels' = [panels EXCEPT ![f] = q],
           panels[f].open, q.open, q.status = "ready", q.plan # None,
           twins' = (twins \ TwinsOf({f})) \cup {[frame |-> f, shows |-> ShownBy(q)]},
           \A r \in requests : r.frame # f /\ r.current => r \in requests',
           UNCHANGED armedFrame
    PROVE  PreviewInv'
<1>1. /\ panels' \in [Frames -> Panels] /\ panels'[f] = q
      /\ \A g \in Frames \ {f} : panels'[g] = panels[g]
  BY DEF PreviewInv
<1>2. /\ f \in Ready' /\ Ready \subseteq Frames /\ Opened' = Opened
      /\ Ready' = (Ready \ {f}) \cup {f}
  BY <1>1 DEF Ready, Opened
<1>3. twins = {[frame |-> g, shows |-> ShownBy(panels[g])] : g \in Ready}
  BY DEF PreviewInv, TwinsShowStep, ShownBy
<1>4. twins' = {[frame |-> g, shows |-> ShownBy(panels[g])] : g \in Ready \ {f}}
                 \cup {[frame |-> f, shows |-> ShownBy(q)]}
  <2>. HIDE DEF Ready, ShownBy
  <2>. QED  BY <1>3 DEF TwinsOf
<1>5. twins' = {[frame |-> g, shows |-> ShownBy(panels'[g])] : g \in Ready'}
  <2>. DEFINE Twin(g) == [frame |-> g, shows |-> ShownBy(panels'[g])]
  <2>1. \A g \in Ready \ {f} : [frame |-> g, shows |-> ShownBy(panels[g])] = Twin(g)
    BY <1>1, <1>2
  <2>2. [frame |-> f, shows |-> ShownBy(q)] = Twin(f)
    BY <1>1
  <2>3. twins' = {Twin(g) : g \in Ready \ {f}} \cup {Twin(f)}
    <3>. HIDE DEF Twin, Ready
    <3>. QED  BY <1>4, <2>1, <2>2
  <2>4. twins' = {Twin(g) : g \in Ready'}
    <3>. HIDE DEF Twin, Ready
    <3>. QED  BY <1>2, <2>3
  <2>. QED  BY <2>4
<1>6. TwinsShowStep'
  BY <1>5 DEF TwinsShowStep, ShownBy
<1>7. ASSUME NEW g \in Frames
      PROVE  /\ (panels'[g].plan # None) <=> (g \in Ready')
             /\ g \notin Ready' => panels'[g].player = Resting
             /\ panels'[g].status = "planning" => \E r \in requests' : r.frame = g /\ r.current
  <2>1. CASE g = f
    BY <1>1, <1>2, <2>1
  <2>2. CASE g # f
    <3>1. panels'[g] = panels[g] /\ (g \in Ready' <=> g \in Ready)
      BY <1>1, <1>2, <2>2
    <3>. QED  BY <2>2, <3>1 DEF PreviewInv
  <2>. QED  BY <2>1, <2>2
<1>8. armedFrame' \in Opened' \cup {None}
  BY <1>2 DEF PreviewInv
<1>. QED  BY <1>1, <1>6, <1>7, <1>8 DEF PreviewInv

\* A plan that is drawn afresh is drawn at the start, in either detail.
LEMMA DrawnAtStart ==
    \A q : q.plan \in Plans /\ q.player = Resting => ShownBy(q) = Waypoint(0)
  BY PlaybackTyped DEF ShownBy, Resting, Playbacks

LEMMA LandPlanPreviews ==
    ASSUME Inv, PreviewInv, NEW r \in requests, NEW trajectory \in Trajectories,
           LandPlan(r, trajectory)
    PROVE  PreviewInv'
<1>. DEFINE f == r.frame
            plan == [goal |-> r.goal, options |-> r.options, parts |-> r.parts,
                     overtakenBy |-> r.overtakenBy, trajectory |-> trajectory]
            q == [[panels[f] EXCEPT !.plan = plan] EXCEPT !.status = "ready"]
<1>1. /\ ~isStale(r) /\ requests' = requests \ {r}
      /\ panels' = [panels EXCEPT ![f] = q]
      /\ twins' = twins \cup {Spawned(f)} /\ UNCHANGED armedFrame
  BY DEF LandPlan
<1>2. /\ f \in Frames /\ panels[f] \in Panels
      /\ panels[f].open /\ panels[f].status = "planning"
  BY <1>1, OnlyOneWaits DEF PreviewInv
<1>3. plan \in Plans
  BY DEF Inv, Types, Requests, Plans
<1>4. panels[f].player = Resting
  BY <1>2 DEF PreviewInv, Ready
<1>. HIDE DEF f, plan
<1>5. /\ q \in Panels /\ q.open /\ q.status = "ready" /\ q.plan = plan /\ q.player = Resting
  BY <1>2, <1>3, <1>4 DEF Panels, Statuses
<1>. HIDE DEF q
<1>6. ShownBy(q) = Waypoint(0) /\ q.plan # None
  BY <1>3, <1>5, DrawnAtStart, NoneAssumption
<1>7. \A t \in twins : t.frame # f
  BY <1>2 DEF PreviewInv, TwinsShowStep, Ready
<1>8. twins' = (twins \ TwinsOf({f})) \cup {[frame |-> f, shows |-> ShownBy(q)]}
  BY <1>1, <1>6, <1>7 DEF TwinsOf, Spawned
<1>9. \A s \in requests : s.frame # f /\ s.current => s \in requests'
  BY <1>1 DEF f
<1>. QED  BY <1>1, <1>2, <1>5, <1>6, <1>8, <1>9, ShownKeeps

LEMMA DetailPreviews ==
    ASSUME Inv, PreviewInv, NEW f \in Frames, setDetail(f)
    PROVE  PreviewInv'
<1>. DEFINE other == IF panels[f].detail = "waypoints" THEN "interpolated" ELSE "waypoints"
            q == [[panels[f] EXCEPT !.detail = other] EXCEPT !.player = Resting]
<1>1. /\ f \in Ready /\ panels' = [panels EXCEPT ![f] = q] /\ ShowStep(f, q, 0)
      /\ UNCHANGED <<armedFrame, requests>>
  BY DEF setDetail
<1>2. /\ panels[f] \in Panels /\ panels[f].open /\ panels[f].status = "ready"
      /\ panels[f].plan # None
  BY <1>1 DEF PreviewInv, Ready, Opened
<1>3. other \in Details
  BY DEF Details
<1>. HIDE DEF other
<1>4. /\ q \in Panels /\ q.open /\ q.status = "ready" /\ q.plan # None /\ q.player = Resting
  BY <1>2, <1>3, RestingTyped DEF Panels
<1>. HIDE DEF q
<1>5. ShownBy(q) = playbackFrames(q)[0 + 1]
  BY <1>4 DEF ShownBy, Resting
<1>6. twins' = (twins \ TwinsOf({f})) \cup {[frame |-> f, shows |-> ShownBy(q)]}
  BY <1>1, <1>5 DEF ShowStep, NoStep
<1>. QED  BY <1>1, <1>2, <1>4, <1>6, ShownKeeps

\* An operation of the player either has a step drawn and is there, or
\* leaves its step alone.
Follow(p, s) ==
    /\ s.player \in Players(Nat)
    /\ \/ s.shows = NoStep /\ s.player.step = p.step
       \/ s.shows \in Nat /\ s.player.step = s.shows

LEMMA MoveFollows ==
    \A p \in Players(Nat), step \in Int, total \in Nat :
        Follow(p, moveTo(p, step, total, TRUE))
<1>. SUFFICES ASSUME NEW p \in Players(Nat), NEW step \in Int, NEW total \in Nat
              PROVE  Follow(p, moveTo(p, step, total, TRUE))
  OBVIOUS
<1>1. CASE total = 0
  BY <1>1 DEF moveTo, Still, Follow
<1>2. CASE total # 0
  <2>. DEFINE c == Clamped(step, total)
  <2>1. c \in Nat
    BY <1>2 DEF Clamped, lastStep
  <2>. HIDE DEF c
  <2>. DEFINE q == [p EXCEPT !.step = c]
              moved == moveTo(p, step, total, TRUE)
  <2>2. moved = [player |-> q, shows |-> c]
    BY <1>2 DEF moveTo, Drew, c
  <2>3. q \in Players(Nat) /\ q.step = c
    BY <2>1 DEF Players
  <2>. HIDE DEF q, moved
  <2>4. moved.player = q /\ moved.shows = c
    BY <2>2
  <2>5. Follow(p, moved)
    BY <2>1, <2>3, <2>4 DEF Follow
  <2>. QED  BY <2>5 DEF moved
<1>. QED  BY <1>1, <1>2

LEMMA PauseTyped ==
    \A p \in Players(Nat) : pause(p) \in Players(Nat) /\ pause(p).step = p.step
  BY DEF pause, Players

LEMMA PlayTyped ==
    \A p \in Players(Nat), total \in Nat :
        play(p, total) \in Players(Nat) /\ play(p, total).step = p.step
  BY DEF play, Players

LEMMA ToggleFollows ==
    \A p \in Players(Nat), total \in Nat : Follow(p, toggle(p, total, TRUE))
<1>. SUFFICES ASSUME NEW p \in Players(Nat), NEW total \in Nat
              PROVE  Follow(p, toggle(p, total, TRUE))
  OBVIOUS
<1>1. CASE p.playing
  BY <1>1, PauseTyped DEF toggle, Still, Follow
<1>2. CASE ~p.playing
  <2>. DEFINE rewound == IF p.step >= lastStep(total) THEN moveTo(p, 0, total, TRUE) ELSE Still(p)
  <2>1. Follow(p, rewound)
    <3>1. Follow(p, moveTo(p, 0, total, TRUE))
      <4>1. 0 \in Int
        OBVIOUS
      <4>. QED  BY <4>1, MoveFollows
    <3>2. Follow(p, Still(p))
      BY DEF Still, Follow
    <3>. QED  BY <3>1, <3>2
  <2>2. rewound = [player |-> rewound.player, shows |-> rewound.shows]
    BY DEF moveTo, Still, Drew
  <2>3. toggle(p, total, TRUE) = [rewound EXCEPT !.player = play(rewound.player, total)]
    BY <1>2 DEF toggle
  <2>. HIDE DEF rewound
  <2>4. /\ toggle(p, total, TRUE).player = play(rewound.player, total)
        /\ toggle(p, total, TRUE).shows = rewound.shows
    BY <2>2, <2>3
  <2>. QED  BY <2>1, <2>4, PlayTyped DEF Follow
<1>. QED  BY <1>1, <1>2

LEMMA ScrubbedFollows ==
    ASSUME NEW p \in Players(Nat), NEW total \in Nat,
           NEW s \in Scrubbed(p, total, TRUE) \cup {tick(p, total, TRUE)}
    PROVE  Follow(p, s)
<1>1. pause(p) \in Players(Nat) /\ pause(p).step = p.step /\ p.step \in Nat
  BY PauseTyped DEF Players
<1>2. \A step \in Int : Follow(p, moveTo(pause(p), step, total, TRUE))
  BY <1>1, MoveFollows DEF Follow
<1>3. \A delta \in {-1, 1} : p.step + delta \in Int
  BY <1>1
<1>4. lastStep(total) \in Nat
  BY DEF lastStep
<1>5. Follow(p, Still(pause(p)))
  BY <1>1 DEF Still, Follow
<1>6. Follow(p, tick(p, total, TRUE))
  <2>1. p.step + 1 \in Int
    BY <1>1
  <2>2. Follow(p, moveTo(p, p.step + 1, total, TRUE))
    BY <2>1, MoveFollows
  <2>. QED  BY <1>5, <2>2 DEF tick
<1>7. CASE s = toggle(p, total, TRUE)
  BY <1>7, ToggleFollows
<1>8. ASSUME NEW step \in 0..lastStep(total), s = seek(p, step, total, TRUE)
      PROVE  Follow(p, s)
  <2>1. step \in Int
    BY <1>4
  <2>. QED  BY <1>2, <1>8, <2>1 DEF seek
<1>9. ASSUME NEW delta \in {-1, 1}, s = stepBy(p, delta, total, TRUE)
      PROVE  Follow(p, s)
  BY <1>2, <1>3, <1>9, <1>1 DEF stepBy
<1>. QED  BY <1>6, <1>7, <1>8, <1>9 DEF Scrubbed

LEMMA PlayingPreviews ==
    ASSUME Inv, PreviewInv, NEW f \in Frames, Playing(f)
    PROVE  PreviewInv'
<1>. DEFINE p == panels[f]
            total == totalSteps(p)
<1>1. /\ p \in Panels /\ p.open /\ p.status = "ready" /\ p.plan \in Plans /\ p.plan # None
      /\ f \in Ready /\ p.player \in Players(Nat)
  BY DEF Playing, PreviewInv, Ready, Opened, Panels
<1>2. total \in Nat
  BY <1>1, PlaybackTyped DEF totalSteps, Playbacks
<1>3. PICK s \in Scrubbed(p.player, total, TRUE) \cup {tick(p.player, total, TRUE)} :
        /\ panels' = [panels EXCEPT ![f].player = s.player]
        /\ ShowStep(f, p, s.shows)
        /\ UNCHANGED <<armedFrame, requests>>
  BY DEF Playing
<1>4. Follow(p.player, s)
  BY <1>1, <1>2, <1>3, ScrubbedFollows
<1>. DEFINE q == [p EXCEPT !.player = s.player]
<1>5. panels' = [panels EXCEPT ![f] = q]
  BY <1>3
<1>. HIDE DEF p, total
<1>6. /\ q \in Panels /\ q.open /\ q.status = "ready" /\ q.plan = p.plan /\ q.detail = p.detail
      /\ q.player = s.player
  BY <1>1, <1>4 DEF Panels, Follow
<1>. HIDE DEF q
<1>7. playbackFrames(q) = playbackFrames(p)
  BY <1>6 DEF playbackFrames
<1>8. [frame |-> f, shows |-> ShownBy(p)] \in twins
      /\ \A t \in twins : t.frame = f => t = [frame |-> f, shows |-> ShownBy(p)]
  BY <1>1 DEF PreviewInv, TwinsShowStep, ShownBy, p
<1>9. twins' = (twins \ TwinsOf({f})) \cup {[frame |-> f, shows |-> ShownBy(q)]}
  <2>1. CASE s.shows = NoStep /\ s.player.step = p.player.step
    <3>1. ShownBy(q) = ShownBy(p)
      BY <2>1, <1>6, <1>7 DEF ShownBy
    <3>2. twins' = twins
      BY <2>1, <1>3 DEF ShowStep
    <3>. HIDE DEF ShownBy
    <3>. QED  BY <3>1, <3>2, <1>8 DEF TwinsOf
  <2>2. CASE s.shows \in Nat /\ s.player.step = s.shows
    <3>1. ShownBy(q) = playbackFrames(p)[s.shows + 1]
      BY <2>2, <1>6, <1>7 DEF ShownBy
    <3>2. s.shows # NoStep
      BY <2>2 DEF NoStep
    <3>. QED  BY <3>1, <3>2, <1>3 DEF ShowStep
  <2>. QED  BY <1>4, <2>1, <2>2 DEF Follow
<1>. QED  BY <1>1, <1>3, <1>5, <1>6, <1>9, ShownKeeps DEF p

LEMMA OvertakenAlike ==
    ASSUME NEW p \in Panels, NEW f \in Frames, p.plan # None,
           NEW q, q = [p EXCEPT !.plan = Overtaken(p.plan, f)]
    PROVE  q \in Panels /\ Alike(q, p)
<1>. DEFINE plan == Overtaken(p.plan, f)
<1>1. p.plan \in Plans
  BY DEF Panels
<1>2. plan \in Plans /\ plan.trajectory = p.plan.trajectory
  BY <1>1 DEF Overtaken, Plans
<1>3. plan # None
  BY <1>2, NoneAssumption
<1>. HIDE DEF plan
<1>4. q = [p EXCEPT !.plan = plan]
  BY DEF plan
<1>5. /\ q \in Panels /\ q.plan = plan /\ q.open = p.open /\ q.status = p.status
      /\ q.detail = p.detail /\ q.player = p.player
  BY <1>2, <1>4 DEF Panels
<1>. QED  BY <1>2, <1>3, <1>5 DEF Alike

LEMMA BeginPreviews ==
    ASSUME Inv, PreviewInv, NEW f \in Frames, NEW kind, NEW cleared \in SUBSET Frames,
           Begin(f, kind, cleared), UNCHANGED armedFrame
    PROVE  PreviewInv'
<1>. DEFINE base(g) == IF g \in cleared THEN clear(panels[g]) ELSE panels[g]
            behind(p) == IF p.plan = None THEN p ELSE [p EXCEPT !.plan = Overtaken(@, f)]
            left(r) == IF r.frame \in cleared THEN [r EXCEPT !.current = FALSE] ELSE r
<1>1. /\ panels' = [g \in Frames |-> behind(base(g))]
      /\ twins' = twins \ TwinsOf(cleared)
      /\ requests' = {Overtaken(left(r), f) : r \in requests}
  BY DEF Begin
<1>2. \A p \in Panels : behind(p) \in Panels /\ Alike(behind(p), p)
  BY OvertakenAlike, AlikeItself
<1>3. \A g \in cleared : /\ base(g) \in Panels /\ Quiet(base(g)) /\ base(g).status = "idle"
                         /\ base(g).open = panels[g].open /\ behind(base(g)) = base(g)
  BY ClearedQuiet DEF PreviewInv, Quiet
<1>4. \A g \in Frames \ cleared : base(g) = panels[g] /\ base(g) \in Panels
  BY DEF PreviewInv
<1>5. \A r \in requests : r.frame \notin cleared /\ r.current
         => \E s \in requests' : s.frame = r.frame /\ s.current
  <2>. SUFFICES ASSUME NEW r \in requests, r.frame \notin cleared, r.current
                PROVE  \E s \in requests' : s.frame = r.frame /\ s.current
    OBVIOUS
  <2>1. left(r) = r /\ Overtaken(left(r), f) \in requests'
    BY <1>1
  <2>2. Overtaken(r, f).frame = r.frame /\ Overtaken(r, f).current
    BY OvertakenRequest DEF Inv, Types
  <2>. QED  BY <2>1, <2>2
<1>. HIDE DEF base, behind, left
<1>6. /\ panels' \in [Frames -> Panels]
      /\ \A g \in cleared : Quiet(panels'[g]) /\ panels'[g].status = "idle"
      /\ \A g \in Frames \ cleared : Alike(panels'[g], panels[g])
      /\ \A g \in Frames : panels'[g].open = panels[g].open
  BY <1>1, <1>2, <1>3, <1>4 DEF Alike
<1>7. armedFrame' \in Opened' \cup {None}
  BY <1>6 DEF PreviewInv, Opened
<1>. QED  BY <1>1, <1>5, <1>6, <1>7, QuietKeeps

LEMMA ExecutePreviewedPreviews ==
    ASSUME Inv, PreviewInv, NEW f \in Frames, executePreviewedMove(f)
    PROVE  PreviewInv'
<1>1. Begin(f, "execute", {}) /\ UNCHANGED armedFrame /\ {} \in SUBSET Frames
  BY DEF executePreviewedMove, Begin
<1>. QED  BY <1>1, BeginPreviews

\* A panel that is reset offers nothing and keeps no goal.
LEMMA ResetTargetQuiet ==
    \A p \in Panels :
        /\ resetTarget(p) \in Panels /\ Quiet(resetTarget(p))
        /\ resetTarget(p).status = "idle" /\ resetTarget(p).open = p.open
<1>. SUFFICES ASSUME NEW p \in Panels, NEW q, q = [p EXCEPT !.goal = None]
              PROVE  /\ clear(q) \in Panels /\ Quiet(clear(q))
                     /\ clear(q).status = "idle" /\ clear(q).open = p.open
  BY DEF resetTarget
<1>1. q \in Panels /\ q.open = p.open
  BY DEF Panels
<1>. QED  BY <1>1, ClearedQuiet

LEMMA ExecutePreviews ==
    ASSUME Inv, PreviewInv, NEW f \in Frames, executeMove(f)
    PROVE  PreviewInv'
<1>1. CASE Begin(f, "move", {f})
  <2>1. UNCHANGED armedFrame /\ {f} \in SUBSET Frames
    BY <1>1 DEF Begin
  <2>. QED  BY <1>1, <2>1, BeginPreviews
<1>2. CASE panels' = [panels EXCEPT ![f] = clear(@)] /\ Abandon({f}) /\ UNCHANGED armedFrame
  <2>. SUFFICES ASSUME NEW p, p = clear(panels[f])
                PROVE  PreviewInv'
    OBVIOUS
  <2>1. p \in Panels /\ Quiet(p) /\ p.status = "idle" /\ p.open = panels[f].open
    BY ClearedQuiet DEF PreviewInv
  <2>2. panels' = [panels EXCEPT ![f] = p]
    BY <1>2
  <2>. QED  BY <1>2, <2>1, <2>2, OneQuietKeeps
<1>. QED  BY <1>1, <1>2 DEF executeMove

LEMMA ResetPreviews ==
    ASSUME PreviewInv, NEW f \in Frames, Reset(f)
    PROVE  PreviewInv'
<1>. SUFFICES ASSUME NEW p, p = resetTarget(panels[f])
              PROVE  PreviewInv'
  OBVIOUS
<1>1. p \in Panels /\ Quiet(p) /\ p.status = "idle" /\ p.open = panels[f].open
  BY ResetTargetQuiet DEF PreviewInv
<1>2. panels' = [panels EXCEPT ![f] = p] /\ Abandon({f}) /\ UNCHANGED armedFrame
  BY DEF Reset
<1>. QED  BY <1>1, <1>2, OneQuietKeeps

LEMMA MoveEndsPreviews ==
    ASSUME Inv, PreviewInv, NEW m \in moves, NEW done \in BOOLEAN, MoveEnds(m, done)
    PROVE  PreviewInv'
<1>. SUFFICES ASSUME NEW f \in Frames, f = m.frame,
                     NEW drops, drops <=> m.mounted /\ (done \/ m.kind = "execute"),
                     NEW after, after = IF ~drops THEN panels[f]
                                        ELSE IF done THEN resetTarget(panels[f]) ELSE clear(panels[f])
              PROVE  PreviewInv'
  BY DEF Inv, Types, Moves
<1>1. /\ panels' = [panels EXCEPT ![f] = after]
      /\ IF drops THEN Abandon({f}) ELSE UNCHANGED <<twins, requests>>
      /\ UNCHANGED armedFrame
  BY DEF MoveEnds
<1>2. CASE drops
  <2>1. after \in Panels /\ Quiet(after) /\ after.status = "idle" /\ after.open = panels[f].open
    BY <1>2, ClearedQuiet, ResetTargetQuiet DEF PreviewInv
  <2>. QED  BY <1>1, <1>2, <2>1, OneQuietKeeps
<1>3. CASE ~drops
  <2>1. panels' = panels /\ UNCHANGED <<twins, requests, armedFrame>>
    BY <1>1, <1>3 DEF PreviewInv
  <2>. QED  BY <2>1 DEF PreviewInv, TwinsShowStep, Ready, Opened
<1>. QED  BY <1>2, <1>3

LEMMA InitPreview == Init => PreviewInv
<1>. SUFFICES ASSUME Init
              PROVE  PreviewInv
  OBVIOUS
<1>1. panels \in [Frames -> Panels]
  BY RestingTyped DEF Init, Panels, Statuses, Details
<1>2. Opened = {} /\ Ready = {}
  BY DEF Init, Opened, Ready
<1>. QED  BY <1>1, <1>2 DEF Init, PreviewInv, TwinsShowStep

LEMMA NextKeepsPreviews == Inv /\ PreviewInv /\ [Next]_vars => PreviewInv'
<1>. SUFFICES ASSUME Inv, PreviewInv, [Next]_vars
              PROVE  PreviewInv'
  OBVIOUS
<1>1. CASE UNCHANGED vars
  BY <1>1 DEF vars, PreviewInv, TwinsShowStep, Ready, Opened
<1>2. CASE Next
  BY <1>2, SelectPreviews, UseItPreviews, StagePreviews, OptionsPreviews, RefetchPreviews,
     RequestPreviews, LandStalePreviews, LandPlanPreviews, LandWithoutPlanPreviews,
     DetailPreviews, PlayingPreviews, ExecutePreviewedPreviews, ExecutePreviews,
     MoveEndsPreviews, ResetPreviews DEF Next
<1>. QED  BY <1>1, <1>2

LEMMA PreviewsHold == Spec => []PreviewInv
  BY InvHolds, InitPreview, NextKeepsPreviews, PTL DEF Spec

\* The small print of the type invariant: a panel has a plan just when it
\* is ready, a request it waits for just when it is planning.
THEOREM MovePanelsTypes == Spec => []TypeOK
<1>1. Inv /\ PreviewInv => TypeOK
  <2>. SUFFICES ASSUME Inv, PreviewInv
                PROVE  TypeOK
    OBVIOUS
  <2>1. \A f \in Frames :
            (panels[f].status = "planning") <=> \E r \in requests : r.frame = f /\ r.current
    BY DEF Inv, Waited, PreviewInv
  <2>. QED  BY <2>1 DEF Inv, Types, PreviewInv, TypeOK
<1>. QED  BY <1>1, InvHolds, PreviewsHold, PTL

\* A plan that usePreviewMove offers is for what its panel shows, and the
\* twins in the world are those of the panels that offer one, at the step
\* that the player of each is at.
THEOREM MovePanelsPreviewIsForGoal == Spec => []PreviewIsForGoal
<1>1. Inv /\ PreviewInv => PreviewIsForGoal
  BY DEF Inv, Offered, PlanIsForGoal, Ready, Opened, PreviewInv, PreviewIsForGoal
<1>. QED  BY <1>1, InvHolds, PreviewsHold, PTL

=============================================================================
