-------------------------- MODULE FrameEditsProofs --------------------------
(***************************************************************************)
(* Theorems about FrameEdits, and with it about PartConfig, for every set  *)
(* of frames, parts and reports and every bound.                           *)
(***************************************************************************)
EXTENDS FrameEdits, TLAPS

Snapshots == Config!Configs \cup {Config!Empty}

\* The hook between two steps and, with unlogged changes, within one.
RawPages ==
    [part : Parts, network : Snapshots \cup {None}, current : Snapshots \cup {None},
     isDirty : BOOLEAN, historySnapshot : Snapshots, changed : BOOLEAN,
     log : Seq(Snapshots), redo : Seq(Snapshots), ignore : BOOLEAN,
     historyActive : BOOLEAN, depth : 0..1, start : Snapshots, cleanSnapshot : Snapshots]
Pages == {p \in RawPages : p.changed = FALSE}

-----------------------------------------------------------------------------
(* What the operators of PartConfig do.                                    *)

LEMMA ContentsTypes ==
    /\ Original \in Contents
    /\ Blank \in [Frames -> {Missing}]
    /\ Config!Empty \in Snapshots
    /\ \A part \in Parts, content \in Contents : Config!Config(part, content) \in Snapshots
    /\ \A c \in Snapshots \cup {None} : Config!Snapshot(c) \in Snapshots
<1>1. 0 \in Poses
  BY FramesAssumption DEF Poses
<1> QED
  BY <1>1 DEF Original, Contents, Blank, Snapshots, Config!Configs, Config!Empty,
              Config!Config, Config!Snapshot

LEMMA SnapshotSet ==
    ASSUME NEW p \in RawPages, NEW snapshot \in Snapshots
    PROVE  /\ Config!SetSnapshot(p, snapshot) \in RawPages
           /\ Config!SetSnapshot(p, snapshot).historySnapshot = snapshot
           /\ Config!SetSnapshot(p, snapshot).part = p.part
           /\ Config!SetSnapshot(p, snapshot).network = p.network
           /\ Config!SetSnapshot(p, snapshot).current = p.current
           /\ Config!SetSnapshot(p, snapshot).isDirty = p.isDirty
           /\ Config!SetSnapshot(p, snapshot).historyActive = p.historyActive
           /\ Config!SetSnapshot(p, snapshot).depth = p.depth
           /\ Config!SetSnapshot(p, snapshot).start = p.start
           /\ Config!SetSnapshot(p, snapshot).cleanSnapshot = p.cleanSnapshot
<1> DEFINE changed == p.changed \/ snapshot # p.historySnapshot
<1>1. changed \in BOOLEAN
  OBVIOUS
<1>2. Config!SetSnapshot(p, snapshot) =
          [p EXCEPT !.historySnapshot = snapshot, !.changed = changed]
  BY DEF Config!SetSnapshot
<1> HIDE DEF changed
<1> QED
  BY <1>1, <1>2 DEF RawPages

(* The effects of usePartConfig keep what the caller set: a dirty page its *)
(* config, an open drag its history. A clean page takes the network's.     *)
LEMMA EffectsDo ==
    ASSUME NEW p \in RawPages
    PROVE  /\ Config!Effects(p) \in Pages
           /\ Config!Effects(p).part = p.part
           /\ Config!Effects(p).network = p.network
           /\ Config!Effects(p).isDirty = p.isDirty
           /\ Config!Effects(p).depth = p.depth
           /\ Config!Effects(p).start = p.start
           /\ Config!Effects(p).historyActive = p.historyActive
           /\ p.isDirty => /\ Config!Effects(p).current = p.current
                           /\ Config!Effects(p).cleanSnapshot = p.cleanSnapshot
           /\ ~p.isDirty /\ p.network # None => Config!Effects(p).current = p.network
           /\ p.network = None => Config!Effects(p).current = p.current
           /\ p.depth = 1 => Config!Effects(p).historySnapshot = p.historySnapshot
<1> DEFINE a == Config!FollowNetwork(p)
           b == Config!FollowConfig(a)
           c == Config!FollowClean(b)
<1>1. /\ a \in RawPages /\ a.part = p.part /\ a.network = p.network /\ a.isDirty = p.isDirty
      /\ a.depth = p.depth /\ a.start = p.start /\ a.historySnapshot = p.historySnapshot
      /\ a.historyActive = p.historyActive /\ a.cleanSnapshot = p.cleanSnapshot
      /\ p.isDirty \/ p.network = None => a.current = p.current
      /\ ~p.isDirty /\ p.network # None => a.current = p.network
  BY DEF Config!FollowNetwork, RawPages
<1> HIDE DEF a
<1>2. /\ b \in RawPages /\ b.part = a.part /\ b.network = a.network /\ b.isDirty = a.isDirty
      /\ b.depth = a.depth /\ b.start = a.start /\ b.current = a.current
      /\ b.historyActive = a.historyActive /\ b.cleanSnapshot = a.cleanSnapshot
      /\ a.depth = 1 => b.historySnapshot = a.historySnapshot
  <2>1. Config!Snapshot(a.current) \in Snapshots
    BY <1>1, ContentsTypes DEF RawPages
  <2>2. b = IF a.depth = 0 THEN Config!SetSnapshot(a, Config!Snapshot(a.current)) ELSE a
    BY DEF Config!FollowConfig
  <2> QED
    BY <1>1, <2>1, <2>2, SnapshotSet
<1> HIDE DEF b
<1>3. /\ c \in RawPages /\ c.part = b.part /\ c.network = b.network /\ c.isDirty = b.isDirty
      /\ c.depth = b.depth /\ c.start = b.start /\ c.current = b.current
      /\ c.historyActive = b.historyActive
      /\ b.isDirty => c.cleanSnapshot = b.cleanSnapshot
      /\ c.historySnapshot = b.historySnapshot
  <2>1. Config!Snapshot(b.current) \in Snapshots
    BY <1>2, ContentsTypes DEF RawPages
  <2> QED
    BY <1>2, <2>1 DEF Config!FollowClean, RawPages
<1> HIDE DEF c
<1>4. /\ Config!Log(c) \in Pages
      /\ Config!Log(c).part = c.part /\ Config!Log(c).network = c.network
      /\ Config!Log(c).isDirty = c.isDirty /\ Config!Log(c).depth = c.depth
      /\ Config!Log(c).start = c.start /\ Config!Log(c).current = c.current
      /\ Config!Log(c).historyActive = c.historyActive
      /\ Config!Log(c).historySnapshot = c.historySnapshot
      /\ Config!Log(c).cleanSnapshot = c.cleanSnapshot
  <2>1. Append(c.log, c.historySnapshot) \in Seq(Snapshots) /\ <<>> \in Seq(Snapshots)
    BY <1>3 DEF RawPages
  <2> QED
    BY <1>3, <2>1 DEF Config!Log, RawPages, Pages
<1>5. Config!Effects(p) = Config!Log(c)
  BY DEF Config!Effects, a, b, c
<1> QED
  BY <1>1, <1>2, <1>3, <1>4, <1>5

LEMMA StepDoes ==
    ASSUME NEW p \in RawPages, Config!Step(p), p.depth = 1 => p.historySnapshot = p.start
    PROVE  /\ page' \in Pages
           /\ CleanFollowsNetwork' /\ DragIsOneEntry'
           /\ page'.network = p.network /\ page'.isDirty = p.isDirty
           /\ p.isDirty => page'.current = p.current
           /\ p.network = None => page'.current = p.current
           /\ ~p.isDirty /\ p.network # None => page'.current = p.network
<1>1. page' = Config!Effects(p)
  BY DEF Config!Step
<1> QED
  BY <1>1, EffectsDo DEF CleanFollowsNetwork, Config!CleanFollowsNetwork,
                         DragIsOneEntry, Config!DragIsOneEntry

-----------------------------------------------------------------------------
(* The part config by itself: its types, CleanFollowsNetwork and            *)
(* DragIsOneEntry, through every operation.                                *)

Saves == [part : Parts, config : Snapshots, done : BOOLEAN]

ConfigTypes ==
    /\ stored \in [Parts -> Snapshots]
    /\ cache \in [Parts -> Snapshots \cup {None}]
    /\ fetch \in [part : Parts, config : Snapshots] \cup {None}
    /\ saves \in SUBSET Saves
    /\ page \in Pages
    /\ spent \in [changes : 0..MaxChanges, drags : 0..MaxDrags]

ConfigInv == ConfigTypes /\ CleanFollowsNetwork /\ DragIsOneEntry

LEMMA TypesAgree == Config!TypeOK <=> ConfigTypes
<1> DEFINE Typed == [part : Parts, network : Snapshots \cup {None},
                     current : Snapshots \cup {None}, isDirty : BOOLEAN,
                     historySnapshot : Snapshots, changed : {FALSE},
                     log : Seq(Snapshots), redo : Seq(Snapshots),
                     ignore : BOOLEAN, historyActive : BOOLEAN, depth : 0..1,
                     start : Snapshots, cleanSnapshot : Snapshots]
<1>1. Typed = Pages
  BY DEF Pages, RawPages
<1> QED
  BY <1>1 DEF Config!TypeOK, ConfigTypes, Snapshots, Saves

LEMMA Changes ==
    ASSUME ConfigTypes
    PROVE  /\ Config!Change => spent' \in [changes : 0..MaxChanges, drags : 0..MaxDrags]
           /\ Config!Drag => spent' \in [changes : 0..MaxChanges, drags : 0..MaxDrags]
BY FramesAssumption DEF ConfigTypes, Config!Change, Config!Drag

\* A call that leaves everything but the page and the budget alone.
LEMMA PageSteps ==
    ASSUME ConfigInv, UNCHANGED <<stored, cache, fetch, saves>>,
           UNCHANGED spent \/ Config!Change \/ Config!Drag,
           NEW p \in RawPages, Config!Step(p), p.depth = 1 => p.historySnapshot = p.start
    PROVE  ConfigInv'
BY StepDoes, Changes DEF ConfigInv, ConfigTypes

LEMMA ConfigInit == Init => ConfigInv
<1> SUFFICES ASSUME Init PROVE ConfigInv
  OBVIOUS
<1>1. PICK part \in Parts :
          page = [part |-> part, network |-> None, current |-> None,
                  isDirty |-> FALSE, historySnapshot |-> Config!Empty, changed |-> FALSE,
                  log |-> <<Config!Empty>>, redo |-> <<>>, ignore |-> FALSE,
                  historyActive |-> FALSE, depth |-> 0, start |-> Config!Empty,
                  cleanSnapshot |-> Config!Empty]
  BY DEF Init, Config!Init
<1>2. <<Config!Empty>> \in Seq(Snapshots) /\ <<>> \in Seq(Snapshots)
  BY ContentsTypes
<1>3. page \in Pages
  BY <1>1, <1>2, ContentsTypes DEF Pages, RawPages
<1>4. /\ stored \in [Parts -> Snapshots] /\ cache \in [Parts -> Snapshots \cup {None}]
      /\ fetch = None /\ saves = {} /\ spent \in [changes : 0..MaxChanges, drags : 0..MaxDrags]
  BY ContentsTypes, FramesAssumption DEF Init, Config!Init
<1> QED
  BY <1>1, <1>3, <1>4 DEF ConfigInv, ConfigTypes, CleanFollowsNetwork,
        Config!CleanFollowsNetwork, DragIsOneEntry, Config!DragIsOneEntry

\* What the page shows is what the answer brought, when nothing is edited.
LEMMA FetchArrivesDoes ==
    ASSUME ConfigInv, Config!FetchArrives
    PROVE  /\ ConfigInv' /\ page'.isDirty = page.isDirty
           /\ page.isDirty \/ fetch.part # page.part => page'.current = page.current
<1> DEFINE p == IF fetch.part = page.part THEN [page EXCEPT !.network = fetch.config] ELSE page
<1>1. fetch \in [part : Parts, config : Snapshots]
  BY DEF Config!FetchArrives, ConfigInv, ConfigTypes
<1>2. /\ p \in RawPages /\ p.isDirty = page.isDirty /\ p.current = page.current
      /\ p.historySnapshot = page.historySnapshot /\ p.start = page.start /\ p.depth = page.depth
      /\ fetch.part # page.part => p.network = page.network
  BY <1>1 DEF ConfigInv, ConfigTypes, Pages, RawPages
<1>3. Config!Step(p)
  BY DEF Config!FetchArrives
<1> HIDE DEF p
<1>4. p.depth = 1 => p.historySnapshot = p.start
  BY <1>2 DEF ConfigInv, DragIsOneEntry, Config!DragIsOneEntry
<1>5. /\ page' \in Pages /\ CleanFollowsNetwork' /\ DragIsOneEntry'
      /\ page'.isDirty = page.isDirty
      /\ p.isDirty => page'.current = p.current
      /\ p.network = None => page'.current = p.current
      /\ ~p.isDirty /\ p.network # None => page'.current = p.network
  BY <1>2, <1>3, <1>4, StepDoes
<1>6. page.isDirty \/ fetch.part # page.part => page'.current = page.current
  BY <1>2, <1>5 DEF ConfigInv, CleanFollowsNetwork, Config!CleanFollowsNetwork
<1>7. cache' \in [Parts -> Snapshots \cup {None}] /\ fetch' = None
  BY <1>1 DEF Config!FetchArrives, ConfigInv, ConfigTypes
<1>8. UNCHANGED <<stored, saves, spent>>
  BY DEF Config!FetchArrives
<1> QED
  BY <1>5, <1>6, <1>7, <1>8 DEF ConfigInv, ConfigTypes

\* A clean page with a config of the network's keeps it in every step that does
\* not touch either.
LEMMA StaysAsItIs ==
    ASSUME ConfigInv, NEW p \in RawPages, Config!Step(p),
           p.depth = 1 => p.historySnapshot = p.start,
           p.current = page.current, p.network = page.network,
           page.isDirty => p.isDirty
    PROVE  page'.current = page.current
BY StepDoes DEF ConfigInv, CleanFollowsNetwork, Config!CleanFollowsNetwork

LEMMA SelectPartDoes ==
    ASSUME ConfigInv, NEW part \in Parts, Config!SelectPart(part)
    PROVE  ConfigInv' /\ ~page'.isDirty
<1> DEFINE p == [page EXCEPT !.part = part, !.network = cache[part],
                             !.isDirty = FALSE, !.current = None,
                             !.historyActive = FALSE]
<1>1. p \in RawPages /\ p.isDirty = FALSE /\ p.depth = 0
  BY DEF ConfigInv, ConfigTypes, Pages, RawPages, Config!SelectPart
<1>2. Config!Step(p) /\ Config!Change /\ UNCHANGED <<stored, cache, fetch, saves>>
  BY DEF Config!SelectPart
<1> HIDE DEF p
<1> QED
  BY <1>1, <1>2, StepDoes, PageSteps

LEMMA EditDoes ==
    ASSUME ConfigInv, NEW content \in Contents, Config!Edit(content)
    PROVE  ConfigInv' /\ page'.isDirty /\ page'.current = Config!Config(page.part, content)
<1> DEFINE config0 == Config!Config(page.part, content)
           p == [page EXCEPT !.current = config0, !.isDirty = TRUE, !.historyActive = TRUE]
<1>1. config0 \in Snapshots
  BY ContentsTypes DEF ConfigInv, ConfigTypes, Pages, RawPages
<1>2. Config!Step(p) /\ Config!Change /\ UNCHANGED <<stored, cache, fetch, saves>>
  BY DEF Config!Edit
<1> HIDE DEF config0
<1>3. /\ p \in RawPages /\ p.isDirty = TRUE /\ p.current = config0
      /\ p.depth = page.depth /\ p.historySnapshot = page.historySnapshot
      /\ p.start = page.start
  BY <1>1 DEF ConfigInv, ConfigTypes, Pages, RawPages
<1> HIDE DEF p
<1>4. p.depth = 1 => p.historySnapshot = p.start
  BY <1>3 DEF ConfigInv, DragIsOneEntry, Config!DragIsOneEntry
<1> QED
  BY <1>2, <1>3, <1>4, StepDoes, PageSteps DEF config0

LEMMA EditMissesDoes ==
    ASSUME ConfigInv, NEW sets \in BOOLEAN, Config!EditMisses(sets)
    PROVE  /\ ConfigInv' /\ page'.current = page.current
           /\ page'.isDirty = (page.isDirty \/ sets)
<1> DEFINE dirty == page.isDirty \/ sets
           p == [page EXCEPT !.isDirty = dirty, !.historyActive = TRUE]
<1>1. dirty \in BOOLEAN /\ (page.isDirty => dirty)
  BY DEF ConfigInv, ConfigTypes, Pages, RawPages
<1>2. Config!Step(p) /\ Config!Change /\ UNCHANGED <<stored, cache, fetch, saves>>
  BY DEF Config!EditMisses
<1> HIDE DEF dirty
<1>3. /\ p \in RawPages /\ p.isDirty = dirty /\ p.current = page.current
      /\ p.depth = page.depth /\ p.historySnapshot = page.historySnapshot
      /\ p.start = page.start /\ p.network = page.network
  BY <1>1 DEF ConfigInv, ConfigTypes, Pages, RawPages
<1> HIDE DEF p
<1>4. p.depth = 1 => p.historySnapshot = p.start
  BY <1>3 DEF ConfigInv, DragIsOneEntry, Config!DragIsOneEntry
<1>5. ConfigInv' /\ page'.isDirty = dirty /\ page'.current = page.current
  BY <1>1, <1>2, <1>3, <1>4, StepDoes, PageSteps, StaysAsItIs
<1> QED
  BY <1>5 DEF dirty

LEMMA DragDoes ==
    ASSUME ConfigInv,
           Config!beginFrameEditHistoryEntry \/ Config!endFrameEditHistoryEntry
    PROVE  ConfigInv' /\ page'.current = page.current /\ page'.isDirty = page.isDirty
<1> DEFINE now == Config!Snapshot(page.current)
<1>1. /\ now \in Snapshots /\ Config!Empty \in Snapshots /\ page \in RawPages
      /\ 0 \in 0..1 /\ 1 \in 0..1 /\ TRUE \in BOOLEAN
  BY ContentsTypes DEF ConfigInv, ConfigTypes, Pages, RawPages
<1>2. CASE Config!beginFrameEditHistoryEntry
  <2> DEFINE q == [page EXCEPT !.historyActive = TRUE, !.depth = 1, !.start = now]
             p == Config!SetSnapshot(q, now)
  <2>1. Config!Step(p) /\ Config!Drag /\ UNCHANGED <<stored, cache, fetch, saves>>
    BY <1>2 DEF Config!beginFrameEditHistoryEntry
  <2> HIDE DEF now
  <2>2. /\ q \in RawPages /\ q.start = now /\ q.current = page.current
        /\ q.isDirty = page.isDirty /\ q.network = page.network
    BY <1>1 DEF RawPages
  <2> HIDE DEF q
  <2>3. /\ p \in RawPages /\ p.start = now /\ p.current = page.current
        /\ p.isDirty = page.isDirty /\ p.network = page.network /\ p.historySnapshot = now
    BY <1>1, <2>2, SnapshotSet
  <2> HIDE DEF p
  <2> QED
    BY <2>1, <2>3, StepDoes, PageSteps, StaysAsItIs
<1>3. CASE Config!endFrameEditHistoryEntry
  <2> DEFINE q == [page EXCEPT !.depth = 0, !.start = Config!Empty]
             p == IF page.start = now THEN q ELSE Config!SetSnapshot(q, now)
  <2>1. Config!Step(p) /\ UNCHANGED <<stored, cache, fetch, saves, spent>>
    BY <1>3 DEF Config!endFrameEditHistoryEntry
  <2> HIDE DEF now
  <2>2. /\ q \in RawPages /\ q.current = page.current /\ q.depth = 0
        /\ q.isDirty = page.isDirty /\ q.network = page.network
    BY <1>1 DEF RawPages
  <2> HIDE DEF q
  <2>3. /\ p \in RawPages /\ p.current = page.current /\ p.depth = 0
        /\ p.isDirty = page.isDirty /\ p.network = page.network
    BY <1>1, <2>2, SnapshotSet
  <2> HIDE DEF p
  <2> QED
    BY <2>1, <2>3, StepDoes, PageSteps, StaysAsItIs
<1> QED
  BY <1>2, <1>3

\* What undo and redo leave but for the log.
LEMMA HistoryApplies ==
    ASSUME ConfigInv, NEW q \in RawPages, q.depth = 0, NEW target \in Snapshots,
           Config!Step(Config!applyHistorySnapshot(q, target)),
           UNCHANGED <<stored, cache, fetch, saves, spent>>
    PROVE  /\ ConfigInv' /\ page'.isDirty = (target # q.cleanSnapshot)
           /\ page'.isDirty => page'.current = target
<1> DEFINE dirty == target # q.cleanSnapshot
           r == [q EXCEPT !.current = target, !.isDirty = dirty]
           p == Config!SetSnapshot(r, target)
<1>1. Config!Step(p)
  BY DEF Config!applyHistorySnapshot
<1> HIDE DEF dirty
<1>2. dirty \in BOOLEAN
  BY DEF dirty
<1>3. r \in RawPages /\ r.current = target /\ r.isDirty = dirty /\ r.depth = 0
  BY <1>2 DEF RawPages
<1> HIDE DEF r
<1>4. p \in RawPages /\ p.current = target /\ p.isDirty = dirty /\ p.depth = 0
  BY <1>3, SnapshotSet
<1> HIDE DEF p
<1>5. ConfigInv' /\ page'.isDirty = dirty /\ (dirty => page'.current = target)
  BY <1>1, <1>4, StepDoes, PageSteps
<1> QED
  BY <1>5 DEF dirty

LEMMA UndoDoes ==
    ASSUME ConfigInv, Config!undoFrameEdit
    PROVE  LET target == page.log[Len(page.log) - 1]
           IN  /\ target \in Snapshots
               /\ ConfigInv' /\ page'.isDirty = (target # page.cleanSnapshot)
               /\ page'.isDirty => page'.current = target
<1> DEFINE n == Len(page.log)
           target == page.log[n - 1]
           q == [page EXCEPT !.log = SubSeq(page.log, 1, n - 1),
                             !.redo = Append(page.redo, page.log[n]), !.ignore = TRUE]
<1>1. /\ page \in RawPages /\ page.log \in Seq(Snapshots) /\ page.redo \in Seq(Snapshots)
      /\ n \in Nat /\ n > 1 /\ page.depth = 0
  BY DEF ConfigInv, ConfigTypes, Pages, RawPages, Config!undoFrameEdit, Config!canUseHistory
<1>2. /\ target \in Snapshots /\ page.log[n] \in Snapshots
      /\ SubSeq(page.log, 1, n - 1) \in Seq(Snapshots)
      /\ Append(page.redo, page.log[n]) \in Seq(Snapshots)
  BY <1>1
<1>3. /\ Config!Step(Config!applyHistorySnapshot(q, target))
      /\ UNCHANGED <<stored, cache, fetch, saves, spent>>
  BY DEF Config!undoFrameEdit
<1>4. q \in RawPages /\ q.depth = 0 /\ q.cleanSnapshot = page.cleanSnapshot
  BY <1>1, <1>2 DEF RawPages
<1> HIDE DEF q, n
<1> QED
  BY <1>2, <1>3, <1>4, HistoryApplies DEF n

LEMMA RedoDoes ==
    ASSUME ConfigInv, Config!redoFrameEdit
    PROVE  LET target == page.redo[Len(page.redo)]
           IN  /\ target \in Snapshots
               /\ ConfigInv' /\ page'.isDirty = (target # page.cleanSnapshot)
               /\ page'.isDirty => page'.current = target
<1> DEFINE n == Len(page.redo)
           target == page.redo[n]
           q == [page EXCEPT !.log = Append(page.log, target), !.ignore = TRUE,
                             !.redo = SubSeq(page.redo, 1, n - 1)]
<1>1. /\ page \in RawPages /\ page.log \in Seq(Snapshots) /\ page.redo \in Seq(Snapshots)
      /\ n \in Nat /\ n # 0 /\ page.depth = 0
  BY DEF ConfigInv, ConfigTypes, Pages, RawPages, Config!redoFrameEdit, Config!canUseHistory
<1>2. /\ target \in Snapshots
      /\ SubSeq(page.redo, 1, n - 1) \in Seq(Snapshots)
      /\ Append(page.log, target) \in Seq(Snapshots)
  BY <1>1
<1>3. Len(page.redo) = n
  OBVIOUS
<1>4. /\ Config!Step(Config!applyHistorySnapshot(q, target))
      /\ UNCHANGED <<stored, cache, fetch, saves, spent>>
  BY DEF Config!redoFrameEdit
<1>5. q \in RawPages /\ q.depth = 0 /\ q.cleanSnapshot = page.cleanSnapshot
  BY <1>1, <1>2 DEF RawPages
<1> HIDE DEF q, n
<1> QED
  BY <1>2, <1>4, <1>5, HistoryApplies DEF n

\* The history is dropped with the transaction that was open.
LEMMA Deactivated ==
    ASSUME ConfigInv
    PROVE  /\ Config!deactivateHistory(page) \in RawPages
           /\ Config!deactivateHistory(page).depth = 0
           /\ Config!deactivateHistory(page).current = page.current
           /\ Config!deactivateHistory(page).network = page.network
           /\ Config!deactivateHistory(page).part = page.part
           /\ Config!deactivateHistory(page).isDirty = page.isDirty
<1> DEFINE now == Config!Snapshot(page.current)
           q == [page EXCEPT !.historyActive = FALSE, !.depth = 0, !.start = Config!Empty]
<1>1. /\ now \in Snapshots /\ Config!Empty \in Snapshots /\ page \in RawPages
      /\ 0 \in 0..1 /\ FALSE \in BOOLEAN
  BY ContentsTypes DEF ConfigInv, ConfigTypes, Pages, RawPages
<1>2. Config!deactivateHistory(page) = Config!SetSnapshot(q, now)
  BY DEF Config!deactivateHistory
<1> HIDE DEF now
<1>3. /\ q \in RawPages /\ q.current = page.current /\ q.depth = 0
      /\ q.isDirty = page.isDirty /\ q.network = page.network /\ q.part = page.part
  BY <1>1 DEF RawPages
<1> HIDE DEF q
<1> QED
  BY <1>1, <1>2, <1>3, SnapshotSet

LEMMA SaveDoes ==
    ASSUME ConfigInv, Config!Save
    PROVE  ConfigInv' /\ page'.current = page.current /\ page'.isDirty = page.isDirty
<1> DEFINE saving == page.current # None /\ cache[page.part] # None
           idle == Config!deactivateHistory(page)
           p == IF saving THEN [idle EXCEPT !.network = page.current] ELSE idle
           s == [part |-> page.part, config |-> page.current, done |-> FALSE]
<1>1. /\ Config!Step(p) /\ UNCHANGED <<stored, cache, fetch, spent>>
      /\ saves' = IF ~saving THEN saves ELSE saves \cup {s}
  BY DEF Config!Save
<1>2. page \in Pages /\ page.part \in Parts /\ page.current \in Snapshots \cup {None}
      /\ saves \in SUBSET Saves
  BY DEF ConfigInv, ConfigTypes, Pages, RawPages
<1>3. /\ idle \in RawPages /\ idle.depth = 0 /\ idle.current = page.current
      /\ idle.network = page.network /\ idle.isDirty = page.isDirty
  BY Deactivated
<1>4. saving => s \in Saves
  BY <1>2 DEF Saves
<1> HIDE DEF idle, s
<1>5. /\ p \in RawPages /\ p.depth = 0 /\ p.current = page.current
      /\ p.isDirty = page.isDirty
      /\ IF saving THEN p.network = page.current /\ page.current # None
                   ELSE p.network = page.network
  BY <1>2, <1>3 DEF RawPages
<1> HIDE DEF p, saving
<1>6. /\ page' \in Pages /\ CleanFollowsNetwork' /\ DragIsOneEntry'
      /\ page'.isDirty = page.isDirty
      /\ p.isDirty => page'.current = p.current
      /\ p.network = None => page'.current = p.current
      /\ ~p.isDirty /\ p.network # None => page'.current = p.network
  BY <1>1, <1>5, StepDoes
<1>7. page'.current = page.current
  BY <1>5, <1>6 DEF ConfigInv, CleanFollowsNetwork, Config!CleanFollowsNetwork
<1>8. saves' \in SUBSET Saves
  BY <1>1, <1>2, <1>4
<1> QED
  BY <1>1, <1>6, <1>7, <1>8 DEF ConfigInv, ConfigTypes

LEMMA SaveReturnsDoes ==
    ASSUME ConfigInv, NEW s \in saves, Config!SaveReturns(s)
    PROVE  ConfigInv' /\ ~page'.isDirty
<1> DEFINE p == [page EXCEPT !.isDirty = FALSE]
<1>1. /\ p \in RawPages /\ p.isDirty = FALSE /\ p.depth = page.depth /\ p.start = page.start
      /\ p.historySnapshot = page.historySnapshot
  BY DEF ConfigInv, ConfigTypes, Pages, RawPages
<1>2. Config!Step(p) /\ UNCHANGED <<stored, cache, fetch, spent>> /\ saves' = saves \ {s}
  BY DEF Config!SaveReturns
<1> HIDE DEF p
<1>3. p.depth = 1 => p.historySnapshot = p.start
  BY <1>1 DEF ConfigInv, DragIsOneEntry, Config!DragIsOneEntry
<1>4. page' \in Pages /\ CleanFollowsNetwork' /\ DragIsOneEntry' /\ ~page'.isDirty
  BY <1>1, <1>2, <1>3, StepDoes
<1> QED
  BY <1>2, <1>4 DEF ConfigInv, ConfigTypes

LEMMA DiscardDoes ==
    ASSUME ConfigInv, Config!discardChanges
    PROVE  ConfigInv' /\ ~page'.isDirty
<1> DEFINE idle == Config!deactivateHistory(page)
           p == [idle EXCEPT !.current = page.network, !.isDirty = FALSE]
<1>1. Config!Step(p) /\ UNCHANGED <<stored, cache, fetch, saves, spent>>
  BY DEF Config!discardChanges
<1>2. idle \in RawPages /\ idle.depth = 0
  BY Deactivated
<1>3. page.network \in Snapshots \cup {None} /\ FALSE \in BOOLEAN
  BY DEF ConfigInv, ConfigTypes, Pages, RawPages
<1> HIDE DEF idle
<1>4. p \in RawPages /\ p.depth = 0 /\ p.isDirty = FALSE
  BY <1>2, <1>3 DEF RawPages
<1> HIDE DEF p
<1> QED
  BY <1>1, <1>4, StepDoes, PageSteps

\* What happens in the app leaves the page alone.
LEMMA AppDoes ==
    ASSUME ConfigInv,
           \/ Config!FetchServed
           \/ \E s \in saves : Config!SaveStored(s) \/ Config!SaveFails(s)
           \/ \E content \in Contents : Config!EditedElsewhere(content)
    PROVE  ConfigInv' /\ page' = page
<1>1. page.part \in Parts /\ saves \in SUBSET Saves
  BY DEF ConfigInv, ConfigTypes, Pages, RawPages
<1>2. CASE Config!FetchServed
  BY <1>1, <1>2 DEF Config!FetchServed, ConfigInv, ConfigTypes, CleanFollowsNetwork,
        Config!CleanFollowsNetwork, DragIsOneEntry, Config!DragIsOneEntry
<1>3. ASSUME NEW s \in saves, Config!SaveStored(s) \/ Config!SaveFails(s)
      PROVE  ConfigInv' /\ page' = page
  <2>1. s \in Saves /\ [s EXCEPT !.done = TRUE] \in Saves /\ s.part \in Parts /\ s.config \in Snapshots
    BY <1>1 DEF Saves
  <2>2. saves' \in SUBSET Saves /\ stored' \in [Parts -> Snapshots]
    BY <1>1, <1>3, <2>1 DEF Config!SaveStored, Config!SaveFails, ConfigInv, ConfigTypes
  <2>3. UNCHANGED <<cache, fetch, page, spent>>
    BY <1>3 DEF Config!SaveStored, Config!SaveFails
  <2> QED
    BY <2>2, <2>3 DEF ConfigInv, ConfigTypes, CleanFollowsNetwork,
          Config!CleanFollowsNetwork, DragIsOneEntry, Config!DragIsOneEntry
<1>4. ASSUME NEW content \in Contents, Config!EditedElsewhere(content)
      PROVE  ConfigInv' /\ page' = page
  <2>1. stored' \in [Parts -> Snapshots]
    BY <1>1, <1>4, ContentsTypes DEF Config!EditedElsewhere, ConfigInv, ConfigTypes
  <2>2. UNCHANGED <<cache, fetch, saves, page>> /\ Config!Change
    BY <1>4 DEF Config!EditedElsewhere
  <2> QED
    BY <2>1, <2>2, Changes DEF ConfigInv, ConfigTypes, CleanFollowsNetwork,
          Config!CleanFollowsNetwork, DragIsOneEntry, Config!DragIsOneEntry
<1> QED
  BY <1>2, <1>3, <1>4

-----------------------------------------------------------------------------
(* What the operators on the scene do.                                     *)

EntitySets == [Frames -> Entities \cup {None}]
FrameSets == [Frames -> Poses \cup {None}]

LEMMA Values ==
    /\ 0 \in Poses /\ \A x \in Int : x % N \in Poses
    /\ None \notin Poses /\ NoFrame \notin Poses /\ Missing \notin Poses
    /\ NoFrame # Missing /\ NoFrame # None /\ Missing # None
<1>1. N \in Nat /\ N > 0
  BY FramesAssumption
<1>2. \A x \in Int : x % N \in 0..(N - 1)
  BY <1>1
<1> QED
  BY <1>1, <1>2, FramesAssumption DEF Poses

LEMMA ContentType ==
    ASSUME NEW p \in RawPages
    PROVE  /\ Content(p) \in Contents \cup {Blank}
           /\ Content(p) \in [Frames -> Poses \cup {NoFrame, Missing}]
           /\ \A f \in Frames : f \in Declared(Content(p)) <=> Content(p)[f] \in Poses
           /\ \A f \in Frames : Content(p)[f] # Missing => Content(p) \in Contents
<1>1. Content(p) \in Contents \cup {Blank}
  <2>1. \A s \in Snapshots : s.content \in Contents \cup {Blank}
    BY DEF Snapshots, Config!Configs, Config!Empty
  <2> QED
    BY <2>1 DEF Content, RawPages
<1>2. Contents \subseteq [Frames -> Poses \cup {NoFrame, Missing}]
      /\ Blank \in [Frames -> Poses \cup {NoFrame, Missing}]
  BY DEF Contents, Blank
<1>3. \A f \in Frames : Content(p)[f] # Missing => Content(p) \in Contents
  BY <1>1 DEF Blank
<1> QED
  BY <1>1, <1>2, <1>3 DEF Declared

LEMMA LocalType == \A e \in Entities : Local(e) \in Poses
<1> SUFFICES ASSUME NEW e \in Entities PROVE Local(e) \in Poses
  OBVIOUS
<1>1. e.matrix \in Poses /\ e.live \in Poses /\ e.edited \in Poses \cup {None}
  BY DEF Entities
<1>2. CASE e.edited = None
  BY <1>1, <1>2 DEF Local
<1>3. CASE e.edited # None
  <2>1. e.live - e.matrix + e.edited \in Int
    BY <1>1, <1>3, FramesAssumption DEF Poses
  <2> QED
    BY <1>3, <2>1, Values DEF Local
<1> QED
  BY <1>2, <1>3

LEMMA UneditedType ==
    \A matrix \in Poses, live \in Poses :
        Unedited(matrix, live) \in Entities /\ Unedited(matrix, live).edited = None
BY TRUE \in BOOLEAN DEF Unedited, Entities

LEMMA UnstagedType ==
    \A e \in Entities : Unstaged(e) \in Entities /\ Unstaged(e).edited = None
BY TRUE \in BOOLEAN DEF Unstaged, Entities

LEMMA StagedType ==
    \A e \in Entities, pose \in Poses, b \in BOOLEAN :
        /\ Staged(e, pose, b) \in Entities /\ Staged(e, pose, b).edited = pose
        /\ Staged(e, pose, b).landed = b /\ Staged(e, pose, b).matrix = e.matrix
BY DEF Staged, Entities

LEMMA CurrentFramesType ==
    ASSUME NEW p \in RawPages, NEW seen \in FrameSets, NEW authoritative \in BOOLEAN
    PROVE  /\ CurrentFrames(Content(p), seen, authoritative) \in FrameSets
           /\ authoritative => \A f \in Frames :
                 /\ Content(p)[f] = NoFrame => CurrentFrames(Content(p), seen, authoritative)[f] = None
                 /\ Content(p)[f] \in Poses =>
                        CurrentFrames(Content(p), seen, authoritative)[f] = Content(p)[f]
<1> DEFINE content == Content(p)
<1>1. content \in [Frames -> Poses \cup {NoFrame, Missing}]
  BY ContentType
<1> HIDE DEF content
<1>2. /\ CurrentFrames(content, seen, authoritative) \in FrameSets
      /\ authoritative => \A f \in Frames :
            /\ content[f] = NoFrame => CurrentFrames(content, seen, authoritative)[f] = None
            /\ content[f] \in Poses => CurrentFrames(content, seen, authoritative)[f] = content[f]
  BY <1>1, Values DEF CurrentFrames, FrameSets
<1> QED
  BY <1>2 DEF content

\* A re-sync makes and takes away entities and moves baselines, not edits.
LEMMA SyncFramesDoes ==
    ASSUME NEW es \in EntitySets, NEW frames \in FrameSets, NEW frozen \in BOOLEAN
    PROVE  /\ SyncFrames(es, frames, frozen) \in EntitySets
           /\ \A f \in Frames :
                 LET e == SyncFrames(es, frames, frozen)[f]
                 IN  /\ e = None <=> frames[f] = None
                     /\ e # None =>
                          \/ e.edited = None
                          \/ es[f] # None /\ e.edited = es[f].edited /\ e.landed = es[f].landed
                     /\ e # None /\ es[f] # None /\ frozen => e = es[f]
<1> DEFINE synced == SyncFrames(es, frames, frozen)
<1>1. ASSUME NEW f \in Frames, frames[f] # None, es[f] = None
      PROVE  synced[f] \in Entities /\ synced[f].edited = None
  <2>1. frames[f] \in Poses
    BY <1>1 DEF FrameSets
  <2>2. synced[f] = Unedited(frames[f], frames[f])
    BY <1>1 DEF SyncFrames
  <2> QED
    BY <2>1, <2>2 DEF Unedited, Entities
<1>2. ASSUME NEW f \in Frames, frames[f] # None, es[f] # None
      PROVE  /\ synced[f] \in Entities /\ synced[f].edited = es[f].edited
             /\ synced[f].landed = es[f].landed
             /\ frozen => synced[f] = es[f]
  <2>1. frames[f] \in Poses /\ es[f] \in Entities
    BY <1>2 DEF FrameSets, EntitySets
  <2>2. synced[f] = IF frozen THEN es[f] ELSE [es[f] EXCEPT !.matrix = frames[f]]
    BY <1>2 DEF SyncFrames, Synced
  <2> QED
    BY <2>1, <2>2 DEF Entities
<1>3. \A f \in Frames : frames[f] = None => synced[f] = None
  BY DEF SyncFrames
<1>4. synced \in EntitySets
  <2>1. \A f \in Frames : synced[f] \in Entities \cup {None}
    BY <1>1, <1>2, <1>3
  <2> QED
    BY <2>1 DEF SyncFrames, EntitySets
<1> HIDE DEF synced
<1>5. \A f \in Frames :
         /\ synced[f] = None <=> frames[f] = None
         /\ synced[f] # None =>
              \/ synced[f].edited = None
              \/ /\ es[f] # None /\ synced[f].edited = es[f].edited
                 /\ synced[f].landed = es[f].landed
         /\ synced[f] # None /\ es[f] # None /\ frozen => synced[f] = es[f]
  BY <1>1, <1>2, <1>3, NoneAssumption
<1> QED
  BY <1>4, <1>5 DEF synced

\* A config put into the scene keeps the entities. As an edit it stages what it
\* declares, settled it leaves nothing staged.
LEMMA SnapshotApplied ==
    ASSUME NEW es \in EntitySets, NEW content \in [Frames -> Poses \cup {NoFrame, Missing}],
           NEW how \in {"edit", "save", "discard"}
    PROVE  LET applied == applyFrameHistorySnapshotToWorld(es, content, how)
           IN  /\ applied \in EntitySets
               /\ \A f \in Frames :
                     /\ applied[f] = None <=> es[f] = None
                     /\ es[f] # None /\ how # "edit" => applied[f].edited = None
                     /\ es[f] # None /\ how = "edit" /\ content[f] \in Poses =>
                            applied[f] = Staged(es[f], content[f], TRUE)
                     /\ es[f] # None /\ how = "save" /\ content[f] \in Poses =>
                            applied[f] = Unedited(content[f], Local(es[f]))
<1> DEFINE applied == applyFrameHistorySnapshotToWorld(es, content, how)
<1>1. \A f \in Frames : f \in Declared(content) <=> content[f] \in Poses
  BY DEF Declared
<1>2. applied = applyFrameHistorySnapshotToWorld(es, content, how)
  OBVIOUS
<1> HIDE DEF applied
<1>3. ASSUME NEW f \in Frames
      PROVE  /\ applied[f] \in Entities \cup {None}
             /\ applied[f] = None <=> es[f] = None
             /\ es[f] # None /\ how # "edit" => applied[f].edited = None
             /\ es[f] # None /\ how = "edit" /\ content[f] \in Poses =>
                    applied[f] = Staged(es[f], content[f], TRUE)
             /\ es[f] # None /\ how = "save" /\ content[f] \in Poses =>
                    applied[f] = Unedited(content[f], Local(es[f]))
  <2>1. CASE es[f] = None
    BY <1>2, <2>1 DEF applyFrameHistorySnapshotToWorld
  <2>2. CASE es[f] # None /\ content[f] \in Poses
    <3>1. es[f] \in Entities
      BY <2>2 DEF EntitySets
    <3>2. applied[f] = IF how = "edit" THEN Staged(es[f], content[f], TRUE)
                       ELSE Unedited(content[f], IF how = "save" THEN Local(es[f]) ELSE es[f].live)
      BY <1>1, <1>2, <2>2 DEF applyFrameHistorySnapshotToWorld, Settled
    <3> DEFINE After(e, pose) ==
          /\ Staged(e, pose, TRUE) \in Entities
          /\ Unedited(pose, Local(e)) \in Entities /\ Unedited(pose, Local(e)).edited = None
          /\ Unedited(pose, e.live) \in Entities /\ Unedited(pose, e.live).edited = None
    <3>3. \A e \in Entities, pose \in Poses : After(e, pose)
      <4>1. \A e \in Entities : e.live \in Poses
        BY DEF Entities
      <4> QED
        BY <4>1, TRUE \in BOOLEAN, StagedType, UneditedType, LocalType
    <3>4. After(es[f], content[f])
      BY <2>2, <3>1, <3>3
    <3>5. applied[f] \in Entities
      BY <3>2, <3>4
    <3>6. applied[f] # None
      BY <3>5, NoneAssumption
    <3>7. how # "edit" => applied[f].edited = None
      BY <3>2, <3>4
    <3> QED
      BY <2>2, <3>2, <3>5, <3>6, <3>7
  <2>3. CASE es[f] # None /\ content[f] \notin Poses
    <3>1. es[f] \in Entities
      BY <2>3 DEF EntitySets
    <3>2. applied[f] = IF how # "edit" \/ content[f] = NoFrame THEN Unstaged(es[f]) ELSE es[f]
      BY <1>1, <1>2, <2>3 DEF applyFrameHistorySnapshotToWorld
    <3>3. Unstaged(es[f]) \in Entities /\ Unstaged(es[f]).edited = None
      BY <3>1, UnstagedType
    <3> QED
      BY <2>3, <3>1, <3>2, <3>3, NoneAssumption
  <2> QED
    BY <2>1, <2>2, <2>3
<1>4. applied \in EntitySets
  BY <1>2, <1>3 DEF applyFrameHistorySnapshotToWorld, EntitySets
<1> QED
  BY <1>3, <1>4 DEF applied

LEMMA EditsReset ==
    ASSUME NEW es \in EntitySets
    PROVE  /\ resetStagedEdits(es) \in EntitySets
           /\ \A f \in Frames :
                 /\ resetStagedEdits(es)[f] = None <=> es[f] = None
                 /\ es[f] # None => resetStagedEdits(es)[f].edited = None
<1> DEFINE reset == resetStagedEdits(es)
<1>1. \A f \in Frames : reset[f] = IF es[f] = None THEN None ELSE Unstaged(es[f])
  BY DEF resetStagedEdits
<1>2. \A f \in Frames : es[f] # None => es[f] \in Entities
  BY DEF EntitySets
<1>3. \A f \in Frames :
         es[f] # None => Unstaged(es[f]) \in Entities /\ Unstaged(es[f]).edited = None
  BY <1>2, UnstagedType
<1>4. reset \in EntitySets
  BY <1>1, <1>3 DEF resetStagedEdits, EntitySets
<1> HIDE DEF reset
<1>5. \A f \in Frames :
         /\ reset[f] = None <=> es[f] = None
         /\ es[f] # None => reset[f].edited = None
  BY <1>1, <1>3, NoneAssumption
<1> QED
  BY <1>4, <1>5 DEF reset

-----------------------------------------------------------------------------
(* The inductive invariant: every edit the config took is marked dirty and *)
(* says what the config says, and where the config wins a component it     *)
(* gives no frame has no entity. The second half is what keeps createFrame *)
(* from finding an edit to overwrite.                                      *)

NothingLanded(es) ==
    \A f \in Frames : es[f] # None /\ es[f].edited # None => ~es[f].landed
Follows(es, content) ==
    \A f \in Frames :
        es[f] # None /\ es[f].edited # None /\ es[f].landed /\ content[f] \in Poses =>
            es[f].edited = content[f]
Drawn(es, content, authoritative) ==
    authoritative => \A f \in Frames : content[f] = NoFrame => es[f] = None

SceneTypes ==
    /\ entities \in EntitySets
    /\ reported \in FrameSets
    /\ connected \in BOOLEAN
    /\ mode \in {"monitor", "build"}

SceneInv ==
    /\ page.isDirty \/ NothingLanded(entities)
    /\ Follows(entities, Content(page))
    /\ Drawn(entities, Content(page), isConfigAuthoritative(mode, connected))

IInv == ConfigInv /\ SceneTypes /\ SceneInv

\* The steps of the two action properties.
KeepsPicture ==
    \A f \in Declared(Content(page)) :
        /\ saves' # saves /\ page.isDirty /\ ~page'.isDirty
        /\ page'.current = page.current /\ mode = "build"
        /\ entities[f] # None
        => entities'[f] # None /\ Local(entities'[f]) = Local(entities[f])

NotFought ==
    \A f \in Declared(Content(page)) :
        /\ page.isDirty /\ page'.isDirty /\ page'.current = page.current
        /\ entities[f] # None /\ entities'[f] # None
        /\ entities[f].edited # None /\ entities[f].landed
        => /\ entities'[f].edited = entities[f].edited
           /\ entities'[f].matrix = entities[f].matrix

\* What a handler that leaves the config as it was must leave of a staged edit.
EditsKept(es) ==
    page.isDirty /\ page'.isDirty /\ page'.current = page.current =>
        \A f \in Declared(Content(page)) :
            entities[f] # None /\ entities[f].edited # None /\ entities[f].landed =>
                /\ es[f] # None /\ es[f].edited = entities[f].edited
                /\ es[f].matrix = entities[f].matrix

\* What the effects need of the scene a handler left, and what they make of it.
LEMMA FlushDoes ==
    ASSUME page \in RawPages, page' \in RawPages, reported' \in FrameSets,
           connected' \in BOOLEAN, NEW es \in EntitySets, NEW new \in BOOLEAN,
           NEW how \in {"save", "discard"}, Flush(es, new, how),
           page'.isDirty => Follows(es, Content(page')),
           ~page.isDirty /\ ~page'.isDirty => NothingLanded(es),
           new \/ Drawn(es, Content(page'), isConfigAuthoritative(mode', connected'))
    PROVE  /\ entities' \in EntitySets /\ SceneInv'
           /\ page.isDirty /\ page'.isDirty =>
                 \A f \in Frames : es[f] # None /\ entities'[f] # None => entities'[f] = es[f]
           /\ page.isDirty /\ ~page'.isDirty /\ mode' = "build" /\ how = "save" =>
                 \A f \in Declared(Content(page')) :
                    es[f] # None => entities'[f] # None /\ Local(entities'[f]) = Local(es[f])
<1> DEFINE content == Content(page')
           authoritative == isConfigAuthoritative(mode', connected')
           frames == CurrentFrames(content, reported', authoritative)
           frozen == page'.isDirty \/ mode' = "build"
           synced == IF new THEN SyncFrames(es, frames, frozen) ELSE es
           settles == page.isDirty /\ ~page'.isDirty
<1>1. entities' = IF settles THEN applyFrameHistorySnapshotToWorld(synced, content, how)
                  ELSE synced
  BY DEF Flush
<1>2. content \in [Frames -> Poses \cup {NoFrame, Missing}]
      /\ \A f \in Frames : f \in Declared(content) <=> content[f] \in Poses
  BY ContentType
<1>3. authoritative \in BOOLEAN /\ frozen \in BOOLEAN
  BY DEF isConfigAuthoritative, RawPages
<1>4. /\ frames \in FrameSets
      /\ authoritative => \A f \in Frames :
            /\ content[f] = NoFrame => frames[f] = None
            /\ content[f] \in Poses => frames[f] = content[f]
  BY <1>3, CurrentFramesType
<1>5. page'.isDirty => Follows(es, content)
  OBVIOUS
<1>6. new \/ Drawn(es, content, authoritative)
  OBVIOUS
<1> HIDE DEF content, authoritative, frames
<1>7. /\ synced \in EntitySets
      /\ Drawn(synced, content, authoritative)
      /\ \A f \in Frames :
            synced[f] # None =>
               \/ synced[f].edited = None
               \/ /\ es[f] # None /\ synced[f].edited = es[f].edited
                  /\ synced[f].landed = es[f].landed
      /\ frozen => \A f \in Frames : synced[f] # None /\ es[f] # None => synced[f] = es[f]
  <2>1. CASE new
    <3>1. synced = SyncFrames(es, frames, frozen)
      BY <2>1
    <3> HIDE DEF synced, frozen
    <3>2. /\ synced \in EntitySets
          /\ \A f \in Frames :
                /\ synced[f] = None <=> frames[f] = None
                /\ synced[f] # None =>
                      \/ synced[f].edited = None
                      \/ /\ es[f] # None /\ synced[f].edited = es[f].edited
                         /\ synced[f].landed = es[f].landed
                /\ synced[f] # None /\ es[f] # None /\ frozen => synced[f] = es[f]
      BY <1>3, <1>4, <3>1, SyncFramesDoes
    <3> QED
      BY <1>4, <3>2 DEF Drawn
  <2>2. CASE ~new
    BY <1>6, <2>2
  <2> QED
    BY <2>1, <2>2
<1>8. authoritative /\ new =>
         \A f \in Frames : content[f] \in Poses => synced[f] # None
  <2> SUFFICES ASSUME authoritative, new, NEW f \in Frames, content[f] \in Poses
               PROVE  synced[f] # None
    OBVIOUS
  <2>1. frames[f] # None
    BY <1>4, Values
  <2> QED
    BY <1>3, <1>4, <2>1, SyncFramesDoes
<1> HIDE DEF synced
<1>9. CASE ~settles
  <2>1. entities' = synced
    BY <1>1, <1>9
  <2>2. Follows(synced, content) /\ (page'.isDirty \/ NothingLanded(synced))
    BY <1>5, <1>7, <1>9 DEF Follows, NothingLanded
  <2>3. SceneInv'
    BY <1>7, <2>1, <2>2 DEF SceneInv, content, authoritative
  <2> QED
    BY <1>7, <1>9, <2>1, <2>3
<1>10. CASE settles
  <2> DEFINE applied == applyFrameHistorySnapshotToWorld(synced, content, how)
  <2>1. entities' = applied
    BY <1>1, <1>10
  <2>0. page.isDirty /\ ~page'.isDirty
    BY <1>10
  <2> HIDE DEF settles
  <2>2. /\ applied \in EntitySets
        /\ \A f \in Frames :
              /\ applied[f] = None <=> synced[f] = None
              /\ synced[f] # None => applied[f].edited = None
              /\ synced[f] # None /\ how = "save" /\ content[f] \in Poses =>
                     applied[f] = Unedited(content[f], Local(synced[f]))
    <3>1. how \in {"edit", "save", "discard"} /\ how # "edit"
      OBVIOUS
    <3> QED
      BY <1>2, <1>7, <3>1, SnapshotApplied
  <2> HIDE DEF applied
  <2>3. /\ Follows(applied, content) /\ NothingLanded(applied)
        /\ Drawn(applied, content, authoritative)
    BY <1>7, <2>2 DEF Follows, NothingLanded, Drawn
  <2>4. SceneInv'
    BY <2>1, <2>3 DEF SceneInv, content, authoritative
  <2>5. ASSUME mode' = "build", how = "save", NEW f \in Frames, content[f] \in Poses,
               es[f] # None
        PROVE  applied[f] # None /\ Local(applied[f]) = Local(es[f])
    <3>1. authoritative /\ frozen
      BY <2>5 DEF authoritative, isConfigAuthoritative
    <3>2. synced[f] # None
      <4>1. CASE new
        BY <1>8, <2>5, <3>1, <4>1
      <4>2. CASE ~new
        BY <2>5, <4>2 DEF synced
      <4> QED
        BY <4>1, <4>2
    <3>3. synced[f] = es[f]
      BY <1>7, <2>5, <3>1, <3>2
    <3>4. applied[f] # None /\ applied[f] = Unedited(content[f], Local(es[f]))
      BY <2>2, <2>5, <3>2, <3>3
    <3> QED
      BY <3>4 DEF Local, Unedited
  <2>6. mode' = "build" /\ how = "save" =>
           \A f \in Declared(content) :
              es[f] # None => entities'[f] # None /\ Local(entities'[f]) = Local(es[f])
    BY <1>2, <2>1, <2>5 DEF Declared
  <2>7. entities' \in EntitySets
    BY <2>1, <2>2
  <2> QED
    BY <2>0, <2>4, <2>6, <2>7 DEF content
<1> QED
  BY <1>9, <1>10

\* A handler of the page, with the effects it triggers.
LEMMA HandlerDoes ==
    ASSUME IInv, ConfigInv', reported' \in FrameSets, connected' \in BOOLEAN,
           mode' \in {"monitor", "build"},
           NEW es \in EntitySets, NEW new \in BOOLEAN, NEW how \in {"save", "discard"},
           Flush(es, new, how),
           page'.isDirty => Follows(es, Content(page')),
           ~page.isDirty /\ ~page'.isDirty => NothingLanded(es),
           new \/ Drawn(es, Content(page'), isConfigAuthoritative(mode', connected')),
           EditsKept(es),
           saves' = saves \/ (es = entities /\ how = "save" /\ mode' = mode)
    PROVE  IInv' /\ KeepsPicture /\ NotFought
<1>1. page \in RawPages /\ page' \in RawPages
  BY DEF IInv, ConfigInv, ConfigTypes, Pages
<1>2. /\ entities' \in EntitySets /\ SceneInv'
      /\ page.isDirty /\ page'.isDirty =>
            \A f \in Frames : es[f] # None /\ entities'[f] # None => entities'[f] = es[f]
      /\ page.isDirty /\ ~page'.isDirty /\ mode' = "build" /\ how = "save" =>
            \A f \in Declared(Content(page')) :
               es[f] # None => entities'[f] # None /\ Local(entities'[f]) = Local(es[f])
  BY <1>1, FlushDoes
<1>3. IInv'
  BY <1>2 DEF IInv, SceneTypes
<1>4. KeepsPicture
  <2> SUFFICES ASSUME NEW f \in Declared(Content(page)), saves' # saves, page.isDirty,
                      ~page'.isDirty, page'.current = page.current, mode = "build",
                      entities[f] # None
               PROVE  entities'[f] # None /\ Local(entities'[f]) = Local(entities[f])
    BY DEF KeepsPicture
  <2>1. Content(page') = Content(page)
    BY DEF Content
  <2> QED
    BY <1>2, <2>1
<1>5. NotFought
  BY <1>2 DEF NotFought, Declared, EditsKept
<1> QED
  BY <1>3, <1>4, <1>5

\* One that leaves the scene to the effects, and the config as it was or clean.
LEMMA SceneKept ==
    ASSUME IInv, ConfigInv', reported' \in FrameSets, connected' \in BOOLEAN,
           mode' \in {"monitor", "build"}, NEW new \in BOOLEAN,
           Flush(entities, new, "save"),
           page'.isDirty => page'.current = page.current,
           new \/ /\ page'.current = page.current
                  /\ isConfigAuthoritative(mode', connected')
                        => isConfigAuthoritative(mode, connected),
           saves' = saves \/ mode' = mode
    PROVE  IInv' /\ KeepsPicture /\ NotFought
<1>1. page'.current = page.current => Content(page') = Content(page)
  BY DEF Content
<1>2. entities \in EntitySets
  BY DEF IInv, SceneTypes
<1>3. /\ page.isDirty \/ NothingLanded(entities)
      /\ Follows(entities, Content(page))
      /\ Drawn(entities, Content(page), isConfigAuthoritative(mode, connected))
  BY DEF IInv, SceneInv
<1>4. page'.isDirty => Follows(entities, Content(page'))
  BY <1>1, <1>3
<1>5. new \/ Drawn(entities, Content(page'), isConfigAuthoritative(mode', connected'))
  BY <1>1, <1>3 DEF Drawn
<1>6. EditsKept(entities)
  BY DEF EditsKept
<1>7. saves' = saves \/ (entities = entities /\ "save" = "save" /\ mode' = mode)
  OBVIOUS
<1>8. "save" \in {"save", "discard"}
  OBVIOUS
<1> QED
  BY <1>2, <1>3, <1>4, <1>5, <1>6, <1>7, <1>8, HandlerDoes

\* What a write of a config makes the page show.
LEMMA WriteShows ==
    ASSUME IInv, NEW content \in Contents, page'.current = Config!Config(page.part, content)
    PROVE  Content(page') = content
<1>1. Config!Config(page.part, content) \in Snapshots
  BY ContentsTypes DEF IInv, ConfigInv, ConfigTypes, Pages, RawPages
<1>2. page'.current # None
  BY <1>1, NoneAssumption DEF Snapshots
<1> QED
  BY <1>2 DEF Content, Config!Config

LEMMA WriteDoes ==
    ASSUME IInv, NEW f \in Frames, NEW frame \in Poses \cup {NoFrame}, Write(f, frame)
    PROVE  /\ ConfigInv' /\ saves' = saves
           /\ Content(page)[f] \in Poses =>
                 page'.isDirty /\ Content(page') = [Content(page) EXCEPT ![f] = frame]
           /\ Content(page)[f] \notin Poses =>
                 page'.isDirty = page.isDirty /\ page'.current = page.current
<1>1. /\ f \in Declared(Content(page)) <=> Content(page)[f] \in Poses
      /\ Content(page)[f] \in Poses => Content(page) \in Contents
  BY ContentType, Values DEF IInv, ConfigInv, ConfigTypes, Pages
<1>2. ConfigInv
  BY DEF IInv
<1>3. CASE Content(page)[f] \in Poses
  <2> DEFINE content == [Content(page) EXCEPT ![f] = frame]
  <2>1. content \in Contents
    BY <1>1, <1>3 DEF Contents
  <2>2. Config!Edit(content)
    BY <1>1, <1>3 DEF Write
  <2>3. saves' = saves
    BY <2>2 DEF Config!Edit
  <2> HIDE DEF content
  <2>4. ConfigInv' /\ page'.isDirty /\ page'.current = Config!Config(page.part, content)
    BY <1>2, <2>1, <2>2, EditDoes
  <2>5. Content(page') = content
    BY <2>1, <2>4, WriteShows
  <2> QED
    BY <1>3, <2>3, <2>4, <2>5 DEF content
<1>4. CASE Content(page)[f] \notin Poses
  <2>1. Config!EditMisses(FALSE)
    BY <1>1, <1>4 DEF Write
  <2>2. saves' = saves
    BY <2>1 DEF Config!EditMisses
  <2>3. /\ ConfigInv' /\ page'.current = page.current
        /\ page'.isDirty = (page.isDirty \/ FALSE)
    BY <1>2, <2>1, EditMissesDoes, FALSE \in BOOLEAN
  <2>4. page.isDirty \in BOOLEAN
    BY <1>2 DEF ConfigInv, ConfigTypes, Pages, RawPages
  <2>5. (page.isDirty \/ FALSE) = page.isDirty
    BY <2>4
  <2> QED
    BY <1>4, <2>2, <2>3, <2>5
<1> QED
  BY <1>3, <1>4

-----------------------------------------------------------------------------
(* The actions.                                                            *)

Kept == IInv' /\ KeepsPicture /\ NotFought

LEMMA KnownParts ==
    ASSUME IInv
    PROVE  /\ ConfigInv /\ entities \in EntitySets /\ reported \in FrameSets
           /\ connected \in BOOLEAN /\ mode \in {"monitor", "build"}
           /\ page \in RawPages /\ page.isDirty \in BOOLEAN
           /\ page.isDirty \/ NothingLanded(entities)
           /\ Follows(entities, Content(page))
           /\ Drawn(entities, Content(page), isConfigAuthoritative(mode, connected))
BY DEF IInv, SceneTypes, SceneInv, ConfigInv, ConfigTypes, Pages, RawPages

LEMMA FetchArrivesKeeps == ASSUME IInv, FetchArrives PROVE Kept
<1> DEFINE new == fetch.part = page.part /\ ~page.isDirty
<1>1. /\ Config!FetchArrives /\ UNCHANGED <<reported, connected, mode>>
      /\ Flush(entities, new, "save")
  BY DEF FetchArrives
<1>2. /\ ConfigInv' /\ page'.isDirty = page.isDirty
      /\ page.isDirty \/ fetch.part # page.part => page'.current = page.current
  BY <1>1, FetchArrivesDoes, KnownParts
<1>3. new \in BOOLEAN /\ (new \/ page'.current = page.current)
  BY <1>2, KnownParts
<1>4. saves' = saves
  BY <1>1 DEF Config!FetchArrives
<1> HIDE DEF new
<1> QED
  BY <1>1, <1>2, <1>3, <1>4, SceneKept, KnownParts DEF Kept

LEMMA SaveReturnsKeeps == ASSUME IInv, NEW s \in saves, SaveReturns(s) PROVE Kept
<1>1. /\ Config!SaveReturns(s) /\ UNCHANGED <<reported, connected, mode>>
  BY DEF SaveReturns
<1>2. PICK new \in {TRUE, page'.current # page.current} : Flush(entities, new, "save")
  BY DEF SaveReturns
<1>3. ConfigInv' /\ ~page'.isDirty
  BY <1>1, SaveReturnsDoes, KnownParts
<1>4. new \in BOOLEAN /\ (new \/ page'.current = page.current)
  BY <1>2
<1> QED
  BY <1>1, <1>2, <1>3, <1>4, SceneKept, KnownParts DEF Kept

LEMMA ConnectionKeeps == ASSUME IInv, Connection \/ FramesAnswer PROVE Kept
<1>1. UNCHANGED config /\ page' = page /\ saves' = saves
  BY DEF Connection, FramesAnswer, config
<1>2. ConfigInv'
  BY <1>1, KnownParts DEF config, ConfigInv, ConfigTypes, CleanFollowsNetwork,
        Config!CleanFollowsNetwork, DragIsOneEntry, Config!DragIsOneEntry
<1>3. CASE Connection
  <2>1. /\ connected' \in BOOLEAN /\ reported' = reported /\ mode' = mode
        /\ Flush(entities, mode # "build", "save")
    BY <1>3, KnownParts DEF Connection
  <2>2. /\ (mode # "build") \in BOOLEAN
        /\ (mode # "build") \/ /\ page'.current = page.current
                               /\ isConfigAuthoritative(mode', connected')
                                     => isConfigAuthoritative(mode, connected)
    BY <1>1 DEF isConfigAuthoritative
  <2> QED
    BY <1>1, <1>2, <2>1, <2>2, SceneKept, KnownParts DEF Kept
<1>4. CASE FramesAnswer
  <2>1. /\ connected' = connected /\ reported' \in FrameSets /\ mode' = mode
        /\ Flush(entities, TRUE, "save")
    BY <1>4, ReportsAssumption DEF FramesAnswer, FrameSets
  <2> QED
    BY <1>1, <1>2, <2>1, SceneKept, KnownParts, TRUE \in BOOLEAN DEF Kept
<1> QED
  BY <1>3, <1>4

LEMMA SelectPartKeeps == ASSUME IInv, NEW part \in Parts, SelectPart(part) PROVE Kept
<1>1. /\ Config!SelectPart(part) /\ reported' \in FrameSets /\ connected' \in BOOLEAN
      /\ mode' = mode /\ Flush(NoEntities, TRUE, "save")
  BY ReportsAssumption DEF SelectPart, FrameSets
<1>2. ConfigInv' /\ ~page'.isDirty
  BY <1>1, SelectPartDoes, KnownParts
<1>3. saves' = saves
  BY <1>1 DEF Config!SelectPart
<1>4. NoEntities \in EntitySets /\ NothingLanded(NoEntities)
  BY DEF NoEntities, EntitySets, NothingLanded
<1>5. EditsKept(NoEntities)
  BY <1>2 DEF EditsKept
<1>6. TRUE \in BOOLEAN /\ "save" \in {"save", "discard"} /\ mode' \in {"monitor", "build"}
  BY <1>1, KnownParts
<1> QED
  BY <1>1, <1>2, <1>3, <1>4, <1>5, <1>6, HandlerDoes DEF Kept

\* Steps that leave the page's config, its mark and the scene alone, but for
\* the live poses.
LEMMA SceneUntouched ==
    ASSUME IInv, ConfigInv', page'.current = page.current, page'.isDirty = page.isDirty,
           UNCHANGED <<reported, connected, mode>>,
           entities' \in EntitySets,
           \A f \in Frames :
              /\ entities[f] = None <=> entities'[f] = None
              /\ entities[f] # None => /\ entities'[f].edited = entities[f].edited
                                       /\ entities'[f].landed = entities[f].landed
                                       /\ entities'[f].matrix = entities[f].matrix
    PROVE  Kept
<1>1. Content(page') = Content(page)
  BY DEF Content
<1>2. SceneInv'
  BY <1>1, KnownParts DEF SceneInv, NothingLanded, Follows, Drawn
<1>3. IInv'
  BY <1>2, KnownParts DEF IInv, SceneTypes
<1>4. KeepsPicture
  BY DEF KeepsPicture
<1>5. NotFought
  BY DEF NotFought, Declared
<1> QED
  BY <1>3, <1>4, <1>5 DEF Kept

LEMMA ElsewhereKeeps == ASSUME IInv, Elsewhere \/ beginDrag \/ endDrag PROVE Kept
<1>1. UNCHANGED scene
  BY DEF Elsewhere, beginDrag, endDrag
<1>2. ConfigInv' /\ page'.current = page.current /\ page'.isDirty = page.isDirty
  <2>1. CASE Elsewhere
    <3>1. CASE Config!Save
      BY <3>1, SaveDoes, KnownParts
    <3>2. CASE \/ Config!FetchServed
               \/ \E s \in saves : Config!SaveStored(s) \/ Config!SaveFails(s)
               \/ \E content \in Contents : Config!EditedElsewhere(content)
      BY <3>2, AppDoes, KnownParts
    <3> QED
      BY <2>1, <3>1, <3>2 DEF Elsewhere
  <2>2. CASE beginDrag \/ endDrag
    BY <2>2, DragDoes, KnownParts DEF beginDrag, endDrag
  <2> QED
    BY <2>1, <2>2
<1> QED
  BY <1>1, <1>2, SceneUntouched, KnownParts DEF scene

LEMMA PoseArrivesKeeps == ASSUME IInv, NEW f \in Frames, PoseArrives(f) PROVE Kept
<1>1. PICK pose \in Poses : entities' = [entities EXCEPT ![f].live = pose]
  BY DEF PoseArrives
<1>2. UNCHANGED <<config, reported, connected, mode>> /\ entities[f] # None
  BY DEF PoseArrives
<1>3. ConfigInv'
  BY <1>2, KnownParts DEF config, ConfigInv, ConfigTypes, CleanFollowsNetwork,
        Config!CleanFollowsNetwork, DragIsOneEntry, Config!DragIsOneEntry
<1> DEFINE e == [entities[f] EXCEPT !.live = pose]
<1>4. entities[f] \in Entities /\ entities \in EntitySets
  BY <1>2, KnownParts DEF EntitySets
<1>5. /\ e \in Entities /\ e.edited = entities[f].edited
      /\ e.landed = entities[f].landed /\ e.matrix = entities[f].matrix
  BY <1>4 DEF Entities
<1>6. entities' = [entities EXCEPT ![f] = e]
  BY <1>1
<1> HIDE DEF e
<1>7. e # None
  BY <1>5, NoneAssumption
<1>8. /\ entities' \in EntitySets
      /\ \A g \in Frames :
            /\ entities[g] = None <=> entities'[g] = None
            /\ entities[g] # None => /\ entities'[g].edited = entities[g].edited
                                     /\ entities'[g].landed = entities[g].landed
                                     /\ entities'[g].matrix = entities[g].matrix
  BY <1>2, <1>4, <1>5, <1>6, <1>7 DEF EntitySets
<1> QED
  BY <1>2, <1>3, <1>8, SceneUntouched DEF config

LEMMA SetPoseKeeps ==
    ASSUME IInv, NEW f \in Frames, NEW pose \in Poses, setPose(f, pose)
    PROVE  Kept
<1> DEFINE lands == f \in Declared(Content(page))
           e == Staged(entities[f], pose, lands)
           es == [entities EXCEPT ![f] = e]
<1>1. /\ entities[f] # None /\ Write(f, pose) /\ UNCHANGED <<reported, connected, mode>>
      /\ Flush([entities EXCEPT ![f] = Staged(@, pose, lands)], TRUE, "save")
  BY DEF setPose, CanEdit
<1>2. /\ ConfigInv' /\ saves' = saves
      /\ Content(page)[f] \in Poses =>
            page'.isDirty /\ Content(page') = [Content(page) EXCEPT ![f] = pose]
      /\ Content(page)[f] \notin Poses =>
            page'.isDirty = page.isDirty /\ page'.current = page.current
  BY <1>1, WriteDoes
<1>3. entities[f] \in Entities /\ entities \in EntitySets
  BY <1>1, KnownParts DEF EntitySets
<1>4. lands <=> Content(page)[f] \in Poses
  BY DEF Declared
<1>5. lands \in BOOLEAN
  BY <1>4
<1> HIDE DEF lands
<1>6. /\ e \in Entities /\ e.edited = pose /\ e.landed = lands
      /\ e.matrix = entities[f].matrix
  BY <1>3, <1>5, StagedType
<1>7. Flush(es, TRUE, "save")
  BY <1>1
<1> HIDE DEF e
<1>8. /\ es \in EntitySets /\ es[f] = e /\ e # None
      /\ \A g \in Frames : g # f => es[g] = entities[g]
  BY <1>3, <1>6, NoneAssumption DEF EntitySets
<1> HIDE DEF es
<1>9. Content(page) \in [Frames -> Poses \cup {NoFrame, Missing}]
  BY KnownParts, ContentType
<1>10. Follows(es, Content(page'))
  <2>1. CASE lands
    BY <1>2, <1>4, <1>6, <1>8, <1>9, <2>1, KnownParts DEF Follows
  <2>2. CASE ~lands
    <3>1. Content(page') = Content(page)
      BY <1>2, <1>4, <2>2 DEF Content
    <3> QED
      BY <1>6, <1>8, <2>2, <3>1, KnownParts DEF Follows
  <2> QED
    BY <2>1, <2>2
<1>11. ~page.isDirty /\ ~page'.isDirty => NothingLanded(es)
  BY <1>2, <1>4, <1>6, <1>8, KnownParts DEF NothingLanded
<1>12. EditsKept(es)
  <2> SUFFICES ASSUME page'.current = page.current, NEW g \in Declared(Content(page)),
                      entities[g] # None, entities[g].edited # None, entities[g].landed
               PROVE  /\ es[g] # None /\ es[g].edited = entities[g].edited
                      /\ es[g].matrix = entities[g].matrix
    BY DEF EditsKept
  <2>1. CASE g # f
    BY <1>8, <2>1 DEF Declared
  <2>2. CASE g = f
    <3>1. Content(page)[f] \in Poses
      BY <2>2 DEF Declared
    <3>2. Content(page') = Content(page) /\ Content(page')[f] = pose
      BY <1>2, <1>9, <3>1 DEF Content
    <3>3. entities[f].edited = pose
      BY <2>2, <3>1, <3>2, KnownParts DEF Follows
    <3> QED
      BY <1>6, <1>8, <2>2, <3>3
  <2> QED
    BY <2>1, <2>2
<1>13. TRUE \in BOOLEAN /\ "save" \in {"save", "discard"}
  OBVIOUS
<1> QED
  BY <1>1, <1>2, <1>7, <1>8, <1>10, <1>11, <1>12, <1>13, HandlerDoes, KnownParts DEF Kept

\* A write that leaves the scene to the effects.
LEMMA DeleteFrameKeeps == ASSUME IInv, NEW f \in Frames, deleteFrame(f) PROVE Kept
<1>1. /\ Write(f, NoFrame) /\ UNCHANGED <<reported, connected, mode>>
      /\ Flush(entities, TRUE, "save")
  BY DEF deleteFrame
<1>2. /\ ConfigInv' /\ saves' = saves
      /\ Content(page)[f] \in Poses =>
            page'.isDirty /\ Content(page') = [Content(page) EXCEPT ![f] = NoFrame]
      /\ Content(page)[f] \notin Poses =>
            page'.isDirty = page.isDirty /\ page'.current = page.current
  BY <1>1, WriteDoes
<1>3. Content(page) \in [Frames -> Poses \cup {NoFrame, Missing}]
  BY KnownParts, ContentType
<1>4. Follows(entities, Content(page'))
  <2>1. CASE Content(page)[f] \in Poses
    BY <1>2, <1>3, <2>1, KnownParts, Values DEF Follows
  <2>2. CASE Content(page)[f] \notin Poses
    <3>1. Content(page') = Content(page)
      BY <1>2, <2>2 DEF Content
    <3> QED
      BY <3>1, KnownParts
  <2> QED
    BY <2>1, <2>2
<1>5. ~page.isDirty /\ ~page'.isDirty => NothingLanded(entities)
  BY KnownParts
<1>6. EditsKept(entities)
  BY DEF EditsKept
<1>7. TRUE \in BOOLEAN /\ "save" \in {"save", "discard"}
  OBVIOUS
<1> QED
  BY <1>1, <1>2, <1>4, <1>5, <1>6, <1>7, HandlerDoes, KnownParts DEF Kept

\* A frame is created where the config has none: in build mode nothing is drawn
\* there, so no edit is overwritten.
LEMMA CreateFrameKeeps == ASSUME IInv, NEW f \in Frames, createFrame(f) PROVE Kept
<1>1. UNCHANGED <<reported, connected, mode>> /\ Flush(entities, TRUE, "save") /\ mode = "build"
  BY DEF createFrame
<1>2. ConfigInv' /\ saves' = saves /\ Follows(entities, Content(page')) /\ page'.isDirty
  <2>1. CASE Content(page)[f] = NoFrame /\ Config!Edit([Content(page) EXCEPT ![f] = 0])
    <3> DEFINE content == [Content(page) EXCEPT ![f] = 0]
    <3>1. Content(page) \in Contents
      BY <2>1, KnownParts, ContentType, Values
    <3>2. content \in Contents /\ \A g \in Frames : g # f => content[g] = Content(page)[g]
      BY <3>1, Values DEF Contents
    <3>3. saves' = saves
      BY <2>1 DEF Config!Edit
    <3>4. Config!Edit(content)
      BY <2>1
    <3> HIDE DEF content
    <3>5. ConfigInv' /\ page'.isDirty /\ Content(page') = content
      BY <3>2, <3>4, EditDoes, WriteShows, KnownParts
    <3>6. entities[f] = None
      BY <1>1, <2>1, KnownParts DEF Drawn, isConfigAuthoritative
    <3>7. Follows(entities, content)
      BY <3>2, <3>6, KnownParts DEF Follows
    <3> QED
      BY <3>3, <3>5, <3>7
  <2>2. CASE Config!EditMisses(TRUE)
    <3>1. saves' = saves
      BY <2>2 DEF Config!EditMisses
    <3>2. ConfigInv' /\ page'.current = page.current /\ page'.isDirty
      BY <2>2, EditMissesDoes, KnownParts, TRUE \in BOOLEAN
    <3>3. Content(page') = Content(page)
      BY <3>2 DEF Content
    <3> QED
      BY <3>1, <3>2, <3>3, KnownParts
  <2> QED
    BY <2>1, <2>2 DEF createFrame
<1>3. EditsKept(entities)
  BY DEF EditsKept
<1>4. TRUE \in BOOLEAN /\ "save" \in {"save", "discard"}
  OBVIOUS
<1> QED
  BY <1>1, <1>2, <1>3, <1>4, HandlerDoes, KnownParts DEF Kept

\* Undo and redo: the target is staged, or the clean config is put back.
LEMMA HistoryKeeps ==
    ASSUME IInv, NEW target \in Snapshots, ConfigInv',
           page'.isDirty = (target # page.cleanSnapshot),
           page'.isDirty => page'.current = target,
           saves' = saves, applyHistorySnapshot(target)
    PROVE  Kept
<1> DEFINE how == IF target = page.cleanSnapshot THEN "discard" ELSE "edit"
           es == applyFrameHistorySnapshotToWorld(entities, target.content, how)
<1>1. UNCHANGED <<reported, connected, mode>> /\ Flush(es, TRUE, "save")
  BY DEF applyHistorySnapshot
<1>2. how \in {"edit", "save", "discard"} /\ (page'.isDirty <=> how = "edit")
  OBVIOUS
<1>3. target.content \in [Frames -> Poses \cup {NoFrame, Missing}]
  BY DEF Snapshots, Config!Configs, Config!Empty, Contents, Blank
<1> HIDE DEF how
<1>4. /\ es \in EntitySets
      /\ \A f \in Frames :
            /\ es[f] = None <=> entities[f] = None
            /\ entities[f] # None /\ how # "edit" => es[f].edited = None
            /\ entities[f] # None /\ how = "edit" /\ target.content[f] \in Poses =>
                   es[f] = Staged(entities[f], target.content[f], TRUE)
  BY <1>2, <1>3, SnapshotApplied, KnownParts
<1> HIDE DEF es
<1>5. page'.isDirty => Content(page') = target.content
  <2>1. target # None
    BY NoneAssumption DEF Snapshots
  <2> QED
    BY <2>1 DEF Content
<1>6. \A f \in Frames : entities[f] # None => entities[f] \in Entities
  BY KnownParts DEF EntitySets
<1>7. \A f \in Frames :
         page'.isDirty /\ entities[f] # None /\ target.content[f] \in Poses =>
            es[f].edited = target.content[f] /\ es[f].matrix = entities[f].matrix
  <2> SUFFICES ASSUME NEW f \in Frames, page'.isDirty, entities[f] # None,
                      target.content[f] \in Poses
               PROVE  es[f].edited = target.content[f] /\ es[f].matrix = entities[f].matrix
    OBVIOUS
  <2>1. es[f] = Staged(entities[f], target.content[f], TRUE)
    BY <1>2, <1>4
  <2> QED
    BY <1>6, <2>1 DEF Staged, Entities
<1>8. page'.isDirty => Follows(es, Content(page'))
  BY <1>4, <1>5, <1>7 DEF Follows
<1>9. ~page'.isDirty => NothingLanded(es)
  BY <1>2, <1>4 DEF NothingLanded
<1>10. EditsKept(es)
  <2> SUFFICES ASSUME page'.isDirty, page'.current = page.current,
                      NEW f \in Declared(Content(page)),
                      entities[f] # None, entities[f].edited # None, entities[f].landed
               PROVE  /\ es[f] # None /\ es[f].edited = entities[f].edited
                      /\ es[f].matrix = entities[f].matrix
    BY DEF EditsKept
  <2>1. Content(page) = target.content /\ f \in Frames /\ target.content[f] \in Poses
    BY <1>5 DEF Content, Declared
  <2>2. entities[f].edited = target.content[f]
    BY <2>1, KnownParts DEF Follows
  <2> QED
    BY <1>4, <1>7, <2>1, <2>2
<1>11. TRUE \in BOOLEAN /\ "save" \in {"save", "discard"}
  OBVIOUS
<1> QED
  BY <1>1, <1>4, <1>8, <1>9, <1>10, <1>11, HandlerDoes, KnownParts DEF Kept

LEMMA UndoRedoKeeps == ASSUME IInv, undo \/ redo PROVE Kept
<1>1. CASE undo
  <2> DEFINE target == page.log[Len(page.log) - 1]
  <2>1. Config!undoFrameEdit /\ applyHistorySnapshot(target)
    BY <1>1 DEF undo
  <2>2. saves' = saves
    BY <2>1 DEF Config!undoFrameEdit
  <2>3. /\ target \in Snapshots /\ ConfigInv'
        /\ page'.isDirty = (target # page.cleanSnapshot)
        /\ page'.isDirty => page'.current = target
    BY <2>1, UndoDoes, KnownParts
  <2> HIDE DEF target
  <2> QED
    BY <2>1, <2>2, <2>3, HistoryKeeps
<1>2. CASE redo
  <2> DEFINE target == page.redo[Len(page.redo)]
  <2>1. Config!redoFrameEdit /\ applyHistorySnapshot(target)
    BY <1>2 DEF redo
  <2>2. saves' = saves
    BY <2>1 DEF Config!redoFrameEdit
  <2>3. /\ target \in Snapshots /\ ConfigInv'
        /\ page'.isDirty = (target # page.cleanSnapshot)
        /\ page'.isDirty => page'.current = target
    BY <2>1, RedoDoes, KnownParts
  <2> HIDE DEF target
  <2> QED
    BY <2>1, <2>2, <2>3, HistoryKeeps
<1> QED
  BY <1>1, <1>2

LEMMA DiscardKeeps ==
    ASSUME IInv, Config!discardChanges, UNCHANGED <<reported, connected>>,
           mode' \in {"monitor", "build"}, NEW new \in BOOLEAN,
           Flush(resetStagedEdits(entities), new, "discard"),
           new \/ (page'.current = page.current /\ ~connected)
    PROVE  Kept
<1> DEFINE es == resetStagedEdits(entities)
<1>1. ConfigInv' /\ ~page'.isDirty
  BY DiscardDoes, KnownParts
<1>2. saves' = saves
  BY DEF Config!discardChanges
<1>3. /\ es \in EntitySets
      /\ \A f \in Frames :
            /\ es[f] = None <=> entities[f] = None
            /\ entities[f] # None => es[f].edited = None
  BY EditsReset, KnownParts
<1> HIDE DEF es
<1>4. NothingLanded(es)
  BY <1>3 DEF NothingLanded
<1>5. new \/ Drawn(es, Content(page'), isConfigAuthoritative(mode', connected'))
  <2> SUFFICES ASSUME ~new PROVE Drawn(es, Content(page'), isConfigAuthoritative(mode', connected'))
    OBVIOUS
  <2>1. Content(page') = Content(page) /\ isConfigAuthoritative(mode, connected)
    BY DEF Content, isConfigAuthoritative
  <2> QED
    BY <1>3, <2>1, KnownParts DEF Drawn
<1>6. EditsKept(es)
  BY <1>1 DEF EditsKept
<1>7. "discard" \in {"save", "discard"} /\ Flush(es, new, "discard")
  BY DEF es
<1> QED
  BY <1>1, <1>2, <1>3, <1>4, <1>5, <1>6, <1>7, HandlerDoes, KnownParts DEF Kept

LEMMA SwitchModeKeeps == ASSUME IInv, discard \/ SwitchMode PROVE Kept
<1>1. CASE discard
  BY <1>1, DiscardKeeps, KnownParts, TRUE \in BOOLEAN DEF discard
<1>2. CASE SwitchMode /\ mode = "build" /\ page.isDirty
  <2>1. /\ Config!discardChanges /\ UNCHANGED <<reported, connected>>
        /\ mode' \in {"monitor", "build"}
    BY <1>2 DEF SwitchMode
  <2>2. PICK new \in {TRUE, connected \/ page'.current # page.current} :
           Flush(resetStagedEdits(entities), new, "discard")
    BY <1>2 DEF SwitchMode
  <2>3. new \in BOOLEAN /\ (new \/ (page'.current = page.current /\ ~connected))
    BY <2>2, KnownParts
  <2> QED
    BY <2>1, <2>2, <2>3, DiscardKeeps
<1>3. CASE SwitchMode /\ ~(mode = "build" /\ page.isDirty)
  <2>1. /\ UNCHANGED <<config, reported, connected>> /\ mode' \in {"monitor", "build"}
        /\ Flush(entities, connected, "save")
    BY <1>3 DEF SwitchMode
  <2>2. page' = page /\ saves' = saves /\ ConfigInv'
    BY <2>1, KnownParts DEF config, ConfigInv, ConfigTypes, CleanFollowsNetwork,
          Config!CleanFollowsNetwork, DragIsOneEntry, Config!DragIsOneEntry
  <2>3. connected \/ (isConfigAuthoritative(mode', connected')
                        => isConfigAuthoritative(mode, connected))
    BY DEF isConfigAuthoritative
  <2> QED
    BY <2>1, <2>2, <2>3, SceneKept, KnownParts DEF Kept
<1> QED
  BY <1>1, <1>2, <1>3

-----------------------------------------------------------------------------
(* The theorems.                                                           *)

LEMMA Initially == Init => IInv
<1> SUFFICES ASSUME Init PROVE IInv
  OBVIOUS
<1>1. /\ entities = NoEntities /\ reported = NoEntities /\ connected = FALSE
      /\ mode = "monitor"
  BY DEF Init
<1>2. NoEntities \in EntitySets /\ NoEntities \in FrameSets /\ \A f \in Frames : NoEntities[f] = None
  BY DEF NoEntities, EntitySets, FrameSets
<1>3. SceneTypes /\ SceneInv
  BY <1>1, <1>2 DEF SceneTypes, SceneInv, NothingLanded, Follows, Drawn
<1> QED
  BY <1>3, ConfigInit DEF IInv

LEMMA StepKeeps == IInv /\ [Next]_vars => Kept
<1> SUFFICES ASSUME IInv, [Next]_vars PROVE Kept
  OBVIOUS
<1>1. CASE FetchArrives
  BY <1>1, FetchArrivesKeeps
<1>2. CASE \E part \in Parts : SelectPart(part)
  BY <1>2, SelectPartKeeps
<1>3. CASE \E s \in saves : SaveReturns(s)
  BY <1>3, SaveReturnsKeeps
<1>4. CASE Elsewhere \/ beginDrag \/ endDrag
  BY <1>4, ElsewhereKeeps
<1>5. CASE Connection \/ FramesAnswer
  BY <1>5, ConnectionKeeps
<1>6. CASE \E f \in Frames : PoseArrives(f) \/ deleteFrame(f) \/ createFrame(f)
  BY <1>6, PoseArrivesKeeps, DeleteFrameKeeps, CreateFrameKeeps
<1>7. CASE \E f \in Frames, pose \in Poses : setPose(f, pose)
  BY <1>7, SetPoseKeeps
<1>8. CASE undo \/ redo
  BY <1>8, UndoRedoKeeps
<1>9. CASE discard \/ SwitchMode
  BY <1>9, SwitchModeKeeps
<1>10. CASE UNCHANGED vars
  <2>1. UNCHANGED <<config, reported, connected, mode, entities>>
    BY <1>10 DEF vars, scene
  <2>2. page' = page /\ ConfigInv'
    BY <2>1, KnownParts DEF config, ConfigInv, ConfigTypes, CleanFollowsNetwork,
          Config!CleanFollowsNetwork, DragIsOneEntry, Config!DragIsOneEntry
  <2> QED
    BY <2>1, <2>2, SceneUntouched, KnownParts
<1> QED
  BY <1>1, <1>2, <1>3, <1>4, <1>5, <1>6, <1>7, <1>8, <1>9, <1>10 DEF Next

LEMMA AlwaysIInv == Spec => []IInv
<1>1. IInv /\ [Next]_vars => IInv'
  BY StepKeeps DEF Kept
<1> QED
  BY Initially, <1>1, PTL DEF Spec

\* Every variable keeps its type: the page of usePartConfig between its effects,
\* the query and the saves under way, and the entities of the scene.
THEOREM Types == Spec => []TypeOK
<1>1. IInv => TypeOK
  BY TypesAgree DEF IInv, ConfigInv, SceneTypes, TypeOK, EntitySets, FrameSets
<1> QED
  BY <1>1, AlwaysIInv, PTL

\* A clean page shows the config it holds of the network, after answers, saves,
\* edits, undos, discards and changes of part in any order (usePartConfig's
\* effects over network, current and isDirty).
THEOREM CleanPageFollowsNetwork == Spec => []CleanFollowsNetwork
<1>1. IInv => CleanFollowsNetwork
  BY DEF IInv, ConfigInv
<1> QED
  BY <1>1, AlwaysIInv, PTL

\* An open drag leaves the history at the config it began from, whatever is
\* edited, fetched or saved before it ends (beginFrameEditHistoryEntry).
THEOREM DragsAreOneEntry == Spec => []DragIsOneEntry
<1>1. IInv => DragIsOneEntry
  BY DEF IInv, ConfigInv
<1> QED
  BY <1>1, AlwaysIInv, PTL

\* What FrameEditor stages in the scene is what a save would write, and nothing
\* is staged over a clean config, for any number of frames, parts and saves.
THEOREM StagedEditsAreSaved == Spec => []StagedIsSaved
<1>1. IInv => StagedIsSaved
  BY DEF IInv, SceneInv, NothingLanded, Follows, StagedIsSaved, Declared
<1> QED
  BY <1>1, AlwaysIInv, PTL

\* The end of a save leaves every frame where it is drawn: the effect of
\* usePartConfig that settles the edits does not let one snap back.
THEOREM SavesKeepPicture == Spec => SaveKeepsPicture
<1>1. IInv /\ [Next]_vars => KeepsPicture
  BY StepKeeps DEF Kept
<1>2. IInv /\ [Next]_vars => [KeepsPicture]_vars
  BY <1>1
<1>3. Spec => [][KeepsPicture]_vars
  BY <1>2, AlwaysIInv, PTL DEF Spec
<1> QED
  BY <1>3 DEF SaveKeepsPicture, KeepsPicture

\* While the config stays dirty and as it is, nothing touches a staged edit it
\* took nor the baseline that is drawn against (useFrames' re-sync).
THEOREM EditsAreNotFought == Spec => EditIsNotFought
<1>1. IInv /\ [Next]_vars => NotFought
  BY StepKeeps DEF Kept
<1>2. IInv /\ [Next]_vars => [NotFought]_vars
  BY <1>1
<1>3. Spec => [][NotFought]_vars
  BY <1>2, AlwaysIInv, PTL DEF Spec
<1> QED
  BY <1>3 DEF EditIsNotFought, NotFought

=============================================================================
