----------------------------- MODULE DrawClient -----------------------------
(***************************************************************************)
(* The browser's consumer of StreamEntityChanges                           *)
(* (src/lib/plugins/DrawService/useDrawService.svelte.ts with              *)
(* coalesceEvents.ts, serverRelationships.ts and src/lib/draw.ts).         *)
(*                                                                         *)
(* Messages are merged into a buffer per UUID as they arrive and applied   *)
(* to the ECS world in one animation frame. The frame callback runs to     *)
(* completion; it is split into one step per event, and `flushing` keeps   *)
(* everything else out meanwhile.                                          *)
(*                                                                         *)
(* The stream is an environment that says what the draw service may say:   *)
(* any offered entity may be upserted, whatever it told may be removed,    *)
(* and a removal is followed by the cascade of RemoveEntity and of the     *)
(* scoped bulk removals before anything else is told.                      *)
(***************************************************************************)
EXTENDS DrawEntities

CONSTANTS
    Offers,         \* the entities each UUID may be drawn as
    World,          \* the parent frame of an entity at the root
    Parent,         \* the parent frame that is part of a displayed content
    Absent,         \* what a map without the UUID has for it
    Deleted,        \* what a map has of an entity the user deleted
    Lost            \* what a map has of an entity destroyed along with its parent

ASSUME OffersAssumption == Offers \in [Ids -> SUBSET Entities]
ASSUME ParentAssumption == Parent \in [Vals -> Frames \cup {World}]

VARIABLES
    up,             \* a stream attempt is running
    told,           \* what its messages so far mean (history)
    gone,           \* targets of relationships the server is cascading away
    cleared,        \* pendingChanges.clearedScope
    events,         \* pendingChanges.events
    ahead,          \* the UUIDs that are before a buffered UUID in Map order
    flushing,       \* the animation frame callback is running
    drawn,          \* transformEntities and drawingEntities
    cache           \* serverRelationships' last-known targets per source

streamVars == <<up, told, gone>>
bufferVars == <<cleared, events, ahead, flushing>>
worldVars  == <<drawn, cache>>
vars       == <<streamVars, bufferVars, worldVars>>

(* An ECS entity this consumer spawned, by the map that holds it and its   *)
(* UUID. links are its SubEntityLink targets, under its ChildOf target;    *)
(* orphan says that it has the Orphan trait, which names the parent frame  *)
(* of its content. Nothing has the PendingLinks trait (see Linked).        *)
Handles == Kinds \X Ids
Shown ==
    [frame: Frames, val: Vals, links: SUBSET Handles, under: SUBSET Handles, orphan: BOOLEAN]

Missing == {Absent, Deleted, Lost}
ASSUME MissingAssumption ==
    /\ Shown \cap Missing = {}
    /\ Absent # Deleted /\ Absent # Lost /\ Deleted # Lost

Events == {m \in Messages : m.type # "cleared"}

TypeOK ==
    /\ up \in BOOLEAN
    /\ told \in Scenes
    /\ gone \in SUBSET Ids
    /\ cleared \in Scopes \cup {"none"}
    /\ events \subseteq Events
    /\ ahead \in [Ids -> SUBSET Ids]
    /\ flushing \in BOOLEAN
    /\ drawn \in [Handles -> Shown \cup Missing]
    /\ cache \in [Ids -> SUBSET Ids]

EmptyWorld == [h \in Handles |-> Absent]
NothingKnown == [id \in Ids |-> {}]
NothingQueued == [id \in Ids |-> {}]

Init ==
    /\ up = FALSE
    /\ told = EmptyScene
    /\ gone = {}
    /\ cleared = "none"
    /\ events = {}
    /\ ahead = NothingQueued
    /\ flushing = FALSE
    /\ drawn = EmptyWorld
    /\ cache = NothingKnown

-----------------------------------------------------------------------------
(* Receiving. *)

Queued == {m.id : m \in events}

\* What is left of the Map order when only the UUIDs of left are.
Reordered(left) == [id \in Ids |-> IF id \in left THEN ahead[id] \cap left ELSE {}]

\* The older event of a UUID wins.
MergeEvent_KeepsOlder(m) ==
    /\ events' = IF m.id \in Queued THEN events ELSE events \cup {m}
    /\ ahead' = IF m.id \in Queued THEN ahead ELSE [ahead EXCEPT ![m.id] = Queued]
    /\ UNCHANGED cleared

\* mergeEvent: the newest event of a UUID takes the place of the older one.
\* What is done with a buffered event reads only its entity and whether it
\* is a removal, so the union of field masks is left out.
MergeEvent(m) ==
    /\ events' = {n \in events : n.id # m.id} \cup {m}
    /\ ahead' = IF m.id \in Queued THEN ahead ELSE [ahead EXCEPT ![m.id] = Queued]
    /\ UNCHANGED cleared

KindOf(m) == IF m.type = "upsert" THEN m.entity.kind ELSE m.kind

\* The second clear of a frame replaces the first.
MergeClear_LastScopeWins(scope) ==
    LET left == {m \in events : ~Covers(scope, KindOf(m))}
    IN  /\ cleared' = scope
        /\ events' = left
        /\ ahead' = Reordered({m.id : m \in left})

\* mergeClear: drop the buffered events the scope covers, widen the scope.
MergeClear(scope) ==
    LET left == {m \in events : ~Covers(scope, KindOf(m))}
    IN  /\ cleared' = IF cleared \in {"none", scope} THEN scope ELSE "all"
        /\ events' = left
        /\ ahead' = Reordered({m.id : m \in left})

PointingAt(targets) ==
    {id \in Present(told) : told[id].rels \cap targets # {}}

Receiving == up /\ ~flushing

ReceiveUpsert(id, e) ==
    /\ Receiving
    /\ PointingAt(gone) = {}
    /\ told' = Apply(told, Upsert(id, e))
    /\ gone' = {}
    /\ MergeEvent(Upsert(id, e))
    /\ UNCHANGED <<up, flushing, worldVars>>

\* The republication of a source whose targets are gone.
ReceiveCascade(id) ==
    /\ Receiving
    /\ id \in PointingAt(gone)
    /\ LET m == Upsert(id, [told[id] EXCEPT !.rels = @ \ gone])
       IN  /\ told' = Apply(told, m)
           /\ MergeEvent(m)
    /\ UNCHANGED <<up, gone, flushing, worldVars>>

ReceiveRemoval(id) ==
    /\ Receiving
    /\ PointingAt(gone) = {}
    /\ id \in Present(told)
    /\ told' = Apply(told, Removal(id, told[id].kind))
    /\ gone' = {id}
    /\ MergeEvent(Removal(id, told[id].kind))
    /\ UNCHANGED <<up, flushing, worldVars>>

ReceiveClear(scope) ==
    /\ Receiving
    /\ PointingAt(gone) = {}
    /\ told' = Apply(told, Clear(scope))
    /\ gone' = Present(told) \ Present(told')
    /\ MergeClear(scope)
    /\ UNCHANGED <<up, flushing, worldVars>>

-----------------------------------------------------------------------------
(* The world. *)

Live(world, h) == world[h] \notin Missing

Replace(world, h, shown) == [g \in Handles |-> IF g = h THEN shown ELSE world[g]]

\* hs and everything below them: the least such set that is closed.
Tree(world, hs) ==
    {h \in Handles :
        \A S \in SUBSET Handles :
            /\ hs \subseteq S
            /\ \A g \in Handles : Live(world, g) /\ world[g].under \cap S # {} => g \in S
            => h \in S}

\* A relation to an entity goes with it.
Cut(shown, hs) == [shown EXCEPT !.links = @ \ hs, !.under = @ \ hs]

\* destroyEntityTree of the entities of some UUIDs, which leave their map.
\* Their descendants are destroyed and stay in theirs.
Destroyed(world, hs) ==
    LET tree == Tree(world, hs)
    IN  [h \in Handles |->
            IF h \in hs THEN Absent
            ELSE IF ~Live(world, h) THEN world[h]
            ELSE IF h \in tree THEN Lost
            ELSE Cut(world[h], tree)]

\* lookupByUuid.
Lookup(world, id) == {h \in Handles : h[2] = id /\ Live(world, h)}

Fresh(e) ==
    [frame |-> e.frame, val |-> e.val, links |-> {}, under |-> {},
     orphan |-> Parent[e.val] # World]

\* spawn. The onAdd hook asks for the entities with PendingLinks: none.
With(world, h, e) == Replace(world, h, Fresh(e))

\* getParentName, World at the root.
ParentName(world, h) ==
    IF world[h].under # {} THEN world[CHOOSE g \in Handles : g \in world[h].under].frame
    ELSE IF world[h].orphan THEN Parent[world[h].val]
    ELSE World

\* The parent is left as it is.
Updated_KeepsParent(world, h, e) ==
    Replace(world, h, [world[h] EXCEPT !.val = e.val])

\* updateTransform, updateDrawing: everything but the name is taken over. A
\* new parent is waited for (setParent).
Updated(world, h, e) ==
    LET moved == ParentName(world, h) # Parent[e.val]
    IN  Replace(world, h,
            [world[h] EXCEPT !.val = e.val,
                             !.under = IF moved THEN {} ELSE @,
                             !.orphan = IF moved THEN Parent[e.val] # World ELSE @])

Targets(world, ids) == UNION {Lookup(world, id) : id \in ids}

\* The link is made to the UUID.
Linked_ToUuids(world, h, known, rels) ==
    LET found == {id \in rels \ known : Lookup(world, id) # {}}
    IN  Replace(world, h, [world[h] EXCEPT !.links = @ \cup found])

\* What the entity is no longer related to is left linked.
Linked_OnlyAdds(world, h, known, rels) ==
    Replace(world, h, [world[h] EXCEPT !.links = @ \cup Targets(world, rels \ known)])

\* serverRelationships.apply: only what differs from the last-known targets
\* is linked or unlinked. A target that is not there is meant to be waited
\* for, but enqueue calls set for a trait the source does not have, and such
\* a write is lost (ecs/setOrAddTrait.ts).
Linked(world, h, known, rels) ==
    Replace(world, h, [world[h] EXCEPT
        !.links = (@ \ Targets(world, known \ rels)) \cup Targets(world, rels \ known)])

-----------------------------------------------------------------------------
(* The animation frame: applyClear, then every event in order. *)

Surviving == {m.id : m \in {n \in events : n.type = "upsert"}}

Frame ==
    /\ ~flushing
    /\ cleared # "none" \/ events # {}
    /\ LET ended == {h \in Handles : /\ cleared # "none"
                                     /\ Covers(cleared, h[1])
                                     /\ h[2] \notin Surviving
                                     /\ drawn[h] # Absent}
       IN  /\ drawn' = Destroyed(drawn, ended)
           /\ cache' = [id \in Ids |-> IF \E h \in ended : h[2] = id THEN {} ELSE cache[id]]
    /\ cleared' = "none"
    /\ flushing' = (events # {})
    /\ UNCHANGED <<streamVars, events, ahead>>

NextEvent(m) ==
    /\ flushing
    /\ ahead[m.id] = {}
    /\ events' = events \ {m}
    /\ ahead' = Reordered(Queued \ {m.id})
    /\ flushing' = (events # {m})
    /\ UNCHANGED <<streamVars, cleared>>

ProcessRemoval(m) ==
    /\ NextEvent(m)
    /\ m.type = "removed"
    /\ drawn' = Destroyed(drawn, {<<m.kind, m.id>>})
    /\ cache' = [cache EXCEPT ![m.id] = {}]

Other(kind) == IF kind = "transform" THEN "drawing" ELSE "transform"

\* The entity of the other kind stays.
ProcessUpsert_KeepsRival(m) ==
    /\ NextEvent(m)
    /\ m.type = "upsert"
    /\ LET e       == m.entity
           h       == <<e.kind, m.id>>
           room    == Destroyed(drawn, IF e.chunks THEN {h} ELSE {})
           updated == IF Live(room, h) THEN Updated(room, h, e) ELSE With(room, h, e)
       IN  /\ drawn' = Linked(updated, h, cache[m.id], e.rels)
           /\ cache' = [cache EXCEPT ![m.id] = e.rels]

\* An entity of the other kind gives way. A chunked drawing (and a model) is
\* destroyed and drawn anew; any other entity that is still in the world is
\* updated in place and keeps its name.
ProcessUpsert(m) ==
    /\ NextEvent(m)
    /\ m.type = "upsert"
    /\ LET e       == m.entity
           h       == <<e.kind, m.id>>
           rival   == <<Other(e.kind), m.id>>
           room    == Destroyed(drawn, IF e.chunks THEN {rival, h} ELSE {rival})
           known   == IF drawn[rival] # Absent THEN {} ELSE cache[m.id]
           updated == IF Live(room, h) THEN Updated(room, h, e) ELSE With(room, h, e)
       IN  /\ drawn' = Linked(updated, h, known, e.rels)
           /\ cache' = [cache EXCEPT ![m.id] = e.rels]

\* The trash button of the Details panel destroys the entity and tells no
\* one. Its children lose their parent and are not made orphans.
UserDeletes(h) ==
    /\ ~flushing
    /\ Live(drawn, h)
    /\ drawn' = [g \in Handles |-> IF g = h THEN Deleted
                                   ELSE IF Live(drawn, g) THEN Cut(drawn[g], {h})
                                   ELSE drawn[g]]
    /\ UNCHANGED <<streamVars, bufferVars, cache>>

Named(frame) == {h \in Handles : Live(drawn, h) /\ drawn[h].frame = frame}

\* resolveOrphans, in the effect that runs when the orphans or the names have
\* changed: of several entities with the name one that has its parent is
\* preferred, and none becomes its own parent.
Resolve(h) ==
    /\ ~flushing
    /\ Live(drawn, h)
    /\ drawn[h].orphan
    /\ LET named   == Named(Parent[drawn[h].val])
           settled == {g \in named : ~drawn[g].orphan}
       IN  \E g \in IF settled # {} THEN settled ELSE named :
               /\ g # h
               /\ drawn' = Replace(drawn, h, [drawn[h] EXCEPT !.under = {g}, !.orphan = FALSE])
    /\ UNCHANGED <<streamVars, bufferVars, cache>>

-----------------------------------------------------------------------------
(* The connection. *)

\* clearLocalState.
ClearLocalState ==
    /\ cleared' = "none"
    /\ events' = {}
    /\ ahead' = NothingQueued
    /\ drawn' = EmptyWorld
    /\ cache' = NothingKnown

\* runWithReconnect starts an attempt.
Connect ==
    /\ ~up
    /\ ~flushing
    /\ ClearLocalState
    /\ up' = TRUE
    /\ told' = EmptyScene
    /\ gone' = {}
    /\ UNCHANGED flushing

\* The stream ends; what was drawn stays until the next attempt.
Lose ==
    /\ Receiving
    /\ up' = FALSE
    /\ UNCHANGED <<told, gone, bufferVars, worldVars>>

\* The URL changes or the component goes away, between two attempts or in
\* one.
Abort ==
    /\ ~flushing
    /\ ClearLocalState
    /\ up' = FALSE
    /\ UNCHANGED <<told, gone, flushing>>

Next ==
    \/ \E id \in Ids : \E e \in Offers[id] : ReceiveUpsert(id, e)
    \/ \E id \in Ids : ReceiveCascade(id) \/ ReceiveRemoval(id)
    \/ \E scope \in Scopes : ReceiveClear(scope)
    \/ Frame
    \/ \E m \in events : ProcessRemoval(m) \/ ProcessUpsert(m)
    \/ \E h \in Handles : UserDeletes(h) \/ Resolve(h)
    \/ Connect
    \/ Lose
    \/ Abort

Spec == Init /\ [][Next]_vars

-----------------------------------------------------------------------------
(* Properties. *)

Settled == up /\ ~flushing /\ cleared = "none" /\ events = {}

(* With nothing buffered, every entity the stream told is on the screen    *)
(* with its latest content, however its messages fell into frames, unless  *)
(* something destroyed it behind the stream's back (coalesceEvents.ts:     *)
(* discarding an event is what made redraw loops blink entities out).      *)
ToldIsShown ==
    Settled => \A id \in Present(told) :
        LET h == <<told[id].kind, id>>
        IN  drawn[h] # Absent /\ (Live(drawn, h) => drawn[h].val = told[id].val)

\* The UUIDs that are only ever drawn as one kind.
OneKind == {id \in Ids : \A e, f \in Offers[id] : e.kind = f.kind}

(* With nothing buffered, no entity of a UUID that keeps its kind is left  *)
(* on the screen after the stream took it back (mergeClear: two clears in  *)
(* one frame leave no ghosts behind).                                      *)
NoGhostOfOneKind ==
    Settled => \A h \in Handles :
        Live(drawn, h) /\ h[2] \in OneKind => told[h[2]] # NoEntity

(* A UUID is never on the screen twice, as a transform and as a drawing    *)
(* (processTransformEvent: a UUID that switches kind gives up its old      *)
(* entity first).                                                          *)
OneLivePerUuid ==
    \A g, h \in Handles : Live(drawn, g) /\ Live(drawn, h) /\ g[2] = h[2] => g = h

(* No entity is below one that is gone, or below one that has another name *)
(* than the parent frame its content says, whatever was moved, destroyed   *)
(* and redrawn (setParent's short-cut for a parent with the right name).   *)
UnderItsParent ==
    \A h \in Handles : Live(drawn, h) =>
        /\ \A g \in drawn[h].under : Live(drawn, g) /\ drawn[g].frame = Parent[drawn[h].val]
        /\ drawn[h].orphan => drawn[h].under = {} /\ Parent[drawn[h].val] # World

(* With nothing buffered, an entity that keeps its kind is linked to no    *)
(* entity that its last relationships do not name, whatever was redrawn,   *)
(* removed or replaced since the link was made (serverRelationships: the   *)
(* links it authored are removed by a diff against the last-known set).    *)
NoStrayLink ==
    Settled => \A h \in Handles :
        Live(drawn, h) /\ h[2] \in OneKind /\ told[h[2]] # NoEntity =>
            drawn[h].links \subseteq Targets(drawn, told[h[2]].rels)

(* The buffer holds one event per UUID, whatever arrives between two       *)
(* frames: it is bounded by the scene (PendingChanges).                    *)
OneEventPerUuid ==
    \A m, n \in events : m.id = n.id => m = n

-----------------------------------------------------------------------------
(* What the code's comments say that the code does not do. *)

(* With nothing buffered, no entity is left on the screen after the stream *)
(* took it back, kinds switching or not (mergeEvent: replacing the older   *)
(* event of a UUID is always safe).                                        *)
NoGhost ==
    Settled => \A h \in Handles : Live(drawn, h) => told[h[2]] # NoEntity

(* An entity that the stream told is not destroyed along with its parent   *)
(* (relations.ts: when a parent is destroyed, children survive).           *)
ChildrenSurvive ==
    Settled => \A id \in Present(told) : drawn[<<told[id].kind, id>>] # Lost

(* With nothing buffered, an entity on the screen is linked to those       *)
(* targets of its relationships that are on the screen, and to no other    *)
(* (PendingLinks: forward references wait for their target to arrive).     *)
LinksShown ==
    Settled => \A h \in Handles :
        Live(drawn, h) /\ told[h[2]] # NoEntity =>
            drawn[h].links = Targets(drawn, told[h[2]].rels)

=============================================================================
