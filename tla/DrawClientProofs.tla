-------------------------- MODULE DrawClientProofs --------------------------
(***************************************************************************)
(* Theorems about DrawClient for every set of UUIDs, every offer and every *)
(* way the messages fall into frames. The invariant behind them relates    *)
(* what the stream told, the buffer and the world, UUID by UUID.           *)
(***************************************************************************)
EXTENDS DrawClient, TLAPS

Worlds == [Handles -> Shown \cup Missing]

\* What became of an entry y of the world when x took its place: the map still
\* has it, and if it is alive it was, with the same content.
SameShape(x, y) ==
    /\ x = Absent <=> y = Absent
    /\ x \notin Missing => y \notin Missing /\ x.val = y.val

-----------------------------------------------------------------------------
(* Entities, messages and scenes. *)

\* The three messages of a stream are messages.
LEMMA MessageTypes ==
    /\ \A id \in Ids, e \in Entities : Upsert(id, e) \in Messages
    /\ \A id \in Ids, k \in Kinds : Removal(id, k) \in Messages
    /\ \A scope \in Scopes : Clear(scope) \in Messages
BY DEF Messages

\* An upsert and a removal touch one UUID.
LEMMA ApplyPoint ==
    ASSUME NEW scene \in Scenes, NEW id \in Ids, NEW k \in Kinds, NEW e \in Entities
    PROVE  /\ Apply(scene, Upsert(id, e)) = [scene EXCEPT ![id] = e]
           /\ Apply(scene, Removal(id, k)) = [scene EXCEPT ![id] = NoEntity]
BY DEF Apply, Erases, Upsert, Removal, Scenes

\* A bulk removal takes away what its scope covers.
LEMMA ApplyClear ==
    ASSUME NEW scene \in Scenes, NEW scope \in Scopes
    PROVE  Apply(scene, Clear(scope)) =
              [id \in Ids |-> IF scene[id] # NoEntity /\ Covers(scope, scene[id].kind)
                              THEN NoEntity ELSE scene[id]]
BY DEF Apply, Erases, Clear

LEMMA EmptySceneType == EmptyScene \in Scenes
BY DEF EmptyScene, Scenes

\* Changing the relationships of an entity leaves an entity of its kind.
LEMMA RelsType ==
    ASSUME NEW e \in Entities, NEW rels \in SUBSET Ids
    PROVE  /\ [e EXCEPT !.rels = rels] \in Entities
           /\ [e EXCEPT !.rels = rels].kind = e.kind
BY DEF Entities, Kinds

-----------------------------------------------------------------------------
(* What the operators on worlds do. *)

(* Losing relations changes nothing else about an entity. *)
LEMMA CutEffect ==
    ASSUME NEW shown \in Shown, NEW hs
    PROVE  /\ Cut(shown, hs) \in Shown
           /\ Cut(shown, hs).val = shown.val
           /\ Cut(shown, hs) \notin Missing
<1>1. Cut(shown, hs) \in Shown /\ Cut(shown, hs).val = shown.val
  BY DEF Cut, Shown
<1> QED
  BY <1>1, MissingAssumption

(* Destroying entities takes exactly them out of their maps. Others may    *)
(* die with them and change in no other way (destroyEntityTree).           *)
LEMMA DestroyedEffect ==
    ASSUME NEW world \in Worlds, NEW hs \in SUBSET Handles
    PROVE  /\ Destroyed(world, hs) \in Worlds
           /\ \A h \in hs : Destroyed(world, hs)[h] = Absent
           /\ \A h \in Handles \ hs : SameShape(Destroyed(world, hs)[h], world[h])
<1> DEFINE tree == Tree(world, hs)
<1>1. ASSUME NEW h \in Handles
      PROVE  Destroyed(world, hs)[h] =
                 IF h \in hs THEN Absent
                 ELSE IF ~Live(world, h) THEN world[h]
                 ELSE IF h \in tree THEN Lost
                 ELSE Cut(world[h], tree)
  BY DEF Destroyed
<1> HIDE DEF tree
<1>2. ASSUME NEW h \in Handles, Live(world, h)
      PROVE  world[h] \in Shown
  BY <1>2 DEF Worlds, Live
<1>3. ASSUME NEW h \in Handles, h \notin hs, Live(world, h), h \notin tree
      PROVE  /\ Destroyed(world, hs)[h] \in Shown
             /\ Destroyed(world, hs)[h].val = world[h].val
             /\ Destroyed(world, hs)[h] \notin Missing
  BY <1>1, <1>2, <1>3, CutEffect
<1>4. ASSUME NEW h \in Handles
      PROVE  Destroyed(world, hs)[h] \in Shown \cup Missing
  BY <1>1, <1>3 DEF Worlds, Missing
<1>5. Destroyed(world, hs) \in Worlds
  BY <1>4 DEF Worlds, Destroyed
<1>6. ASSUME NEW h \in Handles \ hs
      PROVE  SameShape(Destroyed(world, hs)[h], world[h])
  BY <1>1, <1>3, MissingAssumption DEF SameShape, Live, Missing
<1> QED
  BY <1>1, <1>5, <1>6

(* Spawning an entity puts it in its map and moves nothing else (spawn and *)
(* the onAdd hook).                                                        *)
LEMMA WithEffect ==
    ASSUME NEW world \in Worlds, NEW h \in Handles, NEW e \in Entities
    PROVE  /\ With(world, h, e) \in Worlds
           /\ With(world, h, e)[h] = Fresh(e)
           /\ Fresh(e) \in Shown
           /\ \A g \in Handles \ {h} : SameShape(With(world, h, e)[g], world[g])
<1>1. Fresh(e) \in Shown
  BY DEF Fresh, Shown, Entities
<1>2. With(world, h, e) \in Worlds
  BY <1>1 DEF With, Replace, Worlds
<1>3. \A g \in Handles \ {h} : With(world, h, e)[g] = world[g]
  BY DEF With, Replace
<1> QED
  BY <1>1, <1>2, <1>3 DEF With, Replace, SameShape

(* Updating an entity in place gives it the new content (updateTransform,  *)
(* updateDrawing).                                                         *)
LEMMA UpdatedEffect ==
    ASSUME NEW world \in Worlds, NEW h \in Handles, Live(world, h), NEW e \in Entities
    PROVE  /\ Updated(world, h, e) \in Worlds
           /\ Updated(world, h, e)[h] \notin Missing
           /\ Updated(world, h, e)[h].val = e.val
           /\ \A g \in Handles \ {h} : Updated(world, h, e)[g] = world[g]
<1> DEFINE moved == ParentName(world, h) # Parent[e.val]
           x == [world[h] EXCEPT !.val = e.val,
                                 !.under = IF moved THEN {} ELSE @,
                                 !.orphan = IF moved THEN Parent[e.val] # World ELSE @]
<1>1. world[h] \in Shown /\ e.val \in Vals
  BY DEF Worlds, Live, Entities
<1>2. Updated(world, h, e) = Replace(world, h, x)
  BY DEF Updated
<1> HIDE DEF moved
<1>3. x \in Shown /\ x.val = e.val
  BY <1>1 DEF Shown
<1> HIDE DEF x
<1>4. x \notin Missing
  BY <1>3, MissingAssumption
<1> QED
  BY <1>2, <1>3, <1>4 DEF Replace, Worlds

(* Relationships change links and nothing that is drawn.                   *)
(* (serverRelationships.apply)                                             *)
LEMMA LinkedEffect ==
    ASSUME NEW world \in Worlds, NEW h \in Handles, Live(world, h),
           NEW known \in SUBSET Ids, NEW rels \in SUBSET Ids
    PROVE  /\ Linked(world, h, known, rels) \in Worlds
           /\ \A g \in Handles : SameShape(Linked(world, h, known, rels)[g], world[g])
           /\ Linked(world, h, known, rels)[h] \notin Missing
<1> DEFINE dropped == Targets(world, known \ rels)
           found   == Targets(world, rels \ known)
           x == [world[h] EXCEPT !.links = (@ \ dropped) \cup found]
<1>1. found \in SUBSET Handles
  BY DEF Targets, Lookup
<1>2. world[h] \in Shown
  BY DEF Worlds, Live
<1>3. x \in Shown /\ x.val = world[h].val
  <2> HIDE DEF dropped, found
  <2> QED BY <1>1, <1>2 DEF Shown
<1>4. Linked(world, h, known, rels) = Replace(world, h, x)
  BY DEF Linked
<1> HIDE DEF x
<1>5. Replace(world, h, x) \in Worlds
  BY <1>3 DEF Replace, Worlds
<1> QED
  BY <1>3, <1>4, <1>5, MissingAssumption DEF Replace, SameShape, Live, Missing

-----------------------------------------------------------------------------
(* Types. *)

(* What a buffered event is made of. *)
LEMMA EventForm ==
    ASSUME NEW m \in Events
    PROVE  /\ m.id \in Ids
           /\ KindOf(m) \in Kinds
           /\ \/ m.type = "upsert" /\ m.entity \in Entities
              \/ m.type = "removed" /\ m.kind \in Kinds
BY DEF Events, Messages, Upsert, Removal, Clear, KindOf, Entities

LEMMA EventTypes ==
    /\ \A id \in Ids, e \in Entities : Upsert(id, e) \in Events
    /\ \A id \in Ids, k \in Kinds : Removal(id, k) \in Events
BY MessageTypes DEF Events, Upsert, Removal

(* Merging an event or a clear keeps the buffer's type (mergeEvent,        *)
(* mergeClear).                                                            *)
LEMMA MergeEventType ==
    ASSUME TypeOK, NEW m \in Events, MergeEvent(m)
    PROVE  /\ cleared' = cleared
           /\ events' \subseteq Events
           /\ ahead' \in [Ids -> SUBSET Ids]
BY EventForm DEF TypeOK, MergeEvent, Queued

LEMMA MergeClearType ==
    ASSUME TypeOK, NEW scope \in Scopes, MergeClear(scope)
    PROVE  /\ cleared' \in Scopes
           /\ events' \subseteq Events
           /\ ahead' \in [Ids -> SUBSET Ids]
BY EventForm DEF TypeOK, MergeClear, Reordered, Scopes

(* Processing an upsert puts its entity on the screen, takes away the same *)
(* UUID's entity of the other kind and leaves every other entity alone     *)
(* (processTransformEvent, processDrawingEvent).                           *)
LEMMA UpsertEffect ==
    ASSUME TypeOK, NEW m \in events, ProcessUpsert(m),
           NEW h \in Handles, h = <<m.entity.kind, m.id>>,
           NEW rival \in Handles, rival = <<Other(m.entity.kind), m.id>>
    PROVE  /\ drawn' \in Worlds
           /\ cache' \in [Ids -> SUBSET Ids]
           /\ drawn'[rival] = Absent
           /\ drawn'[h] \notin Missing
           /\ drawn'[h].val = m.entity.val
           /\ \A g \in Handles \ {h, rival} : SameShape(drawn'[g], drawn[g])
<1> DEFINE e       == m.entity
           room    == Destroyed(drawn, IF e.chunks THEN {rival, h} ELSE {rival})
           known   == IF drawn[rival] # Absent THEN {} ELSE cache[m.id]
           updated == IF Live(room, h) THEN Updated(room, h, e) ELSE With(room, h, e)
<1>1. m.id \in Ids /\ e \in Entities /\ drawn \in Worlds /\ known \in SUBSET Ids
  BY EventForm DEF TypeOK, ProcessUpsert, Worlds
<1>2. h # rival /\ e.rels \in SUBSET Ids /\ e.val \in Vals
  BY <1>1 DEF Other, Entities
<1>3. drawn' = Linked(updated, h, known, e.rels) /\ cache' = [cache EXCEPT ![m.id] = e.rels]
  BY DEF ProcessUpsert
<1>4. /\ room \in Worlds
      /\ room[rival] = Absent
      /\ \A g \in Handles \ {h, rival} : SameShape(room[g], drawn[g])
  <2> DEFINE hs == IF e.chunks THEN {rival, h} ELSE {rival}
  <2>1. hs \in SUBSET Handles /\ rival \in hs /\ hs \subseteq {h, rival}
    OBVIOUS
  <2> HIDE DEF hs
  <2>2. room = Destroyed(drawn, hs)
    BY DEF hs
  <2> HIDE DEF room
  <2> QED
    BY <1>1, <2>1, <2>2, DestroyedEffect
<1> HIDE DEF room, known
<1>5. /\ updated \in Worlds
      /\ updated[h] \notin Missing /\ updated[h].val = e.val
      /\ \A g \in Handles \ {h} : SameShape(updated[g], room[g])
  <2>1. CASE Live(room, h)
    BY <1>1, <1>4, <2>1, UpdatedEffect DEF SameShape
  <2>2. CASE ~Live(room, h)
    <3>1. Fresh(e) \in Shown /\ Fresh(e).val = e.val
      BY <1>1, <1>4, WithEffect DEF Fresh
    <3>2. Fresh(e) \notin Missing
      BY <3>1, MissingAssumption
    <3> QED
      BY <1>1, <1>4, <2>2, <3>1, <3>2, WithEffect
  <2> QED
    BY <2>1, <2>2
<1> HIDE DEF updated
<1>6. /\ drawn' \in Worlds
      /\ \A g \in Handles : SameShape(drawn'[g], updated[g])
      /\ drawn'[h] \notin Missing
  BY <1>1, <1>2, <1>3, <1>5, LinkedEffect DEF Live
<1>7. cache' \in [Ids -> SUBSET Ids]
  BY <1>1, <1>2, <1>3 DEF TypeOK
<1> QED
  BY <1>2, <1>4, <1>5, <1>6, <1>7 DEF SameShape

-----------------------------------------------------------------------------
(* The invariant. *)

\* A buffered event says what the stream last told of its UUID.
BufferAgrees ==
    \A m \in events : told[m.id] = IF m.type = "upsert" THEN m.entity ELSE NoEntity

\* What is told of a UUID with nothing buffered is on the screen, out of the
\* reach of a buffered clear.
ScreenAgrees ==
    \A id \in Present(told) \ Queued :
        /\ drawn[<<told[id].kind, id>>] # Absent
        /\ drawn[<<told[id].kind, id>>] \notin Missing =>
               drawn[<<told[id].kind, id>>].val = told[id].val
        /\ cleared # "none" => ~Covers(cleared, told[id].kind)

OneMapPerUuid ==
    \A g, h \in Handles : drawn[g] # Absent /\ drawn[h] # Absent /\ g[2] = h[2] => g = h

FlushCleared == flushing => cleared = "none" /\ events # {}

Following == up => BufferAgrees /\ ScreenAgrees

ScreenInv == TypeOK /\ OneEventPerUuid /\ OneMapPerUuid /\ FlushCleared /\ Following

(* The stream upserts an entity. *)
LEMMA UpsertReceived ==
    ASSUME ScreenInv, NEW id \in Ids, NEW e \in Entities, Receiving,
           told' = Apply(told, Upsert(id, e)), gone' \in SUBSET Ids,
           MergeEvent(Upsert(id, e)), UNCHANGED <<up, flushing, worldVars>>
    PROVE  ScreenInv'
<1> DEFINE m == Upsert(id, e)
<1>1. m \in Events /\ m.id = id /\ m.type = "upsert" /\ m.entity = e
  BY EventTypes DEF Upsert
<1>2. told' = [told EXCEPT ![id] = e] /\ told' \in Scenes
  <2>1. told \in Scenes /\ "drawing" \in Kinds
    BY DEF ScreenInv, TypeOK, Kinds
  <2>2. told' = [told EXCEPT ![id] = e]
    BY <2>1, ApplyPoint
  <2> QED
    BY <2>1, <2>2 DEF Scenes
<1>3. events' = {n \in events : n.id # id} \cup {m} /\ cleared' = cleared
  BY <1>1 DEF MergeEvent
<1>4. TypeOK'
  BY <1>1, <1>2, MergeEventType DEF ScreenInv, TypeOK, worldVars
<1>5. OneEventPerUuid' /\ OneMapPerUuid' /\ FlushCleared'
  BY <1>1, <1>3 DEF ScreenInv, OneEventPerUuid, OneMapPerUuid, FlushCleared, worldVars, Receiving
<1>6. \A n \in events : n.id \in Ids
  BY EventForm DEF ScreenInv, TypeOK
<1>7. BufferAgrees'
  BY <1>1, <1>2, <1>3, <1>6 DEF ScreenInv, Following, Receiving, BufferAgrees, TypeOK, Scenes
<1>8. Queued' = Queued \cup {id}
  BY <1>1, <1>3 DEF Queued
<1>9. \A i \in Present(told') \ Queued' : i \in Present(told) \ Queued /\ told'[i] = told[i]
  BY <1>2, <1>8 DEF Present, ScreenInv, TypeOK, Scenes
<1>10. ScreenAgrees'
  BY <1>3, <1>9 DEF ScreenInv, Following, Receiving, ScreenAgrees, worldVars
<1> QED
  BY <1>4, <1>5, <1>7, <1>10 DEF ScreenInv, Following

(* The stream removes an entity. *)
LEMMA RemovalReceived ==
    ASSUME ScreenInv, NEW id \in Ids, ReceiveRemoval(id)
    PROVE  ScreenInv'
<1> DEFINE m == Removal(id, told[id].kind)
<1>1. told[id] \in Entities /\ told[id].kind \in Kinds
  BY DEF ReceiveRemoval, Present, ScreenInv, TypeOK, Scenes, Entities
<1>2. m \in Events /\ m.id = id /\ m.type = "removed"
  BY <1>1, EventTypes DEF Removal
<1>3. told' = [told EXCEPT ![id] = NoEntity] /\ told' \in Scenes
  <2>1. told \in Scenes
    BY DEF ScreenInv, TypeOK
  <2>2. told' = [told EXCEPT ![id] = NoEntity]
    BY <1>1, <2>1, ApplyPoint DEF ReceiveRemoval
  <2> QED
    BY <2>1, <2>2 DEF Scenes
<1>4. events' = {n \in events : n.id # id} \cup {m} /\ cleared' = cleared
  BY <1>2 DEF ReceiveRemoval, MergeEvent
<1>5. TypeOK'
  BY <1>2, <1>3, MergeEventType DEF ReceiveRemoval, ScreenInv, TypeOK, worldVars
<1>6. OneEventPerUuid' /\ OneMapPerUuid' /\ FlushCleared'
  BY <1>2, <1>4 DEF ReceiveRemoval, ScreenInv, OneEventPerUuid, OneMapPerUuid, FlushCleared,
                    worldVars, Receiving
<1>7. \A n \in events : n.id \in Ids
  BY EventForm DEF ScreenInv, TypeOK
<1>8. BufferAgrees'
  BY <1>2, <1>3, <1>4, <1>7
     DEF ReceiveRemoval, ScreenInv, Following, Receiving, BufferAgrees, TypeOK, Scenes
<1>9. Queued' = Queued \cup {id}
  BY <1>2, <1>4 DEF Queued
<1>10. \A i \in Present(told') \ Queued' : i \in Present(told) \ Queued /\ told'[i] = told[i]
  BY <1>3, <1>9 DEF Present, ScreenInv, TypeOK, Scenes
<1>11. ScreenAgrees'
  BY <1>4, <1>10 DEF ReceiveRemoval, ScreenInv, Following, Receiving, ScreenAgrees, worldVars
<1> QED
  BY <1>5, <1>6, <1>8, <1>11 DEF ScreenInv, Following

(* Widening a scope covers what either scope covered (mergeClear). *)
LEMMA Widened ==
    ASSUME NEW scope \in Scopes, NEW old \in Scopes \cup {"none"}, NEW k \in Kinds,
           NEW new, new = IF old \in {"none", scope} THEN scope ELSE "all"
    PROVE  new # "none" /\ (Covers(new, k) <=> Covers(scope, k) \/ (old # "none" /\ Covers(old, k)))
BY DEF Scopes, Covers, Kinds

(* What a clear leaves told and not buffered was so before. *)
LEMMA ClearLeaves ==
    ASSUME ScreenInv, NEW scope \in Scopes, ReceiveClear(scope)
    PROVE  \A id \in Present(told') \ Queued' :
               /\ id \in Present(told) \ Queued /\ told'[id] = told[id]
               /\ ~Covers(scope, told[id].kind)
<1>1. told' = [id \in Ids |-> IF told[id] # NoEntity /\ Covers(scope, told[id].kind)
                              THEN NoEntity ELSE told[id]]
  BY ApplyClear DEF ReceiveClear, ScreenInv, TypeOK
<1>2. events' = {m \in events : ~Covers(scope, KindOf(m))}
  BY DEF ReceiveClear, MergeClear
<1>3. \A m \in events : m.type = "upsert" => KindOf(m) = m.entity.kind
  BY DEF KindOf
<1> SUFFICES ASSUME NEW id \in Present(told') \ Queued'
             PROVE  /\ id \in Present(told) \ Queued /\ told'[id] = told[id]
                    /\ ~Covers(scope, told[id].kind)
  OBVIOUS
<1>4. id \in Ids /\ told'[id] = told[id] /\ told[id] # NoEntity /\ ~Covers(scope, told[id].kind)
  BY <1>1 DEF Present
<1>5. ASSUME NEW m \in events, m.id = id
      PROVE  FALSE
  <2>1. m.type = "upsert" /\ m.entity = told[id]
    BY <1>4, <1>5 DEF ReceiveClear, ScreenInv, Following, Receiving, BufferAgrees
  <2>2. m \in events'
    BY <1>2, <1>3, <1>4, <2>1
  <2> QED
    BY <1>5, <2>2 DEF Queued
<1> QED
  BY <1>4, <1>5 DEF Present, Queued

(* The stream clears a scope. *)
LEMMA ClearReceived ==
    ASSUME ScreenInv, NEW scope \in Scopes, ReceiveClear(scope)
    PROVE  ScreenInv'
<1>1. told' = [id \in Ids |-> IF told[id] # NoEntity /\ Covers(scope, told[id].kind)
                              THEN NoEntity ELSE told[id]]
  BY ApplyClear DEF ReceiveClear, ScreenInv, TypeOK
<1>2. told' \in Scenes
  BY <1>1 DEF ScreenInv, TypeOK, Scenes
<1>3. events' = {m \in events : ~Covers(scope, KindOf(m))}
  BY DEF ReceiveClear, MergeClear
<1>4. TypeOK'
  BY <1>2, MergeClearType DEF ReceiveClear, ScreenInv, TypeOK, worldVars, Present
<1>5. OneEventPerUuid' /\ OneMapPerUuid' /\ FlushCleared'
  BY <1>3 DEF ReceiveClear, ScreenInv, OneEventPerUuid, OneMapPerUuid, FlushCleared,
              worldVars, Receiving
<1>6. \A m \in events :
         /\ m.id \in Ids
         /\ m.type = "upsert" => KindOf(m) = m.entity.kind /\ m.entity # NoEntity
  BY EventForm, NoEntityAssumption DEF ScreenInv, TypeOK, KindOf
<1>7. BufferAgrees'
  BY <1>1, <1>3, <1>6 DEF ReceiveClear, ScreenInv, Following, Receiving, BufferAgrees
<1>8. \A id \in Present(told') \ Queued' :
         id \in Present(told) \ Queued /\ told'[id] = told[id] /\ ~Covers(scope, told[id].kind)
  BY ClearLeaves
<1>9. ASSUME NEW id \in Present(told') \ Queued'
      PROVE  ~Covers(cleared', told[id].kind)
  <2>1. id \in Ids /\ told[id] \in Entities /\ told[id].kind \in Kinds
    BY <1>8, <1>9 DEF Present, ScreenInv, TypeOK, Scenes, Entities
  <2>2. cleared # "none" => ~Covers(cleared, told[id].kind)
    BY <1>8, <1>9 DEF ReceiveClear, ScreenInv, Following, Receiving, ScreenAgrees
  <2>3. cleared' = IF cleared \in {"none", scope} THEN scope ELSE "all"
    BY DEF ReceiveClear, MergeClear
  <2> QED
    BY <1>8, <1>9, <2>1, <2>2, <2>3, Widened DEF ScreenInv, TypeOK
<1>10. ScreenAgrees'
  BY <1>8, <1>9 DEF ReceiveClear, ScreenInv, Following, Receiving, ScreenAgrees, worldVars
<1> QED
  BY <1>4, <1>5, <1>7, <1>10 DEF ScreenInv, Following

(* Taking an event out of the buffer leaves the others in agreement. *)
LEMMA Dequeued ==
    ASSUME ScreenInv, NEW m \in events, NextEvent(m)
    PROVE  /\ Queued' = Queued \ {m.id}
           /\ events' \subseteq Events /\ ahead' \in [Ids -> SUBSET Ids]
           /\ OneEventPerUuid' /\ FlushCleared'
           /\ up => BufferAgrees'
           /\ cleared = "none" /\ cleared' = "none"
           /\ flushing' \in BOOLEAN
<1>1. events' = events \ {m} /\ cleared' = cleared /\ told' = told /\ up' = up
  BY DEF NextEvent, streamVars
<1>2. \A n \in events : n.id \in Ids
  BY EventForm DEF ScreenInv, TypeOK
<1>3. Queued' = Queued \ {m.id}
  BY <1>1 DEF Queued, ScreenInv, OneEventPerUuid
<1>4. events' \subseteq Events /\ ahead' \in [Ids -> SUBSET Ids]
  BY <1>1, <1>2 DEF NextEvent, Reordered, ScreenInv, TypeOK, Queued
<1>5. OneEventPerUuid' /\ FlushCleared' /\ cleared = "none" /\ flushing' \in BOOLEAN
  BY <1>1 DEF NextEvent, ScreenInv, OneEventPerUuid, FlushCleared
<1>6. up => BufferAgrees'
  BY <1>1 DEF ScreenInv, Following, BufferAgrees
<1> QED
  BY <1>1, <1>3, <1>4, <1>5, <1>6

LEMMA HandleIsPair ==
    /\ \A k \in Kinds, id \in Ids : <<k, id>> \in Handles
    /\ \A h \in Handles : h = <<h[1], h[2]>> /\ h[1] \in Kinds /\ h[2] \in Ids
BY DEF Handles

(* What is told and not buffered is on the screen as long as no step       *)
(* destroys it.                                                            *)
LEMMA ScreenKept ==
    ASSUME ScreenInv, up, up' = up, told' = told, cleared' = "none",
           NEW S, S = Present(told) \ Queued,
           \A id \in S : SameShape(drawn'[<<told[id].kind, id>>], drawn[<<told[id].kind, id>>])
    PROVE  \A id \in S :
               /\ drawn'[<<told'[id].kind, id>>] # Absent
               /\ drawn'[<<told'[id].kind, id>>] \notin Missing =>
                      drawn'[<<told'[id].kind, id>>].val = told'[id].val
               /\ cleared' # "none" => ~Covers(cleared', told'[id].kind)
BY DEF ScreenInv, Following, ScreenAgrees, SameShape

(* The clear of a frame. *)
LEMMA FrameKeeps ==
    ASSUME ScreenInv, Frame
    PROVE  ScreenInv'
<1> DEFINE ended == {h \in Handles : /\ cleared # "none"
                                     /\ Covers(cleared, h[1])
                                     /\ h[2] \notin Surviving
                                     /\ drawn[h] # Absent}
<1>1. /\ up' = up /\ told' = told /\ gone' = gone /\ events' = events /\ ahead' = ahead
      /\ cleared' = "none" /\ flushing' = (events # {})
      /\ drawn' = Destroyed(drawn, ended)
      /\ cache' = [id \in Ids |-> IF \E h \in ended : h[2] = id THEN {} ELSE cache[id]]
  BY DEF Frame, streamVars
<1>2. drawn \in Worlds /\ ended \in SUBSET Handles
  BY DEF ScreenInv, TypeOK, Worlds
<1>3. /\ drawn' \in Worlds
      /\ \A h \in ended : drawn'[h] = Absent
      /\ \A h \in Handles \ ended : SameShape(drawn'[h], drawn[h])
  BY <1>1, <1>2, DestroyedEffect
<1>4. TypeOK'
  BY <1>1, <1>3 DEF ScreenInv, TypeOK, Worlds
<1>5. OneMapPerUuid'
  BY <1>3 DEF ScreenInv, OneMapPerUuid, SameShape
<1>6. OneEventPerUuid' /\ FlushCleared' /\ Queued' = Queued
  BY <1>1 DEF ScreenInv, OneEventPerUuid, FlushCleared, Queued
<1>7. ASSUME up
      PROVE  BufferAgrees' /\ ScreenAgrees'
  <2>1. BufferAgrees'
    BY <1>1, <1>7 DEF ScreenInv, Following, BufferAgrees
  <2>2. ASSUME NEW id \in Present(told) \ Queued
        PROVE  SameShape(drawn'[<<told[id].kind, id>>], drawn[<<told[id].kind, id>>])
    <3>1. id \in Ids /\ told[id].kind \in Kinds
      BY DEF Present, ScreenInv, TypeOK, Scenes, Entities
    <3>2. cleared # "none" => ~Covers(cleared, told[id].kind)
      BY <1>7 DEF ScreenInv, Following, ScreenAgrees
    <3>3. <<told[id].kind, id>> \in Handles \ ended
      BY <3>1, <3>2, HandleIsPair
    <3> QED
      BY <1>3, <3>3
  <2>3. ScreenAgrees'
    BY <1>1, <1>6, <1>7, <2>2, ScreenKept DEF ScreenAgrees, Present
  <2> QED
    BY <2>1, <2>3
<1> QED
  BY <1>1, <1>4, <1>5, <1>6, <1>7 DEF ScreenInv, Following

(* A removal is processed. *)
LEMMA RemovalKeeps ==
    ASSUME ScreenInv, NEW m \in events, ProcessRemoval(m)
    PROVE  ScreenInv'
<1> DEFINE h == <<m.kind, m.id>>
<1>1. m.id \in Ids /\ m.type = "removed" /\ h \in Handles
  BY EventForm, HandleIsPair DEF ProcessRemoval, ScreenInv, TypeOK
<1>2. NextEvent(m) /\ drawn' = Destroyed(drawn, {h}) /\ cache' = [cache EXCEPT ![m.id] = {}]
  BY DEF ProcessRemoval
<1>3. up' = up /\ told' = told /\ gone' = gone
  BY <1>2 DEF NextEvent, streamVars
<1>4. drawn \in Worlds
  BY DEF ScreenInv, TypeOK, Worlds
<1>5. /\ drawn' \in Worlds
      /\ drawn'[h] = Absent
      /\ \A g \in Handles \ {h} : SameShape(drawn'[g], drawn[g])
  BY <1>1, <1>2, <1>4, DestroyedEffect
<1>6. TypeOK'
  BY <1>1, <1>2, <1>3, <1>5, Dequeued DEF ScreenInv, TypeOK, Worlds
<1>7. OneMapPerUuid'
  BY <1>5 DEF ScreenInv, OneMapPerUuid, SameShape
<1>8. ASSUME up
      PROVE  BufferAgrees' /\ ScreenAgrees'
  <2>1. told[m.id] = NoEntity
    BY <1>1, <1>8 DEF ScreenInv, Following, BufferAgrees
  <2>2. Present(told) \ Queued' = Present(told) \ Queued
    BY <1>2, <2>1, Dequeued DEF Present
  <2>3. ASSUME NEW id \in Present(told) \ Queued
        PROVE  SameShape(drawn'[<<told[id].kind, id>>], drawn[<<told[id].kind, id>>])
    <3>1. id \in Ids /\ told[id].kind \in Kinds /\ id # m.id
      BY <2>1 DEF Present, ScreenInv, TypeOK, Scenes, Entities
    <3>2. <<told[id].kind, id>> \in Handles \ {h}
      BY <3>1, HandleIsPair
    <3> QED
      BY <1>5, <3>2
  <2>4. ScreenAgrees'
    BY <1>2, <1>3, <1>8, <2>2, <2>3, Dequeued, ScreenKept DEF ScreenAgrees, Present
  <2> QED
    BY <1>2, <1>8, <2>4, Dequeued
<1> QED
  BY <1>2, <1>3, <1>6, <1>7, <1>8, Dequeued DEF ScreenInv, Following

(* An upsert is processed. *)
LEMMA UpsertKeeps ==
    ASSUME ScreenInv, NEW m \in events, ProcessUpsert(m)
    PROVE  ScreenInv'
<1> DEFINE h     == <<m.entity.kind, m.id>>
           rival == <<Other(m.entity.kind), m.id>>
<1>1. m.id \in Ids /\ m.type = "upsert" /\ m.entity \in Entities
  BY EventForm DEF ProcessUpsert, ScreenInv, TypeOK
<1>2. /\ h \in Handles /\ rival \in Handles
      /\ \A g \in Handles : g[2] = m.id => g = h \/ g = rival
  BY <1>1, HandleIsPair DEF Entities, Kinds, Other
<1>3. NextEvent(m)
  BY DEF ProcessUpsert
<1>4. up' = up /\ told' = told /\ gone' = gone
  BY <1>3 DEF NextEvent, streamVars
<1>5. /\ drawn' \in Worlds /\ cache' \in [Ids -> SUBSET Ids]
      /\ drawn'[rival] = Absent
      /\ drawn'[h] \notin Missing
      /\ drawn'[h].val = m.entity.val
      /\ \A g \in Handles \ {h, rival} : SameShape(drawn'[g], drawn[g])
  BY <1>2, UpsertEffect DEF ScreenInv
<1>6. TypeOK'
  BY <1>3, <1>4, <1>5, Dequeued DEF ScreenInv, TypeOK, Worlds
<1>7. OneMapPerUuid'
  BY <1>2, <1>5 DEF ScreenInv, OneMapPerUuid, SameShape
<1>8. ASSUME up
      PROVE  BufferAgrees' /\ ScreenAgrees'
  <2>1. told[m.id] = m.entity
    BY <1>1, <1>8 DEF ScreenInv, Following, BufferAgrees
  <2>2. Present(told') \ Queued' \subseteq (Present(told) \ Queued) \cup {m.id}
    BY <1>3, <1>4, Dequeued DEF Present
  <2>3. ASSUME NEW id \in (Present(told) \ Queued)
        PROVE  SameShape(drawn'[<<told[id].kind, id>>], drawn[<<told[id].kind, id>>])
    <3>1. id \in Ids /\ told[id].kind \in Kinds /\ id # m.id
      BY DEF Present, ScreenInv, TypeOK, Scenes, Entities, Queued
    <3>2. <<told[id].kind, id>> \in Handles \ {h, rival}
      BY <3>1, HandleIsPair
    <3> QED
      BY <1>5, <3>2
  <2>4. cleared' = "none"
    BY <1>3, Dequeued
  <2>5. \A id \in Present(told) \ Queued :
           /\ drawn'[<<told'[id].kind, id>>] # Absent
           /\ drawn'[<<told'[id].kind, id>>] \notin Missing =>
                  drawn'[<<told'[id].kind, id>>].val = told'[id].val
    BY <1>4, <1>8, <2>3, <2>4, ScreenKept
  <2>6. /\ drawn'[<<told'[m.id].kind, m.id>>] # Absent
        /\ drawn'[<<told'[m.id].kind, m.id>>].val = told'[m.id].val
    BY <1>4, <1>5, <2>1 DEF Missing
  <2>7. ScreenAgrees'
    BY <2>2, <2>4, <2>5, <2>6 DEF ScreenAgrees
  <2> QED
    BY <1>3, <1>8, <2>7, Dequeued
<1> QED
  BY <1>3, <1>4, <1>6, <1>7, <1>8, Dequeued DEF ScreenInv, Following

(* What happens to the world behind the stream's back keeps the invariant  *)
(* if it adds nothing and shows nothing else.                              *)
LEMMA WorldDisturbed ==
    ASSUME ScreenInv, UNCHANGED <<streamVars, bufferVars, cache>>, drawn' \in Worlds,
           \A h \in Handles : SameShape(drawn'[h], drawn[h])
    PROVE  ScreenInv'
<1>1. /\ up' = up /\ told' = told /\ gone' = gone /\ cache' = cache
      /\ cleared' = cleared /\ events' = events /\ ahead' = ahead /\ flushing' = flushing
  BY DEF streamVars, bufferVars
<1>2. TypeOK'
  BY <1>1 DEF ScreenInv, TypeOK, Worlds
<1>3. OneMapPerUuid'
  BY DEF ScreenInv, OneMapPerUuid, SameShape
<1>4. OneEventPerUuid' /\ FlushCleared' /\ Queued' = Queued
  BY <1>1 DEF ScreenInv, OneEventPerUuid, FlushCleared, Queued
<1>5. ASSUME up
      PROVE  BufferAgrees' /\ ScreenAgrees'
  <2>1. BufferAgrees'
    BY <1>1, <1>5 DEF ScreenInv, Following, BufferAgrees
  <2>2. ASSUME NEW id \in Present(told) \ Queued
        PROVE  LET g == <<told[id].kind, id>>
               IN  /\ drawn'[g] # Absent
                   /\ drawn'[g] \notin Missing => drawn'[g].val = told[id].val
                   /\ cleared # "none" => ~Covers(cleared, told[id].kind)
    <3>1. <<told[id].kind, id>> \in Handles
      BY HandleIsPair DEF Present, ScreenInv, TypeOK, Scenes, Entities
    <3>2. /\ drawn[<<told[id].kind, id>>] # Absent
          /\ drawn[<<told[id].kind, id>>] \notin Missing =>
                 drawn[<<told[id].kind, id>>].val = told[id].val
          /\ cleared # "none" => ~Covers(cleared, told[id].kind)
      BY <1>5 DEF ScreenInv, Following, ScreenAgrees
    <3> QED
      BY <3>1, <3>2 DEF SameShape
  <2>3. ScreenAgrees'
    BY <1>1, <1>4, <2>2 DEF ScreenAgrees, Present
  <2> QED
    BY <2>1, <2>3
<1> QED
  BY <1>1, <1>2, <1>3, <1>4, <1>5 DEF ScreenInv, Following

(* The user deletes an entity, which stays in its map, dead. *)
LEMMA DeletionKeeps ==
    ASSUME ScreenInv, NEW h \in Handles, UserDeletes(h)
    PROVE  ScreenInv'
<1>1. drawn \in Worlds
  BY DEF ScreenInv, TypeOK, Worlds
<1>2. drawn' = [g \in Handles |-> IF g = h THEN Deleted
                                  ELSE IF Live(drawn, g) THEN Cut(drawn[g], {h})
                                  ELSE drawn[g]]
  BY DEF UserDeletes
<1>3. ASSUME NEW g \in Handles, g # h, Live(drawn, g)
      PROVE  drawn'[g] \in Shown /\ drawn'[g].val = drawn[g].val /\ drawn'[g] \notin Missing
  <2>1. drawn[g] \in Shown
    BY <1>1, <1>3 DEF Worlds, Live
  <2> QED
    BY <1>2, <1>3, <2>1, CutEffect
<1>4. ASSUME NEW g \in Handles
      PROVE  drawn'[g] \in Shown \cup Missing /\ SameShape(drawn'[g], drawn[g])
  <2>1. CASE g = h
    BY <1>2, <2>1, MissingAssumption DEF UserDeletes, Live, SameShape, Missing
  <2>2. CASE g # h /\ Live(drawn, g)
    BY <1>3, <2>2 DEF Live, SameShape, Missing
  <2>3. CASE g # h /\ ~Live(drawn, g)
    BY <1>1, <1>2, <2>3 DEF Worlds, SameShape
  <2> QED
    BY <2>1, <2>2, <2>3
<1>5. drawn' \in Worlds
  BY <1>2, <1>4 DEF Worlds
<1> QED
  BY <1>4, <1>5, WorldDisturbed DEF UserDeletes

(* An orphan finds its parent. *)
LEMMA ResolutionKeeps ==
    ASSUME ScreenInv, NEW h \in Handles, Resolve(h)
    PROVE  ScreenInv'
<1>1. drawn \in Worlds
  BY DEF ScreenInv, TypeOK, Worlds
<1>2. PICK g \in Handles :
          drawn' = Replace(drawn, h, [drawn[h] EXCEPT !.under = {g}, !.orphan = FALSE])
  BY DEF Resolve, Named
<1> DEFINE x == [drawn[h] EXCEPT !.under = {g}, !.orphan = FALSE]
<1>3. drawn[h] \in Shown
  BY <1>1 DEF Resolve, Worlds, Live
<1>4. x \in Shown /\ x.val = drawn[h].val
  BY <1>3 DEF Shown
<1>5. drawn' = Replace(drawn, h, x)
  BY <1>2
<1> HIDE DEF x
<1>6. x \notin Missing /\ drawn[h] \notin Missing
  BY <1>3, <1>4, MissingAssumption
<1>7. drawn' \in Worlds /\ \A k \in Handles : SameShape(drawn'[k], drawn[k])
  BY <1>1, <1>4, <1>5, <1>6 DEF Replace, Worlds, SameShape, Missing
<1> QED
  BY <1>7, WorldDisturbed DEF Resolve

(* Local state is cleared: the screen and the buffer are empty. *)
LEMMA Cleared ==
    ASSUME ScreenInv, ClearLocalState, flushing' = FALSE, up' \in BOOLEAN,
           told' \in Scenes, gone' \in SUBSET Ids, up' => told' = EmptyScene
    PROVE  ScreenInv'
<1>1. /\ cleared' = "none" /\ events' = {} /\ ahead' = NothingQueued
      /\ drawn' = EmptyWorld /\ cache' = NothingKnown
  BY DEF ClearLocalState
<1>2. TypeOK'
  BY <1>1 DEF TypeOK, NothingQueued, EmptyWorld, NothingKnown, Missing
<1>3. OneEventPerUuid' /\ OneMapPerUuid' /\ FlushCleared'
  BY <1>1 DEF OneEventPerUuid, OneMapPerUuid, FlushCleared, EmptyWorld
<1>4. BufferAgrees'
  BY <1>1 DEF BufferAgrees
<1>5. up' => Present(told') = {}
  BY DEF EmptyScene, Present
<1>6. up' => ScreenAgrees'
  BY <1>5 DEF ScreenAgrees
<1> QED
  BY <1>2, <1>3, <1>4, <1>6 DEF ScreenInv, Following

LEMMA ScreenInit == Init => ScreenInv
<1> SUFFICES ASSUME Init PROVE ScreenInv
  OBVIOUS
<1>1. TypeOK
  BY EmptySceneType DEF Init, TypeOK, NothingQueued, EmptyWorld, NothingKnown, Missing
<1>2. OneEventPerUuid /\ OneMapPerUuid /\ FlushCleared /\ Following
  BY DEF Init, OneEventPerUuid, OneMapPerUuid, FlushCleared, Following, EmptyWorld
<1> QED
  BY <1>1, <1>2 DEF ScreenInv

LEMMA ScreenStep == ScreenInv /\ [Next]_vars => ScreenInv'
<1> SUFFICES ASSUME ScreenInv, [Next]_vars PROVE ScreenInv'
  OBVIOUS
<1>1. ASSUME NEW id \in Ids, NEW e \in Offers[id], ReceiveUpsert(id, e)
      PROVE  ScreenInv'
  <2>1. e \in Entities
    BY OffersAssumption
  <2> QED
    BY <1>1, <2>1, UpsertReceived DEF ReceiveUpsert
<1>2. ASSUME NEW id \in Ids, ReceiveCascade(id)
      PROVE  ScreenInv'
  <2> DEFINE e == [told[id] EXCEPT !.rels = @ \ gone]
  <2>1. told[id] \in Entities
    BY <1>2 DEF ReceiveCascade, PointingAt, Present, ScreenInv, TypeOK, Scenes
  <2>2. told[id].rels \ gone \in SUBSET Ids
    BY <2>1 DEF Entities
  <2>3. e \in Entities
    BY <2>1, <2>2, RelsType
  <2>4. gone' \in SUBSET Ids /\ UNCHANGED <<up, flushing, worldVars>> /\ Receiving
    BY <1>2 DEF ReceiveCascade, ScreenInv, TypeOK
  <2>5. told' = Apply(told, Upsert(id, e)) /\ MergeEvent(Upsert(id, e))
    BY <1>2 DEF ReceiveCascade
  <2> HIDE DEF e
  <2> QED
    BY <2>3, <2>4, <2>5, UpsertReceived
<1>3. ASSUME NEW id \in Ids, ReceiveRemoval(id)
      PROVE  ScreenInv'
  BY <1>3, RemovalReceived
<1>4. ASSUME NEW scope \in Scopes, ReceiveClear(scope)
      PROVE  ScreenInv'
  BY <1>4, ClearReceived
<1>5. CASE Frame
  BY <1>5, FrameKeeps
<1>6. ASSUME NEW m \in events, ProcessRemoval(m) \/ ProcessUpsert(m)
      PROVE  ScreenInv'
  BY <1>6, RemovalKeeps, UpsertKeeps
<1>7. ASSUME NEW h \in Handles, UserDeletes(h) \/ Resolve(h)
      PROVE  ScreenInv'
  BY <1>7, DeletionKeeps, ResolutionKeeps
<1>8. CASE Connect
  BY <1>8, Cleared, EmptySceneType DEF Connect, ScreenInv, TypeOK
<1>9. CASE Lose
  BY <1>9 DEF Lose, bufferVars, worldVars, ScreenInv, TypeOK, OneEventPerUuid, OneMapPerUuid,
              FlushCleared, Following
<1>10. CASE Abort
  BY <1>10, Cleared DEF Abort, ScreenInv, TypeOK
<1>11. CASE UNCHANGED vars
  <2>1. TypeOK' /\ OneEventPerUuid' /\ OneMapPerUuid' /\ FlushCleared'
    BY <1>11 DEF vars, streamVars, bufferVars, worldVars, ScreenInv, TypeOK, OneEventPerUuid,
                 OneMapPerUuid, FlushCleared
  <2>2. Following'
    BY <1>11 DEF vars, streamVars, bufferVars, worldVars, ScreenInv, Following, BufferAgrees,
                 ScreenAgrees, Queued, Present
  <2> QED
    BY <2>1, <2>2 DEF ScreenInv
<1> QED
  BY <1>1, <1>2, <1>3, <1>4, <1>5, <1>6, <1>7, <1>8, <1>9, <1>10, <1>11 DEF Next

LEMMA ScreenAlways == Spec => []ScreenInv
BY ScreenInit, ScreenStep, PTL DEF Spec

-----------------------------------------------------------------------------
(* The theorems. *)

(* The buffer, the entity maps and the relationship cache keep their types *)
(* (useDrawService).                                                       *)
THEOREM ClientTypeCorrect == Spec => []TypeOK
<1>1. ScreenInv => TypeOK
  BY DEF ScreenInv
<1> QED
  BY <1>1, ScreenAlways, PTL

(* Whatever the messages and however they fall into frames, an applied     *)
(* buffer leaves everything told on the screen with its latest content     *)
(* (coalesceEvents, applyChanges).                                         *)
THEOREM ToldAlwaysShown == Spec => []ToldIsShown
<1>1. ScreenInv => ToldIsShown
  <2> SUFFICES ASSUME ScreenInv, Settled, NEW id \in Present(told)
               PROVE  LET h == <<told[id].kind, id>>
                      IN  drawn[h] # Absent /\ (Live(drawn, h) => drawn[h].val = told[id].val)
    BY DEF ToldIsShown
  <2>1. Queued = {} /\ ScreenAgrees
    BY DEF Settled, Queued, ScreenInv, Following
  <2> QED
    BY <2>1 DEF ScreenAgrees, Live
<1> QED
  BY <1>1, ScreenAlways, PTL

(* No UUID is on the screen as a transform and as a drawing at once        *)
(* (processTransformEvent, processDrawingEvent).                           *)
THEOREM NeverShownTwice == Spec => []OneLivePerUuid
<1>1. ScreenInv => OneLivePerUuid
  BY DEF ScreenInv, OneMapPerUuid, OneLivePerUuid, Live, Missing
<1> QED
  BY <1>1, ScreenAlways, PTL

(* The buffer holds at most one event per UUID however many arrive between *)
(* two frames (mergeEvent).                                                *)
THEOREM BufferBounded == Spec => []OneEventPerUuid
<1>1. ScreenInv => OneEventPerUuid
  BY DEF ScreenInv
<1> QED
  BY <1>1, ScreenAlways, PTL

-----------------------------------------------------------------------------
(* Parents. *)

\* UnderItsParent of any world.
WellPlaced(world) ==
    \A h \in Handles : Live(world, h) =>
        /\ \A g \in world[h].under : Live(world, g) /\ world[g].frame = Parent[world[h].val]
        /\ world[h].orphan => world[h].under = {} /\ Parent[world[h].val] # World

\* x is what became of the entity y, with the same name, content and parent.
SamePlace(x, y) ==
    /\ x \notin Missing <=> y \notin Missing
    /\ x \notin Missing => /\ x.frame = y.frame /\ x.val = y.val
                           /\ x.under = y.under /\ x.orphan = y.orphan

LEMMA PlacesKept ==
    ASSUME NEW world \in Worlds, NEW other \in Worlds, WellPlaced(world),
           \A h \in Handles : SamePlace(other[h], world[h])
    PROVE  WellPlaced(other)
<1> SUFFICES ASSUME NEW h \in Handles, Live(other, h)
             PROVE  /\ \A g \in other[h].under :
                           Live(other, g) /\ other[g].frame = Parent[other[h].val]
                    /\ other[h].orphan => other[h].under = {} /\ Parent[other[h].val] # World
  BY DEF WellPlaced
<1>1. Live(world, h) /\ other[h].under = world[h].under /\ other[h].val = world[h].val
      /\ other[h].orphan = world[h].orphan /\ world[h] \in Shown
  BY DEF SamePlace, Live, Worlds
<1>2. world[h].under \in SUBSET Handles
  BY <1>1 DEF Shown
<1> QED
  BY <1>1, <1>2 DEF WellPlaced, SamePlace, Live

(* Cutting relations to entities that go leaves the others well placed. *)
LEMMA CutPlaced ==
    ASSUME NEW world \in Worlds, WellPlaced(world), NEW other \in Worlds,
           NEW off \in SUBSET Handles,
           \A h \in Handles : Live(other, h) =>
               h \notin off /\ Live(world, h) /\ other[h] = Cut(world[h], off),
           \A h \in Handles \ off : Live(world, h) => Live(other, h)
    PROVE  WellPlaced(other)
<1>1. ASSUME NEW h \in Handles, Live(other, h)
      PROVE  /\ Live(world, h) /\ h \notin off
             /\ other[h].under = world[h].under \ off
             /\ other[h].val = world[h].val /\ other[h].frame = world[h].frame
             /\ other[h].orphan = world[h].orphan
             /\ world[h].under \in SUBSET Handles
  <2>1. world[h] \in Shown /\ other[h] = Cut(world[h], off)
    BY <1>1 DEF Worlds, Live
  <2> QED
    BY <1>1, <2>1 DEF Cut, Shown
<1> SUFFICES ASSUME NEW h \in Handles, Live(other, h)
             PROVE  /\ \A g \in other[h].under :
                           Live(other, g) /\ other[g].frame = Parent[other[h].val]
                    /\ other[h].orphan => other[h].under = {} /\ Parent[other[h].val] # World
  BY DEF WellPlaced
<1>2. ASSUME NEW g \in other[h].under
      PROVE  Live(other, g) /\ other[g].frame = Parent[other[h].val]
  <2>1. g \in Handles \ off /\ g \in world[h].under
    BY <1>1
  <2>2. Live(world, g) /\ world[g].frame = Parent[world[h].val]
    BY <1>1, <2>1 DEF WellPlaced
  <2>3. Live(other, g)
    BY <2>1, <2>2
  <2> QED
    BY <1>1, <2>1, <2>2, <2>3
<1>3. other[h].orphan => other[h].under = {} /\ Parent[other[h].val] # World
  BY <1>1 DEF WellPlaced
<1> QED
  BY <1>2, <1>3

LEMMA DestroyedPlaced ==
    ASSUME NEW world \in Worlds, NEW hs \in SUBSET Handles, WellPlaced(world)
    PROVE  WellPlaced(Destroyed(world, hs))
<1> DEFINE tree  == Tree(world, hs)
           other == Destroyed(world, hs)
<1>1. hs \subseteq tree /\ tree \in SUBSET Handles
  BY DEF Tree
<1>2. ASSUME NEW h \in Handles
      PROVE  other[h] = IF h \in hs THEN Absent
                        ELSE IF ~Live(world, h) THEN world[h]
                        ELSE IF h \in tree THEN Lost
                        ELSE Cut(world[h], tree)
  BY DEF Destroyed
<1>3. other \in Worlds
  BY DestroyedEffect
<1> HIDE DEF tree, other
<1>4. ASSUME NEW h \in Handles, Live(other, h)
      PROVE  h \notin tree /\ Live(world, h) /\ other[h] = Cut(world[h], tree)
  BY <1>1, <1>2, <1>4 DEF Live, Missing
<1>5. ASSUME NEW h \in Handles \ tree, Live(world, h)
      PROVE  Live(other, h)
  <2>1. world[h] \in Shown /\ other[h] = Cut(world[h], tree)
    BY <1>1, <1>2, <1>5 DEF Worlds, Live
  <2> QED
    BY <2>1, CutEffect DEF Live
<1>6. WellPlaced(other)
  BY <1>1, <1>3, <1>4, <1>5, CutPlaced
<1> QED
  BY <1>6 DEF other

LEMMA WithPlaced ==
    ASSUME NEW world \in Worlds, NEW h \in Handles, NEW e \in Entities,
           ~Live(world, h), WellPlaced(world)
    PROVE  WellPlaced(With(world, h, e))
<1> DEFINE other == With(world, h, e)
<1>1. other \in Worlds /\ other[h] = Fresh(e) /\ Fresh(e) \in Shown
  BY WithEffect
<1>2. ASSUME NEW g \in Handles, g # h
      PROVE  SamePlace(other[g], world[g])
  BY <1>2 DEF With, Replace, SamePlace
<1>3. /\ other[h].under = {}
      /\ other[h].orphan = (Parent[e.val] # World)
      /\ other[h].val = e.val
  BY <1>1 DEF Fresh
<1> HIDE DEF other
<1> SUFFICES ASSUME NEW g \in Handles, Live(other, g)
             PROVE  /\ \A k \in other[g].under :
                           Live(other, k) /\ other[k].frame = Parent[other[g].val]
                    /\ other[g].orphan => other[g].under = {} /\ Parent[other[g].val] # World
  BY DEF WellPlaced, other
<1>4. CASE g = h
  BY <1>3, <1>4
<1>5. CASE g # h
  <2>1. /\ Live(world, g) /\ world[g] \in Shown
        /\ other[g].under = world[g].under /\ other[g].val = world[g].val
        /\ other[g].orphan = world[g].orphan
    BY <1>2, <1>5 DEF SamePlace, Live, Worlds
  <2>2. ASSUME NEW k \in world[g].under
        PROVE  k \in Handles /\ Live(world, k) /\ k # h /\ world[k].frame = Parent[world[g].val]
    BY <2>1 DEF Shown, WellPlaced
  <2>3. ASSUME NEW k \in world[g].under
        PROVE  Live(other, k) /\ other[k].frame = world[k].frame
    BY <1>2, <2>2 DEF SamePlace, Live
  <2>4. world[g].orphan => world[g].under = {} /\ Parent[world[g].val] # World
    BY <2>1 DEF WellPlaced
  <2> QED
    BY <2>1, <2>2, <2>3, <2>4
<1> QED
  BY <1>4, <1>5

LEMMA UpdatedPlaced ==
    ASSUME NEW world \in Worlds, NEW h \in Handles, Live(world, h), NEW e \in Entities,
           WellPlaced(world)
    PROVE  WellPlaced(Updated(world, h, e))
<1> DEFINE moved == ParentName(world, h) # Parent[e.val]
           x == [world[h] EXCEPT !.val = e.val,
                                 !.under = IF moved THEN {} ELSE @,
                                 !.orphan = IF moved THEN Parent[e.val] # World ELSE @]
           other == Updated(world, h, e)
<1>1. world[h] \in Shown /\ e.val \in Vals /\ world[h].under \in SUBSET Handles
  BY DEF Worlds, Live, Entities, Shown
<1>2. other = Replace(world, h, x)
  BY DEF Updated
<1>3. moved \in BOOLEAN
  OBVIOUS
<1>4. ~moved => \A g \in world[h].under : world[g].frame = Parent[e.val]
  <2>1. ASSUME ~moved, NEW g \in world[h].under
        PROVE  world[g].frame = Parent[e.val]
    <3>1. \A k \in world[h].under : k \in Handles /\ world[k].frame = Parent[world[h].val]
      BY <1>1 DEF WellPlaced
    <3>2. (CHOOSE k \in Handles : k \in world[h].under) \in world[h].under
      BY <1>1, <2>1
    <3>3. ParentName(world, h) = Parent[world[h].val]
      BY <2>1, <3>1, <3>2 DEF ParentName
    <3> QED
      BY <2>1, <3>1, <3>3
  <2> QED
    BY <2>1
<1>5. ~moved /\ world[h].orphan => world[h].under = {} /\ Parent[e.val] # World
  BY DEF ParentName, WellPlaced
<1> HIDE DEF moved
<1>6. /\ x \in Shown /\ x.frame = world[h].frame /\ x.val = e.val
      /\ moved => x.under = {} /\ x.orphan = (Parent[e.val] # World)
      /\ ~moved => x.under = world[h].under /\ x.orphan = world[h].orphan
  BY <1>1, <1>3 DEF Shown
<1>7. x \notin Missing
  BY <1>6, MissingAssumption
<1> HIDE DEF x, other
<1>8. \A g \in Handles : /\ Live(other, g) <=> Live(world, g)
                         /\ Live(world, g) => other[g].frame = world[g].frame
                         /\ g # h => other[g] = world[g]
  BY <1>2, <1>6, <1>7 DEF Replace, Live
<1>9. other[h] = x
  BY <1>2 DEF Replace
<1> SUFFICES ASSUME NEW g \in Handles, Live(other, g)
             PROVE  /\ \A k \in other[g].under :
                           Live(other, k) /\ other[k].frame = Parent[other[g].val]
                    /\ other[g].orphan => other[g].under = {} /\ Parent[other[g].val] # World
  BY DEF WellPlaced, other
<1>10. world[g].under \in SUBSET Handles
  BY <1>8 DEF Worlds, Live, Shown
<1>11. CASE g # h
  BY <1>8, <1>10, <1>11 DEF WellPlaced
<1>12. CASE g = h /\ moved
  BY <1>6, <1>9, <1>12
<1>13. CASE g = h /\ ~moved
  <2>1. \A k \in world[h].under : Live(world, k)
    BY <1>1 DEF WellPlaced
  <2> QED
    BY <1>4, <1>5, <1>6, <1>8, <1>9, <1>10, <1>13, <2>1
<1> QED
  BY <1>11, <1>12, <1>13

LEMMA LinkedPlaced ==
    ASSUME NEW world \in Worlds, NEW h \in Handles, Live(world, h),
           NEW known \in SUBSET Ids, NEW rels \in SUBSET Ids, WellPlaced(world)
    PROVE  WellPlaced(Linked(world, h, known, rels))
<1> DEFINE dropped == Targets(world, known \ rels)
           found   == Targets(world, rels \ known)
           x == [world[h] EXCEPT !.links = (@ \ dropped) \cup found]
<1>1. world[h] \in Shown
  BY DEF Worlds, Live
<1>2. Linked(world, h, known, rels) = Replace(world, h, x)
  BY DEF Linked
<1> HIDE DEF dropped, found
<1>3. x.frame = world[h].frame /\ x.val = world[h].val
      /\ x.under = world[h].under /\ x.orphan = world[h].orphan
  BY <1>1 DEF Shown
<1> HIDE DEF x
<1>4. Linked(world, h, known, rels) \in Worlds /\ Linked(world, h, known, rels)[h] \notin Missing
  BY LinkedEffect
<1>5. \A g \in Handles : SamePlace(Linked(world, h, known, rels)[g], world[g])
  BY <1>2, <1>3, <1>4 DEF Replace, SamePlace, Live
<1> QED
  BY <1>4, <1>5, PlacesKept

LEMMA UpsertPlaced ==
    ASSUME TypeOK, UnderItsParent, NEW m \in events, ProcessUpsert(m)
    PROVE  UnderItsParent'
<1> DEFINE e       == m.entity
           h       == <<e.kind, m.id>>
           rival   == <<Other(e.kind), m.id>>
           hs      == IF e.chunks THEN {rival, h} ELSE {rival}
           room    == Destroyed(drawn, hs)
           known   == IF drawn[rival] # Absent THEN {} ELSE cache[m.id]
           updated == IF Live(room, h) THEN Updated(room, h, e) ELSE With(room, h, e)
<1>1. m.id \in Ids /\ e \in Entities /\ drawn \in Worlds
  BY EventForm DEF TypeOK, ProcessUpsert, Worlds
<1>2. h \in Handles /\ rival \in Handles /\ known \in SUBSET Ids /\ e.rels \in SUBSET Ids
  BY <1>1, HandleIsPair DEF Entities, Kinds, Other, TypeOK
<1>3. drawn' = Linked(updated, h, known, e.rels)
  BY DEF ProcessUpsert
<1>4. hs \in SUBSET Handles
  BY <1>2
<1> HIDE DEF e, h, rival, hs, known
<1>5. room \in Worlds /\ WellPlaced(room)
  BY <1>1, <1>4, DestroyedEffect, DestroyedPlaced DEF UnderItsParent, WellPlaced
<1> HIDE DEF room
<1>6. updated \in Worlds /\ WellPlaced(updated) /\ Live(updated, h)
  <2>1. CASE Live(room, h)
    BY <1>1, <1>2, <1>5, <2>1, UpdatedEffect, UpdatedPlaced DEF Live
  <2>2. CASE ~Live(room, h)
    BY <1>1, <1>2, <1>5, <2>2, WithEffect, WithPlaced, MissingAssumption DEF Live
  <2> QED
    BY <2>1, <2>2
<1> HIDE DEF updated
<1>7. WellPlaced(drawn')
  BY <1>2, <1>3, <1>6, LinkedPlaced
<1> QED
  BY <1>7 DEF WellPlaced, UnderItsParent, Live

LEMMA DeletionPlaced ==
    ASSUME TypeOK, TypeOK', UnderItsParent, NEW h \in Handles, UserDeletes(h)
    PROVE  UnderItsParent'
<1>1. drawn \in Worlds /\ drawn' \in Worlds /\ WellPlaced(drawn)
  BY DEF TypeOK, Worlds, UnderItsParent, WellPlaced
<1>2. drawn' = [g \in Handles |-> IF g = h THEN Deleted
                                  ELSE IF Live(drawn, g) THEN Cut(drawn[g], {h})
                                  ELSE drawn[g]]
  BY DEF UserDeletes
<1>3. ASSUME NEW g \in Handles, Live(drawn', g)
      PROVE  g \notin {h} /\ Live(drawn, g) /\ drawn'[g] = Cut(drawn[g], {h})
  BY <1>2, <1>3 DEF Live, Missing
<1>4. ASSUME NEW g \in Handles \ {h}, Live(drawn, g)
      PROVE  Live(drawn', g)
  <2>1. drawn[g] \in Shown /\ drawn'[g] = Cut(drawn[g], {h})
    BY <1>1, <1>2, <1>4 DEF Worlds, Live
  <2> QED
    BY <2>1, CutEffect DEF Live
<1>5. WellPlaced(drawn')
  BY <1>1, <1>3, <1>4, CutPlaced
<1> QED
  BY <1>5 DEF WellPlaced, UnderItsParent, Live

LEMMA ResolutionPlaced ==
    ASSUME TypeOK, UnderItsParent, NEW h \in Handles, Resolve(h)
    PROVE  UnderItsParent'
<1>1. drawn[h] \in Shown /\ Live(drawn, h) /\ \A k \in Handles : Live(drawn, k) => drawn[k] \in Shown
  BY DEF Resolve, TypeOK, Live
<1>2. PICK g \in Handles :
          /\ Live(drawn, g) /\ drawn[g].frame = Parent[drawn[h].val]
          /\ drawn' = Replace(drawn, h, [drawn[h] EXCEPT !.under = {g}, !.orphan = FALSE])
  BY DEF Resolve, Named
<1> DEFINE x == [drawn[h] EXCEPT !.under = {g}, !.orphan = FALSE]
<1>3. /\ x \in Shown /\ x.under = {g} /\ x.orphan = FALSE
      /\ x.val = drawn[h].val /\ x.frame = drawn[h].frame
  BY <1>1 DEF Shown
<1>4. drawn' = Replace(drawn, h, x)
  BY <1>2
<1> HIDE DEF x
<1>5. x \notin Missing
  BY <1>3, MissingAssumption
<1>6. \A k \in Handles : /\ Live(drawn, k) <=> drawn'[k] \notin Missing
                         /\ Live(drawn, k) => drawn'[k].frame = drawn[k].frame
                         /\ k # h => drawn'[k] = drawn[k]
  BY <1>1, <1>3, <1>4, <1>5 DEF Replace, Live
<1> SUFFICES ASSUME NEW k \in Handles, Live(drawn', k)
             PROVE  /\ \A p \in drawn'[k].under :
                           Live(drawn', p) /\ drawn'[p].frame = Parent[drawn'[k].val]
                    /\ drawn'[k].orphan => drawn'[k].under = {} /\ Parent[drawn'[k].val] # World
  BY DEF UnderItsParent, Live
<1>7. CASE k = h
  BY <1>2, <1>3, <1>4, <1>6, <1>7 DEF Replace, Live
<1>8. CASE k # h
  <2>1. Live(drawn, k) /\ drawn[k].under \in SUBSET Handles /\ drawn'[k] = drawn[k]
    BY <1>1, <1>6, <1>8 DEF Live, Shown
  <2> QED
    BY <1>6, <2>1 DEF UnderItsParent, Live
<1> QED
  BY <1>7, <1>8

(* Every entity is always below an entity with the name of its parent      *)
(* frame, or below none (setParent, resolveOrphans, destroyEntityTree).    *)
THEOREM AlwaysUnderItsParent == Spec => []UnderItsParent
<1>1. Init => UnderItsParent
  BY DEF Init, UnderItsParent, EmptyWorld, Live, Missing
<1>2. ScreenInv /\ ScreenInv' /\ UnderItsParent /\ [Next]_vars => UnderItsParent'
  <2> SUFFICES ASSUME TypeOK, TypeOK', UnderItsParent, [Next]_vars
               PROVE  UnderItsParent'
    BY DEF ScreenInv
  <2>1. drawn \in Worlds /\ WellPlaced(drawn)
    BY DEF TypeOK, Worlds, UnderItsParent, WellPlaced
  <2>2. ASSUME drawn' = drawn
        PROVE  UnderItsParent'
    BY <2>2 DEF UnderItsParent, Live
  <2>3. ASSUME NEW hs \in SUBSET Handles, drawn' = Destroyed(drawn, hs)
        PROVE  UnderItsParent'
    <3>1. WellPlaced(drawn')
      BY <2>1, <2>3, DestroyedPlaced
    <3> QED
      BY <3>1 DEF WellPlaced, UnderItsParent, Live
  <2>4. ASSUME drawn' = EmptyWorld
        PROVE  UnderItsParent'
    BY <2>4 DEF UnderItsParent, EmptyWorld, Live, Missing
  <2>5. CASE \/ \E id \in Ids : \E e \in Offers[id] : ReceiveUpsert(id, e)
             \/ \E id \in Ids : ReceiveCascade(id) \/ ReceiveRemoval(id)
             \/ \E scope \in Scopes : ReceiveClear(scope)
             \/ Lose
    BY <2>2, <2>5 DEF ReceiveUpsert, ReceiveCascade, ReceiveRemoval, ReceiveClear, Lose, worldVars
  <2>6. CASE Frame
    <3> DEFINE ended == {h \in Handles : /\ cleared # "none"
                                         /\ Covers(cleared, h[1])
                                         /\ h[2] \notin Surviving
                                         /\ drawn[h] # Absent}
    <3>1. drawn' = Destroyed(drawn, ended) /\ ended \in SUBSET Handles
      BY <2>6 DEF Frame
    <3> QED
      BY <2>3, <3>1
  <2>7. ASSUME NEW m \in events, ProcessRemoval(m)
        PROVE  UnderItsParent'
    <3>1. {<<m.kind, m.id>>} \in SUBSET Handles
      BY <2>7, EventForm, HandleIsPair DEF TypeOK, ProcessRemoval
    <3> QED
      BY <2>3, <2>7, <3>1 DEF ProcessRemoval
  <2>8. ASSUME NEW m \in events, ProcessUpsert(m)
        PROVE  UnderItsParent'
    BY <2>8, UpsertPlaced
  <2>9. ASSUME NEW h \in Handles, UserDeletes(h) \/ Resolve(h)
        PROVE  UnderItsParent'
    BY <2>9, DeletionPlaced, ResolutionPlaced
  <2>10. CASE Connect \/ Abort
    BY <2>4, <2>10 DEF Connect, Abort, ClearLocalState
  <2>11. CASE UNCHANGED vars
    BY <2>2, <2>11 DEF vars, worldVars
  <2> QED
    BY <2>5, <2>6, <2>7, <2>8, <2>9, <2>10, <2>11 DEF Next
<1> QED
  BY <1>1, <1>2, ScreenAlways, PTL DEF Spec

-----------------------------------------------------------------------------
(* Ghosts. *)

KindsOffered(id) == {e.kind : e \in Offers[id]}

\* No UUID is told, buffered or shown as a kind that it is not offered as.
OfferedOnly ==
    /\ \A id \in Present(told) : told[id].kind \in KindsOffered(id)
    /\ \A m \in events : KindOf(m) \in KindsOffered(m.id)
    /\ \A h \in Handles : drawn[h] # Absent => h[1] \in KindsOffered(h[2])

\* What was taken back of a UUID that keeps its kind and is not gone yet has
\* an event in the buffer or is covered by a buffered clear.
TakenBack ==
    up => \A h \in Handles :
        h[2] \in OneKind /\ drawn[h] # Absent /\ told[h[2]] = NoEntity =>
            \/ h[2] \in Queued
            \/ cleared # "none" /\ Covers(cleared, h[1])

GhostInv == OfferedOnly /\ TakenBack

LEMMA OneKindMeans ==
    \A id \in OneKind : \A j, k \in KindsOffered(id) : j = k
  BY DEF OneKind, KindsOffered

(* What a step does to the map entries: no step but an upsert fills one.   *)
LEMMA GhostKept ==
    ASSUME ScreenInv, GhostInv, up' = up, told' = told,
           NEW back, back = {h \in Handles : drawn'[h] # Absent},
           \A h \in back : drawn[h] # Absent,
           events' \subseteq events,
           \A h \in back : h[2] \in OneKind /\ told[h[2]] = NoEntity =>
                (h[2] \in Queued => h[2] \in Queued')
                /\ (cleared # "none" /\ Covers(cleared, h[1]) => cleared' = cleared \/ h[2] \in Queued')
    PROVE  GhostInv'
<1>1. OfferedOnly'
  BY DEF GhostInv, OfferedOnly, Present, KindOf, KindsOffered
<1>2. TakenBack'
  BY DEF GhostInv, TakenBack
<1>. QED  BY <1>1, <1>2 DEF GhostInv

(* The stream says of a UUID what it was offered as, or takes it back, and *)
(* the event is in the buffer.                                             *)
LEMMA GhostTold ==
    ASSUME ScreenInv, GhostInv, NEW m \in Events, KindOf(m) \in KindsOffered(m.id),
           MergeEvent(m), Receiving, UNCHANGED <<up, flushing, worldVars>>,
           NEW e \in Entities \cup {NoEntity}, e # NoEntity => e.kind = KindOf(m),
           told' = [told EXCEPT ![m.id] = e]
    PROVE  GhostInv'
<1>1. /\ events' = {n \in events : n.id # m.id} \cup {m} /\ cleared' = cleared
      /\ drawn' = drawn /\ up' = up
  BY DEF MergeEvent, worldVars
<1>2. m.id \in Ids /\ told \in Scenes
  BY EventForm DEF ScreenInv, TypeOK
<1>3. \A id \in Ids : told'[id] = IF id = m.id THEN e ELSE told[id]
  BY <1>2 DEF Scenes
<1>4. OfferedOnly'
  <2>1. \A id \in Present(told') : told'[id].kind \in KindsOffered(id)
    BY <1>3 DEF GhostInv, OfferedOnly, Present
  <2>2. \A n \in events' : KindOf(n) \in KindsOffered(n.id)
    BY <1>1 DEF GhostInv, OfferedOnly
  <2>3. \A h \in Handles : drawn'[h] # Absent => h[1] \in KindsOffered(h[2])
    BY <1>1 DEF GhostInv, OfferedOnly
  <2>. QED  BY <2>1, <2>2, <2>3 DEF OfferedOnly, KindOf, KindsOffered
<1>5. Queued' = Queued \cup {m.id}
  BY <1>1 DEF Queued
<1>6. \A h \in Handles : h[2] \in Ids
  BY HandleIsPair
<1>7. TakenBack'
  BY <1>1, <1>3, <1>5, <1>6 DEF GhostInv, TakenBack
<1>. QED  BY <1>4, <1>7 DEF GhostInv

LEMMA GhostCleared ==
    ASSUME ScreenInv, GhostInv, NEW scope \in Scopes, ReceiveClear(scope)
    PROVE  GhostInv'
<1>1. told' = [id \in Ids |-> IF told[id] # NoEntity /\ Covers(scope, told[id].kind)
                              THEN NoEntity ELSE told[id]]
  BY ApplyClear DEF ReceiveClear, ScreenInv, TypeOK
<1>2. /\ events' = {m \in events : ~Covers(scope, KindOf(m))}
      /\ cleared' = IF cleared \in {"none", scope} THEN scope ELSE "all"
      /\ drawn' = drawn /\ up' = up /\ up
  BY DEF ReceiveClear, MergeClear, worldVars, Receiving
<1>3. \A k \in Kinds :
         /\ cleared' # "none"
         /\ Covers(cleared', k) <=> Covers(scope, k) \/ (cleared # "none" /\ Covers(cleared, k))
  BY <1>2, Widened DEF ScreenInv, TypeOK
<1>4. OfferedOnly'
  <2>1. \A id \in Present(told') : told'[id].kind \in KindsOffered(id)
    BY <1>1 DEF GhostInv, OfferedOnly, Present
  <2>2. \A n \in events' : KindOf(n) \in KindsOffered(n.id)
    BY <1>2 DEF GhostInv, OfferedOnly
  <2>3. \A h \in Handles : drawn'[h] # Absent => h[1] \in KindsOffered(h[2])
    BY <1>2 DEF GhostInv, OfferedOnly
  <2>. QED  BY <2>1, <2>2, <2>3 DEF OfferedOnly, KindOf, KindsOffered
<1>5. TakenBack'
  <2>. SUFFICES ASSUME NEW h \in Handles, h[2] \in OneKind, drawn[h] # Absent,
                       told'[h[2]] = NoEntity
                PROVE  h[2] \in Queued' \/ Covers(cleared', h[1])
    BY <1>2, <1>3, HandleIsPair DEF TakenBack
  <2>1. h[1] \in Kinds /\ h[2] \in Ids /\ h[1] \in KindsOffered(h[2])
    BY HandleIsPair DEF GhostInv, OfferedOnly
  <2>2. CASE told[h[2]] # NoEntity
    <3>1. told[h[2]].kind = h[1]
      BY <2>1, <2>2, OneKindMeans DEF GhostInv, OfferedOnly, Present
    <3>. QED  BY <1>1, <1>3, <2>1, <2>2, <3>1
  <2>3. CASE told[h[2]] = NoEntity /\ h[2] \in Queued
    <3>1. PICK m \in events : m.id = h[2]
      BY <2>3 DEF Queued
    <3>2. KindOf(m) = h[1]
      BY <2>1, <3>1, OneKindMeans DEF GhostInv, OfferedOnly
    <3>3. CASE Covers(scope, h[1])
      BY <1>3, <2>1, <3>3
    <3>4. CASE ~Covers(scope, h[1])
      BY <1>2, <3>1, <3>2, <3>4 DEF Queued
    <3>. QED  BY <3>3, <3>4
  <2>4. CASE cleared # "none" /\ Covers(cleared, h[1])
    BY <1>3, <2>1, <2>4
  <2>. QED  BY <1>2, <2>2, <2>3, <2>4 DEF GhostInv, TakenBack
<1>. QED  BY <1>4, <1>5 DEF GhostInv

LEMMA GhostFrame ==
    ASSUME ScreenInv, GhostInv, Frame
    PROVE  GhostInv'
<1>. DEFINE ended == {h \in Handles : /\ cleared # "none"
                                      /\ Covers(cleared, h[1])
                                      /\ h[2] \notin Surviving
                                      /\ drawn[h] # Absent}
            back == {h \in Handles : drawn'[h] # Absent}
<1>1. /\ up' = up /\ told' = told /\ events' = events
      /\ drawn' = Destroyed(drawn, ended)
  BY DEF Frame, streamVars
<1>2. drawn \in Worlds /\ ended \in SUBSET Handles
  BY DEF ScreenInv, TypeOK, Worlds
<1>3. \A h \in back : h \notin ended /\ drawn[h] # Absent
  BY <1>1, <1>2, DestroyedEffect DEF SameShape
<1>4. \A h \in back : h[2] \in OneKind /\ told[h[2]] = NoEntity =>
         /\ h[2] \in Queued => h[2] \in Queued'
         /\ cleared # "none" /\ Covers(cleared, h[1]) => cleared' = cleared \/ h[2] \in Queued'
  BY <1>1, <1>3 DEF Surviving, Queued
<1>. HIDE DEF ended, back
<1>. QED  BY <1>1, <1>3, <1>4, GhostKept DEF back

LEMMA GhostRemoval ==
    ASSUME ScreenInv, GhostInv, NEW m \in events, ProcessRemoval(m)
    PROVE  GhostInv'
<1>. DEFINE h == <<m.kind, m.id>>
            back == {g \in Handles : drawn'[g] # Absent}
<1>1. m.id \in Ids /\ m.type = "removed" /\ h \in Handles /\ KindOf(m) = m.kind
  BY EventForm, HandleIsPair DEF ProcessRemoval, ScreenInv, TypeOK, KindOf
<1>2. /\ NextEvent(m) /\ drawn' = Destroyed(drawn, {h})
      /\ up' = up /\ told' = told /\ events' \subseteq events
      /\ Queued' = Queued \ {m.id} /\ cleared = "none"
  BY Dequeued DEF ProcessRemoval, NextEvent, streamVars
<1>3. drawn \in Worlds
  BY DEF ScreenInv, TypeOK, Worlds
<1>4. \A g \in back : g # h /\ drawn[g] # Absent
  BY <1>1, <1>2, <1>3, DestroyedEffect DEF SameShape
<1>5. ASSUME NEW g \in back, g[2] \in OneKind, g[2] \in Queued
      PROVE  g[2] \in Queued'
  <2>1. g[1] \in KindsOffered(g[2]) /\ g = <<g[1], g[2]>>
    BY <1>4, HandleIsPair DEF GhostInv, OfferedOnly
  <2>2. g[2] = m.id => g[1] = m.kind
    BY <1>1, <1>5, <2>1, OneKindMeans DEF GhostInv, OfferedOnly
  <2>. QED  BY <1>2, <1>4, <1>5, <2>1, <2>2
<1>. HIDE DEF h, back
<1>. QED  BY <1>2, <1>4, <1>5, GhostKept DEF back

LEMMA GhostUpsert ==
    ASSUME ScreenInv, GhostInv, NEW m \in events, ProcessUpsert(m)
    PROVE  GhostInv'
<1>. DEFINE h     == <<m.entity.kind, m.id>>
            rival == <<Other(m.entity.kind), m.id>>
<1>1. /\ m.id \in Ids /\ m.type = "upsert" /\ m.entity \in Entities
      /\ m.entity.kind = KindOf(m)
  BY EventForm DEF ProcessUpsert, ScreenInv, TypeOK, KindOf
<1>2. /\ h \in Handles /\ rival \in Handles
      /\ \A g \in Handles : g[2] = m.id => g = h \/ g = rival
  BY <1>1, HandleIsPair DEF Entities, Kinds, Other
<1>3. /\ NextEvent(m) /\ up' = up /\ told' = told /\ events' \subseteq events
      /\ Queued' = Queued \ {m.id} /\ cleared = "none"
  BY Dequeued DEF ProcessUpsert, NextEvent, streamVars
<1>4. /\ drawn'[rival] = Absent
      /\ \A g \in Handles \ {h, rival} : drawn'[g] # Absent => drawn[g] # Absent
  BY <1>2, UpsertEffect DEF ScreenInv, SameShape
<1>5. OfferedOnly'
  <2>1. \A g \in Handles : drawn'[g] # Absent => g[1] \in KindsOffered(g[2])
    BY <1>1, <1>4 DEF GhostInv, OfferedOnly
  <2>. QED  BY <1>3, <2>1 DEF GhostInv, OfferedOnly, Present, KindOf, KindsOffered
<1>6. up => told[m.id] # NoEntity
  BY <1>1, NoEntityAssumption DEF ScreenInv, Following, BufferAgrees
<1>7. TakenBack'
  <2>. SUFFICES ASSUME up, NEW g \in Handles, g[2] \in OneKind, drawn'[g] # Absent,
                       told[g[2]] = NoEntity
                PROVE  g[2] \in Queued'
    BY <1>3 DEF TakenBack
  <2>1. g[2] # m.id
    BY <1>6
  <2>2. drawn[g] # Absent
    BY <1>2, <1>4, <2>1
  <2>. QED  BY <1>3, <2>1, <2>2 DEF GhostInv, TakenBack
<1>. QED  BY <1>5, <1>7 DEF GhostInv

LEMMA GhostDisturbed ==
    ASSUME ScreenInv, GhostInv, NEW h \in Handles, UserDeletes(h) \/ Resolve(h)
    PROVE  GhostInv'
<1>1. /\ up' = up /\ told' = told /\ events' = events /\ cleared' = cleared
  BY DEF UserDeletes, Resolve, streamVars, bufferVars
<1>2. \A g \in Handles : drawn'[g] # Absent => drawn[g] # Absent
  <2>1. drawn[h] # Absent
    BY DEF UserDeletes, Resolve, Live, Missing
  <2>2. CASE UserDeletes(h)
    BY <2>1, <2>2 DEF UserDeletes, Live, Missing
  <2>3. CASE Resolve(h)
    BY <2>1, <2>3 DEF Resolve, Replace
  <2>. QED  BY <2>2, <2>3
<1>3. Queued' = Queued
  BY <1>1 DEF Queued
<1>. DEFINE back == {g \in Handles : drawn'[g] # Absent}
<1>4. \A g \in back : drawn[g] # Absent
  BY <1>2
<1>. HIDE DEF back
<1>. QED  BY <1>1, <1>3, <1>4, GhostKept DEF back

LEMMA GhostStep == ScreenInv /\ GhostInv /\ [Next]_vars => GhostInv'
<1>. SUFFICES ASSUME ScreenInv, GhostInv, [Next]_vars
              PROVE  GhostInv'
  OBVIOUS
<1>1. ASSUME NEW id \in Ids, NEW e \in Offers[id], ReceiveUpsert(id, e)
      PROVE  GhostInv'
  <2>. DEFINE m == Upsert(id, e)
  <2>1. e \in Entities /\ e.kind \in KindsOffered(id)
    BY OffersAssumption DEF KindsOffered
  <2>2. m \in Events /\ m.id = id /\ KindOf(m) = e.kind
    BY <2>1, EventTypes DEF Upsert, KindOf
  <2>3. told' = [told EXCEPT ![id] = e]
    <3>1. told \in Scenes /\ "drawing" \in Kinds
      BY DEF ScreenInv, TypeOK, Kinds
    <3>. QED  BY <1>1, <2>1, <3>1, ApplyPoint DEF ReceiveUpsert
  <2>4. MergeEvent(m) /\ Receiving /\ UNCHANGED <<up, flushing, worldVars>>
    BY <1>1 DEF ReceiveUpsert
  <2>. HIDE DEF m
  <2>. QED  BY <2>1, <2>2, <2>3, <2>4, GhostTold
<1>2. ASSUME NEW id \in Ids, ReceiveCascade(id)
      PROVE  GhostInv'
  <2>. DEFINE e == [told[id] EXCEPT !.rels = @ \ gone]
              m == Upsert(id, e)
  <2>1. told[id] \in Entities /\ told[id].kind \in KindsOffered(id)
    BY <1>2 DEF ReceiveCascade, PointingAt, Present, ScreenInv, TypeOK, Scenes, GhostInv, OfferedOnly
  <2>2. told[id].rels \ gone \in SUBSET Ids
    BY <2>1 DEF Entities
  <2>3. e \in Entities /\ e.kind \in KindsOffered(id)
    BY <2>1, <2>2, RelsType
  <2>4. UNCHANGED <<up, flushing, worldVars>> /\ Receiving
        /\ told' = Apply(told, m) /\ MergeEvent(m)
    BY <1>2 DEF ReceiveCascade
  <2>. HIDE DEF e
  <2>5. m \in Events /\ m.id = id /\ KindOf(m) = e.kind
    BY <2>3, EventTypes DEF Upsert, KindOf
  <2>6. told' = [told EXCEPT ![id] = e]
    <3>1. told \in Scenes /\ "drawing" \in Kinds
      BY DEF ScreenInv, TypeOK, Kinds
    <3>. QED  BY <2>3, <2>4, <3>1, ApplyPoint
  <2>. HIDE DEF m
  <2>. QED  BY <2>3, <2>4, <2>5, <2>6, GhostTold
<1>3. ASSUME NEW id \in Ids, ReceiveRemoval(id)
      PROVE  GhostInv'
  <2>. DEFINE m == Removal(id, told[id].kind)
  <2>1. told[id] \in Entities /\ told[id].kind \in Kinds /\ told[id].kind \in KindsOffered(id)
    BY <1>3 DEF ReceiveRemoval, Present, ScreenInv, TypeOK, Scenes, Entities, GhostInv, OfferedOnly
  <2>2. m \in Events /\ m.id = id /\ KindOf(m) = told[id].kind
    BY <2>1, EventTypes DEF Removal, KindOf
  <2>3. told' = [told EXCEPT ![id] = NoEntity]
    <3>1. told \in Scenes
      BY DEF ScreenInv, TypeOK
    <3>. QED  BY <1>3, <2>1, <3>1, ApplyPoint DEF ReceiveRemoval
  <2>4. MergeEvent(m) /\ Receiving /\ UNCHANGED <<up, flushing, worldVars>>
    BY <1>3 DEF ReceiveRemoval
  <2>. HIDE DEF m
  <2>. QED  BY <2>1, <2>2, <2>3, <2>4, GhostTold
<1>4. CASE Connect \/ Abort
  <2>1. /\ events' = {} /\ drawn' = EmptyWorld
        /\ told' = EmptyScene \/ told' = told
        /\ up' => told' = EmptyScene
    BY <1>4 DEF Connect, Abort, ClearLocalState
  <2>2. OfferedOnly'
    <3>1. \A id \in Present(told') : told'[id].kind \in KindsOffered(id)
      BY <2>1 DEF GhostInv, OfferedOnly, Present, EmptyScene
    <3>2. \A h \in Handles : drawn'[h] = Absent
      BY <2>1 DEF EmptyWorld
    <3>. QED  BY <2>1, <3>1, <3>2 DEF OfferedOnly, KindOf, KindsOffered
  <2>3. TakenBack'
    BY <2>1 DEF TakenBack, EmptyWorld
  <2>. QED  BY <2>2, <2>3 DEF GhostInv
<1>5. CASE Lose
  BY <1>5 DEF Lose, bufferVars, worldVars, GhostInv, OfferedOnly, TakenBack, Present, KindOf,
              KindsOffered
<1>6. CASE UNCHANGED vars
  BY <1>6 DEF vars, streamVars, bufferVars, worldVars, GhostInv, OfferedOnly, TakenBack,
              Present, KindOf, KindsOffered, Queued
<1>. QED
  BY <1>1, <1>2, <1>3, <1>4, <1>5, <1>6, GhostCleared, GhostFrame, GhostRemoval, GhostUpsert,
     GhostDisturbed DEF Next

LEMMA GhostAlways == Spec => []GhostInv
<1>1. Init => GhostInv
  BY DEF Init, GhostInv, OfferedOnly, TakenBack, Present, EmptyScene, EmptyWorld
<1>. QED  BY <1>1, ScreenAlways, GhostStep, PTL DEF Spec

(* A UUID that keeps its kind leaves no entity on the screen that the      *)
(* stream took back, whatever clears and removals fell into one frame      *)
(* (mergeEvent, mergeClear, applyClear).                                   *)
THEOREM NoGhosts == Spec => []NoGhostOfOneKind
<1>1. GhostInv => NoGhostOfOneKind
  BY DEF GhostInv, TakenBack, NoGhostOfOneKind, Settled, Live, Missing, Queued
<1>. QED  BY <1>1, GhostAlways, PTL

-----------------------------------------------------------------------------
(* Links. *)

\* An entity that keeps its kind is linked to entities only that are in a
\* world and belong to the targets known for it.
LinkedWithin(world, known) ==
    \A h \in Handles : h[2] \in OneKind /\ Live(world, h) =>
        world[h].links \subseteq Targets(world, known[h[2]])

\* Once an event is applied the last-known targets are the told ones.
CacheAgrees ==
    up => \A id \in Present(told) \ Queued : id \in OneKind => cache[id] = told[id].rels

LinkInv == LinkedWithin(drawn, cache) /\ CacheAgrees

LEMMA TargetsAre ==
    ASSUME NEW world, NEW ids
    PROVE  \A g : g \in Targets(world, ids) <=> g \in Handles /\ g[2] \in ids /\ Live(world, g)
BY DEF Targets, Lookup

(* A world whose entities have the links they had. *)
LEMMA LinksSame ==
    ASSUME NEW world, NEW other, NEW known, LinkedWithin(world, known),
           \A h \in Handles : Live(world, h) => Live(other, h),
           \A h \in Handles : Live(other, h) =>
                other[h].links = {} \/ (Live(world, h) /\ other[h].links = world[h].links)
    PROVE  LinkedWithin(other, known)
BY TargetsAre DEF LinkedWithin

(* Destroying cuts the links to what goes, and forgetting the targets of   *)
(* what goes takes nothing from the others.                                *)
LEMMA LinksCut ==
    ASSUME NEW world \in Worlds, NEW other \in Worlds, NEW off \in SUBSET Handles,
           NEW known, NEW kept, LinkedWithin(world, known),
           \A h \in Handles : Live(other, h) =>
               h \notin off /\ Live(world, h) /\ other[h] = Cut(world[h], off),
           \A h \in Handles \ off : Live(world, h) => Live(other, h),
           \A h \in Handles : h[2] \in OneKind /\ Live(other, h) => kept[h[2]] = known[h[2]]
    PROVE  LinkedWithin(other, kept)
<1>. SUFFICES ASSUME NEW h \in Handles, h[2] \in OneKind, Live(other, h),
                     NEW g \in other[h].links
              PROVE  g \in Targets(other, kept[h[2]])
  BY DEF LinkedWithin
<1>1. Live(world, h) /\ world[h] \in Shown /\ other[h] = Cut(world[h], off)
  BY DEF Worlds, Live
<1>2. g \in world[h].links /\ g \notin off
  BY <1>1 DEF Cut, Shown
<1>3. g \in Handles /\ Live(world, g) /\ g[2] \in known[h[2]]
  BY <1>1, <1>2, TargetsAre DEF LinkedWithin
<1>. QED  BY <1>2, <1>3, TargetsAre

LEMMA LinksDestroyed ==
    ASSUME NEW world \in Worlds, NEW hs \in SUBSET Handles, NEW known, NEW kept,
           LinkedWithin(world, known),
           \A h \in Handles \ hs : h[2] \in OneKind /\ Live(world, h) => kept[h[2]] = known[h[2]]
    PROVE  LinkedWithin(Destroyed(world, hs), kept)
<1>. DEFINE tree  == Tree(world, hs)
            other == Destroyed(world, hs)
<1>1. hs \subseteq tree /\ tree \in SUBSET Handles
  BY DEF Tree
<1>2. ASSUME NEW h \in Handles
      PROVE  other[h] = IF h \in hs THEN Absent
                        ELSE IF ~Live(world, h) THEN world[h]
                        ELSE IF h \in tree THEN Lost
                        ELSE Cut(world[h], tree)
  BY DEF Destroyed
<1>3. other \in Worlds
  BY DestroyedEffect
<1>. HIDE DEF tree, other
<1>4. ASSUME NEW h \in Handles, Live(other, h)
      PROVE  h \notin tree /\ h \notin hs /\ Live(world, h) /\ other[h] = Cut(world[h], tree)
  BY <1>1, <1>2, <1>4 DEF Live, Missing
<1>5. ASSUME NEW h \in Handles \ tree, Live(world, h)
      PROVE  Live(other, h)
  <2>1. world[h] \in Shown /\ other[h] = Cut(world[h], tree)
    BY <1>1, <1>2, <1>5 DEF Worlds, Live
  <2>. QED  BY <2>1, CutEffect DEF Live
<1>6. \A h \in Handles : h[2] \in OneKind /\ Live(other, h) => kept[h[2]] = known[h[2]]
  BY <1>4
<1>7. LinkedWithin(other, kept)
  BY <1>1, <1>3, <1>4, <1>5, <1>6, LinksCut
<1>. QED  BY <1>7 DEF other

(* serverRelationships.apply: what was linked before and is named still,   *)
(* and what is linked now, is within the new relationships.                *)
LEMMA LinksApplied ==
    ASSUME NEW world \in Worlds, NEW h \in Handles, Live(world, h),
           NEW known \in [Ids -> SUBSET Ids], NEW last \in SUBSET Ids, NEW rels \in SUBSET Ids,
           LinkedWithin(world, known), h[2] \in OneKind => last = known[h[2]],
           \A g \in Handles : g[2] = h[2] /\ Live(world, g) => g = h
    PROVE  LinkedWithin(Linked(world, h, last, rels), [known EXCEPT ![h[2]] = rels])
<1>. DEFINE dropped == Targets(world, last \ rels)
            found   == Targets(world, rels \ last)
            x == [world[h] EXCEPT !.links = (@ \ dropped) \cup found]
            other == Linked(world, h, last, rels)
            kept == [known EXCEPT ![h[2]] = rels]
<1>1. world[h] \in Shown /\ h[2] \in Ids
  BY HandleIsPair DEF Worlds, Live
<1>2. other = Replace(world, h, x)
  BY DEF Linked
<1>. HIDE DEF dropped, found
<1>3. x.links = (world[h].links \ dropped) \cup found
  BY <1>1 DEF Shown
<1>4. other[h] \notin Missing
  BY LinkedEffect
<1>. HIDE DEF x, other
<1>5. other[h] = x /\ \A g \in Handles \ {h} : other[g] = world[g]
  BY <1>2 DEF Replace
<1>6. \A g \in Handles : Live(other, g) <=> Live(world, g)
  BY <1>4, <1>5 DEF Live
<1>7. kept[h[2]] = rels /\ \A id \in Ids \ {h[2]} : kept[id] = known[id]
  BY <1>1
<1>. HIDE DEF kept
<1>8. LinkedWithin(other, kept)
  <2>. SUFFICES ASSUME NEW k \in Handles, k[2] \in OneKind, Live(other, k),
                       NEW g \in other[k].links
                PROVE  g \in Targets(other, kept[k[2]])
    BY DEF LinkedWithin
  <2>1. CASE k # h
    <3>1. Live(world, k) /\ k[2] # h[2] /\ k[2] \in Ids
      BY <1>6, <2>1, HandleIsPair
    <3>2. g \in Targets(world, known[k[2]]) /\ kept[k[2]] = known[k[2]]
      BY <1>5, <1>7, <2>1, <3>1 DEF LinkedWithin
    <3>. QED  BY <1>6, <3>2, TargetsAre
  <2>2. CASE k = h
    <3>1. g \in found \/ (g \in world[h].links /\ g \notin dropped)
      BY <1>3, <1>5, <2>2
    <3>2. CASE g \in found
      BY <1>6, <1>7, <2>2, <3>2, TargetsAre DEF found
    <3>3. CASE g \in world[h].links /\ g \notin dropped
      <4>1. g \in Handles /\ g[2] \in last /\ Live(world, g)
        BY <2>2, <3>3, TargetsAre DEF LinkedWithin
      <4>2. g[2] \in rels
        BY <3>3, <4>1, TargetsAre DEF dropped
      <4>. QED  BY <1>6, <1>7, <2>2, <4>1, <4>2, TargetsAre
    <3>. QED  BY <3>1, <3>2, <3>3
  <2>. QED  BY <2>1, <2>2
<1>. QED  BY <1>8 DEF other, kept

(* The told relationships of what is not buffered stay the known ones.     *)
LEMMA CacheKept ==
    ASSUME CacheAgrees, up' => up,
           up' => \A id \in Present(told') \ Queued' :
                     /\ id \in Present(told) \ Queued /\ told'[id] = told[id]
                     /\ id \in OneKind => cache'[id] = cache[id]
    PROVE  CacheAgrees'
BY DEF CacheAgrees, OneKind

(* A step of the stream leaves the world and what is known of it alone.    *)
LEMMA LinksUntouched ==
    ASSUME LinkInv, up' => up, UNCHANGED worldVars,
           up' => \A id \in Present(told') \ Queued' :
                     id \in Present(told) \ Queued /\ told'[id] = told[id]
    PROVE  LinkInv'
<1>1. LinkedWithin(drawn, cache)'
  BY DEF LinkInv, LinkedWithin, worldVars, Targets, Lookup, Live, OneKind
<1>2. CacheAgrees'
  BY CacheKept DEF LinkInv, worldVars
<1>. QED  BY <1>1, <1>2 DEF LinkInv

(* What the stream says of a UUID waits in the buffer.                     *)
LEMMA LinksTold ==
    ASSUME ScreenInv, LinkInv, NEW m \in Events, NEW e,
           MergeEvent(m), Receiving, UNCHANGED <<up, flushing, worldVars>>,
           told' = [told EXCEPT ![m.id] = e]
    PROVE  LinkInv'
<1>1. m.id \in Ids /\ told \in Scenes
  BY EventForm DEF ScreenInv, TypeOK
<1>2. Queued' = Queued \cup {m.id}
  BY DEF MergeEvent, Queued
<1>3. \A id \in Present(told') \ Queued' :
          id \in Present(told) \ Queued /\ told'[id] = told[id]
  BY <1>1, <1>2 DEF Present, Scenes
<1>4. (up' => up) /\ UNCHANGED worldVars
  OBVIOUS
<1>5. up' => \A id \in Present(told') \ Queued' :
                id \in Present(told) \ Queued /\ told'[id] = told[id]
  BY <1>3
<1>. QED  BY <1>4, <1>5, LinksUntouched

LEMMA LinksFrame ==
    ASSUME ScreenInv, GhostInv, LinkInv, Frame
    PROVE  LinkInv'
<1>. DEFINE ended == {h \in Handles : /\ cleared # "none"
                                      /\ Covers(cleared, h[1])
                                      /\ h[2] \notin Surviving
                                      /\ drawn[h] # Absent}
<1>1. /\ up' = up /\ told' = told /\ events' = events
      /\ drawn' = Destroyed(drawn, ended)
      /\ cache' = [id \in Ids |-> IF \E h \in ended : h[2] = id THEN {} ELSE cache[id]]
  BY DEF Frame, streamVars
<1>2. drawn \in Worlds /\ ended \in SUBSET Handles
  BY DEF ScreenInv, TypeOK, Worlds
<1>3. \A h \in ended : cleared # "none" /\ Covers(cleared, h[1]) /\ drawn[h] # Absent
  OBVIOUS
<1>. HIDE DEF ended
<1>4. \A h \in Handles \ ended : Live(drawn, h) => cache'[h[2]] = cache[h[2]]
  <2>1. \A h \in Handles \ ended : Live(drawn, h) => ~ \E g \in ended : g[2] = h[2]
    BY <1>2, <1>3 DEF ScreenInv, OneMapPerUuid, Live, Missing
  <2>. QED  BY <1>1, <2>1, HandleIsPair
<1>5. LinkedWithin(drawn', cache')
  <2>. DEFINE kept == cache'
  <2>1. \A h \in Handles \ ended :
            h[2] \in OneKind /\ Live(drawn, h) => kept[h[2]] = cache[h[2]]
    BY <1>4
  <2>2. LinkedWithin(drawn, cache)
    BY DEF LinkInv
  <2>. HIDE DEF kept
  <2>3. LinkedWithin(Destroyed(drawn, ended), kept)
    BY <1>2, <2>1, <2>2, LinksDestroyed
  <2>. QED  BY <1>1, <2>3 DEF kept
<1>6. ASSUME up, NEW id \in Present(told) \ Queued, id \in OneKind
      PROVE  cache'[id] = cache[id]
  <2>1. told[id].kind \in KindsOffered(id)
    BY <1>6 DEF GhostInv, OfferedOnly
  <2>2. cleared # "none" => ~Covers(cleared, told[id].kind)
    BY <1>6 DEF ScreenInv, Following, ScreenAgrees
  <2>3. \A h \in ended : h[2] # id
    BY <1>2, <1>3, <1>6, <2>1, <2>2, OneKindMeans DEF GhostInv, OfferedOnly
  <2>. QED  BY <1>1, <2>3 DEF Present
<1>7. Queued' = Queued
  BY <1>1 DEF Queued
<1>8. CacheAgrees'
  BY <1>1, <1>6, <1>7, CacheKept DEF LinkInv, Present
<1>9. LinkedWithin(drawn, cache)'
  BY <1>5 DEF LinkedWithin, Targets, Lookup, Live, OneKind
<1>. QED  BY <1>8, <1>9 DEF LinkInv

LEMMA LinksRemoval ==
    ASSUME ScreenInv, GhostInv, LinkInv, NEW m \in events, ProcessRemoval(m)
    PROVE  LinkInv'
<1>. DEFINE h  == <<m.kind, m.id>>
            hs == {h}
<1>1. m.id \in Ids /\ m.type = "removed" /\ h \in Handles /\ KindOf(m) = m.kind
  BY EventForm, HandleIsPair DEF ProcessRemoval, ScreenInv, TypeOK, KindOf
<1>2. /\ drawn' = Destroyed(drawn, hs) /\ cache' = [cache EXCEPT ![m.id] = {}]
      /\ up' = up /\ told' = told /\ Queued' = Queued \ {m.id}
  BY Dequeued DEF ProcessRemoval, NextEvent, streamVars
<1>3. drawn \in Worlds /\ cache \in [Ids -> SUBSET Ids] /\ hs \in SUBSET Handles
  BY <1>1 DEF ScreenInv, TypeOK, Worlds
<1>4. ASSUME NEW g \in Handles \ hs, g[2] \in OneKind, Live(drawn, g)
      PROVE  cache'[g[2]] = cache[g[2]]
  <2>1. g[1] \in KindsOffered(g[2]) /\ g = <<g[1], g[2]>> /\ g[2] \in Ids
    BY <1>4, HandleIsPair DEF GhostInv, OfferedOnly, Live, Missing
  <2>2. g[2] # m.id
    BY <1>1, <1>4, <2>1, OneKindMeans DEF GhostInv, OfferedOnly
  <2>. QED  BY <1>2, <1>3, <2>1, <2>2
<1>. HIDE DEF h, hs
<1>5. LinkedWithin(drawn', cache')
  <2>. DEFINE kept == cache'
  <2>1. \A g \in Handles \ hs :
            g[2] \in OneKind /\ Live(drawn, g) => kept[g[2]] = cache[g[2]]
    BY <1>4
  <2>2. LinkedWithin(drawn, cache)
    BY DEF LinkInv
  <2>. HIDE DEF kept
  <2>3. LinkedWithin(Destroyed(drawn, hs), kept)
    BY <1>3, <2>1, <2>2, LinksDestroyed
  <2>. QED  BY <1>2, <2>3 DEF kept
<1>6. LinkedWithin(drawn, cache)'
  BY <1>5 DEF LinkedWithin, Targets, Lookup, Live, OneKind
<1>7. up => told[m.id] = NoEntity
  BY <1>1 DEF ScreenInv, Following, BufferAgrees
<1>8. CacheAgrees'
  BY <1>2, <1>3, <1>7, CacheKept DEF LinkInv, Present
<1>. QED  BY <1>6, <1>8 DEF LinkInv

(* The events of a flush: the known targets of the UUID become the told    *)
(* ones, and its entity is linked within them.                             *)
LEMMA LinksUpsert ==
    ASSUME ScreenInv, GhostInv, LinkInv, NEW m \in events, ProcessUpsert(m)
    PROVE  LinkInv'
<1>. DEFINE e       == m.entity
            h       == <<e.kind, m.id>>
            rival   == <<Other(e.kind), m.id>>
            hs      == IF e.chunks THEN {rival, h} ELSE {rival}
            room    == Destroyed(drawn, hs)
            last    == IF drawn[rival] # Absent THEN {} ELSE cache[m.id]
            updated == IF Live(room, h) THEN Updated(room, h, e) ELSE With(room, h, e)
<1>1. /\ m.id \in Ids /\ m.type = "upsert" /\ e \in Entities /\ e.kind = KindOf(m)
      /\ e.rels \in SUBSET Ids
  BY EventForm DEF ProcessUpsert, ScreenInv, TypeOK, KindOf, Entities
<1>2. /\ h \in Handles /\ rival \in Handles /\ h[1] = e.kind /\ h[2] = m.id
      /\ rival[2] = m.id /\ rival[1] # e.kind
      /\ \A g \in Handles : g[2] = m.id => g = h \/ g = rival
  BY <1>1, HandleIsPair DEF Entities, Kinds, Other
<1>3. /\ drawn' = Linked(updated, h, last, e.rels)
      /\ cache' = [cache EXCEPT ![m.id] = e.rels]
  BY DEF ProcessUpsert
<1>4. /\ up' = up /\ told' = told /\ Queued' = Queued \ {m.id}
  BY Dequeued DEF ProcessUpsert, NextEvent, streamVars
<1>5. /\ drawn \in Worlds /\ cache \in [Ids -> SUBSET Ids]
      /\ hs \in SUBSET Handles /\ rival \in hs
  BY <1>2 DEF ScreenInv, TypeOK, Worlds
<1>6. /\ last \in SUBSET Ids
      /\ m.id \in OneKind => last = cache[m.id]
  <2>1. cache[m.id] \in SUBSET Ids
    BY <1>1, <1>5
  <2>2. m.id \in OneKind => drawn[rival] = Absent
    BY <1>1, <1>2, OneKindMeans DEF GhostInv, OfferedOnly
  <2>. QED  BY <2>1, <2>2
<1>. HIDE DEF h, rival, hs, last
<1>7. /\ room \in Worlds /\ room[rival] = Absent /\ LinkedWithin(room, cache)
  BY <1>5, DestroyedEffect, LinksDestroyed DEF LinkInv
<1>. HIDE DEF room, e
<1>8. ASSUME Live(room, h)
      PROVE  /\ updated \in Worlds /\ Live(updated, h)
             /\ updated[h].links = room[h].links
             /\ \A g \in Handles \ {h} : updated[g] = room[g]
  <2>1. updated = Updated(room, h, e)
    BY <1>8
  <2>. HIDE DEF updated
  <2>2. updated[h].links = room[h].links
    <3>. DEFINE moved == ParentName(room, h) # Parent[e.val]
                x == [room[h] EXCEPT !.val = e.val,
                                     !.under = IF moved THEN {} ELSE @,
                                     !.orphan = IF moved THEN Parent[e.val] # World ELSE @]
    <3>1. room[h] \in Shown /\ updated = Replace(room, h, x)
      BY <1>2, <1>7, <1>8, <2>1 DEF Worlds, Live, Updated
    <3>. HIDE DEF moved
    <3>2. x.links = room[h].links
      BY <3>1 DEF Shown
    <3>. HIDE DEF x
    <3>. QED  BY <1>2, <3>1, <3>2 DEF Replace
  <2>. QED  BY <1>1, <1>2, <1>7, <1>8, <2>1, <2>2, UpdatedEffect DEF Live
<1>9. ASSUME ~Live(room, h)
      PROVE  /\ updated \in Worlds /\ Live(updated, h)
             /\ updated[h].links = {}
             /\ \A g \in Handles \ {h} : updated[g] = room[g]
  <2>1. updated = With(room, h, e)
    BY <1>9
  <2>. HIDE DEF updated
  <2>2. updated \in Worlds /\ updated[h] = Fresh(e) /\ Fresh(e) \in Shown
    BY <1>1, <1>2, <1>7, <2>1, WithEffect
  <2>3. Live(updated, h)
    BY <2>2, MissingAssumption DEF Live
  <2>4. Fresh(e).links = {}
    BY DEF Fresh
  <2>5. \A g \in Handles \ {h} : updated[g] = room[g]
    BY <2>1 DEF With, Replace
  <2>. QED  BY <2>2, <2>3, <2>4, <2>5
<1>10. /\ updated \in Worlds /\ Live(updated, h)
       /\ updated[h].links = {} \/ (Live(room, h) /\ updated[h].links = room[h].links)
       /\ \A g \in Handles \ {h} : updated[g] = room[g]
  BY <1>8, <1>9
<1>. HIDE DEF updated
<1>11. LinkedWithin(updated, cache)
  BY <1>7, <1>10, LinksSame DEF Live
<1>12. \A g \in Handles : g[2] = m.id /\ Live(updated, g) => g = h
  BY <1>2, <1>7, <1>10 DEF Live, Missing
<1>13. LinkedWithin(drawn', cache')
  <2>. DEFINE rels == e.rels
              kept == [cache EXCEPT ![m.id] = rels]
  <2>1. rels \in SUBSET Ids
    BY <1>1
  <2>. HIDE DEF rels
  <2>2. LinkedWithin(Linked(updated, h, last, rels), [cache EXCEPT ![h[2]] = rels])
    BY <1>2, <1>5, <1>6, <1>10, <1>11, <1>12, <2>1, LinksApplied
  <2>. QED  BY <1>2, <1>3, <2>2 DEF rels
<1>14. LinkedWithin(drawn, cache)'
  BY <1>13 DEF LinkedWithin, Targets, Lookup, Live, OneKind
<1>15. up => told[m.id] = e
  BY <1>1 DEF e, ScreenInv, Following, BufferAgrees
<1>16. CacheAgrees'
  BY <1>1, <1>3, <1>4, <1>5, <1>15 DEF LinkInv, CacheAgrees, Present, OneKind
<1>. QED  BY <1>14, <1>16 DEF LinkInv

(* What destroys or moves an entity behind the stream's back.              *)
LEMMA LinksDisturbed ==
    ASSUME ScreenInv, LinkInv, NEW h \in Handles, UserDeletes(h) \/ Resolve(h)
    PROVE  LinkInv'
<1>1. /\ up' = up /\ told' = told /\ events' = events /\ cache' = cache
      /\ Live(drawn, h) /\ drawn \in Worlds
  BY DEF UserDeletes, Resolve, streamVars, bufferVars, ScreenInv, TypeOK, Worlds
<1>2. ASSUME UserDeletes(h)
      PROVE  LinkedWithin(drawn', cache')
  <2>. DEFINE other == [g \in Handles |-> IF g = h THEN Deleted
                                          ELSE IF Live(drawn, g) THEN Cut(drawn[g], {h})
                                          ELSE drawn[g]]
  <2>1. drawn' = other
    BY <1>2 DEF UserDeletes
  <2>2. \A g \in Handles : Live(drawn, g) => Cut(drawn[g], {h}) \in Shown
                                             /\ Cut(drawn[g], {h}) \notin Missing
    BY <1>1, CutEffect DEF Worlds, Live
  <2>3. other \in Worlds
    BY <1>1, <2>2 DEF Worlds, Missing
  <2>4. \A g \in Handles : Live(other, g) =>
            g \notin {h} /\ Live(drawn, g) /\ other[g] = Cut(drawn[g], {h})
    BY DEF Live, Missing
  <2>5. \A g \in Handles \ {h} : Live(drawn, g) => Live(other, g)
    BY <2>2 DEF Live
  <2>. HIDE DEF other
  <2>6. LinkedWithin(other, cache)
    BY <1>1, <2>3, <2>4, <2>5, LinksCut DEF LinkInv
  <2>7. LinkedWithin(drawn', cache)
    BY <2>1, <2>6
  <2>. QED  BY <1>1, <2>7 DEF LinkedWithin
<1>3. ASSUME Resolve(h)
      PROVE  LinkedWithin(drawn', cache')
  <2>. DEFINE x(g) == [drawn[h] EXCEPT !.under = {g}, !.orphan = FALSE]
  <2>1. PICK g \in Handles : drawn' = Replace(drawn, h, x(g))
    BY <1>3 DEF Resolve, Named
  <2>2. drawn[h] \in Shown
    BY <1>1 DEF Worlds, Live
  <2>3. x(g) \in Shown /\ x(g).links = drawn[h].links
    BY <2>2 DEF Shown
  <2>. DEFINE y == x(g)
              other == Replace(drawn, h, y)
  <2>4. y \in Shown /\ y.links = drawn[h].links /\ drawn' = other
    BY <2>1, <2>3
  <2>. HIDE DEF y
  <2>5. other[h] = y /\ \A k \in Handles \ {h} : other[k] = drawn[k]
    BY DEF Replace
  <2>. HIDE DEF other
  <2>6. Live(other, h)
    BY <2>4, <2>5, MissingAssumption DEF Live
  <2>7. LinkedWithin(other, cache)
    BY <1>1, <2>4, <2>5, <2>6, LinksSame DEF LinkInv, Live
  <2>8. LinkedWithin(drawn', cache)
    BY <2>4, <2>7
  <2>. QED  BY <1>1, <2>8 DEF LinkedWithin
<1>4. LinkedWithin(drawn', cache')
  BY <1>2, <1>3, <1>1
<1>5. LinkedWithin(drawn, cache)'
  BY <1>4 DEF LinkedWithin, Targets, Lookup, Live, OneKind
<1>6. CacheAgrees'
  BY <1>1, CacheKept DEF LinkInv, Present, Queued
<1>. QED  BY <1>5, <1>6 DEF LinkInv

LEMMA LinkStep == ScreenInv /\ GhostInv /\ LinkInv /\ [Next]_vars => LinkInv'
<1>. SUFFICES ASSUME ScreenInv, GhostInv, LinkInv, [Next]_vars
              PROVE  LinkInv'
  OBVIOUS
<1>1. ASSUME NEW id \in Ids, NEW e \in Offers[id], ReceiveUpsert(id, e)
      PROVE  LinkInv'
  <2>. DEFINE m == Upsert(id, e)
  <2>1. e \in Entities
    BY OffersAssumption
  <2>2. m \in Events /\ m.id = id
    BY <2>1, EventTypes DEF Upsert
  <2>3. told' = [told EXCEPT ![id] = e]
    <3>1. told \in Scenes /\ "drawing" \in Kinds
      BY DEF ScreenInv, TypeOK, Kinds
    <3>. QED  BY <1>1, <2>1, <3>1, ApplyPoint DEF ReceiveUpsert
  <2>4. MergeEvent(m) /\ Receiving /\ UNCHANGED <<up, flushing, worldVars>>
    BY <1>1 DEF ReceiveUpsert
  <2>. HIDE DEF m
  <2>. QED  BY <2>2, <2>3, <2>4, LinksTold
<1>2. ASSUME NEW id \in Ids, ReceiveCascade(id)
      PROVE  LinkInv'
  <2>. DEFINE e == [told[id] EXCEPT !.rels = @ \ gone]
              m == Upsert(id, e)
  <2>1. told[id] \in Entities
    BY <1>2 DEF ReceiveCascade, PointingAt, Present, ScreenInv, TypeOK, Scenes
  <2>2. told[id].rels \ gone \in SUBSET Ids
    BY <2>1 DEF Entities
  <2>3. e \in Entities
    BY <2>1, <2>2, RelsType
  <2>4. UNCHANGED <<up, flushing, worldVars>> /\ Receiving
        /\ told' = Apply(told, m) /\ MergeEvent(m)
    BY <1>2 DEF ReceiveCascade
  <2>. HIDE DEF e
  <2>5. m \in Events /\ m.id = id
    BY <2>3, EventTypes DEF Upsert
  <2>6. told' = [told EXCEPT ![id] = e]
    <3>1. told \in Scenes /\ "drawing" \in Kinds
      BY DEF ScreenInv, TypeOK, Kinds
    <3>. QED  BY <2>3, <2>4, <3>1, ApplyPoint
  <2>. HIDE DEF m
  <2>. QED  BY <2>4, <2>5, <2>6, LinksTold
<1>3. ASSUME NEW id \in Ids, ReceiveRemoval(id)
      PROVE  LinkInv'
  <2>. DEFINE m == Removal(id, told[id].kind)
  <2>1. told[id] \in Entities /\ told[id].kind \in Kinds
    BY <1>3 DEF ReceiveRemoval, Present, ScreenInv, TypeOK, Scenes, Entities
  <2>2. m \in Events /\ m.id = id
    BY <2>1, EventTypes DEF Removal
  <2>3. told' = [told EXCEPT ![id] = NoEntity]
    <3>1. told \in Scenes
      BY DEF ScreenInv, TypeOK
    <3>. QED  BY <1>3, <2>1, <3>1, ApplyPoint DEF ReceiveRemoval
  <2>4. MergeEvent(m) /\ Receiving /\ UNCHANGED <<up, flushing, worldVars>>
    BY <1>3 DEF ReceiveRemoval
  <2>. HIDE DEF m
  <2>. QED  BY <2>2, <2>3, <2>4, LinksTold
<1>4. ASSUME NEW scope \in Scopes, ReceiveClear(scope)
      PROVE  LinkInv'
  <2>1. (up' => up) /\ UNCHANGED worldVars
    BY <1>4 DEF ReceiveClear
  <2>2. up' => \A id \in Present(told') \ Queued' :
                  id \in Present(told) \ Queued /\ told'[id] = told[id]
    BY <1>4, ClearLeaves
  <2>. QED  BY <2>1, <2>2, LinksUntouched
<1>5. CASE Connect \/ Abort
  <2>1. /\ drawn' = EmptyWorld
        /\ up' => told' = EmptyScene
    BY <1>5 DEF Connect, Abort, ClearLocalState
  <2>2. \A h \in Handles : ~Live(drawn', h)
    BY <2>1 DEF EmptyWorld, Live, Missing
  <2>3. LinkedWithin(drawn, cache)'
    BY <2>2 DEF LinkedWithin, Live
  <2>4. CacheAgrees'
    BY <2>1 DEF CacheAgrees, Present, EmptyScene
  <2>. QED  BY <2>3, <2>4 DEF LinkInv
<1>6. CASE Lose
  <2>1. (up' => up) /\ UNCHANGED worldVars /\ ~up'
    BY <1>6 DEF Lose
  <2>. QED  BY <2>1, LinksUntouched
<1>7. CASE UNCHANGED vars
  <2>1. (up' => up) /\ UNCHANGED worldVars /\ told' = told /\ Queued' = Queued
    BY <1>7 DEF vars, streamVars, bufferVars, Queued
  <2>2. up' => \A id \in Present(told') \ Queued' :
                  id \in Present(told) \ Queued /\ told'[id] = told[id]
    BY <2>1 DEF Present
  <2>. QED  BY <2>1, <2>2, LinksUntouched
<1>. QED
  BY <1>1, <1>2, <1>3, <1>4, <1>5, <1>6, <1>7, LinksFrame, LinksRemoval, LinksUpsert,
     LinksDisturbed DEF Next

(* An entity that keeps its kind is linked to nothing that its last        *)
(* relationships do not name, whatever was redrawn, removed or replaced in *)
(* between (serverRelationships: links are removed by a diff against the   *)
(* last-known targets, so these must never fall behind the links).         *)
THEOREM NoStrayLinks == Spec => []NoStrayLink
<1>1. Init => LinkInv
  BY DEF Init, LinkInv, LinkedWithin, CacheAgrees, Live, Missing, EmptyWorld
<1>2. LinkInv => NoStrayLink
  <2>. SUFFICES ASSUME LinkInv, Settled, NEW h \in Handles,
                       Live(drawn, h), h[2] \in OneKind, told[h[2]] # NoEntity
                PROVE  drawn[h].links \subseteq Targets(drawn, told[h[2]].rels)
    BY DEF NoStrayLink
  <2>1. cache[h[2]] = told[h[2]].rels
    BY HandleIsPair DEF LinkInv, CacheAgrees, Settled, Present, Queued
  <2>. QED  BY <2>1 DEF LinkInv, LinkedWithin
<1>. QED  BY <1>1, <1>2, ScreenAlways, GhostAlways, LinkStep, PTL DEF Spec

=============================================================================
