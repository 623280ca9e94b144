------------------------- MODULE DrawServiceProofs -------------------------
(* Proofs about DrawService, for every set of UUIDs, subscribers, payloads *)
(* and every mailbox size.                                                 *)
EXTENDS DrawService, SequenceTheorems, TLAPS

-----------------------------------------------------------------------------
(* Entities, messages and scenes. *)

\* The three messages the service builds are messages.
LEMMA MessageTypes ==
    /\ \A id \in Ids, e \in Entities : Upsert(id, e) \in Messages
    /\ \A id \in Ids, k \in Kinds : Removal(id, k) \in Messages
    /\ \A scope \in Scopes : Clear(scope) \in Messages
BY DEF Messages

\* A consumer that applies a message keeps a scene.
LEMMA ApplyType ==
    ASSUME NEW scene \in Scenes, NEW m \in Messages
    PROVE  Apply(scene, m) \in Scenes
<1>1. CASE \E id \in Ids, e \in Entities : m = Upsert(id, e)
  BY <1>1 DEF Apply, Erases, Upsert, Scenes
<1>2. CASE \E id \in Ids, k \in Kinds : m = Removal(id, k)
  BY <1>2 DEF Apply, Erases, Removal, Scenes
<1>3. CASE \E scope \in Scopes : m = Clear(scope)
  BY <1>3 DEF Apply, Erases, Clear, Scenes
<1>4. QED
  BY <1>1, <1>2, <1>3 DEF Messages

\* An upsert and a removal touch one UUID.
LEMMA ApplyPoint ==
    ASSUME NEW scene \in Scenes, NEW id \in Ids, NEW k \in Kinds, NEW e \in Entities
    PROVE  /\ Apply(scene, Upsert(id, e)) = [scene EXCEPT ![id] = e]
           /\ Apply(scene, Removal(id, k)) = [scene EXCEPT ![id] = NoEntity]
BY DEF Apply, Erases, Upsert, Removal, Scenes

\* A bulk removal takes away what its scope covers.
LEMMA ApplyClear ==
    ASSUME NEW scene \in Scenes, NEW scope \in Scopes
    PROVE  Apply(scene, Clear(scope)) =
              [id \in Ids |-> IF scene[id] # NoEntity /\ Covers(scope, scene[id].kind)
                              THEN NoEntity ELSE scene[id]]
BY DEF Apply, Erases, Clear

LEMMA EmptySceneType == EmptyScene \in Scenes
BY DEF EmptyScene, Scenes

\* Changing the relationships of an entity leaves an entity of its kind.
LEMMA RelsType ==
    ASSUME NEW e \in Entities, NEW rels \in SUBSET Ids
    PROVE  /\ [e EXCEPT !.rels = rels] \in Entities
           /\ [e EXCEPT !.rels = rels].kind = e.kind
BY DEF Entities, Kinds

-----------------------------------------------------------------------------
(* Requests. *)

\* A masked or whole update of an entity by one of its kind is an entity.
LEMMA MergeType ==
    ASSUME NEW stored \in Entities, NEW incoming \in Entities,
           stored.kind = incoming.kind, NEW mask \in Masks
    PROVE  /\ Merge(stored, incoming, mask) \in Entities
           /\ Merge(stored, incoming, mask).kind = stored.kind
BY DEF Merge, Entities, Kinds

-----------------------------------------------------------------------------
(* What a request does to the store. *)

StoreOK ==
    /\ entities \in Scenes
    /\ template \in Scenes
    /\ \A id \in Ids : template[id] # NoEntity => template[id].kind = "drawing"
    /\ job \in Jobs

(* What the local variables of a stream goroutine hold where. *)
StreamShape ==
    \A s \in Subs :
        /\ phase[s] = "off" => /\ replay[s] = EmptyScene
                               /\ batch[s] = <<>>
                               /\ pending[s] = <<>>
                               /\ ~overflow[s]
                               /\ view[s] = EmptyScene
        /\ phase[s] \in {"take", "send", "park", "wait"} => replay[s] = EmptyScene
        /\ phase[s] \in {"replay", "take", "park", "wait"} => batch[s] = <<>>
        /\ phase[s] = "send" => batch[s] # <<>>
        /\ overflow[s] => pending[s] = <<>>

\* Whoever agrees with the store before the step and applies m agrees with
\* the store after it.
Carries(m) ==
    \A scene \in Scenes :
        (\A id \in Ids : Agrees(scene, id))
            => \A id \in Ids : Apply(scene, m)[id] \in {entities'[id], ReplayOf(id)'}

\* A step that stores e under id, in the store and possibly in the template,
\* and publishes it.
LEMMA UpsertCarries ==
    ASSUME StoreOK, NEW id \in Ids, NEW e \in Entities,
           entities' = [entities EXCEPT ![id] = e],
           template' \in Scenes,
           \A other \in Ids \ {id} : template'[other] = template[other]
    PROVE  Carries(Upsert(id, e))
<1> SUFFICES ASSUME NEW scene \in Scenes, \A i \in Ids : Agrees(scene, i), NEW i \in Ids
             PROVE  Apply(scene, Upsert(id, e))[i] \in {entities'[i], ReplayOf(i)'}
  BY DEF Carries
<1>1. Apply(scene, Upsert(id, e)) = [scene EXCEPT ![id] = e]
  BY ApplyPoint DEF Kinds
<1>2. CASE i = id
  BY <1>1, <1>2 DEF Scenes, StoreOK
<1>3. CASE i # id
  BY <1>1, <1>3 DEF Scenes, StoreOK, Agrees, ReplayOf, Rebuilt
<1>4. QED
  BY <1>2, <1>3

\* A step that deletes one entity with its template and publishes the removal.
LEMMA RemovalCarries ==
    ASSUME StoreOK, NEW id \in Ids, NEW k \in Kinds,
           Drop({id}, TRUE)
    PROVE  Carries(Removal(id, k))
<1> SUFFICES ASSUME NEW scene \in Scenes, \A i \in Ids : Agrees(scene, i), NEW i \in Ids
             PROVE  Apply(scene, Removal(id, k))[i] \in {entities'[i], ReplayOf(i)'}
  BY DEF Carries
<1>1. Apply(scene, Removal(id, k))[i] = IF i = id THEN NoEntity ELSE scene[i]
  BY DEF Apply, Erases, Removal
<1>2. CASE i = id
  BY <1>1, <1>2 DEF Drop
<1>3. CASE i # id
  BY <1>1, <1>3 DEF Drop, Agrees, ReplayOf, Rebuilt
<1>4. QED
  BY <1>2, <1>3

\* A step that deletes everything in a scope, with or without the templates,
\* and publishes the scope. Templates belong to drawings, so whoever holds
\* the replayed form of an entity in scope clears it too.
LEMMA ClearCarries ==
    ASSUME StoreOK, NEW scope \in Scopes, NEW withBuffers \in BOOLEAN,
           Drop({id \in Present(entities) : Covers(scope, entities[id].kind)}, withBuffers)
    PROVE  Carries(Clear(scope))
<1> SUFFICES ASSUME NEW scene \in Scenes, \A i \in Ids : Agrees(scene, i), NEW i \in Ids
             PROVE  Apply(scene, Clear(scope))[i] \in {entities'[i], ReplayOf(i)'}
  BY DEF Carries
<1>0. Agrees(scene, i)
  OBVIOUS
<1>1. Apply(scene, Clear(scope))[i] =
         IF scene[i] # NoEntity /\ Covers(scope, scene[i].kind) THEN NoEntity ELSE scene[i]
  BY ApplyClear
<1>2. CASE entities[i] = NoEntity
  <2>1. scene[i] = NoEntity
    BY <1>0, <1>2 DEF Agrees, ReplayOf, Rebuilt
  <2>2. entities'[i] = NoEntity
    BY <1>2 DEF Drop
  <2>3. QED
    BY <2>1, <2>2, <1>1
<1>3. CASE entities[i] # NoEntity
  <2>1. /\ scene[i] # NoEntity
        /\ scene[i].kind = entities[i].kind
    BY <1>0, <1>3 DEF Agrees, ReplayOf, Rebuilt, StoreOK
  <2>2. CASE Covers(scope, entities[i].kind)
    BY <2>1, <2>2, <1>1, <1>3 DEF Drop, Present
  <2>3. CASE ~Covers(scope, entities[i].kind)
    <3>1. entities'[i] = entities[i] /\ template'[i] = template[i]
      BY <2>3, <1>3 DEF Drop, Present, StoreOK, Scenes
    <3>2. scene[i] \in {entities'[i], ReplayOf(i)'}
      BY <1>0, <3>1 DEF Agrees, ReplayOf, Rebuilt
    <3>3. QED
      BY <2>1, <2>3, <3>2, <1>1
  <2>4. QED
    BY <2>2, <2>3
<1>4. QED
  BY <1>2, <1>3

(* The effect of a request: it publishes one message that carries everyone *)
(* from the old store to the new one, or it is quiet and leaves the store  *)
(* as it was. A chunk buffer that cannot be created breaks the second      *)
(* case, hence DiskCanFail.                                                *)
Effect ==
    /\ StoreOK'
    /\ \/ \E m \in Messages : Publish(m) /\ Carries(m)
       \/ Quiet /\ (DiskCanFail \/ UNCHANGED <<entities, template>>)

LEMMA StoreEntityEffect ==
    ASSUME StoreOK, NEW id \in Ids, NEW e \in Payloads, StoreEntity(id, e), job' \in Jobs
    PROVE  Effect
<1>1. e \in Entities
  BY PayloadsAssumption
<1>2. e.chunks => e.kind = "drawing"
  BY <1>1 DEF Entities, Kinds
<1>3. StoreOK'
  BY <1>1, <1>2 DEF StoreOK, StoreEntity, Scenes
<1>4. \A other \in Ids \ {id} : template'[other] = template[other]
  BY DEF StoreOK, StoreEntity, Scenes
<1>5. Carries(Upsert(id, e))
  BY <1>1, <1>3, <1>4, UpsertCarries DEF StoreOK, StoreEntity
<1>6. QED
  BY <1>1, <1>3, <1>5, MessageTypes DEF Effect, StoreEntity

LEMMA WithoutBufferEffect ==
    ASSUME StoreOK, NEW id \in Ids, NEW e \in Payloads,
           StoreEntityWithoutBuffer(id, e), job' \in Jobs
    PROVE  Effect
BY PayloadsAssumption DEF StoreOK, StoreEntityWithoutBuffer, Scenes, Effect

LEMMA UpdateEffect ==
    ASSUME StoreOK, NEW id \in Ids, NEW e \in Payloads, NEW mask \in Masks,
           UpdateEntity(id, e, mask)
    PROVE  Effect
<1> DEFINE updated == Merge(entities[id], e, mask)
<1>1. /\ e \in Entities
      /\ entities[id] \in Entities
      /\ entities[id].kind = e.kind
  BY PayloadsAssumption DEF StoreOK, Scenes, UpdateEntity, Updatable
<1>2. updated \in Entities
  BY <1>1, MergeType
<1>3. /\ entities' = [entities EXCEPT ![id] = updated]
      /\ Publish(Upsert(id, updated))
      /\ job' = job
  BY DEF UpdateEntity
<1>4. CASE template' = template
  <2>1. StoreOK'
    BY <1>2, <1>3, <1>4 DEF StoreOK, Scenes
  <2>2. Carries(Upsert(id, updated))
    BY <1>2, <1>3, <1>4, UpsertCarries DEF StoreOK
  <2>3. QED
    BY <1>2, <1>3, <2>1, <2>2, MessageTypes DEF Effect
<1>5. CASE template' # template
  <2>1. /\ e.kind = "drawing"
        /\ template[id] # NoEntity
        /\ template' = [template EXCEPT ![id] = Merge(template[id], e, mask)]
    BY <1>5 DEF UpdateEntity, SyncTemplate
  <2>2. /\ Merge(template[id], e, mask) \in Entities
        /\ Merge(template[id], e, mask).kind = "drawing"
    <3>1. template[id] \in Entities /\ template[id].kind = "drawing"
      BY <2>1 DEF StoreOK, Scenes
    <3>2. QED
      BY <3>1, <2>1, <1>1, MergeType
  <2>3. StoreOK'
    BY <1>2, <1>3, <2>1, <2>2 DEF StoreOK, Scenes
  <2>4. \A other \in Ids \ {id} : template'[other] = template[other]
    BY <2>1 DEF StoreOK, Scenes
  <2>5. Carries(Upsert(id, updated))
    BY <1>2, <1>3, <2>3, <2>4, UpsertCarries DEF StoreOK
  <2>6. QED
    BY <1>2, <1>3, <2>3, <2>5, MessageTypes DEF Effect
<1>6. QED
  BY <1>4, <1>5

LEMMA PublishRelsEffect ==
    ASSUME StoreOK, NEW source \in Present(entities), NEW rels \in SUBSET Ids,
           PublishRels(source, rels), UNCHANGED <<template, job>>
    PROVE  Effect
<1> DEFINE updated == [entities[source] EXCEPT !.rels = rels]
<1>1. entities[source] \in Entities /\ source \in Ids
  BY DEF StoreOK, Scenes, Present
<1>2. updated \in Entities
  BY <1>1, RelsType
<1>3. entities' = [entities EXCEPT ![source] = updated] /\ Publish(Upsert(source, updated))
  BY DEF PublishRels
<1>4. StoreOK'
  BY <1>1, <1>2, <1>3 DEF StoreOK, Scenes
<1>5. Carries(Upsert(source, updated))
  BY <1>1, <1>2, <1>3, UpsertCarries DEF StoreOK
<1>6. QED
  BY <1>1, <1>2, <1>3, <1>4, <1>5, MessageTypes DEF Effect

LEMMA RemoveEntityEffect ==
    ASSUME StoreOK, NEW id \in Ids, RemoveEntity(id)
    PROVE  Effect
<1>1. entities[id].kind \in Kinds
  BY DEF StoreOK, Scenes, RemoveEntity, Present, Entities
<1>2. StoreOK'
  BY DEF StoreOK, Scenes, RemoveEntity, Drop, Cascade, Jobs, Idle
<1>3. Carries(Removal(id, entities[id].kind))
  BY <1>1, RemovalCarries DEF RemoveEntity
<1>4. QED
  BY <1>1, <1>2, <1>3, MessageTypes DEF Effect, RemoveEntity

\* Scopes cover what the bulk removals delete.
LEMMA ScopeCovers ==
    ASSUME StoreOK
    PROVE  /\ OfKind("transform") =
                 {id \in Present(entities) : Covers("transforms", entities[id].kind)}
           /\ OfKind("drawing") =
                 {id \in Present(entities) : Covers("drawings", entities[id].kind)}
           /\ Present(entities) =
                 {id \in Present(entities) : Covers("all", entities[id].kind)}
BY DEF OfKind, Covers

LEMMA RemoveAllEffect ==
    ASSUME StoreOK, RemoveAllTransforms \/ RemoveAllDrawings \/ RemoveAll
    PROVE  Effect
<1>1. CASE RemoveAllTransforms
  <2>1. Carries(Clear("transforms"))
    BY <1>1, ClearCarries, ScopeCovers DEF RemoveAllTransforms, Scopes
  <2>2. StoreOK'
    BY <1>1 DEF RemoveAllTransforms, StoreOK, Scenes, Drop, Cascade, OfKind, Present, Jobs, Idle
  <2>3. QED
    BY <1>1, <2>1, <2>2, MessageTypes DEF Effect, RemoveAllTransforms, Scopes
<1>2. CASE RemoveAllDrawings
  <2>1. Carries(Clear("drawings"))
    BY <1>2, ClearCarries, ScopeCovers DEF RemoveAllDrawings, Scopes
  <2>2. StoreOK'
    BY <1>2 DEF RemoveAllDrawings, StoreOK, Scenes, Drop, Cascade, OfKind, Present, Jobs, Idle
  <2>3. QED
    BY <1>2, <2>1, <2>2, MessageTypes DEF Effect, RemoveAllDrawings, Scopes
<1>3. CASE RemoveAll
  <2>1. Carries(Clear("all"))
    BY <1>3, ClearCarries, ScopeCovers DEF RemoveAll, Scopes
  <2>2. StoreOK'
    BY <1>3 DEF RemoveAll, StoreOK, Scenes, Drop
  <2>3. QED
    BY <1>3, <2>1, <2>2, MessageTypes DEF Effect, RemoveAll, Scopes
<1>4. QED
  BY <1>1, <1>2, <1>3

LEMMA RpcEffect ==
    ASSUME StoreOK, Rpc
    PROVE  Effect
<1>1. CASE \E id \in Ids, e \in Payloads : AddEntity(id, e)
  BY <1>1, StoreEntityEffect, WithoutBufferEffect DEF AddEntity, StoreOK
<1>2. CASE \E id \in Ids, e \in Payloads : AddEntitiesNext(id, e)
  <2>1. PICK id \in Ids, e \in Payloads : AddEntitiesNext(id, e)
    BY <1>2
  <2>2. job.op = "batch" /\ job' \in {Idle, [job EXCEPT !.left = job.left - 1]}
    BY <2>1 DEF AddEntitiesNext
  <2>3. job' \in Jobs
    <3>1. /\ job.left \in Nat /\ job.left > 0
          /\ job \in [op: {"idle", "batch", "cascade"}, left: Nat, removed: SUBSET Ids]
      BY <2>2 DEF StoreOK, Jobs
    <3>2. Idle \in Jobs
      BY DEF Idle, Jobs
    <3>3. job.left # 1 => [job EXCEPT !.left = job.left - 1] \in Jobs
      BY <3>1 DEF Jobs
    <3>4. QED
      BY <2>1, <3>2, <3>3 DEF AddEntitiesNext
  <2>4. QED
    BY <2>1, <2>3, StoreEntityEffect, WithoutBufferEffect DEF AddEntitiesNext
<1>3. CASE \E n \in 1 .. BatchLimit : BeginAddEntities(n)
  <2>1. PICK n \in 1 .. BatchLimit : BeginAddEntities(n)
    BY <1>3
  <2>2. n \in Nat /\ n > 0
    BY BatchLimitAssumption
  <2>3. job' = [op |-> "batch", left |-> n, removed |-> {}]
    BY <2>1 DEF BeginAddEntities, Idle
  <2>4. job' \in Jobs
    BY <2>2, <2>3 DEF Jobs
  <2>5. QED
    BY <2>1, <2>4 DEF BeginAddEntities, Effect, StoreOK
<1>4. CASE \E id \in Ids, e \in Payloads, mask \in Masks : UpdateEntity(id, e, mask)
  BY <1>4, UpdateEffect
<1>5. CASE \E source, target \in Ids :
              CreateRelationship(source, target) \/ DeleteRelationship(source, target)
  <2>1. PICK source \in Ids, target \in Ids :
              CreateRelationship(source, target) \/ DeleteRelationship(source, target)
    BY <1>5
  <2>2. source \in Present(entities)
    BY <2>1 DEF CreateRelationship, DeleteRelationship
  <2>3. entities[source].rels \in SUBSET Ids
    BY <2>2 DEF Present, StoreOK, Scenes, Entities
  <2>4. CASE CreateRelationship(source, target)
    BY <2>2, <2>3, <2>4, PublishRelsEffect DEF CreateRelationship
  <2>5. CASE DeleteRelationship(source, target)
    BY <2>2, <2>3, <2>5, PublishRelsEffect DEF DeleteRelationship
  <2>6. QED
    BY <2>1, <2>4, <2>5
<1>6. CASE \E source \in Ids : CascadeNext(source)
  <2>1. PICK source \in Ids : CascadeNext(source)
    BY <1>6
  <2>2. source \in Present(entities)
    BY <2>1 DEF CascadeNext, PointingAt
  <2>3. entities[source].rels \in SUBSET Ids
    BY <2>2 DEF Present, StoreOK, Scenes, Entities
  <2>4. QED
    BY <2>1, <2>2, <2>3, PublishRelsEffect DEF CascadeNext
<1>7. CASE CascadeDone
  BY <1>7 DEF CascadeDone, Effect, StoreOK, Jobs, Idle
<1>8. CASE \E id \in Ids : RemoveEntity(id)
  BY <1>8, RemoveEntityEffect
<1>9. CASE RemoveAllTransforms \/ RemoveAllDrawings \/ RemoveAll
  BY <1>9, RemoveAllEffect
<1>10. QED
  BY <1>1, <1>2, <1>3, <1>4, <1>5, <1>6, <1>7, <1>8, <1>9 DEF Rpc

-----------------------------------------------------------------------------
(* Types and shape. *)

StreamOK ==
    /\ unsignalled \subseteq Registered
    /\ phase \in [Subs -> Phases]
    /\ replay \in [Subs -> Scenes]
    /\ batch \in [Subs -> Seq(Messages)]
    /\ pending \in [Subs -> Seq(Messages)]
    /\ overflow \in [Subs -> BOOLEAN]
    /\ notify \in [Subs -> BOOLEAN]
    /\ cancelled \in [Subs -> BOOLEAN]
    /\ view \in [Subs -> Scenes]

LEMMA TypeOKParts == TypeOK <=> StoreOK /\ StreamOK
BY DEF TypeOK, StoreOK, StreamOK

\* The steps of subscriber s.
SubStep(s) == Signal(s) \/ Connect(s) \/ Cancel(s) \/ Stream(s)

LEMMA InitShape == Init => TypeOK /\ StreamShape
<1> SUFFICES ASSUME Init PROVE TypeOK /\ StreamShape
  OBVIOUS
<1>1. StoreOK
  BY EmptySceneType DEF Init, StoreOK, EmptyScene, Jobs, Idle
<1>2. StreamOK
  BY EmptySceneType DEF Init, StreamOK, Phases, Registered
<1>3. StreamShape
  BY DEF Init, StreamShape
<1>4. QED
  BY <1>1, <1>2, <1>3, TypeOKParts

\* Publishing keeps the mailboxes well formed.
LEMMA PublishShape ==
    ASSUME StreamOK, StreamShape, NEW m \in Messages, Publish(m)
    PROVE  StreamOK' /\ StreamShape'
<1>1. unsignalled' \subseteq Registered'
  BY DEF Publish, Accepting, Registered, streamVars
<1>2. pending' \in [Subs -> Seq(Messages)] /\ overflow' \in [Subs -> BOOLEAN]
  BY DEF Publish, StreamOK
<1>3. StreamOK'
  BY <1>1, <1>2 DEF Publish, StreamOK, streamVars
<1>4. StreamShape'
  BY DEF Publish, StreamOK, StreamShape, streamVars, Accepting, Full, Registered
<1>5. QED
  BY <1>3, <1>4

LEMMA SubStepShape ==
    ASSUME StoreOK, StreamOK, StreamShape, NEW s \in Subs, SubStep(s)
    PROVE  StoreOK' /\ StreamOK' /\ StreamShape'
<1>0. StoreOK'
  BY DEF StoreOK, SubStep, Signal, Connect, Cancel, Stream, SendReplay, ReplayDone, Take, Send,
         Wake, Park, StopStream, Leave, storeVars
<1>1. CASE Signal(s)
  BY <1>0, <1>1 DEF Signal, StreamOK, StreamShape, Registered, streamVars
<1>2. CASE Connect(s)
  <2>1. replay' \in [Subs -> Scenes]
    BY <1>2 DEF Connect, StoreOK, StreamOK, Scenes, ReplayOf
  <2>2. StreamOK'
    BY <1>2, <2>1 DEF Connect, StreamOK, Registered, Phases, boxVars, MuIsFree
  <2>3. StreamShape'
    BY <1>2 DEF Connect, StreamOK, StreamShape, boxVars
  <2>4. QED
    BY <1>0, <2>2, <2>3
<1>3. CASE Cancel(s)
  BY <1>0, <1>3 DEF Cancel, StreamOK, StreamShape, Registered, boxVars
<1>4. CASE \E id \in Ids : SendReplay(s, id)
  <2>1. PICK id \in Ids : SendReplay(s, id)
    BY <1>4
  <2>2. /\ replay[s] \in Scenes /\ view[s] \in Scenes
        /\ replay[s][id] \in Entities
    BY <2>1 DEF SendReplay, StreamOK, Scenes
  <2>3. Apply(view[s], Upsert(id, replay[s][id])) \in Scenes
    BY <2>2, ApplyType, MessageTypes
  <2>4. [replay[s] EXCEPT ![id] = NoEntity] \in Scenes
    BY <2>2 DEF Scenes
  <2>5. StreamOK'
    BY <2>1, <2>3, <2>4 DEF SendReplay, Tell, StreamOK, Registered, boxVars
  <2>6. StreamShape'
    BY <2>1 DEF SendReplay, Tell, StreamOK, StreamShape, boxVars
  <2>7. QED
    BY <1>0, <2>5, <2>6
<1>5. CASE ReplayDone(s)
  BY <1>0, <1>5 DEF ReplayDone, StreamOK, StreamShape, Registered, Phases, boxVars
<1>6. CASE Take(s)
  <2>1. pending[s] \in Seq(Messages) /\ <<>> \in Seq(Messages)
    BY DEF StreamOK
  <2>2. StreamOK'
    BY <1>6, <2>1 DEF Take, StreamOK, Registered, Phases
  <2>3. StreamShape'
    BY <1>6, <2>1 DEF Take, StreamOK, StreamShape
  <2>4. QED
    BY <1>0, <2>2, <2>3
<1>7. CASE Send(s)
  <2>1. /\ batch[s] \in Seq(Messages) /\ batch[s] # <<>>
        /\ view[s] \in Scenes
    BY <1>7 DEF Send, StreamOK, StreamShape
  <2>2. Head(batch[s]) \in Messages /\ Tail(batch[s]) \in Seq(Messages)
    BY <2>1
  <2>3. Tail(batch[s]) = <<>> <=> Len(batch[s]) = 1
    <3>1. Len(Tail(batch[s])) = Len(batch[s]) - 1 /\ Len(batch[s]) \in Nat
      BY <2>1, HeadTailProperties, LenProperties
    <3>2. Tail(batch[s]) # <<>> => Len(Tail(batch[s])) \in Nat \ {0}
      BY <2>2, EmptySeq
    <3>3. Tail(batch[s]) = <<>> => Len(Tail(batch[s])) = 0
      BY EmptySeq
    <3>4. QED
      BY <3>1, <3>2, <3>3
  <2>4. Apply(view[s], Head(batch[s])) \in Scenes
    BY <2>1, <2>2, ApplyType
  <2>5. StreamOK'
    BY <1>7, <2>2, <2>4 DEF Send, Tell, StreamOK, Registered, Phases, boxVars
  <2>6. StreamShape'
    BY <1>7, <2>3 DEF Send, Tell, StreamOK, StreamShape, boxVars
  <2>7. QED
    BY <1>0, <2>5, <2>6
<1>8. CASE Wake(s) \/ Park(s)
  <2>1. CASE Wake(s)
    BY <1>0, <2>1 DEF Wake, StreamOK, StreamShape, Registered, Phases
  <2>2. CASE Park(s)
    BY <1>0, <2>2 DEF Park, StreamOK, StreamShape, Registered, Phases, boxVars
  <2>3. QED
    BY <1>8, <2>1, <2>2
<1>9. CASE StopStream(s)
  BY <1>0, <1>9 DEF StopStream, StreamOK, StreamShape, Registered, Phases, boxVars
<1>10. CASE Leave(s)
  <2>1. StreamOK'
    BY <1>10, EmptySceneType DEF Leave, StreamOK, Registered, Phases, MuIsFree
  <2>2. StreamShape'
    BY <1>10 DEF Leave, StreamOK, StreamShape
  <2>3. QED
    BY <1>0, <2>1, <2>2
<1>11. QED
  BY <1>1, <1>2, <1>3, <1>4, <1>5, <1>6, <1>7, <1>8, <1>9, <1>10 DEF SubStep, Stream

LEMMA StepShape ==
    ASSUME TypeOK, StreamShape, [Next]_vars
    PROVE  TypeOK' /\ StreamShape'
<1>0. StoreOK /\ StreamOK
  BY TypeOKParts
<1>1. CASE Rpc
  <2>1. Effect
    BY <1>0, <1>1, RpcEffect
  <2>2. CASE \E m \in Messages : Publish(m)
    BY <1>0, <2>1, <2>2, PublishShape DEF TypeOK, StoreOK, StreamOK, Effect
  <2>3. CASE Quiet
    BY <1>0, <2>1, <2>3
       DEF TypeOK, StoreOK, StreamOK, StreamShape, Effect, Quiet, Registered, boxVars, streamVars
  <2>4. QED
    BY <2>1, <2>2, <2>3 DEF Effect
<1>2. CASE \E s \in Subs : SubStep(s)
  <2>1. StoreOK' /\ StreamOK' /\ StreamShape'
    BY <1>0, <1>2, SubStepShape
  <2>2. QED
    BY <2>1 DEF TypeOK, StoreOK, StreamOK
<1>3. CASE UNCHANGED vars
  BY <1>3 DEF TypeOK, StreamShape, Registered, vars, storeVars, boxVars, streamVars
<1>4. QED
  BY <1>1, <1>2, <1>3 DEF Next, SubStep

(* Every variable of the draw service keeps its type: in particular what   *)
(* is sent is always a whole message, and a chunk template always belongs  *)
(* to a drawing.                                                           *)
THEOREM TypeCorrect == Spec => []TypeOK
<1>1. Init => TypeOK /\ StreamShape
  BY InitShape
<1>2. TypeOK /\ StreamShape /\ [Next]_vars => (TypeOK /\ StreamShape)'
  BY StepShape
<1>3. QED
  BY <1>1, <1>2, PTL DEF Spec

(* Where a stream goroutine is determines what it holds: an overflowed     *)
(* mailbox is empty, nothing is left of the snapshot once changes are      *)
(* being sent, and a disconnected subscriber leaves nothing behind.        *)
LEMMA ShapeCorrect == Spec => []StreamShape
<1>1. Init => TypeOK /\ StreamShape
  BY InitShape
<1>2. TypeOK /\ StreamShape /\ [Next]_vars => (TypeOK /\ StreamShape)'
  BY StepShape
<1>3. QED
  BY <1>1, <1>2, PTL DEF Spec

-----------------------------------------------------------------------------
(* Wake-ups. *)

\* Every request waits until the pushes of the last publication are done.
LEMMA RpcNeedsMu == Rpc => unsignalled = {}
BY DEF Rpc, AddEntity, AddEntitiesNext, BeginAddEntities, UpdateEntity, CreateRelationship,
       DeleteRelationship, CascadeNext, CascadeDone, RemoveEntity, RemoveAllTransforms,
       RemoveAllDrawings, RemoveAll, MuIsFree

LEMMA StepWakeup ==
    ASSUME TypeOK, StreamShape, NoLostWakeup, [Next]_vars
    PROVE  NoLostWakeup'
<1>0. StoreOK /\ StreamOK
  BY TypeOKParts
<1>1. CASE Rpc
  <2>1. Effect /\ unsignalled = {}
    BY <1>0, <1>1, RpcEffect, RpcNeedsMu
  <2>2. CASE \E m \in Messages : Publish(m)
    BY <1>0, <2>1, <2>2
       DEF NoLostWakeup, Publish, Accepting, Registered, StreamOK, Phases, streamVars
  <2>3. CASE Quiet
    BY <2>3 DEF NoLostWakeup, Quiet, boxVars, streamVars
  <2>4. QED
    BY <2>1, <2>2, <2>3 DEF Effect
<1>2. CASE \E s \in Subs : SubStep(s)
  <2>1. PICK s \in Subs : SubStep(s)
    BY <1>2
  <2>2. CASE Take(s)
    BY <1>0, <2>2 DEF NoLostWakeup, Take, StreamOK
  <2>3. CASE ~Take(s)
    BY <1>0, <2>1, <2>3
       DEF NoLostWakeup, SubStep, Signal, Connect, Cancel, Stream, SendReplay, ReplayDone, Send,
           Wake, Park, StopStream, Leave, StreamOK, boxVars, streamVars, MuIsFree
  <2>4. QED
    BY <2>2, <2>3
<1>3. CASE UNCHANGED vars
  BY <1>3 DEF NoLostWakeup, vars, boxVars, streamVars
<1>4. QED
  BY <1>1, <1>2, <1>3 DEF Next, SubStep

(* However pushes, signals, takes and waits interleave, a stream goroutine *)
(* is never parked on an empty channel with changes in its mailbox.        *)
THEOREM WakeupNeverLost == Spec => []NoLostWakeup
<1>1. Init => TypeOK /\ StreamShape /\ NoLostWakeup
  BY InitShape DEF Init, NoLostWakeup
<1>2. TypeOK /\ StreamShape /\ NoLostWakeup /\ [Next]_vars
         => (TypeOK /\ StreamShape /\ NoLostWakeup)'
  BY StepShape, StepWakeup
<1>3. QED
  BY <1>1, <1>2, PTL DEF Spec

-----------------------------------------------------------------------------
(* What a sequence of changes leads to. *)

LEMMA LeadsNowhere ==
    ASSUME NEW scene \in Scenes
    PROVE  Leads(scene, <<>>, scene)
<1> DEFINE trail == [i \in 0 .. 0 |-> scene]
<1>1. /\ Len(<<>>) = 0
      /\ trail \in [0 .. 0 -> Scenes] /\ trail[0] = scene
      /\ \A i \in 1 .. 0 : trail[i] = Apply(trail[i - 1], <<>>[i])
  OBVIOUS
<1>2. QED
  BY <1>1 DEF Leads

LEMMA LeadsEmpty ==
    ASSUME NEW from \in Scenes, NEW to \in Scenes, Leads(from, <<>>, to)
    PROVE  from = to
BY DEF Leads

LEMMA LeadsAppend ==
    ASSUME NEW from \in Scenes, NEW to \in Scenes, NEW changes \in Seq(Messages),
           NEW m \in Messages, Leads(from, changes, to)
    PROVE  Leads(from, Append(changes, m), Apply(to, m))
<1> DEFINE n == Len(changes)
<1>1. PICK trail \in [0 .. n -> Scenes] :
         /\ trail[0] = from
         /\ trail[n] = to
         /\ \A i \in 1 .. n : trail[i] = Apply(trail[i - 1], changes[i])
  BY DEF Leads
<1> DEFINE longer == [i \in 0 .. n + 1 |-> IF i = n + 1 THEN Apply(to, m) ELSE trail[i]]
<1>2. n \in Nat /\ Len(Append(changes, m)) = n + 1
  BY LenProperties, AppendProperties
<1>3. Apply(to, m) \in Scenes
  BY ApplyType
<1>4. longer \in [0 .. n + 1 -> Scenes]
  BY <1>2, <1>3
<1>5. longer[0] = from /\ longer[n + 1] = Apply(to, m)
  BY <1>1, <1>2
<1>6. ASSUME NEW i \in 1 .. n + 1
      PROVE  longer[i] = Apply(longer[i - 1], Append(changes, m)[i])
  <2>1. CASE i = n + 1
    BY <1>1, <1>2, <2>1, AppendProperties
  <2>2. CASE i # n + 1
    <3>1. i \in 1 .. n
      BY <1>2, <2>2
    <3>2. Append(changes, m)[i] = changes[i]
      BY <3>1, AppendProperties
    <3>3. longer[i] = trail[i] /\ longer[i - 1] = trail[i - 1]
      BY <3>1, <1>2
    <3>4. QED
      BY <1>1, <3>1, <3>2, <3>3
  <2>3. QED
    BY <2>1, <2>2
<1>7. QED
  BY <1>2, <1>4, <1>5, <1>6 DEF Leads

LEMMA LeadsTail ==
    ASSUME NEW from \in Scenes, NEW to \in Scenes, NEW changes \in Seq(Messages),
           changes # <<>>, Leads(from, changes, to)
    PROVE  Leads(Apply(from, Head(changes)), Tail(changes), to)
<1> DEFINE n == Len(changes)
<1>1. PICK trail \in [0 .. n -> Scenes] :
         /\ trail[0] = from
         /\ trail[n] = to
         /\ \A i \in 1 .. n : trail[i] = Apply(trail[i - 1], changes[i])
  BY DEF Leads
<1>2. /\ n \in Nat /\ n >= 1
      /\ Len(Tail(changes)) = n - 1
      /\ \A i \in 1 .. n - 1 : Tail(changes)[i] = changes[i + 1]
      /\ Head(changes) = changes[1]
  BY EmptySeq, HeadTailProperties
<1> DEFINE shorter == [i \in 0 .. n - 1 |-> trail[i + 1]]
<1> HIDE DEF n
<1>3. shorter \in [0 .. n - 1 -> Scenes]
  BY <1>2
<1>4. shorter[0] = Apply(from, Head(changes)) /\ shorter[n - 1] = to
  BY <1>1, <1>2
<1>5. ASSUME NEW i \in 1 .. n - 1
      PROVE  shorter[i] = Apply(shorter[i - 1], Tail(changes)[i])
  <2>1. i + 1 \in 1 .. n /\ i \in 0 .. n - 1 /\ i - 1 \in 0 .. n - 1
    BY <1>2
  <2>2. shorter[i] = trail[i + 1] /\ shorter[i - 1] = trail[i]
    BY <1>2, <2>1
  <2>3. trail[i + 1] = Apply(trail[i], changes[i + 1])
    BY <1>1, <1>2, <2>1
  <2>4. QED
    BY <1>2, <2>2, <2>3
<1>6. QED
  BY <1>2, <1>3, <1>4, <1>5 DEF Leads

-----------------------------------------------------------------------------
(* A live subscriber stays in step with the store. *)

Live(s) == s \in Registered /\ ~overflow[s] /\ phase[s] # "leaving"

LEMMA OverlayType ==
    ASSUME StreamOK, NEW s \in Subs
    PROVE  Overlay(s) \in Scenes
BY DEF StreamOK, Overlay, Scenes

\* A publication that carries the store carries every live subscriber.
LEMMA PublishInStep ==
    ASSUME StreamOK, NEW m \in Messages, Publish(m), Carries(m),
           NEW s \in Subs, Live(s)', Live(s) => InStep(s)
    PROVE  InStep(s)'
<1>1. Live(s) /\ s \in Accepting /\ s \notin Full
  BY DEF Live, Publish, Registered, Accepting, Full, streamVars, StreamOK
<1>2. PICK sent, end \in Scenes :
         /\ Leads(Overlay(s), batch[s], sent)
         /\ Leads(sent, pending[s], end)
         /\ \A id \in Ids : Agrees(end, id)
  BY <1>1 DEF InStep
<1>3. pending[s] \in Seq(Messages)
  BY DEF StreamOK
<1>4. /\ pending'[s] = Append(pending[s], m)
      /\ batch'[s] = batch[s] /\ Overlay(s)' = Overlay(s)
  BY <1>1 DEF Publish, streamVars, Overlay, Full
<1>5. Leads(sent, Append(pending[s], m), Apply(end, m))
  BY <1>2, <1>3, LeadsAppend
<1>6. Apply(end, m) \in Scenes
  BY ApplyType
<1>7. \A id \in Ids : Agrees(Apply(end, m), id)'
  <2>1. \A id \in Ids : Apply(end, m)[id] \in {entities'[id], ReplayOf(id)'}
    BY <1>2 DEF Carries
  <2>2. QED
    BY <2>1 DEF Agrees
<1>8. /\ Leads(Overlay(s)', batch'[s], sent)
      /\ Leads(sent, pending'[s], Apply(end, m))
  BY <1>2, <1>4, <1>5
<1>9. QED
  BY <1>6, <1>7, <1>8 DEF InStep

\* A step that changes neither the store nor what is on its way to s.
LEMMA QuietInStep ==
    ASSUME NEW s \in Subs, InStep(s), UNCHANGED <<entities, template>>,
           Overlay(s)' = Overlay(s), batch'[s] = batch[s], pending'[s] = pending[s]
    PROVE  InStep(s)'
<1>1. PICK sent, end \in Scenes :
         /\ Leads(Overlay(s), batch[s], sent)
         /\ Leads(sent, pending[s], end)
         /\ \A id \in Ids : Agrees(end, id)
  BY DEF InStep
<1>2. Leads(Overlay(s)', batch'[s], sent) /\ Leads(sent, pending'[s], end)
  BY <1>1
<1>3. \A id \in Ids : Agrees(end, id)'
  BY <1>1 DEF Agrees, ReplayOf, Rebuilt
<1>4. QED
  BY <1>2, <1>3 DEF InStep

LEMMA RpcInStep ==
    ASSUME ~DiskCanFail, StreamOK, AllInStep, Effect
    PROVE  AllInStep'
<1> SUFFICES ASSUME NEW s \in Subs, Live(s)' PROVE InStep(s)'
  BY DEF AllInStep, Live, Registered
<1>1. Live(s) => InStep(s)
  BY DEF AllInStep, Live
<1>2. CASE \E m \in Messages : Publish(m) /\ Carries(m)
  BY <1>1, <1>2, PublishInStep
<1>3. CASE Quiet /\ UNCHANGED <<entities, template>>
  BY <1>1, <1>3, QuietInStep DEF Quiet, boxVars, streamVars, Overlay, Live, Registered
<1>4. QED
  BY <1>2, <1>3 DEF Effect

\* A subscriber that connects starts in step.
LEMMA ConnectInStep ==
    ASSUME ~DiskCanFail, StoreOK, StreamOK, StreamShape, NEW s \in Subs, Connect(s)
    PROVE  InStep(s)'
<1>1. [id \in Ids |-> ReplayOf(id)] \in Scenes
  BY DEF ReplayOf, StoreOK, Scenes
<1>2. PICK snapshot \in Scenes : snapshot = [id \in Ids |-> ReplayOf(id)]
  BY <1>1
<1>3. replay'[s] = snapshot /\ batch'[s] = <<>> /\ pending'[s] = <<>>
  BY <1>2 DEF Connect, StreamOK, StreamShape, boxVars
<1>4. view'[s] = EmptyScene
  BY DEF Connect, StreamShape
<1>5. Overlay(s)' = snapshot
  BY <1>3, <1>2, <1>4 DEF Overlay, EmptyScene, Scenes
<1>6. \A id \in Ids : Agrees(snapshot, id)'
  BY <1>2 DEF Connect, storeVars, Agrees, ReplayOf, Rebuilt
<1>7. Leads(snapshot, <<>>, snapshot)
  BY <1>2, LeadsNowhere
<1>8. Leads(Overlay(s)', batch'[s], snapshot) /\ Leads(snapshot, pending'[s], snapshot)
  BY <1>3, <1>5, <1>7
<1>9. QED
  BY <1>2, <1>6, <1>8 DEF InStep

LEMMA TakeInStep ==
    ASSUME StreamOK, StreamShape, NEW s \in Subs, Take(s), InStep(s)
    PROVE  InStep(s)'
<1>1. PICK sent, end \in Scenes :
         /\ Leads(Overlay(s), batch[s], sent)
         /\ Leads(sent, pending[s], end)
         /\ \A id \in Ids : Agrees(end, id)
  BY DEF InStep
<1>2. batch[s] = <<>> /\ batch'[s] = pending[s] /\ pending'[s] = <<>>
  BY DEF Take, StreamOK, StreamShape
<1>3. sent = Overlay(s)
  BY <1>1, <1>2, OverlayType, LeadsEmpty
<1>4. Overlay(s)' = Overlay(s)
  BY DEF Take, Overlay
<1>5. Leads(Overlay(s)', batch'[s], end) /\ Leads(end, pending'[s], end)
  BY <1>1, <1>2, <1>3, <1>4, LeadsNowhere
<1>6. \A id \in Ids : Agrees(end, id)'
  BY <1>1 DEF Take, storeVars, Agrees, ReplayOf, Rebuilt
<1>7. QED
  BY <1>5, <1>6 DEF InStep

LEMMA SendInStep ==
    ASSUME StreamOK, StreamShape, NEW s \in Subs, Send(s), InStep(s)
    PROVE  InStep(s)'
<1>1. PICK sent, end \in Scenes :
         /\ Leads(Overlay(s), batch[s], sent)
         /\ Leads(sent, pending[s], end)
         /\ \A id \in Ids : Agrees(end, id)
  BY DEF InStep
<1>2. /\ batch[s] \in Seq(Messages) /\ batch[s] # <<>> /\ Head(batch[s]) \in Messages
      /\ view[s] \in Scenes
      /\ replay[s] = EmptyScene
  BY HeadTailProperties DEF Send, StreamOK, StreamShape
<1>3. /\ batch'[s] = Tail(batch[s])
      /\ view'[s] = Apply(view[s], Head(batch[s]))
      /\ pending' = pending /\ replay' = replay
  BY DEF Send, Tell, StreamOK, boxVars
<1>4. Overlay(s) = view[s]
  BY <1>2 DEF Overlay, EmptyScene, Scenes
<1>5. Apply(view[s], Head(batch[s])) \in Scenes
  BY <1>2, ApplyType
<1>6. Overlay(s)' = Apply(view[s], Head(batch[s]))
  BY <1>2, <1>3, <1>5 DEF Overlay, EmptyScene, Scenes
<1>7. Leads(Overlay(s)', batch'[s], sent)
  BY <1>1, <1>2, <1>3, <1>4, <1>6, LeadsTail
<1>8. \A id \in Ids : Agrees(end, id)'
  BY <1>1 DEF Send, storeVars, Agrees, ReplayOf, Rebuilt
<1>9. QED
  BY <1>1, <1>3, <1>7, <1>8 DEF InStep

\* Sending one entity of the snapshot moves it from the replay to the view.
LEMMA SendReplayInStep ==
    ASSUME StreamOK, NEW s \in Subs, NEW id \in Ids, SendReplay(s, id), InStep(s)
    PROVE  InStep(s)'
<1>1. replay[s] \in Scenes /\ view[s] \in Scenes /\ replay[s][id] \in Entities
  BY DEF SendReplay, StreamOK, Scenes
<1>2. view'[s] = [view[s] EXCEPT ![id] = replay[s][id]]
  <2>1. "drawing" \in Kinds
    BY DEF Kinds
  <2>2. Apply(view[s], Upsert(id, replay[s][id])) = [view[s] EXCEPT ![id] = replay[s][id]]
    BY <1>1, <2>1, ApplyPoint
  <2>3. QED
    BY <2>2 DEF SendReplay, Tell, StreamOK
<1>3. replay'[s] = [replay[s] EXCEPT ![id] = NoEntity]
  BY DEF SendReplay, StreamOK
<1>4. Overlay(s)' = Overlay(s)
  BY <1>1, <1>2, <1>3, NoEntityAssumption DEF Overlay, Scenes
<1>5. QED
  BY <1>4, QuietInStep DEF SendReplay, storeVars, boxVars

LEMMA SubStepInStep ==
    ASSUME ~DiskCanFail, StoreOK, StreamOK, StreamShape, AllInStep, NEW s \in Subs, SubStep(s)
    PROVE  AllInStep'
<1> SUFFICES ASSUME NEW t \in Subs, Live(t)' PROVE InStep(t)'
  BY DEF AllInStep, Live, Registered
<1>1. CASE t # s
  <2>1. Live(t)
    BY <1>1 DEF Live, Registered, StreamOK, SubStep, Signal, Connect, Cancel, Stream, SendReplay,
       ReplayDone, Take, Send, Wake, Park, StopStream, Leave, boxVars, streamVars
  <2>2. /\ UNCHANGED <<entities, template>>
        /\ batch'[t] = batch[t] /\ pending'[t] = pending[t]
        /\ replay'[t] = replay[t] /\ view'[t] = view[t]
    BY <1>1 DEF StreamOK, SubStep, Signal, Connect, Cancel, Stream, SendReplay, ReplayDone, Take,
       Send, Tell, Wake, Park, StopStream, Leave, storeVars, boxVars, streamVars
  <2>3. Overlay(t)' = Overlay(t)
    BY <2>2 DEF Overlay
  <2>4. QED
    BY <2>1, <2>2, <2>3, QuietInStep DEF AllInStep, Live
<1>2. CASE t = s
  <2>1. CASE Connect(s)
    BY <1>2, <2>1, ConnectInStep
  <2>2. CASE StopStream(s) \/ Leave(s)
    BY <1>2, <2>2 DEF StopStream, Leave, Live, Registered, StreamOK
  <2>3. CASE Take(s)
    <3>1. Live(s)
      BY <1>2, <2>3 DEF Take, Live, Registered, StreamOK
    <3>2. QED
      BY <1>2, <2>3, <3>1, TakeInStep DEF AllInStep, Live
  <2>4. CASE Send(s)
    <3>1. Live(s)
      BY <1>2, <2>4 DEF Send, Live, Registered, StreamOK, boxVars
    <3>2. QED
      BY <1>2, <2>4, <3>1, SendInStep DEF AllInStep, Live
  <2>5. CASE \E id \in Ids : SendReplay(s, id)
    <3>1. Live(s)
      BY <1>2, <2>5 DEF SendReplay, Live, Registered, boxVars
    <3>2. QED
      BY <1>2, <2>5, <3>1, SendReplayInStep DEF AllInStep, Live
  <2>6. CASE Signal(s) \/ Cancel(s) \/ ReplayDone(s) \/ Wake(s) \/ Park(s)
    <3>1. Live(s)
      BY <1>2, <2>6 DEF Signal, Cancel, ReplayDone, Wake, Park, Live, Registered, StreamOK, boxVars,
         streamVars
    <3>2. UNCHANGED <<entities, template, batch, pending, replay, view>>
      BY <2>6 DEF Signal, Cancel, ReplayDone, Wake, Park, storeVars, boxVars, streamVars
    <3>3. QED
      BY <1>2, <3>1, <3>2, QuietInStep DEF AllInStep, Live, Overlay
  <2>7. QED
    BY <2>1, <2>2, <2>3, <2>4, <2>5, <2>6 DEF SubStep, Stream
<1>3. QED
  BY <1>1, <1>2

LEMMA StepInStep ==
    ASSUME ~DiskCanFail, TypeOK, StreamShape, AllInStep, [Next]_vars
    PROVE  AllInStep'
<1>0. StoreOK /\ StreamOK
  BY TypeOKParts
<1>1. CASE Rpc
  BY <1>0, <1>1, RpcEffect, RpcInStep
<1>2. CASE \E s \in Subs : SubStep(s)
  BY <1>0, <1>2, SubStepInStep
<1>3. CASE UNCHANGED vars
  <2> SUFFICES ASSUME NEW s \in Subs, Live(s)' PROVE InStep(s)'
    BY DEF AllInStep, Live, Registered
  <2>1. Live(s) /\ UNCHANGED <<entities, template, batch, pending, replay, view>>
    BY <1>3 DEF Live, Registered, vars, storeVars, boxVars, streamVars
  <2>2. QED
    BY <2>1, QuietInStep DEF AllInStep, Live, Overlay
<1>4. QED
  BY <1>1, <1>2, <1>3 DEF Next, SubStep

LEMMA InitInStep == Init => AllInStep
BY DEF Init, AllInStep, Registered

(* With a disk that works, the snapshot and the mailbox of every live      *)
(* stream lead to the store's contents at every point of its life.         *)
THEOREM StreamInStep ==
    ASSUME ~DiskCanFail
    PROVE  Spec => []AllInStep
<1>1. Init => TypeOK /\ StreamShape /\ AllInStep
  BY InitShape, InitInStep
<1>2. TypeOK /\ StreamShape /\ AllInStep /\ [Next]_vars
         => (TypeOK /\ StreamShape /\ AllInStep)'
  BY StepShape, StepInStep
<1>3. QED
  BY <1>1, <1>2, PTL DEF Spec

LEMMA InStepCaughtUp ==
    ASSUME TypeOK, StreamShape, AllInStep
    PROVE  CaughtUpHoldsStore
<1> SUFFICES ASSUME NEW s \in Subs, CaughtUp(s), NEW id \in Ids PROVE Agrees(view[s], id)
  BY DEF CaughtUpHoldsStore
<1>1. /\ StreamOK /\ InStep(s)
      /\ batch[s] = <<>> /\ pending[s] = <<>> /\ replay[s] = EmptyScene
      /\ view[s] \in Scenes
  BY TypeOKParts DEF CaughtUp, AllInStep, Registered, StreamShape, StreamOK
<1>2. PICK sent, end \in Scenes :
         /\ Leads(Overlay(s), <<>>, sent)
         /\ Leads(sent, <<>>, end)
         /\ \A i \in Ids : Agrees(end, i)
  BY <1>1 DEF InStep
<1>3. Overlay(s) = view[s]
  BY <1>1 DEF Overlay, EmptyScene, Scenes
<1>4. end = view[s]
  BY <1>1, <1>2, <1>3, OverlayType, LeadsEmpty
<1>5. QED
  BY <1>2, <1>4

(* With a disk that works, a subscriber with nothing left to receive holds *)
(* the store: no change is lost, applied twice or out of order between the *)
(* snapshot, the pushes and the takes, for any number of subscribers,      *)
(* entities and mailbox slots.                                             *)
THEOREM CaughtUpCorrect ==
    ASSUME ~DiskCanFail
    PROVE  Spec => []CaughtUpHoldsStore
<1>1. Init => TypeOK /\ StreamShape /\ AllInStep
  BY InitShape, InitInStep
<1>2. TypeOK /\ StreamShape /\ AllInStep /\ [Next]_vars
         => (TypeOK /\ StreamShape /\ AllInStep)'
  BY StepShape, StepInStep
<1>3. TypeOK /\ StreamShape /\ AllInStep => CaughtUpHoldsStore
  BY InStepCaughtUp
<1>4. QED
  BY <1>1, <1>2, <1>3, PTL DEF Spec

-----------------------------------------------------------------------------
(* Relationships. While a removal cascades, its lock holder owes what still *)
(* points at what it removed; nothing else points nowhere.                  *)

Debt == IF job.op = "cascade" THEN job.removed ELSE {}

TargetsExist ==
    \A id \in Ids : entities[id] # NoEntity =>
        \A t \in entities[id].rels : entities[t] # NoEntity \/ t \in Debt

\* A step that stores an entity whose targets exist.
LEMMA StoredTargets ==
    ASSUME StoreOK, TargetsExist, NEW id \in Ids, NEW e \in Entities,
           entities' = [entities EXCEPT ![id] = e], Debt \subseteq Debt',
           \A t \in e.rels : entities[t] # NoEntity \/ t \in Debt
    PROVE  TargetsExist'
<1>1. \A i \in Ids : entities'[i] = IF i = id THEN e ELSE entities[i]
  BY DEF StoreOK, Scenes
<1>2. \A i \in Ids : entities[i] # NoEntity => entities'[i] # NoEntity /\ entities[i].rels \subseteq Ids
  BY <1>1, NoEntityAssumption DEF StoreOK, Scenes, Entities
<1>3. e.rels \subseteq Ids
  BY DEF Entities
<1> QED
  BY <1>1, <1>2, <1>3 DEF TargetsExist

\* A step that removes what it then owes.
LEMMA DroppedTargets ==
    ASSUME StoreOK, TargetsExist, Debt = {}, NEW gone \in SUBSET Ids, NEW withBuffers,
           Drop(gone, withBuffers), gone \subseteq Debt'
    PROVE  TargetsExist'
<1>1. \A i \in Ids : entities'[i] = IF i \in gone THEN NoEntity ELSE entities[i]
  BY DEF Drop
<1>2. \A i \in Ids : entities[i] # NoEntity => entities[i].rels \subseteq Ids
  BY DEF StoreOK, Scenes, Entities
<1> QED
  BY <1>1, <1>2 DEF TargetsExist

LEMMA RpcTargets ==
    ASSUME StoreOK, TargetsExist, Rpc, \A e \in Payloads : e.rels = {}
    PROVE  TargetsExist'
<1>1. MuIsFree => Debt = {}
  BY DEF MuIsFree, Debt, Idle
<1>2. \A id \in Ids : entities[id] # NoEntity =>
          entities[id] \in Entities /\ entities[id].rels \in SUBSET Ids
  BY DEF StoreOK, Scenes, Entities
<1>3. CASE \E id \in Ids, e \in Payloads : AddEntity(id, e) \/ AddEntitiesNext(id, e)
  <2>1. PICK id \in Ids, e \in Payloads : AddEntity(id, e) \/ AddEntitiesNext(id, e)
    BY <1>3
  <2>2. e \in Entities /\ e.rels = {} /\ entities' = [entities EXCEPT ![id] = e]
    BY <2>1, PayloadsAssumption
       DEF AddEntity, AddEntitiesNext, StoreEntity, StoreEntityWithoutBuffer
  <2>3. Debt = {}
    BY <2>1, <1>1 DEF AddEntity, AddEntitiesNext, Debt
  <2> QED
    BY <2>2, <2>3, StoredTargets
<1>4. CASE \E n \in 1 .. BatchLimit : BeginAddEntities(n)
  BY <1>1, <1>4 DEF BeginAddEntities, TargetsExist
<1>5. CASE \E id \in Ids, e \in Payloads, mask \in Masks : UpdateEntity(id, e, mask)
  <2>1. PICK id \in Ids, e \in Payloads, mask \in Masks : UpdateEntity(id, e, mask)
    BY <1>5
  <2> DEFINE updated == Merge(entities[id], e, mask)
  <2>2. /\ e \in Entities /\ entities[id] \in Entities /\ entities[id] # NoEntity
        /\ entities[id].kind = e.kind /\ Debt = {} /\ job' = job
        /\ entities' = [entities EXCEPT ![id] = updated]
    BY <2>1, <1>1, <1>2, PayloadsAssumption DEF UpdateEntity, Updatable
  <2>3. updated \in Entities
    BY <2>2, MergeType
  <2>4. updated.rels \in {entities[id].rels, {}}
    BY <2>2 DEF Merge, Entities
  <2> HIDE DEF updated
  <2>5. \A t \in updated.rels : entities[t] # NoEntity
    BY <2>2, <2>4 DEF TargetsExist
  <2> QED
    BY <2>2, <2>3, <2>5, StoredTargets
<1>6. CASE \E source, target \in Ids :
              CreateRelationship(source, target) \/ DeleteRelationship(source, target)
  <2>1. PICK source \in Ids, target \in Ids :
              CreateRelationship(source, target) \/ DeleteRelationship(source, target)
    BY <1>6
  <2>2. entities[source] # NoEntity /\ Debt = {} /\ job' = job
    BY <2>1, <1>1 DEF CreateRelationship, DeleteRelationship, Present
  <2>3. PICK rels \in SUBSET Ids :
           /\ PublishRels(source, rels)
           /\ \A t \in rels : t \in entities[source].rels \/ entities[t] # NoEntity
    <3>1. CASE CreateRelationship(source, target)
      <4>1. entities[source].rels \cup {target} \in SUBSET Ids
        BY <1>2, <2>2
      <4> QED
        BY <3>1, <4>1 DEF CreateRelationship, Present
    <3>2. CASE DeleteRelationship(source, target)
      <4>1. entities[source].rels \ {target} \in SUBSET Ids
        BY <1>2, <2>2
      <4> QED
        BY <3>2, <4>1 DEF DeleteRelationship
    <3> QED
      BY <2>1, <3>1, <3>2
  <2>4. /\ [entities[source] EXCEPT !.rels = rels] \in Entities
        /\ [entities[source] EXCEPT !.rels = rels].rels = rels
    BY <1>2, <2>2 DEF Entities
  <2>5. entities' = [entities EXCEPT ![source] = [entities[source] EXCEPT !.rels = rels]]
    BY <2>3 DEF PublishRels
  <2>6. \A t \in rels : entities[t] # NoEntity
    BY <2>2, <2>3 DEF TargetsExist
  <2> QED
    BY <2>2, <2>4, <2>5, <2>6, StoredTargets
<1>7. CASE \E source \in Ids : CascadeNext(source)
  <2>1. PICK source \in Ids : CascadeNext(source)
    BY <1>7
  <2> DEFINE rels == entities[source].rels \ job.removed
             updated == [entities[source] EXCEPT !.rels = rels]
  <2>2. /\ entities[source] # NoEntity /\ job' = job
        /\ entities' = [entities EXCEPT ![source] = updated]
    BY <2>1 DEF CascadeNext, PointingAt, Present, PublishRels
  <2>3. rels \in SUBSET Ids
    BY <1>2, <2>2
  <2>4. \A t \in rels : entities[t] # NoEntity \/ t \in Debt
    BY <2>2 DEF TargetsExist
  <2> HIDE DEF rels
  <2>5. updated \in Entities /\ updated.rels = rels
    BY <1>2, <2>2, <2>3 DEF Entities
  <2> HIDE DEF updated
  <2>6. Debt' = Debt
    BY <2>2 DEF Debt
  <2> QED
    BY <2>2, <2>4, <2>5, <2>6, StoredTargets
<1>8. CASE CascadeDone
  <2>1. entities' = entities /\ PointingAt(job.removed) = {} /\ Debt = job.removed
    BY <1>8 DEF CascadeDone, Debt
  <2>2. \A id \in Ids : entities[id] # NoEntity => entities[id].rels \cap Debt = {}
    BY <2>1 DEF PointingAt, Present
  <2> QED
    BY <2>1, <2>2 DEF TargetsExist
<1>9. CASE \E id \in Ids : RemoveEntity(id)
  <2>1. PICK id \in Ids : RemoveEntity(id)
    BY <1>9
  <2>2. Debt = {} /\ Drop({id}, TRUE) /\ job' = [op |-> "cascade", left |-> 0, removed |-> {id}]
    BY <2>1, <1>1 DEF RemoveEntity, Cascade, Idle
  <2>3. Debt' = {id}
    BY <2>2 DEF Debt
  <2> QED
    BY <2>2, <2>3, DroppedTargets
<1>10. CASE RemoveAllTransforms \/ RemoveAllDrawings
  <2>1. PICK kind \in Kinds, withBuffers \in BOOLEAN :
           MuIsFree /\ Drop(OfKind(kind), withBuffers) /\ Cascade(OfKind(kind))
    BY <1>10 DEF RemoveAllTransforms, RemoveAllDrawings, Kinds
  <2>2. job' = [op |-> "cascade", left |-> 0, removed |-> OfKind(kind)]
    BY <2>1 DEF Cascade, Idle
  <2>3. Debt' = OfKind(kind) /\ OfKind(kind) \in SUBSET Ids
    BY <2>2 DEF Debt, OfKind, Present
  <2> QED
    BY <1>1, <2>1, <2>3, DroppedTargets
<1>11. CASE RemoveAll
  BY <1>11 DEF RemoveAll, Drop, Present, TargetsExist
<1> QED
  BY <1>3, <1>4, <1>5, <1>6, <1>7, <1>8, <1>9, <1>10, <1>11 DEF Rpc

(* With svc.mu free no relationship outlives its target, for any UUIDs and *)
(* subscribers, when no request brings relationships of its own: the check *)
(* of CreateRelationship and the cascades of the removals suffice, whatever *)
(* batches, updates and failing chunk buffers come between.                *)
THEOREM RelationshipsHaveTargets ==
    ASSUME \A e \in Payloads : e.rels = {}
    PROVE  Spec => []NoDanglingRelationship
<1>1. Init => StoreOK /\ TargetsExist
  BY InitShape, TypeOKParts DEF Init, TargetsExist, EmptyScene
<1>2. TypeOK /\ TargetsExist /\ [Next]_vars => TargetsExist'
  <2> SUFFICES ASSUME TypeOK, TargetsExist, [Next]_vars PROVE TargetsExist'
    OBVIOUS
  <2>1. CASE Rpc
    BY <2>1, TypeOKParts, RpcTargets
  <2>2. CASE UNCHANGED storeVars
    BY <2>2 DEF storeVars, TargetsExist, Debt
  <2>3. CASE \E s \in Subs : SubStep(s)
    BY <2>2, <2>3 DEF SubStep, Signal, Connect, Cancel, Stream, SendReplay, ReplayDone, Take,
       Send, Wake, Park, StopStream, Leave
  <2> QED
    BY <2>1, <2>2, <2>3 DEF Next, SubStep, vars
<1>3. TypeOK /\ TargetsExist => NoDanglingRelationship
  <2> SUFFICES ASSUME TypeOK, TargetsExist PROVE NoDanglingRelationship
    OBVIOUS
  <2>1. \A id \in Ids : entities[id] # NoEntity => entities[id].rels \subseteq Ids
    BY DEF TypeOK, Scenes, Entities
  <2>2. MuIsFree => Debt = {}
    BY DEF MuIsFree, Debt, Idle
  <2> QED
    BY <2>1, <2>2 DEF TargetsExist, NoDanglingRelationship, Present
<1>4. QED
  BY <1>1, <1>2, <1>3, TypeCorrect, PTL DEF Spec

=============================================================================
