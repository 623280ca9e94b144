---------------------------- MODULE DrawService ----------------------------
(***************************************************************************)
(* The Go draw service (draw/draw_service.go, draw/entity_subscriber.go):  *)
(* the entity store behind svc.mu, and one mailbox and one stream          *)
(* goroutine per StreamEntityChanges subscriber.                           *)
(*                                                                         *)
(* An RPC that publishes once is one step. RemoveEntity, the scoped bulk   *)
(* removals and AddEntities publish several times while they hold svc.mu,  *)
(* and stream goroutines run in between, so each publication is a step of  *)
(* its own and `job` says which RPC still holds the lock.                  *)
(*                                                                         *)
(* push queues under sub.mu and signals after releasing it: the two are    *)
(* separate steps, `unsignalled` being the subscribers whose signal is     *)
(* still due. A stream goroutine that took nothing is on its way to its    *)
(* select before it is parked there: phases "park" and "wait".             *)
(*                                                                         *)
(* Operators named after a bug (..._Something) are mutations of the        *)
(* operator they precede and are part of no specification.                 *)
(***************************************************************************)
EXTENDS DrawEntities, Naturals, Sequences

CONSTANTS
    Subs,           \* stream subscribers
    Payloads,       \* entities a request may carry
    MaxPending,     \* maxPendingEntityChanges
    BatchLimit,     \* longest AddEntities batch (a model bound)
    DiskCanFail     \* whether creating or reading a chunk buffer may fail

ASSUME PayloadsAssumption == Payloads \subseteq Entities
ASSUME MaxPendingAssumption == MaxPending \in Nat
ASSUME BatchLimitAssumption == BatchLimit \in Nat
ASSUME DiskAssumption == DiskCanFail \in BOOLEAN

VARIABLES
    entities,       \* svc.entities
    template,       \* svc.chunked: the replay template of a chunked entity
    job,            \* the RPC that holds svc.mu between two publications
    unsignalled,    \* subscribers whose push has queued but not signalled
    phase,          \* where each stream goroutine is
    replay,         \* the snapshot it has still to send
    batch,          \* the changes it took and has still to send
    pending,        \* sub.pending
    overflow,       \* sub.overflow
    notify,         \* whether the one-slot channel sub.notify is full
    cancelled,      \* the request context is done
    view            \* the scene its consumer has been told

storeVars  == <<entities, template, job>>
boxVars    == <<pending, overflow, notify>>
streamVars == <<phase, replay, batch, cancelled, view>>
vars       == <<storeVars, unsignalled, boxVars, streamVars>>

Phases == {"off", "replay", "take", "send", "park", "wait", "leaving"}
Idle == [op |-> "idle", left |-> 0, removed |-> {}]
Jobs ==
    {j \in [op: {"idle", "batch", "cascade"}, left: Nat, removed: SUBSET Ids] :
        j.op = "batch" => j.left > 0}

Registered == {s \in Subs : phase[s] # "off"}
MuIsFree == job = Idle /\ unsignalled = {}

(* What a subscriber that connects now is told about id: a chunked drawing *)
(* is rebuilt from its template, everything else is sent as stored.        *)
Rebuilt(id) ==
    /\ entities[id] # NoEntity
    /\ entities[id].kind = "drawing"
    /\ template[id] # NoEntity

ReplayOf(id) == IF Rebuilt(id) THEN template[id] ELSE entities[id]

TypeOK ==
    /\ entities \in Scenes
    /\ template \in Scenes
    /\ \A id \in Ids : template[id] # NoEntity => template[id].kind = "drawing"
    /\ job \in Jobs
    /\ unsignalled \subseteq Registered
    /\ phase \in [Subs -> Phases]
    /\ replay \in [Subs -> Scenes]
    /\ batch \in [Subs -> Seq(Messages)]
    /\ pending \in [Subs -> Seq(Messages)]
    /\ overflow \in [Subs -> BOOLEAN]
    /\ notify \in [Subs -> BOOLEAN]
    /\ cancelled \in [Subs -> BOOLEAN]
    /\ view \in [Subs -> Scenes]

Init ==
    /\ entities = EmptyScene
    /\ template = EmptyScene
    /\ job = Idle
    /\ unsignalled = {}
    /\ phase = [s \in Subs |-> "off"]
    /\ replay = [s \in Subs |-> EmptyScene]
    /\ batch = [s \in Subs |-> <<>>]
    /\ pending = [s \in Subs |-> <<>>]
    /\ overflow = [s \in Subs |-> FALSE]
    /\ notify = [s \in Subs |-> FALSE]
    /\ cancelled = [s \in Subs |-> FALSE]
    /\ view = [s \in Subs |-> EmptyScene]

-----------------------------------------------------------------------------
(* Publishing. *)

Accepting == {s \in Registered : ~overflow[s]}
Full == {s \in Accepting : Len(pending[s]) >= MaxPending}

\* A full mailbox drops the change instead of overflowing.
Publish_DropsWhenFull(m) ==
    /\ pending' = [s \in Subs |-> IF s \in Accepting \ Full THEN Append(pending[s], m)
                                  ELSE pending[s]]
    /\ unsignalled' = Accepting
    /\ UNCHANGED <<overflow, notify, streamVars>>

\* notifyEntityChange: push m to every subscriber. A full mailbox overflows
\* and drops its backlog.
Publish(m) ==
    /\ pending' = [s \in Subs |-> IF s \in Full THEN <<>>
                                  ELSE IF s \in Accepting THEN Append(pending[s], m)
                                  ELSE pending[s]]
    /\ overflow' = [s \in Subs |-> overflow[s] \/ s \in Full]
    /\ unsignalled' = Accepting
    /\ UNCHANGED <<notify, streamVars>>

Quiet == UNCHANGED <<unsignalled, boxVars, streamVars>>

\* The channel has no slot: the signal is lost unless the goroutine is in
\* its select.
Signal_Unbuffered(s) ==
    /\ s \in unsignalled
    /\ unsignalled' = unsignalled \ {s}
    /\ notify' = [notify EXCEPT ![s] = @ \/ phase[s] = "wait"]
    /\ UNCHANGED <<storeVars, pending, overflow, streamVars>>

\* The last step of a push: fill the one-slot channel unless it is full.
Signal(s) ==
    /\ s \in unsignalled
    /\ unsignalled' = unsignalled \ {s}
    /\ notify' = [notify EXCEPT ![s] = TRUE]
    /\ UNCHANGED <<storeVars, pending, overflow, streamVars>>

-----------------------------------------------------------------------------
(* RPCs that add and update. *)

\* addEntityLocked: upsert, register a chunk buffer when the drawing carries
\* a chunks descriptor, publish. A buffer already registered under the UUID
\* is replaced by a new one, and otherwise left where it is.
StoreEntity(id, e) ==
    /\ entities' = [entities EXCEPT ![id] = e]
    /\ template' = IF e.chunks THEN [template EXCEPT ![id] = e] ELSE template
    /\ Publish(Upsert(id, e))

\* addEntityLocked when newChunkedEntity fails: the entity is in the store,
\* nothing is registered and nothing is published.
StoreEntityWithoutBuffer(id, e) ==
    /\ DiskCanFail
    /\ e.chunks
    /\ entities' = [entities EXCEPT ![id] = e]
    /\ UNCHANGED template
    /\ Quiet

AddEntity(id, e) ==
    /\ MuIsFree
    /\ \/ StoreEntity(id, e)
       \/ StoreEntityWithoutBuffer(id, e)
    /\ UNCHANGED job

\* AddEntities validates the batch and takes the lock.
BeginAddEntities(n) ==
    /\ MuIsFree
    /\ job' = [Idle EXCEPT !.op = "batch", !.left = n]
    /\ UNCHANGED <<entities, template>>
    /\ Quiet

AddEntitiesNext(id, e) ==
    /\ job.op = "batch"
    /\ unsignalled = {}
    /\ \/ /\ StoreEntity(id, e)
          /\ job' = IF job.left = 1 THEN Idle ELSE [job EXCEPT !.left = @ - 1]
       \/ /\ StoreEntityWithoutBuffer(id, e)   \* the batch stops here
          /\ job' = Idle

(* Field masks. "pose" stands for the paths that replace displayed content *)
(* outside the shape and the metadata, "metadata" for the whole metadata   *)
(* message, relationships and chunks descriptor included, "shape" for      *)
(* physical_object. The empty mask replaces the entity.                    *)
Masks == SUBSET {"pose", "metadata", "shape"}

Merge(stored, incoming, mask) ==
    IF mask = {} THEN incoming
    ELSE [stored EXCEPT
            !.val    = IF mask \cap {"pose", "shape"} # {} THEN incoming.val ELSE @,
            !.rels   = IF "metadata" \in mask THEN incoming.rels ELSE @,
            !.chunks = IF "metadata" \in mask THEN incoming.chunks ELSE @]

\* syncChunkedTemplate: masks that select the shape are skipped.
SyncTemplate(id, incoming, mask) ==
    template' = IF template[id] = NoEntity \/ mask = {} \/ "shape" \in mask
                THEN template
                ELSE [template EXCEPT ![id] = Merge(@, incoming, mask)]

Updatable(id, e, mask) ==
    /\ entities[id] # NoEntity
    /\ entities[id].kind = e.kind
    /\ mask = {} => entities[id].frame = e.frame

\* The request is published instead of the merged entity.
UpdateEntity_PublishesRequest(id, e, mask) ==
    /\ MuIsFree
    /\ Updatable(id, e, mask)
    /\ ~(e.kind = "drawing" /\ template[id] # NoEntity /\ mask = {})
    /\ LET updated == Merge(entities[id], e, mask)
       IN  /\ entities' = [entities EXCEPT ![id] = updated]
           /\ IF e.kind = "drawing" THEN SyncTemplate(id, e, mask) ELSE UNCHANGED template
           /\ Publish(Upsert(id, e))
    /\ UNCHANGED job

UpdateEntity(id, e, mask) ==
    /\ MuIsFree
    /\ Updatable(id, e, mask)
    /\ ~(e.kind = "drawing" /\ template[id] # NoEntity /\ mask = {})
    /\ LET updated == Merge(entities[id], e, mask)
       IN  /\ entities' = [entities EXCEPT ![id] = updated]
           /\ IF e.kind = "drawing" THEN SyncTemplate(id, e, mask) ELSE UNCHANGED template
           /\ Publish(Upsert(id, updated))
    /\ UNCHANGED job

-----------------------------------------------------------------------------
(* Relationships. They live in the source's metadata; changing them        *)
(* publishes the source and leaves a chunk template alone.                 *)

PublishRels(source, rels) ==
    LET updated == [entities[source] EXCEPT !.rels = rels]
    IN  /\ entities' = [entities EXCEPT ![source] = updated]
        /\ Publish(Upsert(source, updated))

\* The target is not looked up.
CreateRelationship_Unchecked(source, target) ==
    /\ MuIsFree
    /\ source # target
    /\ source \in Present(entities)
    /\ PublishRels(source, entities[source].rels \cup {target})
    /\ UNCHANGED <<template, job>>

CreateRelationship(source, target) ==
    /\ MuIsFree
    /\ source # target
    /\ {source, target} \subseteq Present(entities)
    /\ PublishRels(source, entities[source].rels \cup {target})
    /\ UNCHANGED <<template, job>>

DeleteRelationship(source, target) ==
    /\ MuIsFree
    /\ source \in Present(entities)
    /\ target \in entities[source].rels
    /\ PublishRels(source, entities[source].rels \ {target})
    /\ UNCHANGED <<template, job>>

PointingAt(removed) ==
    {id \in Present(entities) : entities[id].rels \cap removed # {}}

\* cascadeRemoveRelationships, one source at a time in map order.
CascadeNext(source) ==
    /\ job.op = "cascade"
    /\ unsignalled = {}
    /\ source \in PointingAt(job.removed)
    /\ PublishRels(source, entities[source].rels \ job.removed)
    /\ UNCHANGED <<template, job>>

CascadeDone ==
    /\ job.op = "cascade"
    /\ unsignalled = {}
    /\ PointingAt(job.removed) = {}
    /\ job' = Idle
    /\ UNCHANGED <<entities, template>>
    /\ Quiet

-----------------------------------------------------------------------------
(* RPCs that remove. *)

\* Deletes every id of gone, with its chunk buffer if withBuffers.
Drop(gone, withBuffers) ==
    /\ entities' = [id \in Ids |-> IF id \in gone THEN NoEntity ELSE entities[id]]
    /\ template' = IF withBuffers
                   THEN [id \in Ids |-> IF id \in gone THEN NoEntity ELSE template[id]]
                   ELSE template

Cascade(gone) == job' = [Idle EXCEPT !.op = "cascade", !.removed = gone]

RemoveEntity(id) ==
    /\ MuIsFree
    /\ id \in Present(entities)
    /\ Drop({id}, TRUE)
    /\ Publish(Removal(id, entities[id].kind))
    /\ Cascade({id})

OfKind(kind) == {id \in Present(entities) : entities[id].kind = kind}

RemoveAllTransforms ==
    /\ MuIsFree
    /\ Drop(OfKind("transform"), FALSE)
    /\ Publish(Clear("transforms"))
    /\ Cascade(OfKind("transform"))

RemoveAllDrawings ==
    /\ MuIsFree
    /\ Drop(OfKind("drawing"), TRUE)
    /\ Publish(Clear("drawings"))
    /\ Cascade(OfKind("drawing"))

RemoveAll ==
    /\ MuIsFree
    /\ Drop(Present(entities), TRUE)
    /\ Publish(Clear("all"))
    /\ UNCHANGED job

-----------------------------------------------------------------------------
(* The stream goroutine (StreamEntityChanges). *)

\* Under svc.mu: register an empty mailbox and snapshot the store. A chunked
\* entity whose buffer cannot be read is left out of the snapshot.
Connect(s) ==
    /\ phase[s] = "off"
    /\ MuIsFree
    /\ \E unread \in SUBSET {id \in Ids : DiskCanFail /\ Rebuilt(id)} :
          replay' = [replay EXCEPT ![s] =
                        [id \in Ids |-> IF id \in unread THEN NoEntity ELSE ReplayOf(id)]]
    /\ phase' = [phase EXCEPT ![s] = "replay"]
    /\ UNCHANGED <<storeVars, unsignalled, boxVars, batch, cancelled, view>>

Tell(s, m) == view' = [view EXCEPT ![s] = Apply(@, m)]

SendReplay(s, id) ==
    /\ phase[s] = "replay"
    /\ replay[s][id] # NoEntity
    /\ Tell(s, Upsert(id, replay[s][id]))
    /\ replay' = [replay EXCEPT ![s][id] = NoEntity]
    /\ UNCHANGED <<storeVars, unsignalled, boxVars, phase, batch, cancelled>>

ReplayDone(s) ==
    /\ phase[s] = "replay"
    /\ replay[s] = EmptyScene
    /\ phase' = [phase EXCEPT ![s] = "take"]
    /\ UNCHANGED <<storeVars, unsignalled, boxVars, replay, batch, cancelled, view>>

\* sub.take: swap the backlog out under sub.mu. An overflow ends the stream
\* with ResourceExhausted.
Take(s) ==
    /\ phase[s] = "take"
    /\ phase' = [phase EXCEPT ![s] = IF overflow[s] THEN "leaving"
                                     ELSE IF pending[s] # <<>> THEN "send" ELSE "park"]
    /\ batch' = [batch EXCEPT ![s] = pending[s]]
    /\ pending' = [pending EXCEPT ![s] = <<>>]
    /\ UNCHANGED <<storeVars, unsignalled, overflow, notify, replay, cancelled, view>>

Send(s) ==
    /\ phase[s] = "send"
    /\ Tell(s, Head(batch[s]))
    /\ batch' = [batch EXCEPT ![s] = Tail(@)]
    /\ phase' = [phase EXCEPT ![s] = IF Len(batch[s]) = 1 THEN "take" ELSE "send"]
    /\ UNCHANGED <<storeVars, unsignalled, boxVars, replay, cancelled>>

\* The goroutine reaches its select.
Park(s) ==
    /\ phase[s] = "park"
    /\ phase' = [phase EXCEPT ![s] = "wait"]
    /\ UNCHANGED <<storeVars, unsignalled, boxVars, replay, batch, cancelled, view>>

Wake(s) ==
    /\ phase[s] = "wait"
    /\ notify[s]
    /\ notify' = [notify EXCEPT ![s] = FALSE]
    /\ phase' = [phase EXCEPT ![s] = "take"]
    /\ UNCHANGED <<storeVars, unsignalled, pending, overflow, replay, batch, cancelled, view>>

\* The client goes away: the select sees ctx.Done, and a Send may fail.
Cancel(s) ==
    /\ phase[s] \notin {"off", "leaving"}
    /\ ~cancelled[s]
    /\ cancelled' = [cancelled EXCEPT ![s] = TRUE]
    /\ UNCHANGED <<storeVars, unsignalled, boxVars, phase, replay, batch, view>>

StopStream(s) ==
    /\ cancelled[s]
    /\ \/ phase[s] = "wait"
       \/ phase[s] = "send"
       \/ phase[s] = "replay" /\ replay[s] # EmptyScene
    /\ phase' = [phase EXCEPT ![s] = "leaving"]
    /\ UNCHANGED <<storeVars, unsignalled, boxVars, replay, batch, cancelled, view>>

\* removeEntitySub without svc.mu.
Leave_WithoutLock(s) ==
    /\ phase[s] = "leaving"
    /\ phase' = [phase EXCEPT ![s] = "off"]
    /\ replay' = [replay EXCEPT ![s] = EmptyScene]
    /\ batch' = [batch EXCEPT ![s] = <<>>]
    /\ pending' = [pending EXCEPT ![s] = <<>>]
    /\ overflow' = [overflow EXCEPT ![s] = FALSE]
    /\ notify' = [notify EXCEPT ![s] = FALSE]
    /\ cancelled' = [cancelled EXCEPT ![s] = FALSE]
    /\ view' = [view EXCEPT ![s] = EmptyScene]
    /\ UNCHANGED <<storeVars, unsignalled>>

\* The deferred removeEntitySub, under svc.mu. The view is dropped with the
\* stream: a consumer clears its scene before it connects again.
Leave(s) ==
    /\ phase[s] = "leaving"
    /\ MuIsFree
    /\ phase' = [phase EXCEPT ![s] = "off"]
    /\ replay' = [replay EXCEPT ![s] = EmptyScene]
    /\ batch' = [batch EXCEPT ![s] = <<>>]
    /\ pending' = [pending EXCEPT ![s] = <<>>]
    /\ overflow' = [overflow EXCEPT ![s] = FALSE]
    /\ notify' = [notify EXCEPT ![s] = FALSE]
    /\ cancelled' = [cancelled EXCEPT ![s] = FALSE]
    /\ view' = [view EXCEPT ![s] = EmptyScene]
    /\ UNCHANGED <<storeVars, unsignalled>>

-----------------------------------------------------------------------------
Rpc ==
    \/ \E id \in Ids, e \in Payloads : AddEntity(id, e) \/ AddEntitiesNext(id, e)
    \/ \E n \in 1 .. BatchLimit : BeginAddEntities(n)
    \/ \E id \in Ids, e \in Payloads, mask \in Masks : UpdateEntity(id, e, mask)
    \/ \E source, target \in Ids :
          CreateRelationship(source, target) \/ DeleteRelationship(source, target)
    \/ \E source \in Ids : CascadeNext(source)
    \/ CascadeDone
    \/ \E id \in Ids : RemoveEntity(id)
    \/ RemoveAllTransforms
    \/ RemoveAllDrawings
    \/ RemoveAll

Stream(s) ==
    \/ \E id \in Ids : SendReplay(s, id)
    \/ ReplayDone(s)
    \/ Take(s)
    \/ Send(s)
    \/ Park(s)
    \/ Wake(s)
    \/ StopStream(s)
    \/ Leave(s)

Next ==
    \/ Rpc
    \/ \E s \in Subs : Signal(s) \/ Connect(s) \/ Cancel(s) \/ Stream(s)

Spec == Init /\ [][Next]_vars

(* Goroutines that can run do run, the Go scheduler being preemptive, and a *)
(* client that stays connected reads its stream. Whoever holds svc.mu gets  *)
(* on with it, and sync.RWMutex does not starve a waiting writer, hence the *)
(* strong fairness of the one stream step that needs the lock. Nothing      *)
(* obliges clients to connect, to leave or to make requests.                *)
FairSpec ==
    /\ Spec
    /\ WF_vars(CascadeDone \/ \E source \in Ids : CascadeNext(source))
    /\ WF_vars(\E id \in Ids, e \in Payloads : AddEntitiesNext(id, e))
    /\ \A s \in Subs :
          /\ WF_vars(Signal(s))
          /\ WF_vars(Stream(s))
          /\ SF_vars(Leave(s))

-----------------------------------------------------------------------------
(* Properties. *)

Agrees(scene, id) == scene[id] \in {entities[id], ReplayOf(id)}

CaughtUp(s) == phase[s] \in {"take", "park", "wait"} /\ pending[s] = <<>> /\ ~overflow[s]

(* A subscriber with nothing left to receive holds, for every UUID, what   *)
(* the store holds or what a fresh replay would give it, whatever RPCs ran *)
(* between its snapshot, its pushes and its takes. In particular no entity *)
(* is missing and no ghost is left (the promise in entity_subscriber.go    *)
(* that no change is ever dropped).                                        *)
CaughtUpHoldsStore ==
    \A s \in Subs : CaughtUp(s) => \A id \in Ids : Agrees(view[s], id)

(* The replay still to send, the changes taken and the changes queued lead *)
(* from what the consumer has been told to what the store holds, at every  *)
(* point of a stream's life that will not end in a disconnect: snapshot    *)
(* and mailbox of StreamEntityChanges leave no gap between them.           *)
Leads(from, changes, to) ==
    \E trail \in [0 .. Len(changes) -> Scenes] :
        /\ trail[0] = from
        /\ trail[Len(changes)] = to
        /\ \A i \in 1 .. Len(changes) : trail[i] = Apply(trail[i - 1], changes[i])

Overlay(s) ==
    [id \in Ids |-> IF replay[s][id] # NoEntity THEN replay[s][id] ELSE view[s][id]]

InStep(s) ==
    \E sent, end \in Scenes :
        /\ Leads(Overlay(s), batch[s], sent)
        /\ Leads(sent, pending[s], end)
        /\ \A id \in Ids : Agrees(end, id)

AllInStep ==
    \A s \in Registered : ~overflow[s] /\ phase[s] # "leaving" => InStep(s)

(* A stream goroutine at or near its select with changes queued, or with   *)
(* an overflow to report, has a wake-up stored or on its way (the          *)
(* edge-triggered one-slot channel of entitySubscriber).                   *)
NoLostWakeup ==
    \A s \in Subs :
        phase[s] \in {"park", "wait"} /\ (pending[s] # <<>> \/ overflow[s])
            => notify[s] \/ s \in unsignalled

(* When no request brings relationships of its own, a relationship never   *)
(* outlives its target: with svc.mu free, every target exists              *)
(* (CreateRelationship's check and the cascade of every removal).          *)
NoDanglingRelationship ==
    MuIsFree => \A id \in Present(entities) : entities[id].rels \subseteq Present(entities)

(* Queued changes are taken, and an overflowed subscriber is disconnected  *)
(* so that it can resync: neither state lasts (the stream loop).           *)
BacklogDrains ==
    \A s \in Subs :
        (pending[s] # <<>> \/ overflow[s]) ~> (pending[s] = <<>> /\ ~overflow[s])

-----------------------------------------------------------------------------
(* What the code's comments say that the code does not do. *)

(* A subscriber that connects learns the relationships an entity has now   *)
(* (syncChunkedTemplate: a change of the stored entity alone would be      *)
(* invisible to anyone connecting later).                                  *)
ReplayKeepsRelationships ==
    \A id \in Present(entities) : ReplayOf(id).rels = entities[id].rels

(* An entity drawn whole over a chunked drawing is replayed as drawn       *)
(* (AddEntity replaces any existing entity with the same ID).              *)
PlainDrawingReplayedAsStored ==
    \A id \in Present(entities) : ~entities[id].chunks => ReplayOf(id) = entities[id]

=============================================================================
