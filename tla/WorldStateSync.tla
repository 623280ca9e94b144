-------------------------- MODULE WorldStateSync --------------------------
(***************************************************************************)
(* The mirror of one world_state_store in the browser's ECS world          *)
(* (Machine/worldStateSync.ts): a session with its change stream and its   *)
(* reads, the events that wait while a read runs, the uuids to fetch on    *)
(* their own, the one retry timer, rebuilds of the store, and the loader   *)
(* that pulls the rest of a chunked cloud (lib/chunking.ts).               *)
(*                                                                         *)
(* The functions of the sync call each other, so its state is one record   *)
(* `sync` and each function is an operator from the record to the record.  *)
(* The store, its stream and the requests it answers are the environment.  *)
(* Nothing of the client runs between two events of one flush: `batch`     *)
(* holds the events still to apply, and guards every action of the client. *)
(***************************************************************************)
EXTENDS Naturals, Sequences, FiniteSets

CONSTANTS
    UUIDs,          \* the transforms a store may hold
    Transforms,     \* what it may hold for one of them
    Absent,         \* not in the store, not drawn, no read, no session
    MaxChanges,     \* changes of the store within one behaviour
    MaxInstances,   \* instances of the store, rebuilds included
    MaxFailures,    \* reads and chunk pulls that fail
    MaxCuts         \* streams cut and clients lost or replaced

Kinds == {"box", "cloud"}
Poses == {0, 1}
Bodies == {0, 1}
Colors == {0, 1, 2}     \* 0: no color field in the metadata
Names == {"n1", "n2"}

TransformType ==
    [name : Names, kind : Kinds, pose : Poses, body : Bodies,
     colors : Colors, chunks : BOOLEAN]

ASSUME TransformsAssumption ==
    /\ Transforms \subseteq TransformType
    /\ Absent \notin TransformType
    /\ \A t \in Transforms : t.chunks => t.kind = "cloud"
ASSUME BoundsAssumption ==
    /\ MaxChanges \in Nat /\ MaxFailures \in Nat /\ MaxCuts \in Nat
    /\ MaxInstances \in Nat \ {0}

VARIABLES
    store,      \* what the store holds, by uuid
    instance,   \* which instance of the store answers
    sync,       \* the state of createWorldStateSync and of its session
    batch,      \* the events a flush has taken and not applied yet
    missed,     \* changes the stream did not carry and no read has covered
    untold,     \* rebuilt with no generation known, and no stream end to tell
    spent       \* changes, failures and cuts so far

vars == <<store, instance, sync, batch, missed, untold, spent>>

---------------------------------------------------------------------------
(* The drawing of one transform.                                           *)

\* The metadata fields a transform carries.
Fields(t) == (IF t.colors = 0 THEN {} ELSE {"colors"})
                \cup (IF t.chunks THEN {"chunks"} ELSE {})

Fingerprint(t) == [colors |-> t.colors, chunks |-> t.chunks]

\* The inline points kept to compare a later read with.
SourceOf(t) == IF t.kind = "cloud" /\ ~t.chunks THEN {t.body} ELSE {}

\* An entity as spawnEntity draws it from instance `i`: `known`, `print` and
\* `source` are the three caches kept beside it, `head` the instance its
\* geometry came from, `tail` the one the rest of its chunks came from, `pull`
\* its chunk loader. `parsed`: a worker has parsed the first chunk, so there is
\* a geometry to write the others into. Nothing else waits for the worker, and
\* what comes whole is drawn as parsed.
Spawned(t, i) ==
    [name |-> t.name, kind |-> t.kind, pose |-> t.pose, body |-> t.body,
     colors |-> t.colors, known |-> Fields(t), print |-> {},
     source |-> SourceOf(t), head |-> i, tail |-> 0, parsed |-> ~t.chunks,
     pull |-> IF t.chunks THEN "running" ELSE "none"]

\* updateMetadata sets colors and never clears them.
Recolored_Adds(d, t) == d.colors + t.colors
Recolored(d, t) == IF t.colors = 0 THEN d.colors ELSE t.colors

Regeometry(d, t, i) ==
    [d EXCEPT !.kind = t.kind, !.body = t.body, !.source = SourceOf(t),
              !.head = i, !.tail = 0]

Remetadata(d, t) ==
    [d EXCEPT !.known = Fields(t), !.colors = Recolored(d, t), !.print = {}]

\* The part of updateEntity that applies the named fields in place.
Updated(d, t, paths, i) ==
    LET moved == IF "pose" \in paths THEN [d EXCEPT !.pose = t.pose] ELSE d
        shaped == IF "body" \in paths THEN Regeometry(moved, t, i) ELSE moved
    IN IF "meta" \in paths THEN Remetadata(shaped, t) ELSE shaped

\* refreshEntity: a chunked cloud only moves, anything else changes where
\* the caches say it differs.
Refreshed(d, t, i) ==
    LET moved == [d EXCEPT !.pose = t.pose]
        shaped == IF SourceOf(t) # {} /\ d.source = SourceOf(t)
                  THEN moved ELSE Regeometry(moved, t, i)
    IN IF t.kind = "cloud" /\ t.chunks THEN moved
       ELSE IF shaped.print = {Fingerprint(t)} THEN shaped
       ELSE [Remetadata(shaped, t) EXCEPT !.print = {Fingerprint(t)}]

MustRespawn_KeepsClouds(d, t, rebuild) ==
    \/ d.kind # t.kind
    \/ d.name # t.name
    \/ ("chunks" \in d.known) # t.chunks
    \/ d.known \ Fields(t) # {}
MustRespawn(d, t, rebuild) ==
    \/ rebuild /\ t.kind = "cloud"
    \/ d.kind # t.kind
    \/ d.name # t.name
    \/ ("chunks" \in d.known) # t.chunks
    \/ d.known \ Fields(t) # {}

\* applyRead for one transform `t` read from instance `i`. What a read
\* spawns has its metadata print recorded, unless it is a chunked cloud.
Read(d, t, i, rebuild) ==
    IF d # Absent /\ ~MustRespawn(d, t, rebuild) THEN Refreshed(d, t, i)
    ELSE [Spawned(t, i) EXCEPT !.print = IF t.chunks THEN {} ELSE {Fingerprint(t)}]

---------------------------------------------------------------------------
(* The session and its reads.                                              *)

\* A session is one open stream and everything read against it: closing
\* drops its reads, its buffered events and what its stream still carries.
\* `stream` is the far end: opening (asked for, the store not subscribed
\* yet), live, broken (its instance is gone) or closed.
NewSession ==
    [isStreamOpen |-> TRUE, isSnapshotOwed |-> TRUE, read |-> Absent,
     stream |-> "opening", wire |-> <<>>]

\* A fetch has one answer per uuid: not asked, not answered, failed, or the
\* transform and the instance that answered.
Unasked == [uuid \in UUIDs |-> [state |-> "unasked"]]
Asked(uuids) ==
    [uuid \in UUIDs |-> [state |-> IF uuid \in uuids THEN "sent" ELSE "unasked"]]

SnapshotRead(s) ==
    [isSnapshot |-> TRUE, listed |-> FALSE, uuids |-> {}, got |-> Unasked,
     isRebuild |-> s.rebuildSeq # s.drawnRebuildSeq, seq |-> s.rebuildSeq]
DirtyRead(s) ==
    [isSnapshot |-> FALSE, listed |-> TRUE, uuids |-> s.dirtyUUIDs,
     got |-> Asked(s.dirtyUUIDs), isRebuild |-> FALSE, seq |-> s.rebuildSeq]

Reading(s) == s.session # Absent /\ s.session.read # Absent

\* The events that wait: all of them for a snapshot, those of its own uuids
\* for a fetch of single transforms.
HoldsAll(s) == Reading(s) /\ s.session.read.isSnapshot
Held_SnapshotOnly(s) == IF HoldsAll(s) THEN UUIDs ELSE {}
Held(s) ==
    IF ~Reading(s) THEN {}
    ELSE IF s.session.read.isSnapshot THEN UUIDs ELSE s.session.read.uuids

close(s) ==
    [s EXCEPT !.session = Absent, !.flush = FALSE, !.pendingEvents = <<>>,
              !.retryTimer = FALSE, !.dirtyUUIDs = {}]

\* chunkLoader.resume and chunkLoader.stop, for every cloud.
Resumed(d) ==
    IF d # Absent /\ d.pull = "suspended" THEN [d EXCEPT !.pull = "running"] ELSE d
Stopped(d) ==
    IF d # Absent /\ d.kind = "cloud" THEN [d EXCEPT !.pull = "none"] ELSE d

\* A pending rebuild keeps its clouds' pulls stopped, anything else is a
\* reconnect to the same instance. The new session reads at once.
open(s) ==
    LET closed == close(s)
    IN IF ~s.client THEN closed
       ELSE [closed EXCEPT
               !.session = [NewSession EXCEPT !.read = SnapshotRead(s)],
               !.entities = IF s.rebuildSeq # s.drawnRebuildSeq THEN @
                            ELSE [uuid \in UUIDs |-> Resumed(@[uuid])]]

\* The next thing owed, if nothing is in flight.
resync(s) ==
    IF ~s.client THEN s
    ELSE IF s.session = Absent \/ ~s.session.isStreamOpen THEN open(s)
    ELSE IF s.session.read # Absent THEN s
    ELSE IF s.session.isSnapshotOwed THEN [s EXCEPT !.session.read = SnapshotRead(s)]
    ELSE IF s.dirtyUUIDs = {} THEN s
    ELSE [s EXCEPT !.session.read = DirtyRead(s), !.dirtyUUIDs = {}]

markDirty_NeverFetches(s, uuid) == [s EXCEPT !.dirtyUUIDs = @ \cup {uuid}]
markDirty(s, uuid) ==
    LET owing == [s EXCEPT !.dirtyUUIDs = @ \cup {uuid}]
    IN IF s.retryTimer THEN owing ELSE resync(owing)

requestRebuild(s) ==
    [s EXCEPT !.rebuildSeq = @ + 1,
              !.entities = [uuid \in UUIDs |-> Stopped(@[uuid])]]

scheduleFlush(s) == IF HoldsAll(s) THEN s ELSE [s EXCEPT !.flush = TRUE]

\* What follows a read, whatever came of it: its events may flush, and what
\* is owed with no retry waiting is done now.
finally_NoFlush(s) ==
    LET free == [s EXCEPT !.session.read = Absent]
    IN IF free.retryTimer THEN free ELSE resync(free)
finally(s) ==
    LET free == [s EXCEPT !.session.read = Absent]
        flushing == IF free.pendingEvents # <<>> THEN scheduleFlush(free) ELSE free
    IN IF flushing.retryTimer THEN flushing ELSE resync(flushing)

DrawnType ==
    [name : Names, kind : Kinds, pose : Poses, body : Bodies, colors : Colors,
     known : SUBSET {"colors", "chunks"},
     print : SUBSET [colors : Colors, chunks : BOOLEAN],
     source : SUBSET Bodies, head : 1..MaxInstances, tail : 0..MaxInstances,
     parsed : BOOLEAN, pull : {"none", "running", "suspended", "given up"}]
EventType ==
    [type : {"ADDED", "REMOVED", "UPDATED"}, uuid : UUIDs, t : TransformType,
     instance : 1..MaxInstances, paths : SUBSET {"pose", "body", "meta"}]
AnswerType ==
    [state : {"unasked", "sent", "failed"}]
        \cup [state : {"loaded"}, t : TransformType, instance : 1..MaxInstances]
\* Only a snapshot has a list to wait for.
ReadType ==
    {r \in [isSnapshot : BOOLEAN, listed : BOOLEAN, uuids : SUBSET UUIDs,
            got : [UUIDs -> AnswerType], isRebuild : BOOLEAN, seq : Nat] :
        r.isSnapshot \/ r.listed}
SessionType ==
    [isStreamOpen : BOOLEAN, isSnapshotOwed : BOOLEAN, read : ReadType \cup {Absent},
     stream : {"opening", "live", "broken", "closed"}, wire : Seq(EventType)]
SyncType ==
    [client : BOOLEAN, lastGeneration : 0..MaxInstances,
     session : SessionType \cup {Absent}, rebuildSeq : Nat, drawnRebuildSeq : Nat,
     retryTimer : BOOLEAN, dirtyUUIDs : SUBSET UUIDs,
     entities : [UUIDs -> DrawnType \cup {Absent}],
     pendingEvents : Seq(EventType), flush : BOOLEAN]

ASSUME AbsentAssumption == Absent \notin DrawnType \cup ReadType \cup SessionType

TypeOK ==
    /\ store \in [UUIDs -> TransformType \cup {Absent}]
    /\ instance \in 1..MaxInstances
    /\ sync \in SyncType
    /\ batch \in Seq(EventType)
    /\ missed \in SUBSET UUIDs
    /\ untold \in BOOLEAN
    /\ spent \in [changes : Nat, failures : Nat, cuts : Nat]

\* Before the first call of update: nothing drawn, no client. The store may
\* already hold anything.
Init ==
    /\ store \in [UUIDs -> Transforms \cup {Absent}]
    /\ instance = 1
    /\ sync = [client |-> FALSE, lastGeneration |-> 0, session |-> Absent,
               rebuildSeq |-> 0, drawnRebuildSeq |-> 0, retryTimer |-> FALSE,
               dirtyUUIDs |-> {}, entities |-> [uuid \in UUIDs |-> Absent],
               pendingEvents |-> <<>>, flush |-> FALSE]
    /\ batch = <<>>
    /\ missed = {}
    /\ untold = FALSE
    /\ spent = [changes |-> 0, failures |-> 0, cuts |-> 0]

---------------------------------------------------------------------------
(* The store.                                                              *)

StreamIs(state) == sync.session # Absent /\ sync.session.stream = state


\* A change goes to the stream of the session once the store has subscribed
\* it. One that happens before is missed, unless a read still covers it.
Publish(event) ==
    LET live == StreamIs("live")
    IN /\ store' = [store EXCEPT ![event.uuid] =
                       IF event.type = "REMOVED" THEN Absent ELSE event.t]
       /\ sync' = IF live THEN [sync EXCEPT !.session.wire = Append(@, event)]
                  ELSE sync
       /\ missed' = IF live THEN missed ELSE missed \cup {event.uuid}
       /\ spent.changes < MaxChanges
       /\ spent' = [spent EXCEPT !.changes = @ + 1]
       /\ UNCHANGED <<instance, batch, untold>>

Event(type, uuid, t, paths) ==
    [type |-> type, uuid |-> uuid, t |-> t, instance |-> instance, paths |-> paths]

StoreAdds(uuid) ==
    /\ store[uuid] = Absent
    /\ \E t \in Transforms : Publish(Event("ADDED", uuid, t, {}))

StoreRemoves(uuid) ==
    /\ store[uuid] # Absent
    /\ Publish(Event("REMOVED", uuid, store[uuid], {}))

\* An update never renames, and never starts or stops sending in chunks: the
\* store removes and adds for those.
Changed(old, new) ==
    (IF old.pose # new.pose THEN {"pose"} ELSE {})
        \cup (IF <<old.kind, old.body>> # <<new.kind, new.body>> THEN {"body"} ELSE {})
        \cup (IF old.colors # new.colors THEN {"meta"} ELSE {})

StoreUpdates(uuid) ==
    /\ store[uuid] # Absent
    /\ \E t \in Transforms :
        /\ t # store[uuid]
        /\ t.name = store[uuid].name /\ t.chunks = store[uuid].chunks
        /\ Publish(Event("UPDATED", uuid, t, Changed(store[uuid], t)))

\* The store is rebuilt under the same name: other contents, and the streams
\* of the old instance are gone. One not subscribed yet may reach the new one.
StoreRebuilt ==
    /\ instance < MaxInstances
    /\ instance' = instance + 1
    /\ store' \in [UUIDs -> Transforms \cup {Absent}]
    /\ \/ /\ StreamIs("opening") \/ StreamIs("live")
          /\ sync' = [sync EXCEPT !.session.stream = "broken"]
       \/ ~StreamIs("live") /\ UNCHANGED sync
    /\ missed' = UUIDs
    /\ untold' = (untold \/ sync.lastGeneration = 0)
    /\ UNCHANGED <<batch, spent>>

---------------------------------------------------------------------------
(* What the machine reports.                                               *)

Idle == batch = <<>>    \* the client's thread is free

\* One call of update: a client and the generation the status names (0: no
\* status). `isNewClient` is a client other than the one known.
Update(client, isNewClient, generation) ==
    LET isRebuild == /\ generation # 0 /\ sync.lastGeneration # 0
                     /\ generation # sync.lastGeneration
        told == [sync EXCEPT !.client = client, !.lastGeneration =
                    IF generation = 0 THEN @ ELSE generation]
        owing == IF isRebuild THEN requestRebuild(told) ELSE told
    IN /\ sync' = IF ~client THEN close(owing)
                  ELSE IF isRebuild \/ isNewClient THEN open(owing) ELSE owing
       /\ UNCHANGED <<store, instance, batch, missed, untold>>

StatusReported ==
    /\ Idle /\ sync.client /\ sync.lastGeneration # instance
    /\ Update(TRUE, FALSE, instance)
    /\ UNCHANGED spent

ClientArrives ==
    /\ Idle /\ ~sync.client
    /\ \E generation \in {0, instance} : Update(TRUE, TRUE, generation)
    /\ UNCHANGED spent

Cut == /\ spent.cuts < MaxCuts
       /\ spent' = [spent EXCEPT !.cuts = @ + 1]

ClientReplaced ==
    /\ Idle /\ sync.client /\ Cut
    /\ \E generation \in {0, instance} : Update(TRUE, TRUE, generation)

ClientLost ==
    /\ Idle /\ sync.client /\ Cut
    /\ \E generation \in {0, instance} : Update(FALSE, TRUE, generation)

---------------------------------------------------------------------------
(* The stream, its flush, and the retry timer.                             *)

StoreSubscribes ==
    /\ StreamIs("opening")
    /\ sync' = [sync EXCEPT !.session.stream = "live"]
    /\ UNCHANGED <<store, instance, batch, missed, untold, spent>>

EventArrives ==
    /\ Idle /\ sync.session # Absent /\ sync.session.wire # <<>>
    /\ sync' = scheduleFlush([sync EXCEPT
                   !.session.wire = Tail(@),
                   !.pendingEvents = Append(@, Head(sync.session.wire))])
    /\ UNCHANGED <<store, instance, batch, missed, untold, spent>>

\* The stream of a gone instance ends, and any stream may be cut. Without a
\* generation its end may be a rebuild.
StreamEnds ==
    /\ Idle /\ sync.session # Absent /\ sync.session.isStreamOpen
    /\ ~StreamIs("closed")
    /\ IF StreamIs("broken") THEN UNCHANGED spent ELSE Cut
    /\ LET ended == [sync EXCEPT !.session.isStreamOpen = FALSE,
                                 !.session.stream = "closed",
                                 !.session.wire = <<>>, !.retryTimer = TRUE]
       IN sync' = IF ended.lastGeneration = 0 THEN requestRebuild(ended) ELSE ended
    /\ untold' = (untold /\ sync.lastGeneration # 0)
    /\ UNCHANGED <<store, instance, batch, missed>>

\* A store that answers Unimplemented: the stream never comes, and the session
\* stays open for snapshots.
StreamRefused ==
    /\ Idle /\ StreamIs("opening")
    /\ sync' = [sync EXCEPT !.session.stream = "closed"]
    /\ UNCHANGED <<store, instance, batch, missed, untold, spent>>

\* The events about the uuids, in their order: the k-th of those kept.
EventsOf(events, uuids) ==
    LET kept == {i \in DOMAIN events : events[i].uuid \in uuids}
        place(k) == CHOOSE i \in kept : Cardinality({j \in kept : j <= i}) = k
    IN [k \in 1..Cardinality(kept) |-> events[place(k)]]

\* A flush that lands during a snapshot applies nothing, one during a fetch
\* leaves the events of the fetched uuids.
Flush ==
    /\ Idle /\ sync.flush
    /\ IF HoldsAll(sync) THEN /\ sync' = [sync EXCEPT !.flush = FALSE]
                              /\ UNCHANGED batch
       ELSE /\ batch' = EventsOf(sync.pendingEvents, UUIDs \ Held(sync))
            /\ sync' = [sync EXCEPT !.flush = FALSE,
                                    !.pendingEvents = EventsOf(@, Held(sync))]
    /\ UNCHANGED <<store, instance, missed, untold, spent>>

\* applyEvents, one event of the batch at a time. A chunked cloud whose
\* points change, and an update of what is not drawn, is fetched whole.
Removed(s, uuid) ==
    [s EXCEPT !.dirtyUUIDs = @ \ {uuid}, !.entities[uuid] = Absent]

ApplyEvent ==
    /\ batch # <<>>
    /\ batch' = Tail(batch)
    /\ LET e == Head(batch)
           d == sync.entities[e.uuid]
           respawns == d # Absent /\ "body" \in e.paths /\ "chunks" \in d.known
       IN sync' = CASE e.type = "ADDED" ->
                         IF d # Absent THEN sync
                         ELSE [sync EXCEPT !.entities[e.uuid] = Spawned(e.t, e.instance)]
                    [] e.type = "REMOVED" -> Removed(sync, e.uuid)
                    [] e.type = "UPDATED" /\ d # Absent /\ ~respawns ->
                         [sync EXCEPT !.entities[e.uuid] = Updated(d, e.t, e.paths, e.instance)]
                    [] OTHER ->
                         markDirty([sync EXCEPT !.entities[e.uuid] = Absent], e.uuid)
    /\ UNCHANGED <<store, instance, missed, untold, spent>>

RetryFires ==
    /\ Idle /\ sync.retryTimer
    /\ sync' = resync([sync EXCEPT !.retryTimer = FALSE])
    /\ UNCHANGED <<store, instance, batch, missed, untold, spent>>

---------------------------------------------------------------------------
(* The reads.                                                              *)

Fails == /\ spent.failures < MaxFailures
         /\ spent' = [spent EXCEPT !.failures = @ + 1]

\* The list of a snapshot: what it does not name is destroyed, what is named
\* is fetched, and what was owed on its own is part of it.
ListServed ==
    /\ Idle /\ Reading(sync) /\ ~sync.session.read.listed
    /\ LET listed == {uuid \in UUIDs : store[uuid] # Absent}
       IN sync' = [sync EXCEPT
              !.session.read = [@ EXCEPT !.listed = TRUE, !.uuids = listed,
                                         !.got = Asked(listed)],
              !.entities = [uuid \in UUIDs |-> IF uuid \in listed THEN @[uuid] ELSE Absent],
              !.dirtyUUIDs = {}]
    /\ missed' = {}
    /\ UNCHANGED <<store, instance, batch, untold, spent>>
ListFails ==
    /\ Idle /\ Reading(sync) /\ ~sync.session.read.listed /\ Fails
    /\ sync' = finally([sync EXCEPT !.retryTimer = TRUE])
    /\ UNCHANGED <<store, instance, batch, missed, untold>>

\* The store answers one getTransform. One it no longer holds fails.
GetServed(uuid) ==
    /\ Reading(sync) /\ sync.session.read.got[uuid].state = "sent"
    /\ sync' = [sync EXCEPT !.session.read.got[uuid] =
                   IF store[uuid] = Absent THEN [state |-> "failed"]
                   ELSE [state |-> "loaded", t |-> store[uuid], instance |-> instance]]
    /\ missed' = IF store[uuid] = Absent THEN missed ELSE missed \ {uuid}
    /\ UNCHANGED <<store, instance, batch, untold, spent>>

GetFails(uuid) ==
    /\ Reading(sync) /\ sync.session.read.got[uuid].state = "sent"
    /\ store[uuid] # Absent /\ Fails
    /\ sync' = [sync EXCEPT !.session.read.got[uuid] = [state |-> "failed"]]
    /\ UNCHANGED <<store, instance, batch, missed, untold>>

\* Every answer is in: what loaded is drawn, what failed is owed again, and
\* on a rebuild destroyed, as the old instance's.
Applied(s, read) ==
    [uuid \in UUIDs |->
        CASE read.got[uuid].state = "loaded" ->
               Read(s.entities[uuid], read.got[uuid].t, read.got[uuid].instance,
                    read.isRebuild)
          [] read.got[uuid].state = "failed" /\ read.isRebuild -> Absent
          [] OTHER -> s.entities[uuid]]

ReadFinishes ==
    /\ Idle /\ Reading(sync) /\ sync.session.read.listed
    /\ LET read == sync.session.read
           failed == {uuid \in UUIDs : read.got[uuid].state = "failed"}
           drawn == [sync EXCEPT
                       !.entities = Applied(sync, read),
                       !.dirtyUUIDs = @ \cup failed,
                       !.session.isSnapshotOwed = @ /\ ~read.isSnapshot,
                       !.drawnRebuildSeq = IF read.isSnapshot THEN read.seq ELSE @,
                       !.retryTimer = @ \/ failed # {}]
       IN /\ \A uuid \in UUIDs : read.got[uuid].state # "sent"
          /\ sync' = finally(drawn)
    /\ UNCHANGED <<store, instance, batch, missed, untold, spent>>

---------------------------------------------------------------------------
(* The chunk loader. A chunked cloud is read with its first chunk, which a *)
(* worker parses, and its loader pulls the rest through whatever client    *)
(* there is.                                                               *)

Pulling(uuid) == sync.entities[uuid] # Absent /\ sync.entities[uuid].pull = "running"
HoldsChunks(uuid) == store[uuid] \in {t \in Transforms : t.chunks}

ParseLands(uuid) ==
    /\ Idle /\ sync.entities[uuid] # Absent /\ ~sync.entities[uuid].parsed
    /\ sync' = [sync EXCEPT !.entities[uuid].parsed = TRUE]
    /\ UNCHANGED <<store, instance, batch, missed, untold, spent>>

\* A chunk that comes before the parse has nothing to be written into, and
\* the pull ends for good.
Extended(d) ==
    IF d.parsed THEN [d EXCEPT !.tail = instance, !.pull = "none"]
    ELSE [d EXCEPT !.pull = "given up"]

ChunkPulled(uuid) ==
    /\ Idle /\ Pulling(uuid) /\ sync.client
    /\ HoldsChunks(uuid)
    /\ sync' = [sync EXCEPT !.entities[uuid] = Extended(@)]
    /\ UNCHANGED <<store, instance, batch, missed, untold, spent>>

\* A pull that fails, or finds no client, parks until the next open.
PullParks(uuid) ==
    /\ Idle /\ Pulling(uuid)
    /\ \/ ~sync.client /\ UNCHANGED spent
       \/ sync.client /\ ~HoldsChunks(uuid) /\ UNCHANGED spent
       \/ sync.client /\ HoldsChunks(uuid) /\ Fails
    /\ sync' = [sync EXCEPT !.entities[uuid].pull = "suspended"]
    /\ UNCHANGED <<store, instance, batch, missed, untold>>

Next ==
    \/ \E uuid \in UUIDs : StoreAdds(uuid) \/ StoreRemoves(uuid) \/ StoreUpdates(uuid)
    \/ StoreRebuilt
    \/ StatusReported \/ ClientArrives \/ ClientReplaced \/ ClientLost
    \/ StoreSubscribes \/ EventArrives \/ StreamEnds \/ StreamRefused
    \/ Flush \/ ApplyEvent
    \/ RetryFires
    \/ ListServed \/ ListFails \/ ReadFinishes
    \/ \E uuid \in UUIDs : GetServed(uuid) \/ GetFails(uuid)
    \/ \E uuid \in UUIDs : ParseLands(uuid) \/ ChunkPulled(uuid) \/ PullParks(uuid)

Spec == Init /\ [][Next]_vars

\* What the code and the machine keep doing: the status is polled, the
\* stream and the requests answer, frames and timers run. Nothing makes a
\* lost client return, nothing makes the store change, and a parse may fail.
\* A frame comes
\* between a failed read and its retry, two seconds or more later, so a flush
\* that finds no read running is not put off for ever.
Fairness ==
    /\ WF_vars(StatusReported) /\ WF_vars(StoreSubscribes)
    /\ WF_vars(EventArrives) /\ WF_vars(Flush) /\ WF_vars(ApplyEvent)
    /\ SF_vars(Flush /\ ~Reading(sync))
    /\ WF_vars(StreamEnds /\ UNCHANGED spent) /\ WF_vars(RetryFires)
    /\ WF_vars(ListServed) /\ WF_vars(ReadFinishes)
    /\ \A uuid \in UUIDs : WF_vars(GetServed(uuid)) /\ WF_vars(ChunkPulled(uuid))

FairSpec == Spec /\ Fairness

---------------------------------------------------------------------------
(* Properties.                                                             *)

\* Nothing is under way and the store's stream is heard: no event on its way,
\* no read running or owed.
Quiet ==
    /\ Idle /\ sync.client /\ sync.session # Absent
    /\ sync.session.isStreamOpen /\ sync.session.stream = "live"
    /\ sync.session.wire = <<>> /\ sync.session.read = Absent
    /\ ~sync.session.isSnapshotOwed
    /\ sync.dirtyUUIDs = {} /\ sync.pendingEvents = <<>>

\* An entity shows a transform: the points of a chunked cloud are the loader's,
\* and a color field the store dropped is not cleared by an update.
Shows(d, t) ==
    /\ d # Absent
    /\ d.name = t.name /\ d.kind = t.kind /\ d.pose = t.pose
    /\ ("chunks" \in d.known) = t.chunks
    /\ ~t.chunks => /\ d.body = t.body
                    /\ t.colors # 0 => d.colors = t.colors

\* "What it draws must never be something the store no longer holds": once
\* nothing is under way, each uuid is drawn exactly as the store holds it,
\* whatever cuts, retries, rebuilds and held events came before. Only a
\* change that fell between the opening of the stream and its subscription,
\* after the read that could have covered it, may be missing.
MirrorsStore ==
    Quiet => \A uuid \in UUIDs \ missed :
        IF store[uuid] = Absent THEN sync.entities[uuid] = Absent
        ELSE Shows(sync.entities[uuid], store[uuid])

\* No debt without a driver: a stream that ended, a snapshot owed and a
\* transform to fetch each have a read in flight or the retry timer, and an
\* event that need not wait has a frame asked for.
DebtsAreDriven ==
    sync.client /\ Idle =>
        /\ sync.session # Absent
        /\ ~sync.session.isStreamOpen => sync.retryTimer
        /\ sync.session.isSnapshotOwed \/ sync.dirtyUUIDs # {}
              => Reading(sync) \/ sync.retryTimer
        /\ \A i \in DOMAIN sync.pendingEvents :
              sync.pendingEvents[i].uuid \in Held(sync) \/ sync.flush

\* "On a rebuild, a drawn cloud holds chunks from the old instance": once the
\* status names the instance that answers and nothing is under way, no point
\* of an older instance is drawn, in a cloud sent whole or in chunks, whichever
\* order the stream's end, the new client, the reads and the status came in.
\* Excepted is a rebuild that happens before any generation is known and that
\* no stream end tells of.
NoOldChunks ==
    Quiet /\ sync.lastGeneration = instance /\ ~untold =>
        \A uuid \in UUIDs :
            LET d == sync.entities[uuid]
            IN d # Absent /\ d.kind = "cloud" =>
                 d.head = instance /\ d.tail \in {0, instance}

\* The scene converges: once the faults are over and while there is a client,
\* every uuid is eventually drawn as the store holds it and every chunked
\* cloud has its last chunk, with no event left to trigger it. Excepted are a
\* pull that failed, which waits for the next session, and one that a chunk
\* reached before the parse, which nothing takes up again.
Converges ==
    <>[](sync.client => \A uuid \in UUIDs \ missed :
            IF store[uuid] = Absent THEN sync.entities[uuid] = Absent
            ELSE /\ Shows(sync.entities[uuid], store[uuid])
                 /\ store[uuid].chunks =>
                      \/ sync.entities[uuid].tail # 0
                      \/ sync.entities[uuid].pull \in {"suspended", "given up"})

\* "Restarts every pull that stopped short" (chunking.ts): the rest of a chunked
\* cloud is drawn, or its pull runs, waits for the next session, or was stopped
\* for a rebuild. A chunk that comes before the parse ends a pull for good.
EveryPullRestarts ==
    \A uuid \in UUIDs :
        sync.entities[uuid] # Absent => sync.entities[uuid].pull # "given up"

\* "Stops retrying a transform the stream removed": what is owed on its own is
\* held by the store, or its removal is still to be applied.
OwedIsHeld ==
    LET queued == sync.pendingEvents \o batch
                     \o (IF sync.session = Absent THEN <<>> ELSE sync.session.wire)
    IN \A uuid \in sync.dirtyUUIDs \ missed :
         \/ store[uuid] # Absent
         \/ \E i \in DOMAIN queued : queued[i].uuid = uuid /\ queued[i].type = "REMOVED"

=============================================================================
