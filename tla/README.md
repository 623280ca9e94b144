# Viam visualization: TLA+ models, checks and proofs

This directory holds the verification project for the visualizer: the Go draw
server and its client library, the browser that mirrors what they and a machine
hold into one scene, and the panels that edit, move and replay in that scene.

* `PROJECT.json` lists components, runs, mutants, the map from definitions to source lines, findings, hazards and theorems.
* Parse with SANY, check with TLC (`MC*.tla` with the `.cfg` of the run), prove with tlapm (`*Proofs.tla`).
* Paths below are relative to the repository; `lib/` stands for `src/lib/`.

## 1. The system

```
 Go program: client/api --> client/server (lifecycle, recording) --RPC--> DrawService
                                                                  push |     ^ chunks
                                                                       v     |
 machine: world_state_store --stream, reads--> worldStateSync     useDrawService
          frame system, poses                        \                /
          motion service <---- move panels ------->  ECS world, drawn by Three.js
 app:     part configs   <---- part config            /
 files:   motion plans   -----> replay panel --------'
```

| Component | State | Operations | What is hard | What makes it correct |
| --- | --- | --- | --- | --- |
| Entity store (`draw/draw_service.go`) | `entities`, `chunked`, under `svc.mu` | AddEntity, AddEntities, UpdateEntity, Create/DeleteRelationship, RemoveEntity, RemoveAll\* | several publications per lock hold; an entity stored twice (stored and as replay template); buffers that cannot be created | relationships never outlive targets; what is replayed is what is stored |
| Subscriber and stream (`entity_subscriber.go`, `StreamEntityChanges`) | `pending`, `overflow`, one-slot `notify`, the goroutine's replay and batch | push, signal, take, close; connect, send, park, wake, leave | signal after unlock, overflow, cancel at any point | nobody sleeps on queued changes; a caught-up consumer holds the store |
| Chunk buffers (`chunkedEntity`, `disk_buffer.go`) | bytes per draw, `chunkComplete`, a condition variable | create, append, close, GetEntityChunk | blocking reads against redraw, removal, cancellation | a pull of a drawing that arrived delivers it |
| Chunk sender (`chunker.go`, `DrainChunks`) | a channel of chunks | Next | failure half way | no holes |
| Server lifecycle (`client/server/server.go`) | the package's singletons under `mu`, the port, the temp dir | Start, Stop, GetClient with its attach | a Start that fails half way; a server of another process on the port; a goroutine that reads which server it serves after Stop | calls go to the server that runs; its chunks stay on disk |
| Recording (`recording.go`, `api/replay.go`) | an open file per client | Start/StopRecording, WrapUnary, Record, Replay | the lock is released between test and write; calls are written that no replay makes | a replayed recording draws the recorded scene or fails |
| Reconnect (`plugins/DrawService/reconnect.ts`) | delay, attempt | runWithReconnect | accept-and-drop servers; resync against failure | backoff only resets on data; work of the old attempt is aborted |
| Browser consumer (`plugins/DrawService`) | `pendingChanges`, two entity maps, `activeChunkPulls` | mergeEvent, mergeClear, frame flush, clearLocalState, pullChunks | any number of messages per frame; kind switches; pulls that outlive entities | what was told is what is shown; no ghosts |
| Relationships and hierarchy (`serverRelationships.ts`, `lib/ecs/hierarchy.ts`) | last-known targets, `PendingLinks`, `ChildOf`, `Orphan` | apply, forget, onAdd; setParent, destroyEntityTree, resolveOrphans | forward references; parents that come, go and are replaced | links equal relationships; nothing hangs below the wrong parent |
| World state store sync (`lib/components/Machine/worldStateSync.ts`) | session, held events, owed transforms, rebuild sequence, one retry timer | updateInput, resync, readSnapshot, readDirty, flush, chunk loader | reads against events against rebuilds; three caches beside an entity | at rest the scene is the store; every debt has a driver |
| Part config (`lib/hooks/usePartConfig.svelte.ts`) | query, edited copy, dirty mark, undo log | set, save, discard, select, undo, redo, drag | fetches and saves that overlap edits; the order of effects | a clean copy is the network's; one undo entry per drag |
| Frame edits (`lib/hooks/useFrames.svelte.ts`, `usePoses.svelte.ts`, `lib/editing`) | per frame an entity with baseline, live pose and staged edit; the machine's frames; the mode | merge and re-sync, poses, setPose, deleteFrame, createFrame, drag, undo, redo, save, discard, switch mode | one edit kept in two places, drawn from three poses that polls and saves write | what is staged is what a save writes; a save moves nothing; reports do not fight edits |
| Move panels (`plugins/MoveFrame`) | per panel goal, options, plan, preview; two owners | stage, plan, preview, execute, clear, close | answers after the panel or the goal changed; moves that outlive their panel | the plan offered is for what is shown; one move at a time |
| Motion plan replay (`plugins/MotionPlanReplayer`) | plans, snapshots by id, active index, player | upload, select, remove, play | reindexing under the player; uploads answered late | list, store, player and screen agree |
| IK inspection (`inspect-ik/`) | one result, pose sets, a path and its player | inspect, select, show, interpolate, exit | answers of abandoned inspections | what is drawn is of the plan and candidate shown |

Not modelled are listed in `PROJECT.json` with the reason: the scene metadata
stream (one value overwritten by the next in a mailbox type modelled already),
the desktop shell, snapshots and file loading, Go drawables, the user interface and the
generated code: data conversion, presentation or process plumbing.

## 2. The modules

| Module | What it is |
| --- | --- |
| `DrawEntities` | Entities, change messages, and what one message means for a consumer (`Apply`). Shared by server and browser. |
| `DrawService` | The store and its subscribers. |
| `DrawClient` | The browser consumer, its relationships and hierarchy, against any stream the service may produce. |
| `ChunkTransfer` | One chunked UUID end to end: sender, buffers, `GetEntityChunk`, pull, screen. |
| `GrowingPicture` | What a viewer is promised of a chunked drawing; `ChunkTransfer` implements it. |
| `DrawServer` | Start, Stop and lazy attach in one process, a server of another process, and the page's reconnect loop. |
| `DrawSession` | `DrawServer` composed with concurrent API calls and their recording. |
| `WorldStateSync` | The mirror of one world state store, with the store, its stream, its reads and its rebuilds. |
| `PartConfig` | The part config in the standalone app and its undo history: state and operations. |
| `FrameEdits` | The frames of a part in the scene and their staged edits, over an instance of `PartConfig`. |
| `TrajectoryPlayer` | Playback of anything indexed by a step: operators used by the next three. |
| `MotionPlanReplayer`, `IKInspection` | The plan list and the inspection. |
| `ReplayPanel` | The panel that composes the two. |
| `MovePanels` | The move panels, their two owners, plan requests and moves. |
| `MC*` | Values for TLC. |
| `DrawServiceProofs`, `DrawClientProofs`, `ChunkTransferProofs`, `DrawSessionProofs` (of `DrawServer` too), `WorldStateSyncProofs`, `FrameEditsProofs` (of `PartConfig` too), `MovePanelsProofs`, `ReplayPanelProofs` (of its parts and the player too) | Theorems and proofs, one module per specification. |

An operator `X_Something` is a bug that might have been made in `X`; it is part
of no specification and only shows that a property notices it.

**Abstraction.** Of a protobuf entity the models keep the kind, the name
(`reference_frame`), one value for all displayed content, the targets of its
relationships, and whether it carries a chunks descriptor. ADDED and UPDATED are
one message (consumers treat both as upserts). Requests that fail validation
change nothing and are left out; field masks are sets of three groups of paths,
as far as the service branches on them. The check that an update keeps the
geometry type is left out: the model accepts more updates than the code. Poses,
configs, goals and JSON fields are values that are equal or not; where the code
compares generations or abort signals, the model marks what is still current.

### DrawService

| Model | Code |
| --- | --- |
| `entities`, `template` | `svc.entities`; `svc.chunked[id].template` |
| `job` | which RPC holds `svc.mu` between two publications |
| `unsignalled` | subscribers between `sub.mu.Unlock` and `sub.signal` in `push` |
| `pending`, `overflow`, `notify` | the mailbox |
| `phase`, `replay`, `batch`, `cancelled` | the stream goroutine: where it is and its locals |
| `view` | what the consumer has been told so far (history) |

One RPC that publishes once is one step; the cascade and batches take a step per
publication, because streams run in between. `MuIsFree` is the lock. A mailbox
exists exactly while its stream is registered, so `closed` needs no variable.

### DrawClient

`told` and `gone` are the environment: what the stream's messages so far mean,
and the targets whose removal it still has to cascade. This is what `DrawService`
sends: upserts, a removal followed by one upsert for each source that pointed at
the entity, a clear with the same cascade. `events` with `ahead` is
`pendingChanges.events` in Map order, `cleared` its `clearedScope`. The frame
callback runs to completion; it is one step per event, with `flushing` keeping
everything else out. `drawn` is the two maps and the entities in them: `Absent`
when the map has no entry, `Deleted` and `Lost` when the entry's entity was
destroyed by the user or along with its parent. A live one has its content,
`links`, `under` (ChildOf) and `orphan`. `PendingLinks` is no part of it:
`enqueue` sets the trait on an entity that lacks it, which `setOrAddTrait.ts`
says is a lost write, so no entity ever has it and the `onAdd` hook finds none.

### ChunkTransfer and GrowingPicture

Counted in chunks. Every draw of the UUID has a buffer of its own (`current` is
the registered one; the replaced one is neither closed nor completed, as in the
code). `call` holds the `GetEntityChunk` handlers with the gap between the loop
test and `cond.Wait` (where `entity.mu` is still held) and the context watcher,
which broadcasts without that lock. `awaited` and `mine` are the running pull
and whether its entity is still the one on the screen. The refinement maps the
draw on the screen and the places of its geometry that are loaded.

### DrawServer and DrawSession

`mu` is the package's lock together with where its holder is: Start holds it
over three fallible steps, Stop over one. Servers of this process are numbered
because a stopped one keeps its streams, and so are the listener and the
goroutine that Start makes with each. The goroutine evaluates the package
variable `rpcSrv` when it gets to run (`server.go` 179-184), and `close(rpcReady)`
before it orders nothing: `runner` is what it has read, which may be its own server, a
later one, or nil, and then `mu` is "crashed" and only the other process and the page go
on. `listener` is whose listener holds a port, `serving` which goroutines have called
Serve, `shut` whose Shutdown was called, `temp` whose chunk files a port's temp
dir holds; `Answering` is who accepts a connection, which takes a listener that
is served. The goroutine of the static server, made the same way from `staticSrv`, is left
out. `page` is `runWithReconnect` with its next delay.
In `DrawSession` each caller is one goroutine that gets a client, passes
`WrapUnary`'s two locked sections as separate steps, and is executed by the
server; `files` are the recordings, `base` the history that says which server a recording
was made on by calls one after another, all of this process: what other processes draw on
an external server is left out. The recorder writes a call before it is
made, whatever comes of it. A drawing of `Undecoded` comes of a call that
`replayCall` has no case for (`AddEntities` and the relationship calls), one of
`Updates` is refused by a server with an empty scene. A Replay clears the scene and
makes the calls up to one that fails, for either reason (`ReplayFails`);
`MCDrawSession` lets TLC compare this with the loop, call by call.

### WorldStateSync

The functions of the sync call each other, so its state is one record `sync`
and each function is an operator from record to record, with the source's name:
the session (`reading`, `held` events, the stream), `dirty`, the retry timer, the rebuild
request and its generation, and `entities`, each with the three caches the code
keeps beside it (`known` fields, the metadata `print`, the inline `source`
points) and its chunk loader. `store`, `instance`, `missed` and `untold` are the
machine's side. A flush is a step per event, with `batch` guarding the rest.
The worker's parse of the inline part is a step (`ParseLands`, or never, when it
fails) where a pull depends on it: a chunk that arrives before has no geometry to be written
into, and the pull is "given up", neither parked nor resumed. A cloud sent whole
counts as drawn with its parse. A store that cannot stream refuses (`StreamRefused`): the
stream is "closed" for good and the session stays open for snapshots.

### PartConfig

`page` is the hook: `network` (the query's data as the hook sees it), `current`,
`isDirty`, the two snapshots, the drag depth and runed's StateHistory (`log`,
`redo`). A step is a call or an answer followed by the effects it triggers,
`Effects`, in the order of their creation. `stored`, `cache`, `fetch` and
`saves` are the app, the query cache and what is on its way. What a config says
is a parameter; who edits it, and when, is said by the module that instantiates it.

### FrameEdits

| Model | Code |
| --- | --- |
| `entities[f]` | the entity of a frame: `matrix`, `live`, `edited` are its traits `Matrix`, `LiveMatrix`, `EditedMatrix` |
| `landed` | history: the config declared the frame when it was staged |
| `reported`, `connected` | the data of `frameSystemConfig`, the connection status |
| `mode` | "build", or "monitor" for every other mode |
| `SyncFrames` | the effect of `useFrames` |
| `Flush` | that effect, of a child component and so the first to run, then the settlement of `usePartConfig` |

Poses are integers modulo `N`: a group, as rigid motions are, so that live pose,
baseline and staged edit compose and cancel as in `composeLocalMatrix`. A
saved config that is fetched again may be a new object with the same content,
which runs the effects again; where the code can do either, both are taken
(`new`). Frames hang below the world and have no geometry; the frames that
fragments supply, obstacles, kinematic links and colours are left out.

### Replay, inspection and move panels

`MotionPlanReplayer` and `IKInspection` hold the hooks' state; the application may give any
plans on mount, none and two of one name included. `ReplayPanel`
instantiates both and adds `mounted`, the uploads in their two stages and what
leaving replay mode tears down. An upload becomes `late` when its panel goes; the
count that keeps the user from choosing another file is each panel's own. In `MovePanels` each frame has a panel record (open, goal,
status, plan, detail, player); `requests` and `moves` are the awaited calls,
which outlive their panel; `armedFrame` and `movingFrame` are the two owners.
A request says itself whether it is `current`, where the code compares a
generation; `overtakenBy` is a history of the moves begun since a plan was asked for.

## 3. What is checked

| Run | Instance | Shows |
| --- | --- | --- |
| `stream` | 2 UUIDs as transforms or chunked drawings, failing disks, 1 subscriber, mailbox 1, batches up to 2 | `TypeOK`, `NoLostWakeup`, `NoDanglingRelationship` |
| `contents` | 1 UUID in four forms, mailbox 1, fair goroutines | `CaughtUpHoldsStore`, `AllInStep`, `BacklogDrains` over kind switches, masks, templates and overflow |
| `screen` | 2 UUIDs: one switches kind, one moves below it and links to it, chunked or not | `TypeOK`, `ToldIsShown`, `NoGhostOfOneKind`, `NoStrayLink`, `OneLivePerUuid`, `UnderItsParent` |
| `transfer` | 3 chunks, 2 draws, 1 lost stream, 2 chunk calls, fair handlers and frames | `TypeOK`, `NoHoles`, `OneDrawOnly`, `PullDelivers`, and the refinement `GrowsAsPromised` |
| `session` | 1 caller, 3 calls of 2 kinds, one of them unknown to replay and refused on an empty scene, 1 recording, 2 ports, 2 servers of the process, an external one that comes and goes, a page | `OwnServerAnswers`, `ChunksKept`, `SessionReplays`, `BackoffHolds` |
| `mirror` | 2 clouds, whole or chunked, 2 changes, a failing read, a cut or refused stream or lost client | `TypeOK`, `MirrorsStore`, `DebtsAreDriven` |
| `rebuild` | 1 UUID as two boxes or two chunked clouds, a rebuild, a cut, parses before and after chunks, fair answers and timers | `NoOldChunks`, `Converges` |
| `frames` | 2 parts, 1 frame, 2 poses, 2 changes, 1 drag, 1 save under way, 4 log entries | `TypeOK`, `CleanFollowsNetwork`, `DragIsOneEntry`, `StagedIsSaved`, `SaveKeepsPicture`, `EditIsNotFought` |
| `replay` | 2 files, one unreadable for the client, up to 2 plans given or uploaded, 2 candidates, 2 inspections, 1 leave of replay mode | `TypeOK`, `PlansAgree`, `InspectionFollowsPanel`, `InspectionLeavesNothing` |
| `move` | 2 frames, 2 goals, readable and broken fields, 2 frame systems, a trajectory that the cap shortens, 2 plan requests | `TypeOK`, `OneMoveAtATime`, `PreviewIsForGoal`, `NoPlanSurvivesItsMove` |

Each of these properties has a mutant of a mapped definition that violates it,
listed in `PROJECT.json`.

**Bounds and why they are enough.** Subscribers share nothing but the lock, so
one subscriber shows every interleaving of a stream with the store; the proofs
cover any number. Two UUIDs are a source and its target, or a parent and its
child. A mailbox of one reaches empty, full and overflowed. A batch of two has a
first and a last element. Three chunks have a first, a middle and a last; two
draws are one redraw; one loss, one reconnect; two calls let an abandoned
handler live beside a new one. Two servers of a process are a stopped one with
its streams, listener and late goroutine and its successor, on its port or another; one
visit is a server of another process that comes between and goes again. Three calls are what
Record, a drawing and one on top of it need. The second kind of drawing is like
CreateRelationship; a call that is only refused, like UpdateEntity, and one that is only unknown,
like AddEntities, are said by the theorem. One caller meets every step of Start,
Stop and the other process; what several do to each other's recordings is
excluded by the property or said by the theorem, which has any number. In `mirror` two changes are a change and
its undoing under one read, with every event delayed past it; one failure and
one cut let each retry path run once, and a second would start from the same
states. In `rebuild` one UUID suffices because what a rebuild may leave behind
is of one entity: its chunks and its caches. Two parts and two changes are an
edit here and one elsewhere, or a switch and an edit; frames share nothing but
the config, so one frame meets all of it, and two poses are an edit and what it
replaces. Two panels are one that
moves and one that is looked at. Every bound is a CONSTANT with a comment in the
module; `MaxPending` stands for 20 000, `MaxInterpolatedFrames` for 2 000,
`MaxDelay` for the cap of the backoff; the others bound the model only.

Runs with `CHECK_DEADLOCK FALSE` stop when their bounded environment has nothing
left to do.

**Fairness.** `DrawService`: goroutines that can run do (preemptive scheduler),
a connected client reads its stream, the holder of `svc.mu` goes on, and a
goroutine waiting for the lock gets it in the end (`sync.RWMutex` admits a
waiting writer), which is strong fairness of `Leave`. `ChunkTransfer`: handlers,
animation frames, pulls and the reconnect loop are weakly fair.
`WorldStateSync`: answers, events, timers and chunk pulls come in the end (weak),
and the flush, which a read may disable by holding its events, is strongly fair
when nothing is read: a scheduled flush runs between two reads. A parse is
obliged to nothing: it may fail, and `Converges` excepts pulls that ended before it. Clients, users
and machines are obliged to nothing: no fairness for any request, draw, change,
removal or loss.

### Where comments and code disagree

Two runs expect a violation and state the comment:

| Run | Property | The code | The comment |
| --- | --- | --- | --- |
| `template_relationships` | `ReplayKeepsRelationships` | relationship RPCs and the cascade leave a chunked drawing's template alone; later subscribers get old relationships | `draw_service.go` 548-552 |
| `ghost` | `NoGhost` | transform, redrawn as drawing and removed in one frame: the transform stays | `coalesceEvents.ts` 52-53 |

The modules state more of them, each refuted by TLC with the property in place
of the ones of the named run's instance:

| Property | Instance | The code | The comment or test |
| --- | --- | --- | --- |
| `PlainDrawingReplayedAsStored` | `template_relationships` | a plain drawing over a chunked one leaves the buffer registered; the replay sends the old one | `draw_service.go` 219-221 |
| `LinksShown` | `screen` | a relationship told before its target is never linked: the pending list is written to a trait nobody has | `serverRelationships.ts` 14-18, `lib/ecs/setOrAddTrait.ts` 7-9 |
| `ChildrenSurvive` | `screen` | a removed entity takes its children with it | `lib/ecs/relations.ts` 5-8 |
| `RedrawIsWhole` | `transfer` | a redraw during a pull gets no pull of its own | `useDrawService.svelte.ts` 277 |
| `PullDelivers` | `transfer` with `Total = 1` | a chunked drawing complete in its first chunk is never marked complete; the pull waits forever | `draw_service.go` 1119-1121 |
| `PageFollowsServer` | `session` | a page stays on the stream of a stopped server, which Shutdown does not end, while a new one serves (that a stream outlives Shutdown is net/http's) | `client/server/server.go` 233-234 |
| `StopIsSafe` | `session` | the goroutine that serves reads `rpcSrv` when it runs: after a Stop (`client/server/server.go` 284) or a failed Start (193) it is nil, and the process panics | `client/server/server.go` 233-234 |
| `CompleteSession` | `session` | the recorder writes calls that `replayCall` rejects (`client/api/replay.go` 183-184) or a server refuses; `TestReplayCannotHandleRecordedBatchCalls` (`replay_test.go` 159-181) pins the first | `client/api/replay.go` 23-25 |
| `EveryPullRestarts` | `rebuild` | a chunk that comes before the parse of the inline part (`lib/draw.ts` 128, 473-509) ends its pull, which no open resumes (`lib/chunking.ts` 76-77) | `lib/chunking.ts` 118-121 |
| `OwedIsHeld` | `mirror` with `UUIDs = {a}`, `BoxesAndCloud`, `MaxChanges = 3`, no failure, no cut | a cloud that becomes owed and is removed within one flush is fetched and retried | `worldStateSync.spec.ts` 599 |
| `LoadIsNotUndone` | `frames` | an edit that sets the pose a frame has is dirty without a log entry: undo takes back the load, and a save would store a config with nothing in it | `BuildActionsBar.svelte` 24 |
| `PreviousPartDropped` | `frames` with `MaxChanges = 3`, `MaxLog = 6` | another part drops the edits, not the undo log: undo shows, and save would store, the config of the part before | `usePartConfig.svelte.ts` 638 |
| `PlanHasControls` | `replay` | an upload answered after replay mode was left draws its plan | `MotionPlanReplayerUI.svelte` 33 |
| `OneResult` | `replay` | a plan inspected twice takes the answer of the first request too | `useIKInspection.svelte.ts` 305 |
| `PreemptedMeansOther` | `move` | a panel says that another one has the gizmo when that one was closed | `MoveControls.svelte` 304 |

`PlansStartHere` (no plan offered starts before a move of another panel) does
not hold either; there the comments promise nothing and the machine refuses.
The docs say that live frame and pose queries pause in build mode
(`docs/src/content/docs/plugins/build-frames.mdx` 16); `useFrames.svelte.ts` 66
and `usePoses.svelte.ts` 63 keep them enabled. So does the model, and
`EditIsNotFought` holds all the same. Two more things of `frames` are the code's
and contradict no comment: staging an edit of a frame that only the machine
declares never dirties the config, and discarding after a failed save leaves
the unsaved config as the clean one, because `save` sets the network's config
before it calls.
Passing runs carry the weaker property that does hold (`NoGhostOfOneKind` beside
`NoGhost`, `NoStrayLink` beside `LinksShown`, `CaughtUpHoldsStore` which accepts
either the stored or the replayed form).

## 4. What is proved

For every value of the constants that satisfies the assumptions named in the
modules, all of which TLC evaluates:

| Theorem | Says |
| --- | --- |
| `TypeCorrect` | `DrawService`: `Spec => []TypeOK` |
| `WakeupNeverLost` | `Spec => []NoLostWakeup` |
| `StreamInStep` | with a working disk, `Spec => []AllInStep` |
| `CaughtUpCorrect` | with a working disk, `Spec => []CaughtUpHoldsStore` |
| `RelationshipsHaveTargets` | if no payload brings relationships, `Spec => []NoDanglingRelationship` |
| `ClientTypeCorrect` | `DrawClient`: `Spec => []TypeOK` |
| `ToldAlwaysShown` | `Spec => []ToldIsShown` |
| `NeverShownTwice` | `Spec => []OneLivePerUuid` |
| `BufferBounded` | `Spec => []OneEventPerUuid` |
| `AlwaysUnderItsParent` | `Spec => []UnderItsParent`, parent cycles included |
| `NoGhosts` | `Spec => []NoGhostOfOneKind` |
| `NoStrayLinks` | `Spec => []NoStrayLink` |
| `TransferTypeCorrect` | `ChunkTransfer`: `Spec => []TypeOK` |
| `TransferNoHoles` | `Spec => []NoHoles` |
| `TransferOneDraw` | `Spec => []OneDrawOnly` |
| `TransferImplementsPicture` | `Spec => Picture!Spec`: the transfer implements `GrowingPicture` |
| `ServersAnswer` | `DrawServer`: `Spec => []OwnServerAnswers` |
| `ChunkFilesKept` | `Spec => []ChunksKept` |
| `BackoffIsKept` | `Spec => BackoffHolds` |
| `RecordingsReplay` | `DrawSession`: `Spec => []SessionReplays` |
| `DrawSessionProofs!Types` | `Spec => []TypeOK` |
| `WorldStateSyncProofs!Types` | `Spec => []TypeOK` |
| `DebtsDriven` | `Spec => []DebtsAreDriven` |
| `NoOldChunksDrawn` | `Spec => []NoOldChunks` |
| `Mirrors` | `Spec => []MirrorsStore` |
| `FrameEditsProofs!Types` | `Spec => []TypeOK`, the page of `PartConfig` included |
| `CleanPageFollowsNetwork` | `Spec => []CleanFollowsNetwork` |
| `DragsAreOneEntry` | `Spec => []DragIsOneEntry` |
| `StagedEditsAreSaved` | `Spec => []StagedIsSaved` |
| `SavesKeepPicture` | `Spec => SaveKeepsPicture` |
| `EditsAreNotFought` | `Spec => EditIsNotFought` |
| `MovePanelsTypes` | `MovePanels`: `Spec => []TypeOK` |
| `MovePanelsOneMove` | `Spec => []OneMoveAtATime` |
| `MovePanelsPreviewIsForGoal` | `Spec => []PreviewIsForGoal` |
| `MovePanelsNoPlanSurvives` | `Spec => []NoPlanSurvivesItsMove` |
| `ReplayTypes` | `ReplayPanel`: `Spec => []TypeOK` |
| `PlansAlwaysAgree` | `Spec => []PlansAgree` |
| `InspectionsFollow` | `Spec => []InspectionFollowsPanel` |
| `InspectionsLeaveNothing` | `Spec => []InspectionLeavesNothing` |

*Server.* Types and `StreamShape` (what a goroutine's locals hold in each phase)
are inductive together. Every request is one of two shapes (`RpcEffect`):
it publishes a message and *carries* the store along (`Carries`: whoever agrees
with the store before and applies the message agrees after), or it publishes
nothing and leaves agreement alone. `AllInStep` is then inductive: a publication
appends to the trail (`LeadsAppend`), a send shortens it at the front
(`LeadsTail`), take moves the mailbox to the batch, connect starts with the
overlay of the replay. `CaughtUpHoldsStore` is the case of an empty trail.
Without a working disk it does not hold: an entity stored whose buffer could not
be created is published to nobody.

*Relationships.* `NoDanglingRelationship` speaks of the moments the lock is free.
`TargetsExist` holds always: a relationship has its target, or the running
cascade has the target in its `Debt` and has not come to the source yet. The
hypothesis that payloads bring none is the one of run `stream`; without it a
client may add an entity with a relationship to nothing, which no code checks.

*Browser.* `ToldIsShown` is not inductive, since it speaks of settled states
only. `ScreenInv` adds that, while the stream is up, every UUID the stream told
is either buffered with its latest content (`BufferAgrees`) or already on the
screen with it and not covered by a pending clear (`ScreenAgrees`), that a UUID
is in one of the two maps at most (`OneMapPerUuid`), and that nothing is cleared
while the frame runs. `AlwaysUnderItsParent` is inductive by itself, given types: every
world operator keeps a world well placed (`WellPlaced`), because destroying an
entity cuts the relations to it and names are kept by updates.

*Ghosts and links.* Both need that a UUID of one kind is never told, buffered or
shown as another (`OfferedOnly`). `TakenBack` then says of whatever is still in
its map after the stream took it back that an event for it is buffered or a
buffered clear covers it; widening a clear keeps that, and so does dropping the
events a clear covers. For links, `LinkedWithin` says at every step that an entity
is linked only to live entities of the UUIDs that `cache` has for it, and
`CacheAgrees` that once its event is applied the cache is what was told. The
invariant breaks if the cache is emptied for an entity that stays, which
`OneMapPerUuid` excludes; each operator on worlds has one lemma for it
(`LinksDestroyed`, `LinksCut`, `LinksSame`, `LinksApplied`).

*Transfer.* `NoHoles` and `OneDrawOnly` speak of the screen; what makes them true is on
the server. The inductive invariant adds that a buffer is a beginning of its
draw and the sender is behind its end (`BuffersInOrder`), that a handler answers
with the chunk it was asked for (`AnswersAreAsked`), that what is told and not
yet applied is in the order of the store and ends with its current draw
(`InboxInOrder`), and that a pull of the entity on the screen continues at what
is loaded (`PullContinues`). Under it each step of the browser begins, grows or
takes away a picture, and every other step leaves it, which is the refinement.

*Server lifecycle and recordings.* `PackageInv` says what the package's variables
are by what `mu` is held for: unused with a server that is up while Start goes
on, unused with one that is down while it undoes a failure, in use with one
that is down while Stop goes on. `NetworkInv` adds what the goroutines may do:
the only server that is not shut is the one made last, while the package has it; a
goroutine has read its own server or a later one, and a listener that is served is
served by one that is not shut. `FilesInv` is the part of `ChunksKept` about
listeners, which the part about answers follows from. Every step of
`DrawSession` is one of the server or leaves it alone (`SessionIsServer`), so
its theorems hold of the composition. A recording is either in step with the
scene it was started from or one call ahead of it, between the entry and the
execution of the one busy caller (`RecordingInv`); `base` marks exactly the
recordings of which that can be said.

*World state sync.* The functions call each other, so each has a lemma on the
record it returns: it keeps the type, and if what is left is payable it leaves
the record `Driven`, where every debt has a read, the timer or a frame. Within a
flush the invariant is the same, as a step of it may start a read. Of the types the
hard part is that only a snapshot has a list to wait for.

`NoOldChunks` speaks of settled states, and what settles a cloud may be a
snapshot, an event or a loaded answer, each read some time ago. `OldInv` has three parts.
`Orderly` keeps the counters: the snapshot of the last rebuild is marked as one, and an open session
whose rebuild is due owes its snapshot, so that no scene settles without it. The
generation the sync knows never exceeds the instance that answers. And once it
is that instance (`Told`), `Fresh` says of every drawing that nothing is owed
for that it is whole from it, and of the events on the wire and the answers loaded that they are of it,
unless a rebuild is still due. A proof of an earlier model failed for a good
reason: a chunked cloud that an update gives other metadata takes its points from
that update's answer, and the model did not record by whom they were given, so with
three changes of the store a settled cloud was attributed to an instance
long gone. `Regeometry` now records it, and the property covers clouds sent
whole as well as chunked ones.

`MirrorsStore`, the main property of the mirror, speaks of settled states too.
`MirrorInv` says what keeps it true on the way, of the queue of what is still to
come for a UUID: the events of the running flush, then those that wait, then
those on the wire. `AllCached`: the caches beside a drawing (`source`, `print`)
say what is drawn, or a read would leave in place what it should change.
`ReadInOrder`: a snapshot runs for one that is owed, and a fetch of single transforms
asks only for UUIDs whose events it holds back. `HeardInOrder`, while the stream is to be
trusted: the queue of each UUID ends at the store (`InOrder`: what the store no
longer has is removed by it, between two additions is a removal, and per part
the last event that writes it carries the store's), and each UUID is `Known`:
what was read of it, or else its drawing, is the store's but for the parts that
events in the queue still write, or it is owed, or its answer is on the way, or a
snapshot is. What the functions of the sync do to a queue is said once: a filter or
a flush keeps the events of a UUID in their order (`FilterSame`, `SplitSame`),
the first one may be taken (`HeadTaken`), a change of the store is one more
at the end (`AppendInOrder`, `AppendView`). Changes in
the gap before the subscription (`missed`) are the only exception, as in the property.

*Part config and frame edits.* `ConfigInv` is inductive given the types: the effects
end with a clean page on the network's config (`EffectsDo`), and a drag suspends
the history until its last update. `StagedIsSaved` speaks of dirty pages and is not
inductive: `SceneInv` says that on a clean page no staged edit has landed,
that a landed edit says what the config says, and that where the config
wins an undeclared frame has no entity, so that `createFrame` never finds an edit
to overwrite. The two action properties follow from the same invariant, step by step.
`EditIsNotFought` speaks of edits the config took (`landed`): an edit staged for
a frame that only the machine declares never reaches the config and is given up
by the next re-sync, which is the code's doing.

*Move panels.* The invariant has four parts besides the shape of the state:
a request that is waited for is the only one of its panel and for what the panel
shows (`Waited`); a plan on offer is for what the panel shows (`Offered`); the
owner is the frame of the one move, whose panel, while mounted, keeps the goal
and offers nothing it could lose (`Owned`). Most steps drop the requests
of some panels and leave the rest alone: `DroppedKeeps` says that once, and each
action cites it.
For the twins, `PreviewInv` says that a panel has a plan exactly when its status
offers it, that a panel without an offer rests, and that the twins show the step of
their player (`TwinsShowStep`). A step either leaves panels that offer the same
(`Alike`) or ones that offer nothing (`Quiet`), and only a plan that arrives
and the player's own steps redraw.

*Replay panel.* Both players are the operators of `TrajectoryPlayer`, so what a
move of a player returns is proved once (`Follow`) and cited for the plans and for
the inspection. Of the plans the invariant `PlansInv` says more than `PlansAgree`:
ids of listed plans differ and are below the next one (`Listing`), without which the
snapshot of a plan that arrives could be stored under the id of a listed
one; snapshots are of exactly the ready plans, as long as these say (`Stored`);
the screen shows the active plan (`OnScreen`). For the inspection, `Steady` joins what the two
properties say to types, and each operation has a lemma that it keeps or restores
it: a selection only needs that what is listed is of the plan shown, since it
draws all sets anew, and a new resolution may find the path at any step.

*Recursive playback.* Playback of the move panels interpolates a trajectory by a recursive
function, which no installed prover unfolds, and the library's induction
theorems take an operator, which none can instantiate. `MovePanelsProofs` proves
induction for *sets* of naturals from the pigeonhole principle of finite sets, and with
it that a function that follows a total step exists (`StepwiseFunction`) and has
its values in the steps' type (`StepwiseValues`). The chosen function then has the
equation, and proofs cite that. The sync's flush order needs no recursion: its events are
the kept ones by rank, and `EveryPlaceTaken` says that ranks leave no gap.

**Only model-checked.** `BacklogDrains`, `PullDelivers` and `Converges` are
liveness under fairness, out of the prover's reach, as is ENABLED. Every safety
property of a passing run has a theorem. No module has RECURSIVE operators.

**What the theorems assume.** That entities, drawings and configs are not the
values that stand for none (`NoEntityAssumption`, `MissingAssumption`,
`NoneAssumption`, `ClientsAssumption`, `AbsentAssumption`), that constants have their
types (`OffersAssumption`, `ReportsAssumption`, `FramesAssumption` with at least one pose),
and that bounds are natural numbers (positive for the plans). Besides these, three theorems have a
hypothesis in their statement: a working disk (`StreamInStep`, `CaughtUpCorrect`) and
payloads without relationships (`RelationshipsHaveTargets`).

## 5. Assumptions and limits

* The stream that feeds `DrawClient` follows `told`; that `DrawService` produces only such streams is argued in section 2, not checked.
* A respawned entity's links into it, what a destroyed koota entity answers (no traits, no relations) and that `set` does not add a trait are the library's behaviour as the code uses it. So are the query cache (one fetch at a time, the last answer wins) and runed's StateHistory in `PartConfig`.
* Promise continuations run before the next animation frame, so an aborted pull ends before the frame that follows. Svelte effects run to completion after the call that triggers them, in the order of their creation.
* `GetEntityChunk` fails only with its stream or its entity. A call that fails on a live stream ends its pull for good in the code; see the hazards.
* One producer per chunked UUID. Only point drawings are pulled; other chunked shapes end at their first chunk.
* `NoDanglingRelationship` speaks of relationships made with CreateRelationship; entities added with relationships of their own are not checked by the service (run `stream` offers none).
* The instance of `screen` has no cycle of parents; the theorem does not need that.
* `SessionReplays` speaks of recordings whose calls were made one after another, and says that a replay draws the recorded scene or fails with an error; concurrent calls are recorded in another order than they are executed, and what a replay that failed leaves half drawn is not its subject.
* The goroutines of the RPC server read `rpcSrv` once and atomically; that the read is a data race by Go's memory model, with no other outcome than an old or a new value of a pointer, is not modelled further.
* `WorldStateSync` limits neither the 64 concurrent getTransform calls nor the length of backoffs, and has no relationships, parents or dispose.
* In `FrameEdits` another part brings new entities, with what the machine of that part reports; poses arrive for any frame it reported, also without a connection (what was fetched last).
* In `MovePanels` the machine may succeed or fail at any move; which frames of a plan get twins, collisions and the encoding of the plan are left out.

## 6. Plan

1. `FrameEdits`: frames that fragments supply and override, parents and reparenting, part-owned obstacles, geometry.
2. A composition of `DrawService` with `DrawClient`: the stream of the first as the environment of the second, by refinement of `told`.
3. An abstract mirror (a scene that equals a store read while it changes) that `WorldStateSync` implements.
