---------------------------- MODULE DrawEntities ----------------------------
(***************************************************************************)
(* The vocabulary of the draw service: entities, the change messages of    *)
(* StreamEntityChanges, and what one message does to a scene.              *)
(*                                                                         *)
(* A stored entity is a transform or a drawing (draw/draw_service.go       *)
(* storedEntity). Of its protobuf payload the model keeps what the         *)
(* service, the wire and the browser branch on:                            *)
(*   kind    which oneof case carries it                                   *)
(*   chunks  a drawing whose metadata carries a chunks descriptor          *)
(*   frame   reference_frame, which an update may not change               *)
(*   val     everything else that is displayed (pose, shape, colours)      *)
(*   rels    the targets of metadata.relationships                         *)
(***************************************************************************)
CONSTANTS
    Ids,        \* entity UUIDs
    Frames,     \* reference frame names
    Vals,       \* displayed content
    NoEntity    \* marks a UUID that has no entity

Kinds == {"transform", "drawing"}

Entities ==
    {e \in [kind: Kinds, chunks: BOOLEAN, frame: Frames, val: Vals, rels: SUBSET Ids] :
        e.kind = "transform" => ~e.chunks}

ASSUME NoEntityAssumption == NoEntity \notin Entities

\* A scene: what the store holds, or what a consumer believes it holds.
Scenes == [Ids -> Entities \cup {NoEntity}]
EmptyScene == [id \in Ids |-> NoEntity]
Present(scene) == {id \in Ids : scene[id] # NoEntity}

-----------------------------------------------------------------------------
(* EntityScope: what a bulk removal covers. *)
Scopes == {"transforms", "drawings", "all"}

Covers(scope, kind) ==
    \/ scope = "all"
    \/ scope = "transforms" /\ kind = "transform"
    \/ scope = "drawings" /\ kind = "drawing"

(* ADDED and UPDATED carry the whole entity and both consumers treat them  *)
(* alike, so they are one message. REMOVED carries the entity too, of      *)
(* which consumers read the UUID and the oneof case. A bulk removal        *)
(* carries only its scope.                                                 *)
Upsert(id, e)      == [type |-> "upsert", id |-> id, entity |-> e]
Removal(id, kind)  == [type |-> "removed", id |-> id, kind |-> kind]
Clear(scope)       == [type |-> "cleared", scope |-> scope]

Messages ==
    {Upsert(id, e) : id \in Ids, e \in Entities}
        \cup {Removal(id, k) : id \in Ids, k \in Kinds}
        \cup {Clear(s) : s \in Scopes}

\* Whether a removal concerns the entity e that a consumer holds under id.
Erases(m, id, e) ==
    \/ m.type = "removed" /\ m.id = id
    \/ m.type = "cleared" /\ e # NoEntity /\ Covers(m.scope, e.kind)

\* What a message means to a consumer that keeps one entity per UUID.
Apply(scene, m) ==
    [id \in Ids |-> IF m.type = "upsert" /\ m.id = id THEN m.entity
                    ELSE IF Erases(m, id, scene[id]) THEN NoEntity
                    ELSE scene[id]]

=============================================================================
