---------------------------- MODULE DrawSession ----------------------------
(***************************************************************************)
(* The calls of client/api on a DrawServer, from several goroutines, and   *)
(* their recording (client/server/recording.go, client/api/replay.go). A   *)
(* call gets a client, is written to the open recording of the client's    *)
(* recorder, and is executed by the server. The scene of a server is what  *)
(* was drawn last, and a recording the list of its calls; the pauses       *)
(* between them are left out.                                              *)
(***************************************************************************)
EXTENDS DrawServer, SequencesExt

CONSTANTS
    Callers,    \* goroutines
    Drawings,   \* what a call may draw
    Undecoded,  \* drawings by calls that replayCall has no case for
    Updates,    \* drawings that the server refuses on an empty scene
    MaxCalls,
    MaxFiles    \* recordings started

ASSUME SessionAssumption ==
    /\ MaxCalls \in Nat /\ MaxFiles \in Nat
    /\ None \notin Drawings
    /\ Undecoded \subseteq Drawings /\ Updates \subseteq Drawings

VARIABLES
    scene,      \* server -> what is drawn, or None
    calls,      \* caller -> where it is
    made,       \* calls made so far
    open,       \* recorder -> the recording it writes, or 0
    files,      \* the recordings, each a sequence of calls
    base        \* recording -> the server all of it was drawn on, with no two
                \* calls under way at once so far, or None

sessionVars == <<scene, calls, made, open, files, base>>
vars == <<serverVars, sessionVars>>

Clear == "clear"
Requests == Drawings \cup {Clear}

\* A caller at rest, with a client, past the test for a recording, or with a
\* request to send. `then` says what the call is part of, and `cleared` the
\* server whose scene it cleared, unless another call was executed since.
Resting == [at |-> "rest", request |-> Clear, client |-> None, then |-> "none",
            recorder |-> None, cleared |-> None]
Stages == {"rest", "have", "write", "send", "getRecorder", "start", "stop"}
Caller == [at : Stages, request : Requests, client : Clients \cup {None},
           then : {"none", "record"}, recorder : (1 .. MaxRecorders) \cup {None},
           cleared : Own \cup {External, None}]

TypeOK ==
    /\ ServerTypeOK
    /\ scene \in [Own \cup {External} -> Drawings \cup {None}]
    /\ calls \in [Callers -> Caller]
    /\ made \in 0 .. MaxCalls
    /\ open \in [1 .. MaxRecorders -> 0 .. Len(files)]
    /\ files \in Seq(Seq(Requests)) /\ Len(files) <= MaxFiles
    /\ base \in [1 .. MaxFiles -> Own \cup {External, None}]

Init ==
    /\ ServerInit
    /\ scene = [server \in Own \cup {External} |-> None]
    /\ calls = [c \in Callers |-> Resting]
    /\ made = 0
    /\ open = [r \in 1 .. MaxRecorders |-> 0]
    /\ files = <<>> /\ base = [f \in 1 .. MaxFiles |-> None]

---------------------------------------------------------------------------
(* A call (the functions of client/api, and WrapUnary).                    *)

Busy(c) == calls[c].at \in {"have", "write", "send"}
Goes(c, caller) == calls' = [calls EXCEPT ![c] = caller]

Alone(c) == \A d \in Callers \ {c} : ~Busy(d)
Baseless == [f \in 1 .. MaxFiles |-> None]

\* GetClient attaches if it has to; with no visualizer there is no call.
GetClient(c, request, then) ==
    /\ calls[c].at = "rest" /\ made < MaxCalls
    /\ mu = "free"
    /\ \/ client # None /\ UNCHANGED serverVars
       \/ AttachDefault
    /\ made' = made + 1
    /\ Goes(c, [Resting EXCEPT !.at = "have", !.request = request, !.then = then,
                               !.client = client'])
    /\ base' = IF Alone(c) THEN base ELSE Baseless
    /\ UNCHANGED <<scene, open, files>>

Call(c, request) == GetClient(c, request, "none")
Record(c) == GetClient(c, Clear, "record")

\* WrapUnary reads whether a recording is on, and lets go of its lock.
TestRecording(c) ==
    /\ calls[c].at = "have"
    /\ Goes(c, [calls[c] EXCEPT !.at = IF open[calls[c].client.recorder] = 0 THEN "send"
                                       ELSE "write"])
    /\ UNCHANGED <<serverVars, scene, made, open, files, base>>

\* The file may be closed by then, and the call is then written nowhere.
WriteEntry_OnlyDrawings(c) ==
    /\ calls[c].at = "write"
    /\ LET file == open[calls[c].client.recorder]
       IN files' = IF file = 0 \/ calls[c].request = Clear THEN files
                   ELSE [files EXCEPT ![file] = Append(@, calls[c].request)]
    /\ Goes(c, [calls[c] EXCEPT !.at = "send"])
    /\ UNCHANGED <<serverVars, scene, made, open, base>>
WriteEntry(c) ==
    /\ calls[c].at = "write"
    /\ LET file == open[calls[c].client.recorder]
       IN files' = IF file = 0 THEN files
                   ELSE [files EXCEPT ![file] = Append(@, calls[c].request)]
    /\ Goes(c, [calls[c] EXCEPT !.at = "send"])
    /\ UNCHANGED <<serverVars, scene, made, open, base>>

Drawn(request) == IF request = Clear THEN None ELSE request
Refused(request, drawn) == request \in Updates /\ drawn = None
Executed(request, drawn) ==
    IF Refused(request, drawn) THEN drawn ELSE Drawn(request)

\* The server at the client's address executes the call, or nobody does.
\* Record goes on to its second half unless the call failed; a call the server
\* refuses is written all the same.
Send(c) ==
    /\ calls[c].at = "send"
    /\ LET port == calls[c].client.address
           server == Answering(port)
           file == open[calls[c].client.recorder]
       IN /\ server = None => listener[port] = None
          /\ scene' = IF server = None THEN scene
                      ELSE [scene EXCEPT ![server] = Executed(calls[c].request, @)]
          /\ calls' = [d \in Callers |->
                IF d # c THEN [calls[d] EXCEPT !.cleared = None]
                ELSE IF server = None \/ calls[c].then = "none" THEN Resting
                ELSE [Resting EXCEPT !.at = "getRecorder",
                                     !.cleared = IF Alone(c) THEN server ELSE None]]
          /\ base' = [f \in DOMAIN base |->
                        IF f = file /\ base[f] # server THEN None ELSE base[f]]
    /\ UNCHANGED <<serverVars, made, open, files>>

---------------------------------------------------------------------------
(* Record and StopRecord.                                                  *)

StopRecord(c) ==
    /\ calls[c].at = "rest" /\ mu = "free" /\ recorder # None
    /\ open[recorder] # 0
    /\ Goes(c, [Resting EXCEPT !.at = "stop", !.recorder = recorder])
    /\ UNCHANGED <<serverVars, scene, made, open, files, base>>

GetRecorder(c) ==
    /\ calls[c].at = "getRecorder" /\ mu = "free"
    /\ Goes(c, IF recorder = None THEN Resting
               ELSE [calls[c] EXCEPT !.at = "start", !.recorder = recorder])
    /\ UNCHANGED <<serverVars, scene, made, open, files, base>>

Started(c, file) ==
    /\ open' = [open EXCEPT ![calls[c].recorder] = file]
    /\ Goes(c, Resting)
    /\ UNCHANGED <<serverVars, scene, made>>

\* A recording that is on already is closed.
StartRecording(c) ==
    /\ calls[c].at = "start"
    /\ Len(files) < MaxFiles
    /\ files' = Append(files, <<>>)
    /\ base' = [base EXCEPT ![Len(files) + 1] =
                    IF Alone(c) THEN calls[c].cleared ELSE None]
    /\ Started(c, Len(files) + 1)

StartRecordingFails(c) ==
    /\ calls[c].at = "start"
    /\ UNCHANGED <<files, base>>
    /\ Started(c, 0)

StopRecording(c) ==
    /\ calls[c].at = "stop"
    /\ UNCHANGED <<files, base>>
    /\ Started(c, 0)

---------------------------------------------------------------------------
(* The lifecycle: Stop ends the recording of the recorder it lets go, and a *)
(* server begins with an empty scene.                                      *)

Keeps == UNCHANGED sessionVars
Closes ==
    /\ open' = IF recorder = None THEN open ELSE [open EXCEPT ![recorder] = 0]
    /\ UNCHANGED <<scene, calls, made, files, base>>

Lifecycle ==
    \/ \E port \in Ports :
         \/ StartAttaches(port) /\ Keeps
         \/ \E production \in BOOLEAN : StartListens(port, production) /\ Keeps
         \/ StartRefused(port) /\ Keeps
    \/ \E n \in Own : (ReadsServer(n) \/ Panics(n) \/ Serve(n)) /\ Keeps
    \/ StaticListens /\ Keeps
    \/ StaticFails /\ Keeps
    \/ StartUndone /\ Keeps
    \/ StartReturns /\ Keeps
    \/ StopAttached /\ Closes
    \/ StopShuts /\ Keeps
    \/ StopReturns /\ Closes

Network ==
    \/ ExternalStarts /\ Keeps
    \/ /\ ExternalStops
       /\ scene' = [scene EXCEPT ![External] = None]
       /\ base' = [f \in DOMAIN base |-> IF base[f] = External THEN None ELSE base[f]]
       /\ calls' = [c \in Callers |->
                      IF calls[c].cleared = External
                      THEN [calls[c] EXCEPT !.cleared = None] ELSE calls[c]]
       /\ UNCHANGED <<made, open, files>>
    \/ Page /\ Keeps

Api(c) ==
    \/ \E request \in Requests : Call(c, request)
    \/ Record(c) \/ StopRecord(c)
    \/ TestRecording(c) \/ WriteEntry(c) \/ Send(c)
    \/ GetRecorder(c) \/ StartRecording(c) \/ StartRecordingFails(c) \/ StopRecording(c)

Next ==
    \/ mu # "crashed" /\ (Lifecycle \/ \E c \in Callers : Api(c))
    \/ Network

Spec == Init /\ [][Next]_vars

---------------------------------------------------------------------------
(* Replay.                                                                 *)

\* Replay clears the scene and makes the calls of a file again, up to one that
\* fails: replayCall has no case for it (AddEntities, CreateRelationship and
\* DeleteRelationship have none), or the server refuses it. What a call that is
\* reached finds was drawn by the call before it.
Before(file, i) == IF i = 1 THEN None ELSE Drawn(file[i - 1])
Replayed(file) == Before(file, Len(file) + 1)
ReplayFails(file) ==
    \E i \in DOMAIN file : file[i] \in Undecoded \/ Refused(file[i], Before(file, i))

---------------------------------------------------------------------------
(* Properties.                                                             *)

\* As long as the calls of the process come one after another, a recording
\* never replays to something else than was drawn: with none under way, a Replay
\* of what is written so far, from the first call to the last, gives the scene
\* of the server it was recorded from, or ends with an error at a call it does
\* not know or the server refuses (replay.go 79-186; the first is pinned by
\* TestReplayCannotHandleRecordedBatchCalls).
SessionReplays ==
    recorder # None /\ (\A c \in Callers : ~Busy(c)) =>
        LET file == open[recorder]
        IN file # 0 /\ base[file] # None =>
             ReplayFails(files[file]) \/ Replayed(files[file]) = scene[base[file]]

\* A recording "represents a complete session that can be replayed against an
\* empty scene" (Record in replay.go): no Replay of it fails.
CompleteSession ==
    recorder # None /\ (\A c \in Callers : ~Busy(c)) =>
        LET file == open[recorder]
        IN file # 0 /\ base[file] # None => ~ReplayFails(files[file])

=============================================================================
