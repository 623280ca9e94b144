---------------------------- MODULE ChunkTransfer ----------------------------
(***************************************************************************)
(* How a chunked drawing of one UUID gets to the screen: the client        *)
(* library sends it chunk by chunk (draw/chunker.go), the service appends  *)
(* the chunks to a buffer on disk and hands them out in GetEntityChunk,    *)
(* which blocks for a chunk that is not there yet (draw/draw_service.go),  *)
(* and the browser pulls what the streamed first chunk leaves out          *)
(* (useDrawService.svelte.ts, pullChunks).                                 *)
(*                                                                         *)
(* Lengths and offsets are counted in chunks, and a drawing is Total       *)
(* chunks of points. One producer draws, so one transfer starts when the   *)
(* one before it is over. Every draw of the UUID has a buffer of its own.  *)
(***************************************************************************)
EXTENDS Naturals, Sequences

CONSTANTS
    Total,          \* chunks in a drawing
    MaxDraws,       \* bound: how often the UUID is drawn
    MaxLosses,      \* bound: how often the browser's stream ends
    Calls,          \* GetEntityChunk calls that may exist at a time
    NoCall, Nothing

ASSUME TotalAssumption == Total \in Nat \ {0}
ASSUME MaxDrawsAssumption == MaxDraws \in Nat
ASSUME NoCallAssumption == NoCall \notin Calls

VARIABLES
    draws,          \* draws so far
    next,           \* the chunk the running transfer sends next, 0 without one
    current,        \* the draw whose buffer svc.chunked has, 0 for none
    buffer,         \* what was appended for each draw
    complete,       \* draws whose chunkComplete is set
    closed,         \* draws whose files are closed
    call,           \* the GetEntityChunk handlers
    up,             \* the browser's stream is up
    losses,
    inbox,          \* streamed changes not yet applied: the draw, 0 a removal
    shown,          \* the draw of the entity on the screen, 0 for none
    loaded,         \* the chunk in each place of its geometry
    awaited,        \* the call the running pull awaits, NoCall without a pull
    mine            \* the running pull belongs to the entity on the screen

serverVars == <<draws, next, current, buffer, complete, closed>>
clientVars == <<up, losses, inbox, shown, loaded, awaited, mine>>
vars == <<serverVars, call, clientVars>>

Draws == 1 .. MaxDraws
Places == 1 .. Total
Chunks == Draws \X Places
ASSUME NothingAssumption == Nothing \notin Chunks

Offsets == 0 .. Total
Stages == {"none", "sent", "loop", "checked", "waiting", "woken", "chunk", "end", "error"}

(* Where a handler is: received, about to take entity.mu, in the loop with *)
(* entity.mu held, in cond.Wait, woken, or answered. gen is the buffer it  *)
(* looked up, value and done its answer. ctx is FALSE once the caller is   *)
(* gone; watched is TRUE while its goroutine watches ctx.                  *)
CallState ==
    [at: Stages, start: Offsets, gen: 0 .. MaxDraws, value: Chunks \cup {Nothing},
     done: BOOLEAN, ctx: BOOLEAN, watched: BOOLEAN]

NoHandler ==
    [at |-> "none", start |-> 0, gen |-> 0, value |-> Nothing,
     done |-> FALSE, ctx |-> TRUE, watched |-> FALSE]
Request(start) == [NoHandler EXCEPT !.at = "sent", !.start = start]

TypeOK ==
    /\ draws \in 0 .. MaxDraws
    /\ next \in Offsets
    /\ current \in 0 .. MaxDraws
    /\ buffer \in [Draws -> Seq(Chunks)]
    /\ complete \in SUBSET Draws
    /\ closed \in SUBSET Draws
    /\ call \in [Calls -> CallState]
    /\ up \in BOOLEAN
    /\ losses \in Nat
    /\ inbox \in Seq(0 .. MaxDraws)
    /\ shown \in 0 .. MaxDraws
    /\ loaded \in [Places -> Chunks \cup {Nothing}]
    /\ awaited \in Calls \cup {NoCall}
    /\ mine \in BOOLEAN

EmptyGeometry == [i \in Places |-> Nothing]

Init ==
    /\ draws = 0 /\ next = 0 /\ current = 0
    /\ buffer = [d \in Draws |-> <<>>]
    /\ complete = {} /\ closed = {}
    /\ call = [c \in Calls |-> NoHandler]
    /\ up = FALSE /\ losses = 0 /\ inbox = <<>>
    /\ shown = 0 /\ loaded = EmptyGeometry
    /\ awaited = NoCall /\ mine = FALSE

-----------------------------------------------------------------------------
(* The store. *)

\* entity.mu is held across GetEntityChunk's test of its loop condition and
\* its entry into cond.Wait.
MuHeld(d) == \E c \in Calls : call[c].at = "checked" /\ call[c].gen = d

\* cond.Broadcast: it reaches the handlers that wait, and no other.
Woken(d) ==
    [c \in Calls |-> IF call[c].at = "waiting" /\ call[c].gen = d
                     THEN [call[c] EXCEPT !.at = "woken"]
                     ELSE call[c]]

Told(what) == inbox' = IF up THEN Append(inbox, what) ELSE inbox

\* The first Next of a transfer: AddEntity gives the UUID a new buffer. The
\* one it replaces is neither closed nor marked complete.
Draw ==
    /\ next = 0
    /\ draws < MaxDraws
    /\ draws' = draws + 1
    /\ current' = draws'
    /\ buffer' = [buffer EXCEPT ![draws'] = <<<<draws', 1>>>>]
    /\ next' = IF Total = 1 THEN 0 ELSE 2
    /\ Told(draws')
    /\ UNCHANGED <<complete, closed, call, up, losses, shown, loaded, awaited, mine>>

\* The channel is not closed behind the last chunk.
Following_NeverEnds == next + 1

Following == IF next = Total THEN 0 ELSE next + 1

\* The reader is not woken.
SendChunk_Silent ==
    /\ next # 0 /\ current # 0 /\ ~MuHeld(current)
    /\ buffer' = [buffer EXCEPT ![current] = Append(@, <<draws, next>>)]
    /\ complete' = IF Len(buffer'[current]) >= Total THEN complete \cup {current} ELSE complete
    /\ next' = Following
    /\ UNCHANGED <<draws, current, closed, call, clientVars>>

\* A later Next: UpdateEntity appends to the UUID's buffer (accumulateChunk).
SendChunk ==
    /\ next # 0 /\ current # 0 /\ ~MuHeld(current)
    /\ buffer' = [buffer EXCEPT ![current] = Append(@, <<draws, next>>)]
    /\ complete' = IF Len(buffer'[current]) >= Total THEN complete \cup {current} ELSE complete
    /\ call' = Woken(current)
    /\ next' = Following
    /\ UNCHANGED <<draws, current, closed, clientVars>>

\* The caller goes on with the next chunk.
SendFails_CallerGoesOn ==
    /\ next # 0
    /\ next' = Following
    /\ UNCHANGED <<draws, current, buffer, complete, closed, call, clientVars>>

\* A later Next fails, at the latest when the UUID is gone: DrainChunks gives
\* the transfer up.
SendFails ==
    /\ next # 0
    /\ next' = 0
    /\ UNCHANGED <<draws, current, buffer, complete, closed, call, clientVars>>

\* RemoveEntity closes the buffer.
RemoveEntity ==
    /\ current # 0 /\ ~MuHeld(current)
    /\ current' = 0
    /\ complete' = complete \cup {current}
    /\ closed' = closed \cup {current}
    /\ call' = Woken(current)
    /\ Told(0)
    /\ UNCHANGED <<draws, next, buffer, up, losses, shown, loaded, awaited, mine>>

-----------------------------------------------------------------------------
(* GetEntityChunk. *)

Lookup(c) ==
    /\ call[c].at = "sent"
    /\ call' = [call EXCEPT ![c] =
           IF current = 0 THEN [@ EXCEPT !.at = "error"]
           ELSE [@ EXCEPT !.at = "loop", !.gen = current, !.watched = TRUE]]
    /\ UNCHANGED <<serverVars, clientVars>>

Missing(c) == Len(buffer[call[c].gen]) <= call[c].start /\ call[c].gen \notin complete

\* The answer, once the loop is left.
Answer(c) ==
    LET start == call[c].start
        gen   == call[c].gen
    IN  IF start >= Len(buffer[gen])
        THEN [call[c] EXCEPT !.at = "end", !.watched = FALSE]
        ELSE IF gen \in closed THEN [call[c] EXCEPT !.at = "error", !.watched = FALSE]
        ELSE [call[c] EXCEPT !.at = "chunk", !.watched = FALSE,
                             !.value = buffer[gen][start + 1],
                             !.done = (start + 1 >= Total /\ gen \in complete)]

\* The loop condition, after the lock or after a wake-up. A wake-up that finds
\* the context cancelled ends the call.
Check(c) ==
    /\ call[c].at \in {"loop", "woken"}
    /\ ~MuHeld(call[c].gen)
    /\ call' = [call EXCEPT ![c] =
           IF @.at = "woken" /\ ~@.ctx THEN [@ EXCEPT !.at = "error", !.watched = FALSE]
           ELSE IF Missing(c) THEN [@ EXCEPT !.at = "checked"]
           ELSE Answer(c)]
    /\ UNCHANGED <<serverVars, clientVars>>

Wait(c) ==
    /\ call[c].at = "checked"
    /\ call' = [call EXCEPT ![c].at = "waiting"]
    /\ UNCHANGED <<serverVars, clientVars>>

\* The goroutine that watches the context broadcasts once, without the lock.
Watcher(c) ==
    /\ call[c].watched /\ ~call[c].ctx
    /\ call' = [Woken(call[c].gen) EXCEPT ![c].watched = FALSE]
    /\ UNCHANGED <<serverVars, clientVars>>

\* The answer to a caller that is gone.
Discard(c) ==
    /\ call[c].at \in {"chunk", "end", "error"}
    /\ c # awaited
    /\ call' = [call EXCEPT ![c] = NoHandler]
    /\ UNCHANGED <<serverVars, clientVars>>

-----------------------------------------------------------------------------
(* The browser. *)

\* The animation frame applies the streamed changes that came in: of one
\* UUID the last (see DrawClient). A removal destroys the entity.
FrameRemoves(n) ==
    /\ inbox[n] = 0
    /\ inbox' = SubSeq(inbox, n + 1, Len(inbox))
    /\ shown' = 0
    /\ loaded' = EmptyGeometry
    /\ mine' = FALSE
    /\ UNCHANGED <<serverVars, call, up, losses, awaited>>

\* The pull that runs goes on with the entity that takes the place of its own.
FrameDraws_KeepsPull(n) ==
    /\ inbox[n] # 0
    /\ inbox' = SubSeq(inbox, n + 1, Len(inbox))
    /\ shown' = inbox[n]
    /\ loaded' = [EmptyGeometry EXCEPT ![1] = <<inbox[n], 1>>]
    /\ IF awaited # NoCall \/ ~up
       THEN mine' = up /\ UNCHANGED <<call, awaited>>
       ELSE \E c \in Calls : /\ call[c].at = "none"
                             /\ call' = [call EXCEPT ![c] = Request(1)]
                             /\ awaited' = c
                             /\ mine' = TRUE
    /\ UNCHANGED <<serverVars, up, losses>>

\* A chunked drawing is drawn anew with its first chunk, and the rest is
\* pulled, unless a pull of the UUID is still running (activeChunkPulls) or
\* the attempt is over, whose signal ends a pull before its first call.
FrameDraws(n) ==
    /\ inbox[n] # 0
    /\ inbox' = SubSeq(inbox, n + 1, Len(inbox))
    /\ shown' = inbox[n]
    /\ loaded' = [EmptyGeometry EXCEPT ![1] = <<inbox[n], 1>>]
    /\ IF awaited # NoCall \/ ~up
       THEN mine' = FALSE /\ UNCHANGED <<call, awaited>>
       ELSE \E c \in Calls : /\ call[c].at = "none"
                             /\ call' = [call EXCEPT ![c] = Request(1)]
                             /\ awaited' = c
                             /\ mine' = TRUE
    /\ UNCHANGED <<serverVars, up, losses>>

\* The pull ends. Its entity gives up ChunkProgress.
PullEnds ==
    /\ awaited # NoCall
    /\ call[awaited].at \in {"chunk", "end", "error"}
    /\ call[awaited].at = "chunk" => ~mine
    /\ call' = [call EXCEPT ![awaited] = NoHandler]
    /\ awaited' = NoCall
    /\ mine' = FALSE
    /\ UNCHANGED <<serverVars, up, losses, inbox, shown, loaded>>

\* A chunk is written into the geometry; the pull goes on behind it unless it
\* was the last one.
PullWrites ==
    /\ awaited # NoCall
    /\ call[awaited].at = "chunk"
    /\ mine
    /\ LET answer == call[awaited]
       IN  /\ loaded' = [loaded EXCEPT ![answer.start + 1] = answer.value]
           /\ IF answer.done
              THEN /\ call' = [call EXCEPT ![awaited] = NoHandler]
                   /\ awaited' = NoCall
                   /\ mine' = FALSE
              ELSE /\ call' = [call EXCEPT ![awaited] = Request(answer.start + 1)]
                   /\ UNCHANGED <<awaited, mine>>
    /\ UNCHANGED <<serverVars, up, losses, inbox, shown>>

\* An attempt starts on an empty world with the replay of what is stored.
Connect ==
    /\ ~up
    /\ up' = TRUE
    /\ inbox' = IF current = 0 THEN <<>> ELSE <<current>>
    /\ shown' = 0
    /\ loaded' = EmptyGeometry
    /\ UNCHANGED <<serverVars, call, losses, awaited, mine>>

\* The attempt ends and aborts its pull; the handler learns of it through its
\* context. The rejected call ends the pull before another frame. What is
\* buffered stays, and frames go on, until the next attempt starts.
Lose ==
    /\ up
    /\ losses < MaxLosses
    /\ losses' = losses + 1
    /\ up' = FALSE
    /\ call' = IF awaited = NoCall THEN call ELSE [call EXCEPT ![awaited].ctx = FALSE]
    /\ awaited' = NoCall
    /\ mine' = FALSE
    /\ UNCHANGED <<serverVars, inbox, shown, loaded>>

Flush == \E n \in 1 .. Len(inbox) : FrameRemoves(n) \/ FrameDraws(n)
Handler(c) == Lookup(c) \/ Check(c) \/ Wait(c) \/ Watcher(c) \/ Discard(c)

Next ==
    \/ Draw
    \/ SendChunk
    \/ SendFails
    \/ RemoveEntity
    \/ \E c \in Calls : Handler(c)
    \/ Flush
    \/ PullEnds
    \/ PullWrites
    \/ Connect
    \/ Lose

Spec == Init /\ [][Next]_vars

(* Handlers, frames and pulls run when they can, and a lost stream is      *)
(* tried again. Nobody has to draw, send or remove anything.               *)
FairSpec ==
    /\ Spec
    /\ \A c \in Calls : WF_vars(Lookup(c)) /\ WF_vars(Check(c)) /\ WF_vars(Wait(c))
    /\ WF_vars(Flush)
    /\ WF_vars(PullEnds)
    /\ WF_vars(PullWrites)
    /\ WF_vars(Connect)

-----------------------------------------------------------------------------
(* Properties. *)

Filled == {i \in Places : loaded[i] # Nothing}

(* Chunks land in their places, in order and without a hole, whatever was  *)
(* redrawn, removed, reconnected or given up in between (pullChunks'       *)
(* nextStart against accumulateChunk's appends).                           *)
NoHoles ==
    /\ \A i \in Filled : loaded[i][2] = i /\ 1 .. i \subseteq Filled
    /\ awaited # NoCall /\ mine => \A i \in Places : i \in Filled <=> i <= call[awaited].start

(* With no change left to apply, what is on the screen is of one draw: no  *)
(* pull writes chunks of one draw into the entity of another.              *)
OneDrawOnly ==
    up /\ inbox = <<>> => \A i \in Filled : loaded[i][1] = shown

(* What is on the screen grows as the viewer of a chunked drawing is       *)
(* promised: GrowingPicture, the first chunk from the stream and the rest  *)
(* from pulls.                                                             *)
Picture == INSTANCE GrowingPicture WITH draw <- shown, filled <- Filled
GrowsAsPromised == Picture!Spec

Received(d) == current = d /\ Len(buffer[d]) = Total
Whole(d) == shown = d /\ Filled = Places

(* A pull whose drawing has arrived at the service in full comes to an end *)
(* with all of it on the screen, unless the drawing changes or goes away   *)
(* (pullChunks: progress must not outlive the pull, or the entity would    *)
(* show a loading bar forever).                                            *)
PullDelivers ==
    \A d \in Draws :
        (Received(d) /\ shown = d /\ mine)
            ~> (~Received(d) \/ shown # d \/ (Whole(d) /\ ~mine))

-----------------------------------------------------------------------------
(* What the code's comments say that the code does not do. *)

(* A redrawn chunked drawing restarts its chunk pull from scratch: once    *)
(* it has arrived in full, all of it comes to the screen                   *)
(* (processDrawingEvent).                                                  *)
RedrawIsWhole ==
    \A d \in Draws : (up /\ Received(d)) ~> (~up \/ ~Received(d) \/ Whole(d))

=============================================================================
