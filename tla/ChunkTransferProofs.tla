------------------------- MODULE ChunkTransferProofs -------------------------
(***************************************************************************)
(* Theorems about ChunkTransfer for every length of a drawing and every    *)
(* number of draws, losses and calls: its types, NoHoles, OneDrawOnly and  *)
(* that it implements GrowingPicture.                                      *)
(***************************************************************************)
EXTENDS ChunkTransfer, SequenceTheorems, TLAPS

-----------------------------------------------------------------------------
(* The inductive invariant.                                                *)

(* A buffer is a beginning of its draw, and the running transfer is behind *)
(* the end of the registered one.                                          *)
BuffersInOrder ==
    /\ \A d \in Draws : /\ Len(buffer[d]) <= Total
                        /\ \A i \in 1 .. Len(buffer[d]) : buffer[d][i] = <<d, i>>
    /\ current <= draws
    /\ next # 0 /\ current # 0 => current = draws /\ Len(buffer[current]) = next - 1

(* A handler past its lookup has a buffer, and the chunk it answers with   *)
(* is the one asked for.                                                   *)
AnswerIsAsked(k) ==
    /\ k.at \in {"loop", "checked", "waiting", "woken", "chunk"} => k.gen # 0
    /\ k.at = "chunk" => k.start < Total /\ k.value = <<k.gen, k.start + 1>>
AnswersAreAsked == \A c \in Calls : AnswerIsAsked(call[c])

(* What is told follows the store in order, and a stream that is up has    *)
(* told all of it.                                                         *)
InboxInOrder ==
    /\ shown <= draws
    /\ \A i \in 1 .. Len(inbox) :
          /\ inbox[i] <= draws
          /\ inbox[i] # 0 => inbox[i] > shown
    /\ \A i, j \in 1 .. Len(inbox) : i < j /\ inbox[j] # 0 => inbox[i] < inbox[j]
    /\ up => current = IF inbox = <<>> THEN shown ELSE inbox[Len(inbox)]

(* The pull of the entity on the screen continues what is loaded.          *)
PullContinues ==
    /\ mine => up /\ awaited # NoCall /\ shown # 0
    /\ awaited # NoCall /\ mine =>
          /\ call[awaited].start # 0
          /\ inbox = <<>> /\ call[awaited].gen # 0 => call[awaited].gen = shown

Inv ==
    /\ TypeOK
    /\ BuffersInOrder /\ AnswersAreAsked /\ InboxInOrder /\ PullContinues
    /\ NoHoles /\ OneDrawOnly

-----------------------------------------------------------------------------
(* What happens to the handlers.                                           *)

(* The bound of the buffers gives an answer a place in the drawing.        *)
LEMMA StoredIsAsked ==
    ASSUME TypeOK, BuffersInOrder, NEW d \in Draws, NEW n \in Offsets, n < Len(buffer[d])
    PROVE  n < Total /\ buffer[d][n + 1] = <<d, n + 1>> /\ <<d, n + 1>> \in Chunks
<1>1. Len(buffer[d]) \in Nat /\ Len(buffer[d]) <= Total
  BY DEF TypeOK, BuffersInOrder
<1>2. n + 1 \in 1 .. Len(buffer[d]) /\ n + 1 \in Places
  BY <1>1, TotalAssumption DEF Offsets, Places
<1>3. buffer[d][n + 1] = <<d, n + 1>>
  BY <1>2 DEF BuffersInOrder
<1>4. <<d, n + 1>> \in Chunks
  BY <1>2 DEF Chunks
<1> QED
  BY <1>1, <1>3, <1>4, TotalAssumption DEF Offsets

(* A broadcast moves waiting handlers and changes nothing else of them.    *)
LEMMA WokenEffect ==
    ASSUME call \in [Calls -> CallState], AnswersAreAsked, NEW d
    PROVE  /\ Woken(d) \in [Calls -> CallState]
           /\ \A c \in Calls : /\ Woken(d)[c].start = call[c].start
                               /\ Woken(d)[c].gen = call[c].gen
                               /\ AnswerIsAsked(Woken(d)[c])
<1>1. ASSUME NEW c \in Calls
      PROVE  /\ Woken(d)[c] \in CallState
             /\ Woken(d)[c].start = call[c].start
             /\ Woken(d)[c].gen = call[c].gen
             /\ AnswerIsAsked(Woken(d)[c])
  BY DEF Woken, CallState, AnswersAreAsked, AnswerIsAsked, Stages
<1> QED
  BY <1>1 DEF Woken

(* What a step of the handlers keeps: the answers are still what was       *)
(* asked, and the awaited call has its start, and its buffer, which it may *)
(* have looked up just now.                                                *)
CallsKeepOn ==
    /\ call' \in [Calls -> CallState]
    /\ AnswersAreAsked'
    /\ \A c \in Calls : c = awaited =>
          /\ call'[c].start = call[c].start
          /\ call'[c].gen \in {call[c].gen, current}

LEMMA HandlerEffect ==
    ASSUME TypeOK, BuffersInOrder, AnswersAreAsked, NEW c \in Calls, Handler(c)
    PROVE  CallsKeepOn
<1> USE DEF CallsKeepOn
<1>1. call \in [Calls -> CallState] /\ current \in 0 .. MaxDraws
  BY DEF TypeOK
<1>2. ASSUME NEW k \in CallState, AnswerIsAsked(k), call' = [call EXCEPT ![c] = k],
             c = awaited => k.start = call[c].start /\ k.gen \in {call[c].gen, current}
      PROVE  CallsKeepOn
  BY <1>1, <1>2 DEF AnswersAreAsked
<1>3. CASE Lookup(c)
  <2> DEFINE k == IF current = 0 THEN [call[c] EXCEPT !.at = "error"]
                  ELSE [call[c] EXCEPT !.at = "loop", !.gen = current, !.watched = TRUE]
  <2>1. k \in CallState /\ AnswerIsAsked(k) /\ k.start = call[c].start
        /\ k.gen \in {call[c].gen, current}
    BY <1>1 DEF CallState, Stages, AnswerIsAsked
  <2>2. call' = [call EXCEPT ![c] = k]
    BY <1>3, <1>1 DEF Lookup
  <2> QED
    BY <1>2, <2>1, <2>2
<1>4. CASE Check(c)
  <2>1. call[c] \in CallState /\ call[c].gen # 0 /\ call[c].gen \in Draws
        /\ call[c].start \in Offsets
    BY <1>1, <1>4 DEF Check, AnswersAreAsked, AnswerIsAsked, CallState, Draws
  <2>2. Len(buffer[call[c].gen]) \in Nat
    BY <2>1 DEF TypeOK
  <2>3. /\ Answer(c) \in CallState /\ AnswerIsAsked(Answer(c))
        /\ Answer(c).start = call[c].start /\ Answer(c).gen = call[c].gen
    <3>1. CASE call[c].start >= Len(buffer[call[c].gen])
      BY <2>1, <3>1 DEF Answer, CallState, Stages, AnswerIsAsked
    <3>2. CASE call[c].start < Len(buffer[call[c].gen]) /\ call[c].gen \in closed
      BY <2>1, <2>2, <3>2 DEF Answer, CallState, Stages, AnswerIsAsked, Offsets
    <3>3. CASE call[c].start < Len(buffer[call[c].gen]) /\ call[c].gen \notin closed
      <4> DEFINE k == [call[c] EXCEPT !.at = "chunk", !.watched = FALSE,
                          !.value = buffer[call[c].gen][call[c].start + 1],
                          !.done = (call[c].start + 1 >= Total /\ call[c].gen \in complete)]
      <4>1. Answer(c) = k
        BY <2>1, <2>2, <3>3 DEF Answer, Offsets
      <4>2. /\ call[c].start < Total
            /\ buffer[call[c].gen][call[c].start + 1] = <<call[c].gen, call[c].start + 1>>
            /\ buffer[call[c].gen][call[c].start + 1] \in Chunks
        BY <2>1, <3>3, StoredIsAsked
      <4>3. k \in CallState /\ AnswerIsAsked(k) /\ k.start = call[c].start /\ k.gen = call[c].gen
        BY <2>1, <4>2 DEF CallState, Stages, AnswerIsAsked
      <4> QED
        BY <4>1, <4>3
    <3> QED
      BY <2>1, <2>2, <3>1, <3>2, <3>3 DEF Offsets
  <2> DEFINE k == IF call[c].at = "woken" /\ ~call[c].ctx
                  THEN [call[c] EXCEPT !.at = "error", !.watched = FALSE]
                  ELSE IF Missing(c) THEN [call[c] EXCEPT !.at = "checked"]
                  ELSE Answer(c)
  <2>4. k \in CallState /\ AnswerIsAsked(k) /\ k.start = call[c].start /\ k.gen = call[c].gen
    BY <2>1, <2>3 DEF CallState, Stages, AnswerIsAsked
  <2>5. call' = [call EXCEPT ![c] = k]
    BY <1>1, <1>4 DEF Check
  <2> HIDE DEF k
  <2> QED
    BY <1>2, <2>4, <2>5
<1>5. CASE Wait(c)
  <2> DEFINE k == [call[c] EXCEPT !.at = "waiting"]
  <2>1. k \in CallState /\ AnswerIsAsked(k) /\ k.start = call[c].start /\ k.gen = call[c].gen
    BY <1>1, <1>5 DEF CallState, Stages, AnswerIsAsked, AnswersAreAsked, Wait
  <2>2. call' = [call EXCEPT ![c] = k]
    BY <1>5, <1>1 DEF Wait
  <2> QED
    BY <1>2, <2>1, <2>2
<1>6. CASE Watcher(c)
  <2> DEFINE woken == Woken(call[c].gen)
             k == [woken[c] EXCEPT !.watched = FALSE]
  <2>1. /\ woken \in [Calls -> CallState]
        /\ \A x \in Calls : /\ woken[x].start = call[x].start
                            /\ woken[x].gen = call[x].gen
                            /\ AnswerIsAsked(woken[x])
    BY <1>1, WokenEffect
  <2> HIDE DEF woken
  <2>2. k \in CallState /\ AnswerIsAsked(k) /\ k.start = call[c].start /\ k.gen = call[c].gen
    BY <2>1 DEF CallState, AnswerIsAsked
  <2>3. call' = [woken EXCEPT ![c] = k]
    BY <1>6, <2>1 DEF Watcher, woken
  <2> HIDE DEF k
  <2> QED
    BY <2>1, <2>2, <2>3 DEF AnswersAreAsked
<1>7. CASE Discard(c)
  <2>1. NoHandler \in CallState /\ AnswerIsAsked(NoHandler)
    BY TotalAssumption, MaxDrawsAssumption DEF NoHandler, CallState, Stages, AnswerIsAsked, Offsets
  <2> QED
    BY <1>2, <1>7, <2>1 DEF Discard
<1> QED
  BY <1>3, <1>4, <1>5, <1>6, <1>7 DEF Handler

(* A new request is at its beginning, and so is a handler put away.        *)
LEMMA RequestEffect ==
    ASSUME NEW n \in Offsets
    PROVE  /\ Request(n) \in CallState /\ AnswerIsAsked(Request(n))
           /\ Request(n).start = n /\ Request(n).gen = 0
           /\ NoHandler \in CallState /\ AnswerIsAsked(NoHandler)
<1>1. NoHandler \in CallState /\ NoHandler.gen = 0 /\ NoHandler.at = "none"
  BY TotalAssumption, MaxDrawsAssumption DEF NoHandler, CallState, Stages, Offsets
<1> QED
  BY <1>1 DEF Request, CallState, Stages, AnswerIsAsked

-----------------------------------------------------------------------------
(* What happens to the inbox.                                              *)

LEMMA ToldEffect ==
    ASSUME inbox \in Seq(0 .. MaxDraws), NEW what \in 0 .. MaxDraws, Told(what)
    PROVE  /\ inbox' \in Seq(0 .. MaxDraws)
           /\ ~up => inbox' = inbox
           /\ up => /\ inbox' # <<>>
                    /\ Len(inbox') = Len(inbox) + 1
                    /\ inbox'[Len(inbox')] = what
                    /\ \A i \in 1 .. Len(inbox) : inbox'[i] = inbox[i]
<1>1. CASE ~up
  BY <1>1 DEF Told
<1>2. CASE up
  <2>1. inbox' = Append(inbox, what)
    BY <1>2 DEF Told
  <2>2. /\ Append(inbox, what) \in Seq(0 .. MaxDraws)
        /\ Append(inbox, what) # <<>>
        /\ Len(Append(inbox, what)) = Len(inbox) + 1
        /\ \A i \in 1 .. Len(inbox) : Append(inbox, what)[i] = inbox[i]
        /\ Append(inbox, what)[Len(inbox) + 1] = what
    BY AppendProperties
  <2> QED
    BY <1>2, <2>1, <2>2
<1> QED
  BY <1>1, <1>2

LEMMA FrameEffect ==
    ASSUME inbox \in Seq(0 .. MaxDraws), NEW n \in 1 .. Len(inbox),
           inbox' = SubSeq(inbox, n + 1, Len(inbox))
    PROVE  /\ inbox' \in Seq(0 .. MaxDraws)
           /\ Len(inbox') = Len(inbox) - n
           /\ \A i \in 1 .. Len(inbox') : inbox'[i] = inbox[n + i]
<1>1. ASSUME NEW i \in n + 1 .. Len(inbox)
      PROVE  inbox[i] \in 0 .. MaxDraws
  <2>1. i \in 1 .. Len(inbox)
    OBVIOUS
  <2> QED
    BY <2>1, ElementOfSeq
<1>2. n + 1 \in Int /\ Len(inbox) \in Int
  OBVIOUS
<1>3. /\ inbox' \in Seq(0 .. MaxDraws)
      /\ Len(inbox') = IF n + 1 <= Len(inbox) THEN Len(inbox) - (n + 1) + 1 ELSE 0
      /\ \A i \in 1 .. Len(inbox) - (n + 1) + 1 : inbox'[i] = inbox[n + 1 + i - 1]
  BY <1>1, <1>2, SubSeqProperties
<1> QED
  BY <1>3

-----------------------------------------------------------------------------
(* Types.                                                                  *)

LEMMA TypeInit == Init => TypeOK /\ AnswersAreAsked
<1> SUFFICES ASSUME Init PROVE TypeOK /\ AnswersAreAsked
  OBVIOUS
<1>1. NoHandler \in CallState /\ AnswerIsAsked(NoHandler)
  BY RequestEffect, TotalAssumption DEF Offsets
<1>2. call \in [Calls -> CallState] /\ AnswersAreAsked
  BY <1>1 DEF Init, AnswersAreAsked
<1>3. buffer \in [Draws -> Seq(Chunks)] /\ inbox \in Seq(0 .. MaxDraws)
      /\ loaded \in [Places -> Chunks \cup {Nothing}]
  BY DEF Init, EmptyGeometry
<1>4. up \in BOOLEAN /\ mine \in BOOLEAN
  BY DEF Init
<1> QED
  BY <1>2, <1>3, <1>4, TotalAssumption, MaxDrawsAssumption DEF Init, TypeOK, Offsets

(* Every action keeps the types, and every handler answers what it was     *)
(* asked.                                                                  *)
LEMMA TypeStep ==
    ASSUME TypeOK, BuffersInOrder, AnswersAreAsked, Next
    PROVE  TypeOK' /\ AnswersAreAsked'
<1> USE TotalAssumption, MaxDrawsAssumption
<1>1. CASE Draw
  <2>1. draws' \in Draws /\ draws' \in 0 .. MaxDraws
    BY <1>1 DEF Draw, TypeOK, Draws
  <2>2. buffer' \in [Draws -> Seq(Chunks)]
    <3>1. <<<<draws', 1>>>> \in Seq(Chunks)
      <4>1. <<draws', 1>> \in Chunks
        BY <2>1 DEF Chunks, Places
      <4> QED
        BY <4>1
    <3> QED
      BY <1>1, <3>1 DEF Draw, TypeOK
  <2>3. inbox' \in Seq(0 .. MaxDraws)
    BY <1>1, <2>1, ToldEffect DEF Draw, TypeOK
  <2> QED
    BY <1>1, <2>1, <2>2, <2>3 DEF Draw, TypeOK, AnswersAreAsked, Offsets
<1>2. CASE SendChunk
  <2>1. current \in Draws /\ draws = current /\ next \in Places /\ Following \in Offsets
    BY <1>2 DEF SendChunk, TypeOK, BuffersInOrder, Draws, Places, Offsets, Following
  <2>2. buffer' \in [Draws -> Seq(Chunks)]
    BY <1>2, <2>1 DEF SendChunk, TypeOK, Chunks
  <2>3. call' \in [Calls -> CallState] /\ AnswersAreAsked'
    BY <1>2, WokenEffect DEF SendChunk, TypeOK, AnswersAreAsked
  <2> QED
    BY <1>2, <2>1, <2>2, <2>3 DEF SendChunk, TypeOK, clientVars
<1>3. CASE SendFails
  BY <1>3 DEF SendFails, TypeOK, clientVars, Offsets, AnswersAreAsked
<1>4. CASE RemoveEntity
  <2>1. call' \in [Calls -> CallState] /\ AnswersAreAsked'
    BY <1>4, WokenEffect DEF RemoveEntity, TypeOK, AnswersAreAsked
  <2>2. inbox' \in Seq(0 .. MaxDraws)
    BY <1>4, ToldEffect DEF RemoveEntity, TypeOK
  <2> QED
    BY <1>4, <2>1, <2>2 DEF RemoveEntity, TypeOK, Draws
<1>5. ASSUME NEW c \in Calls, Handler(c)
      PROVE  TypeOK' /\ AnswersAreAsked'
  <2>1. call' \in [Calls -> CallState] /\ AnswersAreAsked'
    BY <1>5, HandlerEffect DEF CallsKeepOn
  <2>2. UNCHANGED <<serverVars, clientVars>>
    BY <1>5 DEF Handler, Lookup, Check, Wait, Watcher, Discard
  <2> QED
    BY <2>1, <2>2 DEF TypeOK, serverVars, clientVars
<1>6. ASSUME NEW n \in 1 .. Len(inbox), FrameRemoves(n)
      PROVE  TypeOK' /\ AnswersAreAsked'
  <2>1. inbox' \in Seq(0 .. MaxDraws)
    BY <1>6, FrameEffect DEF FrameRemoves, TypeOK
  <2>2. loaded' \in [Places -> Chunks \cup {Nothing}]
    BY <1>6 DEF FrameRemoves, EmptyGeometry
  <2>3. AnswersAreAsked'
    BY <1>6 DEF FrameRemoves, AnswersAreAsked
  <2>4. mine' \in BOOLEAN
    BY <1>6 DEF FrameRemoves
  <2> QED
    BY <1>6, <2>1, <2>2, <2>3, <2>4 DEF FrameRemoves, TypeOK, serverVars
<1>7. ASSUME NEW n \in 1 .. Len(inbox), FrameDraws(n)
      PROVE  TypeOK' /\ AnswersAreAsked'
  <2>1. inbox' \in Seq(0 .. MaxDraws)
    BY <1>7, FrameEffect DEF FrameDraws, TypeOK
  <2>2. inbox[n] \in Draws /\ inbox[n] \in 0 .. MaxDraws
    BY <1>7 DEF FrameDraws, TypeOK, Draws
  <2>3. loaded' \in [Places -> Chunks \cup {Nothing}]
    BY <1>7, <2>2 DEF FrameDraws, EmptyGeometry, Chunks, Places
  <2>4. call' \in [Calls -> CallState] /\ AnswersAreAsked' /\ awaited' \in Calls \cup {NoCall}
        /\ mine' \in BOOLEAN
    <3>1. CASE awaited # NoCall \/ ~up
      BY <1>7, <3>1 DEF FrameDraws, TypeOK, AnswersAreAsked
    <3>2. CASE ~(awaited # NoCall \/ ~up)
      <4>1. 1 \in Offsets
        BY DEF Offsets
      <4>2. PICK c \in Calls : call' = [call EXCEPT ![c] = Request(1)] /\ awaited' = c /\ mine' = TRUE
        BY <1>7, <3>2 DEF FrameDraws
      <4> QED
        BY <4>1, <4>2, RequestEffect DEF TypeOK, AnswersAreAsked
    <3> QED
      BY <3>1, <3>2
  <2> QED
    BY <1>7, <2>1, <2>2, <2>3, <2>4 DEF FrameDraws, TypeOK, serverVars
<1>8. CASE PullEnds
  <2>1. call' \in [Calls -> CallState] /\ AnswersAreAsked'
    BY <1>8, RequestEffect DEF PullEnds, TypeOK, AnswersAreAsked, Offsets
  <2> QED
    BY <1>8, <2>1 DEF PullEnds, TypeOK, serverVars
<1>9. CASE PullWrites
  <2>1. awaited \in Calls /\ call[awaited] \in CallState /\ call[awaited].at = "chunk"
        /\ call[awaited].start < Total
    BY <1>9 DEF PullWrites, TypeOK, AnswersAreAsked, AnswerIsAsked
  <2>2. call[awaited].start + 1 \in Offsets /\ 0 \in Offsets
    BY <2>1 DEF CallState, Offsets
  <2>3. call' \in [Calls -> CallState] /\ AnswersAreAsked'
        /\ awaited' \in Calls \cup {NoCall} /\ mine' \in BOOLEAN
    BY <1>9, <2>1, <2>2, RequestEffect DEF PullWrites, TypeOK, AnswersAreAsked
  <2>4. loaded' \in [Places -> Chunks \cup {Nothing}]
    BY <1>9, <2>1 DEF PullWrites, TypeOK, CallState
  <2> QED
    BY <1>9, <2>3, <2>4 DEF PullWrites, TypeOK, serverVars
<1>10. CASE Connect
  <2>1. inbox' \in Seq(0 .. MaxDraws)
    <3>1. <<current>> \in Seq(0 .. MaxDraws) /\ <<>> \in Seq(0 .. MaxDraws)
      BY DEF TypeOK
    <3> QED
      BY <1>10, <3>1 DEF Connect
  <2>2. loaded' \in [Places -> Chunks \cup {Nothing}]
    BY <1>10 DEF Connect, EmptyGeometry
  <2>3. AnswersAreAsked'
    BY <1>10 DEF Connect, AnswersAreAsked
  <2> QED
    BY <1>10, <2>1, <2>2, <2>3 DEF Connect, TypeOK, serverVars
<1>11. CASE Lose
  <2>1. call' \in [Calls -> CallState] /\ AnswersAreAsked'
    <3>1. CASE awaited = NoCall
      BY <1>11, <3>1 DEF Lose, TypeOK, AnswersAreAsked
    <3>2. CASE awaited # NoCall
      <4> DEFINE k == [call[awaited] EXCEPT !.ctx = FALSE]
      <4>1. awaited \in Calls /\ call[awaited] \in CallState /\ AnswerIsAsked(call[awaited])
        BY <3>2 DEF TypeOK, AnswersAreAsked
      <4>2. k \in CallState /\ AnswerIsAsked(k)
        BY <4>1 DEF CallState, AnswerIsAsked
      <4>3. call' = [call EXCEPT ![awaited] = k]
        BY <1>11, <3>2, <4>1 DEF Lose, TypeOK
      <4> HIDE DEF k
      <4> QED
        BY <4>1, <4>2, <4>3 DEF TypeOK, AnswersAreAsked
    <3> QED
      BY <3>1, <3>2
  <2>2. up' \in BOOLEAN /\ mine' \in BOOLEAN
    BY <1>11 DEF Lose
  <2> QED
    BY <1>11, <2>1, <2>2 DEF Lose, TypeOK, serverVars
<1> QED
  BY <1>1, <1>2, <1>3, <1>4, <1>5, <1>6, <1>7, <1>8, <1>9, <1>10, <1>11 DEF Next, Flush

-----------------------------------------------------------------------------
(* The store and the stream.                                               *)

(* Chunks are appended in order, each draw to a buffer of its own, and to  *)
(* that of the running draw only (accumulateChunk).                        *)
LEMMA BuffersStep ==
    ASSUME TypeOK, BuffersInOrder, Next
    PROVE  BuffersInOrder'
<1> USE TotalAssumption, MaxDrawsAssumption
<1>1. CASE Draw
  <2>1. draws' \in Draws /\ draws \in Nat /\ draws' = draws + 1 /\ current' = draws'
    BY <1>1 DEF Draw, TypeOK, Draws
  <2>2. \A d \in Draws : buffer'[d] = IF d = draws' THEN <<<<d, 1>>>> ELSE buffer[d]
    BY <1>1 DEF Draw, TypeOK
  <2>3. ASSUME NEW d \in Draws
        PROVE  Len(buffer'[d]) <= Total /\ \A i \in 1 .. Len(buffer'[d]) : buffer'[d][i] = <<d, i>>
    <3>1. CASE d = draws'
      <4>1. buffer'[d] = <<<<d, 1>>>>
        BY <2>2, <3>1
      <4>2. Len(buffer'[d]) = 1 /\ buffer'[d][1] = <<d, 1>>
        BY <4>1
      <4> QED
        BY <4>2
    <3>2. CASE d # draws'
      BY <2>2, <3>2 DEF BuffersInOrder
    <3> QED
      BY <3>1, <3>2
  <2>4. next' # 0 => next' = 2 /\ Len(buffer'[draws']) = 1
    BY <1>1, <2>1, <2>2 DEF Draw
  <2>5. current' <= draws' /\ (next' # 0 /\ current' # 0 =>
                                 current' = draws' /\ Len(buffer'[current']) = next' - 1)
    <3>1. current' <= draws'
      BY <2>1
    <3>2. next' # 0 => Len(buffer'[current']) = 2 - 1
      BY <2>1, <2>4
    <3> QED
      BY <2>1, <2>4, <3>1, <3>2
  <2> QED
    BY <2>3, <2>5 DEF BuffersInOrder
<1>2. CASE SendChunk
  <2>1. current \in Draws /\ draws = current /\ next \in Places /\ Len(buffer[current]) = next - 1
    BY <1>2 DEF SendChunk, TypeOK, BuffersInOrder, Draws, Places, Offsets
  <2>2. buffer' = [buffer EXCEPT ![current] = Append(buffer[current], <<current, next>>)]
    BY <1>2, <2>1 DEF SendChunk
  <2>3. buffer[current] \in Seq(Chunks) /\ <<current, next>> \in Chunks
    BY <2>1 DEF TypeOK, Chunks
  <2>4. /\ Len(buffer'[current]) = next
        /\ \A i \in 1 .. next : buffer'[current][i] = <<current, i>>
    <3>1. buffer'[current] = Append(buffer[current], <<current, next>>)
      BY <2>1, <2>2 DEF TypeOK
    <3>2. /\ Len(buffer'[current]) = next
          /\ \A i \in 1 .. next - 1 : buffer'[current][i] = buffer[current][i]
          /\ buffer'[current][next] = <<current, next>>
      BY <2>1, <2>3, <3>1, AppendProperties DEF Places
    <3>3. \A i \in 1 .. next - 1 : buffer[current][i] = <<current, i>>
      BY <2>1 DEF BuffersInOrder
    <3> QED
      BY <2>1, <3>2, <3>3 DEF Places
  <2>5. \A d \in Draws \ {current} : buffer'[d] = buffer[d]
    BY <2>2 DEF TypeOK
  <2>6. next' # 0 => next' = next + 1
    BY <1>2 DEF SendChunk, Following
  <2>7. UNCHANGED <<draws, current>>
    BY <1>2 DEF SendChunk
  <2>8. ASSUME NEW d \in Draws
        PROVE  Len(buffer'[d]) <= Total /\ \A i \in 1 .. Len(buffer'[d]) : buffer'[d][i] = <<d, i>>
    <3>1. CASE d = current
      BY <2>1, <2>4, <3>1 DEF Places
    <3>2. CASE d # current
      BY <2>5, <3>2 DEF BuffersInOrder
    <3> QED
      BY <3>1, <3>2
  <2> QED
    BY <2>1, <2>4, <2>6, <2>7, <2>8 DEF BuffersInOrder, Places
<1>3. CASE SendFails
  BY <1>3 DEF SendFails, BuffersInOrder
<1>4. CASE RemoveEntity
  BY <1>4 DEF RemoveEntity, BuffersInOrder, TypeOK
<1>5. CASE UNCHANGED serverVars
  BY <1>5 DEF BuffersInOrder, serverVars
<1>6. Draw \/ SendChunk \/ SendFails \/ RemoveEntity \/ UNCHANGED serverVars
  BY DEF Next, Handler, Lookup, Check, Wait, Watcher, Discard, Flush, FrameRemoves,
         FrameDraws, PullEnds, PullWrites, Connect, Lose
<1> QED
  BY <1>1, <1>2, <1>3, <1>4, <1>5, <1>6

(* The inbox stays in order: the store tells of newer draws only, a frame  *)
(* takes a beginning of what is there, and a reconnect starts over.        *)
LEMMA InboxStep ==
    ASSUME TypeOK, BuffersInOrder, InboxInOrder, Next
    PROVE  InboxInOrder'
<1> USE MaxDrawsAssumption DEF InboxInOrder
<1>1. /\ draws \in Nat /\ shown \in Nat /\ current \in Nat
      /\ Len(inbox) \in Nat /\ inbox \in Seq(0 .. MaxDraws)
      /\ \A i \in 1 .. Len(inbox) : inbox[i] \in Nat
  <2>1. \A i \in 1 .. Len(inbox) : inbox[i] \in 0 .. MaxDraws
    BY ElementOfSeq DEF TypeOK
  <2> QED
    BY <2>1 DEF TypeOK
<1>2. ASSUME NEW what \in 0 .. MaxDraws, Told(what), current' = what,
             draws' \in Nat, draws' >= draws, what = 0 \/ what > draws, what <= draws',
             UNCHANGED <<shown, up>>
      PROVE  InboxInOrder'
  <2>1. CASE ~up
    BY <1>1, <1>2, <2>1 DEF Told
  <2>2. CASE up
    <3>1. /\ Len(inbox') = Len(inbox) + 1
          /\ inbox'[Len(inbox')] = what
          /\ \A i \in 1 .. Len(inbox) : inbox'[i] = inbox[i]
          /\ inbox' # <<>>
      BY <1>1, <1>2, <2>2, ToldEffect
    <3>2. \A i \in 1 .. Len(inbox') : i \in 1 .. Len(inbox) \/ i = Len(inbox')
      BY <1>1, <3>1
    <3>3. \A i \in 1 .. Len(inbox') : inbox'[i] <= draws' /\ (inbox'[i] # 0 => inbox'[i] > shown)
      BY <1>1, <1>2, <3>1, <3>2
    <3>4. ASSUME NEW i \in 1 .. Len(inbox'), NEW j \in 1 .. Len(inbox'), i < j, inbox'[j] # 0
          PROVE  inbox'[i] < inbox'[j]
      <4>1. i \in 1 .. Len(inbox)
        BY <1>1, <3>1, <3>4
      <4>2. CASE j \in 1 .. Len(inbox)
        BY <3>1, <3>4, <4>1, <4>2
      <4>3. CASE j = Len(inbox')
        BY <1>1, <1>2, <3>1, <3>4, <4>1, <4>3
      <4> QED
        BY <3>2, <4>2, <4>3
    <3> QED
      BY <1>1, <1>2, <3>1, <3>3, <3>4
  <2> QED
    BY <2>1, <2>2
<1>3. CASE Draw
  <2>1. draws' = draws + 1 /\ draws' \in 0 .. MaxDraws /\ draws' \in Nat /\ Told(draws')
        /\ current' = draws' /\ UNCHANGED <<shown, up>>
    BY <1>1, <1>3 DEF Draw, TypeOK
  <2> QED
    BY <1>1, <1>2, <2>1
<1>4. CASE RemoveEntity
  <2>1. 0 \in 0 .. MaxDraws /\ Told(0) /\ current' = 0 /\ UNCHANGED <<shown, up, draws>>
    BY <1>4 DEF RemoveEntity, TypeOK
  <2> QED
    BY <1>1, <1>2, <2>1
<1>5. ASSUME NEW n \in 1 .. Len(inbox), inbox' = SubSeq(inbox, n + 1, Len(inbox)),
             shown' = inbox[n], UNCHANGED <<draws, current, up>>
      PROVE  InboxInOrder'
  <2>1. /\ Len(inbox') = Len(inbox) - n
        /\ \A i \in 1 .. Len(inbox') : inbox'[i] = inbox[n + i]
        /\ inbox' \in Seq(0 .. MaxDraws)
    BY <1>1, <1>5, FrameEffect
  <2>2. \A i \in 1 .. Len(inbox') : n + i \in 1 .. Len(inbox) /\ n < n + i
    BY <1>1, <2>1
  <2>3. \A i \in 1 .. Len(inbox') : inbox'[i] <= draws /\ (inbox'[i] # 0 => inbox'[i] > shown')
    BY <1>1, <1>5, <2>1, <2>2
  <2>4. \A i, j \in 1 .. Len(inbox') : i < j /\ inbox'[j] # 0 => inbox'[i] < inbox'[j]
    <3>1. \A i, j \in 1 .. Len(inbox') : i < j => n + i < n + j
      BY <1>1, <2>1
    <3> QED
      BY <2>1, <2>2, <3>1
  <2>5. up => current = IF inbox' = <<>> THEN shown' ELSE inbox'[Len(inbox')]
    <3>1. up => current = inbox[Len(inbox)]
      BY <1>1
    <3>2. CASE inbox' = <<>>
      <4>1. n = Len(inbox)
        BY <1>1, <2>1, <3>2
      <4> QED
        BY <1>5, <3>1, <3>2, <4>1
    <3>3. CASE inbox' # <<>>
      <4>1. Len(inbox') \in 1 .. Len(inbox') /\ n + Len(inbox') = Len(inbox)
        BY <1>1, <2>1, <3>3
      <4> QED
        BY <2>1, <3>1, <3>3, <4>1
    <3> QED
      BY <3>2, <3>3
  <2> QED
    BY <1>1, <1>5, <2>3, <2>4, <2>5
<1>6. CASE Flush
  <2>1. PICK n \in 1 .. Len(inbox) : FrameRemoves(n) \/ FrameDraws(n)
    BY <1>6 DEF Flush
  <2> QED
    BY <2>1, <1>5 DEF FrameRemoves, FrameDraws, serverVars
<1>7. CASE Connect
  <2>1. current <= draws /\ shown' = 0 /\ draws' = draws /\ current' = current
        /\ inbox' = IF current = 0 THEN <<>> ELSE <<current>>
    BY <1>7 DEF Connect, serverVars, BuffersInOrder
  <2>2. CASE current = 0
    BY <1>1, <2>1, <2>2
  <2>3. CASE current # 0
    BY <1>1, <2>1, <2>3
  <2> QED
    BY <2>2, <2>3
<1>8. CASE Lose
  BY <1>8 DEF Lose, serverVars
<1>9. CASE UNCHANGED <<draws, current, up, inbox, shown>>
  BY <1>9
<1>10. \/ Draw \/ RemoveEntity \/ Flush \/ Connect \/ Lose
       \/ UNCHANGED <<draws, current, up, inbox, shown>>
  BY DEF Next, Handler, Lookup, Check, Wait, Watcher, Discard, SendChunk, SendFails,
         PullEnds, PullWrites, serverVars, clientVars
<1> QED
  BY <1>3, <1>4, <1>6, <1>7, <1>8, <1>9, <1>10

-----------------------------------------------------------------------------
(* The pull and the geometry.                                              *)

(* The first chunk of a draw on an empty geometry.                         *)
LEMMA FirstChunk ==
    ASSUME NEW d \in Draws, loaded' = [EmptyGeometry EXCEPT ![1] = <<d, 1>>]
    PROVE  Filled' = {1} /\ loaded'[1] = <<d, 1>>
<1>1. 1 \in Places /\ <<d, 1>> \in Chunks
  BY TotalAssumption DEF Places, Chunks
<1>2. <<d, 1>> # Nothing
  BY <1>1, NothingAssumption
<1>3. loaded'[1] = <<d, 1>> /\ \A i \in Places \ {1} : loaded'[i] = Nothing
  BY <1>1 DEF EmptyGeometry
<1> QED
  BY <1>1, <1>2, <1>3 DEF Filled

(* What a frame does to the screen.                                        *)
LEMMA FrameOnScreen ==
    ASSUME TypeOK, NEW n \in 1 .. Len(inbox), FrameDraws(n)
    PROVE  /\ inbox[n] \in Draws /\ shown' = inbox[n]
           /\ Filled' = {1} /\ loaded'[1] = <<shown', 1>>
           /\ \/ mine' = FALSE /\ UNCHANGED <<call, awaited>>
              \/ /\ up /\ mine' = TRUE /\ awaited' \in Calls
                 /\ call'[awaited'].start = 1 /\ call'[awaited'].gen = 0
<1>1. inbox[n] \in 0 .. MaxDraws /\ inbox[n] # 0
  BY ElementOfSeq DEF TypeOK, FrameDraws
<1>2. inbox[n] \in Draws
  BY <1>1, MaxDrawsAssumption DEF Draws
<1>3. Filled' = {1} /\ loaded'[1] = <<inbox[n], 1>>
  BY <1>2, FirstChunk DEF FrameDraws
<1>4. CASE awaited # NoCall \/ ~up
  BY <1>2, <1>3, <1>4 DEF FrameDraws
<1>5. CASE ~(awaited # NoCall \/ ~up)
  <2>1. PICK c \in Calls : call' = [call EXCEPT ![c] = Request(1)] /\ awaited' = c /\ mine' = TRUE
    BY <1>5 DEF FrameDraws
  <2>2. Request(1).start = 1 /\ Request(1).gen = 0
    BY TotalAssumption, RequestEffect DEF Offsets
  <2>3. call'[awaited'] = Request(1)
    BY <2>1 DEF TypeOK
  <2>4. mine' = TRUE /\ awaited' \in Calls
    BY <2>1
  <2> QED
    BY <1>2, <1>3, <1>5, <2>2, <2>3, <2>4 DEF FrameDraws
<1> QED
  BY <1>4, <1>5

(* A pull writes the chunk that comes next, of the buffer it looked up.    *)
LEMMA PullOnScreen ==
    ASSUME TypeOK, AnswersAreAsked, NoHoles, PullWrites
    PROVE  LET place == call[awaited].start + 1
           IN  /\ awaited \in Calls /\ place \in Places
               /\ Filled = 1 .. place - 1 /\ Filled' = 1 .. place
               /\ loaded' = [loaded EXCEPT ![place] = <<call[awaited].gen, place>>]
               /\ call[awaited].gen # 0
               /\ mine' = FALSE \/ (awaited' = awaited /\ call'[awaited].start = place
                                       /\ call'[awaited].gen = 0)
<1> DEFINE place == call[awaited].start + 1
<1>1. /\ awaited \in Calls /\ awaited # NoCall /\ mine /\ call[awaited] \in CallState
      /\ call[awaited].start \in Nat /\ call[awaited].start < Total
      /\ call[awaited].gen # 0
      /\ call[awaited].value = <<call[awaited].gen, place>>
      /\ call[awaited].value \in Chunks \cup {Nothing}
  BY NoCallAssumption DEF PullWrites, TypeOK, AnswersAreAsked, AnswerIsAsked, CallState, Offsets
<1>2. place \in Places /\ place \in Offsets
  BY <1>1, TotalAssumption DEF Places, Offsets
<1>3. \A i \in Places : i \in Filled <=> i <= call[awaited].start
  BY <1>1 DEF NoHoles
<1>4. Filled = 1 .. place - 1
  BY <1>1, <1>2, <1>3, TotalAssumption DEF Filled, Places
<1>5. loaded' = [loaded EXCEPT ![place] = <<call[awaited].gen, place>>]
  BY <1>1 DEF PullWrites
<1>6. <<call[awaited].gen, place>> # Nothing
  <2>1. call[awaited].gen \in Draws
    BY <1>1, MaxDrawsAssumption DEF CallState, Draws
  <2>2. <<call[awaited].gen, place>> \in Chunks
    BY <1>2, <2>1 DEF Chunks
  <2> QED
    BY <2>2, NothingAssumption
<1>7. Filled' = 1 .. place
  <2>1. Filled' = Filled \cup {place}
    BY <1>2, <1>5, <1>6 DEF TypeOK, Filled
  <2> QED
    BY <1>1, <1>4, <2>1
<1>8. mine' = FALSE \/ (awaited' = awaited /\ call'[awaited].start = place
                              /\ call'[awaited].gen = 0)
  <2>1. CASE call[awaited].done
    BY <2>1 DEF PullWrites
  <2>2. CASE ~call[awaited].done
    <3>1. call' = [call EXCEPT ![awaited] = Request(place)] /\ awaited' = awaited
      BY <2>2 DEF PullWrites
    <3>2. call'[awaited] = Request(place)
      BY <1>1, <3>1 DEF TypeOK
    <3> QED
      BY <1>2, <3>1, <3>2, RequestEffect
  <2> QED
    BY <2>1, <2>2
<1> QED
  BY <1>1, <1>2, <1>4, <1>5, <1>7, <1>8

(* Chunks fall into their places, and the pull of the entity on the screen *)
(* asks for the next one, of the draw on the screen or of a newer one that *)
(* is on its way.                                                          *)
LEMMA PullStep ==
    ASSUME TypeOK, BuffersInOrder, AnswersAreAsked, InboxInOrder, PullContinues, NoHoles, Next
    PROVE  PullContinues' /\ NoHoles'
<1>1. ASSUME CallsKeepOn, UNCHANGED <<clientVars, current>>
      PROVE  PullContinues' /\ NoHoles'
  <2>1. awaited # NoCall /\ mine =>
          /\ call'[awaited].start = call[awaited].start
          /\ call'[awaited].gen \in {call[awaited].gen, current}
    BY <1>1 DEF CallsKeepOn, TypeOK
  <2>2. up /\ inbox = <<>> => current = shown
    BY DEF InboxInOrder
  <2>3. UNCHANGED <<up, inbox, shown, loaded, awaited, mine>> /\ Filled' = Filled
    BY <1>1 DEF clientVars, Filled
  <2> QED
    BY <2>1, <2>2, <2>3 DEF PullContinues, NoHoles
<1>2. CASE Draw
  <2>1. inbox' = IF up THEN Append(inbox, draws') ELSE inbox
    BY <1>2 DEF Draw, Told
  <2>2. draws' \in 0 .. MaxDraws
    BY <1>2, MaxDrawsAssumption DEF Draw, TypeOK
  <2>3. up => inbox' # <<>>
    BY <1>2, <2>2, ToldEffect DEF Draw, TypeOK
  <2>4. UNCHANGED <<call, up, shown, loaded, awaited, mine>> /\ Filled' = Filled
    BY <1>2 DEF Draw, Filled
  <2> QED
    BY <2>3, <2>4 DEF PullContinues, NoHoles
<1>3. CASE SendChunk
  <2>1. CallsKeepOn
    BY <1>3, WokenEffect DEF SendChunk, CallsKeepOn, TypeOK, AnswersAreAsked
  <2> QED
    BY <1>1, <1>3, <2>1 DEF SendChunk
<1>4. CASE SendFails
  <2>1. CallsKeepOn /\ UNCHANGED <<clientVars, current>>
    BY <1>4 DEF SendFails, CallsKeepOn, TypeOK, AnswersAreAsked
  <2> QED
    BY <1>1, <2>1
<1>5. CASE RemoveEntity
  <2>1. up => inbox' # <<>>
    BY <1>5, MaxDrawsAssumption, ToldEffect DEF RemoveEntity, TypeOK
  <2>2. \A c \in Calls : call'[c].start = call[c].start
    BY <1>5, WokenEffect DEF RemoveEntity, TypeOK
  <2>3. UNCHANGED <<up, shown, loaded, awaited, mine>> /\ Filled' = Filled
    BY <1>5 DEF RemoveEntity, Filled
  <2> QED
    BY <2>1, <2>2, <2>3 DEF PullContinues, NoHoles, TypeOK
<1>6. ASSUME NEW c \in Calls, Handler(c)
      PROVE  PullContinues' /\ NoHoles'
  <2>1. UNCHANGED <<clientVars, current>>
    BY <1>6 DEF Handler, Lookup, Check, Wait, Watcher, Discard, serverVars
  <2> QED
    BY <1>1, <1>6, <2>1, HandlerEffect
<1>7. ASSUME Filled' = {}, mine' = FALSE
      PROVE  PullContinues' /\ NoHoles'
  BY <1>7 DEF PullContinues, NoHoles
<1>8. ASSUME NEW n \in 1 .. Len(inbox), FrameRemoves(n)
      PROVE  PullContinues' /\ NoHoles'
  <2>1. Filled' = {}
    BY <1>8 DEF FrameRemoves, Filled, EmptyGeometry
  <2> QED
    BY <1>7, <1>8, <2>1 DEF FrameRemoves
<1>9. ASSUME NEW n \in 1 .. Len(inbox), FrameDraws(n)
      PROVE  PullContinues' /\ NoHoles'
  <2>1. /\ inbox[n] \in Draws /\ shown' = inbox[n]
        /\ Filled' = {1} /\ loaded'[1] = <<shown', 1>>
        /\ \/ mine' = FALSE /\ UNCHANGED <<call, awaited>>
           \/ /\ up /\ mine' = TRUE /\ awaited' \in Calls
              /\ call'[awaited'].start = 1 /\ call'[awaited'].gen = 0
    BY <1>9, FrameOnScreen
  <2>2. shown' # 0
    BY <2>1 DEF Draws
  <2>3. up' = up
    BY <1>9 DEF FrameDraws
  <2>4. \A i \in Filled' : loaded'[i][2] = i /\ 1 .. i \subseteq Filled'
    BY <2>1
  <2>5. CASE mine' = FALSE
    BY <2>4, <2>5 DEF PullContinues, NoHoles
  <2>6. CASE up /\ mine' = TRUE /\ awaited' \in Calls
              /\ call'[awaited'].start = 1 /\ call'[awaited'].gen = 0
    <3>1. \A i \in Places : i \in Filled' <=> i <= call'[awaited'].start
      BY <2>1, <2>6, TotalAssumption DEF Places
    <3> QED
      BY <2>2, <2>3, <2>4, <2>6, <3>1, NoCallAssumption DEF PullContinues, NoHoles
  <2> QED
    BY <2>1, <2>5, <2>6
<1>10. CASE PullEnds
  <2>1. UNCHANGED loaded /\ mine' = FALSE /\ Filled' = Filled
    BY <1>10 DEF PullEnds, Filled
  <2> QED
    BY <2>1 DEF PullContinues, NoHoles
<1>11. CASE PullWrites
  <2> DEFINE place == call[awaited].start + 1
  <2>1. /\ awaited \in Calls /\ place \in Places
        /\ Filled = 1 .. place - 1 /\ Filled' = 1 .. place
        /\ loaded' = [loaded EXCEPT ![place] = <<call[awaited].gen, place>>]
        /\ mine' = FALSE \/ (awaited' = awaited /\ call'[awaited].start = place
                                /\ call'[awaited].gen = 0)
    BY <1>11, PullOnScreen
  <2> HIDE DEF place
  <2>2. UNCHANGED <<up, inbox, shown>> /\ mine /\ awaited # NoCall
    BY <1>11 DEF PullWrites
  <2>3. \A i \in Filled' : loaded'[i][2] = i /\ 1 .. i \subseteq Filled'
    <3>1. ASSUME NEW i \in Filled' PROVE loaded'[i][2] = i
      <4>1. i \in Places
        BY <3>1 DEF Filled
      <4>2. CASE i = place
        BY <2>1, <4>1, <4>2 DEF TypeOK
      <4>3. CASE i # place
        <5>1. i \in Filled /\ loaded'[i] = loaded[i]
          BY <2>1, <3>1, <4>1, <4>3 DEF TypeOK, Places
        <5> QED
          BY <5>1 DEF NoHoles
      <4> QED
        BY <4>2, <4>3
    <3>2. ASSUME NEW i \in Filled' PROVE 1 .. i \subseteq Filled'
      BY <2>1, <3>2 DEF Places
    <3> QED
      BY <3>1, <3>2
  <2>4. CASE mine' = FALSE
    BY <2>3, <2>4 DEF PullContinues, NoHoles
  <2>5. CASE awaited' = awaited /\ call'[awaited].start = place /\ call'[awaited].gen = 0
    <3>1. \A i \in Places : i \in Filled' <=> i <= place
      BY <2>1 DEF Places
    <3>2. place # 0
      BY <2>1 DEF Places
    <3> QED
      BY <2>2, <2>3, <2>5, <3>1, <3>2 DEF PullContinues, NoHoles
  <2> QED
    BY <2>1, <2>4, <2>5
<1>12. CASE Connect
  <2>1. Filled' = {}
    BY <1>12 DEF Connect, Filled, EmptyGeometry
  <2>2. ~mine /\ UNCHANGED mine
    BY <1>12 DEF Connect, PullContinues
  <2> QED
    BY <2>1, <2>2 DEF PullContinues, NoHoles
<1>13. CASE Lose
  <2>1. UNCHANGED loaded /\ mine' = FALSE /\ Filled' = Filled
    BY <1>13 DEF Lose, Filled
  <2> QED
    BY <2>1 DEF PullContinues, NoHoles
<1> QED
  BY <1>2, <1>3, <1>4, <1>5, <1>6, <1>8, <1>9, <1>10, <1>11, <1>12, <1>13 DEF Next, Flush

(* With nothing left to apply, what is loaded and what the pull asks for   *)
(* are of the draw on the screen.                                          *)
LEMMA OneDrawStep ==
    ASSUME Inv, Next
    PROVE  OneDrawOnly'
<1> USE DEF Inv
<1>1. CASE UNCHANGED <<shown, loaded>> /\ (UNCHANGED <<up, inbox>> \/ (up' => inbox' # <<>>))
  BY <1>1 DEF OneDrawOnly, Filled
<1>2. ASSUME NEW what \in 0 .. MaxDraws, Told(what), UNCHANGED <<up, shown, loaded>>
      PROVE  OneDrawOnly'
  BY <1>1, <1>2, ToldEffect DEF TypeOK
<1>3. CASE Draw
  <2>1. draws' \in 0 .. MaxDraws
    BY <1>3, MaxDrawsAssumption DEF Draw, TypeOK
  <2> QED
    BY <1>2, <1>3, <2>1 DEF Draw
<1>4. CASE RemoveEntity
  BY <1>2, <1>4, MaxDrawsAssumption DEF RemoveEntity
<1>5. ASSUME Filled' = {}
      PROVE  OneDrawOnly'
  BY <1>5 DEF OneDrawOnly
<1>6. ASSUME NEW n \in 1 .. Len(inbox), FrameRemoves(n)
      PROVE  OneDrawOnly'
  BY <1>5, <1>6 DEF FrameRemoves, Filled, EmptyGeometry
<1>7. ASSUME NEW n \in 1 .. Len(inbox), FrameDraws(n)
      PROVE  OneDrawOnly'
  <2>1. Filled' = {1} /\ loaded'[1] = <<shown', 1>>
    BY <1>7, FrameOnScreen
  <2> QED
    BY <2>1 DEF OneDrawOnly
<1>8. CASE PullWrites
  <2> DEFINE place == call[awaited].start + 1
  <2>1. /\ place \in Places
        /\ Filled = 1 .. place - 1 /\ Filled' = 1 .. place
        /\ loaded' = [loaded EXCEPT ![place] = <<call[awaited].gen, place>>]
        /\ call[awaited].gen # 0
    BY <1>8, PullOnScreen
  <2>2. UNCHANGED <<up, inbox, shown>> /\ mine /\ awaited # NoCall
    BY <1>8 DEF PullWrites
  <2>3. inbox = <<>> => call[awaited].gen = shown
    BY <2>1, <2>2 DEF PullContinues
  <2> HIDE DEF place
  <2>4. ASSUME up, inbox = <<>>, NEW i \in Filled'
        PROVE  loaded'[i][1] = shown
    <3>1. i \in Places
      BY <2>4 DEF Filled
    <3>2. CASE i = place
      BY <2>1, <2>3, <2>4, <3>1, <3>2 DEF TypeOK
    <3>3. CASE i # place
      <4>1. i \in Filled /\ loaded'[i] = loaded[i]
        BY <2>1, <2>4, <3>1, <3>3 DEF TypeOK, Places
      <4> QED
        BY <2>4, <4>1 DEF OneDrawOnly
    <3> QED
      BY <3>2, <3>3
  <2> QED
    BY <2>2, <2>4 DEF OneDrawOnly
<1>9. CASE Connect
  BY <1>5, <1>9 DEF Connect, Filled, EmptyGeometry
<1>10. CASE Lose
  BY <1>10 DEF Lose, OneDrawOnly
<1>11. CASE UNCHANGED <<up, inbox, shown, loaded>>
  BY <1>1, <1>11
<1>12. \/ Draw \/ RemoveEntity \/ Flush \/ PullWrites \/ Connect \/ Lose
       \/ UNCHANGED <<up, inbox, shown, loaded>>
  BY DEF Next, Handler, Lookup, Check, Wait, Watcher, Discard, SendChunk, SendFails,
         PullEnds, clientVars
<1> QED
  BY <1>3, <1>4, <1>6, <1>7, <1>8, <1>9, <1>10, <1>11, <1>12 DEF Flush

-----------------------------------------------------------------------------
(* The theorems.                                                           *)

LEMMA InvInit == Init => Inv
<1> SUFFICES ASSUME Init PROVE Inv
  OBVIOUS
<1>1. TypeOK /\ AnswersAreAsked
  BY TypeInit
<1>2. Filled = {} /\ inbox = <<>> /\ shown = 0 /\ mine = FALSE
  BY DEF Init, Filled, EmptyGeometry
<1>3. BuffersInOrder
  BY TotalAssumption DEF Init, BuffersInOrder
<1>4. InboxInOrder
  BY DEF Init, InboxInOrder
<1>5. PullContinues /\ NoHoles /\ OneDrawOnly
  BY <1>2 DEF PullContinues, NoHoles, OneDrawOnly
<1> QED
  BY <1>1, <1>3, <1>4, <1>5 DEF Inv

LEMMA InvStep == Inv /\ [Next]_vars => Inv'
<1> SUFFICES ASSUME Inv, [Next]_vars PROVE Inv'
  OBVIOUS
<1>1. CASE Next
  BY <1>1, TypeStep, BuffersStep, InboxStep, PullStep, OneDrawStep DEF Inv
<1>2. CASE UNCHANGED vars
  <2>1. UNCHANGED <<draws, next, current, buffer, complete, closed, call, up, losses,
                    inbox, shown, loaded, awaited, mine>>
    BY <1>2 DEF vars, serverVars, clientVars
  <2>2. TypeOK' /\ AnswersAreAsked'
    BY <2>1 DEF Inv, TypeOK, AnswersAreAsked
  <2>3. BuffersInOrder' /\ InboxInOrder' /\ PullContinues'
    BY <2>1 DEF Inv, BuffersInOrder, InboxInOrder, PullContinues
  <2>4. Filled' = Filled
    BY <2>1 DEF Filled
  <2>5. NoHoles' /\ OneDrawOnly'
    BY <2>1, <2>4 DEF Inv, NoHoles, OneDrawOnly
  <2> QED
    BY <2>2, <2>3, <2>5 DEF Inv
<1> QED
  BY <1>1, <1>2

(* The inductive invariant holds. *)
THEOREM TransferInv == Spec => []Inv
<1> QED
  BY InvInit, InvStep, PTL DEF Spec

(* Sender, buffers, handlers and the pull keep their types: no answer      *)
(* reaches past the drawing (GetEntityChunk's offsets).                    *)
THEOREM TransferTypeCorrect == Spec => []TypeOK
<1>1. Inv => TypeOK
  BY DEF Inv
<1> QED
  BY <1>1, TransferInv, PTL

(* Chunks land in their places, in order and without a hole, for every     *)
(* length of the drawing and however often it is redrawn, removed or cut.  *)
THEOREM TransferNoHoles == Spec => []NoHoles
<1>1. Inv => NoHoles
  BY DEF Inv
<1> QED
  BY <1>1, TransferInv, PTL

(* No pull leaves chunks of one draw in the entity of another.             *)
THEOREM TransferOneDraw == Spec => []OneDrawOnly
<1>1. Inv => OneDrawOnly
  BY DEF Inv
<1> QED
  BY <1>1, TransferInv, PTL

-----------------------------------------------------------------------------
(* The refinement.                                                         *)

LEMMA PictureStep ==
    ASSUME Inv, Next
    PROVE  [Picture!Next]_(Picture!vars)
<1> USE DEF Inv, Picture!Next, Picture!vars
<1>1. ASSUME NEW n \in 1 .. Len(inbox), FrameRemoves(n)
      PROVE  Picture!Next
  BY <1>1 DEF FrameRemoves, Filled, EmptyGeometry, Picture!TakeAway
<1>2. ASSUME NEW n \in 1 .. Len(inbox), FrameDraws(n)
      PROVE  Picture!Next
  <2>1. inbox[n] \in Draws /\ shown' = inbox[n] /\ Filled' = {1}
    BY <1>2, FrameOnScreen
  <2>2. inbox[n] > shown
    BY <1>2 DEF FrameDraws, InboxInOrder
  <2> QED
    BY <2>1, <2>2 DEF Picture!Begin
<1>3. CASE PullWrites
  <2> DEFINE place == call[awaited].start + 1
  <2>1. place \in Places /\ Filled = 1 .. place - 1 /\ Filled' = 1 .. place
    BY <1>3, PullOnScreen
  <2>2. UNCHANGED shown /\ mine /\ awaited # NoCall
    BY <1>3 DEF PullWrites
  <2>3. shown # 0 /\ call[awaited].start # 0
    BY <2>2 DEF PullContinues
  <2>4. call[awaited].start \in 1 .. Total - 1
    <3>1. awaited \in Calls /\ call[awaited].start \in Nat
      BY <2>2 DEF TypeOK, CallState, Offsets
    <3> QED
      BY <2>1, <2>3, <3>1, TotalAssumption DEF Places
  <2>5. Filled = 1 .. call[awaited].start /\ Filled' = 1 .. call[awaited].start + 1
    BY <2>1, <2>4
  <2> QED
    BY <2>2, <2>3, <2>4, <2>5 DEF Picture!Grow
<1>4. CASE Connect
  BY <1>4 DEF Connect, Filled, EmptyGeometry, Picture!TakeAway
<1>5. CASE UNCHANGED <<shown, loaded>>
  BY <1>5 DEF Filled
<1>6. Flush \/ PullWrites \/ Connect \/ UNCHANGED <<shown, loaded>>
  BY DEF Next, Handler, Lookup, Check, Wait, Watcher, Discard, Draw, SendChunk, SendFails,
         RemoveEntity, PullEnds, Lose, clientVars
<1> QED
  BY <1>1, <1>2, <1>3, <1>4, <1>5, <1>6 DEF Flush

(* What the viewer sees of a chunked drawing, with all of the sender, the  *)
(* buffers, the handlers, the stream and the pull behind it, is a picture  *)
(* that begins with its first chunk, grows chunk by chunk and gives way to *)
(* newer draws only.                                                       *)
THEOREM TransferImplementsPicture == Spec => GrowsAsPromised
<1>1. Init => Picture!Init
  BY DEF Init, Filled, EmptyGeometry, Picture!Init
<1>2. Inv /\ [Next]_vars => [Picture!Next]_(Picture!vars)
  <2> SUFFICES ASSUME Inv, [Next]_vars PROVE [Picture!Next]_(Picture!vars)
    OBVIOUS
  <2>1. CASE UNCHANGED vars
    BY <2>1 DEF vars, clientVars, Filled, Picture!vars
  <2> QED
    BY <2>1, PictureStep
<1> QED
  BY <1>1, <1>2, TransferInv, PTL DEF Spec, GrowsAsPromised, Picture!Spec

=============================================================================
