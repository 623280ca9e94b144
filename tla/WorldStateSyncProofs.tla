------------------------ MODULE WorldStateSyncProofs ------------------------
(***************************************************************************)
(* Theorems of WorldStateSync, for every set of uuids and transforms and   *)
(* every bound: its types, that no debt is left without a driver, that no  *)
(* chunk of an old instance stays, and that what is drawn ends as what the *)
(* store holds. Each function of the sync is an operator on the record     *)
(* `sync`, and has lemmas of its own that say what it returns and keeps.   *)
(***************************************************************************)
EXTENDS WorldStateSync, FiniteSetTheorems, SequenceTheorems, TLAPS

---------------------------------------------------------------------------
(* The drawing of one transform.                                           *)

Instances == 1..MaxInstances

LEMMA FieldsTyped ==
  \A t \in TransformType : Fields(t) \in SUBSET {"colors", "chunks"}
BY DEF Fields

LEMMA SourceTyped == \A t \in TransformType : SourceOf(t) \in SUBSET Bodies
BY DEF SourceOf, TransformType

LEMMA PrintTyped ==
  \A t \in TransformType :
     /\ {} \in SUBSET [colors : Colors, chunks : BOOLEAN]
     /\ {Fingerprint(t)} \in SUBSET [colors : Colors, chunks : BOOLEAN]
BY DEF Fingerprint, TransformType

LEMMA SpawnedTyped ==
  \A t \in TransformType, i \in Instances :
     /\ Spawned(t, i) \in DrawnType
     /\ \A p \in SUBSET [colors : Colors, chunks : BOOLEAN] :
          [Spawned(t, i) EXCEPT !.print = p] \in DrawnType
<1> SUFFICES ASSUME NEW t \in TransformType, NEW i \in Instances
             PROVE  /\ Spawned(t, i) \in DrawnType
                    /\ \A p \in SUBSET [colors : Colors, chunks : BOOLEAN] :
                         [Spawned(t, i) EXCEPT !.print = p] \in DrawnType
  OBVIOUS
<1>1. /\ t.name \in Names /\ t.kind \in Kinds /\ t.pose \in Poses /\ t.body \in Bodies
      /\ t.colors \in Colors
  BY DEF TransformType
<1>2. /\ (IF t.chunks THEN "running" ELSE "none")
           \in {"none", "running", "suspended", "given up"}
      /\ (~t.chunks) \in BOOLEAN
  OBVIOUS
<1>3. 0 \in 0..MaxInstances BY BoundsAssumption
<1> QED
  BY <1>1, <1>2, <1>3, FieldsTyped, SourceTyped, PrintTyped
  DEF Spawned, DrawnType, Instances

LEMMA RegeometryTyped ==
  \A d \in DrawnType, t \in TransformType, i \in Instances :
     Regeometry(d, t, i) \in DrawnType
<1>1. 0 \in 0..MaxInstances BY BoundsAssumption
<1> QED BY <1>1, SourceTyped DEF Regeometry, DrawnType, TransformType, Instances

LEMMA RemetadataTyped ==
  \A d \in DrawnType, t \in TransformType :
     /\ Remetadata(d, t) \in DrawnType
     /\ [Remetadata(d, t) EXCEPT !.print = {Fingerprint(t)}] \in DrawnType
<1> SUFFICES ASSUME NEW d \in DrawnType, NEW t \in TransformType
             PROVE  /\ Remetadata(d, t) \in DrawnType
                    /\ [Remetadata(d, t) EXCEPT !.print = {Fingerprint(t)}] \in DrawnType
  OBVIOUS
<1>1. Recolored(d, t) \in Colors BY DEF Recolored, DrawnType, TransformType
<1>2. Remetadata(d, t) \in DrawnType
  BY <1>1, FieldsTyped, PrintTyped DEF Remetadata, DrawnType
<1>3. \A e \in DrawnType : [e EXCEPT !.print = {Fingerprint(t)}] \in DrawnType
  BY PrintTyped DEF DrawnType
<1> QED BY <1>2, <1>3

LEMMA MovedTyped ==
  \A d \in DrawnType, t \in TransformType : [d EXCEPT !.pose = t.pose] \in DrawnType
BY DEF DrawnType, TransformType

LEMMA UpdatedTyped ==
  \A d \in DrawnType, t \in TransformType, i \in Instances,
     paths \in SUBSET {"pose", "body", "meta"} :
     Updated(d, t, paths, i) \in DrawnType
BY MovedTyped, RegeometryTyped, RemetadataTyped DEF Updated

LEMMA RefreshedTyped ==
  \A d \in DrawnType, t \in TransformType, i \in Instances :
     Refreshed(d, t, i) \in DrawnType
BY MovedTyped, RegeometryTyped, RemetadataTyped DEF Refreshed

LEMMA ReadTyped ==
  \A d \in DrawnType \cup {Absent}, t \in TransformType, i \in Instances,
     rebuild \in BOOLEAN : Read(d, t, i, rebuild) \in DrawnType
BY RefreshedTyped, SpawnedTyped, PrintTyped DEF Read

LEMMA PulledTyped ==
  \A d \in DrawnType \cup {Absent} :
     /\ Resumed(d) \in DrawnType \cup {Absent}
     /\ Stopped(d) \in DrawnType \cup {Absent}
<1> SUFFICES ASSUME NEW d \in DrawnType \cup {Absent}
             PROVE /\ Resumed(d) \in DrawnType \cup {Absent}
                   /\ Stopped(d) \in DrawnType \cup {Absent}
  OBVIOUS
<1>1. CASE d = Absent BY <1>1 DEF Resumed, Stopped
<1>2. CASE d \in DrawnType
  <2>1. [d EXCEPT !.pull = "running"] \in DrawnType BY <1>2 DEF DrawnType
  <2>2. [d EXCEPT !.pull = "none"] \in DrawnType BY <1>2 DEF DrawnType
  <2>3. Resumed(d) \in DrawnType BY <1>2, <2>1 DEF Resumed
  <2>4. Stopped(d) \in DrawnType BY <1>2, <2>2 DEF Stopped
  <2> QED BY <2>3, <2>4
<1> QED BY <1>1, <1>2

---------------------------------------------------------------------------
(* The functions of the sync.                                              *)

\* What is waiting is held by the read that runs, or a frame is asked for.
Waiting(s) ==
    \A i \in DOMAIN s.pendingEvents : s.pendingEvents[i].uuid \in Held(s) \/ s.flush

\* No debt without a driver, as a predicate on the record: it holds in the
\* middle of a flush as well.
Driven(s) ==
    s.client =>
        /\ s.session # Absent
        /\ ~s.session.isStreamOpen => s.retryTimer
        /\ s.session.isSnapshotOwed \/ s.dirtyUUIDs # {} => Reading(s) \/ s.retryTimer
        /\ Waiting(s)

\* What resync needs to pay the debts that are left: a session, and nothing
\* waiting without a frame.
Payable(s) == s.client => s.session # Absent /\ Waiting(s)

LEMMA SessionsDiffer ==
    /\ \A x \in SessionType : x # Absent
    /\ \A x \in ReadType : x # Absent
    /\ \A x \in DrawnType : x # Absent
BY AbsentAssumption

\* Putting a field of the record, one line for each that the code assigns.
LEMMA PutTyped ==
  \A s \in SyncType :
     /\ \A x \in BOOLEAN : /\ [s EXCEPT !.flush = x] \in SyncType
                           /\ [s EXCEPT !.retryTimer = x] \in SyncType
     /\ \A x \in SUBSET UUIDs : [s EXCEPT !.dirtyUUIDs = x] \in SyncType
     /\ \A x \in [UUIDs -> DrawnType \cup {Absent}] : [s EXCEPT !.entities = x] \in SyncType
     /\ \A x \in Seq(EventType) : [s EXCEPT !.pendingEvents = x] \in SyncType
     /\ \A x \in SessionType \cup {Absent} : [s EXCEPT !.session = x] \in SyncType
BY DEF SyncType

LEMMA SnapshotReadTyped ==
  \A s \in SyncType :
     /\ SnapshotRead(s) \in ReadType
     /\ SnapshotRead(s).isSnapshot /\ ~SnapshotRead(s).listed
     /\ SnapshotRead(s).uuids = {}
BY DEF SnapshotRead, ReadType, SyncType, Unasked, AnswerType

LEMMA DirtyReadTyped ==
  \A s \in SyncType :
     /\ DirtyRead(s) \in ReadType
     /\ ~DirtyRead(s).isSnapshot /\ DirtyRead(s).uuids = s.dirtyUUIDs
BY DEF DirtyRead, ReadType, SyncType, Asked, AnswerType

LEMMA CloseEffect ==
  \A s \in SyncType :
     /\ close(s) \in SyncType
     /\ close(s).client = s.client /\ close(s).session = Absent
     /\ ~close(s).flush /\ close(s).pendingEvents = <<>>
     /\ ~close(s).retryTimer /\ close(s).dirtyUUIDs = {}
     /\ close(s).entities = s.entities
     /\ close(s).rebuildSeq = s.rebuildSeq /\ close(s).drawnRebuildSeq = s.drawnRebuildSeq
<1>1. <<>> \in Seq(EventType) OBVIOUS
<1> QED BY <1>1 DEF close, SyncType

LEMMA NewSessionTyped ==
  \A r \in ReadType :
     LET session == [NewSession EXCEPT !.read = r]
     IN /\ session \in SessionType
        /\ session.isStreamOpen /\ session.isSnapshotOwed /\ session.read = r
<1>1. <<>> \in Seq(EventType) OBVIOUS
<1> QED BY <1>1 DEF NewSession, SessionType

LEMMA OpenEffect ==
  ASSUME NEW s \in SyncType
  PROVE  /\ open(s) \in SyncType /\ open(s).client = s.client
         /\ Driven(open(s))
<1> DEFINE c == close(s)
           r == SnapshotRead(s)
           session == [NewSession EXCEPT !.read = r]
           drawn == IF s.rebuildSeq # s.drawnRebuildSeq THEN c.entities
                    ELSE [uuid \in UUIDs |-> Resumed(c.entities[uuid])]
           o == [c EXCEPT !.session = session, !.entities = drawn]
<1>1. CASE ~s.client
  <2>1. open(s) = c BY <1>1 DEF open
  <2> QED BY <1>1, <2>1, CloseEffect DEF Driven
<1>2. CASE s.client
  <2>1. open(s) = o BY <1>2 DEF open
  <2>2. session \in SessionType /\ session.isStreamOpen /\ session.read = r
        /\ r \in ReadType /\ r.isSnapshot
    BY SnapshotReadTyped, NewSessionTyped
  <2>3. drawn \in [UUIDs -> DrawnType \cup {Absent}]
    <3>1. c.entities \in [UUIDs -> DrawnType \cup {Absent}] BY CloseEffect DEF SyncType
    <3> HIDE DEF c
    <3> QED BY <3>1, PulledTyped
  <2>4. c \in SyncType /\ c.client = s.client /\ c.pendingEvents = <<>> BY CloseEffect
  <2> HIDE DEF c, r, session, drawn
  <2>5. /\ o \in SyncType /\ o.client = s.client /\ o.session = session
        /\ o.pendingEvents = <<>>
    BY <2>2, <2>3, <2>4 DEF SyncType
  <2> HIDE DEF o
  <2>6. Reading(o) /\ o.session # Absent BY <2>2, <2>5, SessionsDiffer DEF Reading
  <2> QED BY <2>1, <2>2, <2>5, <2>6 DEF Driven, Waiting
<1> QED BY <1>1, <1>2

\* A read begins: the session is the same but for it.
LEMMA BeginRead ==
  \A s \in SyncType, r \in ReadType :
     s.session # Absent =>
       LET began == [s EXCEPT !.session.read = r]
       IN /\ began \in SyncType /\ began.client = s.client
          /\ began.session # Absent /\ Reading(began) /\ began.session.read = r
          /\ began.session.isStreamOpen = s.session.isStreamOpen
          /\ began.session.wire = s.session.wire
          /\ began.pendingEvents = s.pendingEvents /\ began.flush = s.flush
          /\ began.retryTimer = s.retryTimer
<1> SUFFICES ASSUME NEW s \in SyncType, NEW r \in ReadType, s.session # Absent
             PROVE  LET began == [s EXCEPT !.session.read = r]
                    IN /\ began \in SyncType /\ began.client = s.client
                       /\ began.session # Absent /\ Reading(began)
                       /\ began.session.read = r
                       /\ began.session.isStreamOpen = s.session.isStreamOpen
                       /\ began.session.wire = s.session.wire
                       /\ began.pendingEvents = s.pendingEvents /\ began.flush = s.flush
                       /\ began.retryTimer = s.retryTimer
  OBVIOUS
<1> DEFINE session == [s.session EXCEPT !.read = r]
           began == [s EXCEPT !.session = session]
<1>1. [s EXCEPT !.session.read = r] = began OBVIOUS
<1>2. /\ session \in SessionType /\ session.read = r
      /\ session.isStreamOpen = s.session.isStreamOpen /\ session.wire = s.session.wire
  <2>1. s.session \in SessionType BY DEF SyncType
  <2> QED BY <2>1 DEF SessionType
<1> HIDE DEF session
<1>3. /\ began \in SyncType /\ began.client = s.client /\ began.session = session
      /\ began.pendingEvents = s.pendingEvents /\ began.flush = s.flush
      /\ began.retryTimer = s.retryTimer
  BY <1>2 DEF SyncType
<1> HIDE DEF began
<1>4. Reading(began) /\ session # Absent BY <1>2, <1>3, SessionsDiffer DEF Reading
<1> QED BY <1>1, <1>2, <1>3, <1>4

\* Giving back debts that were taken: no read holds the events of a snapshot.
LEMMA DebtTaken ==
  \A s \in SyncType :
     LET taken == [s EXCEPT !.dirtyUUIDs = {}]
     IN /\ taken \in SyncType /\ taken.client = s.client /\ taken.session = s.session
        /\ taken.pendingEvents = s.pendingEvents /\ taken.flush = s.flush
        /\ taken.retryTimer = s.retryTimer
BY DEF SyncType

LEMMA EventUuids ==
  \A s \in SyncType : \A i \in DOMAIN s.pendingEvents : s.pendingEvents[i].uuid \in UUIDs
<1> SUFFICES ASSUME NEW s \in SyncType, NEW i \in DOMAIN s.pendingEvents
             PROVE  s.pendingEvents[i].uuid \in UUIDs
  OBVIOUS
<1>1. s.pendingEvents \in Seq(EventType) BY DEF SyncType
<1>2. s.pendingEvents[i] \in EventType BY <1>1
<1> QED BY <1>2 DEF EventType

LEMMA ResyncEffect ==
  \A s \in SyncType :
     /\ resync(s) \in SyncType /\ resync(s).client = s.client
     /\ Payable(s) => Driven(resync(s))
<1> SUFFICES ASSUME NEW s \in SyncType
             PROVE  /\ resync(s) \in SyncType /\ resync(s).client = s.client
                    /\ Payable(s) => Driven(resync(s))
  OBVIOUS
<1>1. CASE ~s.client
  <2>1. resync(s) = s BY <1>1 DEF resync
  <2> QED BY <1>1, <2>1 DEF Driven
<1>2. CASE s.client /\ (s.session = Absent \/ ~s.session.isStreamOpen)
  <2>1. resync(s) = open(s) BY <1>2 DEF resync
  <2> QED BY <2>1, OpenEffect
<1>3. CASE s.client /\ ~(s.session = Absent \/ ~s.session.isStreamOpen)
  <2> USE <1>3
  <2>1. CASE s.session.read # Absent
    <3>1. resync(s) = s BY <2>1 DEF resync
    <3>2. Reading(s) BY <2>1 DEF Reading
    <3> QED BY <3>1, <3>2 DEF Driven, Payable
  <2>2. CASE s.session.read = Absent /\ s.session.isSnapshotOwed
    <3> DEFINE r == SnapshotRead(s)
               began == [s EXCEPT !.session.read = r]
    <3>1. resync(s) = began BY <2>2 DEF resync
    <3>2. r \in ReadType /\ r.isSnapshot BY SnapshotReadTyped
    <3> HIDE DEF r
    <3>3. /\ began \in SyncType /\ began.client = s.client
          /\ began.session # Absent /\ Reading(began) /\ began.session.read = r
          /\ began.session.isStreamOpen = s.session.isStreamOpen
      BY <3>2, BeginRead
    <3> HIDE DEF began
    <3>4. Held(began) = UUIDs BY <3>2, <3>3 DEF Held
    <3>5. Waiting(began) BY <3>3, <3>4, EventUuids DEF Waiting
    <3> QED BY <3>1, <3>3, <3>5 DEF Driven
  <2>3. CASE s.session.read = Absent /\ ~s.session.isSnapshotOwed /\ s.dirtyUUIDs = {}
    <3>1. resync(s) = s BY <2>3 DEF resync
    <3> QED BY <2>3, <3>1 DEF Driven, Payable
  <2>4. CASE s.session.read = Absent /\ ~s.session.isSnapshotOwed /\ s.dirtyUUIDs # {}
    <3> DEFINE r == DirtyRead(s)
               taken == [s EXCEPT !.dirtyUUIDs = {}]
               began == [taken EXCEPT !.session.read = r]
    <3>1. resync(s) = began
      <4>1. resync(s) = [s EXCEPT !.session.read = r, !.dirtyUUIDs = {}]
        BY <2>4 DEF resync
      <4>2. [s EXCEPT !.session.read = r, !.dirtyUUIDs = {}] = began
        BY DEF SyncType
      <4> QED BY <4>1, <4>2
    <3>2. r \in ReadType BY DirtyReadTyped
    <3>3. /\ taken \in SyncType /\ taken.client = s.client /\ taken.session = s.session
          /\ taken.pendingEvents = s.pendingEvents /\ taken.flush = s.flush
      BY DebtTaken
    <3> HIDE DEF r, taken
    <3>4. /\ began \in SyncType /\ began.client = s.client
          /\ began.session # Absent /\ Reading(began)
          /\ began.session.isStreamOpen = s.session.isStreamOpen
          /\ began.pendingEvents = s.pendingEvents /\ began.flush = s.flush
      BY <3>2, <3>3, BeginRead
    <3> HIDE DEF began
    <3>5. Waiting(s) => Waiting(began)
      <4>1. Held(s) = {} BY <2>4 DEF Held, Reading
      <4> QED BY <3>4, <4>1 DEF Waiting
    <3> QED BY <3>1, <3>4, <3>5 DEF Driven, Payable
  <2> QED BY <2>1, <2>2, <2>3, <2>4
<1> QED BY <1>1, <1>2, <1>3

LEMMA RebuildEffect ==
  \A s \in SyncType :
     /\ requestRebuild(s) \in SyncType
     /\ requestRebuild(s).client = s.client /\ requestRebuild(s).session = s.session
     /\ requestRebuild(s).retryTimer = s.retryTimer
     /\ requestRebuild(s).dirtyUUIDs = s.dirtyUUIDs
     /\ requestRebuild(s).pendingEvents = s.pendingEvents
     /\ requestRebuild(s).flush = s.flush
<1> SUFFICES ASSUME NEW s \in SyncType
             PROVE  /\ requestRebuild(s) \in SyncType
                    /\ requestRebuild(s).client = s.client
                    /\ requestRebuild(s).session = s.session
                    /\ requestRebuild(s).retryTimer = s.retryTimer
                    /\ requestRebuild(s).dirtyUUIDs = s.dirtyUUIDs
                    /\ requestRebuild(s).pendingEvents = s.pendingEvents
                    /\ requestRebuild(s).flush = s.flush
  OBVIOUS
<1> DEFINE drawn == [uuid \in UUIDs |-> Stopped(s.entities[uuid])]
           seq == s.rebuildSeq + 1
<1>1. drawn \in [UUIDs -> DrawnType \cup {Absent}]
  <2>1. s.entities \in [UUIDs -> DrawnType \cup {Absent}] BY DEF SyncType
  <2> QED BY <2>1, PulledTyped
<1>2. requestRebuild(s) = [s EXCEPT !.rebuildSeq = seq, !.entities = drawn]
  BY DEF requestRebuild
<1>3. seq \in Nat BY DEF SyncType
<1> HIDE DEF drawn, seq
<1> QED BY <1>1, <1>2, <1>3 DEF SyncType

LEMMA FlushEffect ==
  \A s \in SyncType :
     /\ scheduleFlush(s) \in SyncType
     /\ scheduleFlush(s).client = s.client /\ scheduleFlush(s).session = s.session
     /\ scheduleFlush(s).retryTimer = s.retryTimer
     /\ scheduleFlush(s).dirtyUUIDs = s.dirtyUUIDs
     /\ scheduleFlush(s).pendingEvents = s.pendingEvents
     /\ Waiting(scheduleFlush(s))
<1> SUFFICES ASSUME NEW s \in SyncType
             PROVE  /\ scheduleFlush(s) \in SyncType
                    /\ scheduleFlush(s).client = s.client
                    /\ scheduleFlush(s).session = s.session
                    /\ scheduleFlush(s).retryTimer = s.retryTimer
                    /\ scheduleFlush(s).dirtyUUIDs = s.dirtyUUIDs
                    /\ scheduleFlush(s).pendingEvents = s.pendingEvents
                    /\ Waiting(scheduleFlush(s))
  OBVIOUS
<1>1. CASE HoldsAll(s)
  <2>1. scheduleFlush(s) = s BY <1>1 DEF scheduleFlush
  <2>2. Held(s) = UUIDs BY <1>1 DEF Held, HoldsAll
  <2> QED BY <2>1, <2>2, EventUuids DEF Waiting
<1>2. CASE ~HoldsAll(s)
  <2>1. scheduleFlush(s) = [s EXCEPT !.flush = TRUE] BY <1>2 DEF scheduleFlush
  <2> DEFINE f == [s EXCEPT !.flush = TRUE]
  <2>2. /\ f \in SyncType /\ f.client = s.client /\ f.session = s.session
        /\ f.retryTimer = s.retryTimer /\ f.dirtyUUIDs = s.dirtyUUIDs
        /\ f.pendingEvents = s.pendingEvents /\ f.flush
    BY DEF SyncType
  <2> HIDE DEF f
  <2>3. Waiting(f) BY <2>2 DEF Waiting
  <2> QED BY <2>1, <2>2, <2>3 DEF f
<1> QED BY <1>1, <1>2

\* After a read nothing is left without a driver, whatever it left owed, as
\* long as the end of the stream set the timer.
LEMMA FinallyEffect ==
  \A s \in SyncType :
     (s.session # Absent /\ (s.client /\ ~s.session.isStreamOpen => s.retryTimer)) =>
       /\ finally(s) \in SyncType
       /\ finally(s).client = s.client
       /\ Driven(finally(s))
<1> SUFFICES ASSUME NEW s \in SyncType, s.session # Absent,
                    s.client /\ ~s.session.isStreamOpen => s.retryTimer
             PROVE  /\ finally(s) \in SyncType
                    /\ finally(s).client = s.client
                    /\ Driven(finally(s))
  OBVIOUS
<1> DEFINE session == [s.session EXCEPT !.read = Absent]
           free == [s EXCEPT !.session.read = Absent]
           flushing == IF free.pendingEvents # <<>> THEN scheduleFlush(free) ELSE free
<1>1. /\ session \in SessionType
      /\ session.isStreamOpen = s.session.isStreamOpen
  <2>1. s.session \in SessionType BY DEF SyncType
  <2> QED BY <2>1 DEF SessionType
<1>2. free = [s EXCEPT !.session = session] OBVIOUS
<1> HIDE DEF session
<1>3. /\ free \in SyncType /\ free.session = session /\ free.client = s.client
      /\ free.retryTimer = s.retryTimer
  BY <1>1, <1>2 DEF SyncType
<1> HIDE DEF free
<1>4. /\ flushing \in SyncType /\ flushing.session = session /\ flushing.client = s.client
      /\ flushing.retryTimer = s.retryTimer /\ Waiting(flushing)
  <2>1. CASE free.pendingEvents # <<>>
    <3>1. flushing = scheduleFlush(free) BY <2>1
    <3> HIDE DEF flushing
    <3> QED BY <1>3, <3>1, FlushEffect
  <2>2. CASE free.pendingEvents = <<>>
    <3>1. flushing = free BY <2>2
    <3> QED BY <1>3, <2>2, <3>1 DEF Waiting
  <2> QED BY <2>1, <2>2
<1>5. finally(s) = IF flushing.retryTimer THEN flushing ELSE resync(flushing)
  BY DEF finally, flushing, free
<1> HIDE DEF flushing
<1>6. Payable(flushing) BY <1>1, <1>4, SessionsDiffer DEF Payable
<1>7. CASE flushing.retryTimer
  BY <1>1, <1>4, <1>5, <1>7, SessionsDiffer DEF Driven
<1>8. CASE ~flushing.retryTimer
  BY <1>4, <1>5, <1>6, <1>8, ResyncEffect
<1> QED BY <1>7, <1>8

LEMMA DirtyEffect ==
  \A s \in SyncType, uuid \in UUIDs :
     /\ markDirty(s, uuid) \in SyncType
     /\ Driven(s) => Driven(markDirty(s, uuid))
<1> SUFFICES ASSUME NEW s \in SyncType, NEW uuid \in UUIDs
             PROVE  /\ markDirty(s, uuid) \in SyncType
                    /\ Driven(s) => Driven(markDirty(s, uuid))
  OBVIOUS
<1> DEFINE dirty == s.dirtyUUIDs \cup {uuid}
           owing == [s EXCEPT !.dirtyUUIDs = dirty]
<1>1. markDirty(s, uuid) = IF s.retryTimer THEN owing ELSE resync(owing)
  BY DEF markDirty
<1>2. dirty \in SUBSET UUIDs BY DEF SyncType
<1> HIDE DEF dirty
<1>3. /\ owing \in SyncType /\ owing.client = s.client /\ owing.session = s.session
      /\ owing.retryTimer = s.retryTimer /\ owing.pendingEvents = s.pendingEvents
      /\ owing.flush = s.flush
  BY <1>2 DEF SyncType
<1> HIDE DEF owing
<1>4. Driven(s) => Payable(owing)
  BY <1>3 DEF Driven, Payable, Waiting, Held, Reading
<1>5. s.retryTimer /\ Driven(s) => Driven(owing)
  BY <1>3 DEF Driven, Waiting, Held, Reading
<1> QED BY <1>1, <1>3, <1>4, <1>5, ResyncEffect

---------------------------------------------------------------------------
(* The store, and what the machine reports.                                *)

Inv == TypeOK /\ Driven(sync)

LEMMA Starts == Init => Inv
<1> SUFFICES ASSUME Init PROVE Inv OBVIOUS
<1> USE BoundsAssumption, TransformsAssumption DEF Init
<1>1. sync \in SyncType
  <2>1. <<>> \in Seq(EventType) OBVIOUS
  <2> QED BY <2>1 DEF SyncType
<1>2. TypeOK
  <2>1. store \in [UUIDs -> TransformType \cup {Absent}] OBVIOUS
  <2>2. batch \in Seq(EventType) OBVIOUS
  <2>3. spent \in [changes : Nat, failures : Nat, cuts : Nat] OBVIOUS
  <2>4. untold \in BOOLEAN /\ missed \in SUBSET UUIDs OBVIOUS
  <2>5. instance \in 1..MaxInstances OBVIOUS
  <2> QED BY <1>1, <2>1, <2>2, <2>3, <2>4, <2>5 DEF TypeOK
<1>3. Driven(sync) BY DEF Driven
<1> QED BY <1>2, <1>3 DEF Inv

\* The far end of a stream and what it carries drive nothing.
LEMMA StreamPut ==
  \A s \in SyncType, x \in SessionType :
     (s.session # Absent /\ x.isStreamOpen = s.session.isStreamOpen
        /\ x.isSnapshotOwed = s.session.isSnapshotOwed /\ x.read = s.session.read)
     => LET put == [s EXCEPT !.session = x]
        IN put \in SyncType /\ (Driven(s) => Driven(put))
<1> SUFFICES ASSUME NEW s \in SyncType, NEW x \in SessionType, s.session # Absent,
                    x.isStreamOpen = s.session.isStreamOpen,
                    x.isSnapshotOwed = s.session.isSnapshotOwed,
                    x.read = s.session.read
             PROVE  LET put == [s EXCEPT !.session = x]
                    IN put \in SyncType /\ (Driven(s) => Driven(put))
  OBVIOUS
<1> DEFINE put == [s EXCEPT !.session = x]
<1>1. /\ put \in SyncType /\ put.client = s.client /\ put.session = x
      /\ put.retryTimer = s.retryTimer /\ put.dirtyUUIDs = s.dirtyUUIDs
      /\ put.pendingEvents = s.pendingEvents /\ put.flush = s.flush
  BY DEF SyncType
<1> HIDE DEF put
<1>2. x # Absent BY SessionsDiffer
<1>3. Reading(put) <=> Reading(s) BY <1>1, <1>2 DEF Reading
<1>4. Held(put) = Held(s) BY <1>1, <1>3 DEF Held
<1>5. Driven(s) => Driven(put) BY <1>1, <1>2, <1>3, <1>4 DEF Driven, Waiting
<1> QED BY <1>1, <1>5 DEF put

LEMMA PublishKept ==
  ASSUME Inv, NEW e \in EventType, Publish(e)
  PROVE  Inv'
<1> DEFINE wire == Append(sync.session.wire, e)
           session == [sync.session EXCEPT !.wire = wire]
<1>1. sync' \in SyncType /\ Driven(sync')
  <2>1. CASE StreamIs("live")
    <3>1. sync.session # Absent /\ sync.session \in SessionType
      BY <2>1 DEF StreamIs, Inv, TypeOK, SyncType
    <3>2. sync' = [sync EXCEPT !.session = session] BY <2>1 DEF Publish
    <3>3. /\ session \in SessionType /\ session.read = sync.session.read
          /\ session.isStreamOpen = sync.session.isStreamOpen
          /\ session.isSnapshotOwed = sync.session.isSnapshotOwed
      <4>1. wire \in Seq(EventType)
        <5>1. sync.session.wire \in Seq(EventType) BY <3>1 DEF SessionType
        <5> QED BY <5>1
      <4> HIDE DEF wire
      <4> QED BY <3>1, <4>1 DEF SessionType
    <3> HIDE DEF session
    <3> QED BY <3>1, <3>2, <3>3, StreamPut DEF Inv, TypeOK
  <2>2. CASE ~StreamIs("live") BY <2>2 DEF Publish, Inv, TypeOK
  <2> QED BY <2>1, <2>2
<1>2. store' \in [UUIDs -> TransformType \cup {Absent}]
  BY DEF Publish, Inv, TypeOK, EventType
<1>3. missed' \in SUBSET UUIDs BY DEF Publish, Inv, TypeOK, EventType
<1>4. spent' \in [changes : Nat, failures : Nat, cuts : Nat]
  BY DEF Publish, Inv, TypeOK
<1> QED BY <1>1, <1>2, <1>3, <1>4 DEF Inv, TypeOK, Publish

LEMMA ChangesKept ==
  ASSUME Inv, NEW uuid \in UUIDs,
         StoreAdds(uuid) \/ StoreRemoves(uuid) \/ StoreUpdates(uuid)
  PROVE  Inv'
<1>1. \A type \in {"ADDED", "REMOVED", "UPDATED"}, t \in TransformType,
         paths \in SUBSET {"pose", "body", "meta"} :
         Event(type, uuid, t, paths) \in EventType
  BY DEF Event, EventType, Inv, TypeOK
<1>2. \A t \in Transforms : t \in TransformType BY TransformsAssumption
<1>3. \A old, new : Changed(old, new) \in SUBSET {"pose", "body", "meta"} BY DEF Changed
<1>4. "ADDED" \in {"ADDED", "REMOVED", "UPDATED"} /\ "REMOVED" \in {"ADDED", "REMOVED", "UPDATED"}
      /\ "UPDATED" \in {"ADDED", "REMOVED", "UPDATED"} /\ {} \in SUBSET {"pose", "body", "meta"}
  OBVIOUS
<1>5. CASE StoreAdds(uuid)
  <2>1. PICK t \in Transforms : Publish(Event("ADDED", uuid, t, {})) BY <1>5 DEF StoreAdds
  <2> QED BY <1>1, <1>2, <1>4, <2>1, PublishKept
<1>6. CASE StoreRemoves(uuid)
  <2>1. store[uuid] \in TransformType BY <1>6 DEF StoreRemoves, Inv, TypeOK
  <2> QED BY <1>1, <1>4, <1>6, <2>1, PublishKept DEF StoreRemoves
<1>7. CASE StoreUpdates(uuid)
  <2>1. PICK t \in Transforms : Publish(Event("UPDATED", uuid, t, Changed(store[uuid], t)))
    BY <1>7 DEF StoreUpdates
  <2> QED BY <1>1, <1>2, <1>3, <1>4, <2>1, PublishKept
<1> QED BY <1>5, <1>6, <1>7

\* The session's stream changes at its far end only.
LEMMA FarEnd ==
  ASSUME Inv, sync.session # Absent, NEW state \in {"opening", "live", "broken", "closed"}
  PROVE  [sync EXCEPT !.session.stream = state] \in SyncType
         /\ Driven([sync EXCEPT !.session.stream = state])
<1> DEFINE session == [sync.session EXCEPT !.stream = state]
<1>1. sync.session \in SessionType /\ sync \in SyncType BY DEF Inv, TypeOK, SyncType
<1>2. [sync EXCEPT !.session.stream = state] = [sync EXCEPT !.session = session] OBVIOUS
<1>3. /\ session \in SessionType /\ session.read = sync.session.read
      /\ session.isStreamOpen = sync.session.isStreamOpen
      /\ session.isSnapshotOwed = sync.session.isSnapshotOwed
  BY <1>1 DEF SessionType
<1> HIDE DEF session
<1> QED BY <1>1, <1>2, <1>3, StreamPut DEF Inv

LEMMA RebuiltKept ==
  ASSUME Inv, StoreRebuilt
  PROVE  Inv'
<1>1. sync' \in SyncType /\ Driven(sync')
  <2>1. CASE UNCHANGED sync BY <2>1 DEF Inv, TypeOK
  <2>2. CASE /\ StreamIs("opening") \/ StreamIs("live")
             /\ sync' = [sync EXCEPT !.session.stream = "broken"]
    BY <2>2, FarEnd DEF StreamIs
  <2> QED BY <2>1, <2>2 DEF StoreRebuilt
<1>2. store' \in [UUIDs -> TransformType \cup {Absent}]
  BY TransformsAssumption DEF StoreRebuilt
<1>3. instance' \in 1..MaxInstances BY BoundsAssumption DEF StoreRebuilt, Inv, TypeOK
<1>4. untold' \in BOOLEAN BY DEF StoreRebuilt
<1> QED BY <1>1, <1>2, <1>3, <1>4 DEF Inv, TypeOK, StoreRebuilt

LEMMA SubscribesKept ==
  ASSUME Inv, StoreSubscribes \/ StreamRefused
  PROVE  Inv'
<1>1. sync' \in SyncType /\ Driven(sync')
  BY FarEnd DEF StoreSubscribes, StreamRefused, StreamIs
<1> QED BY <1>1 DEF Inv, TypeOK, StoreSubscribes, StreamRefused

LEMMA UpdateKept ==
  ASSUME Inv, NEW client \in BOOLEAN, NEW isNewClient \in BOOLEAN,
         NEW generation \in 0..MaxInstances,
         client /\ ~isNewClient => sync.client,
         Update(client, isNewClient, generation),
         spent' \in [changes : Nat, failures : Nat, cuts : Nat]
  PROVE  Inv'
<1> DEFINE isRebuild == /\ generation # 0 /\ sync.lastGeneration # 0
                        /\ generation # sync.lastGeneration
           known == IF generation = 0 THEN sync.lastGeneration ELSE generation
           told == [sync EXCEPT !.client = client, !.lastGeneration = known]
           owing == IF isRebuild THEN requestRebuild(told) ELSE told
<1>1. sync' = IF ~client THEN close(owing)
              ELSE IF isRebuild \/ isNewClient THEN open(owing) ELSE owing
  BY DEF Update
<1>2. sync \in SyncType /\ known \in 0..MaxInstances BY DEF Inv, TypeOK, SyncType
<1> HIDE DEF known, isRebuild
<1>3. /\ told \in SyncType /\ told.client = client /\ told.session = sync.session
      /\ told.retryTimer = sync.retryTimer /\ told.dirtyUUIDs = sync.dirtyUUIDs
      /\ told.pendingEvents = sync.pendingEvents /\ told.flush = sync.flush
  BY <1>2 DEF SyncType
<1> HIDE DEF told
<1>4. owing \in SyncType /\ owing.client = client
  BY <1>3, RebuildEffect
<1>5. sync' \in SyncType /\ Driven(sync')
  <2>1. CASE ~client
    <3>1. sync' = close(owing) BY <1>1, <2>1
    <3>2. close(owing) \in SyncType /\ ~close(owing).client
      BY <1>4, <2>1, CloseEffect
    <3> QED BY <3>1, <3>2 DEF Driven
  <2>2. CASE client /\ (isRebuild \/ isNewClient)
    <3> HIDE DEF owing
    <3> QED BY <1>1, <1>4, <2>2, OpenEffect
  <2>3. CASE client /\ ~(isRebuild \/ isNewClient)
    <3>1. sync' = told BY <1>1, <2>3
    <3>2. Driven(told)
      BY <1>3, <2>3 DEF Inv, Driven, Waiting, Held, Reading
    <3> QED BY <1>3, <3>1, <3>2
  <2> QED BY <2>1, <2>2, <2>3
<1> QED BY <1>5 DEF Inv, TypeOK, Update

LEMMA ReportsKept ==
  ASSUME Inv, StatusReported \/ ClientArrives \/ ClientReplaced \/ ClientLost
  PROVE  Inv'
<1>1. /\ instance \in 0..MaxInstances /\ 0 \in 0..MaxInstances
      /\ spent \in [changes : Nat, failures : Nat, cuts : Nat]
      /\ TRUE \in BOOLEAN /\ FALSE \in BOOLEAN
  BY BoundsAssumption DEF Inv, TypeOK
<1>2. Cut => spent' \in [changes : Nat, failures : Nat, cuts : Nat]
  BY <1>1 DEF Cut
<1>3. CASE StatusReported BY <1>1, <1>3, UpdateKept DEF StatusReported
<1>4. CASE ClientArrives BY <1>1, <1>4, UpdateKept DEF ClientArrives
<1>5. CASE ClientReplaced BY <1>1, <1>2, <1>5, UpdateKept DEF ClientReplaced
<1>6. CASE ClientLost BY <1>1, <1>2, <1>6, UpdateKept DEF ClientLost
<1> QED BY <1>3, <1>4, <1>5, <1>6

---------------------------------------------------------------------------
(* The stream, its flush, and the retry timer.                             *)

LEMMA ArrivesKept ==
  ASSUME Inv, EventArrives
  PROVE  Inv'
<1> DEFINE wire == Tail(sync.session.wire)
           session == [sync.session EXCEPT !.wire = wire]
           pending == Append(sync.pendingEvents, Head(sync.session.wire))
           heard == [sync EXCEPT !.session = session, !.pendingEvents = pending]
<1>1. /\ sync \in SyncType /\ sync.session # Absent /\ sync.session \in SessionType
      /\ sync.session.wire \in Seq(EventType) /\ sync.session.wire # <<>>
      /\ sync.pendingEvents \in Seq(EventType)
  BY DEF EventArrives, Inv, TypeOK, SyncType, SessionType
<1>2. wire \in Seq(EventType) /\ pending \in Seq(EventType)
  <2>1. Head(sync.session.wire) \in EventType BY <1>1
  <2> QED BY <1>1, <2>1
<1>3. sync' = scheduleFlush(heard)
  <2>1. sync' = scheduleFlush([sync EXCEPT !.session.wire = Tail(@),
                   !.pendingEvents = Append(@, Head(sync.session.wire))])
    BY DEF EventArrives
  <2>2. [sync EXCEPT !.session.wire = Tail(@),
                   !.pendingEvents = Append(@, Head(sync.session.wire))] = heard
    OBVIOUS
  <2> QED BY <2>1, <2>2
<1> HIDE DEF wire, pending
<1>4. /\ session \in SessionType /\ session.read = sync.session.read
      /\ session.isStreamOpen = sync.session.isStreamOpen
      /\ session.isSnapshotOwed = sync.session.isSnapshotOwed
  BY <1>1, <1>2 DEF SessionType
<1> HIDE DEF session
<1>5. /\ heard \in SyncType /\ heard.client = sync.client /\ heard.session = session
      /\ heard.retryTimer = sync.retryTimer /\ heard.dirtyUUIDs = sync.dirtyUUIDs
  BY <1>1, <1>2, <1>4 DEF SyncType
<1> HIDE DEF heard
<1>6. /\ sync' \in SyncType /\ sync'.client = sync.client /\ sync'.session = session
      /\ sync'.retryTimer = sync.retryTimer /\ sync'.dirtyUUIDs = sync.dirtyUUIDs
      /\ Waiting(sync')
  BY <1>3, <1>5, FlushEffect
<1>7. Reading(sync') <=> Reading(sync)
  BY <1>1, <1>4, <1>6, SessionsDiffer DEF Reading
<1>8. Driven(sync')
  BY <1>4, <1>6, <1>7, SessionsDiffer DEF Inv, Driven
<1> QED BY <1>6, <1>8 DEF Inv, TypeOK, EventArrives

LEMMA StreamEndsKept ==
  ASSUME Inv, StreamEnds
  PROVE  Inv'
<1> DEFINE session == [sync.session EXCEPT !.isStreamOpen = FALSE, !.stream = "closed",
                                           !.wire = <<>>]
           ended == [sync EXCEPT !.session = session, !.retryTimer = TRUE]
<1>1. sync \in SyncType /\ sync.session # Absent /\ sync.session \in SessionType
  BY DEF StreamEnds, Inv, TypeOK, SyncType
<1>2. sync' = IF ended.lastGeneration = 0 THEN requestRebuild(ended) ELSE ended
  <2>1. [sync EXCEPT !.session.isStreamOpen = FALSE, !.session.stream = "closed",
                     !.session.wire = <<>>, !.retryTimer = TRUE] = ended
    OBVIOUS
  <2> QED BY <2>1 DEF StreamEnds
<1>3. /\ session \in SessionType /\ session.read = sync.session.read
  <2>1. <<>> \in Seq(EventType) OBVIOUS
  <2> QED BY <1>1, <2>1 DEF SessionType
<1> HIDE DEF session
<1>4. /\ ended \in SyncType /\ ended.client = sync.client /\ ended.session = session
      /\ ended.retryTimer /\ ended.pendingEvents = sync.pendingEvents
      /\ ended.flush = sync.flush
  BY <1>1, <1>3 DEF SyncType
<1> HIDE DEF ended
<1>5. /\ sync' \in SyncType /\ sync'.client = sync.client /\ sync'.session = session
      /\ sync'.retryTimer /\ sync'.pendingEvents = sync.pendingEvents
      /\ sync'.flush = sync.flush
  BY <1>2, <1>4, RebuildEffect
<1>6. Held(sync') = Held(sync)
  BY <1>1, <1>3, <1>5, SessionsDiffer DEF Held, Reading
<1>7. Driven(sync')
  BY <1>3, <1>5, <1>6, SessionsDiffer DEF Inv, Driven, Waiting
<1>8. untold' \in BOOLEAN BY DEF StreamEnds
<1>9. spent' \in [changes : Nat, failures : Nat, cuts : Nat]
  BY DEF StreamEnds, Cut, Inv, TypeOK
<1> QED BY <1>5, <1>7, <1>8, <1>9 DEF Inv, TypeOK, StreamEnds

\* The elements of a finite set of integers, counted from the least, have
\* every place from one to their number: an injection into as many places
\* misses none.
LEMMA EveryPlaceTaken ==
  ASSUME NEW kept \in SUBSET Int, IsFiniteSet(kept), NEW k \in 1..Cardinality(kept)
  PROVE  \E i \in kept : Cardinality({j \in kept : j <= i}) = k
<1> DEFINE upto(i) == {j \in kept : j <= i}
           n == Cardinality(kept)
           rank == [i \in kept |-> Cardinality(upto(i))]
<1>1. n \in Nat BY FS_CardinalityType
<1>2. \A i \in kept : IsFiniteSet(upto(i)) /\ Cardinality(upto(i)) \in 1..n
  <2> SUFFICES ASSUME NEW i \in kept
               PROVE  IsFiniteSet(upto(i)) /\ Cardinality(upto(i)) \in 1..n
    OBVIOUS
  <2>1. upto(i) \in SUBSET kept /\ upto(i) # {} OBVIOUS
  <2> HIDE DEF upto
  <2>2. IsFiniteSet(upto(i)) /\ Cardinality(upto(i)) <= n BY <2>1, FS_Subset
  <2>3. Cardinality(upto(i)) \in Nat /\ Cardinality(upto(i)) # 0
    BY <2>1, <2>2, FS_CardinalityType, FS_EmptySet
  <2> HIDE DEF n
  <2> QED BY <1>1, <2>2, <2>3
<1>3. \A i, j \in kept : rank[i] = rank[j] => i = j
  <2>1. ASSUME NEW i \in kept, NEW j \in kept, i < j, rank[i] = rank[j] PROVE FALSE
    <3>1. upto(i) \in SUBSET upto(j) /\ j \in upto(j) /\ j \notin upto(i)
      <4>1. i \in Int /\ j \in Int /\ \A l \in kept : l \in Int OBVIOUS
      <4>2. \A l \in kept : l <= i => l <= j BY <2>1, <4>1
      <4>3. j <= j /\ ~(j <= i) BY <2>1, <4>1
      <4> QED BY <4>2, <4>3
    <3>2. rank[i] = Cardinality(upto(i)) /\ rank[j] = Cardinality(upto(j)) OBVIOUS
    <3> HIDE DEF upto, rank
    <3> QED BY <1>2, <2>1, <3>1, <3>2, FS_Subset
  <2> HIDE DEF rank
  <2> QED BY <2>1
<1>4. rank \in Injection(kept, 1..n)
  <2>1. rank \in [kept -> 1..n] BY <1>2
  <2> HIDE DEF rank
  <2> QED BY <1>3, <2>1 DEF Injection, IsInjective
<1>5. IsFiniteSet(1..n) /\ Cardinality(1..n) = n
  <2> HIDE DEF n
  <2> QED BY <1>1, FS_Interval
<1>6. rank \in Surjection(kept, 1..n)
  <2>1. Cardinality(kept) = Cardinality(1..n) BY <1>5
  <2> HIDE DEF rank, n
  <2> QED BY <1>4, <1>5, <2>1, FS_Injection
<1>7. \E i \in kept : rank[i] = k BY <1>6 DEF Surjection
<1> QED BY <1>7

\* A filter keeps events about the uuids only, and invents none.
LEMMA EventsOfEffect ==
  ASSUME NEW events \in Seq(EventType), NEW uuids
  PROVE  /\ EventsOf(events, uuids) \in Seq(EventType)
         /\ \A i \in DOMAIN EventsOf(events, uuids) :
              /\ EventsOf(events, uuids)[i].uuid \in uuids
              /\ \E k \in DOMAIN events : EventsOf(events, uuids)[i] = events[k]
<1> DEFINE kept == {i \in DOMAIN events : events[i].uuid \in uuids}
           place(k) == CHOOSE i \in kept : Cardinality({j \in kept : j <= i}) = k
           n == Cardinality(kept)
           chosen == [k \in 1..n |-> events[place(k)]]
<1>1. EventsOf(events, uuids) = chosen BY DEF EventsOf
<1>2. kept \in SUBSET Int /\ IsFiniteSet(kept) /\ n \in Nat
  <2>1. kept \in SUBSET (1..Len(events)) /\ 1..Len(events) \in SUBSET Int OBVIOUS
  <2>2. IsFiniteSet(1..Len(events)) BY FS_Interval
  <2> HIDE DEF kept
  <2> QED BY <2>1, <2>2, FS_Subset, FS_CardinalityType
<1>3. \A k \in 1..n : place(k) \in kept
  <2> HIDE DEF kept
  <2>1. \A k \in 1..n : \E i \in kept : Cardinality({j \in kept : j <= i}) = k
    BY <1>2, EveryPlaceTaken
  <2> QED BY <2>1
<1>4. \A k \in 1..n : /\ place(k) \in DOMAIN events
                       /\ events[place(k)].uuid \in uuids
  <2> HIDE DEF place, n
  <2> QED BY <1>3
<1>5. \A k \in 1..n : events[place(k)] \in EventType
  <2> HIDE DEF place, n, kept
  <2> QED BY <1>4
<1> HIDE DEF place, n, kept
<1>6. chosen \in Seq(EventType) BY <1>2, <1>5
<1>7. DOMAIN chosen = 1..n OBVIOUS
<1> QED BY <1>1, <1>4, <1>6, <1>7

LEMMA FlushKept ==
  ASSUME Inv, Flush
  PROVE  Inv'
<1>1. sync \in SyncType /\ sync.pendingEvents \in Seq(EventType)
  BY DEF Inv, TypeOK, SyncType
<1>2. CASE HoldsAll(sync)
  <2> DEFINE f == [sync EXCEPT !.flush = FALSE]
  <2>1. sync' = f /\ batch' = batch BY <1>2 DEF Flush
  <2>2. /\ f \in SyncType /\ f.client = sync.client /\ f.session = sync.session
        /\ f.retryTimer = sync.retryTimer /\ f.dirtyUUIDs = sync.dirtyUUIDs
    BY <1>1 DEF SyncType
  <2> HIDE DEF f
  <2>3. Held(f) = UUIDs BY <1>2, <2>2 DEF Held, HoldsAll, Reading
  <2>4. Waiting(f) BY <2>2, <2>3, EventUuids DEF Waiting
  <2>5. Driven(f) BY <2>2, <2>4 DEF Inv, Driven, Reading
  <2> QED BY <2>1, <2>2, <2>5 DEF Inv, TypeOK, Flush
<1>3. CASE ~HoldsAll(sync)
  <2> DEFINE held == EventsOf(sync.pendingEvents, Held(sync))
             f == [sync EXCEPT !.flush = FALSE, !.pendingEvents = held]
  <2>1. sync' = f /\ batch' = EventsOf(sync.pendingEvents, UUIDs \ Held(sync))
    BY <1>3 DEF Flush
  <2>2. /\ held \in Seq(EventType) /\ \A i \in DOMAIN held : held[i].uuid \in Held(sync)
    BY <1>1, EventsOfEffect
  <2>3. batch' \in Seq(EventType) BY <1>1, <2>1, EventsOfEffect
  <2> HIDE DEF held
  <2>4. /\ f \in SyncType /\ f.client = sync.client /\ f.session = sync.session
        /\ f.retryTimer = sync.retryTimer /\ f.dirtyUUIDs = sync.dirtyUUIDs
        /\ f.pendingEvents = held
    BY <1>1, <2>2 DEF SyncType
  <2> HIDE DEF f
  <2>5. Held(f) = Held(sync) BY <2>4 DEF Held, Reading
  <2>6. Waiting(f) BY <2>2, <2>4, <2>5 DEF Waiting
  <2>7. Driven(f) BY <2>4, <2>6 DEF Inv, Driven, Reading
  <2> QED BY <2>1, <2>3, <2>4, <2>7 DEF Inv, TypeOK, Flush
<1> QED BY <1>2, <1>3

\* A change of the drawings and of what is owed, with nothing new owed.
LEMMA DrawnPut ==
  \A s \in SyncType, x \in [UUIDs -> DrawnType \cup {Absent}], owed \in SUBSET UUIDs :
     LET put == [s EXCEPT !.dirtyUUIDs = owed, !.entities = x]
     IN /\ put \in SyncType /\ put.dirtyUUIDs = owed /\ put.entities = x
        /\ put.session = s.session /\ put.client = s.client
        /\ put.retryTimer = s.retryTimer
        /\ put.pendingEvents = s.pendingEvents /\ put.flush = s.flush
        /\ Driven(s) /\ owed \subseteq s.dirtyUUIDs => Driven(put)
<1> SUFFICES ASSUME NEW s \in SyncType, NEW x \in [UUIDs -> DrawnType \cup {Absent}],
                    NEW owed \in SUBSET UUIDs
             PROVE  LET put == [s EXCEPT !.dirtyUUIDs = owed, !.entities = x]
                    IN /\ put \in SyncType /\ put.dirtyUUIDs = owed /\ put.entities = x
                       /\ put.session = s.session /\ put.client = s.client
                       /\ put.retryTimer = s.retryTimer
                       /\ put.pendingEvents = s.pendingEvents /\ put.flush = s.flush
                       /\ Driven(s) /\ owed \subseteq s.dirtyUUIDs => Driven(put)
  OBVIOUS
<1> DEFINE put == [s EXCEPT !.dirtyUUIDs = owed, !.entities = x]
<1>1. /\ put \in SyncType /\ put.dirtyUUIDs = owed /\ put.entities = x
      /\ put.session = s.session /\ put.client = s.client
      /\ put.retryTimer = s.retryTimer
      /\ put.pendingEvents = s.pendingEvents /\ put.flush = s.flush
  BY DEF SyncType
<1> HIDE DEF put
<1>2. (Reading(put) <=> Reading(s)) /\ Held(put) = Held(s) BY <1>1 DEF Reading, Held
<1>3. Driven(s) /\ owed \subseteq s.dirtyUUIDs => Driven(put)
  BY <1>1, <1>2 DEF Driven, Waiting
<1> QED BY <1>1, <1>3 DEF put

LEMMA ApplyKept ==
  ASSUME Inv, ApplyEvent
  PROVE  Inv'
<1> DEFINE e == Head(batch)
           d == sync.entities[e.uuid]
           respawns == d # Absent /\ "body" \in e.paths /\ "chunks" \in d.known
<1>1. /\ sync \in SyncType /\ sync.dirtyUUIDs \in SUBSET UUIDs
      /\ sync.entities \in [UUIDs -> DrawnType \cup {Absent}]
  BY DEF Inv, TypeOK, SyncType
<1>2. e \in EventType /\ batch' \in Seq(EventType)
  <2>1. batch \in Seq(EventType) /\ batch # <<>> /\ batch' = Tail(batch)
    BY DEF ApplyEvent, Inv, TypeOK
  <2> QED BY <2>1
<1>3. sync' = CASE e.type = "ADDED" ->
                     IF d # Absent THEN sync
                     ELSE [sync EXCEPT !.entities[e.uuid] = Spawned(e.t, e.instance)]
                [] e.type = "REMOVED" -> Removed(sync, e.uuid)
                [] e.type = "UPDATED" /\ d # Absent /\ ~respawns ->
                     [sync EXCEPT !.entities[e.uuid] = Updated(d, e.t, e.paths, e.instance)]
                [] OTHER ->
                     markDirty([sync EXCEPT !.entities[e.uuid] = Absent], e.uuid)
  BY DEF ApplyEvent
<1> HIDE DEF e
<1>4. /\ e.uuid \in UUIDs /\ e.t \in TransformType /\ e.instance \in Instances
      /\ e.paths \in SUBSET {"pose", "body", "meta"}
      /\ e.type \in {"ADDED", "REMOVED", "UPDATED"}
  BY <1>2 DEF EventType, Instances
<1>5. ASSUME NEW x \in DrawnType \cup {Absent}, NEW owed \in SUBSET sync.dirtyUUIDs
      PROVE  LET put == [sync EXCEPT !.dirtyUUIDs = owed, !.entities[e.uuid] = x]
             IN put \in SyncType /\ Driven(put)
  <2> DEFINE drawn == [sync.entities EXCEPT ![e.uuid] = x]
  <2>1. [sync EXCEPT !.dirtyUUIDs = owed, !.entities[e.uuid] = x]
          = [sync EXCEPT !.dirtyUUIDs = owed, !.entities = drawn]
    OBVIOUS
  <2>2. drawn \in [UUIDs -> DrawnType \cup {Absent}] BY <1>1, <1>4
  <2>3. owed \in SUBSET UUIDs BY <1>1
  <2> HIDE DEF drawn
  <2>4. LET put == [sync EXCEPT !.dirtyUUIDs = owed, !.entities = drawn]
        IN put \in SyncType /\ Driven(put)
    BY <1>1, <2>2, <2>3, DrawnPut DEF Inv
  <2> QED BY <2>1, <2>4
<1>6. ASSUME NEW x \in DrawnType \cup {Absent}
      PROVE  LET put == [sync EXCEPT !.entities[e.uuid] = x]
             IN put \in SyncType /\ Driven(put)
  <2> DEFINE drawn == [sync.entities EXCEPT ![e.uuid] = x]
             owed == sync.dirtyUUIDs
  <2>1. [sync EXCEPT !.entities[e.uuid] = x]
          = [sync EXCEPT !.dirtyUUIDs = owed, !.entities[e.uuid] = x]
    BY <1>1 DEF SyncType
  <2>2. owed \in SUBSET sync.dirtyUUIDs OBVIOUS
  <2> HIDE DEF owed
  <2> QED BY <1>5, <2>1, <2>2
<1>7. sync' \in SyncType /\ Driven(sync')
  <2>1. CASE e.type = "ADDED"
    <3>1. CASE d # Absent
      <4>1. sync' = sync BY <1>3, <2>1, <3>1
      <4> QED BY <4>1 DEF Inv, TypeOK
    <3>2. CASE d = Absent
      <4>1. sync' = [sync EXCEPT !.entities[e.uuid] = Spawned(e.t, e.instance)]
        BY <1>3, <2>1, <3>2
      <4>2. Spawned(e.t, e.instance) \in DrawnType BY <1>4, SpawnedTyped
      <4> QED BY <1>6, <4>1, <4>2
    <3> QED BY <3>1, <3>2
  <2>2. CASE e.type = "REMOVED"
    <3> DEFINE owed == sync.dirtyUUIDs \ {e.uuid}
    <3>1. sync' = Removed(sync, e.uuid) BY <1>3, <2>2
    <3>2. sync' = [sync EXCEPT !.dirtyUUIDs = owed, !.entities[e.uuid] = Absent]
      BY <3>1 DEF Removed
    <3>3. owed \in SUBSET sync.dirtyUUIDs OBVIOUS
    <3> HIDE DEF owed
    <3> QED BY <1>5, <3>2, <3>3
  <2>3. CASE e.type = "UPDATED" /\ d # Absent /\ ~respawns
    <3>1. sync' = [sync EXCEPT !.entities[e.uuid] = Updated(d, e.t, e.paths, e.instance)]
      BY <1>3, <2>3
    <3>2. d \in DrawnType BY <1>1, <1>4, <2>3
    <3>3. Updated(d, e.t, e.paths, e.instance) \in DrawnType BY <1>4, <3>2, UpdatedTyped
    <3> QED BY <1>6, <3>1, <3>3
  <2>4. CASE e.type = "UPDATED" /\ ~(d # Absent /\ ~respawns)
    <3> DEFINE cleared == [sync EXCEPT !.entities[e.uuid] = Absent]
    <3>1. sync' = markDirty(cleared, e.uuid) BY <1>3, <2>4
    <3>2. cleared \in SyncType /\ Driven(cleared) BY <1>6
    <3> HIDE DEF cleared
    <3> QED BY <1>4, <3>1, <3>2, DirtyEffect
  <2> QED BY <1>4, <2>1, <2>2, <2>3, <2>4
<1> QED BY <1>2, <1>7 DEF Inv, TypeOK, ApplyEvent

LEMMA RetryKept ==
  ASSUME Inv, RetryFires
  PROVE  Inv'
<1> DEFINE fired == [sync EXCEPT !.retryTimer = FALSE]
<1>1. sync' = resync(fired) BY DEF RetryFires
<1>2. sync \in SyncType BY DEF Inv, TypeOK
<1>3. /\ fired \in SyncType /\ fired.client = sync.client /\ fired.session = sync.session
      /\ fired.pendingEvents = sync.pendingEvents /\ fired.flush = sync.flush
  BY <1>2 DEF SyncType
<1> HIDE DEF fired
<1>4. Payable(fired)
  BY <1>3 DEF Payable, Inv, Driven, Waiting, Held, Reading
<1>5. sync' \in SyncType /\ Driven(sync') BY <1>1, <1>3, <1>4, ResyncEffect
<1> QED BY <1>5 DEF Inv, TypeOK, RetryFires

---------------------------------------------------------------------------
(* The reads and the chunk loader.                                         *)

LEMMA FailsTyped ==
  ASSUME Inv, Fails
  PROVE  spent' \in [changes : Nat, failures : Nat, cuts : Nat]
BY DEF Inv, TypeOK, Fails

\* The read that runs goes on: what it holds back does not shrink.
LEMMA ReadPut ==
  ASSUME NEW s \in SyncType, NEW r \in ReadType, Reading(s),
         r.isSnapshot = s.session.read.isSnapshot,
         s.session.read.isSnapshot \/ r.uuids = s.session.read.uuids
  PROVE  LET put == [s EXCEPT !.session.read = r]
         IN /\ put \in SyncType /\ put.session # Absent
            /\ put.entities = s.entities /\ put.dirtyUUIDs = s.dirtyUUIDs
            /\ Driven(s) => Driven(put)
<1> DEFINE session == [s.session EXCEPT !.read = r]
           put == [s EXCEPT !.session = session]
<1>1. [s EXCEPT !.session.read = r] = put OBVIOUS
<1>2. s.session # Absent /\ s.session \in SessionType /\ s.session.read # Absent
  BY DEF Reading, SyncType
<1>3. /\ session \in SessionType /\ session.read = r
      /\ session.isStreamOpen = s.session.isStreamOpen
      /\ session.isSnapshotOwed = s.session.isSnapshotOwed
  BY <1>2 DEF SessionType
<1> HIDE DEF session
<1>4. /\ put \in SyncType /\ put.session = session /\ put.client = s.client
      /\ put.retryTimer = s.retryTimer /\ put.dirtyUUIDs = s.dirtyUUIDs
      /\ put.entities = s.entities
      /\ put.pendingEvents = s.pendingEvents /\ put.flush = s.flush
  BY <1>3 DEF SyncType
<1> HIDE DEF put
<1>5. Reading(put) /\ put.session # Absent BY <1>3, <1>4, SessionsDiffer DEF Reading
<1>6. Held(put) = Held(s) BY <1>3, <1>4, <1>5 DEF Held
<1>7. Driven(s) => Driven(put) BY <1>3, <1>4, <1>5, <1>6 DEF Driven, Waiting
<1> QED BY <1>1, <1>4, <1>5, <1>7

LEMMA AnswersTyped ==
  \A t \in TransformType, i \in Instances :
     /\ [state |-> "failed"] \in AnswerType
     /\ [state |-> "loaded", t |-> t, instance |-> i] \in AnswerType
BY DEF AnswerType, Instances

LEMMA AskedTyped == \A uuids : Asked(uuids) \in [UUIDs -> AnswerType]
BY DEF Asked, AnswerType

LEMMA ListServedKept ==
  ASSUME Inv, ListServed
  PROVE  Inv'
<1> DEFINE listed == {uuid \in UUIDs : store[uuid] # Absent}
           asked == Asked(listed)
           read == [sync.session.read EXCEPT !.listed = TRUE, !.uuids = listed,
                                             !.got = asked]
           begun == [sync EXCEPT !.session.read = read]
           drawn == [uuid \in UUIDs |-> IF uuid \in listed THEN sync.entities[uuid]
                                        ELSE Absent]
<1>1. /\ sync \in SyncType /\ Reading(sync) /\ sync.session.read \in ReadType
      /\ ~sync.session.read.listed
      /\ sync.entities \in [UUIDs -> DrawnType \cup {Absent}]
  BY DEF ListServed, Reading, Inv, TypeOK, SyncType, SessionType
<1>2. read \in ReadType /\ read.isSnapshot = sync.session.read.isSnapshot
      /\ sync.session.read.isSnapshot
  <2>1. asked \in [UUIDs -> AnswerType] /\ listed \in SUBSET UUIDs BY AskedTyped
  <2> HIDE DEF asked, listed
  <2> QED BY <1>1, <2>1 DEF ReadType
<1>3. drawn \in [UUIDs -> DrawnType \cup {Absent}] BY <1>1
<1>4. sync' = [begun EXCEPT !.dirtyUUIDs = {}, !.entities = drawn]
  <2>1. sync' = [sync EXCEPT !.session.read = read, !.entities = drawn, !.dirtyUUIDs = {}]
    BY DEF ListServed
  <2>2. [sync EXCEPT !.session.read = read, !.entities = drawn, !.dirtyUUIDs = {}]
          = [begun EXCEPT !.dirtyUUIDs = {}, !.entities = drawn]
    <3> HIDE DEF read, drawn
    <3> QED BY <1>1 DEF SyncType
  <2> QED BY <2>1, <2>2
<1> HIDE DEF read, drawn
<1>5. begun \in SyncType /\ Driven(begun) /\ {} \in SUBSET UUIDs
      /\ {} \subseteq begun.dirtyUUIDs
  BY <1>1, <1>2, ReadPut DEF Inv
<1> HIDE DEF begun
<1>6. sync' \in SyncType /\ Driven(sync') BY <1>3, <1>4, <1>5, DrawnPut
<1> QED BY <1>6 DEF Inv, TypeOK, ListServed

LEMMA ListFailsKept ==
  ASSUME Inv, ListFails
  PROVE  Inv'
<1> DEFINE owing == [sync EXCEPT !.retryTimer = TRUE]
<1>1. sync' = finally(owing) BY DEF ListFails
<1>2. sync \in SyncType /\ sync.session # Absent BY DEF ListFails, Reading, Inv, TypeOK
<1>3. owing \in SyncType /\ owing.session = sync.session /\ owing.retryTimer
  BY <1>2 DEF SyncType
<1> HIDE DEF owing
<1>4. sync' \in SyncType /\ Driven(sync') BY <1>1, <1>2, <1>3, FinallyEffect
<1> QED BY <1>4, FailsTyped DEF Inv, TypeOK, ListFails

LEMMA AnswerKept ==
  ASSUME Inv, NEW uuid \in UUIDs, NEW answer \in AnswerType, Reading(sync)
  PROVE  LET put == [sync EXCEPT !.session.read.got[uuid] = answer]
         IN put \in SyncType /\ Driven(put)
<1> DEFINE got == [sync.session.read.got EXCEPT ![uuid] = answer]
           read == [sync.session.read EXCEPT !.got = got]
<1>1. sync \in SyncType /\ sync.session.read \in ReadType
  BY DEF Reading, Inv, TypeOK, SyncType, SessionType
<1>2. got \in [UUIDs -> AnswerType]
  <2>1. sync.session.read.got \in [UUIDs -> AnswerType] BY <1>1 DEF ReadType
  <2> QED BY <2>1
<1>3. [sync EXCEPT !.session.read.got[uuid] = answer] = [sync EXCEPT !.session.read = read]
  OBVIOUS
<1> HIDE DEF got
<1>4. /\ read \in ReadType /\ read.isSnapshot = sync.session.read.isSnapshot
      /\ read.uuids = sync.session.read.uuids
  BY <1>1, <1>2 DEF ReadType
<1> HIDE DEF read
<1>5. LET put == [sync EXCEPT !.session.read = read] IN put \in SyncType /\ Driven(put)
  BY <1>1, <1>4, ReadPut DEF Inv
<1> QED BY <1>3, <1>5

LEMMA GetsKept ==
  ASSUME Inv, NEW uuid \in UUIDs, GetServed(uuid) \/ GetFails(uuid)
  PROVE  Inv'
<1>1. store[uuid] \in TransformType \cup {Absent} /\ instance \in Instances
  BY DEF Inv, TypeOK, Instances
<1>2. CASE GetServed(uuid)
  <2> DEFINE answer == IF store[uuid] = Absent THEN [state |-> "failed"]
                       ELSE [state |-> "loaded", t |-> store[uuid], instance |-> instance]
  <2>1. sync' = [sync EXCEPT !.session.read.got[uuid] = answer] /\ Reading(sync)
    BY <1>2 DEF GetServed
  <2>2. answer \in AnswerType
    <3>1. [state |-> "failed"] \in AnswerType BY DEF AnswerType
    <3>2. store[uuid] # Absent
            => [state |-> "loaded", t |-> store[uuid], instance |-> instance] \in AnswerType
      BY <1>1, AnswersTyped
    <3> QED BY <3>1, <3>2
  <2> HIDE DEF answer
  <2>3. sync' \in SyncType /\ Driven(sync') BY <2>1, <2>2, AnswerKept
  <2>4. missed' \in SUBSET UUIDs BY <1>2 DEF GetServed, Inv, TypeOK
  <2> QED BY <1>2, <2>3, <2>4 DEF Inv, TypeOK, GetServed
<1>3. CASE GetFails(uuid)
  <2> DEFINE answer == [state |-> "failed"]
  <2>1. sync' = [sync EXCEPT !.session.read.got[uuid] = answer] /\ Reading(sync)
    BY <1>3 DEF GetFails
  <2>2. answer \in AnswerType BY DEF AnswerType
  <2> HIDE DEF answer
  <2>3. sync' \in SyncType /\ Driven(sync') BY <2>1, <2>2, AnswerKept
  <2> QED BY <1>3, <2>3, FailsTyped DEF Inv, TypeOK, GetFails
<1> QED BY <1>2, <1>3

\* What a read draws are drawings.
LEMMA AppliedTyped ==
  \A s \in SyncType, read \in ReadType :
     Applied(s, read) \in [UUIDs -> DrawnType \cup {Absent}]
<1> SUFFICES ASSUME NEW s \in SyncType, NEW read \in ReadType
             PROVE  Applied(s, read) \in [UUIDs -> DrawnType \cup {Absent}]
  OBVIOUS
<1> DEFINE one(uuid) ==
        CASE read.got[uuid].state = "loaded" ->
               Read(s.entities[uuid], read.got[uuid].t, read.got[uuid].instance,
                    read.isRebuild)
          [] read.got[uuid].state = "failed" /\ read.isRebuild -> Absent
          [] OTHER -> s.entities[uuid]
<1>1. ASSUME NEW uuid \in UUIDs PROVE one(uuid) \in DrawnType \cup {Absent}
  <2>1. /\ s.entities[uuid] \in DrawnType \cup {Absent} /\ read.isRebuild \in BOOLEAN
        /\ read.got[uuid] \in AnswerType
    BY DEF SyncType, ReadType
  <2>2. CASE read.got[uuid].state = "loaded"
    <3>1. read.got[uuid].t \in TransformType /\ read.got[uuid].instance \in Instances
      BY <2>1, <2>2 DEF AnswerType, Instances
    <3>2. Read(s.entities[uuid], read.got[uuid].t, read.got[uuid].instance,
               read.isRebuild) \in DrawnType
      BY <2>1, <3>1, ReadTyped
    <3> QED BY <2>2, <3>2
  <2>3. CASE read.got[uuid].state # "loaded" BY <2>1, <2>3
  <2> QED BY <2>2, <2>3
<1>2. Applied(s, read) = [uuid \in UUIDs |-> one(uuid)] BY DEF Applied
<1> HIDE DEF one
<1> QED BY <1>1, <1>2

LEMMA ReadFinishesKept ==
  ASSUME Inv, ReadFinishes
  PROVE  Inv'
<1> DEFINE read == sync.session.read
           failed == {uuid \in UUIDs : read.got[uuid].state = "failed"}
           shown == Applied(sync, read)
           dirty == sync.dirtyUUIDs \cup failed
           owed == sync.session.isSnapshotOwed /\ ~read.isSnapshot
           session == [sync.session EXCEPT !.isSnapshotOwed = owed]
           seq == IF read.isSnapshot THEN read.seq ELSE sync.drawnRebuildSeq
           retry == sync.retryTimer \/ failed # {}
           drawn == [sync EXCEPT !.entities = shown, !.dirtyUUIDs = dirty,
                                 !.session = session, !.drawnRebuildSeq = seq,
                                 !.retryTimer = retry]
<1>1. /\ sync \in SyncType /\ read \in ReadType /\ Reading(sync)
      /\ sync.session # Absent /\ sync.session \in SessionType
      /\ sync.entities \in [UUIDs -> DrawnType \cup {Absent}]
      /\ sync.dirtyUUIDs \in SUBSET UUIDs /\ sync.retryTimer \in BOOLEAN
      /\ sync.drawnRebuildSeq \in Nat
  BY DEF ReadFinishes, Reading, Inv, TypeOK, SyncType, SessionType
<1>2. sync' = finally(drawn)
  <2>1. [sync EXCEPT !.entities = shown, !.dirtyUUIDs = @ \cup failed,
                     !.session.isSnapshotOwed = @ /\ ~read.isSnapshot,
                     !.drawnRebuildSeq = IF read.isSnapshot THEN read.seq ELSE @,
                     !.retryTimer = @ \/ failed # {}] = drawn
    OBVIOUS
  <2> QED BY <2>1 DEF ReadFinishes
<1>3. /\ read.got \in [UUIDs -> AnswerType] /\ read.isRebuild \in BOOLEAN
      /\ read.seq \in Nat /\ read.isSnapshot \in BOOLEAN
  BY <1>1 DEF ReadType
<1>4. shown \in [UUIDs -> DrawnType \cup {Absent}] BY <1>1, AppliedTyped
<1>5. /\ session \in SessionType /\ session.isStreamOpen = sync.session.isStreamOpen
  <2>1. owed \in BOOLEAN OBVIOUS
  <2> HIDE DEF owed
  <2> QED BY <1>1, <2>1 DEF SessionType
<1>6. seq \in Nat /\ dirty \in SUBSET UUIDs /\ retry \in BOOLEAN BY <1>1, <1>3
<1>7. sync.retryTimer => retry OBVIOUS
<1> HIDE DEF shown, session, seq, dirty, retry
<1>8. /\ drawn \in SyncType /\ drawn.session = session /\ drawn.client = sync.client
      /\ drawn.retryTimer = retry
  BY <1>1, <1>4, <1>5, <1>6 DEF SyncType
<1> HIDE DEF drawn
<1>9. sync' \in SyncType /\ sync'.client = sync.client /\ Driven(sync')
  <2>1. sync.client /\ ~sync.session.isStreamOpen => sync.retryTimer
    BY DEF Inv, Driven
  <2>2. drawn.session # Absent
        /\ (drawn.client /\ ~drawn.session.isStreamOpen => drawn.retryTimer)
    BY <1>5, <1>7, <1>8, <2>1, SessionsDiffer
  <2> QED BY <1>2, <1>8, <2>2, FinallyEffect
<1> QED BY <1>9 DEF Inv, TypeOK, ReadFinishes

LEMMA ChunkKept ==
  ASSUME Inv, NEW uuid \in UUIDs,
         ParseLands(uuid) \/ ChunkPulled(uuid) \/ PullParks(uuid)
  PROVE  Inv'
<1>1. /\ sync \in SyncType /\ sync.entities[uuid] \in DrawnType
      /\ sync.entities \in [UUIDs -> DrawnType \cup {Absent}]
      /\ instance \in 0..MaxInstances
  BY DEF ParseLands, ChunkPulled, PullParks, Pulling, Inv, TypeOK, SyncType
<1>2. ASSUME NEW d \in DrawnType
      PROVE  LET put == [sync EXCEPT !.entities[uuid] = d]
             IN put \in SyncType /\ Driven(put)
  <2> DEFINE drawn == [sync.entities EXCEPT ![uuid] = d]
             owed == sync.dirtyUUIDs
  <2>1. [sync EXCEPT !.entities[uuid] = d]
          = [sync EXCEPT !.dirtyUUIDs = owed, !.entities = drawn]
    BY <1>1 DEF SyncType
  <2>2. drawn \in [UUIDs -> DrawnType \cup {Absent}] BY <1>1
  <2>3. owed \in SUBSET UUIDs /\ owed \subseteq sync.dirtyUUIDs BY <1>1 DEF SyncType
  <2> HIDE DEF drawn, owed
  <2>4. LET put == [sync EXCEPT !.dirtyUUIDs = owed, !.entities = drawn]
        IN put \in SyncType /\ Driven(put)
    BY <1>1, <2>2, <2>3, DrawnPut DEF Inv
  <2> QED BY <2>1, <2>4
<1>3. CASE ChunkPulled(uuid)
  <2> DEFINE d == Extended(sync.entities[uuid])
  <2>1. sync' = [sync EXCEPT !.entities[uuid] = d] BY <1>3 DEF ChunkPulled
  <2>2. d \in DrawnType BY <1>1 DEF Extended, DrawnType
  <2> HIDE DEF d
  <2>3. sync' \in SyncType /\ Driven(sync') BY <1>2, <2>1, <2>2
  <2> QED BY <1>3, <2>3 DEF Inv, TypeOK, ChunkPulled
<1>4. CASE PullParks(uuid)
  <2> DEFINE d == [sync.entities[uuid] EXCEPT !.pull = "suspended"]
  <2>1. sync' = [sync EXCEPT !.entities[uuid] = d] BY <1>4 DEF PullParks
  <2>2. d \in DrawnType BY <1>1 DEF DrawnType
  <2> HIDE DEF d
  <2>3. sync' \in SyncType /\ Driven(sync') BY <1>2, <2>1, <2>2
  <2>4. spent' \in [changes : Nat, failures : Nat, cuts : Nat]
    BY <1>4, FailsTyped DEF PullParks, Inv, TypeOK
  <2> QED BY <1>4, <2>3, <2>4 DEF Inv, TypeOK, PullParks
<1>5. CASE ParseLands(uuid)
  <2> DEFINE d == [sync.entities[uuid] EXCEPT !.parsed = TRUE]
  <2>1. sync' = [sync EXCEPT !.entities[uuid] = d] BY <1>5 DEF ParseLands
  <2>2. d \in DrawnType BY <1>1 DEF DrawnType
  <2> HIDE DEF d
  <2>3. sync' \in SyncType /\ Driven(sync') BY <1>2, <2>1, <2>2
  <2> QED BY <1>5, <2>3 DEF Inv, TypeOK, ParseLands
<1> QED BY <1>3, <1>4, <1>5

---------------------------------------------------------------------------
(* The theorems.                                                           *)

LEMMA InvHolds == Spec => []Inv
<1>1. Inv /\ [Next]_vars => Inv'
  <2> SUFFICES ASSUME Inv, [Next]_vars PROVE Inv' OBVIOUS
  <2>1. CASE \E uuid \in UUIDs : StoreAdds(uuid) \/ StoreRemoves(uuid) \/ StoreUpdates(uuid)
    BY <2>1, ChangesKept
  <2>2. CASE StoreRebuilt BY <2>2, RebuiltKept
  <2>3. CASE StatusReported \/ ClientArrives \/ ClientReplaced \/ ClientLost
    BY <2>3, ReportsKept
  <2>4. CASE StoreSubscribes \/ StreamRefused BY <2>4, SubscribesKept
  <2>5. CASE EventArrives BY <2>5, ArrivesKept
  <2>6. CASE StreamEnds BY <2>6, StreamEndsKept
  <2>7. CASE Flush BY <2>7, FlushKept
  <2>8. CASE ApplyEvent BY <2>8, ApplyKept
  <2>9. CASE RetryFires BY <2>9, RetryKept
  <2>10. CASE ListServed BY <2>10, ListServedKept
  <2>11. CASE ListFails BY <2>11, ListFailsKept
  <2>12. CASE ReadFinishes BY <2>12, ReadFinishesKept
  <2>13. CASE \E uuid \in UUIDs : GetServed(uuid) \/ GetFails(uuid)
    BY <2>13, GetsKept
  <2>14. CASE \E uuid \in UUIDs : ParseLands(uuid) \/ ChunkPulled(uuid) \/ PullParks(uuid)
    BY <2>14, ChunkKept
  <2>15. CASE UNCHANGED vars
    BY <2>15 DEF vars, Inv, TypeOK, Driven, Waiting, Held, Reading
  <2> QED
    BY <2>1, <2>2, <2>3, <2>4, <2>5, <2>6, <2>7, <2>8, <2>9, <2>10, <2>11, <2>12,
       <2>13, <2>14, <2>15
    DEF Next
<1> QED BY Starts, <1>1, PTL DEF Spec

\* Every variable keeps its type: what a read, an event or a rebuild draws is
\* a drawing, and only a snapshot has a list to wait for.
THEOREM Types == Spec => []TypeOK
<1>1. Inv => TypeOK BY DEF Inv
<1> QED BY <1>1, InvHolds, PTL

\* An ended stream, a snapshot or a transform that is owed, and an event that
\* waits each have a read, the retry timer or a frame that will deal with them
\* (worldStateSync.ts: resync, markDirty, scheduleFlush and their callers).
THEOREM DebtsDriven == Spec => []DebtsAreDriven
<1>1. Inv => DebtsAreDriven BY DEF Inv, Driven, Waiting, DebtsAreDriven
<1> QED BY <1>1, InvHolds, PTL

---------------------------------------------------------------------------
(* No old chunks: which drawings, events and answers are the instance's.   *)

\* A rebuild asked for has not been drawn yet.
Due(s) == s.rebuildSeq # s.drawnRebuildSeq

\* A drawn cloud's points all come from instance `i`.
Whole(d, i) == d # Absent /\ d.kind = "cloud" => d.head = i /\ d.tail \in {0, i}

AllFrom(events, i) == \A k \in DOMAIN events : events[k].instance = i
AnsweredBy(got, i) ==
    \A uuid \in UUIDs : got[uuid].state = "loaded" => got[uuid].instance = i

\* The two counters and the read between them: a snapshot that runs for the
\* last rebuild asked for knows that it is one, and an open session with a
\* rebuild to draw owes the snapshot that will draw it.
Orderly(s) ==
    /\ s.drawnRebuildSeq <= s.rebuildSeq
    /\ s.session # Absent =>
         LET read == s.session.read
         IN /\ read # Absent =>
                 /\ read.seq <= s.rebuildSeq
                 /\ read.isSnapshot /\ read.seq = s.rebuildSeq => read.isRebuild = Due(s)
            /\ s.session.isStreamOpen =>
                 /\ Due(s) => s.session.isSnapshotOwed
                 /\ read # Absent => read.seq = s.rebuildSeq

\* A session that ended before the last rebuild was asked for: what it heard
\* and read is an older instance's, and the rebuild will replace it.
OutOfDate(s) ==
    /\ Due(s)
    /\ \/ s.session = Absent
       \/ /\ ~s.session.isStreamOpen
          /\ s.session.read # Absent => s.session.read.seq # s.rebuildSeq

\* Nothing that is still to come will replace this drawing.
Settled(s, uuid) ==
    \/ ~Due(s)
    \/ /\ Reading(s)
       /\ LET read == s.session.read
          IN /\ read.isSnapshot /\ read.listed /\ read.seq = s.rebuildSeq
             /\ read.got[uuid].state = "unasked"

SettledWhole(s, i) == \A uuid \in UUIDs : Settled(s, uuid) => Whole(s.entities[uuid], i)
HeardFrom(s, i) ==
    /\ AllFrom(s.pendingEvents, i)
    /\ s.session # Absent =>
         /\ AllFrom(s.session.wire, i)
         /\ s.session.read # Absent => AnsweredBy(s.session.read.got, i)

Fresh(s, i) == SettledWhole(s, i) /\ (~OutOfDate(s) => HeardFrom(s, i))

\* The status has named the instance that answers, or none so far and no
\* rebuild went unnoticed.
Told == sync.lastGeneration \in {0, instance} /\ ~untold

OldInv ==
    /\ Orderly(sync)
    /\ sync.lastGeneration <= instance
    /\ Told => /\ Fresh(sync, instance)
               /\ ~OutOfDate(sync) => AllFrom(batch, instance)

LEMMA WholeSpawned ==
  \A t \in TransformType, i \in Instances :
     /\ Whole(Spawned(t, i), i)
     /\ \A p : Whole([Spawned(t, i) EXCEPT !.print = p], i)
BY DEF Whole, Spawned

LEMMA WholePlaced ==
  \A d \in DrawnType, t \in TransformType, i \in Instances :
     /\ Whole(Regeometry(d, t, i), i)
     /\ Regeometry(d, t, i).kind = t.kind
     /\ [d EXCEPT !.pose = t.pose].kind = d.kind
     /\ Whole(d, i) => Whole([d EXCEPT !.pose = t.pose], i)
<1> SUFFICES ASSUME NEW d \in DrawnType, NEW t \in TransformType, NEW i \in Instances
             PROVE  /\ Whole(Regeometry(d, t, i), i)
                    /\ Regeometry(d, t, i).kind = t.kind
                    /\ [d EXCEPT !.pose = t.pose].kind = d.kind
                    /\ Whole(d, i) => Whole([d EXCEPT !.pose = t.pose], i)
  OBVIOUS
<1> DEFINE r == Regeometry(d, t, i)
           m == [d EXCEPT !.pose = t.pose]
<1>1. r.kind = t.kind /\ r.head = i /\ r.tail = 0 BY DEF Regeometry, DrawnType
<1>2. m.kind = d.kind /\ m.head = d.head /\ m.tail = d.tail BY DEF DrawnType
<1>3. d # Absent BY SessionsDiffer
<1> HIDE DEF r, m
<1>4. Whole(r, i) BY <1>1 DEF Whole
<1>5. Whole(d, i) => Whole(m, i) BY <1>2, <1>3 DEF Whole
<1> QED BY <1>1, <1>2, <1>4, <1>5 DEF r, m

LEMMA WholeRecolored ==
  \A d \in DrawnType, t \in TransformType, i \in Instances : \A p :
     /\ Remetadata(d, t).kind = d.kind
     /\ [Remetadata(d, t) EXCEPT !.print = p].kind = d.kind
     /\ Whole(d, i) => /\ Whole(Remetadata(d, t), i)
                       /\ Whole([Remetadata(d, t) EXCEPT !.print = p], i)
<1> SUFFICES ASSUME NEW d \in DrawnType, NEW t \in TransformType, NEW i \in Instances,
                    NEW p
             PROVE  /\ Remetadata(d, t).kind = d.kind
                    /\ [Remetadata(d, t) EXCEPT !.print = p].kind = d.kind
                    /\ Whole(d, i) => /\ Whole(Remetadata(d, t), i)
                                      /\ Whole([Remetadata(d, t) EXCEPT !.print = p], i)
  OBVIOUS
<1> DEFINE r == Remetadata(d, t)
           m == [Remetadata(d, t) EXCEPT !.print = p]
<1>1. r.kind = d.kind /\ r.head = d.head /\ r.tail = d.tail BY DEF Remetadata, DrawnType
<1>2. m.kind = r.kind /\ m.head = r.head /\ m.tail = r.tail BY DEF Remetadata
<1>3. d # Absent BY SessionsDiffer
<1> HIDE DEF r, m
<1>4. Whole(d, i) => Whole(r, i) /\ Whole(m, i) BY <1>1, <1>2, <1>3 DEF Whole
<1> QED BY <1>1, <1>2, <1>4 DEF r, m

LEMMA WholeUpdated ==
  \A d \in DrawnType, t \in TransformType, i \in Instances,
     paths \in SUBSET {"pose", "body", "meta"} :
     Whole(d, i) => Whole(Updated(d, t, paths, i), i)
<1> SUFFICES ASSUME NEW d \in DrawnType, NEW t \in TransformType, NEW i \in Instances,
                    NEW paths \in SUBSET {"pose", "body", "meta"}, Whole(d, i)
             PROVE  Whole(Updated(d, t, paths, i), i)
  OBVIOUS
<1> DEFINE moved == IF "pose" \in paths THEN [d EXCEPT !.pose = t.pose] ELSE d
           shaped == IF "body" \in paths THEN Regeometry(moved, t, i) ELSE moved
<1>1. Updated(d, t, paths, i) = IF "meta" \in paths THEN Remetadata(shaped, t) ELSE shaped
  BY DEF Updated
<1>2. moved \in DrawnType /\ Whole(moved, i) BY MovedTyped, WholePlaced
<1> HIDE DEF moved
<1>3. shaped \in DrawnType /\ Whole(shaped, i)
  BY <1>2, RegeometryTyped, WholePlaced
<1> HIDE DEF shaped
<1> QED BY <1>1, <1>3, WholeRecolored

LEMMA WholeRefreshed ==
  \A d \in DrawnType, t \in TransformType, i \in Instances :
     d.kind = t.kind =>
       /\ Refreshed(d, t, i).kind = t.kind
       /\ Whole(d, i) => Whole(Refreshed(d, t, i), i)
<1> SUFFICES ASSUME NEW d \in DrawnType, NEW t \in TransformType, NEW i \in Instances,
                    d.kind = t.kind
             PROVE  /\ Refreshed(d, t, i).kind = t.kind
                    /\ Whole(d, i) => Whole(Refreshed(d, t, i), i)
  OBVIOUS
<1> DEFINE moved == [d EXCEPT !.pose = t.pose]
           shaped == IF SourceOf(t) # {} /\ d.source = SourceOf(t)
                     THEN moved ELSE Regeometry(moved, t, i)
           final == [Remetadata(shaped, t) EXCEPT !.print = {Fingerprint(t)}]
<1>1. /\ moved \in DrawnType /\ moved.kind = t.kind
      /\ Whole(d, i) => Whole(moved, i)
  BY MovedTyped, WholePlaced
<1>2. Refreshed(d, t, i) = IF t.kind = "cloud" /\ t.chunks THEN moved
                           ELSE IF shaped.print = {Fingerprint(t)} THEN shaped ELSE final
  BY DEF Refreshed
<1> HIDE DEF moved
<1>3. /\ shaped \in DrawnType /\ shaped.kind = t.kind
      /\ Whole(d, i) => Whole(shaped, i)
  BY <1>1, RegeometryTyped, WholePlaced
<1> HIDE DEF shaped
<1>4. final.kind = t.kind /\ (Whole(d, i) => Whole(final, i))
  BY <1>3, WholeRecolored
<1> QED BY <1>1, <1>2, <1>3, <1>4

\* A read of a rebuild draws every cloud anew; any other keeps what is whole.
LEMMA WholeRead ==
  \A d \in DrawnType \cup {Absent}, t \in TransformType, i \in Instances,
     rebuild \in BOOLEAN :
     (rebuild \/ Whole(d, i)) => Whole(Read(d, t, i, rebuild), i)
<1> SUFFICES ASSUME NEW d \in DrawnType \cup {Absent}, NEW t \in TransformType,
                    NEW i \in Instances, NEW rebuild \in BOOLEAN, rebuild \/ Whole(d, i)
             PROVE  Whole(Read(d, t, i, rebuild), i)
  OBVIOUS
<1>1. CASE d # Absent /\ ~MustRespawn(d, t, rebuild)
  <2>1. d \in DrawnType /\ d.kind = t.kind /\ (rebuild => t.kind # "cloud")
    BY <1>1 DEF MustRespawn
  <2>2. Read(d, t, i, rebuild) = Refreshed(d, t, i) BY <1>1 DEF Read
  <2>3. CASE rebuild
    <3>1. Refreshed(d, t, i).kind # "cloud" BY <2>1, <2>3, WholeRefreshed
    <3> QED BY <2>2, <3>1 DEF Whole
  <2>4. CASE Whole(d, i) BY <2>1, <2>2, <2>4, WholeRefreshed
  <2> QED BY <2>3, <2>4
<1>2. CASE ~(d # Absent /\ ~MustRespawn(d, t, rebuild))
  <2>1. Read(d, t, i, rebuild)
          = [Spawned(t, i) EXCEPT !.print = IF t.chunks THEN {} ELSE {Fingerprint(t)}]
    BY <1>2 DEF Read
  <2> QED BY <2>1, WholeSpawned
<1> QED BY <1>1, <1>2

LEMMA WholePulled ==
  \A d \in DrawnType \cup {Absent}, i \in Instances :
     Whole(d, i) => Whole(Resumed(d), i) /\ Whole(Stopped(d), i)
<1> SUFFICES ASSUME NEW d \in DrawnType \cup {Absent}, NEW i \in Instances, Whole(d, i)
             PROVE Whole(Resumed(d), i) /\ Whole(Stopped(d), i)
  OBVIOUS
<1>1. CASE d = Absent BY <1>1 DEF Resumed, Stopped
<1>2. CASE d \in DrawnType /\ d # Absent
  <2>1. ASSUME NEW p \in {"running", "none"} PROVE Whole([d EXCEPT !.pull = p], i)
    <3> DEFINE e == [d EXCEPT !.pull = p]
    <3>1. e.kind = d.kind /\ e.head = d.head /\ e.tail = d.tail BY <1>2 DEF DrawnType
    <3> QED BY <1>2, <3>1 DEF Whole
  <2>2. Whole(Resumed(d), i) BY <2>1 DEF Resumed
  <2>3. Whole(Stopped(d), i) BY <2>1 DEF Stopped
  <2> QED BY <2>2, <2>3
<1> QED BY <1>1, <1>2

---------------------------------------------------------------------------
(* No old chunks: the functions of the sync.                               *)

\* The fields of the record that the invariant reads.
SameScene(s, t) ==
    /\ t.session = s.session /\ t.entities = s.entities
    /\ t.pendingEvents = s.pendingEvents /\ t.lastGeneration = s.lastGeneration
    /\ t.rebuildSeq = s.rebuildSeq /\ t.drawnRebuildSeq = s.drawnRebuildSeq

\* What a function of the sync keeps.
Keeps(s, t) ==
    /\ t.lastGeneration = s.lastGeneration
    /\ Orderly(s) => /\ Orderly(t)
                     /\ \A i \in Instances : Fresh(s, i) => Fresh(t, i)

LEMMA Alike ==
  \A s, t : SameScene(s, t) => Keeps(s, t) /\ (OutOfDate(s) <=> OutOfDate(t))
BY DEF SameScene, Keeps, Orderly, Fresh, SettledWhole, Settled, HeardFrom, OutOfDate,
       Due, Reading

LEMMA KeepsTransitive == \A s, t, u : Keeps(s, t) /\ Keeps(t, u) => Keeps(s, u)
BY DEF Keeps

Counted(s) == s.drawnRebuildSeq <= s.rebuildSeq
AllWhole(s, i) == ~Due(s) => \A uuid \in UUIDs : Whole(s.entities[uuid], i)

LEMMA Countable ==
  \A s : Orderly(s) => Counted(s) /\ \A i : Fresh(s, i) => AllWhole(s, i)
BY DEF Orderly, Counted, Fresh, SettledWhole, Settled, AllWhole

\* Without a session only the drawings matter.
LEMMA FreshClosed ==
  \A s \in SyncType :
     /\ close(s).lastGeneration = s.lastGeneration
     /\ Counted(s) => Orderly(close(s))
     /\ \A i : AllWhole(s, i) => Fresh(close(s), i)
<1> SUFFICES ASSUME NEW s \in SyncType
             PROVE  /\ close(s).lastGeneration = s.lastGeneration
                    /\ Counted(s) => Orderly(close(s))
                    /\ \A i : AllWhole(s, i) => Fresh(close(s), i)
  OBVIOUS
<1>1. close(s).lastGeneration = s.lastGeneration BY DEF close, SyncType
<1> DEFINE c == close(s)
<1>2. /\ c.session = Absent /\ c.pendingEvents = <<>> /\ c.entities = s.entities
      /\ c.rebuildSeq = s.rebuildSeq /\ c.drawnRebuildSeq = s.drawnRebuildSeq
  BY CloseEffect
<1> HIDE DEF c
<1>3. Counted(s) => Orderly(c) BY <1>2 DEF Counted, Orderly
<1>4. \A i : AllWhole(s, i) => Fresh(c, i)
  BY <1>2 DEF AllWhole, Fresh, SettledWhole, Settled, Due, HeardFrom, AllFrom, Reading
<1> QED BY <1>1, <1>3, <1>4 DEF c

LEMMA SnapshotReadFresh ==
  \A s :
     /\ SnapshotRead(s).seq = s.rebuildSeq
     /\ SnapshotRead(s).isRebuild = Due(s)
     /\ \A i : AnsweredBy(SnapshotRead(s).got, i)
BY DEF SnapshotRead, Due, AnsweredBy, Unasked

LEMMA DirtyReadFresh ==
  \A s :
     /\ DirtyRead(s).seq = s.rebuildSeq
     /\ \A i : AnsweredBy(DirtyRead(s).got, i)
BY DEF DirtyRead, AnsweredBy, Asked

\* A new session has heard nothing, and its snapshot is for the last rebuild.
LEMMA FreshOpened ==
  \A s \in SyncType :
     /\ open(s).lastGeneration = s.lastGeneration
     /\ Counted(s) => Orderly(open(s))
     /\ \A i \in Instances : AllWhole(s, i) => Fresh(open(s), i)
<1> SUFFICES ASSUME NEW s \in SyncType
             PROVE  /\ open(s).lastGeneration = s.lastGeneration
                    /\ Counted(s) => Orderly(open(s))
                    /\ \A i \in Instances : AllWhole(s, i) => Fresh(open(s), i)
  OBVIOUS
<1> DEFINE c == close(s)
           r == SnapshotRead(s)
           session == [NewSession EXCEPT !.read = r]
           drawn == IF s.rebuildSeq # s.drawnRebuildSeq THEN c.entities
                    ELSE [uuid \in UUIDs |-> Resumed(c.entities[uuid])]
           o == [c EXCEPT !.session = session, !.entities = drawn]
<1>1. CASE ~s.client
  <2>1. open(s) = close(s) BY <1>1 DEF open
  <2> QED BY <2>1, FreshClosed
<1>2. CASE s.client
  <2>1. open(s) = o BY <1>2 DEF open
  <2>2. /\ session.isStreamOpen /\ session.isSnapshotOwed /\ session.read = r
        /\ session \in SessionType /\ r \in ReadType /\ r.isSnapshot /\ ~r.listed
    BY SnapshotReadTyped, NewSessionTyped
  <2>3. session.wire = <<>> BY DEF NewSession
  <2>4. /\ c \in SyncType /\ c.pendingEvents = <<>> /\ c.lastGeneration = s.lastGeneration
        /\ c.entities = s.entities
        /\ c.rebuildSeq = s.rebuildSeq /\ c.drawnRebuildSeq = s.drawnRebuildSeq
    BY CloseEffect, FreshClosed
  <2>5. \A uuid \in UUIDs, i \in Instances :
           Whole(s.entities[uuid], i) => Whole(drawn[uuid], i)
    <3> HIDE DEF c
    <3>1. \A uuid \in UUIDs : c.entities[uuid] \in DrawnType \cup {Absent}
      BY <2>4 DEF SyncType
    <3> QED BY <2>4, <3>1, WholePulled
  <2>6. /\ r.seq = s.rebuildSeq /\ r.isRebuild = Due(s)
        /\ \A i : AnsweredBy(r.got, i)
    BY SnapshotReadFresh
  <2> HIDE DEF c, r, session, drawn
  <2>7. /\ o.session = session /\ o.entities = drawn
        /\ o.pendingEvents = <<>> /\ o.lastGeneration = s.lastGeneration
        /\ o.rebuildSeq = s.rebuildSeq /\ o.drawnRebuildSeq = s.drawnRebuildSeq
    BY <2>4 DEF SyncType
  <2> HIDE DEF o
  <2>8. Counted(s) => Orderly(o)
    BY <2>2, <2>6, <2>7 DEF Counted, Orderly, Due, SyncType
  <2>9. ASSUME NEW i \in Instances, AllWhole(s, i)
        PROVE  Fresh(o, i)
    <3>1. SettledWhole(o, i)
      BY <2>2, <2>5, <2>7, <2>9 DEF SettledWhole, Settled, AllWhole, Due
    <3>2. HeardFrom(o, i) BY <2>2, <2>3, <2>6, <2>7 DEF HeardFrom, AllFrom
    <3> QED BY <3>1, <3>2 DEF Fresh
  <2> QED BY <2>1, <2>7, <2>8, <2>9
<1> QED BY <1>1, <1>2

\* A read begins in an open session.
LEMMA FreshBegun ==
  \A s, t : \A r \in ReadType :
     /\ s.session # Absent /\ s.session \in SessionType
     /\ s.session.isStreamOpen /\ s.session.read = Absent
     /\ t.session = [s.session EXCEPT !.read = r] /\ t.entities = s.entities
     /\ t.pendingEvents = s.pendingEvents /\ t.lastGeneration = s.lastGeneration
     /\ t.rebuildSeq = s.rebuildSeq /\ t.drawnRebuildSeq = s.drawnRebuildSeq
     /\ s.rebuildSeq \in Nat /\ r.seq = s.rebuildSeq
     /\ r.isSnapshot => ~r.listed /\ r.isRebuild = Due(s)
     /\ \A i : AnsweredBy(r.got, i)
     => Keeps(s, t)
<1> SUFFICES ASSUME NEW s, NEW t, NEW r \in ReadType,
                    s.session # Absent, s.session \in SessionType,
                    s.session.isStreamOpen, s.session.read = Absent,
                    t.session = [s.session EXCEPT !.read = r], t.entities = s.entities,
                    t.pendingEvents = s.pendingEvents,
                    t.lastGeneration = s.lastGeneration,
                    t.rebuildSeq = s.rebuildSeq, t.drawnRebuildSeq = s.drawnRebuildSeq,
                    s.rebuildSeq \in Nat, r.seq = s.rebuildSeq,
                    r.isSnapshot => ~r.listed /\ r.isRebuild = Due(s),
                    \A i : AnsweredBy(r.got, i)
             PROVE  Keeps(s, t)
  OBVIOUS
<1>1. /\ t.session.read = r /\ t.session.isStreamOpen
      /\ t.session.wire = s.session.wire
      /\ t.session.isSnapshotOwed = s.session.isSnapshotOwed
      /\ t.session \in SessionType
  BY DEF SessionType
<1>2. t.session # Absent /\ r # Absent BY <1>1, SessionsDiffer
<1>3. Orderly(s) => Orderly(t) BY <1>1 DEF Orderly, Due
<1>4. ASSUME NEW i, Fresh(s, i) PROVE Fresh(t, i)
  <2>1. SettledWhole(t, i)
    BY <1>1, <1>4 DEF Fresh, SettledWhole, Settled, Due
  <2>2. HeardFrom(t, i)
    BY <1>1, <1>4 DEF Fresh, OutOfDate, HeardFrom
  <2> QED BY <2>1, <2>2 DEF Fresh
<1> QED BY <1>3, <1>4 DEF Keeps

LEMMA ResyncKeeps == \A s \in SyncType : Keeps(s, resync(s))
<1> SUFFICES ASSUME NEW s \in SyncType PROVE Keeps(s, resync(s)) OBVIOUS
<1>0. SameScene(s, s) BY DEF SameScene
<1>1. CASE s.client /\ (s.session = Absent \/ ~s.session.isStreamOpen)
  <2>1. resync(s) = open(s) BY <1>1 DEF resync
  <2> QED BY <2>1, Countable, FreshOpened DEF Keeps
<1>2. CASE /\ s.client /\ ~(s.session = Absent \/ ~s.session.isStreamOpen)
           /\ s.session.read = Absent /\ s.session.isSnapshotOwed
  <2> DEFINE r == SnapshotRead(s)
             session == [s.session EXCEPT !.read = r]
             t == [s EXCEPT !.session = session]
  <2>1. resync(s) = t BY <1>2 DEF resync
  <2>2. /\ r \in ReadType /\ r.seq = s.rebuildSeq /\ ~r.listed /\ r.isRebuild = Due(s)
        /\ \A i : AnsweredBy(r.got, i)
    BY SnapshotReadTyped, SnapshotReadFresh
  <2> HIDE DEF r
  <2>3. s.session \in SessionType /\ s.rebuildSeq \in Nat BY <1>2 DEF SyncType
  <2>4. /\ t.session = session /\ t.entities = s.entities
        /\ t.pendingEvents = s.pendingEvents /\ t.lastGeneration = s.lastGeneration
        /\ t.rebuildSeq = s.rebuildSeq /\ t.drawnRebuildSeq = s.drawnRebuildSeq
    <3> HIDE DEF session
    <3> QED BY DEF SyncType
  <2> HIDE DEF t
  <2> QED BY <1>2, <2>1, <2>2, <2>3, <2>4, FreshBegun
<1>3. CASE /\ s.client /\ ~(s.session = Absent \/ ~s.session.isStreamOpen)
           /\ s.session.read = Absent /\ ~s.session.isSnapshotOwed
           /\ s.dirtyUUIDs # {}
  <2> DEFINE r == DirtyRead(s)
             session == [s.session EXCEPT !.read = r]
             t == [s EXCEPT !.session = session, !.dirtyUUIDs = {}]
  <2>1. resync(s) = t BY <1>3 DEF resync
  <2>2. /\ r \in ReadType /\ r.seq = s.rebuildSeq /\ ~r.isSnapshot
        /\ \A i : AnsweredBy(r.got, i)
    BY DirtyReadTyped, DirtyReadFresh
  <2> HIDE DEF r
  <2>3. s.session \in SessionType /\ s.rebuildSeq \in Nat BY <1>3 DEF SyncType
  <2>4. /\ t.session = session /\ t.entities = s.entities
        /\ t.pendingEvents = s.pendingEvents /\ t.lastGeneration = s.lastGeneration
        /\ t.rebuildSeq = s.rebuildSeq /\ t.drawnRebuildSeq = s.drawnRebuildSeq
    <3> HIDE DEF session
    <3> QED BY DEF SyncType
  <2> HIDE DEF t
  <2> QED BY <1>3, <2>1, <2>2, <2>3, <2>4, FreshBegun
<1>4. CASE \/ ~s.client
           \/ /\ ~(s.session = Absent \/ ~s.session.isStreamOpen)
              /\ \/ s.session.read # Absent
                 \/ ~s.session.isSnapshotOwed /\ s.dirtyUUIDs = {}
  <2>1. resync(s) = s BY <1>4 DEF resync
  <2> QED BY <1>0, <2>1, Alike
<1> QED BY <1>1, <1>2, <1>3, <1>4

LEMMA FlushAlike == \A s \in SyncType : SameScene(s, scheduleFlush(s))
<1> SUFFICES ASSUME NEW s \in SyncType PROVE SameScene(s, scheduleFlush(s)) OBVIOUS
<1>1. SameScene(s, s) BY DEF SameScene
<1>2. SameScene(s, [s EXCEPT !.flush = TRUE]) BY DEF SameScene, SyncType
<1> QED BY <1>1, <1>2 DEF scheduleFlush

LEMMA FinallyKeeps == \A s \in SyncType : s.session # Absent => Keeps(s, finally(s))
<1> SUFFICES ASSUME NEW s \in SyncType, s.session # Absent PROVE Keeps(s, finally(s))
  OBVIOUS
<1> DEFINE session == [s.session EXCEPT !.read = Absent]
           free == [s EXCEPT !.session = session]
           flushing == IF free.pendingEvents # <<>> THEN scheduleFlush(free) ELSE free
<1>1. /\ session \in SessionType /\ session.read = Absent
      /\ session.isStreamOpen = s.session.isStreamOpen
      /\ session.isSnapshotOwed = s.session.isSnapshotOwed
      /\ session.wire = s.session.wire
  <2>1. s.session \in SessionType BY DEF SyncType
  <2> QED BY <2>1 DEF SessionType
<1>2. finally(s) = IF flushing.retryTimer THEN flushing ELSE resync(flushing)
  BY DEF finally
<1> HIDE DEF session
<1>3. /\ free \in SyncType /\ free.session = session /\ free.entities = s.entities
      /\ free.pendingEvents = s.pendingEvents /\ free.lastGeneration = s.lastGeneration
      /\ free.rebuildSeq = s.rebuildSeq /\ free.drawnRebuildSeq = s.drawnRebuildSeq
  BY <1>1 DEF SyncType
<1> HIDE DEF free
<1>4. session # Absent BY <1>1, SessionsDiffer
<1>5. Keeps(s, free)
  <2>1. Orderly(s) => Orderly(free) BY <1>1, <1>3, <1>4 DEF Orderly, Due
  <2>2. ASSUME NEW i, Fresh(s, i) PROVE Fresh(free, i)
    <3>1. SettledWhole(free, i)
      BY <1>1, <1>3, <2>2 DEF Fresh, SettledWhole, Settled, Due, Reading
    <3>2. ~OutOfDate(free) => HeardFrom(free, i)
      BY <1>1, <1>3, <1>4, <2>2 DEF Fresh, OutOfDate, HeardFrom, Due
    <3> QED BY <3>1, <3>2 DEF Fresh
  <2> QED BY <1>3, <2>1, <2>2 DEF Keeps
<1>6. flushing \in SyncType /\ Keeps(free, flushing)
  <2>1. SameScene(free, free) BY DEF SameScene
  <2> QED BY <1>3, <2>1, FlushEffect, FlushAlike, Alike
<1> HIDE DEF flushing
<1>7. Keeps(s, flushing) BY <1>5, <1>6, KeepsTransitive
<1>8. Keeps(flushing, resync(flushing)) BY <1>6, ResyncKeeps
<1> QED BY <1>2, <1>7, <1>8, KeepsTransitive

\* What a flush finds to fetch may start a read, but no new session: a stream
\* that has ended waits for the timer.
LEMMA DirtyKeeps ==
  \A s \in SyncType, uuid \in UUIDs :
     /\ Keeps(s, markDirty(s, uuid))
     /\ Driven(s) /\ OutOfDate(s) => OutOfDate(markDirty(s, uuid))
<1> SUFFICES ASSUME NEW s \in SyncType, NEW uuid \in UUIDs
             PROVE  /\ Keeps(s, markDirty(s, uuid))
                    /\ Driven(s) /\ OutOfDate(s) => OutOfDate(markDirty(s, uuid))
  OBVIOUS
<1> DEFINE dirty == s.dirtyUUIDs \cup {uuid}
           owing == [s EXCEPT !.dirtyUUIDs = dirty]
<1>1. markDirty(s, uuid) = IF s.retryTimer THEN owing ELSE resync(owing)
  BY DEF markDirty
<1>2. dirty \in SUBSET UUIDs BY DEF SyncType
<1> HIDE DEF dirty
<1>3. /\ owing \in SyncType /\ owing.client = s.client /\ SameScene(s, owing)
  BY <1>2 DEF SyncType, SameScene
<1> HIDE DEF owing
<1>4. Keeps(s, owing) /\ (OutOfDate(s) <=> OutOfDate(owing)) BY <1>3, Alike
<1>5. Keeps(s, resync(owing)) BY <1>3, <1>4, ResyncKeeps, KeepsTransitive
<1>6. ASSUME Driven(s), OutOfDate(s), ~s.retryTimer
      PROVE  resync(owing) = owing
  <2>1. ~s.client BY <1>6 DEF Driven, OutOfDate
  <2> QED BY <1>3, <2>1 DEF resync
<1> QED BY <1>1, <1>4, <1>5, <1>6

LEMMA RebuildFresh ==
  \A s \in SyncType :
     /\ requestRebuild(s).lastGeneration = s.lastGeneration
     /\ requestRebuild(s).rebuildSeq = s.rebuildSeq + 1
     /\ requestRebuild(s).drawnRebuildSeq = s.drawnRebuildSeq
     /\ Counted(s) => /\ Counted(requestRebuild(s)) /\ Due(requestRebuild(s))
                      /\ \A i : AllWhole(requestRebuild(s), i)
<1> SUFFICES ASSUME NEW s \in SyncType
             PROVE  /\ requestRebuild(s).lastGeneration = s.lastGeneration
                    /\ requestRebuild(s).rebuildSeq = s.rebuildSeq + 1
                    /\ requestRebuild(s).drawnRebuildSeq = s.drawnRebuildSeq
                    /\ Counted(s) => /\ Counted(requestRebuild(s)) /\ Due(requestRebuild(s))
                                     /\ \A i : AllWhole(requestRebuild(s), i)
  OBVIOUS
<1> DEFINE drawn == [uuid \in UUIDs |-> Stopped(s.entities[uuid])]
           seq == s.rebuildSeq + 1
           t == [s EXCEPT !.rebuildSeq = seq, !.entities = drawn]
<1>1. requestRebuild(s) = t BY DEF requestRebuild
<1> HIDE DEF drawn, seq
<1>2. /\ t.lastGeneration = s.lastGeneration /\ t.rebuildSeq = seq
      /\ t.drawnRebuildSeq = s.drawnRebuildSeq
  BY DEF SyncType
<1> HIDE DEF t
<1>3. s.rebuildSeq \in Nat /\ s.drawnRebuildSeq \in Nat BY DEF SyncType
<1>4. Counted(s) => Counted(t) /\ Due(t) BY <1>2, <1>3 DEF Counted, Due, seq
<1> QED BY <1>1, <1>2, <1>4 DEF AllWhole, seq

---------------------------------------------------------------------------
(* No old chunks: the steps.                                               *)

\* A step that keeps the instance, the generation and the order of the
\* counters has only the new drawings, events and answers to show.
LEMMA Carried ==
  ASSUME OldInv, UNCHANGED <<instance, untold>>,
         sync'.lastGeneration = sync.lastGeneration,
         Orderly(sync'),
         Told /\ Fresh(sync, instance) /\ (~OutOfDate(sync) => AllFrom(batch, instance))
           => /\ Fresh(sync', instance)
              /\ ~OutOfDate(sync') => AllFrom(batch', instance)
  PROVE  OldInv'
BY DEF OldInv, Told

LEMMA NothingFrom == \A i : AllFrom(<<>>, i)
BY DEF AllFrom

\* Before anything else of the client runs, a flush has applied its events.
LEMMA CarriedIdle ==
  ASSUME OldInv, UNCHANGED <<instance, untold>>, instance \in Instances,
         Keeps(sync, sync'), batch = <<>>, batch' = batch
  PROVE  OldInv'
<1>1. /\ sync'.lastGeneration = sync.lastGeneration /\ Orderly(sync')
      /\ Fresh(sync, instance) => Fresh(sync', instance)
  BY DEF Keeps, OldInv
<1> QED BY <1>1, Carried, NothingFrom

\* Putting a session that differs in what its stream carries.
LEMMA WirePut ==
  \A s, t :
     /\ s.session # Absent /\ t.session # Absent
     /\ t.session.isStreamOpen = s.session.isStreamOpen
     /\ t.session.isSnapshotOwed = s.session.isSnapshotOwed
     /\ t.session.read = s.session.read
     /\ t.entities = s.entities
     /\ t.rebuildSeq = s.rebuildSeq /\ t.drawnRebuildSeq = s.drawnRebuildSeq
     => /\ Orderly(s) => Orderly(t)
        /\ OutOfDate(s) <=> OutOfDate(t)
        /\ \A i : /\ HeardFrom(s, i) => AllFrom(t.session.wire, i)
                                          /\ AllFrom(t.pendingEvents, i)
                  /\ Fresh(s, i)
                  => Fresh(t, i)
BY DEF Orderly, OutOfDate, Fresh, SettledWhole, Settled, HeardFrom, Due, Reading

\* Putting drawings.
LEMMA DrawingsPut ==
  \A s, t :
     /\ t.session = s.session /\ t.pendingEvents = s.pendingEvents
     /\ t.rebuildSeq = s.rebuildSeq /\ t.drawnRebuildSeq = s.drawnRebuildSeq
     => /\ Orderly(s) => Orderly(t)
        /\ OutOfDate(s) <=> OutOfDate(t)
        /\ \A i : /\ \A uuid \in UUIDs :
                       Settled(s, uuid) /\ Whole(s.entities[uuid], i)
                         => Whole(t.entities[uuid], i)
                  /\ Fresh(s, i)
                  => Fresh(t, i)
BY DEF Orderly, OutOfDate, Fresh, SettledWhole, Settled, HeardFrom, Due, Reading

LEMMA OutOfDateUnsettled == \A s, uuid : OutOfDate(s) => ~Settled(s, uuid)
BY DEF OutOfDate, Settled, Reading

LEMMA FarEndOld ==
  ASSUME Inv, sync.session # Absent, NEW state \in {"opening", "live", "broken", "closed"},
         sync' = [sync EXCEPT !.session.stream = state]
  PROVE  /\ sync'.lastGeneration = sync.lastGeneration
         /\ Orderly(sync) => Orderly(sync')
         /\ OutOfDate(sync) <=> OutOfDate(sync')
         /\ \A i : Fresh(sync, i) => Fresh(sync', i)
<1> DEFINE session == [sync.session EXCEPT !.stream = state]
           put == [sync EXCEPT !.session = session]
<1>1. sync.session \in SessionType /\ sync \in SyncType BY DEF Inv, TypeOK, SyncType
<1>2. sync' = put OBVIOUS
<1>3. /\ session \in SessionType /\ session.read = sync.session.read
      /\ session.isStreamOpen = sync.session.isStreamOpen
      /\ session.isSnapshotOwed = sync.session.isSnapshotOwed
      /\ session.wire = sync.session.wire
  BY <1>1 DEF SessionType
<1> HIDE DEF session
<1>4. /\ put.session = session /\ put.entities = sync.entities
      /\ put.pendingEvents = sync.pendingEvents
      /\ put.lastGeneration = sync.lastGeneration
      /\ put.rebuildSeq = sync.rebuildSeq /\ put.drawnRebuildSeq = sync.drawnRebuildSeq
  BY <1>1 DEF SyncType
<1> HIDE DEF put
<1>5. session # Absent BY <1>3, SessionsDiffer
<1>6. \A i : HeardFrom(sync, i) => AllFrom(put.session.wire, i)
                                     /\ AllFrom(put.pendingEvents, i)
  BY <1>3, <1>4 DEF HeardFrom
<1> QED BY <1>2, <1>3, <1>4, <1>5, <1>6, WirePut

LEMMA PublishOld ==
  ASSUME Inv, OldInv, NEW e \in EventType, Publish(e), e.instance = instance
  PROVE  OldInv'
<1>1. CASE StreamIs("live")
  <2> DEFINE wire == Append(sync.session.wire, e)
             session == [sync.session EXCEPT !.wire = wire]
             put == [sync EXCEPT !.session = session]
  <2>1. /\ sync \in SyncType /\ sync.session # Absent /\ sync.session \in SessionType
        /\ sync.session.wire \in Seq(EventType)
    BY <1>1 DEF StreamIs, Inv, TypeOK, SyncType, SessionType
  <2>2. sync' = put BY <1>1 DEF Publish
  <2>3. /\ wire \in Seq(EventType)
        /\ \A i : AllFrom(sync.session.wire, i) /\ i = instance => AllFrom(wire, i)
    BY <2>1 DEF AllFrom
  <2> HIDE DEF wire
  <2>4. /\ session \in SessionType /\ session.read = sync.session.read
        /\ session.isStreamOpen = sync.session.isStreamOpen
        /\ session.isSnapshotOwed = sync.session.isSnapshotOwed
        /\ session.wire = wire
    BY <2>1, <2>3 DEF SessionType
  <2> HIDE DEF session
  <2>5. /\ put.session = session /\ put.entities = sync.entities
        /\ put.pendingEvents = sync.pendingEvents
        /\ put.lastGeneration = sync.lastGeneration
        /\ put.rebuildSeq = sync.rebuildSeq /\ put.drawnRebuildSeq = sync.drawnRebuildSeq
    BY <2>1 DEF SyncType
  <2> HIDE DEF put
  <2>6. session # Absent BY <2>4, SessionsDiffer
  <2>7. HeardFrom(sync, instance) => AllFrom(put.session.wire, instance)
                                       /\ AllFrom(put.pendingEvents, instance)
    BY <2>1, <2>3, <2>4, <2>5 DEF HeardFrom
  <2>8. /\ Orderly(sync) => Orderly(put)
        /\ OutOfDate(sync) <=> OutOfDate(put)
        /\ Fresh(sync, instance) => Fresh(put, instance)
    BY <2>1, <2>4, <2>5, <2>6, <2>7, WirePut
  <2>9. UNCHANGED <<instance, untold, batch>> BY DEF Publish
  <2> QED BY <2>2, <2>5, <2>8, <2>9, Carried DEF OldInv
<1>2. CASE ~StreamIs("live") BY <1>2 DEF Publish, OldInv, Told
<1> QED BY <1>1, <1>2

LEMMA ChangesOld ==
  ASSUME Inv, OldInv, NEW uuid \in UUIDs,
         StoreAdds(uuid) \/ StoreRemoves(uuid) \/ StoreUpdates(uuid)
  PROVE  OldInv'
<1>1. \A type \in {"ADDED", "REMOVED", "UPDATED"}, t \in TransformType,
         paths \in SUBSET {"pose", "body", "meta"} :
         Event(type, uuid, t, paths) \in EventType
         /\ Event(type, uuid, t, paths).instance = instance
  BY DEF Event, EventType, Inv, TypeOK
<1>2. \A t \in Transforms : t \in TransformType BY TransformsAssumption
<1>3. \A old, new : Changed(old, new) \in SUBSET {"pose", "body", "meta"} BY DEF Changed
<1>4. "ADDED" \in {"ADDED", "REMOVED", "UPDATED"} /\ "REMOVED" \in {"ADDED", "REMOVED", "UPDATED"}
      /\ "UPDATED" \in {"ADDED", "REMOVED", "UPDATED"} /\ {} \in SUBSET {"pose", "body", "meta"}
  OBVIOUS
<1>5. CASE StoreAdds(uuid)
  <2>1. PICK t \in Transforms : Publish(Event("ADDED", uuid, t, {})) BY <1>5 DEF StoreAdds
  <2> QED BY <1>1, <1>2, <1>4, <2>1, PublishOld
<1>6. CASE StoreRemoves(uuid)
  <2>1. store[uuid] \in TransformType BY <1>6 DEF StoreRemoves, Inv, TypeOK
  <2> QED BY <1>1, <1>4, <1>6, <2>1, PublishOld DEF StoreRemoves
<1>7. CASE StoreUpdates(uuid)
  <2>1. PICK t \in Transforms : Publish(Event("UPDATED", uuid, t, Changed(store[uuid], t)))
    BY <1>7 DEF StoreUpdates
  <2> QED BY <1>1, <1>2, <1>3, <1>4, <2>1, PublishOld
<1> QED BY <1>5, <1>6, <1>7

\* The rebuild is told by no status yet.
LEMMA RebuiltOld ==
  ASSUME Inv, OldInv, StoreRebuilt
  PROVE  OldInv'
<1>1. /\ instance \in Nat /\ instance' = instance + 1 /\ sync.lastGeneration \in Nat
      /\ untold' = (untold \/ sync.lastGeneration = 0)
  BY BoundsAssumption DEF StoreRebuilt, Inv, TypeOK, SyncType
<1>2. Orderly(sync') /\ sync'.lastGeneration = sync.lastGeneration
  <2>1. CASE UNCHANGED sync BY <2>1 DEF OldInv
  <2>2. CASE /\ StreamIs("opening") \/ StreamIs("live")
             /\ sync' = [sync EXCEPT !.session.stream = "broken"]
    BY <2>2, FarEndOld DEF StreamIs, OldInv
  <2> QED BY <2>1, <2>2 DEF StoreRebuilt
<1>3. sync.lastGeneration = 0 => untold' BY <1>1
<1>4. sync.lastGeneration # instance' BY <1>1 DEF OldInv
<1>5. ~Told' BY <1>2, <1>3, <1>4 DEF Told
<1>6. sync'.lastGeneration <= instance' BY <1>1, <1>2 DEF OldInv
<1> QED BY <1>2, <1>5, <1>6 DEF OldInv

LEMMA SubscribesOld ==
  ASSUME Inv, OldInv, StoreSubscribes \/ StreamRefused
  PROVE  OldInv'
<1>1. /\ sync'.lastGeneration = sync.lastGeneration
      /\ Orderly(sync) => Orderly(sync')
      /\ OutOfDate(sync) <=> OutOfDate(sync')
      /\ \A i : Fresh(sync, i) => Fresh(sync', i)
  BY FarEndOld DEF StoreSubscribes, StreamRefused, StreamIs
<1>2. UNCHANGED <<instance, untold, batch>> BY DEF StoreSubscribes, StreamRefused
<1> QED BY <1>1, <1>2, Carried DEF OldInv

LEMMA UpdateOld ==
  ASSUME Inv, OldInv, NEW client \in BOOLEAN, NEW isNewClient \in BOOLEAN,
         NEW generation \in {0, instance},
         Idle, client /\ generation = 0 => isNewClient,
         Update(client, isNewClient, generation)
  PROVE  OldInv'
<1> DEFINE isRebuild == /\ generation # 0 /\ sync.lastGeneration # 0
                        /\ generation # sync.lastGeneration
           known == IF generation = 0 THEN sync.lastGeneration ELSE generation
           told == [sync EXCEPT !.client = client, !.lastGeneration = known]
           owing == IF isRebuild THEN requestRebuild(told) ELSE told
<1>1. /\ sync' = IF ~client THEN close(owing)
                 ELSE IF isRebuild \/ isNewClient THEN open(owing) ELSE owing
      /\ UNCHANGED <<instance, untold, batch>> /\ batch = <<>>
  BY DEF Update, Idle
<1>2. /\ sync \in SyncType /\ known \in 0..MaxInstances /\ instance \in Instances
      /\ instance \in Nat /\ known <= instance
  BY BoundsAssumption DEF Inv, TypeOK, SyncType, OldInv, Instances
<1>3. /\ told \in SyncType /\ told.lastGeneration = known /\ told.session = sync.session
      /\ told.entities = sync.entities /\ told.pendingEvents = sync.pendingEvents
      /\ told.rebuildSeq = sync.rebuildSeq /\ told.drawnRebuildSeq = sync.drawnRebuildSeq
  <2> HIDE DEF known
  <2> QED BY <1>2 DEF SyncType
<1> HIDE DEF told
<1>4. Counted(told) BY <1>3, Countable DEF OldInv, Counted
<1>5. /\ owing \in SyncType /\ owing.lastGeneration = known /\ Counted(owing)
  BY <1>3, <1>4, RebuildEffect, RebuildFresh
\* A status that names the instance for the first time tells of a rebuild.
<1>6. /\ known \in {0, instance} /\ ~untold => AllWhole(owing, instance)
      /\ known \in {0, instance} /\ ~untold /\ ~isRebuild
           => Told /\ Fresh(told, instance)
  <2>1. CASE isRebuild
    <3>1. owing = requestRebuild(told) BY <2>1
    <3> QED BY <1>3, <1>4, <2>1, <3>1, RebuildFresh
  <2>2. CASE ~isRebuild /\ known \in {0, instance} /\ ~untold
    <3>1. Told BY <1>2, <2>2 DEF Told
    <3>2. Fresh(sync, instance) BY <3>1 DEF OldInv
    <3>3. Fresh(told, instance)
      BY <1>3, <3>2 DEF Fresh, SettledWhole, Settled, HeardFrom, OutOfDate, Due, Reading
    <3>4. AllWhole(told, instance)
      BY <1>3, <3>2 DEF AllWhole, Fresh, SettledWhole, Settled, Due
    <3> QED BY <2>2, <3>1, <3>3, <3>4
  <2> QED BY <2>1, <2>2
<1>7. CASE ~client
  <2>1. sync' = close(owing) BY <1>1, <1>7
  <2> HIDE DEF owing, known
  <2> QED BY <1>1, <1>2, <1>5, <1>6, <2>1, FreshClosed, NothingFrom DEF OldInv, Told
<1>8. CASE client /\ (isRebuild \/ isNewClient)
  <2>1. sync' = open(owing) BY <1>1, <1>8
  <2> HIDE DEF owing, known
  <2> QED BY <1>1, <1>2, <1>5, <1>6, <2>1, FreshOpened, NothingFrom DEF OldInv, Told
<1>9. CASE client /\ ~isRebuild /\ ~isNewClient
  <2>1. sync' = told BY <1>1, <1>9
  <2>2. Orderly(told) BY <1>3 DEF OldInv, Orderly, Due
  <2> HIDE DEF owing, known
  <2> QED BY <1>1, <1>2, <1>3, <1>6, <1>9, <2>1, <2>2, NothingFrom DEF OldInv, Told
<1> QED BY <1>7, <1>8, <1>9

LEMMA ReportsOld ==
  ASSUME Inv, OldInv, StatusReported \/ ClientArrives \/ ClientReplaced \/ ClientLost
  PROVE  OldInv'
<1>1. TRUE \in BOOLEAN /\ FALSE \in BOOLEAN /\ instance # 0
  BY BoundsAssumption DEF Inv, TypeOK
<1>2. CASE StatusReported BY <1>1, <1>2, UpdateOld DEF StatusReported
<1>3. CASE ClientArrives BY <1>1, <1>3, UpdateOld DEF ClientArrives
<1>4. CASE ClientReplaced BY <1>1, <1>4, UpdateOld DEF ClientReplaced
<1>5. CASE ClientLost BY <1>1, <1>5, UpdateOld DEF ClientLost
<1> QED BY <1>2, <1>3, <1>4, <1>5

LEMMA ArrivesOld ==
  ASSUME Inv, OldInv, EventArrives
  PROVE  OldInv'
<1> DEFINE wire == Tail(sync.session.wire)
           session == [sync.session EXCEPT !.wire = wire]
           pending == Append(sync.pendingEvents, Head(sync.session.wire))
           heard == [sync EXCEPT !.session = session, !.pendingEvents = pending]
<1>1. /\ sync \in SyncType /\ sync.session # Absent /\ sync.session \in SessionType
      /\ sync.session.wire \in Seq(EventType) /\ sync.session.wire # <<>>
      /\ sync.pendingEvents \in Seq(EventType) /\ instance \in Instances
  BY DEF EventArrives, Inv, TypeOK, SyncType, SessionType, Instances
<1>2. /\ wire \in Seq(EventType) /\ pending \in Seq(EventType)
      /\ \A i : AllFrom(sync.session.wire, i) /\ AllFrom(sync.pendingEvents, i)
                  => AllFrom(wire, i) /\ AllFrom(pending, i)
  <2>1. Head(sync.session.wire) \in EventType
        /\ Head(sync.session.wire) = sync.session.wire[1]
        /\ 1 \in DOMAIN sync.session.wire
    BY <1>1
  <2>2. \A k \in DOMAIN wire : k + 1 \in DOMAIN sync.session.wire
                                /\ wire[k] = sync.session.wire[k + 1]
    BY <1>1
  <2>3. \A i : AllFrom(sync.session.wire, i) => AllFrom(wire, i)
    <3> HIDE DEF wire
    <3> QED BY <2>2 DEF AllFrom
  <2>4. \A k \in DOMAIN pending : \/ pending[k] = sync.session.wire[1]
                                  \/ /\ k \in DOMAIN sync.pendingEvents
                                     /\ pending[k] = sync.pendingEvents[k]
    BY <1>1, <2>1
  <2>5. \A i : AllFrom(sync.session.wire, i) /\ AllFrom(sync.pendingEvents, i)
                 => AllFrom(pending, i)
    <3> HIDE DEF pending
    <3> QED BY <2>1, <2>4 DEF AllFrom
  <2> QED BY <1>1, <2>1, <2>3, <2>5
<1>3. sync' = scheduleFlush(heard)
  <2>1. sync' = scheduleFlush([sync EXCEPT !.session.wire = Tail(@),
                   !.pendingEvents = Append(@, Head(sync.session.wire))])
    BY DEF EventArrives
  <2>2. [sync EXCEPT !.session.wire = Tail(@),
                   !.pendingEvents = Append(@, Head(sync.session.wire))] = heard
    OBVIOUS
  <2> QED BY <2>1, <2>2
<1> HIDE DEF wire, pending
<1>4. /\ session \in SessionType /\ session.read = sync.session.read
      /\ session.isStreamOpen = sync.session.isStreamOpen
      /\ session.isSnapshotOwed = sync.session.isSnapshotOwed
      /\ session.wire = wire
  BY <1>1, <1>2 DEF SessionType
<1> HIDE DEF session
<1>5. /\ heard \in SyncType /\ heard.session = session /\ heard.entities = sync.entities
      /\ heard.pendingEvents = pending /\ heard.lastGeneration = sync.lastGeneration
      /\ heard.rebuildSeq = sync.rebuildSeq
      /\ heard.drawnRebuildSeq = sync.drawnRebuildSeq
  BY <1>1, <1>2, <1>4 DEF SyncType
<1> HIDE DEF heard
<1>6. session # Absent BY <1>4, SessionsDiffer
<1>7. Keeps(heard, sync') BY <1>3, <1>5, FlushAlike, Alike
<1>8. HeardFrom(sync, instance) => AllFrom(heard.session.wire, instance)
                                     /\ AllFrom(heard.pendingEvents, instance)
  BY <1>1, <1>2, <1>4, <1>5 DEF HeardFrom
<1>9. /\ Orderly(sync) => Orderly(heard)
      /\ Fresh(sync, instance) => Fresh(heard, instance)
  BY <1>1, <1>4, <1>5, <1>6, <1>8, WirePut
<1>10. /\ sync'.lastGeneration = sync.lastGeneration /\ Orderly(sync')
       /\ Fresh(sync, instance) => Fresh(sync', instance)
  BY <1>1, <1>5, <1>7, <1>9 DEF Keeps, OldInv
<1>11. UNCHANGED <<instance, untold, batch>> /\ batch = <<>> BY DEF EventArrives, Idle
<1> QED BY <1>10, <1>11, Carried, NothingFrom

\* Without a generation the end of a stream may be a rebuild, and what the
\* ended session heard and read is out of date.
LEMMA StreamEndsOld ==
  ASSUME Inv, OldInv, StreamEnds
  PROVE  OldInv'
<1> DEFINE session == [sync.session EXCEPT !.isStreamOpen = FALSE, !.stream = "closed",
                                           !.wire = <<>>]
           ended == [sync EXCEPT !.session = session, !.retryTimer = TRUE]
<1>1. sync \in SyncType /\ sync.session # Absent /\ sync.session \in SessionType
      /\ sync.session.isStreamOpen /\ batch = <<>> /\ instance \in Instances
  BY DEF StreamEnds, Inv, TypeOK, SyncType, Idle, Instances
<1>2. /\ sync' = IF ended.lastGeneration = 0 THEN requestRebuild(ended) ELSE ended
      /\ untold' = (untold /\ sync.lastGeneration # 0)
      /\ UNCHANGED <<instance, batch>>
  <2>1. [sync EXCEPT !.session.isStreamOpen = FALSE, !.session.stream = "closed",
                     !.session.wire = <<>>, !.retryTimer = TRUE] = ended
    OBVIOUS
  <2> QED BY <2>1 DEF StreamEnds
<1>3. /\ session \in SessionType /\ session.read = sync.session.read
      /\ ~session.isStreamOpen /\ session.wire = <<>>
  <2>1. <<>> \in Seq(EventType) OBVIOUS
  <2> QED BY <1>1, <2>1 DEF SessionType
<1> HIDE DEF session
<1>4. /\ ended \in SyncType /\ ended.session = session /\ ended.entities = sync.entities
      /\ ended.pendingEvents = sync.pendingEvents
      /\ ended.lastGeneration = sync.lastGeneration
      /\ ended.rebuildSeq = sync.rebuildSeq
      /\ ended.drawnRebuildSeq = sync.drawnRebuildSeq
  BY <1>1, <1>3 DEF SyncType
<1> HIDE DEF ended
<1>5. session # Absent BY <1>3, SessionsDiffer
<1>6. CASE sync.lastGeneration # 0
  <2>1. sync' = ended /\ untold' = untold BY <1>2, <1>4, <1>6 DEF Inv, TypeOK
  <2>2. Orderly(ended) BY <1>1, <1>3, <1>4, <1>5 DEF OldInv, Orderly, Due
  <2>3. ASSUME Fresh(sync, instance) PROVE Fresh(ended, instance)
    <3>1. SettledWhole(ended, instance)
      BY <1>1, <1>3, <1>4, <1>5, <2>3 DEF Fresh, SettledWhole, Settled, Due, Reading
    <3>2. HeardFrom(ended, instance)
      BY <1>1, <1>3, <1>4, <2>3, NothingFrom DEF Fresh, OutOfDate, HeardFrom
    <3> QED BY <3>1, <3>2 DEF Fresh
  <2> QED BY <1>1, <1>2, <1>4, <2>1, <2>2, <2>3, Carried, NothingFrom
<1>7. CASE sync.lastGeneration = 0
  <2> DEFINE asked == requestRebuild(ended)
  <2>1. sync' = asked BY <1>2, <1>4, <1>7
  <2>2. Counted(ended) BY <1>4, Countable DEF OldInv, Counted
  <2>3. /\ asked \in SyncType /\ asked.session = session
        /\ asked.rebuildSeq = sync.rebuildSeq + 1
        /\ asked.lastGeneration = sync.lastGeneration
        /\ Counted(asked) /\ Due(asked)
    BY <1>4, <2>2, RebuildEffect, RebuildFresh
  <2> HIDE DEF asked
  <2>4. session.read # Absent =>
          /\ session.read.seq <= sync.rebuildSeq /\ session.read.seq # asked.rebuildSeq
          /\ session.read.seq <= asked.rebuildSeq
    <3>1. sync.rebuildSeq \in Nat BY <1>1 DEF SyncType
    <3>2. ASSUME session.read # Absent
          PROVE  session.read.seq \in Nat /\ session.read.seq <= sync.rebuildSeq
      <4>1. sync.session.read \in ReadType BY <1>1, <1>3, <3>2 DEF SessionType
      <4> QED BY <1>1, <1>3, <3>2, <4>1 DEF ReadType, OldInv, Orderly
    <3> QED BY <2>3, <3>1, <3>2
  <2>5. Orderly(asked) BY <1>3, <2>3, <2>4 DEF Orderly, Counted
  <2>6. OutOfDate(asked) BY <1>3, <2>3, <2>4 DEF OutOfDate
  <2>7. Fresh(asked, instance)
    BY <2>6, OutOfDateUnsettled DEF Fresh, SettledWhole
  <2>8. sync'.lastGeneration <= instance' BY <1>2, <2>1, <2>3 DEF OldInv
  <2> QED BY <1>2, <2>1, <2>5, <2>6, <2>7, <2>8 DEF OldInv
<1> QED BY <1>6, <1>7

LEMMA FlushOld ==
  ASSUME Inv, OldInv, Flush
  PROVE  OldInv'
<1>1. /\ sync \in SyncType /\ sync.pendingEvents \in Seq(EventType)
      /\ instance \in Instances /\ batch = <<>> /\ UNCHANGED <<instance, untold>>
  BY DEF Inv, TypeOK, SyncType, Instances, Flush, Idle
<1>2. CASE HoldsAll(sync)
  <2>1. sync' = [sync EXCEPT !.flush = FALSE] /\ batch' = batch BY <1>2 DEF Flush
  <2>2. SameScene(sync, [sync EXCEPT !.flush = FALSE]) BY <1>1 DEF SameScene, SyncType
  <2>3. Keeps(sync, sync') BY <2>1, <2>2, Alike
  <2> QED BY <1>1, <2>1, <2>3, CarriedIdle
<1>3. CASE ~HoldsAll(sync)
  <2> DEFINE held == EventsOf(sync.pendingEvents, Held(sync))
             due == EventsOf(sync.pendingEvents, UUIDs \ Held(sync))
             f == [sync EXCEPT !.flush = FALSE, !.pendingEvents = held]
  <2>1. sync' = f /\ batch' = due BY <1>3 DEF Flush
  <2>2. /\ \A k \in DOMAIN held : \E j \in DOMAIN sync.pendingEvents :
              held[k] = sync.pendingEvents[j]
        /\ \A k \in DOMAIN due : \E j \in DOMAIN sync.pendingEvents :
              due[k] = sync.pendingEvents[j]
    <3>1. \A uuids : \A k \in DOMAIN EventsOf(sync.pendingEvents, uuids) :
            \E j \in DOMAIN sync.pendingEvents :
              EventsOf(sync.pendingEvents, uuids)[k] = sync.pendingEvents[j]
      BY <1>1, EventsOfEffect
    <3> QED BY <3>1
  <2> HIDE DEF held, due
  <2>3. \A i : AllFrom(sync.pendingEvents, i) => AllFrom(held, i) /\ AllFrom(due, i)
    BY <2>2 DEF AllFrom
  <2>4. /\ f.session = sync.session /\ f.entities = sync.entities
        /\ f.pendingEvents = held /\ f.lastGeneration = sync.lastGeneration
        /\ f.rebuildSeq = sync.rebuildSeq /\ f.drawnRebuildSeq = sync.drawnRebuildSeq
    BY <1>1 DEF SyncType
  <2> HIDE DEF f
  <2>5. Orderly(f) BY <2>4 DEF OldInv, Orderly, Due
  <2>6. OutOfDate(sync) <=> OutOfDate(f) BY <2>4 DEF OutOfDate, Due
  <2>7. ASSUME Fresh(sync, instance)
        PROVE  Fresh(f, instance) /\ (~OutOfDate(f) => AllFrom(due, instance))
    <3>1. SettledWhole(f, instance)
      BY <2>4, <2>7 DEF Fresh, SettledWhole, Settled, Due, Reading
    <3>2. ~OutOfDate(f) => HeardFrom(f, instance) /\ AllFrom(due, instance)
      BY <2>3, <2>4, <2>6, <2>7 DEF Fresh, HeardFrom
    <3> QED BY <3>1, <3>2 DEF Fresh
  <2> QED BY <1>1, <2>1, <2>4, <2>5, <2>7, Carried
<1> QED BY <1>2, <1>3

LEMMA ApplyOld ==
  ASSUME Inv, OldInv, ApplyEvent
  PROVE  OldInv'
<1> DEFINE e == Head(batch)
           d == sync.entities[e.uuid]
           respawns == d # Absent /\ "body" \in e.paths /\ "chunks" \in d.known
<1>1. /\ sync \in SyncType /\ instance \in Instances
      /\ sync.entities \in [UUIDs -> DrawnType \cup {Absent}]
      /\ UNCHANGED <<instance, untold>>
  BY DEF Inv, TypeOK, SyncType, Instances, ApplyEvent
<1>2. /\ e \in EventType
      /\ AllFrom(batch, instance) => e.instance = instance /\ AllFrom(batch', instance)
  <2>1. batch \in Seq(EventType) /\ batch # <<>> /\ batch' = Tail(batch)
    BY DEF ApplyEvent, Inv, TypeOK
  <2>2. /\ e = batch[1] /\ 1 \in DOMAIN batch /\ e \in EventType
        /\ \A k \in DOMAIN Tail(batch) : k + 1 \in DOMAIN batch
                                          /\ Tail(batch)[k] = batch[k + 1]
    BY <2>1
  <2> QED BY <2>1, <2>2 DEF AllFrom
<1>3. sync' = CASE e.type = "ADDED" ->
                     IF d # Absent THEN sync
                     ELSE [sync EXCEPT !.entities[e.uuid] = Spawned(e.t, e.instance)]
                [] e.type = "REMOVED" -> Removed(sync, e.uuid)
                [] e.type = "UPDATED" /\ d # Absent /\ ~respawns ->
                     [sync EXCEPT !.entities[e.uuid] = Updated(d, e.t, e.paths, e.instance)]
                [] OTHER ->
                     markDirty([sync EXCEPT !.entities[e.uuid] = Absent], e.uuid)
  BY DEF ApplyEvent
<1> HIDE DEF e
<1>4. /\ e.uuid \in UUIDs /\ e.t \in TransformType /\ e.instance \in Instances
      /\ e.paths \in SUBSET {"pose", "body", "meta"}
      /\ e.type \in {"ADDED", "REMOVED", "UPDATED"}
      /\ d \in DrawnType \cup {Absent}
  <2>1. e.uuid \in UUIDs BY <1>2 DEF EventType
  <2> QED BY <1>1, <1>2, <2>1 DEF EventType, Instances
<1> DEFINE Current(t) ==
             /\ t.lastGeneration = sync.lastGeneration /\ Orderly(t)
             /\ OutOfDate(sync) <=> OutOfDate(t)
             /\ Fresh(sync, instance) /\ (~OutOfDate(sync) => e.instance = instance)
                  => Fresh(t, instance)
\* One drawing changes: it stays whole, or the rebuild that is due replaces it.
<1>5. ASSUME NEW x,
             e.instance = instance /\ Whole(d, instance) => Whole(x, instance),
             NEW owed
      PROVE  /\ Current([sync EXCEPT !.entities[e.uuid] = x])
             /\ Current([sync EXCEPT !.dirtyUUIDs = owed, !.entities[e.uuid] = x])
  <2> DEFINE drawn == [sync.entities EXCEPT ![e.uuid] = x]
  <2>1. ASSUME e.instance = instance
        PROVE  \A uuid \in UUIDs : Whole(sync.entities[uuid], instance)
                                     => Whole(drawn[uuid], instance)
    BY <1>1, <1>4, <1>5, <2>1
  <2> HIDE DEF drawn
  <2>2. ASSUME NEW t, t.session = sync.session, t.entities = drawn,
               t.pendingEvents = sync.pendingEvents,
               t.lastGeneration = sync.lastGeneration,
               t.rebuildSeq = sync.rebuildSeq,
               t.drawnRebuildSeq = sync.drawnRebuildSeq
        PROVE  Current(t)
    <3>1. Orderly(t) /\ (OutOfDate(sync) <=> OutOfDate(t))
      BY <2>2, DrawingsPut DEF OldInv
    <3>2. ASSUME Fresh(sync, instance), ~OutOfDate(sync) => e.instance = instance
          PROVE  Fresh(t, instance)
      <4>1. \A uuid \in UUIDs :
              Settled(sync, uuid) /\ Whole(sync.entities[uuid], instance)
                => Whole(t.entities[uuid], instance)
        BY <2>1, <2>2, <3>2, OutOfDateUnsettled
      <4> QED BY <2>2, <3>2, <4>1, DrawingsPut
    <3> QED BY <2>2, <3>1, <3>2
  <2>3. [sync EXCEPT !.entities[e.uuid] = x] = [sync EXCEPT !.entities = drawn]
        /\ [sync EXCEPT !.dirtyUUIDs = owed, !.entities[e.uuid] = x]
             = [sync EXCEPT !.dirtyUUIDs = owed, !.entities = drawn]
    BY DEF drawn
  <2> HIDE DEF Current
  <2>4. Current([sync EXCEPT !.entities = drawn]) BY <1>1, <2>2 DEF SyncType
  <2>5. Current([sync EXCEPT !.dirtyUUIDs = owed, !.entities = drawn])
    BY <1>1, <2>2 DEF SyncType
  <2> QED BY <2>3, <2>4, <2>5
<1>6. Whole(Absent, instance) BY DEF Whole
<1>7. /\ sync'.lastGeneration = sync.lastGeneration /\ Orderly(sync')
      /\ OutOfDate(sync) => OutOfDate(sync')
      /\ Fresh(sync, instance) /\ (~OutOfDate(sync) => e.instance = instance)
           => Fresh(sync', instance)
  <2>1. CASE e.type = "ADDED"
    <3>1. CASE d # Absent
      <4>1. sync' = sync BY <1>3, <2>1, <3>1
      <4> QED BY <4>1 DEF OldInv
    <3>2. CASE d = Absent
      <4>1. sync' = [sync EXCEPT !.entities[e.uuid] = Spawned(e.t, e.instance)]
        BY <1>3, <2>1, <3>2
      <4>2. e.instance = instance => Whole(Spawned(e.t, e.instance), instance)
        BY <1>4, WholeSpawned
      <4> QED BY <1>5, <4>1, <4>2
    <3> QED BY <3>1, <3>2
  <2>2. CASE e.type = "REMOVED"
    <3> DEFINE owed == sync.dirtyUUIDs \ {e.uuid}
    <3>1. sync' = Removed(sync, e.uuid) BY <1>3, <2>2
    <3>2. sync' = [sync EXCEPT !.dirtyUUIDs = owed, !.entities[e.uuid] = Absent]
      BY <3>1 DEF Removed
    <3> HIDE DEF owed
    <3> QED BY <1>5, <1>6, <3>2
  <2>3. CASE e.type = "UPDATED" /\ d # Absent /\ ~respawns
    <3>1. sync' = [sync EXCEPT !.entities[e.uuid] = Updated(d, e.t, e.paths, e.instance)]
      BY <1>3, <2>3
    <3>2. e.instance = instance /\ Whole(d, instance)
            => Whole(Updated(d, e.t, e.paths, e.instance), instance)
      BY <1>4, <2>3, WholeUpdated
    <3> QED BY <1>5, <3>1, <3>2
  <2>4. CASE e.type = "UPDATED" /\ ~(d # Absent /\ ~respawns)
    <3> DEFINE cleared == [sync EXCEPT !.entities[e.uuid] = Absent]
    <3>1. sync' = markDirty(cleared, e.uuid) BY <1>3, <2>4
    <3>2. Current(cleared) BY <1>5, <1>6
    <3>3. cleared \in SyncType /\ Driven(cleared)
      <4> DEFINE drawn == [sync.entities EXCEPT ![e.uuid] = Absent]
                 owed == sync.dirtyUUIDs
      <4>1. cleared = [sync EXCEPT !.dirtyUUIDs = owed, !.entities = drawn]
        BY <1>1 DEF SyncType
      <4>2. drawn \in [UUIDs -> DrawnType \cup {Absent}] BY <1>1, <1>4
      <4>3. owed \in SUBSET UUIDs /\ owed \subseteq sync.dirtyUUIDs BY <1>1 DEF SyncType
      <4> HIDE DEF drawn, owed, cleared
      <4> QED BY <1>1, <4>1, <4>2, <4>3, DrawnPut DEF Inv
    <3> HIDE DEF cleared
    <3>4. /\ Keeps(cleared, sync')
          /\ OutOfDate(cleared) => OutOfDate(sync')
      BY <1>4, <3>1, <3>3, DirtyKeeps
    <3> QED BY <1>1, <3>2, <3>4 DEF Keeps
  <2> QED BY <1>4, <2>1, <2>2, <2>3, <2>4
<1> QED BY <1>1, <1>2, <1>7, Carried

LEMMA RetryOld ==
  ASSUME Inv, OldInv, RetryFires
  PROVE  OldInv'
<1> DEFINE fired == [sync EXCEPT !.retryTimer = FALSE]
<1>1. /\ sync' = resync(fired) /\ batch = <<>>
      /\ UNCHANGED <<instance, untold, batch>>
  BY DEF RetryFires, Idle
<1>2. sync \in SyncType /\ instance \in Instances BY DEF Inv, TypeOK, Instances
<1>3. fired \in SyncType /\ SameScene(sync, fired) BY <1>2 DEF SyncType, SameScene
<1> HIDE DEF fired
<1>4. Keeps(sync, sync') BY <1>1, <1>3, Alike, ResyncKeeps, KeepsTransitive
<1> QED BY <1>1, <1>2, <1>4, CarriedIdle

LEMMA ListFailsOld ==
  ASSUME Inv, OldInv, ListFails
  PROVE  OldInv'
<1> DEFINE owing == [sync EXCEPT !.retryTimer = TRUE]
<1>1. /\ sync' = finally(owing) /\ batch = <<>> /\ sync.session # Absent
      /\ UNCHANGED <<instance, untold, batch>>
  BY DEF ListFails, Idle, Reading
<1>2. sync \in SyncType /\ instance \in Instances BY DEF Inv, TypeOK, Instances
<1>3. owing \in SyncType /\ SameScene(sync, owing) BY <1>2 DEF SyncType, SameScene
<1> HIDE DEF owing
<1>4. owing.session # Absent BY <1>1, <1>3 DEF SameScene
<1>5. Keeps(sync, sync') BY <1>1, <1>3, <1>4, Alike, FinallyKeeps, KeepsTransitive
<1> QED BY <1>1, <1>2, <1>5, CarriedIdle

LEMMA ListServedOld ==
  ASSUME Inv, OldInv, ListServed
  PROVE  OldInv'
<1> DEFINE listed == {uuid \in UUIDs : store[uuid] # Absent}
           asked == Asked(listed)
           read == [sync.session.read EXCEPT !.listed = TRUE, !.uuids = listed,
                                             !.got = asked]
           session == [sync.session EXCEPT !.read = read]
           drawn == [uuid \in UUIDs |-> IF uuid \in listed THEN sync.entities[uuid]
                                        ELSE Absent]
           put == [sync EXCEPT !.session = session, !.entities = drawn, !.dirtyUUIDs = {}]
<1>1. /\ sync \in SyncType /\ sync.session # Absent /\ sync.session \in SessionType
      /\ sync.session.read # Absent /\ sync.session.read \in ReadType
      /\ ~sync.session.read.listed /\ batch = <<>> /\ instance \in Instances
      /\ UNCHANGED <<instance, untold, batch>> /\ sync' = put
  BY DEF ListServed, Reading, Idle, Inv, TypeOK, SyncType, SessionType, Instances
<1>2. /\ \A i : AnsweredBy(asked, i)
      /\ \A uuid \in UUIDs : asked[uuid].state = "unasked" => uuid \notin listed
  BY DEF Asked, AnsweredBy
<1>3. /\ read \in ReadType /\ read.got = asked /\ read.seq = sync.session.read.seq
      /\ read.isSnapshot = sync.session.read.isSnapshot
      /\ read.isRebuild = sync.session.read.isRebuild
  <2>1. asked \in [UUIDs -> AnswerType] /\ listed \in SUBSET UUIDs BY AskedTyped
  <2> HIDE DEF asked, listed
  <2> QED BY <1>1, <2>1 DEF ReadType
<1>4. \A uuid \in UUIDs : /\ drawn[uuid] \in {sync.entities[uuid], Absent}
                          /\ uuid \notin listed => drawn[uuid] = Absent
  OBVIOUS
<1> HIDE DEF listed, asked, read, drawn
<1>5. /\ session \in SessionType /\ session.read = read
      /\ session.isStreamOpen = sync.session.isStreamOpen
      /\ session.isSnapshotOwed = sync.session.isSnapshotOwed
      /\ session.wire = sync.session.wire
  BY <1>1, <1>3 DEF SessionType
<1> HIDE DEF session
<1>6. /\ put.session = session /\ put.entities = drawn
      /\ put.pendingEvents = sync.pendingEvents
      /\ put.lastGeneration = sync.lastGeneration
      /\ put.rebuildSeq = sync.rebuildSeq /\ put.drawnRebuildSeq = sync.drawnRebuildSeq
  BY <1>1 DEF SyncType
<1> HIDE DEF put
<1>7. session # Absent /\ read # Absent BY <1>3, <1>5, SessionsDiffer
<1>8. Orderly(put) BY <1>1, <1>3, <1>5, <1>6, <1>7 DEF OldInv, Orderly, Due
\* What the list names is settled by its answer, what it does not name is gone.
<1>9. ASSUME Fresh(sync, instance) PROVE Fresh(put, instance)
  <2>1. SettledWhole(put, instance)
    <3> SUFFICES ASSUME NEW uuid \in UUIDs, Settled(put, uuid)
                 PROVE  Whole(put.entities[uuid], instance)
      BY DEF SettledWhole
    <3>1. Whole(Absent, instance) BY DEF Whole
    <3>2. CASE Due(put)
      <4>1. drawn[uuid] = Absent
        BY <1>2, <1>3, <1>4, <1>5, <1>6, <3>2 DEF Settled
      <4> QED BY <1>6, <3>1, <4>1
    <3>3. CASE ~Due(put)
      <4>1. Whole(sync.entities[uuid], instance)
        BY <1>6, <1>9, <3>3 DEF Fresh, SettledWhole, Settled, Due
      <4> QED BY <1>4, <1>6, <3>1, <4>1
    <3> QED BY <3>2, <3>3
  <2>2. ~OutOfDate(put) => HeardFrom(put, instance)
    BY <1>1, <1>2, <1>3, <1>5, <1>6, <1>7, <1>9
    DEF Fresh, OutOfDate, HeardFrom, Due
  <2> QED BY <2>1, <2>2 DEF Fresh
<1> QED BY <1>1, <1>6, <1>8, <1>9, Carried, NothingFrom

\* One answer of the read that runs comes in.
LEMMA AnswerOld ==
  ASSUME Inv, OldInv, NEW uuid \in UUIDs, NEW answer \in AnswerType, Reading(sync),
         answer.state = "loaded" => answer.instance = instance,
         answer.state # "unasked",
         sync' = [sync EXCEPT !.session.read.got[uuid] = answer],
         UNCHANGED <<instance, untold, batch>>
  PROVE  OldInv'
<1> DEFINE got == [sync.session.read.got EXCEPT ![uuid] = answer]
           read == [sync.session.read EXCEPT !.got = got]
           session == [sync.session EXCEPT !.read = read]
           put == [sync EXCEPT !.session = session]
<1>1. /\ sync \in SyncType /\ sync.session # Absent /\ sync.session \in SessionType
      /\ sync.session.read # Absent /\ sync.session.read \in ReadType
      /\ sync.session.read.got \in [UUIDs -> AnswerType] /\ instance \in Instances
  BY DEF Reading, Inv, TypeOK, SyncType, SessionType, ReadType, Instances
<1>2. sync' = put OBVIOUS
<1>3. /\ got \in [UUIDs -> AnswerType]
      /\ AnsweredBy(sync.session.read.got, instance) => AnsweredBy(got, instance)
      /\ \A u \in UUIDs : got[u].state = "unasked"
                            => sync.session.read.got[u].state = "unasked"
  BY <1>1 DEF AnsweredBy
<1> HIDE DEF got
<1>4. /\ read \in ReadType /\ read.got = got /\ read.seq = sync.session.read.seq
      /\ read.isSnapshot = sync.session.read.isSnapshot
      /\ read.listed = sync.session.read.listed
      /\ read.isRebuild = sync.session.read.isRebuild
  BY <1>1, <1>3 DEF ReadType
<1> HIDE DEF read
<1>5. /\ session \in SessionType /\ session.read = read
      /\ session.isStreamOpen = sync.session.isStreamOpen
      /\ session.isSnapshotOwed = sync.session.isSnapshotOwed
      /\ session.wire = sync.session.wire
  BY <1>1, <1>4 DEF SessionType
<1> HIDE DEF session
<1>6. /\ put.session = session /\ put.entities = sync.entities
      /\ put.pendingEvents = sync.pendingEvents
      /\ put.lastGeneration = sync.lastGeneration
      /\ put.rebuildSeq = sync.rebuildSeq /\ put.drawnRebuildSeq = sync.drawnRebuildSeq
  BY <1>1 DEF SyncType
<1> HIDE DEF put
<1>7. session # Absent /\ read # Absent BY <1>4, <1>5, SessionsDiffer
<1>8. Orderly(put) BY <1>1, <1>4, <1>5, <1>6, <1>7 DEF OldInv, Orderly, Due
<1>9. OutOfDate(sync) <=> OutOfDate(put)
  BY <1>1, <1>4, <1>5, <1>6, <1>7 DEF OutOfDate, Due
<1>10. ASSUME Fresh(sync, instance) PROVE Fresh(put, instance)
  <2>1. \A u \in UUIDs : Settled(put, u) => Settled(sync, u)
    BY <1>1, <1>3, <1>4, <1>5, <1>6 DEF Settled, Due, Reading
  <2>2. SettledWhole(put, instance)
    BY <1>6, <1>10, <2>1 DEF Fresh, SettledWhole
  <2>3. ~OutOfDate(put) => HeardFrom(put, instance)
    BY <1>1, <1>3, <1>4, <1>5, <1>6, <1>9, <1>10 DEF Fresh, HeardFrom
  <2> QED BY <2>2, <2>3 DEF Fresh
<1> QED BY <1>2, <1>6, <1>8, <1>9, <1>10, Carried

LEMMA GetsOld ==
  ASSUME Inv, OldInv, NEW uuid \in UUIDs, GetServed(uuid) \/ GetFails(uuid)
  PROVE  OldInv'
<1> DEFINE none == [state |-> "failed"]
           found == [state |-> "loaded", t |-> store[uuid], instance |-> instance]
<1>1. store[uuid] \in TransformType \cup {Absent} /\ instance \in Instances
  BY DEF Inv, TypeOK, Instances
<1>2. none \in AnswerType /\ none.state = "failed" BY DEF AnswerType
<1>3. /\ store[uuid] # Absent => found \in AnswerType
      /\ found.state = "loaded" /\ found.instance = instance
  BY <1>1, AnswersTyped
<1>4. /\ Reading(sync) /\ UNCHANGED <<instance, untold, batch>>
      /\ \/ sync' = [sync EXCEPT !.session.read.got[uuid] = none]
         \/ store[uuid] # Absent /\ sync' = [sync EXCEPT !.session.read.got[uuid] = found]
  BY DEF GetServed, GetFails
<1> HIDE DEF none, found
<1> QED BY <1>2, <1>3, <1>4, AnswerOld

\* A snapshot of the last rebuild leaves every drawing whole: what it loaded is
\* drawn anew, what failed is gone, and the rest was whole before.
LEMMA AppliedWhole ==
  ASSUME Inv, OldInv, Told, Reading(sync), ~OutOfDate(sync),
         NEW uuid \in UUIDs, sync.session.read.listed,
         sync.session.read.got[uuid].state # "sent",
         \/ ~Due(sync)
         \/ sync.session.read.isSnapshot /\ sync.session.read.seq = sync.rebuildSeq
  PROVE  Whole(Applied(sync, sync.session.read)[uuid], instance)
<1> DEFINE read == sync.session.read
           got == read.got[uuid]
           d == sync.entities[uuid]
<1>1. /\ sync \in SyncType /\ sync.session # Absent /\ sync.session \in SessionType
      /\ read \in ReadType /\ read # Absent /\ read.isRebuild \in BOOLEAN
      /\ got \in AnswerType /\ d \in DrawnType \cup {Absent}
  BY DEF Reading, Inv, TypeOK, SyncType, SessionType, ReadType
<1>2. Fresh(sync, instance) /\ Orderly(sync) BY DEF OldInv
<1>3. ~Due(sync) \/ read.isRebuild BY <1>1, <1>2 DEF Orderly
<1>4. Applied(sync, read)[uuid] =
        CASE got.state = "loaded" -> Read(d, got.t, got.instance, read.isRebuild)
          [] got.state = "failed" /\ read.isRebuild -> Absent
          [] OTHER -> d
  BY DEF Applied
<1>5. \/ read.isRebuild \/ Whole(d, instance)
  BY <1>2, <1>3 DEF Fresh, SettledWhole, Settled
<1>6. CASE got.state = "loaded"
  <2>1. got.t \in TransformType /\ got.instance \in Instances
    BY <1>1, <1>6 DEF AnswerType, Instances
  <2>2. got.instance = instance
    BY <1>1, <1>2, <1>6 DEF Fresh, HeardFrom, AnsweredBy
  <2>3. Applied(sync, read)[uuid] = Read(d, got.t, got.instance, read.isRebuild)
    BY <1>4, <1>6
  <2>4. Whole(Read(d, got.t, got.instance, read.isRebuild), got.instance)
    <3> HIDE DEF got, d, read
    <3> QED BY <1>1, <1>5, <2>1, <2>2, WholeRead
  <2> QED BY <2>2, <2>3, <2>4
<1>7. CASE got.state = "failed"
  <2>1. Whole(Absent, instance) BY DEF Whole
  <2> QED BY <1>4, <1>5, <1>7, <2>1
<1>8. CASE got.state = "unasked"
  <2>1. Settled(sync, uuid) BY <1>1, <1>8 DEF Settled
  <2>2. Whole(d, instance) BY <1>2, <2>1 DEF Fresh, SettledWhole
  <2>3. Applied(sync, read)[uuid] = d BY <1>4, <1>8
  <2> QED BY <2>2, <2>3
<1>9. got.state \in {"unasked", "failed", "loaded"} BY <1>1 DEF AnswerType
<1> QED BY <1>6, <1>7, <1>8, <1>9

LEMMA ReadFinishesOld ==
  ASSUME Inv, OldInv, ReadFinishes
  PROVE  OldInv'
<1> DEFINE read == sync.session.read
           failed == {uuid \in UUIDs : read.got[uuid].state = "failed"}
           shown == Applied(sync, read)
           dirty == sync.dirtyUUIDs \cup failed
           owed == sync.session.isSnapshotOwed /\ ~read.isSnapshot
           session == [sync.session EXCEPT !.isSnapshotOwed = owed]
           freed == [session EXCEPT !.read = Absent]
           seq == IF read.isSnapshot THEN read.seq ELSE sync.drawnRebuildSeq
           retry == sync.retryTimer \/ failed # {}
           drawn == [sync EXCEPT !.entities = shown, !.dirtyUUIDs = dirty,
                                 !.session = session, !.drawnRebuildSeq = seq,
                                 !.retryTimer = retry]
           rest == [sync EXCEPT !.entities = shown, !.dirtyUUIDs = dirty,
                                !.session = freed, !.drawnRebuildSeq = seq,
                                !.retryTimer = retry]
<1>1. /\ sync \in SyncType /\ read \in ReadType /\ Reading(sync) /\ read # Absent
      /\ sync.session # Absent /\ sync.session \in SessionType
      /\ sync.entities \in [UUIDs -> DrawnType \cup {Absent}]
      /\ sync.dirtyUUIDs \in SUBSET UUIDs /\ sync.retryTimer \in BOOLEAN
      /\ sync.drawnRebuildSeq \in Nat /\ read.seq \in Nat /\ read.isSnapshot \in BOOLEAN
      /\ instance \in Instances
  BY DEF ReadFinishes, Reading, Inv, TypeOK, SyncType, SessionType, ReadType, Instances
<1>2. /\ read.listed /\ \A uuid \in UUIDs : read.got[uuid].state # "sent"
      /\ batch = <<>> /\ UNCHANGED <<instance, untold, batch>>
  BY DEF ReadFinishes, Idle
<1>3. sync' = finally(rest)
  <2>1. [sync EXCEPT !.entities = shown, !.dirtyUUIDs = @ \cup failed,
                     !.session.isSnapshotOwed = @ /\ ~read.isSnapshot,
                     !.drawnRebuildSeq = IF read.isSnapshot THEN read.seq ELSE @,
                     !.retryTimer = @ \/ failed # {}] = drawn
    OBVIOUS
  <2>2. sync' = finally(drawn) BY <2>1 DEF ReadFinishes
  <2>3. session \in SessionType
    <3>1. owed \in BOOLEAN OBVIOUS
    <3> HIDE DEF owed
    <3> QED BY <1>1, <3>1 DEF SessionType
  <2>4. [freed EXCEPT !.read = Absent] = freed
    <3> HIDE DEF session
    <3> QED BY <2>3 DEF SessionType
  <2> HIDE DEF shown, session, freed, seq, dirty, retry
  <2>5. [drawn EXCEPT !.session.read = Absent] = rest
    <3>1. [drawn EXCEPT !.session.read = Absent]
            = [drawn EXCEPT !.session = [session EXCEPT !.read = Absent]]
      BY <1>1 DEF SyncType
    <3> QED BY <1>1, <3>1 DEF SyncType, freed
  <2>6. [rest EXCEPT !.session.read = Absent] = rest
    <3>1. [rest EXCEPT !.session.read = Absent]
            = [rest EXCEPT !.session = [freed EXCEPT !.read = Absent]]
      BY <1>1 DEF SyncType
    <3> QED BY <1>1, <2>4, <3>1 DEF SyncType
  <2> HIDE DEF drawn, rest
  <2> QED BY <2>2, <2>5, <2>6 DEF finally
<1>4. /\ freed \in SessionType /\ freed.read = Absent /\ freed.isSnapshotOwed = owed
      /\ freed.isStreamOpen = sync.session.isStreamOpen
      /\ freed.wire = sync.session.wire
  <2>1. owed \in BOOLEAN OBVIOUS
  <2> HIDE DEF owed
  <2> QED BY <1>1, <2>1 DEF SessionType
<1>5. seq \in Nat /\ dirty \in SUBSET UUIDs /\ retry \in BOOLEAN BY <1>1
<1>6. shown \in [UUIDs -> DrawnType \cup {Absent}] BY <1>1, AppliedTyped
<1> HIDE DEF shown, session, freed, dirty, retry
<1>7. /\ rest \in SyncType /\ rest.session = freed /\ rest.entities = shown
      /\ rest.pendingEvents = sync.pendingEvents
      /\ rest.lastGeneration = sync.lastGeneration
      /\ rest.rebuildSeq = sync.rebuildSeq /\ rest.drawnRebuildSeq = seq
  <2> HIDE DEF seq
  <2> QED BY <1>1, <1>4, <1>5, <1>6 DEF SyncType
<1> HIDE DEF rest, read
<1>8. freed # Absent BY <1>4, SessionsDiffer
<1>9. Orderly(sync) BY DEF OldInv
<1>10. Orderly(rest)
  <2>1. seq <= sync.rebuildSeq BY <1>1, <1>9 DEF Orderly, read
  <2>2. ASSUME freed.isStreamOpen, Due(rest) PROVE owed
    <3>1. read.seq = sync.rebuildSeq /\ (Due(sync) => sync.session.isSnapshotOwed)
      BY <1>1, <1>4, <1>9, <2>2 DEF Orderly, read
    <3> QED BY <1>7, <2>2, <3>1 DEF Due
  <2> QED BY <1>4, <1>7, <2>1, <2>2 DEF Orderly
<1>11. OutOfDate(sync) => OutOfDate(rest)
  BY <1>1, <1>4, <1>7 DEF OutOfDate, Due, read
<1>12. ASSUME Told, Fresh(sync, instance) PROVE Fresh(rest, instance)
  <2>1. SettledWhole(rest, instance)
    <3> SUFFICES ASSUME NEW uuid \in UUIDs, Settled(rest, uuid)
                 PROVE  Whole(rest.entities[uuid], instance)
      BY DEF SettledWhole
    <3>1. ~Due(rest) BY <1>4, <1>7 DEF Settled, Reading
    <3>2. ~Due(sync) \/ (read.isSnapshot /\ read.seq = sync.rebuildSeq)
      BY <1>7, <3>1 DEF Due
    <3>3. ~OutOfDate(sync) BY <1>1, <3>2 DEF OutOfDate, read
    <3>4. Whole(Applied(sync, sync.session.read)[uuid], instance)
      BY <1>1, <1>2, <1>12, <3>2, <3>3, AppliedWhole DEF read
    <3> QED BY <1>7, <3>4 DEF shown, read
  <2>2. ~OutOfDate(rest) => HeardFrom(rest, instance)
    BY <1>1, <1>4, <1>7, <1>11, <1>12 DEF Fresh, HeardFrom
  <2> QED BY <2>1, <2>2 DEF Fresh
<1>13. Keeps(rest, sync') BY <1>3, <1>7, <1>8, FinallyKeeps
<1>14. /\ sync'.lastGeneration = sync.lastGeneration /\ Orderly(sync')
       /\ Told /\ Fresh(sync, instance) => Fresh(sync', instance)
  BY <1>1, <1>7, <1>10, <1>12, <1>13 DEF Keeps
<1> QED BY <1>2, <1>14, Carried, NothingFrom

LEMMA ChunkOld ==
  ASSUME Inv, OldInv, NEW uuid \in UUIDs,
         ParseLands(uuid) \/ ChunkPulled(uuid) \/ PullParks(uuid)
  PROVE  OldInv'
<1>1. /\ sync \in SyncType /\ sync.entities[uuid] \in DrawnType
      /\ sync.entities \in [UUIDs -> DrawnType \cup {Absent}]
      /\ instance \in Instances /\ batch = <<>>
      /\ UNCHANGED <<instance, untold, batch>>
  BY DEF ParseLands, ChunkPulled, PullParks, Pulling, Idle, Inv, TypeOK, SyncType, Instances
<1>2. ASSUME NEW d, Whole(sync.entities[uuid], instance) => Whole(d, instance),
             sync' = [sync EXCEPT !.entities[uuid] = d]
      PROVE  OldInv'
  <2> DEFINE drawn == [sync.entities EXCEPT ![uuid] = d]
             put == [sync EXCEPT !.entities = drawn]
  <2>1. sync' = put BY <1>2
  <2>2. \A u \in UUIDs : Whole(sync.entities[u], instance) => Whole(drawn[u], instance)
    BY <1>1, <1>2
  <2> HIDE DEF drawn
  <2>3. /\ put.session = sync.session /\ put.entities = drawn
        /\ put.pendingEvents = sync.pendingEvents
        /\ put.lastGeneration = sync.lastGeneration
        /\ put.rebuildSeq = sync.rebuildSeq /\ put.drawnRebuildSeq = sync.drawnRebuildSeq
    BY <1>1 DEF SyncType
  <2> HIDE DEF put
  <2>4. /\ Orderly(sync) => Orderly(put)
        /\ Fresh(sync, instance) => Fresh(put, instance)
    BY <2>2, <2>3, DrawingsPut
  <2> QED BY <1>1, <2>1, <2>3, <2>4, Carried, NothingFrom DEF OldInv
<1>3. CASE ChunkPulled(uuid)
  <2> DEFINE d == Extended(sync.entities[uuid])
  <2>1. sync' = [sync EXCEPT !.entities[uuid] = d] BY <1>3 DEF ChunkPulled
  <2>2. Whole(sync.entities[uuid], instance) => Whole(d, instance)
    BY <1>1, SessionsDiffer DEF Extended, Whole, DrawnType
  <2> HIDE DEF d
  <2> QED BY <1>2, <2>1, <2>2
<1>4. CASE PullParks(uuid)
  <2> DEFINE d == [sync.entities[uuid] EXCEPT !.pull = "suspended"]
  <2>1. sync' = [sync EXCEPT !.entities[uuid] = d] BY <1>4 DEF PullParks
  <2>2. Whole(sync.entities[uuid], instance) => Whole(d, instance)
    BY <1>1, SessionsDiffer DEF Whole, DrawnType
  <2> HIDE DEF d
  <2> QED BY <1>2, <2>1, <2>2
<1>5. CASE ParseLands(uuid)
  <2> DEFINE d == [sync.entities[uuid] EXCEPT !.parsed = TRUE]
  <2>1. sync' = [sync EXCEPT !.entities[uuid] = d] BY <1>5 DEF ParseLands
  <2>2. Whole(sync.entities[uuid], instance) => Whole(d, instance)
    BY <1>1, SessionsDiffer DEF Whole, DrawnType
  <2> HIDE DEF d
  <2> QED BY <1>2, <2>1, <2>2
<1> QED BY <1>3, <1>4, <1>5

LEMMA OldStarts == Init => OldInv
<1> SUFFICES ASSUME Init PROVE OldInv OBVIOUS
<1>1. /\ sync.session = Absent /\ sync.pendingEvents = <<>> /\ sync.lastGeneration = 0
      /\ sync.rebuildSeq = 0 /\ sync.drawnRebuildSeq = 0
      /\ \A uuid \in UUIDs : sync.entities[uuid] = Absent
      /\ instance = 1 /\ batch = <<>>
  BY DEF Init
<1> QED
  BY <1>1, NothingFrom
  DEF OldInv, Orderly, Told, Fresh, SettledWhole, Settled, HeardFrom, Whole

\* Once the status names the instance that answers and nothing is under way,
\* every drawn cloud has its points from that instance, whatever the orders of
\* the streams' ends, clients, reads and statuses that came before
\* (worldStateSync.ts: requestRebuild, isRebuildPending, mustRespawn, applyRead).
THEOREM NoOldChunksDrawn == Spec => []NoOldChunks
<1>1. Inv /\ OldInv /\ [Next]_vars => OldInv'
  <2> SUFFICES ASSUME Inv, OldInv, [Next]_vars PROVE OldInv' OBVIOUS
  <2>1. CASE \E uuid \in UUIDs : StoreAdds(uuid) \/ StoreRemoves(uuid) \/ StoreUpdates(uuid)
    BY <2>1, ChangesOld
  <2>2. CASE StoreRebuilt BY <2>2, RebuiltOld
  <2>3. CASE StatusReported \/ ClientArrives \/ ClientReplaced \/ ClientLost
    BY <2>3, ReportsOld
  <2>4. CASE StoreSubscribes \/ StreamRefused BY <2>4, SubscribesOld
  <2>5. CASE EventArrives BY <2>5, ArrivesOld
  <2>6. CASE StreamEnds BY <2>6, StreamEndsOld
  <2>7. CASE Flush BY <2>7, FlushOld
  <2>8. CASE ApplyEvent BY <2>8, ApplyOld
  <2>9. CASE RetryFires BY <2>9, RetryOld
  <2>10. CASE ListServed BY <2>10, ListServedOld
  <2>11. CASE ListFails BY <2>11, ListFailsOld
  <2>12. CASE ReadFinishes BY <2>12, ReadFinishesOld
  <2>13. CASE \E uuid \in UUIDs : GetServed(uuid) \/ GetFails(uuid)
    BY <2>13, GetsOld
  <2>14. CASE \E uuid \in UUIDs : ParseLands(uuid) \/ ChunkPulled(uuid) \/ PullParks(uuid)
    BY <2>14, ChunkOld
  <2>15. CASE UNCHANGED vars
    BY <2>15 DEF vars, OldInv, Told
  <2> QED
    BY <2>1, <2>2, <2>3, <2>4, <2>5, <2>6, <2>7, <2>8, <2>9, <2>10, <2>11, <2>12,
       <2>13, <2>14, <2>15
    DEF Next
<1>2. OldInv => NoOldChunks
  <2> SUFFICES ASSUME OldInv, Quiet, sync.lastGeneration = instance, ~untold,
                      NEW uuid \in UUIDs
               PROVE  Whole(sync.entities[uuid], instance)
    BY DEF NoOldChunks, Whole
  <2>1. ~Due(sync) BY DEF Quiet, OldInv, Orderly
  <2>2. Fresh(sync, instance) BY DEF OldInv, Told
  <2> QED BY <2>1, <2>2 DEF Fresh, SettledWhole, Settled
<1> QED BY InvHolds, OldStarts, <1>1, <1>2, PTL DEF Spec

---------------------------------------------------------------------------
(* The mirror: what a drawing shows, and what is still to come for it.     *)

Parts == {"pose", "body", "meta"}

\* Two transforms agree in one of the parts an update may name.
SamePart(f, t, now) ==
    /\ f = "pose" => t.pose = now.pose
    /\ f = "body" => t.kind = now.kind /\ t.body = now.body
    /\ f = "meta" => t.colors = now.colors

\* A drawing shows a part of a transform, as far as Shows asks for it.
ShowsPart(f, d, now) ==
    /\ f = "pose" => d.pose = now.pose
    /\ f = "body" => d.kind = now.kind /\ (~now.chunks => d.body = now.body)
    /\ f = "meta" => (~now.chunks /\ now.colors # 0 => d.colors = now.colors)

\* What no update changes.
SameNature(t, now) == t.name = now.name /\ t.chunks = now.chunks
ShowsNature(d, now) == d.name = now.name /\ ("chunks" \in d.known) = now.chunks

ShowsAll(d, now) == ShowsNature(d, now) /\ \A f \in Parts : ShowsPart(f, d, now)

\* The caches beside a drawing say what it shows.
Cached(d) ==
    d # Absent => /\ d.source # {} => d.source = {d.body}
                  /\ \A p \in d.print : p.colors # 0 => d.colors = p.colors

LEMMA ShownPart ==
  \A d, t, now : \A f \in Parts :
     t.chunks = now.chunks /\ SamePart(f, t, now) /\ ShowsPart(f, d, t)
       => ShowsPart(f, d, now)
BY DEF SamePart, ShowsPart

LEMMA SpawnedShows ==
  \A i : \A t \in TransformType : ShowsAll(Spawned(t, i), t) /\ Cached(Spawned(t, i))
<1> SUFFICES ASSUME NEW t \in TransformType, NEW i
             PROVE  ShowsAll(Spawned(t, i), t) /\ Cached(Spawned(t, i))
  OBVIOUS
<1> DEFINE d == Spawned(t, i)
<1>1. /\ d.name = t.name /\ d.kind = t.kind /\ d.pose = t.pose /\ d.body = t.body
      /\ d.colors = t.colors /\ d.known = Fields(t) /\ d.print = {}
      /\ d.source = SourceOf(t)
  BY DEF Spawned
<1> HIDE DEF d
<1>2. t.chunks \in BOOLEAN /\ (("chunks" \in Fields(t)) <=> t.chunks)
  BY DEF Fields, TransformType
<1>3. SourceOf(t) = {} \/ SourceOf(t) = {t.body} BY DEF SourceOf
<1>4. ShowsAll(d, t) BY <1>1, <1>2 DEF ShowsAll, ShowsNature, ShowsPart
<1>5. Cached(d) BY <1>1, <1>3 DEF Cached
<1> QED BY <1>4, <1>5 DEF d

\* The geometry and the metadata, one by one.
LEMMA ReshapedShows ==
  \A d \in DrawnType, t \in TransformType, i \in Instances :
     LET r == Regeometry(d, t, i)
     IN /\ r \in DrawnType /\ r.name = d.name /\ r.pose = d.pose /\ r.known = d.known
        /\ r.kind = t.kind /\ r.body = t.body /\ r.colors = d.colors
        /\ r.print = d.print /\ r.source = SourceOf(t)
<1> SUFFICES ASSUME NEW d \in DrawnType, NEW t \in TransformType, NEW i \in Instances
             PROVE  LET r == Regeometry(d, t, i)
                    IN /\ r \in DrawnType /\ r.name = d.name /\ r.pose = d.pose
                       /\ r.known = d.known
                       /\ r.kind = t.kind /\ r.body = t.body /\ r.colors = d.colors
                       /\ r.print = d.print /\ r.source = SourceOf(t)
  OBVIOUS
<1>1. Regeometry(d, t, i) \in DrawnType BY RegeometryTyped
<1> QED BY <1>1 DEF Regeometry, DrawnType

LEMMA RecoloredShows ==
  \A d \in DrawnType, t \in TransformType :
     LET r == Remetadata(d, t)
     IN /\ r \in DrawnType /\ r.name = d.name /\ r.pose = d.pose
        /\ r.kind = d.kind /\ r.body = d.body /\ r.source = d.source
        /\ r.known = Fields(t) /\ r.print = {}
        /\ r.colors = IF t.colors = 0 THEN d.colors ELSE t.colors
<1> SUFFICES ASSUME NEW d \in DrawnType, NEW t \in TransformType
             PROVE  LET r == Remetadata(d, t)
                    IN /\ r \in DrawnType /\ r.name = d.name /\ r.pose = d.pose
                       /\ r.kind = d.kind /\ r.body = d.body /\ r.source = d.source
                       /\ r.known = Fields(t) /\ r.print = {}
                       /\ r.colors = IF t.colors = 0 THEN d.colors ELSE t.colors
  OBVIOUS
<1>1. Remetadata(d, t) \in DrawnType BY RemetadataTyped
<1> QED BY <1>1 DEF Remetadata, Recolored, DrawnType

\* An update shows the parts it names and leaves the others.
LEMMA UpdatedShows ==
  \A d \in DrawnType, t \in TransformType, i \in Instances, paths \in SUBSET Parts :
     LET r == Updated(d, t, paths, i)
     IN /\ Cached(d) => Cached(r)
        /\ \A now : ShowsNature(d, now) /\ SameNature(t, now) => ShowsNature(r, now)
        /\ \A f \in paths : ShowsPart(f, r, t)
        /\ \A now : \A f \in Parts \ paths : ShowsPart(f, d, now) => ShowsPart(f, r, now)
<1> SUFFICES ASSUME NEW d \in DrawnType, NEW t \in TransformType, NEW i \in Instances,
                    NEW paths \in SUBSET Parts
             PROVE  LET r == Updated(d, t, paths, i)
                    IN /\ Cached(d) => Cached(r)
                       /\ \A now : ShowsNature(d, now) /\ SameNature(t, now)
                             => ShowsNature(r, now)
                       /\ \A f \in paths : ShowsPart(f, r, t)
                       /\ \A now : \A f \in Parts \ paths :
                             ShowsPart(f, d, now) => ShowsPart(f, r, now)
  OBVIOUS
<1> DEFINE moved == IF "pose" \in paths THEN [d EXCEPT !.pose = t.pose] ELSE d
           shaped == IF "body" \in paths THEN Regeometry(moved, t, i) ELSE moved
           r == IF "meta" \in paths THEN Remetadata(shaped, t) ELSE shaped
<1>1. Updated(d, t, paths, i) = r BY DEF Updated
<1>2. /\ moved \in DrawnType /\ moved.name = d.name /\ moved.known = d.known
      /\ moved.kind = d.kind /\ moved.body = d.body /\ moved.colors = d.colors
      /\ moved.print = d.print /\ moved.source = d.source
      /\ moved.pose = IF "pose" \in paths THEN t.pose ELSE d.pose
  <2>1. [d EXCEPT !.pose = t.pose] \in DrawnType BY MovedTyped
  <2> QED BY <2>1 DEF DrawnType
<1> HIDE DEF moved
<1>3. /\ shaped \in DrawnType /\ shaped.name = d.name /\ shaped.known = d.known
      /\ shaped.pose = moved.pose /\ shaped.colors = d.colors /\ shaped.print = d.print
      /\ "body" \in paths => /\ shaped.kind = t.kind /\ shaped.body = t.body
                             /\ shaped.source = SourceOf(t)
      /\ "body" \notin paths => /\ shaped.kind = d.kind /\ shaped.body = d.body
                                /\ shaped.source = d.source
  BY <1>2, ReshapedShows
<1> HIDE DEF shaped
<1>4. /\ r.name = d.name /\ r.pose = moved.pose
      /\ r.kind = shaped.kind /\ r.body = shaped.body /\ r.source = shaped.source
      /\ "meta" \in paths => /\ r.known = Fields(t) /\ r.print = {}
                             /\ t.colors # 0 => r.colors = t.colors
      /\ "meta" \notin paths => /\ r.known = d.known /\ r.print = d.print
                                /\ r.colors = d.colors
  BY <1>3, RecoloredShows
<1> HIDE DEF r
<1>5. ASSUME Cached(d) PROVE Cached(r)
  <2>1. SourceOf(t) = {} \/ SourceOf(t) = {t.body} BY DEF SourceOf
  <2>2. d # Absent BY SessionsDiffer
  <2>3. r.source # {} => r.source = {r.body} BY <1>3, <1>4, <1>5, <2>1, <2>2 DEF Cached
  <2>4. \A p \in r.print : p.colors # 0 => r.colors = p.colors
    BY <1>4, <1>5, <2>2 DEF Cached
  <2> QED BY <2>3, <2>4 DEF Cached
<1>6. ASSUME NEW now, ShowsNature(d, now), SameNature(t, now) PROVE ShowsNature(r, now)
  <2>1. t.chunks \in BOOLEAN /\ (("chunks" \in Fields(t)) <=> t.chunks)
    BY DEF Fields, TransformType
  <2> QED BY <1>4, <1>6, <2>1 DEF ShowsNature, SameNature
<1>7. \A f \in paths : ShowsPart(f, r, t) BY <1>2, <1>3, <1>4 DEF ShowsPart
<1>8. ASSUME NEW f \in Parts \ paths, NEW now, ShowsPart(f, d, now)
      PROVE  ShowsPart(f, r, now)
  BY <1>2, <1>3, <1>4, <1>8 DEF ShowsPart, Parts
<1> QED BY <1>1, <1>5, <1>6, <1>7, <1>8

\* A read shows what was read, whatever was drawn before: the caches tell it what
\* to change in place.
LEMMA ReadShows ==
  \A d \in DrawnType \cup {Absent}, t \in TransformType, i \in Instances,
     rebuild \in BOOLEAN :
     Cached(d) => LET r == Read(d, t, i, rebuild) IN ShowsAll(r, t) /\ Cached(r)
<1> SUFFICES ASSUME NEW d \in DrawnType \cup {Absent}, NEW t \in TransformType,
                    NEW i \in Instances, NEW rebuild \in BOOLEAN, Cached(d)
             PROVE  LET r == Read(d, t, i, rebuild) IN ShowsAll(r, t) /\ Cached(r)
  OBVIOUS
<1>1. CASE d # Absent /\ ~MustRespawn(d, t, rebuild)
  <2> DEFINE moved == [d EXCEPT !.pose = t.pose]
             shaped == IF SourceOf(t) # {} /\ d.source = SourceOf(t)
                       THEN moved ELSE Regeometry(moved, t, i)
             colored == Remetadata(shaped, t)
             printed == [colored EXCEPT !.print = {Fingerprint(t)}]
  <2>1. /\ d \in DrawnType /\ d.kind = t.kind /\ d.name = t.name
        /\ ("chunks" \in d.known) = t.chunks
    BY <1>1 DEF MustRespawn
  <2>2. Read(d, t, i, rebuild) = Refreshed(d, t, i) BY <1>1 DEF Read
  <2>3. Refreshed(d, t, i) = IF t.kind = "cloud" /\ t.chunks THEN moved
                             ELSE IF shaped.print = {Fingerprint(t)} THEN shaped
                             ELSE printed
    BY DEF Refreshed
  <2>4. /\ moved \in DrawnType /\ moved.name = t.name /\ moved.known = d.known
        /\ moved.kind = t.kind /\ moved.body = d.body /\ moved.colors = d.colors
        /\ moved.print = d.print /\ moved.source = d.source /\ moved.pose = t.pose
    <3>1. moved \in DrawnType BY <2>1, MovedTyped
    <3> QED BY <2>1, <3>1 DEF DrawnType
  <2> HIDE DEF moved
  <2>5. CASE t.kind = "cloud" /\ t.chunks
    <3>1. ShowsAll(moved, t) BY <2>1, <2>4, <2>5 DEF ShowsAll, ShowsNature, ShowsPart
    <3>2. Cached(moved) BY <1>1, <2>4 DEF Cached
    <3> QED BY <2>2, <2>3, <2>5, <3>1, <3>2
  <2>6. CASE ~(t.kind = "cloud" /\ t.chunks)
    <3>1. SourceOf(t) = {} \/ SourceOf(t) = {t.body} BY DEF SourceOf
    <3>2. /\ shaped \in DrawnType /\ shaped.name = t.name /\ shaped.known = d.known
          /\ shaped.kind = t.kind /\ shaped.body = t.body /\ shaped.colors = d.colors
          /\ shaped.print = d.print /\ shaped.source = SourceOf(t) /\ shaped.pose = t.pose
      <4>1. CASE SourceOf(t) # {} /\ d.source = SourceOf(t)
        <5>1. d.source = {d.body} /\ d.source = {t.body} BY <1>1, <3>1, <4>1 DEF Cached
        <5>2. d.body = t.body BY <5>1
        <5> QED BY <2>4, <4>1, <5>2
      <4>2. CASE ~(SourceOf(t) # {} /\ d.source = SourceOf(t))
        BY <2>4, <4>2, ReshapedShows
      <4> QED BY <4>1, <4>2
    <3> HIDE DEF shaped
    <3>3. /\ colored \in DrawnType /\ colored.name = t.name /\ colored.pose = t.pose
          /\ colored.kind = t.kind /\ colored.body = t.body
          /\ colored.source = SourceOf(t) /\ colored.known = Fields(t)
          /\ t.colors # 0 => colored.colors = t.colors
      BY <3>2, RecoloredShows
    <3> HIDE DEF colored
    <3>4. /\ printed.name = t.name /\ printed.pose = t.pose
          /\ printed.kind = t.kind /\ printed.body = t.body
          /\ printed.source = SourceOf(t) /\ printed.known = Fields(t)
          /\ t.colors # 0 => printed.colors = t.colors
          /\ printed.print = {Fingerprint(t)}
      BY <3>3 DEF DrawnType
    <3> HIDE DEF printed
    <3>5. CASE shaped.print = {Fingerprint(t)}
      <4>1. t.colors # 0 => shaped.colors = t.colors
        BY <1>1, <3>2, <3>5 DEF Cached, Fingerprint
      <4>2. ShowsAll(shaped, t)
        BY <2>1, <3>2, <4>1 DEF ShowsAll, ShowsNature, ShowsPart
      <4>3. Cached(shaped) BY <1>1, <3>1, <3>2 DEF Cached
      <4> QED BY <2>2, <2>3, <2>6, <3>5, <4>2, <4>3
    <3>6. CASE shaped.print # {Fingerprint(t)}
      <4>1. t.chunks \in BOOLEAN /\ (("chunks" \in Fields(t)) <=> t.chunks)
        BY DEF Fields, TransformType
      <4>2. ShowsAll(printed, t)
        BY <3>4, <4>1 DEF ShowsAll, ShowsNature, ShowsPart
      <4>3. Cached(printed) BY <3>1, <3>4 DEF Cached, Fingerprint
      <4> QED BY <2>2, <2>3, <2>6, <3>6, <4>2, <4>3
    <3> QED BY <3>5, <3>6
  <2> QED BY <2>5, <2>6
<1>2. CASE ~(d # Absent /\ ~MustRespawn(d, t, rebuild))
  <2> DEFINE spawned == Spawned(t, i)
             r == [spawned EXCEPT !.print = IF t.chunks THEN {} ELSE {Fingerprint(t)}]
  <2>1. Read(d, t, i, rebuild) = r BY <1>2 DEF Read
  <2>2. spawned \in DrawnType /\ spawned.colors = t.colors
    BY SpawnedTyped DEF Spawned
  <2>3. ShowsAll(spawned, t) /\ Cached(spawned) /\ spawned # Absent
    BY <2>2, SpawnedShows, SessionsDiffer
  <2> HIDE DEF spawned
  <2>4. /\ r.name = spawned.name /\ r.kind = spawned.kind /\ r.pose = spawned.pose
        /\ r.body = spawned.body /\ r.colors = spawned.colors /\ r.known = spawned.known
        /\ r.source = spawned.source
        /\ r.print = IF t.chunks THEN {} ELSE {Fingerprint(t)}
    BY <2>2 DEF DrawnType
  <2> HIDE DEF r
  <2>5. ShowsAll(r, t) BY <2>3, <2>4 DEF ShowsAll, ShowsNature, ShowsPart
  <2>6. Cached(r) BY <2>2, <2>3, <2>4 DEF Cached, Fingerprint
  <2> QED BY <2>1, <2>5, <2>6
<1> QED BY <1>1, <1>2

\* Two drawings that differ in their chunks only.
SameLook(d, e) ==
    \/ d = e
    \/ /\ d # Absent /\ e # Absent
       /\ e.name = d.name /\ e.kind = d.kind /\ e.pose = d.pose /\ e.body = d.body
       /\ e.colors = d.colors /\ e.known = d.known /\ e.print = d.print
       /\ e.source = d.source

LEMMA LooksSame ==
  \A d, e : SameLook(d, e) =>
     /\ Cached(d) => Cached(e)
     /\ (d = Absent) = (e = Absent)
     /\ \A now : ShowsNature(d, now) => ShowsNature(e, now)
     /\ \A f, now : ShowsPart(f, d, now) => ShowsPart(f, e, now)
BY DEF SameLook, Cached, ShowsNature, ShowsPart

LEMMA PulledSame ==
  \A d \in DrawnType \cup {Absent} : SameLook(d, Resumed(d)) /\ SameLook(d, Stopped(d))
<1> SUFFICES ASSUME NEW d \in DrawnType
             PROVE  SameLook(d, Resumed(d)) /\ SameLook(d, Stopped(d))
  BY DEF SameLook, Resumed, Stopped
<1>1. \A p \in {"none", "running"} : SameLook(d, [d EXCEPT !.pull = p])
  <2> SUFFICES ASSUME NEW p \in {"none", "running"} PROVE SameLook(d, [d EXCEPT !.pull = p])
    OBVIOUS
  <2>1. [d EXCEPT !.pull = p] \in DrawnType BY DEF DrawnType
  <2> QED BY <2>1, SessionsDiffer DEF SameLook, DrawnType
<1>2. SameLook(d, d) BY DEF SameLook
<1> QED BY <1>1, <1>2 DEF Resumed, Stopped

---------------------------------------------------------------------------
(* The events still to come for one uuid.                                  *)

About(q, u) == {i \in DOMAIN q : q[i].uuid = u}
Removes(q, i) == q[i].type = "REMOVED"
Writes(e, f) == e.type = "ADDED" \/ (e.type = "UPDATED" /\ f \in e.paths)

RemovedFrom(q, u, i) == \E j \in About(q, u) : j >= i /\ Removes(q, j)
LastWriter(q, u, i, f) ==
    Writes(q[i], f) /\ \A j \in About(q, u) : j > i => ~Writes(q[j], f)

\* The events of a queue end at what the store holds now: what it no longer
\* holds is removed by one of them, what it holds is not removed for good, two
\* additions have a removal between them, and after the last removal the last
\* event that writes a part carries the store's.
InOrderAt(q, u, now, i) ==
    /\ now = Absent => RemovedFrom(q, u, i)
    /\ now # Absent /\ Removes(q, i) => \E j \in About(q, u) : j > i /\ ~Removes(q, j)
    /\ q[i].type = "ADDED" =>
         \A j \in About(q, u) : j < i =>
            \E k \in About(q, u) : j <= k /\ k < i /\ Removes(q, k)
    /\ ~RemovedFrom(q, u, i) =>
         /\ SameNature(q[i].t, now)
         /\ \A f \in Parts : LastWriter(q, u, i, f) => SamePart(f, q[i].t, now)
InOrder(q, u, now) == \A i \in About(q, u) : InOrderAt(q, u, now, i)

Survives(q, u) == \A i \in About(q, u) : ~Removes(q, i)
Untouched(q, u, f) == \A i \in About(q, u) : ~(q[i].type = "UPDATED" /\ f \in q[i].paths)

\* A transform that was read is the store's, but for what is still to come.
Current(t, q, u, now) ==
    Survives(q, u) =>
        /\ now # Absent /\ SameNature(t, now)
        /\ \A f \in Parts : Untouched(q, u, f) => SamePart(f, t, now)

\* So is a drawing, and what is not drawn is not held or will be added.
Follows(d, q, u, now) ==
    Survives(q, u) =>
        /\ d = Absent /\ About(q, u) = {} => now = Absent
        /\ d # Absent => /\ now # Absent /\ ShowsNature(d, now)
                         /\ \A f \in Parts : Untouched(q, u, f) => ShowsPart(f, d, now)

\* The events about a uuid in one queue are some of those in another, in their
\* order: all of them, or the last ones.
Placed(at, p, q, u) ==
    /\ \A i \in About(p, u) : at[i] \in About(q, u) /\ q[at[i]] = p[i]
    /\ \A i, j \in About(p, u) : i < j => at[i] < at[j]
SameEvents(p, q, u) ==
    \E at : Placed(at, p, q, u) /\ \A j \in About(q, u) : \E i \in About(p, u) : at[i] = j
LastEvents(p, q, u) ==
    \E at : /\ Placed(at, p, q, u)
            /\ \A i \in About(p, u) : \A j \in About(q, u) :
                 j > at[i] => \E k \in About(p, u) : at[k] = j

LEMMA SameAreLast == \A p, q, u : SameEvents(p, q, u) => LastEvents(p, q, u)
BY DEF SameEvents, LastEvents

LEMMA Places ==
  ASSUME NEW q \in Seq(EventType), NEW u
  PROVE  \A i \in About(q, u) : i \in Nat /\ i \in 1..Len(q) /\ q[i] \in EventType
                                /\ q[i].uuid = u
BY DEF About

LEMMA LastInOrder ==
  ASSUME NEW p \in Seq(EventType), NEW q \in Seq(EventType), NEW u, NEW now,
         LastEvents(p, q, u), InOrder(q, u, now)
  PROVE  InOrder(p, u, now)
<1>1. PICK at : /\ Placed(at, p, q, u)
                /\ \A i \in About(p, u) : \A j \in About(q, u) :
                     j > at[i] => \E k \in About(p, u) : at[k] = j
  BY DEF LastEvents
<1>2. /\ \A i \in About(p, u) : i \in Nat /\ at[i] \in Nat /\ at[i] \in About(q, u)
                                 /\ q[at[i]] = p[i]
      /\ \A j \in About(q, u) : j \in Nat
      /\ \A i, j \in About(p, u) : i < j => at[i] < at[j]
  BY <1>1, Places DEF Placed
<1>3. \A i, j \in About(p, u) : at[i] < at[j] => i < j
  <2> SUFFICES ASSUME NEW i \in About(p, u), NEW j \in About(p, u), at[i] < at[j],
                      ~(i < j)
               PROVE  FALSE
    OBVIOUS
  <2>1. j < i \/ i = j BY <1>2
  <2>2. i # j BY <1>2
  <2>3. at[j] < at[i] BY <1>2, <2>1, <2>2
  <2> QED BY <1>2, <2>3
<1> SUFFICES ASSUME NEW i \in About(p, u) PROVE InOrderAt(p, u, now, i)
  BY DEF InOrder
<1>4. InOrderAt(q, u, now, at[i]) BY <1>2 DEF InOrder
<1>5. \A j \in About(q, u) : j > at[i] => \E k \in About(p, u) : at[k] = j /\ k > i
  BY <1>1, <1>2, <1>3
<1>6. RemovedFrom(q, u, at[i]) <=> RemovedFrom(p, u, i)
  <2>1. ASSUME NEW j \in About(q, u), j >= at[i], Removes(q, j)
        PROVE  RemovedFrom(p, u, i)
    <3>1. PICK k \in About(p, u) : at[k] = j /\ k >= i BY <1>2, <1>5, <2>1
    <3> QED BY <1>2, <2>1, <3>1 DEF RemovedFrom, Removes
  <2>2. ASSUME NEW j \in About(p, u), j >= i, Removes(p, j)
        PROVE  RemovedFrom(q, u, at[i])
    <3>1. at[j] >= at[i] BY <1>2, <2>2
    <3> QED BY <1>2, <2>2, <3>1 DEF RemovedFrom, Removes
  <2> QED BY <2>1, <2>2 DEF RemovedFrom
<1>7. ASSUME now # Absent, Removes(p, i)
      PROVE  \E j \in About(p, u) : j > i /\ ~Removes(p, j)
  <2>1. PICK j \in About(q, u) : j > at[i] /\ ~Removes(q, j)
    BY <1>2, <1>4, <1>7 DEF InOrderAt, Removes
  <2>2. PICK k \in About(p, u) : at[k] = j /\ k > i BY <1>5, <2>1
  <2> QED BY <1>2, <2>1, <2>2 DEF Removes
<1>8. ASSUME p[i].type = "ADDED", NEW j \in About(p, u), j < i
      PROVE  \E k \in About(p, u) : j <= k /\ k < i /\ Removes(p, k)
  <2>1. at[j] < at[i] /\ q[at[i]].type = "ADDED" BY <1>2, <1>8
  <2>2. PICK k \in About(q, u) : at[j] <= k /\ k < at[i] /\ Removes(q, k)
    BY <1>2, <1>4, <2>1 DEF InOrderAt
  <2>3. PICK l \in About(p, u) : at[l] = k
    <3>1. k = at[j] \/ k > at[j] BY <1>2, <2>2
    <3> QED BY <1>1, <3>1
  <2>4. j <= l /\ l < i
    <3>1. l < i BY <1>3, <2>2, <2>3
    <3>2. ~(l < j) BY <1>2, <2>2, <2>3
    <3> QED BY <1>2, <3>1, <3>2
  <2> QED BY <1>2, <2>2, <2>3, <2>4 DEF Removes
<1>9. ASSUME ~RemovedFrom(p, u, i), NEW f \in Parts, LastWriter(p, u, i, f)
      PROVE  SamePart(f, p[i].t, now)
  <2>1. LastWriter(q, u, at[i], f)
    BY <1>2, <1>5, <1>9 DEF LastWriter
  <2> QED BY <1>2, <1>4, <1>6, <1>9, <2>1 DEF InOrderAt
<1>10. ~RemovedFrom(p, u, i) => SameNature(p[i].t, now)
  BY <1>2, <1>4, <1>6 DEF InOrderAt
<1>11. now = Absent => RemovedFrom(p, u, i) BY <1>4, <1>6 DEF InOrderAt
<1> QED BY <1>7, <1>8, <1>9, <1>10, <1>11 DEF InOrderAt

LEMMA SameView ==
  ASSUME NEW p, NEW q, NEW u, SameEvents(p, q, u)
  PROVE  /\ \A t, now : Current(t, q, u, now) <=> Current(t, p, u, now)
         /\ \A d, now : Follows(d, q, u, now) <=> Follows(d, p, u, now)
<1>1. PICK at : /\ Placed(at, p, q, u)
                /\ \A j \in About(q, u) : \E i \in About(p, u) : at[i] = j
  BY DEF SameEvents
<1>2. Survives(p, u) <=> Survives(q, u) BY <1>1 DEF Survives, Placed, Removes
<1>3. \A f : Untouched(p, u, f) <=> Untouched(q, u, f) BY <1>1 DEF Untouched, Placed
<1>4. About(p, u) = {} <=> About(q, u) = {} BY <1>1 DEF Placed
<1> QED BY <1>2, <1>3, <1>4 DEF Current, Follows

\* The ranks of the elements of a finite set of integers rise with them.
LEMMA RanksRise ==
  ASSUME NEW kept \in SUBSET Int, IsFiniteSet(kept)
  PROVE  /\ \A i \in kept : Cardinality({j \in kept : j <= i}) \in 1..Cardinality(kept)
         /\ \A i, j \in kept :
              i < j => Cardinality({k \in kept : k <= i}) < Cardinality({k \in kept : k <= j})
<1> DEFINE upto(i) == {j \in kept : j <= i}
           n == Cardinality(kept)
<1>1. n \in Nat BY FS_CardinalityType
<1>2. \A i \in kept : IsFiniteSet(upto(i)) /\ Cardinality(upto(i)) \in 1..n
  <2> SUFFICES ASSUME NEW i \in kept
               PROVE  IsFiniteSet(upto(i)) /\ Cardinality(upto(i)) \in 1..n
    OBVIOUS
  <2>1. upto(i) \in SUBSET kept /\ upto(i) # {} OBVIOUS
  <2> HIDE DEF upto
  <2>2. IsFiniteSet(upto(i)) /\ Cardinality(upto(i)) <= n BY <2>1, FS_Subset
  <2>3. Cardinality(upto(i)) \in Nat /\ Cardinality(upto(i)) # 0
    BY <2>1, <2>2, FS_CardinalityType, FS_EmptySet
  <2> HIDE DEF n
  <2> QED BY <1>1, <2>2, <2>3
<1>3. ASSUME NEW i \in kept, NEW j \in kept, i < j
      PROVE  Cardinality(upto(i)) < Cardinality(upto(j))
  <2>1. upto(i) \in SUBSET upto(j) /\ j \in upto(j) /\ j \notin upto(i)
    <3>1. i \in Int /\ j \in Int /\ \A l \in kept : l \in Int OBVIOUS
    <3>2. \A l \in kept : l <= i => l <= j BY <1>3, <3>1
    <3>3. j <= j /\ ~(j <= i) BY <1>3, <3>1
    <3> QED BY <3>2, <3>3
  <2>2. upto(i) # upto(j) BY <2>1
  <2>3. Cardinality(upto(i)) \in Nat /\ Cardinality(upto(j)) \in Nat BY <1>2
  <2> HIDE DEF upto
  <2>4. /\ Cardinality(upto(i)) <= Cardinality(upto(j))
        /\ Cardinality(upto(i)) = Cardinality(upto(j)) => upto(i) = upto(j)
    BY <1>2, <2>1, FS_Subset
  <2> QED BY <2>2, <2>3, <2>4
<1> QED BY <1>2, <1>3

\* The places of the events about a uuid in two queues put together.
Together(c, a, b, u) ==
    /\ \A i \in About(c, u) :
         /\ i \in Nat
         /\ i <= Len(a) => i \in About(a, u) /\ c[i] = a[i]
         /\ i > Len(a) => i - Len(a) \in About(b, u) /\ c[i] = b[i - Len(a)]
    /\ \A i \in About(a, u) :
         i <= Len(a) /\ i \in Nat /\ i \in About(c, u) /\ c[i] = a[i]
    /\ \A i \in About(b, u) :
         i \in Nat /\ i >= 1 /\ i + Len(a) \in About(c, u) /\ c[i + Len(a)] = b[i]

LEMMA Joined ==
  ASSUME NEW u, NEW a \in Seq(EventType), NEW b \in Seq(EventType)
  PROVE  a \o b \in Seq(EventType) /\ Together(a \o b, a, b, u)
<1> DEFINE c == a \o b
<1>1. /\ c \in Seq(EventType) /\ Len(c) = Len(a) + Len(b)
      /\ \A i \in 1..(Len(a) + Len(b)) :
           c[i] = IF i <= Len(a) THEN a[i] ELSE b[i - Len(a)]
  BY ConcatProperties
<1>2. /\ Len(a) \in Nat /\ Len(b) \in Nat
      /\ DOMAIN a = 1..Len(a) /\ DOMAIN b = 1..Len(b) /\ DOMAIN c = 1..(Len(a) + Len(b))
  BY <1>1, LenProperties
<1> HIDE DEF c
<1>3. ASSUME NEW i \in About(c, u)
      PROVE  /\ i \in Nat
             /\ i <= Len(a) => i \in About(a, u) /\ c[i] = a[i]
             /\ i > Len(a) => i - Len(a) \in About(b, u) /\ c[i] = b[i - Len(a)]
  <2>1. i \in 1..(Len(a) + Len(b)) /\ i \in Nat /\ c[i].uuid = u
    BY <1>2 DEF About
  <2>2. CASE i <= Len(a)
    <3>1. i \in DOMAIN a /\ c[i] = a[i] BY <1>1, <1>2, <2>1, <2>2
    <3> QED BY <1>2, <2>1, <2>2, <3>1 DEF About
  <2>3. CASE i > Len(a)
    <3>1. i - Len(a) \in DOMAIN b /\ c[i] = b[i - Len(a)] BY <1>1, <1>2, <2>1, <2>3
    <3> QED BY <1>2, <2>1, <2>3, <3>1 DEF About
  <2> QED BY <1>2, <2>1, <2>2, <2>3
<1>4. ASSUME NEW i \in About(a, u)
      PROVE  i <= Len(a) /\ i \in Nat /\ i \in About(c, u) /\ c[i] = a[i]
  <2>1. i \in 1..Len(a) /\ a[i].uuid = u BY <1>2 DEF About
  <2>2. i \in DOMAIN c /\ c[i] = a[i] /\ i <= Len(a) /\ i \in Nat BY <1>1, <1>2, <2>1
  <2> QED BY <2>1, <2>2 DEF About
<1>5. ASSUME NEW i \in About(b, u)
      PROVE  i \in Nat /\ i >= 1 /\ i + Len(a) \in About(c, u) /\ c[i + Len(a)] = b[i]
  <2>1. i \in 1..Len(b) /\ b[i].uuid = u BY <1>2 DEF About
  <2>2. /\ i + Len(a) \in 1..(Len(a) + Len(b)) /\ ~(i + Len(a) <= Len(a))
        /\ (i + Len(a)) - Len(a) = i /\ i \in Nat /\ i >= 1
    BY <1>2, <2>1
  <2>3. c[i + Len(a)] = b[i] BY <1>1, <2>2
  <2> QED BY <1>2, <2>1, <2>2, <2>3 DEF About
<1> QED BY <1>1, <1>3, <1>4, <1>5 DEF Together, c

LEMMA JoinSame ==
  ASSUME NEW u, NEW a1 \in Seq(EventType), NEW a2 \in Seq(EventType),
         NEW b1 \in Seq(EventType), NEW b2 \in Seq(EventType),
         SameEvents(a1, a2, u), SameEvents(b1, b2, u)
  PROVE  SameEvents(a1 \o b1, a2 \o b2, u)
<1>1. PICK f : /\ Placed(f, a1, a2, u)
               /\ \A j \in About(a2, u) : \E i \in About(a1, u) : f[i] = j
  BY DEF SameEvents
<1>2. PICK g : /\ Placed(g, b1, b2, u)
               /\ \A j \in About(b2, u) : \E i \in About(b1, u) : g[i] = j
  BY DEF SameEvents
<1> DEFINE c1 == a1 \o b1
           c2 == a2 \o b2
           n1 == Len(a1)
           n2 == Len(a2)
           at == [i \in Nat |-> IF i <= n1 THEN f[i] ELSE g[i - n1] + n2]
<1>3. n1 \in Nat /\ n2 \in Nat OBVIOUS
<1>4. Together(c1, a1, b1, u) /\ Together(c2, a2, b2, u) BY Joined
<1> HIDE DEF c1, c2
<1>5. /\ \A i \in About(c1, u) :
            /\ i \in Nat
            /\ i <= n1 => i \in About(a1, u) /\ c1[i] = a1[i]
            /\ i > n1 => i - n1 \in About(b1, u) /\ c1[i] = b1[i - n1]
      /\ \A i \in About(a1, u) : i <= n1 /\ i \in Nat /\ i \in About(c1, u)
      /\ \A i \in About(b1, u) : i \in Nat /\ i >= 1 /\ i + n1 \in About(c1, u)
  BY <1>4 DEF Together
<1>6. /\ \A i \in About(c2, u) :
            /\ i \in Nat
            /\ i <= n2 => i \in About(a2, u)
            /\ i > n2 => i - n2 \in About(b2, u)
      /\ \A i \in About(a2, u) : /\ i <= n2 /\ i \in Nat
                                 /\ i \in About(c2, u) /\ c2[i] = a2[i]
      /\ \A i \in About(b2, u) : /\ i \in Nat /\ i >= 1
                                 /\ i + n2 \in About(c2, u) /\ c2[i + n2] = b2[i]
  BY <1>4 DEF Together
<1> HIDE DEF n1, n2
<1>7. /\ \A i \in About(c1, u) : i <= n1 => at[i] = f[i] /\ f[i] \in About(a2, u)
                                              /\ a2[f[i]] = a1[i]
      /\ \A i \in About(c1, u) : i > n1 => /\ at[i] = g[i - n1] + n2
                                           /\ g[i - n1] \in About(b2, u)
                                           /\ b2[g[i - n1]] = b1[i - n1]
  BY <1>1, <1>2, <1>3, <1>5 DEF Placed
<1> HIDE DEF at
<1>8. \A i \in About(c1, u) : at[i] \in About(c2, u) /\ c2[at[i]] = c1[i]
  <2> SUFFICES ASSUME NEW i \in About(c1, u)
               PROVE  at[i] \in About(c2, u) /\ c2[at[i]] = c1[i]
    OBVIOUS
  <2>1. CASE i <= n1 BY <1>5, <1>6, <1>7, <2>1
  <2>2. CASE i > n1 BY <1>5, <1>6, <1>7, <2>2
  <2> QED BY <1>3, <1>5, <2>1, <2>2
<1>9. \A i, j \in About(c1, u) : i < j => at[i] < at[j]
  <2> SUFFICES ASSUME NEW i \in About(c1, u), NEW j \in About(c1, u), i < j
               PROVE  at[i] < at[j]
    OBVIOUS
  <2>1. i \in Nat /\ j \in Nat BY <1>5
  <2>2. CASE j <= n1
    <3>1. i <= n1 BY <1>3, <2>1, <2>2
    <3>2. f[i] < f[j] BY <1>1, <1>5, <2>2, <3>1 DEF Placed
    <3> QED BY <1>7, <2>2, <3>1, <3>2
  <2>3. CASE i <= n1 /\ j > n1
    <3>1. at[i] <= n2 /\ at[i] \in Nat BY <1>6, <1>7, <2>3
    <3>2. at[j] = g[j - n1] + n2 /\ g[j - n1] \in Nat /\ g[j - n1] >= 1
      BY <1>6, <1>7, <2>3
    <3> DEFINE x == g[j - n1]
    <3> HIDE DEF x
    <3>3. n2 < x + n2 BY <1>3, <3>2 DEF x
    <3>4. at[j] = x + n2 BY <3>2 DEF x
    <3>5. x \in Nat BY <3>2 DEF x
    <3> QED BY <1>3, <3>1, <3>3, <3>4, <3>5
  <2>4. CASE i > n1
    <3>1. j > n1 BY <1>3, <2>1, <2>4
    <3>2. /\ i - n1 \in About(b1, u) /\ j - n1 \in About(b1, u) /\ i - n1 < j - n1
      BY <1>3, <1>5, <2>1, <2>4, <3>1
    <3>3. g[i - n1] < g[j - n1] BY <1>2, <3>2 DEF Placed
    <3>4. /\ at[i] = g[i - n1] + n2 /\ at[j] = g[j - n1] + n2
          /\ g[i - n1] \in Nat /\ g[j - n1] \in Nat
      BY <1>6, <1>7, <2>4, <3>1
    <3> QED BY <1>3, <3>3, <3>4
  <2> QED BY <1>3, <2>1, <2>2, <2>3, <2>4
<1>10. \A j \in About(c2, u) : \E i \in About(c1, u) : at[i] = j
  <2> SUFFICES ASSUME NEW j \in About(c2, u) PROVE \E i \in About(c1, u) : at[i] = j
    OBVIOUS
  <2>1. CASE j <= n2
    <3>1. PICK i \in About(a1, u) : f[i] = j BY <1>1, <1>6, <2>1
    <3> QED BY <1>5, <1>7, <3>1
  <2>2. CASE j > n2
    <3>1. PICK i \in About(b1, u) : g[i] = j - n2 BY <1>2, <1>6, <2>2
    <3>2. /\ i \in Nat /\ i + n1 \in About(c1, u) /\ i + n1 > n1 /\ (i + n1) - n1 = i
      BY <1>3, <1>5, <3>1
    <3>3. at[i + n1] = (j - n2) + n2 BY <1>7, <3>1, <3>2
    <3>4. (j - n2) + n2 = j BY <1>3, <1>6
    <3> QED BY <3>2, <3>3, <3>4
  <2> QED BY <1>3, <1>6, <2>1, <2>2
<1>11. Placed(at, c1, c2, u) BY <1>8, <1>9 DEF Placed
<1>12. SameEvents(c1, c2, u) BY <1>10, <1>11 DEF SameEvents
<1> QED BY <1>12 DEF c1, c2

LEMMA SameItself == \A q \in Seq(EventType) : \A u : SameEvents(q, q, u)
<1> SUFFICES ASSUME NEW q \in Seq(EventType), NEW u PROVE SameEvents(q, q, u)
  OBVIOUS
<1> DEFINE at == [i \in About(q, u) |-> i]
<1>1. Placed(at, q, q, u) BY DEF Placed
<1>2. \A j \in About(q, u) : \E i \in About(q, u) : at[i] = j OBVIOUS
<1> HIDE DEF at
<1> QED BY <1>1, <1>2 DEF SameEvents

LEMMA NoneAreSame ==
  \A p, q, u : About(p, u) = {} /\ About(q, u) = {} => SameEvents(p, q, u)
BY DEF SameEvents, Placed

\* A filter that keeps a uuid keeps its events in their order: places are ranks.
LEMMA FilterSame ==
  ASSUME NEW events \in Seq(EventType), NEW uuids, NEW u \in uuids
  PROVE  SameEvents(EventsOf(events, uuids), events, u)
<1> DEFINE kept == {i \in DOMAIN events : events[i].uuid \in uuids}
           upto(i) == {j \in kept : j <= i}
           place(k) == CHOOSE i \in kept : Cardinality(upto(i)) = k
           n == Cardinality(kept)
           chosen == [k \in 1..n |-> events[place(k)]]
           at == [k \in 1..n |-> place(k)]
<1>1. EventsOf(events, uuids) = chosen BY DEF EventsOf
<1>2. kept \in SUBSET Int /\ IsFiniteSet(kept) /\ n \in Nat
  <2>1. kept \in SUBSET (1..Len(events)) /\ 1..Len(events) \in SUBSET Int OBVIOUS
  <2>2. IsFiniteSet(1..Len(events)) BY FS_Interval
  <2> HIDE DEF kept
  <2> QED BY <2>1, <2>2, FS_Subset, FS_CardinalityType
<1>3. /\ \A i \in kept : Cardinality(upto(i)) \in 1..n
      /\ \A i, j \in kept : i < j => Cardinality(upto(i)) < Cardinality(upto(j))
  BY <1>2, RanksRise
<1>4. \A k \in 1..n : place(k) \in kept /\ Cardinality(upto(place(k))) = k
  <2> HIDE DEF kept
  <2>1. \A k \in 1..n : \E i \in kept : Cardinality(upto(i)) = k
    BY <1>2, EveryPlaceTaken
  <2> HIDE DEF upto, n
  <2> QED BY <2>1
<1>5. \A i \in kept : place(Cardinality(upto(i))) = i
  <2> SUFFICES ASSUME NEW i \in kept PROVE place(Cardinality(upto(i))) = i OBVIOUS
  <2> DEFINE j == place(Cardinality(upto(i)))
  <2>1. j \in kept /\ Cardinality(upto(j)) = Cardinality(upto(i)) BY <1>3, <1>4
  <2>2. i \in Int /\ j \in Int BY <1>2, <2>1
  <2> HIDE DEF j, kept, upto, n
  <2>3. Cardinality(upto(i)) \in Int BY <1>2, <1>3
  <2>4. ~(i < j) /\ ~(j < i) BY <1>3, <2>1, <2>3
  <2>5. j = i BY <2>2, <2>4
  <2> QED BY <2>5 DEF j
<1>6. \A k, l \in 1..n : k < l => place(k) < place(l)
  <2> SUFFICES ASSUME NEW k \in 1..n, NEW l \in 1..n, k < l PROVE place(k) < place(l)
    OBVIOUS
  <2>1. /\ place(k) \in kept /\ place(l) \in kept
        /\ Cardinality(upto(place(k))) = k /\ Cardinality(upto(place(l))) = l
    BY <1>4
  <2>2. place(k) \in Int /\ place(l) \in Int BY <1>2, <2>1
  <2> HIDE DEF kept, upto, place, n
  <2>3. k # l /\ ~(l < k) BY <1>2
  <2>4. place(k) # place(l) BY <2>1, <2>3
  <2>5. ~(place(l) < place(k)) BY <1>3, <2>1, <2>3
  <2> QED BY <2>2, <2>4, <2>5
<1>7. /\ \A k \in About(chosen, u) : k \in 1..n /\ chosen[k] = events[place(k)]
                                      /\ events[place(k)].uuid = u
      /\ \A k \in 1..n : events[place(k)].uuid = u => k \in About(chosen, u)
      /\ \A k \in 1..n : at[k] = place(k)
  <2> HIDE DEF place, n
  <2> QED BY DEF About
<1>8. kept \in SUBSET DOMAIN events /\ About(events, u) \in SUBSET kept BY DEF About
<1> HIDE DEF kept, upto, place, n, chosen, at
<1>9. Placed(at, chosen, events, u) BY <1>4, <1>6, <1>7, <1>8 DEF Placed, About
<1>10. \A j \in About(events, u) : \E k \in About(chosen, u) : at[k] = j
  <2> SUFFICES ASSUME NEW j \in About(events, u)
               PROVE  \E k \in About(chosen, u) : at[k] = j
    OBVIOUS
  <2>1. j \in kept /\ events[j].uuid = u BY <1>8 DEF About
  <2>2. PICK k \in 1..n : place(k) = j BY <1>3, <1>5, <2>1
  <2> QED BY <1>7, <2>1, <2>2
<1> QED BY <1>1, <1>9, <1>10 DEF SameEvents

\* A flush splits what waits, each uuid to one side, in its order.
LEMMA SplitSame ==
  ASSUME NEW events \in Seq(EventType), NEW wire \in Seq(EventType), NEW held,
         NEW u \in UUIDs
  PROVE  /\ SameEvents(EventsOf(events, UUIDs \ held) \o (EventsOf(events, held) \o wire),
                       <<>> \o (events \o wire), u)
         /\ u \in held => SameEvents(EventsOf(events, held) \o wire, events \o wire, u)
<1> DEFINE due == EventsOf(events, UUIDs \ held)
           kept == EventsOf(events, held)
<1>1. /\ due \in Seq(EventType) /\ kept \in Seq(EventType) /\ <<>> \in Seq(EventType)
      /\ u \in held => About(due, u) = {}
      /\ u \notin held => About(kept, u) = {}
  BY EventsOfEffect DEF About
<1>2. About(<<>>, u) = {} BY DEF About
<1>3. /\ u \in held => SameEvents(kept, events, u)
      /\ u \notin held => SameEvents(due, events, u)
  BY FilterSame
<1> HIDE DEF due, kept
<1>4. /\ SameEvents(wire, wire, u) /\ events \o wire \in Seq(EventType)
      /\ kept \o wire \in Seq(EventType) /\ <<>> \o wire \in Seq(EventType)
      /\ <<>> \o wire = wire /\ <<>> \o (events \o wire) = events \o wire
  BY <1>1, SameItself, Joined, ConcatEmptySeq
<1>5. CASE u \in held
  <2>1. SameEvents(due, <<>>, u) BY <1>1, <1>2, <1>5, NoneAreSame
  <2>2. SameEvents(kept \o wire, events \o wire, u) BY <1>1, <1>3, <1>4, <1>5, JoinSame
  <2>3. SameEvents(due \o (kept \o wire), <<>> \o (events \o wire), u)
    BY <1>1, <1>4, <2>1, <2>2, JoinSame
  <2> QED BY <2>2, <2>3 DEF due, kept
<1>6. CASE u \notin held
  <2>1. SameEvents(kept, <<>>, u) BY <1>1, <1>2, <1>6, NoneAreSame
  <2>2. SameEvents(kept \o wire, <<>> \o wire, u) BY <1>1, <1>4, <2>1, JoinSame
  <2>3. SameEvents(kept \o wire, wire, u) BY <1>4, <2>2, Zenon
  <2>4. SameEvents(due \o (kept \o wire), events \o wire, u)
    BY <1>1, <1>3, <1>4, <1>6, <2>3, JoinSame
  <2> QED BY <1>4, <1>6, <2>4 DEF due, kept
<1> QED BY <1>5, <1>6

\* The places of what is left when the first event is taken.
LEMMA TailPlaces ==
  ASSUME NEW q \in Seq(EventType), q # <<>>, NEW u
  PROVE  /\ Tail(q) \in Seq(EventType) /\ Head(q) \in EventType /\ Head(q) = q[1]
         /\ \A i \in About(Tail(q), u) :
              i \in Nat /\ i >= 1 /\ i + 1 \in About(q, u) /\ Tail(q)[i] = q[i + 1]
         /\ \A j \in About(q, u) :
              j \in Nat /\ (j = 1 \/ (j > 1 /\ j - 1 \in About(Tail(q), u)))
         /\ 1 \in About(q, u) <=> Head(q).uuid = u
<1> DEFINE p == Tail(q)
<1>1. /\ p \in Seq(EventType) /\ Head(q) \in EventType /\ Len(p) = Len(q) - 1
      /\ \A i \in 1..Len(p) : p[i] = q[i + 1]
  BY HeadTailProperties
<1>2. /\ Len(q) \in Nat \ {0} /\ DOMAIN q = 1..Len(q) /\ DOMAIN p = 1..Len(p)
      /\ Len(p) \in Nat /\ Head(q) = q[1] /\ 1 \in DOMAIN q
  BY <1>1, LenProperties, EmptySeq
<1> HIDE DEF p
<1>3. ASSUME NEW i \in About(p, u)
      PROVE  i \in Nat /\ i >= 1 /\ i + 1 \in About(q, u) /\ p[i] = q[i + 1]
  <2>1. i \in 1..Len(p) /\ p[i].uuid = u BY <1>2 DEF About
  <2>2. i + 1 \in 1..Len(q) BY <1>1, <1>2, <2>1
  <2> QED BY <1>1, <1>2, <2>1, <2>2 DEF About
<1>4. ASSUME NEW j \in About(q, u)
      PROVE  j \in Nat /\ (j = 1 \/ (j > 1 /\ j - 1 \in About(p, u)))
  <2>1. j \in 1..Len(q) /\ q[j].uuid = u BY <1>2 DEF About
  <2>2. CASE j > 1
    <3>1. j - 1 \in 1..Len(p) /\ (j - 1) + 1 = j BY <1>1, <1>2, <2>1, <2>2
    <3>2. p[j - 1].uuid = u BY <1>1, <2>1, <3>1
    <3> QED BY <1>2, <2>1, <2>2, <3>1, <3>2 DEF About
  <2> QED BY <1>2, <2>1, <2>2
<1>5. 1 \in About(q, u) <=> Head(q).uuid = u BY <1>2 DEF About
<1> QED BY <1>1, <1>2, <1>3, <1>4, <1>5 DEF p

LEMMA TailLast ==
  ASSUME NEW q \in Seq(EventType), q # <<>>, NEW u
  PROVE  /\ LastEvents(Tail(q), q, u)
         /\ Head(q).uuid # u => SameEvents(Tail(q), q, u)
<1> DEFINE p == Tail(q)
           at == [i \in Nat |-> i + 1]
<1>1. /\ \A i \in About(p, u) : i \in Nat /\ i >= 1 /\ i + 1 \in About(q, u) /\ p[i] = q[i + 1]
      /\ \A j \in About(q, u) : j \in Nat /\ (j = 1 \/ (j > 1 /\ j - 1 \in About(p, u)))
      /\ 1 \in About(q, u) <=> Head(q).uuid = u
  BY TailPlaces
<1> HIDE DEF p
<1>2. \A i \in About(p, u) : at[i] = i + 1 BY <1>1
<1> HIDE DEF at
<1>3. Placed(at, p, q, u) BY <1>1, <1>2 DEF Placed
<1>4. \A j \in About(q, u) : j > 1 => \E i \in About(p, u) : at[i] = j
  <2> SUFFICES ASSUME NEW j \in About(q, u), j > 1 PROVE \E i \in About(p, u) : at[i] = j
    OBVIOUS
  <2>1. j - 1 \in About(p, u) /\ at[j - 1] = (j - 1) + 1 /\ (j - 1) + 1 = j
    BY <1>1, <1>2
  <2> QED BY <2>1
<1>5. LastEvents(p, q, u)
  <2>1. \A i \in About(p, u) : at[i] \in Nat /\ at[i] > 1 BY <1>1, <1>2
  <2>2. \A i \in About(p, u) : \A j \in About(q, u) : j > at[i] => j > 1
    BY <1>1, <2>1
  <2> QED BY <1>3, <1>4, <2>2 DEF LastEvents
<1>6. Head(q).uuid # u => SameEvents(p, q, u)
  <2>1. Head(q).uuid # u => \A j \in About(q, u) : j > 1 BY <1>1
  <2> QED BY <1>3, <1>4, <2>1 DEF SameEvents
<1> QED BY <1>5, <1>6 DEF p

\* What the first event of a queue in order says of what the store holds.
LEMMA HeadTaken ==
  ASSUME NEW q \in Seq(EventType), q # <<>>, NEW u, u = Head(q).uuid, NEW now,
         InOrder(q, u, now)
  PROVE  LET e == Head(q)
         IN /\ e.type = "REMOVED" => Follows(Absent, Tail(q), u, now)
            /\ e.type # "REMOVED" /\ Survives(Tail(q), u) =>
                 /\ Survives(q, u) /\ now # Absent /\ SameNature(e.t, now)
                 /\ \A f \in Parts : Untouched(Tail(q), u, f) =>
                      /\ Writes(e, f) => SamePart(f, e.t, now)
                      /\ e.type = "ADDED" \/ ~Writes(e, f) => Untouched(q, u, f)
<1> DEFINE e == Head(q)
           p == Tail(q)
<1>1. /\ e \in EventType /\ e = q[1] /\ 1 \in About(q, u)
      /\ \A i \in About(p, u) : i \in Nat /\ i >= 1 /\ i + 1 \in About(q, u) /\ p[i] = q[i + 1]
      /\ \A j \in About(q, u) : j \in Nat /\ (j = 1 \/ (j > 1 /\ j - 1 \in About(p, u)))
  BY TailPlaces
<1> HIDE DEF e, p
<1>2. \A j \in About(q, u) : j > 1 => j - 1 \in About(p, u) /\ q[j] = p[j - 1]
  <2> SUFFICES ASSUME NEW j \in About(q, u), j > 1
               PROVE  j - 1 \in About(p, u) /\ q[j] = p[j - 1]
    OBVIOUS
  <2>1. j - 1 \in About(p, u) /\ (j - 1) + 1 = j BY <1>1
  <2> QED BY <1>1, <2>1
<1>3. InOrderAt(q, u, now, 1) BY <1>1 DEF InOrder
<1>4. ASSUME e.type = "REMOVED" PROVE Follows(Absent, p, u, now)
  <2>1. ASSUME About(p, u) = {} PROVE now = Absent
    <3>1. \A j \in About(q, u) : ~(j > 1) BY <1>2, <2>1
    <3> QED BY <1>1, <1>3, <1>4, <3>1 DEF InOrderAt, Removes
  <2> QED BY <2>1 DEF Follows
<1>5. ASSUME e.type # "REMOVED", Survives(p, u)
      PROVE  /\ Survives(q, u) /\ now # Absent /\ SameNature(e.t, now)
             /\ \A f \in Parts : Untouched(p, u, f) =>
                  /\ Writes(e, f) => SamePart(f, e.t, now)
                  /\ e.type = "ADDED" \/ ~Writes(e, f) => Untouched(q, u, f)
  <2>1. \A j \in About(q, u) : ~Removes(q, j)
    <3> SUFFICES ASSUME NEW j \in About(q, u) PROVE ~Removes(q, j) OBVIOUS
    <3>1. CASE j = 1 BY <1>1, <1>5, <3>1 DEF Removes
    <3>2. CASE j > 1 BY <1>2, <1>5, <3>2 DEF Removes, Survives
    <3> QED BY <1>1, <3>1, <3>2
  <2>2. ~RemovedFrom(q, u, 1) BY <2>1 DEF RemovedFrom
  <2>3. now # Absent /\ SameNature(e.t, now) BY <1>1, <1>3, <2>2 DEF InOrderAt
  <2>4. \A j \in About(q, u) : j > 1 => q[j].type # "ADDED"
    <3> SUFFICES ASSUME NEW j \in About(q, u), j > 1, q[j].type = "ADDED" PROVE FALSE
      OBVIOUS
    <3>1. InOrderAt(q, u, now, j) BY DEF InOrder
    <3> QED BY <1>1, <2>1, <3>1 DEF InOrderAt
  <2>5. ASSUME NEW f \in Parts, Untouched(p, u, f), Writes(e, f)
        PROVE  SamePart(f, e.t, now)
    <3>1. \A j \in About(q, u) : j > 1 => ~Writes(q[j], f)
      BY <1>2, <2>4, <2>5 DEF Writes, Untouched
    <3>2. LastWriter(q, u, 1, f) BY <1>1, <2>5, <3>1 DEF LastWriter
    <3> QED BY <1>1, <1>3, <2>2, <3>2 DEF InOrderAt
  <2>6. ASSUME NEW f \in Parts, Untouched(p, u, f), e.type = "ADDED" \/ ~Writes(e, f)
        PROVE  Untouched(q, u, f)
    <3> SUFFICES ASSUME NEW j \in About(q, u)
                 PROVE  ~(q[j].type = "UPDATED" /\ f \in q[j].paths)
      BY DEF Untouched
    <3>1. CASE j = 1 BY <1>1, <2>6, <3>1 DEF Writes
    <3>2. CASE j > 1 BY <1>2, <2>6, <3>2 DEF Untouched
    <3> QED BY <1>1, <3>1, <3>2
  <2>7. Survives(q, u) BY <2>1 DEF Survives
  <2> QED BY <2>3, <2>5, <2>6, <2>7
<1> QED BY <1>4, <1>5 DEF e, p

\* What a change of the store does to one uuid, and the event that tells of it.
Tells(e, now, next) ==
    \/ e.type = "REMOVED" /\ now # Absent /\ next = Absent
    \/ e.type = "ADDED" /\ now = Absent /\ next # Absent /\ next = e.t
    \/ /\ e.type = "UPDATED" /\ now # Absent /\ next # Absent /\ next = e.t
       /\ SameNature(next, now)
       /\ \A f \in Parts : f \notin e.paths => SamePart(f, next, now)

LEMMA PartsAgree ==
  \A s, t, now :
     /\ SameNature(t, now) => SameNature(now, t)
     /\ SameNature(s, t) /\ SameNature(t, now) => SameNature(s, now)
     /\ \A f \in Parts : SamePart(f, t, now) => SamePart(f, now, t)
     /\ \A f \in Parts : SamePart(f, s, t) /\ SamePart(f, t, now) => SamePart(f, s, now)
     /\ \A f \in Parts : SamePart(f, t, t)
     /\ SameNature(t, t)
BY DEF SameNature, SamePart

\* The places of the events about a uuid when one more is appended.
Longer(r, q, e, u, n) ==
    /\ n \in Nat /\ r[n] = e
    /\ \A i \in About(q, u) : i \in Nat /\ i < n /\ i \in About(r, u) /\ r[i] = q[i]
    /\ \A i \in About(r, u) : i \in Nat /\ (i = n \/ (i < n /\ i \in About(q, u)))
    /\ n \in About(r, u) <=> e.uuid = u

LEMMA AppendPlaces ==
  ASSUME NEW q \in Seq(EventType), NEW e \in EventType, NEW u
  PROVE  Append(q, e) \in Seq(EventType) /\ Longer(Append(q, e), q, e, u, Len(q) + 1)
<1> DEFINE r == Append(q, e)
           n == Len(q) + 1
<1>1. /\ r \in Seq(EventType) /\ Len(r) = n /\ r[n] = e
      /\ \A i \in 1..Len(q) : r[i] = q[i]
  BY AppendProperties
<1>2. /\ Len(q) \in Nat /\ n \in Nat /\ DOMAIN q = 1..Len(q) /\ DOMAIN r = 1..n
      /\ n = Len(q) + 1
  BY <1>1, LenProperties
<1> HIDE DEF r, n
<1>3. ASSUME NEW i \in About(q, u)
      PROVE  i \in Nat /\ i < n /\ i \in About(r, u) /\ r[i] = q[i]
  <2>1. i \in 1..Len(q) /\ q[i].uuid = u BY <1>2 DEF About
  <2>2. i \in 1..n /\ i < n /\ i \in Nat BY <1>2, <2>1
  <2> QED BY <1>1, <1>2, <2>1, <2>2 DEF About
<1>4. ASSUME NEW i \in About(r, u)
      PROVE  i \in Nat /\ (i = n \/ (i < n /\ i \in About(q, u)))
  <2>1. i \in 1..n /\ r[i].uuid = u BY <1>2 DEF About
  <2>2. CASE i # n
    <3>1. i \in 1..Len(q) /\ i < n BY <1>2, <2>1, <2>2
    <3> QED BY <1>1, <1>2, <2>1, <3>1 DEF About
  <2> QED BY <1>2, <2>1, <2>2
<1>5. n \in About(r, u) <=> e.uuid = u
  <2>1. n \in 1..n BY <1>2
  <2> QED BY <1>1, <1>2, <2>1 DEF About
<1> QED BY <1>1, <1>2, <1>3, <1>4, <1>5 DEF Longer, r, n

LEMMA AppendSame ==
  ASSUME NEW q \in Seq(EventType), NEW e \in EventType, NEW u, e.uuid # u
  PROVE  SameEvents(Append(q, e), q, u)
<1> DEFINE r == Append(q, e)
           n == Len(q) + 1
           at == [i \in About(q, u) |-> i]
<1>0. Longer(r, q, e, u, n) BY AppendPlaces
<1> HIDE DEF r, n
<1>1. /\ \A i \in About(q, u) : i \in Nat /\ i < n /\ i \in About(r, u) /\ r[i] = q[i]
      /\ \A i \in About(r, u) : i \in Nat /\ (i = n \/ (i < n /\ i \in About(q, u)))
      /\ n \notin About(r, u)
  BY <1>0 DEF Longer
<1>2. \A i \in About(r, u) : i \in About(q, u) /\ at[i] = i BY <1>1
<1>3. Placed(at, r, q, u) BY <1>1, <1>2 DEF Placed
<1>4. \A j \in About(q, u) : \E i \in About(r, u) : at[i] = j BY <1>1, <1>2
<1> HIDE DEF at
<1> QED BY <1>3, <1>4 DEF SameEvents, r

\* The event that tells of a change keeps the queue in order.
LEMMA AppendInOrder ==
  ASSUME NEW q \in Seq(EventType), NEW e \in EventType, NEW u, e.uuid = u,
         NEW now, NEW next, Tells(e, now, next), InOrder(q, u, now)
  PROVE  InOrder(Append(q, e), u, next)
<1> DEFINE r == Append(q, e)
           n == Len(q) + 1
<1>0. Longer(r, q, e, u, n) BY AppendPlaces
<1> HIDE DEF r, n
<1>1. /\ n \in Nat /\ r[n] = e /\ n \in About(r, u)
      /\ \A i \in About(q, u) : i \in Nat /\ i < n /\ i \in About(r, u) /\ r[i] = q[i]
      /\ \A i \in About(r, u) : i \in Nat /\ (i = n \/ (i < n /\ i \in About(q, u)))
  BY <1>0 DEF Longer
<1>2. \A i \in About(r, u) : i <= n BY <1>1
<1> SUFFICES ASSUME NEW i \in About(r, u) PROVE InOrderAt(r, u, next, i)
  BY DEF InOrder, r
<1>3. i \in About(q, u) => InOrderAt(q, u, now, i) BY DEF InOrder
<1>4. \A j \in About(q, u) : RemovedFrom(q, u, j) => RemovedFrom(r, u, j)
  BY <1>1 DEF RemovedFrom, Removes
<1>5. ASSUME next = Absent PROVE RemovedFrom(r, u, i)
  <2>1. e.type = "REMOVED" BY <1>5 DEF Tells
  <2> QED BY <1>1, <1>2, <2>1 DEF RemovedFrom, Removes
<1>6. ASSUME next # Absent, Removes(r, i)
      PROVE  \E j \in About(r, u) : j > i /\ ~Removes(r, j)
  <2>1. ~Removes(r, n) BY <1>1, <1>6 DEF Tells, Removes
  <2>2. i # n BY <1>6, <2>1
  <2> QED BY <1>1, <2>1, <2>2
<1>7. ASSUME r[i].type = "ADDED", NEW j \in About(r, u), j < i
      PROVE  \E k \in About(r, u) : j <= k /\ k < i /\ Removes(r, k)
  <2>0. i <= n /\ i \in Nat /\ j \in Nat BY <1>1, <1>2
  <2>1. j \in About(q, u) BY <1>1, <1>7, <2>0
  <2>2. CASE i \in About(q, u)
    <3>1. PICK k \in About(q, u) : j <= k /\ k < i /\ Removes(q, k)
      BY <1>1, <1>3, <1>7, <2>1, <2>2 DEF InOrderAt
    <3> QED BY <1>1, <3>1 DEF Removes
  <2>3. CASE i = n
    <3>1. now = Absent BY <1>1, <1>7, <2>3 DEF Tells
    <3>2. RemovedFrom(q, u, j) BY <2>1, <3>1 DEF InOrder, InOrderAt
    <3>3. PICK k \in About(q, u) : k >= j /\ Removes(q, k) BY <3>2 DEF RemovedFrom
    <3> QED BY <1>1, <2>1, <2>3, <3>3 DEF Removes
  <2> QED BY <1>1, <2>2, <2>3
<1>8. ASSUME ~RemovedFrom(r, u, i)
      PROVE  /\ SameNature(r[i].t, next)
             /\ \A f \in Parts : LastWriter(r, u, i, f) => SamePart(f, r[i].t, next)
  <2>1. next # Absent BY <1>5, <1>8
  <2>2. CASE i = n
    <3>1. r[i].t = next BY <1>1, <2>1, <2>2 DEF Tells
    <3> QED BY <3>1, PartsAgree
  <2>3. CASE i \in About(q, u)
    <3>1. ~RemovedFrom(q, u, i) /\ r[i] = q[i] BY <1>1, <1>4, <1>8, <2>3
    <3>2. now # Absent BY <1>3, <2>3, <3>1 DEF InOrderAt
    <3>3. /\ e.type = "UPDATED" /\ SameNature(next, now)
          /\ \A f \in Parts : f \notin e.paths => SamePart(f, next, now)
      BY <2>1, <3>2 DEF Tells
    <3>4. SameNature(r[i].t, next)
      <4>1. SameNature(q[i].t, now) BY <1>3, <2>3, <3>1 DEF InOrderAt
      <4> QED BY <3>1, <3>3, <4>1, PartsAgree
    <3>5. ASSUME NEW f \in Parts, LastWriter(r, u, i, f)
          PROVE  SamePart(f, r[i].t, next)
      <4>1. ~Writes(e, f) BY <1>1, <2>3, <3>5 DEF LastWriter
      <4>2. LastWriter(q, u, i, f) BY <1>1, <2>3, <3>5 DEF LastWriter
      <4>3. SamePart(f, q[i].t, now) BY <1>3, <2>3, <3>1, <4>2 DEF InOrderAt
      <4>4. SamePart(f, next, now) BY <3>3, <4>1 DEF Writes
      <4> QED BY <3>1, <4>3, <4>4 DEF SamePart
    <3> QED BY <3>4, <3>5
  <2> QED BY <1>1, <2>2, <2>3
<1> QED BY <1>5, <1>6, <1>7, <1>8 DEF InOrderAt

\* And what was the store's but for the queue stays so.
LEMMA AppendView ==
  ASSUME NEW q \in Seq(EventType), NEW e \in EventType, NEW u, e.uuid = u,
         NEW now, NEW next, Tells(e, now, next)
  PROVE  /\ \A t : Current(t, q, u, now) => Current(t, Append(q, e), u, next)
         /\ \A d : Follows(d, q, u, now) => Follows(d, Append(q, e), u, next)
<1> DEFINE r == Append(q, e)
           n == Len(q) + 1
<1>0. Longer(r, q, e, u, n) BY AppendPlaces
<1> HIDE DEF r, n
<1>1. /\ n \in Nat /\ r[n] = e /\ n \in About(r, u)
      /\ \A i \in About(q, u) : i \in Nat /\ i < n /\ i \in About(r, u) /\ r[i] = q[i]
  BY <1>0 DEF Longer
<1>2. ASSUME Survives(r, u)
      PROVE  Survives(q, u) /\ e.type # "REMOVED" /\ About(r, u) # {}
  BY <1>1, <1>2 DEF Survives, Removes
<1>3. ASSUME NEW f, Untouched(r, u, f), e.type = "UPDATED"
      PROVE  Untouched(q, u, f) /\ f \notin e.paths
  BY <1>1, <1>3 DEF Untouched
<1>4. ASSUME NEW t, Current(t, q, u, now), Survives(r, u)
      PROVE  /\ next # Absent /\ SameNature(t, next)
             /\ \A f \in Parts : Untouched(r, u, f) => SamePart(f, t, next)
  <2>1. /\ now # Absent /\ SameNature(t, now)
        /\ \A f \in Parts : Untouched(q, u, f) => SamePart(f, t, now)
    BY <1>2, <1>4 DEF Current
  <2>2. /\ e.type = "UPDATED" /\ next # Absent /\ SameNature(next, now)
        /\ \A f \in Parts : f \notin e.paths => SamePart(f, next, now)
    BY <1>2, <1>4, <2>1 DEF Tells
  <2> QED BY <1>3, <2>1, <2>2, PartsAgree
<1>5. ASSUME NEW d, Follows(d, q, u, now), Survives(r, u), d # Absent
      PROVE  /\ next # Absent /\ ShowsNature(d, next)
             /\ \A f \in Parts : Untouched(r, u, f) => ShowsPart(f, d, next)
  <2>1. /\ now # Absent /\ ShowsNature(d, now)
        /\ \A f \in Parts : Untouched(q, u, f) => ShowsPart(f, d, now)
    BY <1>2, <1>5 DEF Follows
  <2>2. /\ e.type = "UPDATED" /\ next # Absent /\ SameNature(next, now)
        /\ \A f \in Parts : f \notin e.paths => SamePart(f, next, now)
    BY <1>2, <1>5, <2>1 DEF Tells
  <2>3. ShowsNature(d, next) BY <2>1, <2>2 DEF ShowsNature, SameNature
  <2>4. ASSUME NEW f \in Parts, Untouched(r, u, f) PROVE ShowsPart(f, d, next)
    <3>1. ShowsPart(f, d, now) /\ SamePart(f, now, next)
      BY <1>3, <2>1, <2>2, <2>4, PartsAgree
    <3>2. now.chunks = next.chunks BY <2>2 DEF SameNature
    <3> QED BY <3>1, <3>2, ShownPart
  <2> QED BY <2>2, <2>3, <2>4
<1>6. \A t : Current(t, q, u, now) => Current(t, r, u, next) BY <1>4 DEF Current
<1>7. \A d : Follows(d, q, u, now) => Follows(d, r, u, next)
  BY <1>2, <1>5 DEF Follows
<1> QED BY <1>6, <1>7 DEF r

\* Taking the first event of a queue in order, as applyEvents does.
LEMMA HeadFollows ==
  ASSUME NEW q \in Seq(EventType), q # <<>>, NEW u, u = Head(q).uuid, NEW now,
         InOrder(q, u, now), NEW d \in DrawnType \cup {Absent}
  PROVE  LET e == Head(q) p == Tail(q)
         IN /\ e.type = "REMOVED" => Follows(Absent, p, u, now)
            /\ e.type = "ADDED" => Follows(Spawned(e.t, e.instance), p, u, now)
            /\ e.type = "ADDED" /\ d # Absent /\ Follows(d, q, u, now)
                 => Follows(d, p, u, now)
            /\ e.type = "UPDATED" /\ d # Absent /\ Follows(d, q, u, now)
                 => Follows(Updated(d, e.t, e.paths, e.instance), p, u, now)
<1> DEFINE e == Head(q)
           p == Tail(q)
<1>1. /\ e.type = "REMOVED" => Follows(Absent, p, u, now)
      /\ e.type # "REMOVED" /\ Survives(p, u) =>
           /\ Survives(q, u) /\ now # Absent /\ SameNature(e.t, now)
           /\ \A f \in Parts : Untouched(p, u, f) =>
                /\ Writes(e, f) => SamePart(f, e.t, now)
                /\ e.type = "ADDED" \/ ~Writes(e, f) => Untouched(q, u, f)
  BY HeadTaken
<1>2. /\ e.t \in TransformType /\ e.instance \in Instances /\ e.paths \in SUBSET Parts
  <2>1. e \in EventType BY HeadTailProperties
  <2> HIDE DEF e
  <2> QED BY <2>1 DEF EventType, Instances, Parts
<1> HIDE DEF e, p
<1>3. ASSUME e.type = "ADDED"
      PROVE  Follows(Spawned(e.t, e.instance), p, u, now)
  <2> DEFINE x == Spawned(e.t, e.instance)
  <2>1. x \in DrawnType /\ x # Absent /\ ShowsAll(x, e.t)
    BY <1>2, SpawnedTyped, SpawnedShows, SessionsDiffer
  <2> HIDE DEF x
  <2> SUFFICES ASSUME Survives(p, u)
               PROVE  /\ now # Absent /\ ShowsNature(x, now)
                      /\ \A f \in Parts : Untouched(p, u, f) => ShowsPart(f, x, now)
    BY <2>1 DEF Follows, x
  <2>2. now # Absent /\ SameNature(e.t, now) BY <1>1, <1>3
  <2>3. ShowsNature(x, now) BY <2>1, <2>2 DEF ShowsAll, ShowsNature, SameNature
  <2>4. ASSUME NEW f \in Parts, Untouched(p, u, f) PROVE ShowsPart(f, x, now)
    <3>1. SamePart(f, e.t, now) BY <1>1, <1>3, <2>4 DEF Writes
    <3>2. ShowsPart(f, x, e.t) /\ e.t.chunks = now.chunks
      BY <2>1, <2>2 DEF ShowsAll, SameNature
    <3> QED BY <3>1, <3>2, ShownPart
  <2> QED BY <2>2, <2>3, <2>4
<1>4. ASSUME e.type = "ADDED", d # Absent, Follows(d, q, u, now)
      PROVE  Follows(d, p, u, now)
  BY <1>1, <1>4 DEF Follows
<1>5. ASSUME e.type = "UPDATED", d # Absent, Follows(d, q, u, now)
      PROVE  Follows(Updated(d, e.t, e.paths, e.instance), p, u, now)
  <2> DEFINE x == Updated(d, e.t, e.paths, e.instance)
  <2>1. d \in DrawnType BY <1>5
  <2>2. /\ x \in DrawnType
        /\ \A w : ShowsNature(d, w) /\ SameNature(e.t, w) => ShowsNature(x, w)
        /\ \A f \in e.paths : ShowsPart(f, x, e.t)
        /\ \A w : \A f \in Parts \ e.paths : ShowsPart(f, d, w) => ShowsPart(f, x, w)
    BY <1>2, <2>1, UpdatedShows, UpdatedTyped DEF Parts
  <2> HIDE DEF x
  <2>3. x # Absent BY <2>2, SessionsDiffer
  <2> SUFFICES ASSUME Survives(p, u)
               PROVE  /\ now # Absent /\ ShowsNature(x, now)
                      /\ \A f \in Parts : Untouched(p, u, f) => ShowsPart(f, x, now)
    BY <2>3 DEF Follows, x
  <2>4. now # Absent /\ SameNature(e.t, now) /\ Survives(q, u) BY <1>1, <1>5
  <2>5. ShowsNature(d, now) BY <1>5, <2>4 DEF Follows
  <2>6. ASSUME NEW f \in Parts, Untouched(p, u, f) PROVE ShowsPart(f, x, now)
    <3>1. CASE f \in e.paths
      <4>1. SamePart(f, e.t, now) BY <1>1, <1>5, <2>6, <3>1 DEF Writes
      <4>2. ShowsPart(f, x, e.t) /\ e.t.chunks = now.chunks
        BY <2>2, <2>4, <3>1 DEF SameNature
      <4> QED BY <4>1, <4>2, ShownPart
    <3>2. CASE f \notin e.paths
      <4>1. Untouched(q, u, f) BY <1>1, <1>5, <2>6, <3>2 DEF Writes
      <4>2. ShowsPart(f, d, now) BY <1>5, <2>4, <4>1 DEF Follows
      <4> QED BY <2>2, <3>2, <4>2
    <3> QED BY <3>1, <3>2
  <2> QED BY <2>2, <2>4, <2>5, <2>6
<1> QED BY <1>1, <1>3, <1>4, <1>5 DEF e, p

LEMMA LookFollows ==
  \A d, e, q, u, now : SameLook(d, e) /\ Follows(d, q, u, now) => Follows(e, q, u, now)
BY LooksSame DEF Follows

---------------------------------------------------------------------------
(* The mirror as an invariant: what the functions of the sync keep.        *)

Answer(s, u) == s.session.read.got[u]
Coming(s) == s.pendingEvents \o s.session.wire

\* The far end of the stream is, or will be, the store's.
Heard(s) == s.session # Absent /\ s.session.stream \in {"opening", "live"}

\* A snapshot is owed, and its list is still to come.
Unread(s) ==
    /\ s.session.isSnapshotOwed
    /\ ~(Reading(s) /\ s.session.read.isSnapshot /\ s.session.read.listed)

\* A uuid is the store's when what was read of it is, or else the drawing, but
\* for the events still to come; or it will be read, or is about to be.
Known(s, ahead, u, now) ==
    IF Reading(s) /\ Answer(s, u).state = "loaded"
    THEN Current(Answer(s, u).t, Coming(s), u, now)
    ELSE \/ u \in s.dirtyUUIDs \/ Unread(s)
         \/ Reading(s) /\ Answer(s, u).state \in {"sent", "failed"}
         \/ Follows(s.entities[u], ahead \o Coming(s), u, now)

AllCached(s) == \A u \in UUIDs : Cached(s.entities[u])

\* A snapshot runs for one that is owed, only what was listed is asked for, and
\* a fetch of single transforms holds back the events of what it asks for.
ReadInOrder(s) ==
    Reading(s) =>
        LET read == s.session.read
        IN /\ read.isSnapshot => s.session.isSnapshotOwed
           /\ ~read.listed => \A u \in UUIDs : read.got[u].state = "unasked"
           /\ ~read.isSnapshot =>
                \A u \in UUIDs : read.got[u].state # "unasked" => u \in read.uuids

HeardInOrder(s, ahead, held, gaps) ==
    Heard(s) =>
        /\ s.session.stream = "opening" => ahead = <<>> /\ Coming(s) = <<>>
        /\ \A u \in UUIDs : InOrder(ahead \o Coming(s), u, held[u])
        /\ \A u \in UUIDs \ gaps : Known(s, ahead, u, held[u])

Mirrored(s, ahead, held, gaps) ==
    AllCached(s) /\ ReadInOrder(s) /\ HeardInOrder(s, ahead, held, gaps)

MirrorInv == Mirrored(sync, batch, store, missed)

\* Drawings that look the same, and what else is not the mirror's.
LEMMA MirroredAlike ==
  ASSUME NEW s, NEW t, NEW ahead, NEW held, NEW gaps,
         t.session = s.session, t.pendingEvents = s.pendingEvents,
         t.dirtyUUIDs = s.dirtyUUIDs,
         \A u \in UUIDs : SameLook(s.entities[u], t.entities[u]),
         Mirrored(s, ahead, held, gaps)
  PROVE  Mirrored(t, ahead, held, gaps)
<1>1. AllCached(t) BY LooksSame DEF Mirrored, AllCached
<1>2. ReadInOrder(t) BY DEF Mirrored, ReadInOrder, Reading
<1>3. ASSUME NEW u \in UUIDs, NEW now, Known(s, ahead, u, now)
      PROVE  Known(t, ahead, u, now)
  <2>1. \A q : Follows(s.entities[u], q, u, now) => Follows(t.entities[u], q, u, now)
    BY LookFollows
  <2> QED BY <1>3, <2>1 DEF Known, Unread, Reading, Answer, Coming
<1>4. HeardInOrder(t, ahead, held, gaps)
  BY <1>3 DEF Mirrored, HeardInOrder, Heard, Coming
<1> QED BY <1>1, <1>2, <1>4 DEF Mirrored

\* A read begins: of a snapshot that is owed, or of what is owed on its own.
LEMMA MirroredBegun ==
  ASSUME NEW s, NEW t, NEW r \in ReadType, NEW ahead, NEW held, NEW gaps,
         s.session # Absent, s.session \in SessionType, s.session.read = Absent,
         t.session = [s.session EXCEPT !.read = r], t.entities = s.entities,
         t.pendingEvents = s.pendingEvents,
         \/ /\ s.session.isSnapshotOwed /\ r.isSnapshot /\ ~r.listed /\ r.got = Unasked
            /\ t.dirtyUUIDs = s.dirtyUUIDs
         \/ /\ ~r.isSnapshot /\ r.listed /\ r.uuids = s.dirtyUUIDs
            /\ r.got = Asked(s.dirtyUUIDs) /\ t.dirtyUUIDs = {},
         Mirrored(s, ahead, held, gaps)
  PROVE  Mirrored(t, ahead, held, gaps)
<1>1. /\ t.session.read = r /\ t.session \in SessionType
      /\ t.session.wire = s.session.wire /\ t.session.stream = s.session.stream
      /\ t.session.isSnapshotOwed = s.session.isSnapshotOwed
  BY DEF SessionType
<1>2. t.session # Absent /\ r # Absent /\ Reading(t) /\ ~Reading(s)
  BY <1>1, SessionsDiffer DEF Reading
<1>3. /\ \A u \in UUIDs : Unasked[u].state = "unasked"
      /\ \A u \in UUIDs : Asked(s.dirtyUUIDs)[u].state =
                             IF u \in s.dirtyUUIDs THEN "sent" ELSE "unasked"
  BY DEF Unasked, Asked
<1>4. AllCached(t) BY DEF Mirrored, AllCached
<1>5. ReadInOrder(t) BY <1>1, <1>3 DEF ReadInOrder
<1>6. Coming(t) = Coming(s) BY <1>1 DEF Coming
<1>7. ASSUME NEW u \in UUIDs, NEW now, Known(s, ahead, u, now)
      PROVE  Known(t, ahead, u, now)
  <2>1. \/ u \in s.dirtyUUIDs \/ s.session.isSnapshotOwed
        \/ Follows(s.entities[u], ahead \o Coming(s), u, now)
    BY <1>2, <1>7 DEF Known, Unread
  <2>2. CASE r.isSnapshot
    <3>1. Unread(t) /\ Answer(t, u).state = "unasked"
      BY <1>1, <1>3, <2>2 DEF Unread, Answer
    <3> QED BY <3>1 DEF Known
  <2>3. CASE ~r.isSnapshot
    <3>1. Answer(t, u).state = IF u \in s.dirtyUUIDs THEN "sent" ELSE "unasked"
      BY <1>1, <1>3, <2>3 DEF Answer
    <3>2. s.session.isSnapshotOwed => Unread(t) BY <1>1, <2>3 DEF Unread
    <3> QED BY <1>2, <1>6, <2>1, <3>1, <3>2 DEF Known
  <2> QED BY <2>2, <2>3
<1>8. HeardInOrder(t, ahead, held, gaps)
  BY <1>1, <1>2, <1>6, <1>7 DEF Mirrored, HeardInOrder, Heard
<1> QED BY <1>4, <1>5, <1>8 DEF Mirrored

\* Without a session there is nothing to be in order but the caches.
LEMMA MirroredClosed ==
  ASSUME NEW s \in SyncType, AllCached(s), NEW ahead, NEW held, NEW gaps
  PROVE  Mirrored(close(s), ahead, held, gaps)
BY CloseEffect DEF Mirrored, AllCached, ReadInOrder, Reading, HeardInOrder, Heard

\* A new session has heard nothing, and its snapshot is still to be listed.
LEMMA MirroredOpened ==
  ASSUME NEW s \in SyncType, AllCached(s), NEW held, NEW gaps
  PROVE  Mirrored(open(s), <<>>, held, gaps)
<1> DEFINE c == close(s)
           r == SnapshotRead(s)
           session == [NewSession EXCEPT !.read = r]
           drawn == IF s.rebuildSeq # s.drawnRebuildSeq THEN c.entities
                    ELSE [uuid \in UUIDs |-> Resumed(c.entities[uuid])]
           o == [c EXCEPT !.session = session, !.entities = drawn]
<1>1. CASE ~s.client
  <2>1. open(s) = c BY <1>1 DEF open
  <2> QED BY <2>1, MirroredClosed
<1>2. CASE s.client
  <2>1. open(s) = o BY <1>2 DEF open
  <2>2. /\ session \in SessionType /\ session.isSnapshotOwed /\ session.read = r
        /\ r \in ReadType /\ r.isSnapshot /\ ~r.listed
    BY SnapshotReadTyped, NewSessionTyped
  <2>3. session.wire = <<>> BY DEF NewSession
  <2>4. r.got = Unasked BY DEF SnapshotRead
  <2>5. c \in SyncType /\ c.pendingEvents = <<>> /\ c.entities = s.entities
    BY CloseEffect
  <2>6. \A u \in UUIDs : Cached(drawn[u])
    <3> HIDE DEF c
    <3>1. \A u \in UUIDs : c.entities[u] \in DrawnType \cup {Absent} BY <2>5 DEF SyncType
    <3>2. \A u \in UUIDs : Cached(c.entities[u]) /\ Cached(Resumed(c.entities[u]))
      BY <2>5, <3>1, PulledSame, LooksSame DEF AllCached
    <3> QED BY <3>2
  <2> HIDE DEF c, r, session, drawn
  <2>7. /\ o.session = session /\ o.entities = drawn /\ o.pendingEvents = <<>>
    BY <2>5 DEF SyncType
  <2> HIDE DEF o
  <2>8. session # Absent /\ r # Absent BY <2>2, SessionsDiffer
  <2>9. Coming(o) = <<>> /\ <<>> \o Coming(o) = <<>> BY <2>3, <2>7 DEF Coming
  <2>10. \A u \in UUIDs : Answer(o, u).state = "unasked"
    BY <2>2, <2>4, <2>7 DEF Answer, Unasked
  <2>11. Unread(o) BY <2>2, <2>7 DEF Unread
  <2>12. \A u, now : InOrder(<<>>, u, now) BY DEF InOrder, About
  <2>13. AllCached(o) BY <2>6, <2>7 DEF AllCached
  <2>14. ReadInOrder(o) BY <2>2, <2>7, <2>10 DEF ReadInOrder, Answer
  <2>15. HeardInOrder(o, <<>>, held, gaps)
    BY <2>9, <2>10, <2>11, <2>12 DEF HeardInOrder, Known
  <2> QED BY <2>1, <2>13, <2>14, <2>15 DEF Mirrored
<1> QED BY <1>1, <1>2

LEMMA MirroredResync ==
  ASSUME NEW s \in SyncType, NEW ahead, NEW held, NEW gaps, Mirrored(s, ahead, held, gaps),
         \/ ahead = <<>>
         \/ s.client => s.session # Absent /\ s.session.isStreamOpen
  PROVE  Mirrored(resync(s), ahead, held, gaps)
<1>1. CASE s.client /\ (s.session = Absent \/ ~s.session.isStreamOpen)
  <2>1. resync(s) = open(s) BY <1>1 DEF resync
  <2>2. ahead = <<>> BY <1>1
  <2>3. AllCached(s) BY DEF Mirrored
  <2> QED BY <2>1, <2>2, <2>3, MirroredOpened
<1>2. CASE /\ s.client /\ ~(s.session = Absent \/ ~s.session.isStreamOpen)
           /\ s.session.read = Absent /\ s.session.isSnapshotOwed
  <2> DEFINE r == SnapshotRead(s)
             session == [s.session EXCEPT !.read = r]
             t == [s EXCEPT !.session = session]
  <2>1. resync(s) = t BY <1>2 DEF resync
  <2>2. r \in ReadType /\ ~r.listed /\ r.isSnapshot /\ r.got = Unasked
    BY SnapshotReadTyped DEF SnapshotRead
  <2> HIDE DEF r
  <2>3. s.session \in SessionType BY <1>2 DEF SyncType
  <2>4. /\ t.session = session /\ t.entities = s.entities
        /\ t.pendingEvents = s.pendingEvents /\ t.dirtyUUIDs = s.dirtyUUIDs
    <3> HIDE DEF session
    <3> QED BY DEF SyncType
  <2> HIDE DEF t
  <2> QED BY <1>2, <2>1, <2>2, <2>3, <2>4, MirroredBegun
<1>3. CASE /\ s.client /\ ~(s.session = Absent \/ ~s.session.isStreamOpen)
           /\ s.session.read = Absent /\ ~s.session.isSnapshotOwed
           /\ s.dirtyUUIDs # {}
  <2> DEFINE r == DirtyRead(s)
             session == [s.session EXCEPT !.read = r]
             t == [s EXCEPT !.session = session, !.dirtyUUIDs = {}]
  <2>1. resync(s) = t BY <1>3 DEF resync
  <2>2. /\ r \in ReadType /\ r.listed /\ ~r.isSnapshot /\ r.uuids = s.dirtyUUIDs
        /\ r.got = Asked(s.dirtyUUIDs)
    BY DirtyReadTyped DEF DirtyRead
  <2> HIDE DEF r
  <2>3. s.session \in SessionType BY <1>3 DEF SyncType
  <2>4. /\ t.session = session /\ t.entities = s.entities
        /\ t.pendingEvents = s.pendingEvents /\ t.dirtyUUIDs = {}
    <3> HIDE DEF session
    <3> QED BY DEF SyncType
  <2> HIDE DEF t
  <2> QED BY <1>3, <2>1, <2>2, <2>3, <2>4, MirroredBegun
<1>4. CASE \/ ~s.client
           \/ /\ ~(s.session = Absent \/ ~s.session.isStreamOpen)
              /\ \/ s.session.read # Absent
                 \/ ~s.session.isSnapshotOwed /\ s.dirtyUUIDs = {}
  <2>1. resync(s) = s BY <1>4 DEF resync
  <2> QED BY <2>1
<1> QED BY <1>1, <1>2, <1>3, <1>4

\* What follows a read keeps the mirror, if dropping the read does.
LEMMA MirroredFinally ==
  ASSUME NEW s \in SyncType, NEW session \in SessionType, NEW held, NEW gaps,
         session = [s.session EXCEPT !.read = Absent],
         Mirrored([s EXCEPT !.session = session], <<>>, held, gaps)
  PROVE  Mirrored(finally(s), <<>>, held, gaps)
<1> DEFINE free == [s EXCEPT !.session = session]
           flushing == IF free.pendingEvents # <<>> THEN scheduleFlush(free) ELSE free
<1>1. finally(s) = IF flushing.retryTimer THEN flushing ELSE resync(flushing)
  BY DEF finally
<1>2. free \in SyncType /\ Mirrored(free, <<>>, held, gaps) BY DEF SyncType
<1> HIDE DEF free
<1>3. flushing \in SyncType /\ Mirrored(flushing, <<>>, held, gaps)
  <2>1. SameScene(free, flushing) BY <1>2, FlushAlike DEF SameScene
  <2>2. flushing \in SyncType /\ flushing.dirtyUUIDs = free.dirtyUUIDs
    BY <1>2, FlushEffect
  <2> HIDE DEF flushing
  <2>3. \A u \in UUIDs : SameLook(free.entities[u], flushing.entities[u])
    BY <2>1 DEF SameScene, SameLook
  <2> QED BY <1>2, <2>1, <2>2, <2>3, MirroredAlike DEF SameScene
<1> HIDE DEF flushing
<1>4. Mirrored(resync(flushing), <<>>, held, gaps) BY <1>3, MirroredResync
<1> QED BY <1>1, <1>3, <1>4

\* What a flush finds to fetch opens no session: a stream that has ended waits
\* for the timer.
LEMMA MirroredDirty ==
  ASSUME NEW s \in SyncType, NEW uuid \in UUIDs, NEW ahead, NEW held, NEW gaps, Driven(s),
         NEW dirty \in SUBSET UUIDs, dirty = s.dirtyUUIDs \cup {uuid},
         Mirrored([s EXCEPT !.dirtyUUIDs = dirty], ahead, held, gaps)
  PROVE  Mirrored(markDirty(s, uuid), ahead, held, gaps)
<1> DEFINE owing == [s EXCEPT !.dirtyUUIDs = dirty]
<1>1. markDirty(s, uuid) = IF s.retryTimer THEN owing ELSE resync(owing)
  BY DEF markDirty
<1>2. /\ owing \in SyncType /\ owing.client = s.client /\ owing.session = s.session
      /\ owing.retryTimer = s.retryTimer
  BY DEF SyncType
<1> HIDE DEF owing
<1>3. ~s.retryTimer /\ owing.client => owing.session # Absent /\ owing.session.isStreamOpen
  BY <1>2 DEF Driven
<1>4. Mirrored(owing, ahead, held, gaps) BY DEF owing
<1>5. ~s.retryTimer => Mirrored(resync(owing), ahead, held, gaps)
  BY <1>2, <1>3, <1>4, MirroredResync
<1> QED BY <1>1, <1>4, <1>5

LEMMA RebuildLooks ==
  ASSUME NEW s \in SyncType, NEW ahead, NEW held, NEW gaps, Mirrored(s, ahead, held, gaps)
  PROVE  Mirrored(requestRebuild(s), ahead, held, gaps)
<1> DEFINE t == requestRebuild(s)
<1>1. /\ t \in SyncType /\ t.session = s.session /\ t.pendingEvents = s.pendingEvents
      /\ t.dirtyUUIDs = s.dirtyUUIDs
  BY RebuildEffect
<1>2. t.entities = [uuid \in UUIDs |-> Stopped(s.entities[uuid])]
  BY DEF requestRebuild, SyncType
<1>3. \A u \in UUIDs : SameLook(s.entities[u], t.entities[u])
  BY <1>2, PulledSame DEF SyncType
<1> HIDE DEF t
<1>4. Mirrored(t, ahead, held, gaps) BY <1>1, <1>3, MirroredAlike
<1> QED BY <1>4 DEF t

---------------------------------------------------------------------------
(* Each action keeps the mirror.                                           *)

LEMMA EventsAssociate ==
  \A x, y, z \in Seq(EventType) : x \o (y \o z) = (x \o y) \o z
<1> DEFINE events == EventType
<1> HIDE DEF events
<1>1. \A x, y, z \in Seq(events) : (x \o y) \o z = x \o (y \o z)
  BY ConcatAssociative
<1> QED BY <1>1 DEF events

LEMMA EventAtTheEnd ==
  \A x \in Seq(EventType) : \A e \in EventType :
     <<e>> \in Seq(EventType) /\ Append(x, e) = x \o <<e>>
BY AppendIsConcat

LEMMA EventsTyped == \A x, y \in Seq(EventType) : x \o y \in Seq(EventType)
BY ConcatProperties

\* One more event at the far end of the wire is one more in the queue.
LEMMA WireLonger ==
  ASSUME NEW a \in Seq(EventType), NEW p \in Seq(EventType), NEW w \in Seq(EventType),
         NEW e \in EventType
  PROVE  /\ p \o Append(w, e) = Append(p \o w, e)
         /\ a \o (p \o Append(w, e)) = Append(a \o (p \o w), e)
         /\ p \o w \in Seq(EventType) /\ a \o (p \o w) \in Seq(EventType)
<1>1. \A x, y \in Seq(EventType) : x \o Append(y, e) = Append(x \o y, e)
  <2> SUFFICES ASSUME NEW x \in Seq(EventType), NEW y \in Seq(EventType)
               PROVE  x \o Append(y, e) = Append(x \o y, e)
    OBVIOUS
  <2>1. Append(y, e) = y \o <<e>> /\ <<e>> \in Seq(EventType)
    BY EventAtTheEnd, Zenon
  <2>2. Append(x \o y, e) = (x \o y) \o <<e>> BY EventAtTheEnd, EventsTyped, Zenon
  <2>3. x \o (y \o <<e>>) = (x \o y) \o <<e>>
    <3>1. \A z \in Seq(EventType) : x \o (y \o z) = (x \o y) \o z BY EventsAssociate, Zenon
    <3> QED BY <2>1, <3>1, Zenon
  <2> QED BY <2>1, <2>2, <2>3, Zenon
<1>2. p \o w \in Seq(EventType) /\ a \o (p \o w) \in Seq(EventType)
  BY EventsTyped, Zenon
<1> QED BY <1>1, <1>2, Zenon

LEMMA PublishMirrored ==
  ASSUME Inv, MirrorInv, NEW e \in EventType, Publish(e),
         Tells(e, store[e.uuid], store'[e.uuid])
  PROVE  MirrorInv'
<1>1. /\ sync \in SyncType /\ batch \in Seq(EventType) /\ e.uuid \in UUIDs
      /\ sync.pendingEvents \in Seq(EventType) /\ batch' = batch
      /\ AllCached(sync) /\ ReadInOrder(sync) /\ HeardInOrder(sync, batch, store, missed)
      /\ \A u \in UUIDs : u # e.uuid => store'[u] = store[u]
  BY DEF Publish, Inv, TypeOK, SyncType, EventType, MirrorInv, Mirrored
<1>2. CASE StreamIs("live")
  <2> DEFINE wire == Append(sync.session.wire, e)
             session == [sync.session EXCEPT !.wire = wire]
             put == [sync EXCEPT !.session = session]
  <2>1. /\ sync.session # Absent /\ sync.session \in SessionType
        /\ sync.session.wire \in Seq(EventType) /\ sync.session.stream = "live"
    BY <1>1, <1>2 DEF StreamIs, SyncType, SessionType
  <2>2. sync' = put /\ missed' = missed BY <1>2 DEF Publish
  <2>3. wire \in Seq(EventType) BY <2>1, AppendProperties
  <2> HIDE DEF wire
  <2>4. /\ session \in SessionType /\ session.wire = wire
        /\ session.read = sync.session.read /\ session.stream = sync.session.stream
        /\ session.isSnapshotOwed = sync.session.isSnapshotOwed
    BY <2>1, <2>3 DEF SessionType
  <2> HIDE DEF session
  <2>5. /\ put.session = session /\ put.entities = sync.entities
        /\ put.pendingEvents = sync.pendingEvents /\ put.dirtyUUIDs = sync.dirtyUUIDs
    BY <1>1 DEF SyncType
  <2> HIDE DEF put
  <2>6. session # Absent BY <2>4, SessionsDiffer
  <2>7. /\ Heard(sync) /\ (Reading(put) <=> Reading(sync))
        /\ \A u : Answer(put, u) = Answer(sync, u)
        /\ Unread(put) <=> Unread(sync)
    BY <2>1, <2>4, <2>5, <2>6 DEF Heard, Reading, Answer, Unread
  <2>8. AllCached(put) /\ ReadInOrder(put)
    BY <1>1, <2>4, <2>5, <2>7 DEF AllCached, ReadInOrder
  <2> DEFINE c == Coming(sync)
             q == batch \o Coming(sync)
  <2>9. /\ Coming(put) = Append(c, e) /\ batch \o Coming(put) = Append(q, e)
        /\ c \in Seq(EventType) /\ q \in Seq(EventType)
    <3> DEFINE p == sync.pendingEvents
               w == sync.session.wire
    <3>1. Coming(sync) = p \o w /\ Coming(put) = p \o Append(w, e)
      BY <2>4, <2>5 DEF Coming, wire
    <3>2. p \in Seq(EventType) /\ w \in Seq(EventType) BY <1>1, <2>1
    <3> HIDE DEF p, w
    <3>3. /\ p \o Append(w, e) = Append(p \o w, e)
          /\ batch \o (p \o Append(w, e)) = Append(batch \o (p \o w), e)
          /\ p \o w \in Seq(EventType) /\ batch \o (p \o w) \in Seq(EventType)
      BY <1>1, <3>2, WireLonger
    <3> QED BY <3>1, <3>3
  <2> HIDE DEF c, q
  <2>10. ASSUME NEW u \in UUIDs
         PROVE  /\ InOrder(Append(q, e), u, store'[u])
                /\ u \notin missed => Known(put, batch, u, store'[u])
    <3>1. /\ InOrder(q, u, store[u])
          /\ u \notin missed => Known(sync, batch, u, store[u])
      BY <1>1, <2>7 DEF HeardInOrder, q
    <3>2. /\ InOrder(Append(q, e), u, store'[u])
          /\ \A t : Current(t, c, u, store[u]) => Current(t, Append(c, e), u, store'[u])
          /\ \A d : Follows(d, q, u, store[u]) => Follows(d, Append(q, e), u, store'[u])
      <4>1. CASE e.uuid = u BY <2>9, <3>1, <4>1, AppendInOrder, AppendView
      <4>2. CASE e.uuid # u
        <5>1. store'[u] = store[u] BY <1>1, <4>2
        <5>2. SameEvents(Append(q, e), q, u) /\ SameEvents(Append(c, e), c, u)
          BY <2>9, <4>2, AppendSame
        <5>3. Append(q, e) \in Seq(EventType) BY <2>9, AppendProperties
        <5>4. InOrder(Append(q, e), u, store[u])
          BY <2>9, <3>1, <5>2, <5>3, SameAreLast, LastInOrder
        <5> QED BY <5>1, <5>2, <5>4, SameView
      <4> QED BY <4>1, <4>2
    <3>3. ASSUME u \notin missed PROVE Known(put, batch, u, store'[u])
      BY <2>5, <2>7, <2>9, <3>1, <3>2, <3>3 DEF Known, c, q
    <3> QED BY <3>2, <3>3
  <2>11. HeardInOrder(put, batch, store', missed)
    BY <2>1, <2>4, <2>5, <2>9, <2>10 DEF HeardInOrder
  <2> QED BY <1>1, <2>2, <2>8, <2>11 DEF MirrorInv, Mirrored
<1>3. CASE ~StreamIs("live")
  <2>1. sync' = sync /\ missed' = missed \cup {e.uuid} BY <1>3 DEF Publish
  <2>2. Heard(sync) => sync.session.stream = "opening" BY <1>3 DEF Heard, StreamIs
  <2>3. Heard(sync) => batch = <<>> /\ Coming(sync) = <<>> /\ batch \o Coming(sync) = <<>>
    <3>1. Heard(sync) => batch = <<>> /\ Coming(sync) = <<>>
      BY <1>1, <2>2 DEF HeardInOrder
    <3>2. <<>> \o <<>> = <<>> OBVIOUS
    <3> QED BY <3>1, <3>2
  <2>4. \A u, now : InOrder(<<>>, u, now) BY DEF InOrder, About
  <2>5. HeardInOrder(sync, batch, store', missed')
    BY <1>1, <2>1, <2>3, <2>4 DEF HeardInOrder
  <2> QED BY <1>1, <2>1, <2>5 DEF MirrorInv, Mirrored
<1> QED BY <1>2, <1>3

LEMMA ChangesMirrored ==
  ASSUME Inv, MirrorInv, NEW uuid \in UUIDs,
         StoreAdds(uuid) \/ StoreRemoves(uuid) \/ StoreUpdates(uuid)
  PROVE  MirrorInv'
<1>1. /\ store \in [UUIDs -> TransformType \cup {Absent}]
      /\ \A t \in TransformType : t # Absent
      /\ \A t \in Transforms : t \in TransformType
  BY TransformsAssumption DEF Inv, TypeOK
<1>2. \A type \in {"ADDED", "REMOVED", "UPDATED"}, t \in TransformType, paths \in SUBSET Parts :
         /\ Event(type, uuid, t, paths) \in EventType
         /\ Event(type, uuid, t, paths).uuid = uuid /\ Event(type, uuid, t, paths).t = t
         /\ Event(type, uuid, t, paths).type = type
         /\ Event(type, uuid, t, paths).paths = paths
  BY DEF Event, EventType, Inv, TypeOK, Parts
<1>3. \A e : Publish(e) /\ e.uuid = uuid =>
         store'[uuid] = IF e.type = "REMOVED" THEN Absent ELSE e.t
  BY <1>1 DEF Publish
<1>4. {} \in SUBSET Parts OBVIOUS
<1>5. CASE StoreAdds(uuid)
  <2>1. PICK t \in Transforms : Publish(Event("ADDED", uuid, t, {})) BY <1>5 DEF StoreAdds
  <2> DEFINE e == Event("ADDED", uuid, t, {})
  <2>2. e \in EventType /\ e.uuid = uuid /\ e.t = t /\ e.type = "ADDED" BY <1>1, <1>2, <1>4
  <2> HIDE DEF e
  <2>3. Publish(e) BY <2>1 DEF e
  <2>4. store[uuid] = Absent /\ store'[uuid] = t /\ t # Absent
    BY <1>1, <1>3, <1>5, <2>2, <2>3 DEF StoreAdds
  <2>5. Tells(e, store[uuid], store'[uuid]) BY <2>2, <2>4 DEF Tells
  <2> QED BY <2>2, <2>3, <2>5, PublishMirrored
<1>6. CASE StoreRemoves(uuid)
  <2> DEFINE e == Event("REMOVED", uuid, store[uuid], {})
  <2>1. store[uuid] # Absent /\ store[uuid] \in TransformType
    BY <1>1, <1>6 DEF StoreRemoves
  <2>2. e \in EventType /\ e.uuid = uuid /\ e.type = "REMOVED" BY <1>2, <1>4, <2>1
  <2>3. Publish(e) BY <1>6 DEF StoreRemoves
  <2> HIDE DEF e
  <2>4. store'[uuid] = Absent BY <1>3, <2>2, <2>3
  <2>5. Tells(e, store[uuid], store'[uuid]) BY <2>1, <2>2, <2>4 DEF Tells
  <2> QED BY <2>2, <2>3, <2>5, PublishMirrored
<1>7. CASE StoreUpdates(uuid)
  <2>1. PICK t \in Transforms :
           /\ t.name = store[uuid].name /\ t.chunks = store[uuid].chunks
           /\ Publish(Event("UPDATED", uuid, t, Changed(store[uuid], t)))
    BY <1>7 DEF StoreUpdates
  <2> DEFINE paths == Changed(store[uuid], t)
             e == Event("UPDATED", uuid, t, paths)
  <2>2. paths \in SUBSET Parts BY DEF Changed, Parts
  <2>3. \A f \in Parts : f \notin paths => SamePart(f, t, store[uuid])
    BY DEF Changed, Parts, SamePart
  <2> HIDE DEF paths
  <2>4. /\ e \in EventType /\ e.uuid = uuid /\ e.t = t /\ e.type = "UPDATED"
        /\ e.paths = paths
    BY <1>1, <1>2, <2>2
  <2>5. Publish(e) BY <2>1 DEF paths
  <2> HIDE DEF e
  <2>6. store[uuid] # Absent /\ store'[uuid] = t /\ t # Absent
    BY <1>1, <1>3, <1>7, <2>4, <2>5 DEF StoreUpdates
  <2>7. Tells(e, store[uuid], store'[uuid])
    BY <2>1, <2>3, <2>4, <2>6 DEF Tells, SameNature
  <2> QED BY <2>4, <2>5, <2>7, PublishMirrored
<1> QED BY <1>5, <1>6, <1>7

LEMMA RebuiltMirrored ==
  ASSUME Inv, MirrorInv, StoreRebuilt
  PROVE  MirrorInv'
<1>1. /\ sync \in SyncType /\ batch' = batch /\ missed' = UUIDs
      /\ AllCached(sync) /\ ReadInOrder(sync) /\ HeardInOrder(sync, batch, store, missed)
  BY DEF StoreRebuilt, Inv, TypeOK, MirrorInv, Mirrored
<1>2. CASE /\ StreamIs("opening") \/ StreamIs("live")
           /\ sync' = [sync EXCEPT !.session.stream = "broken"]
  <2> DEFINE session == [sync.session EXCEPT !.stream = "broken"]
             put == [sync EXCEPT !.session = session]
  <2>1. sync' = put BY <1>2
  <2>2. sync.session # Absent /\ sync.session \in SessionType
    BY <1>1, <1>2 DEF StreamIs, SyncType
  <2>3. /\ session \in SessionType /\ session.stream = "broken"
        /\ session.read = sync.session.read
        /\ session.isSnapshotOwed = sync.session.isSnapshotOwed
    BY <2>2 DEF SessionType
  <2> HIDE DEF session
  <2>4. put.session = session /\ put.entities = sync.entities BY <1>1 DEF SyncType
  <2> HIDE DEF put
  <2>5. AllCached(put) /\ ReadInOrder(put)
    BY <1>1, <2>2, <2>3, <2>4, SessionsDiffer DEF AllCached, ReadInOrder, Reading
  <2>6. ~Heard(put) BY <2>3, <2>4 DEF Heard
  <2> QED BY <2>1, <2>5, <2>6 DEF MirrorInv, Mirrored, HeardInOrder
<1>3. CASE ~StreamIs("live") /\ UNCHANGED sync
  <2>1. Heard(sync) => sync.session.stream = "opening" BY <1>3 DEF Heard, StreamIs
  <2>2. Heard(sync) => batch = <<>> /\ Coming(sync) = <<>> BY <1>1, <2>1 DEF HeardInOrder
  <2>3. <<>> \o <<>> = <<>> OBVIOUS
  <2>4. \A u, now : InOrder(<<>>, u, now) BY DEF InOrder, About
  <2>5. HeardInOrder(sync, batch, store', missed')
    BY <1>1, <2>2, <2>3, <2>4 DEF HeardInOrder
  <2> QED BY <1>1, <1>3, <2>5 DEF MirrorInv, Mirrored
<1> QED BY <1>2, <1>3 DEF StoreRebuilt

LEMMA UpdateMirrored ==
  ASSUME Inv, MirrorInv, NEW client \in BOOLEAN, NEW isNewClient \in BOOLEAN,
         NEW generation \in 0..MaxInstances, Idle,
         Update(client, isNewClient, generation)
  PROVE  MirrorInv'
<1> DEFINE isRebuild == /\ generation # 0 /\ sync.lastGeneration # 0
                        /\ generation # sync.lastGeneration
           known == IF generation = 0 THEN sync.lastGeneration ELSE generation
           told == [sync EXCEPT !.client = client, !.lastGeneration = known]
           owing == IF isRebuild THEN requestRebuild(told) ELSE told
<1>1. sync' = IF ~client THEN close(owing)
              ELSE IF isRebuild \/ isNewClient THEN open(owing) ELSE owing
  BY DEF Update
<1>2. /\ sync \in SyncType /\ batch = <<>> /\ UNCHANGED <<store, batch, missed>>
      /\ Mirrored(sync, batch, store, missed)
  BY DEF Update, Idle, Inv, TypeOK, MirrorInv
<1>3. known \in 0..MaxInstances BY <1>2 DEF SyncType
<1> HIDE DEF known
<1>4. /\ told \in SyncType /\ told.session = sync.session /\ told.entities = sync.entities
      /\ told.pendingEvents = sync.pendingEvents /\ told.dirtyUUIDs = sync.dirtyUUIDs
  BY <1>2, <1>3 DEF SyncType
<1> HIDE DEF told
<1>5. Mirrored(told, batch, store, missed)
  <2>1. \A u \in UUIDs : SameLook(sync.entities[u], told.entities[u])
    BY <1>4 DEF SameLook
  <2> QED BY <1>2, <1>4, <2>1, MirroredAlike
<1> HIDE DEF isRebuild
<1>6. owing \in SyncType /\ Mirrored(owing, batch, store, missed)
  BY <1>4, <1>5, RebuildEffect, RebuildLooks
<1> HIDE DEF owing
<1>7. AllCached(owing) BY <1>6 DEF Mirrored
<1>8. /\ Mirrored(close(owing), batch, store, missed)
      /\ Mirrored(open(owing), batch, store, missed)
  BY <1>2, <1>6, <1>7, MirroredClosed, MirroredOpened
<1>9. Mirrored(sync', batch, store, missed) BY <1>1, <1>6, <1>8
<1> QED BY <1>2, <1>9 DEF MirrorInv

LEMMA ReportsMirrored ==
  ASSUME Inv, MirrorInv, StatusReported \/ ClientArrives \/ ClientReplaced \/ ClientLost
  PROVE  MirrorInv'
<1>1. instance \in 0..MaxInstances /\ 0 \in 0..MaxInstances
  BY BoundsAssumption DEF Inv, TypeOK
<1> QED
  BY <1>1, UpdateMirrored DEF StatusReported, ClientArrives, ClientReplaced, ClientLost

LEMMA SubscribesMirrored ==
  ASSUME Inv, MirrorInv, StoreSubscribes \/ StreamRefused
  PROVE  MirrorInv'
<1>0. PICK state \in {"live", "closed"} : sync' = [sync EXCEPT !.session.stream = state]
  BY DEF StoreSubscribes, StreamRefused
<1> DEFINE session == [sync.session EXCEPT !.stream = state]
           put == [sync EXCEPT !.session = session]
<1>1. /\ sync \in SyncType /\ sync.session # Absent /\ sync.session \in SessionType
      /\ sync.session.stream = "opening" /\ sync' = put
      /\ UNCHANGED <<batch, store, missed>>
      /\ AllCached(sync) /\ ReadInOrder(sync) /\ HeardInOrder(sync, batch, store, missed)
  BY <1>0 DEF StoreSubscribes, StreamRefused, StreamIs, Inv, TypeOK, SyncType, MirrorInv,
              Mirrored
<1>2. /\ session \in SessionType /\ session.stream = state
      /\ session.read = sync.session.read /\ session.wire = sync.session.wire
      /\ session.isSnapshotOwed = sync.session.isSnapshotOwed
  BY <1>1 DEF SessionType
<1> HIDE DEF session
<1>3. /\ put.session = session /\ put.entities = sync.entities
      /\ put.pendingEvents = sync.pendingEvents /\ put.dirtyUUIDs = sync.dirtyUUIDs
  BY <1>1 DEF SyncType
<1> HIDE DEF put
<1>4. session # Absent BY <1>2, SessionsDiffer
<1>5. /\ Heard(sync) /\ (Reading(put) <=> Reading(sync)) /\ Coming(put) = Coming(sync)
      /\ \A u : Answer(put, u) = Answer(sync, u)
      /\ Unread(put) <=> Unread(sync)
  BY <1>1, <1>2, <1>3, <1>4 DEF Heard, Reading, Answer, Unread, Coming
<1>6. AllCached(put) /\ ReadInOrder(put)
  BY <1>1, <1>2, <1>3, <1>5 DEF AllCached, ReadInOrder
<1>7. HeardInOrder(put, batch, store, missed)
  BY <1>1, <1>2, <1>3, <1>5 DEF HeardInOrder, Known
<1> QED BY <1>1, <1>6, <1>7 DEF MirrorInv, Mirrored

\* An event that arrives moves from the wire to those that wait, behind them.
LEMMA ArrivesMirrored ==
  ASSUME Inv, MirrorInv, EventArrives
  PROVE  MirrorInv'
<1> DEFINE wire == Tail(sync.session.wire)
           session == [sync.session EXCEPT !.wire = wire]
           pending == Append(sync.pendingEvents, Head(sync.session.wire))
           heard == [sync EXCEPT !.session = session, !.pendingEvents = pending]
<1>1. /\ sync \in SyncType /\ sync.session # Absent /\ sync.session \in SessionType
      /\ sync.session.wire \in Seq(EventType) /\ sync.session.wire # <<>>
      /\ sync.pendingEvents \in Seq(EventType) /\ UNCHANGED <<batch, store, missed>>
      /\ AllCached(sync) /\ ReadInOrder(sync) /\ HeardInOrder(sync, batch, store, missed)
  BY DEF EventArrives, Inv, TypeOK, SyncType, SessionType, MirrorInv, Mirrored
<1>2. wire \in Seq(EventType) /\ pending \in Seq(EventType)
  <2>1. Head(sync.session.wire) \in EventType BY <1>1
  <2> QED BY <1>1, <2>1
<1>3. pending \o wire = sync.pendingEvents \o sync.session.wire
  <2> DEFINE p == sync.pendingEvents
             w == sync.session.wire
  <2>1. p \in Seq(EventType) /\ w \in Seq(EventType) /\ w # <<>> BY <1>1
  <2> HIDE DEF p, w
  <2>2. Head(w) \in EventType /\ Tail(w) \in Seq(EventType) /\ w = <<Head(w)>> \o Tail(w)
    BY <2>1
  <2>3. <<Head(w)>> \in Seq(EventType) BY <2>2
  <2>4. Append(p, Head(w)) = p \o <<Head(w)>> BY <2>1, <2>2, AppendIsConcat
  <2>5. (p \o <<Head(w)>>) \o Tail(w) = p \o (<<Head(w)>> \o Tail(w))
    BY <2>1, <2>2, <2>3, ConcatAssociative
  <2> QED BY <2>2, <2>4, <2>5 DEF p, w
<1>4. sync' = scheduleFlush(heard)
  <2>1. sync' = scheduleFlush([sync EXCEPT !.session.wire = Tail(@),
                   !.pendingEvents = Append(@, Head(sync.session.wire))])
    BY DEF EventArrives
  <2>2. [sync EXCEPT !.session.wire = Tail(@),
                   !.pendingEvents = Append(@, Head(sync.session.wire))] = heard
    OBVIOUS
  <2> QED BY <2>1, <2>2
<1> HIDE DEF wire, pending
<1>5. /\ session \in SessionType /\ session.read = sync.session.read
      /\ session.stream = sync.session.stream /\ session.wire = wire
      /\ session.isSnapshotOwed = sync.session.isSnapshotOwed
  BY <1>1, <1>2 DEF SessionType
<1> HIDE DEF session
<1>6. /\ heard \in SyncType /\ heard.session = session /\ heard.entities = sync.entities
      /\ heard.pendingEvents = pending /\ heard.dirtyUUIDs = sync.dirtyUUIDs
  BY <1>1, <1>2, <1>5 DEF SyncType
<1> HIDE DEF heard
<1>7. session # Absent BY <1>5, SessionsDiffer
<1>8. /\ (Heard(heard) <=> Heard(sync)) /\ (Reading(heard) <=> Reading(sync))
      /\ Coming(heard) = Coming(sync)
      /\ \A u : Answer(heard, u) = Answer(sync, u)
      /\ Unread(heard) <=> Unread(sync)
  BY <1>1, <1>3, <1>5, <1>6, <1>7 DEF Heard, Reading, Answer, Unread, Coming
<1>9. AllCached(heard) /\ ReadInOrder(heard)
  BY <1>1, <1>5, <1>6, <1>8 DEF AllCached, ReadInOrder
<1>10. HeardInOrder(heard, batch, store, missed)
  BY <1>1, <1>5, <1>6, <1>8 DEF HeardInOrder, Known
<1>11. Mirrored(heard, batch, store, missed) BY <1>9, <1>10 DEF Mirrored
<1>12. Mirrored(sync', batch, store, missed)
  <2>1. SameScene(heard, sync') /\ sync'.dirtyUUIDs = heard.dirtyUUIDs
    BY <1>4, <1>6, FlushAlike, FlushEffect
  <2>2. \A u \in UUIDs : SameLook(heard.entities[u], sync'.entities[u])
    BY <2>1 DEF SameScene, SameLook
  <2> QED BY <1>11, <2>1, <2>2, MirroredAlike DEF SameScene
<1> QED BY <1>1, <1>12 DEF MirrorInv

LEMMA StreamEndsMirrored ==
  ASSUME Inv, MirrorInv, StreamEnds
  PROVE  MirrorInv'
<1> DEFINE session == [sync.session EXCEPT !.isStreamOpen = FALSE, !.stream = "closed",
                                           !.wire = <<>>]
           ended == [sync EXCEPT !.session = session, !.retryTimer = TRUE]
<1>1. /\ sync \in SyncType /\ sync.session # Absent /\ sync.session \in SessionType
      /\ UNCHANGED <<batch, store, missed>> /\ AllCached(sync) /\ ReadInOrder(sync)
  BY DEF StreamEnds, Inv, TypeOK, SyncType, MirrorInv, Mirrored
<1>2. sync' = IF ended.lastGeneration = 0 THEN requestRebuild(ended) ELSE ended
  <2>1. [sync EXCEPT !.session.isStreamOpen = FALSE, !.session.stream = "closed",
                     !.session.wire = <<>>, !.retryTimer = TRUE] = ended
    BY <1>1 DEF SyncType, SessionType
  <2> QED BY <2>1 DEF StreamEnds
<1>3. /\ session \in SessionType /\ session.read = sync.session.read
      /\ session.stream = "closed"
      /\ session.isSnapshotOwed = sync.session.isSnapshotOwed
  <2>1. <<>> \in Seq(EventType) OBVIOUS
  <2> QED BY <1>1, <2>1 DEF SessionType
<1> HIDE DEF session
<1>4. ended \in SyncType /\ ended.session = session /\ ended.entities = sync.entities
  BY <1>1, <1>3 DEF SyncType
<1> HIDE DEF ended
<1>5. AllCached(ended) /\ ReadInOrder(ended)
  BY <1>1, <1>3, <1>4, SessionsDiffer DEF AllCached, ReadInOrder, Reading
<1>6. ~Heard(ended) BY <1>3, <1>4 DEF Heard
<1>7. Mirrored(ended, batch, store, missed) BY <1>5, <1>6 DEF Mirrored, HeardInOrder
<1>8. Mirrored(sync', batch, store, missed) BY <1>2, <1>4, <1>7, RebuildLooks
<1> QED BY <1>1, <1>8 DEF MirrorInv

\* A flush takes what need not wait ahead of what must: the events of each uuid
\* stay in their order, and those of a uuid that is fetched stay behind.
LEMMA FlushMirrored ==
  ASSUME Inv, MirrorInv, Flush
  PROVE  MirrorInv'
<1>1. /\ sync \in SyncType /\ sync.pendingEvents \in Seq(EventType) /\ batch = <<>>
      /\ sync.dirtyUUIDs \in SUBSET UUIDs /\ UNCHANGED <<store, missed>>
      /\ Mirrored(sync, batch, store, missed)
  BY DEF Flush, Idle, Inv, TypeOK, SyncType, MirrorInv
<1>2. CASE HoldsAll(sync)
  <2> DEFINE f == [sync EXCEPT !.flush = FALSE]
  <2>1. sync' = f /\ batch' = batch BY <1>2 DEF Flush
  <2>2. /\ f.session = sync.session /\ f.entities = sync.entities
        /\ f.pendingEvents = sync.pendingEvents /\ f.dirtyUUIDs = sync.dirtyUUIDs
    BY <1>1 DEF SyncType
  <2> HIDE DEF f
  <2>3. \A u \in UUIDs : SameLook(sync.entities[u], f.entities[u]) BY <2>2 DEF SameLook
  <2>4. Mirrored(f, batch, store, missed) BY <1>1, <2>2, <2>3, MirroredAlike
  <2> QED BY <1>1, <2>1, <2>4 DEF MirrorInv
<1>3. CASE ~HoldsAll(sync)
  <2> DEFINE held == Held(sync)
             due == EventsOf(sync.pendingEvents, UUIDs \ held)
             kept == EventsOf(sync.pendingEvents, held)
             wire == sync.session.wire
             f == [sync EXCEPT !.flush = FALSE, !.pendingEvents = kept]
  <2>1. sync' = f /\ batch' = due BY <1>3 DEF Flush
  <2>2. /\ due \in Seq(EventType) /\ kept \in Seq(EventType)
        /\ \A i \in DOMAIN due : \E k \in DOMAIN sync.pendingEvents : TRUE
        /\ \A i \in DOMAIN kept : \E k \in DOMAIN sync.pendingEvents : TRUE
    BY <1>1, EventsOfEffect
  <2>3. ASSUME sync.session # Absent
        PROVE  /\ wire \in Seq(EventType)
               /\ kept \o wire \in Seq(EventType) /\ due \o (kept \o wire) \in Seq(EventType)
               /\ sync.pendingEvents \o wire \in Seq(EventType)
               /\ batch \o Coming(sync) = Coming(sync)
               /\ Coming(sync) = sync.pendingEvents \o wire
               /\ \A u \in UUIDs :
                    /\ SameEvents(due \o (kept \o wire), Coming(sync), u)
                    /\ u \in held => SameEvents(kept \o wire, Coming(sync), u)
    <3>1. wire \in Seq(EventType) BY <1>1, <2>3 DEF SyncType, SessionType
    <3> HIDE DEF wire
    <3>2. /\ kept \o wire \in Seq(EventType)
          /\ sync.pendingEvents \o wire \in Seq(EventType)
      BY <1>1, <2>2, <3>1, ConcatProperties
    <3>3. due \o (kept \o wire) \in Seq(EventType) BY <2>2, <3>2, ConcatProperties
    <3>4. Coming(sync) = sync.pendingEvents \o wire BY DEF Coming, wire
    <3>5. <<>> \o Coming(sync) = Coming(sync) BY <3>2, <3>4, ConcatEmptySeq
    <3>6. \A u \in UUIDs :
            /\ SameEvents(due \o (kept \o wire), <<>> \o (sync.pendingEvents \o wire), u)
            /\ u \in held => SameEvents(kept \o wire, sync.pendingEvents \o wire, u)
      <4> HIDE DEF held
      <4> QED BY <1>1, <3>1, SplitSame
    <3> QED BY <1>1, <3>1, <3>2, <3>3, <3>4, <3>5, <3>6
  <2> HIDE DEF due, kept
  <2>4. /\ f.session = sync.session /\ f.entities = sync.entities
        /\ f.pendingEvents = kept /\ f.dirtyUUIDs = sync.dirtyUUIDs
    BY <1>1, <2>2 DEF SyncType
  <2> HIDE DEF f
  <2>5. /\ (Heard(f) <=> Heard(sync)) /\ (Reading(f) <=> Reading(sync))
        /\ Coming(f) = kept \o wire
        /\ \A u : Answer(f, u) = Answer(sync, u)
        /\ Unread(f) <=> Unread(sync)
    BY <2>4 DEF Heard, Reading, Answer, Unread, Coming
  <2>6. AllCached(f) /\ ReadInOrder(f)
    BY <1>1, <2>4, <2>5 DEF Mirrored, AllCached, ReadInOrder
  <2>7. ASSUME Heard(f), f.session.stream = "opening"
        PROVE  due = <<>> /\ Coming(f) = <<>>
    <3>1. Coming(sync) = <<>> BY <1>1, <2>4, <2>5, <2>7 DEF Mirrored, HeardInOrder
    <3>2. sync.session # Absent BY <2>5, <2>7 DEF Heard
    <3>3. sync.pendingEvents = <<>> /\ wire = <<>>
      <4> DEFINE p == sync.pendingEvents
      <4>1. p \in Seq(EventType) /\ wire \in Seq(EventType) /\ p \o wire = <<>>
        BY <1>1, <2>3, <3>1, <3>2
      <4> HIDE DEF p, wire
      <4>2. p = <<>> /\ wire = <<>> BY <4>1, ConcatEqualIffEmpty
      <4> QED BY <4>2 DEF p
    <3>4. DOMAIN due = {} /\ DOMAIN kept = {} BY <2>2, <3>3
    <3>5. due = <<>> /\ kept = <<>> BY <2>2, <3>4
    <3> QED BY <2>5, <3>3, <3>5
  <2>8. ASSUME Heard(f), NEW u \in UUIDs
        PROVE  /\ InOrder(due \o Coming(f), u, store[u])
               /\ u \notin missed => Known(f, due, u, store[u])
    <3>1. sync.session # Absent /\ Heard(sync) BY <2>5, <2>8 DEF Heard
    <3>2. /\ InOrder(batch \o Coming(sync), u, store[u])
          /\ u \notin missed => Known(sync, batch, u, store[u])
      BY <1>1, <3>1 DEF Mirrored, HeardInOrder
    <3> HIDE DEF held, wire
    <3>3. /\ SameEvents(due \o Coming(f), Coming(sync), u)
          /\ u \in held => SameEvents(Coming(f), Coming(sync), u)
          /\ due \o Coming(f) \in Seq(EventType) /\ Coming(sync) \in Seq(EventType)
          /\ batch \o Coming(sync) = Coming(sync)
      BY <2>3, <2>5, <3>1
    <3>4. InOrder(due \o Coming(f), u, store[u])
      BY <3>2, <3>3, SameAreLast, LastInOrder
    <3>5. ASSUME u \notin missed PROVE Known(f, due, u, store[u])
      <4>1. Known(sync, batch, u, store[u]) BY <3>2, <3>5
      <4>2. CASE Reading(sync) /\ Answer(sync, u).state = "loaded"
        <5>1. u \in held
          BY <1>1, <1>3, <4>2 DEF Mirrored, ReadInOrder, HoldsAll, Held, Answer, held
        <5>2. Current(Answer(sync, u).t, Coming(sync), u, store[u])
          BY <4>1, <4>2 DEF Known
        <5>3. Current(Answer(sync, u).t, Coming(f), u, store[u])
          BY <3>3, <5>1, <5>2, SameView
        <5> QED BY <2>5, <4>2, <5>3 DEF Known
      <4>3. CASE ~(Reading(sync) /\ Answer(sync, u).state = "loaded")
        <5>1. \A d : Follows(d, batch \o Coming(sync), u, store[u])
                       => Follows(d, due \o Coming(f), u, store[u])
          BY <3>3, SameView
        <5> QED BY <2>4, <2>5, <4>1, <4>3, <5>1 DEF Known
      <4> QED BY <4>2, <4>3
    <3> QED BY <3>4, <3>5
  <2>9. HeardInOrder(f, due, store, missed) BY <2>7, <2>8 DEF HeardInOrder
  <2>10. Mirrored(f, due, store, missed) BY <2>6, <2>9 DEF Mirrored
  <2> QED BY <1>1, <2>1, <2>10 DEF MirrorInv
<1> QED BY <1>2, <1>3

LEMMA RetryMirrored ==
  ASSUME Inv, MirrorInv, RetryFires
  PROVE  MirrorInv'
<1> DEFINE fired == [sync EXCEPT !.retryTimer = FALSE]
<1>1. /\ sync \in SyncType /\ batch = <<>> /\ sync' = resync(fired)
      /\ UNCHANGED <<batch, store, missed>> /\ Mirrored(sync, batch, store, missed)
  BY DEF RetryFires, Idle, Inv, TypeOK, MirrorInv
<1>2. /\ fired \in SyncType /\ fired.session = sync.session
      /\ fired.entities = sync.entities
      /\ fired.pendingEvents = sync.pendingEvents /\ fired.dirtyUUIDs = sync.dirtyUUIDs
  BY <1>1 DEF SyncType
<1> HIDE DEF fired
<1>3. \A u \in UUIDs : SameLook(sync.entities[u], fired.entities[u])
  BY <1>2 DEF SameLook
<1>4. Mirrored(fired, batch, store, missed) BY <1>1, <1>2, <1>3, MirroredAlike
<1>5. Mirrored(sync', batch, store, missed) BY <1>1, <1>2, <1>4, MirroredResync
<1> QED BY <1>1, <1>5 DEF MirrorInv

LEMMA ChunkMirrored ==
  ASSUME Inv, MirrorInv, NEW uuid \in UUIDs,
         ParseLands(uuid) \/ ChunkPulled(uuid) \/ PullParks(uuid)
  PROVE  MirrorInv'
<1>1. /\ sync \in SyncType /\ sync.entities[uuid] \in DrawnType
      /\ sync.entities \in [UUIDs -> DrawnType \cup {Absent}]
      /\ UNCHANGED <<batch, store, missed>> /\ Mirrored(sync, batch, store, missed)
  BY DEF ParseLands, ChunkPulled, PullParks, Pulling, Inv, TypeOK, SyncType, MirrorInv
<1>2. ASSUME NEW d, SameLook(sync.entities[uuid], d),
             sync' = [sync EXCEPT !.entities[uuid] = d]
      PROVE  MirrorInv'
  <2> DEFINE drawn == [sync.entities EXCEPT ![uuid] = d]
             put == [sync EXCEPT !.entities = drawn]
  <2>1. sync' = put BY <1>2
  <2>2. \A u \in UUIDs : SameLook(sync.entities[u], drawn[u])
    BY <1>1, <1>2 DEF SameLook
  <2> HIDE DEF drawn
  <2>3. /\ put.session = sync.session /\ put.entities = drawn
        /\ put.pendingEvents = sync.pendingEvents /\ put.dirtyUUIDs = sync.dirtyUUIDs
    BY <1>1 DEF SyncType
  <2> HIDE DEF put
  <2>4. Mirrored(put, batch, store, missed) BY <1>1, <2>2, <2>3, MirroredAlike
  <2> QED BY <1>1, <2>1, <2>4 DEF MirrorInv
<1>3. CASE ChunkPulled(uuid)
  <2> DEFINE d == Extended(sync.entities[uuid])
  <2>1. sync' = [sync EXCEPT !.entities[uuid] = d] BY <1>3 DEF ChunkPulled
  <2>2. SameLook(sync.entities[uuid], d)
    <3>1. d \in DrawnType
      <4>1. instance \in 0..MaxInstances BY DEF Inv, TypeOK
      <4> QED BY <1>1, <4>1 DEF Extended, DrawnType
    <3> QED BY <1>1, <3>1, SessionsDiffer DEF SameLook, Extended, DrawnType
  <2> HIDE DEF d
  <2> QED BY <1>2, <2>1, <2>2
<1>4. CASE PullParks(uuid)
  <2> DEFINE d == [sync.entities[uuid] EXCEPT !.pull = "suspended"]
  <2>1. sync' = [sync EXCEPT !.entities[uuid] = d] BY <1>4 DEF PullParks
  <2>2. SameLook(sync.entities[uuid], d)
    <3>1. d \in DrawnType BY <1>1 DEF DrawnType
    <3> QED BY <1>1, <3>1, SessionsDiffer DEF SameLook, DrawnType
  <2> HIDE DEF d
  <2> QED BY <1>2, <2>1, <2>2
<1>5. CASE ParseLands(uuid)
  <2> DEFINE d == [sync.entities[uuid] EXCEPT !.parsed = TRUE]
  <2>1. sync' = [sync EXCEPT !.entities[uuid] = d] BY <1>5 DEF ParseLands
  <2>2. SameLook(sync.entities[uuid], d)
    <3>1. d \in DrawnType BY <1>1 DEF DrawnType
    <3> QED BY <1>1, <3>1, SessionsDiffer DEF SameLook, DrawnType
  <2> HIDE DEF d
  <2> QED BY <1>2, <2>1, <2>2
<1> QED BY <1>3, <1>4, <1>5

\* The events of a batch are the first of the queue.
LEMMA BatchTaken ==
  ASSUME NEW b \in Seq(EventType), b # <<>>, NEW c \in Seq(EventType)
  PROVE  /\ b \o c \in Seq(EventType) /\ b \o c # <<>>
         /\ Head(b \o c) = Head(b) /\ Tail(b \o c) = Tail(b) \o c
         /\ Tail(b) \in Seq(EventType) /\ Tail(b) \o c \in Seq(EventType)
<1>1. /\ Head(b) \in EventType /\ Tail(b) \in Seq(EventType) /\ b = <<Head(b)>> \o Tail(b)
  OBVIOUS
<1>2. b \o c \in Seq(EventType) /\ Tail(b) \o c \in Seq(EventType)
  BY <1>1, ConcatProperties
<1>3. b \o c = <<Head(b)>> \o (Tail(b) \o c)
  <2>1. <<Head(b)>> \in Seq(EventType) BY <1>1
  <2> QED BY <1>1, <2>1, ConcatAssociative
<1>4. \A h \in EventType, s \in Seq(EventType) :
        /\ <<h>> \o s # <<>> /\ Head(<<h>> \o s) = h /\ Tail(<<h>> \o s) = s
  OBVIOUS
<1> QED BY <1>1, <1>2, <1>3, <1>4

\* What taking an event of the queue may make of its drawing.
Fits(s, ahead, uuid, x, owed) ==
    LET q == ahead \o Coming(s)
        p == Tail(ahead) \o Coming(s)
    IN \A now : InOrder(q, uuid, now) =>
         \/ uuid \in owed
         \/ Follows(x, p, uuid, now)
         \/ /\ uuid \notin s.dirtyUUIDs
            /\ Follows(s.entities[uuid], q, uuid, now) => Follows(x, p, uuid, now)

\* One event of the batch is taken, and the drawing it is about becomes `x`.
LEMMA TakenMirrored ==
  ASSUME Inv, MirrorInv, batch # <<>>, NEW uuid, uuid = Head(batch).uuid,
         NEW x \in DrawnType \cup {Absent}, Cached(x),
         NEW owed \in SUBSET UUIDs, owed \cup {uuid} = sync.dirtyUUIDs \cup {uuid},
         NEW t, t.session = sync.session, t.pendingEvents = sync.pendingEvents,
         t.dirtyUUIDs = owed, t.entities = [sync.entities EXCEPT ![uuid] = x],
         sync.session # Absent => Fits(sync, batch, uuid, x, owed)
  PROVE  Mirrored(t, Tail(batch), store, missed)
<1>1. /\ sync \in SyncType /\ batch \in Seq(EventType)
      /\ sync.pendingEvents \in Seq(EventType)
      /\ sync.entities \in [UUIDs -> DrawnType \cup {Absent}]
      /\ AllCached(sync) /\ ReadInOrder(sync) /\ HeardInOrder(sync, batch, store, missed)
  BY DEF Inv, TypeOK, SyncType, MirrorInv, Mirrored
<1>2. /\ \A u \in UUIDs : u # uuid => t.entities[u] = sync.entities[u]
                                      /\ (u \in owed <=> u \in sync.dirtyUUIDs)
      /\ uuid \in UUIDs => t.entities[uuid] = x
  BY <1>1
<1>3. /\ (Heard(t) <=> Heard(sync)) /\ (Reading(t) <=> Reading(sync))
      /\ Coming(t) = Coming(sync)
      /\ \A u : Answer(t, u) = Answer(sync, u)
      /\ Unread(t) <=> Unread(sync)
  BY DEF Heard, Reading, Answer, Unread, Coming
<1>4. AllCached(t)
  <2>1. \A u \in UUIDs : t.entities[u] = x \/ t.entities[u] = sync.entities[u] BY <1>2
  <2> QED BY <1>1, <2>1 DEF AllCached
<1>5. ReadInOrder(t) BY <1>1, <1>3 DEF ReadInOrder
<1> DEFINE c == Coming(sync)
           q == batch \o c
           p == Tail(batch) \o c
<1>6. ASSUME Heard(t)
      PROVE  /\ t.session.stream # "opening"
             /\ q \in Seq(EventType) /\ q # <<>> /\ Head(q).uuid = uuid /\ p = Tail(q)
             /\ p \in Seq(EventType)
  <2>1. sync.session \in SessionType BY <1>1, <1>3, <1>6 DEF Heard, SyncType
  <2>2. c \in Seq(EventType)
    <3>1. sync.session.wire \in Seq(EventType) BY <2>1 DEF SessionType
    <3> QED BY <1>1, <3>1, ConcatProperties DEF Coming
  <2> HIDE DEF c
  <2>3. t.session.stream # "opening" BY <1>1, <1>3, <1>6 DEF HeardInOrder
  <2> QED BY <1>1, <2>2, <2>3, BatchTaken
<1> HIDE DEF q, p, c
<1>7. ASSUME Heard(t), NEW u \in UUIDs
      PROVE  /\ InOrder(p, u, store[u])
             /\ u \notin missed => Known(t, Tail(batch), u, store[u])
  <2>1. /\ InOrder(q, u, store[u])
        /\ u \notin missed => Known(sync, batch, u, store[u])
    BY <1>1, <1>3, <1>7 DEF HeardInOrder, q, c
  <2>2. /\ LastEvents(p, q, u)
        /\ u # uuid => SameEvents(p, q, u)
    <3>1. /\ q \in Seq(EventType) /\ q # <<>> /\ Head(q).uuid = uuid /\ p = Tail(q)
      BY <1>6, <1>7
    <3>2. LastEvents(Tail(q), q, u) /\ (Head(q).uuid # u => SameEvents(Tail(q), q, u))
      BY <3>1, TailLast
    <3> QED BY <3>1, <3>2
  <2>3. InOrder(p, u, store[u]) BY <1>6, <1>7, <2>1, <2>2, LastInOrder
  <2>4. ASSUME u \notin missed PROVE Known(t, Tail(batch), u, store[u])
    <3>1. Known(sync, batch, u, store[u]) BY <2>1, <2>4
    <3>2. CASE Reading(sync) /\ Answer(sync, u).state = "loaded"
      BY <1>3, <3>1, <3>2 DEF Known
    <3>3. CASE ~(Reading(sync) /\ Answer(sync, u).state = "loaded")
      <4>1. \/ u \in sync.dirtyUUIDs \/ Unread(sync)
            \/ Reading(sync) /\ Answer(sync, u).state \in {"sent", "failed"}
            \/ Follows(sync.entities[u], q, u, store[u])
        BY <3>1, <3>3 DEF Known, q, c
      <4>2. \/ u \in owed \/ Unread(t)
            \/ Reading(t) /\ Answer(t, u).state \in {"sent", "failed"}
            \/ Follows(t.entities[u], p, u, store[u])
        <5>1. CASE u # uuid
          <6>1. \A d : Follows(d, q, u, store[u]) => Follows(d, p, u, store[u])
            BY <2>2, <5>1, SameView
          <6> QED BY <1>2, <1>3, <4>1, <5>1, <6>1
        <5>2. CASE u = uuid
          <6>1. \/ uuid \in owed
                \/ Follows(x, p, uuid, store[u])
                \/ /\ uuid \notin sync.dirtyUUIDs
                   /\ Follows(sync.entities[uuid], q, uuid, store[u])
                        => Follows(x, p, uuid, store[u])
            <7>1. Fits(sync, batch, uuid, x, owed) BY <1>3, <1>7 DEF Heard
            <7> QED BY <2>1, <5>2, <7>1 DEF Fits, q, p, c
          <6> QED BY <1>2, <1>3, <4>1, <5>2, <6>1
        <5> QED BY <5>1, <5>2
      <4> QED BY <1>3, <3>3, <4>2 DEF Known, p, c
    <3> QED BY <3>2, <3>3
  <2> QED BY <2>3, <2>4
<1>8. HeardInOrder(t, Tail(batch), store, missed)
  BY <1>3, <1>6, <1>7 DEF HeardInOrder, p, c
<1> QED BY <1>4, <1>5, <1>8 DEF Mirrored

LEMMA ApplyMirrored ==
  ASSUME Inv, MirrorInv, ApplyEvent
  PROVE  MirrorInv'
<1> DEFINE e == Head(batch)
           d == sync.entities[e.uuid]
           respawns == d # Absent /\ "body" \in e.paths /\ "chunks" \in d.known
           q == batch \o Coming(sync)
           p == Tail(batch) \o Coming(sync)
<1>1. /\ sync \in SyncType /\ sync.dirtyUUIDs \in SUBSET UUIDs
      /\ sync.entities \in [UUIDs -> DrawnType \cup {Absent}]
      /\ sync.pendingEvents \in Seq(EventType) /\ Driven(sync) /\ AllCached(sync)
      /\ batch \in Seq(EventType) /\ batch # <<>> /\ batch' = Tail(batch)
      /\ UNCHANGED <<store, missed>>
  BY DEF ApplyEvent, Inv, TypeOK, SyncType, MirrorInv, Mirrored
<1>2. e \in EventType BY <1>1
<1>3. sync' = CASE e.type = "ADDED" ->
                     IF d # Absent THEN sync
                     ELSE [sync EXCEPT !.entities[e.uuid] = Spawned(e.t, e.instance)]
                [] e.type = "REMOVED" -> Removed(sync, e.uuid)
                [] e.type = "UPDATED" /\ d # Absent /\ ~respawns ->
                     [sync EXCEPT !.entities[e.uuid] = Updated(d, e.t, e.paths, e.instance)]
                [] OTHER ->
                     markDirty([sync EXCEPT !.entities[e.uuid] = Absent], e.uuid)
  BY DEF ApplyEvent
<1>4. ASSUME sync.session # Absent, NEW now, InOrder(q, e.uuid, now), e.uuid \in UUIDs
      PROVE  /\ e.type = "REMOVED" => Follows(Absent, p, e.uuid, now)
             /\ e.type = "ADDED" => Follows(Spawned(e.t, e.instance), p, e.uuid, now)
             /\ e.type = "ADDED" /\ d # Absent /\ Follows(d, q, e.uuid, now)
                  => Follows(d, p, e.uuid, now)
             /\ e.type = "UPDATED" /\ d # Absent /\ Follows(d, q, e.uuid, now)
                  => Follows(Updated(d, e.t, e.paths, e.instance), p, e.uuid, now)
  <2>1. Coming(sync) \in Seq(EventType)
    <3>1. sync.session \in SessionType BY <1>1, <1>4 DEF SyncType
    <3>2. sync.session.wire \in Seq(EventType) BY <3>1 DEF SessionType
    <3> QED BY <1>1, <3>2, ConcatProperties DEF Coming
  <2>2. q \in Seq(EventType) /\ q # <<>> /\ Head(q) = e /\ Tail(q) = p
    <3> DEFINE c == Coming(sync)
    <3> HIDE DEF c
    <3>1. c \in Seq(EventType) BY <2>1 DEF c
    <3>2. /\ batch \o c \in Seq(EventType) /\ batch \o c # <<>>
          /\ Head(batch \o c) = Head(batch) /\ Tail(batch \o c) = Tail(batch) \o c
      BY <1>1, <3>1, BatchTaken
    <3> QED BY <3>2 DEF c
  <2>3. d \in DrawnType \cup {Absent} BY <1>1, <1>4
  <2> HIDE DEF q, p, e, d
  <2> QED BY <1>4, <2>2, <2>3, HeadFollows
<1> HIDE DEF e
<1>5. /\ e.uuid \in UUIDs /\ e.t \in TransformType /\ e.instance \in Instances
      /\ e.paths \in SUBSET {"pose", "body", "meta"}
      /\ e.type \in {"ADDED", "REMOVED", "UPDATED"}
  BY <1>2 DEF EventType, Instances
<1>6. d \in DrawnType \cup {Absent} /\ Cached(d) BY <1>1, <1>5 DEF AllCached
<1>7. e.uuid = Head(batch).uuid /\ batch # <<>> /\ e.uuid \in UUIDs BY <1>1, <1>5 DEF e
\* Only the drawing and what is owed change.
<1>8. ASSUME NEW x \in DrawnType \cup {Absent}, NEW owed \in SUBSET UUIDs
      PROVE  LET put == [sync EXCEPT !.dirtyUUIDs = owed, !.entities[e.uuid] = x]
             IN /\ put.session = sync.session /\ put.pendingEvents = sync.pendingEvents
                /\ put.dirtyUUIDs = owed
                /\ put.entities = [sync.entities EXCEPT ![e.uuid] = x]
  <2> DEFINE drawn == [sync.entities EXCEPT ![e.uuid] = x]
             put == [sync EXCEPT !.dirtyUUIDs = owed, !.entities = drawn]
  <2>1. [sync EXCEPT !.dirtyUUIDs = owed, !.entities[e.uuid] = x] = put OBVIOUS
  <2> HIDE DEF drawn
  <2>2. /\ put.session = sync.session /\ put.pendingEvents = sync.pendingEvents
        /\ put.dirtyUUIDs = owed /\ put.entities = drawn
    BY <1>1 DEF SyncType
  <2> HIDE DEF put
  <2> QED BY <2>1, <2>2 DEF drawn
<1>9. ASSUME NEW x \in DrawnType \cup {Absent},
             sync' = [sync EXCEPT !.entities[e.uuid] = x]
      PROVE  /\ sync'.session = sync.session /\ sync'.pendingEvents = sync.pendingEvents
             /\ sync'.dirtyUUIDs = sync.dirtyUUIDs
             /\ sync'.entities = [sync.entities EXCEPT ![e.uuid] = x]
  <2> DEFINE drawn == [sync.entities EXCEPT ![e.uuid] = x]
             put == [sync EXCEPT !.entities = drawn]
  <2>1. sync' = put BY <1>9
  <2> HIDE DEF drawn
  <2>2. /\ put.session = sync.session /\ put.pendingEvents = sync.pendingEvents
        /\ put.dirtyUUIDs = sync.dirtyUUIDs /\ put.entities = drawn
    BY <1>1 DEF SyncType
  <2> HIDE DEF put
  <2> QED BY <2>1, <2>2 DEF drawn
<1>10. sync.dirtyUUIDs \in SUBSET UUIDs BY <1>1
<1>11. Mirrored(sync', Tail(batch), store, missed)
  <2>1. CASE e.type = "ADDED"
    <3>1. CASE d # Absent
      <4>1. sync' = sync BY <1>3, <2>1, <3>1
      <4>2. sync' = [sync EXCEPT !.entities[e.uuid] = d] BY <1>1, <1>5, <4>1 DEF SyncType
      <4>3. sync.session # Absent => Fits(sync, batch, e.uuid, d, sync.dirtyUUIDs)
        BY <1>4, <1>5, <2>1, <3>1 DEF Fits
      <4> HIDE DEF d
      <4> QED BY <1>6, <1>7, <1>9, <1>10, <4>2, <4>3, TakenMirrored
    <3>2. CASE d = Absent
      <4> DEFINE x == Spawned(e.t, e.instance)
      <4>1. sync' = [sync EXCEPT !.entities[e.uuid] = x] BY <1>3, <2>1, <3>2
      <4>2. x \in DrawnType /\ Cached(x) BY <1>5, SpawnedTyped, SpawnedShows
      <4>3. sync.session # Absent => Fits(sync, batch, e.uuid, x, sync.dirtyUUIDs)
        BY <1>4, <1>5, <2>1 DEF Fits
      <4> HIDE DEF x
      <4> QED BY <1>7, <1>9, <1>10, <4>1, <4>2, <4>3, TakenMirrored
    <3> QED BY <3>1, <3>2
  <2>2. CASE e.type = "REMOVED"
    <3> DEFINE owed == sync.dirtyUUIDs \ {e.uuid}
    <3>1. sync' = Removed(sync, e.uuid) BY <1>3, <2>2
    <3>2. sync' = [sync EXCEPT !.dirtyUUIDs = owed, !.entities[e.uuid] = Absent]
      BY <3>1 DEF Removed
    <3>3. owed \in SUBSET UUIDs /\ owed \cup {e.uuid} = sync.dirtyUUIDs \cup {e.uuid} BY <1>1
    <3>4. Cached(Absent) BY DEF Cached
    <3> HIDE DEF owed
    <3>5. sync.session # Absent => Fits(sync, batch, e.uuid, Absent, owed)
      BY <1>4, <1>5, <2>2 DEF Fits
    <3>6. /\ sync'.session = sync.session /\ sync'.pendingEvents = sync.pendingEvents
          /\ sync'.dirtyUUIDs = owed
          /\ sync'.entities = [sync.entities EXCEPT ![e.uuid] = Absent]
      BY <1>8, <3>2, <3>3
    <3> QED BY <1>7, <3>3, <3>4, <3>5, <3>6, TakenMirrored
  <2>3. CASE e.type = "UPDATED" /\ d # Absent /\ ~respawns
    <3> DEFINE x == Updated(d, e.t, e.paths, e.instance)
    <3>1. sync' = [sync EXCEPT !.entities[e.uuid] = x] BY <1>3, <2>3
    <3>2. d \in DrawnType BY <1>6, <2>3
    <3>3. x \in DrawnType /\ Cached(x)
      <4> HIDE DEF d
      <4> QED BY <1>5, <1>6, <3>2, UpdatedTyped, UpdatedShows DEF Parts
    <3>4. sync.session # Absent => Fits(sync, batch, e.uuid, x, sync.dirtyUUIDs)
      BY <1>4, <1>5, <2>3 DEF Fits
    <3> HIDE DEF x
    <3> QED BY <1>7, <1>9, <1>10, <3>1, <3>3, <3>4, TakenMirrored
  <2>4. CASE e.type = "UPDATED" /\ ~(d # Absent /\ ~respawns)
    <3> DEFINE drawn == [sync.entities EXCEPT ![e.uuid] = Absent]
               cleared == [sync EXCEPT !.entities = drawn]
               owed == cleared.dirtyUUIDs \cup {e.uuid}
               owing == [cleared EXCEPT !.dirtyUUIDs = owed]
    <3>1. sync' = markDirty(cleared, e.uuid)
      <4>1. [sync EXCEPT !.entities[e.uuid] = Absent] = cleared OBVIOUS
      <4> QED BY <1>3, <2>4, <4>1
    <3>2. drawn \in [UUIDs -> DrawnType \cup {Absent}] BY <1>1, <1>5
    <3> HIDE DEF drawn
    <3>3. /\ cleared \in SyncType /\ cleared.dirtyUUIDs = sync.dirtyUUIDs
          /\ cleared.session = sync.session /\ cleared.client = sync.client
          /\ cleared.retryTimer = sync.retryTimer /\ cleared.entities = drawn
          /\ cleared.pendingEvents = sync.pendingEvents /\ cleared.flush = sync.flush
      BY <1>1, <3>2 DEF SyncType
    <3> HIDE DEF cleared
    <3>4. Driven(cleared) BY <1>1, <3>3 DEF Driven, Waiting, Held, Reading
    <3>5. owed \in SUBSET UUIDs /\ owed = sync.dirtyUUIDs \cup {e.uuid}
      BY <1>5, <1>10, <3>3
    <3>6. /\ owing.session = sync.session /\ owing.pendingEvents = sync.pendingEvents
          /\ owing.dirtyUUIDs = owed /\ owing.entities = drawn
      <4> HIDE DEF owed
      <4> QED BY <3>3 DEF SyncType
    <3> HIDE DEF owing
    <3>7. Mirrored(owing, Tail(batch), store, missed)
      <4>1. /\ owed \cup {e.uuid} = sync.dirtyUUIDs \cup {e.uuid}
            /\ e.uuid \in owed /\ Cached(Absent)
        BY <3>5 DEF Cached
      <4>2. Fits(sync, batch, e.uuid, Absent, owed) BY <4>1 DEF Fits
      <4> HIDE DEF owed
      <4> QED BY <1>7, <3>5, <3>6, <4>1, <4>2, TakenMirrored DEF drawn
    <3>8. Mirrored([cleared EXCEPT !.dirtyUUIDs = owed], Tail(batch), store, missed)
      BY <3>7 DEF owing
    <3> QED BY <1>7, <3>1, <3>3, <3>4, <3>5, <3>8, MirroredDirty
  <2> QED BY <1>5, <2>1, <2>2, <2>3, <2>4
<1> QED BY <1>1, <1>11 DEF MirrorInv

\* What the list names is asked for; what it does not name is not held, and is
\* drawn no more.
LEMMA ListServedMirrored ==
  ASSUME Inv, MirrorInv, ListServed
  PROVE  MirrorInv'
<1> DEFINE listed == {uuid \in UUIDs : store[uuid] # Absent}
           asked == Asked(listed)
           read == [sync.session.read EXCEPT !.listed = TRUE, !.uuids = listed,
                                             !.got = asked]
           session == [sync.session EXCEPT !.read = read]
           drawn == [uuid \in UUIDs |-> IF uuid \in listed THEN sync.entities[uuid]
                                        ELSE Absent]
           put == [sync EXCEPT !.session = session, !.entities = drawn, !.dirtyUUIDs = {}]
<1>1. /\ sync \in SyncType /\ sync.session # Absent /\ sync.session \in SessionType
      /\ sync.session.read # Absent /\ sync.session.read \in ReadType
      /\ ~sync.session.read.listed /\ Reading(sync)
      /\ UNCHANGED <<batch, store>> /\ missed' = {} /\ sync' = put
      /\ AllCached(sync) /\ ReadInOrder(sync) /\ HeardInOrder(sync, batch, store, missed)
  BY DEF ListServed, Reading, Inv, TypeOK, SyncType, SessionType, MirrorInv, Mirrored
<1>2. /\ \A u \in UUIDs : /\ store[u] # Absent => asked[u].state = "sent"
                          /\ store[u] = Absent => asked[u].state = "unasked"
      /\ \A u \in UUIDs : /\ drawn[u] \in {sync.entities[u], Absent}
                          /\ store[u] = Absent => drawn[u] = Absent
  BY DEF Asked
<1>3. /\ read \in ReadType /\ read.got = asked /\ read.listed
      /\ read.isSnapshot /\ sync.session.read.isSnapshot
  <2>1. asked \in [UUIDs -> AnswerType] /\ listed \in SUBSET UUIDs BY AskedTyped
  <2> HIDE DEF asked, listed
  <2> QED BY <1>1, <2>1 DEF ReadType
<1> HIDE DEF listed, asked, read, drawn
<1>4. /\ session \in SessionType /\ session.read = read
      /\ session.stream = sync.session.stream
      /\ session.isSnapshotOwed = sync.session.isSnapshotOwed
      /\ session.wire = sync.session.wire
  BY <1>1, <1>3 DEF SessionType
<1> HIDE DEF session
<1>5. /\ put.session = session /\ put.entities = drawn
      /\ put.pendingEvents = sync.pendingEvents
  BY <1>1 DEF SyncType
<1> HIDE DEF put
<1>6. session # Absent /\ read # Absent BY <1>3, <1>4, SessionsDiffer
<1>7. /\ (Heard(put) <=> Heard(sync)) /\ Reading(put) /\ Coming(put) = Coming(sync)
      /\ \A u : Answer(put, u) = asked[u]
  BY <1>1, <1>3, <1>4, <1>5, <1>6 DEF Heard, Reading, Answer, Coming
<1>8. AllCached(put)
  <2>1. Cached(Absent) BY DEF Cached
  <2> QED BY <1>1, <1>2, <1>5, <2>1 DEF AllCached
<1>9. ReadInOrder(put)
  <2>1. sync.session.isSnapshotOwed BY <1>1, <1>3 DEF ReadInOrder
  <2> QED BY <1>3, <1>4, <1>5, <2>1 DEF ReadInOrder
<1>10. ASSUME NEW u \in UUIDs PROVE Known(put, batch, u, store[u])
  <2>1. CASE store[u] # Absent BY <1>2, <1>7, <2>1 DEF Known
  <2>2. CASE store[u] = Absent
    <3>1. Answer(put, u).state = "unasked" /\ put.entities[u] = Absent
      BY <1>2, <1>5, <1>7, <2>2
    <3>2. \A q : Follows(Absent, q, u, Absent) BY DEF Follows
    <3> QED BY <2>2, <3>1, <3>2 DEF Known
  <2> QED BY <2>1, <2>2
<1>11. HeardInOrder(put, batch, store, {})
  BY <1>1, <1>4, <1>5, <1>7, <1>10 DEF HeardInOrder
<1>12. Mirrored(put, batch, store, {}) BY <1>8, <1>9, <1>11 DEF Mirrored
<1> QED BY <1>1, <1>12 DEF MirrorInv

\* A list that fails leaves its snapshot owed.
LEMMA ListFailsMirrored ==
  ASSUME Inv, MirrorInv, ListFails
  PROVE  MirrorInv'
<1> DEFINE owing == [sync EXCEPT !.retryTimer = TRUE]
           session == [sync.session EXCEPT !.read = Absent]
           free == [owing EXCEPT !.session = session]
<1>1. /\ sync \in SyncType /\ sync.session # Absent /\ sync.session \in SessionType
      /\ sync.session.read \in ReadType /\ ~sync.session.read.listed
      /\ Reading(sync) /\ batch = <<>> /\ sync' = finally(owing)
      /\ UNCHANGED <<batch, store, missed>>
      /\ AllCached(sync) /\ ReadInOrder(sync) /\ HeardInOrder(sync, batch, store, missed)
  BY DEF ListFails, Idle, Reading, Inv, TypeOK, SyncType, SessionType, MirrorInv, Mirrored
<1>2. sync.session.isSnapshotOwed
  <2>1. sync.session.read.isSnapshot BY <1>1 DEF ReadType
  <2> QED BY <1>1, <2>1 DEF ReadInOrder
<1>3. /\ session \in SessionType /\ session.read = Absent
      /\ session.stream = sync.session.stream
      /\ session.isSnapshotOwed /\ session.wire = sync.session.wire
  BY <1>1, <1>2 DEF SessionType
<1>4. /\ owing \in SyncType /\ owing.session = sync.session
      /\ owing.pendingEvents = sync.pendingEvents /\ owing.entities = sync.entities
  BY <1>1 DEF SyncType
<1> HIDE DEF owing
<1>5. session = [owing.session EXCEPT !.read = Absent] BY <1>4
<1> HIDE DEF session
<1>6. /\ free.session = session /\ free.pendingEvents = sync.pendingEvents
      /\ free.entities = sync.entities
  BY <1>4 DEF SyncType
<1> HIDE DEF free
<1>7. /\ ~Reading(free) /\ Unread(free) /\ Coming(free) = Coming(sync)
      /\ (Heard(free) <=> Heard(sync))
  BY <1>1, <1>3, <1>6, SessionsDiffer DEF Reading, Unread, Coming, Heard
<1>8. AllCached(free) /\ ReadInOrder(free)
  BY <1>1, <1>6, <1>7 DEF AllCached, ReadInOrder
<1>9. HeardInOrder(free, <<>>, store, missed)
  BY <1>1, <1>3, <1>6, <1>7 DEF HeardInOrder, Known
<1>10. Mirrored([owing EXCEPT !.session = session], <<>>, store, missed)
  BY <1>8, <1>9 DEF Mirrored, free
<1>11. Mirrored(sync', <<>>, store, missed)
  BY <1>1, <1>3, <1>4, <1>5, <1>10, MirroredFinally
<1> QED BY <1>1, <1>11 DEF MirrorInv

\* An answer is the store's as it is now.
LEMMA AnswerMirrored ==
  ASSUME Inv, MirrorInv, NEW uuid \in UUIDs, NEW answer \in AnswerType, Reading(sync),
         sync.session.read.got[uuid].state = "sent",
         \/ answer.state = "failed" /\ missed' = missed
         \/ /\ answer.state = "loaded" /\ answer.t = store[uuid] /\ store[uuid] # Absent
            /\ missed' = missed \ {uuid},
         sync' = [sync EXCEPT !.session.read.got[uuid] = answer],
         UNCHANGED <<store, batch>>
  PROVE  MirrorInv'
<1> DEFINE got == [sync.session.read.got EXCEPT ![uuid] = answer]
           read == [sync.session.read EXCEPT !.got = got]
           session == [sync.session EXCEPT !.read = read]
           put == [sync EXCEPT !.session = session]
<1>1. /\ sync \in SyncType /\ sync.session # Absent /\ sync.session \in SessionType
      /\ sync.session.read # Absent /\ sync.session.read \in ReadType
      /\ sync.session.read.got \in [UUIDs -> AnswerType]
      /\ AllCached(sync) /\ ReadInOrder(sync) /\ HeardInOrder(sync, batch, store, missed)
  BY DEF Reading, Inv, TypeOK, SyncType, SessionType, ReadType, MirrorInv, Mirrored
<1>2. sync' = put OBVIOUS
<1>3. /\ got \in [UUIDs -> AnswerType] /\ got[uuid] = answer
      /\ \A u \in UUIDs : u # uuid => got[u] = sync.session.read.got[u]
  BY <1>1
<1> HIDE DEF got
<1>4. /\ read \in ReadType /\ read.got = got /\ read.uuids = sync.session.read.uuids
      /\ read.isSnapshot = sync.session.read.isSnapshot
      /\ read.listed = sync.session.read.listed
  BY <1>1, <1>3 DEF ReadType
<1> HIDE DEF read
<1>5. /\ session \in SessionType /\ session.read = read
      /\ session.stream = sync.session.stream
      /\ session.isSnapshotOwed = sync.session.isSnapshotOwed
      /\ session.wire = sync.session.wire
  BY <1>1, <1>4 DEF SessionType
<1> HIDE DEF session
<1>6. /\ put.session = session /\ put.entities = sync.entities
      /\ put.pendingEvents = sync.pendingEvents /\ put.dirtyUUIDs = sync.dirtyUUIDs
  BY <1>1 DEF SyncType
<1> HIDE DEF put
<1>7. session # Absent /\ read # Absent BY <1>4, <1>5, SessionsDiffer
<1>8. /\ (Heard(put) <=> Heard(sync)) /\ Reading(put) /\ Coming(put) = Coming(sync)
      /\ (Unread(put) <=> Unread(sync))
      /\ \A u : Answer(put, u) = got[u]
  BY <1>1, <1>4, <1>5, <1>6, <1>7 DEF Heard, Reading, Answer, Coming, Unread
<1>9. AllCached(put) BY <1>1, <1>6 DEF AllCached
<1>10. ReadInOrder(put)
  <2>1. sync.session.read.listed BY <1>1 DEF ReadInOrder
  <2>2. ~read.isSnapshot => \A u \in UUIDs : got[u].state # "unasked" => u \in read.uuids
    BY <1>1, <1>3, <1>4 DEF ReadInOrder
  <2> QED BY <1>1, <1>4, <1>5, <1>6, <2>1, <2>2 DEF ReadInOrder
<1>11. ASSUME Heard(sync), NEW u \in UUIDs, u \notin missed'
       PROVE  Known(put, batch, u, store[u])
  <2>1. CASE u # uuid
    <3>1. Known(sync, batch, u, store[u]) BY <1>1, <1>11, <2>1 DEF HeardInOrder
    <3>2. Answer(put, u) = Answer(sync, u) BY <1>3, <1>8, <2>1 DEF Answer
    <3> QED BY <1>6, <1>8, <3>1, <3>2 DEF Known
  <2>2. CASE u = uuid /\ answer.state = "failed"
    BY <1>3, <1>8, <2>2 DEF Known
  <2>3. CASE u = uuid /\ answer.state = "loaded"
    <3>1. answer.t = store[u] /\ store[u] # Absent BY <2>3
    <3>2. \A q : Current(store[u], q, u, store[u])
      BY <3>1, PartsAgree DEF Current
    <3> QED BY <1>3, <1>8, <2>3, <3>1, <3>2 DEF Known
  <2> QED BY <2>1, <2>2, <2>3
<1>12. HeardInOrder(put, batch, store, missed')
  BY <1>1, <1>5, <1>6, <1>8, <1>11 DEF HeardInOrder
<1>13. Mirrored(put, batch, store, missed') BY <1>9, <1>10, <1>12 DEF Mirrored
<1> QED BY <1>2, <1>13 DEF MirrorInv

LEMMA GetsMirrored ==
  ASSUME Inv, MirrorInv, NEW uuid \in UUIDs, GetServed(uuid) \/ GetFails(uuid)
  PROVE  MirrorInv'
<1> DEFINE none == [state |-> "failed"]
           found == [state |-> "loaded", t |-> store[uuid], instance |-> instance]
<1>1. store[uuid] \in TransformType \cup {Absent} /\ instance \in Instances
  BY DEF Inv, TypeOK, Instances
<1>2. none \in AnswerType /\ none.state = "failed" BY DEF AnswerType
<1>3. store[uuid] # Absent => found \in AnswerType BY <1>1, AnswersTyped
<1>4. found.state = "loaded" /\ found.t = store[uuid] OBVIOUS
<1>5. /\ Reading(sync) /\ sync.session.read.got[uuid].state = "sent"
      /\ UNCHANGED <<store, batch>>
  BY DEF GetServed, GetFails
<1>6. \/ sync' = [sync EXCEPT !.session.read.got[uuid] = none] /\ missed' = missed
      \/ /\ sync' = [sync EXCEPT !.session.read.got[uuid] = found]
         /\ store[uuid] # Absent /\ missed' = missed \ {uuid}
  BY DEF GetServed, GetFails
<1> HIDE DEF none, found
<1>7. CASE sync' = [sync EXCEPT !.session.read.got[uuid] = none] /\ missed' = missed
  BY <1>2, <1>5, <1>7, AnswerMirrored
<1>8. CASE /\ sync' = [sync EXCEPT !.session.read.got[uuid] = found]
           /\ store[uuid] # Absent /\ missed' = missed \ {uuid}
  BY <1>3, <1>4, <1>5, <1>8, AnswerMirrored
<1> QED BY <1>6, <1>7, <1>8

\* What was read is drawn as it was, whatever was drawn before.
LEMMA ReadFollows ==
  \A t \in TransformType, d \in DrawnType \cup {Absent}, i \in Instances,
     rebuild \in BOOLEAN : \A q, u, now :
     Cached(d) /\ Current(t, q, u, now) =>
        Follows(Read(d, t, i, rebuild), q, u, now) /\ Cached(Read(d, t, i, rebuild))
<1> SUFFICES ASSUME NEW t \in TransformType, NEW d \in DrawnType \cup {Absent},
                    NEW i \in Instances, NEW rebuild \in BOOLEAN, NEW q, NEW u, NEW now,
                    Cached(d), Current(t, q, u, now)
             PROVE  /\ Follows(Read(d, t, i, rebuild), q, u, now)
                    /\ Cached(Read(d, t, i, rebuild))
  OBVIOUS
<1> DEFINE r == Read(d, t, i, rebuild)
<1>1. r # Absent /\ ShowsAll(r, t) /\ Cached(r) BY ReadTyped, ReadShows, SessionsDiffer
<1> HIDE DEF r
<1>2. ASSUME Survives(q, u)
      PROVE  /\ now # Absent /\ ShowsNature(r, now)
             /\ \A f \in Parts : Untouched(q, u, f) => ShowsPart(f, r, now)
  <2>1. /\ now # Absent /\ SameNature(t, now)
        /\ \A f \in Parts : Untouched(q, u, f) => SamePart(f, t, now)
    BY <1>2 DEF Current
  <2>2. ShowsNature(r, now) BY <1>1, <2>1 DEF ShowsAll, ShowsNature, SameNature
  <2>3. t.chunks = now.chunks /\ \A f \in Parts : ShowsPart(f, r, t)
    BY <1>1, <2>1 DEF SameNature, ShowsAll
  <2> QED BY <2>1, <2>2, <2>3, ShownPart
<1>3. Follows(r, q, u, now) BY <1>1, <1>2 DEF Follows
<1> QED BY <1>1, <1>3 DEF r

\* When every answer is in, what loaded is drawn as the store's but for what is
\* to come, and what failed is owed.
LEMMA ReadFinishesMirrored ==
  ASSUME Inv, MirrorInv, ReadFinishes
  PROVE  MirrorInv'
<1> DEFINE read == sync.session.read
           failed == {uuid \in UUIDs : read.got[uuid].state = "failed"}
           shown == Applied(sync, read)
           dirty == sync.dirtyUUIDs \cup failed
           owed == sync.session.isSnapshotOwed /\ ~read.isSnapshot
           session == [sync.session EXCEPT !.isSnapshotOwed = owed]
           freed == [session EXCEPT !.read = Absent]
           seq == IF read.isSnapshot THEN read.seq ELSE sync.drawnRebuildSeq
           retry == sync.retryTimer \/ failed # {}
           drawn == [sync EXCEPT !.entities = shown, !.dirtyUUIDs = dirty,
                                 !.session = session, !.drawnRebuildSeq = seq,
                                 !.retryTimer = retry]
           rest == [drawn EXCEPT !.session = freed]
<1>1. /\ sync \in SyncType /\ read \in ReadType /\ Reading(sync) /\ read # Absent
      /\ sync.session # Absent /\ sync.session \in SessionType
      /\ sync.entities \in [UUIDs -> DrawnType \cup {Absent}]
      /\ sync.dirtyUUIDs \in SUBSET UUIDs /\ sync.retryTimer \in BOOLEAN
      /\ sync.drawnRebuildSeq \in Nat /\ read.seq \in Nat /\ read.isSnapshot \in BOOLEAN
      /\ read.got \in [UUIDs -> AnswerType] /\ read.isRebuild \in BOOLEAN
  BY DEF ReadFinishes, Reading, Inv, TypeOK, SyncType, SessionType, ReadType
<1>2. /\ read.listed /\ \A uuid \in UUIDs : read.got[uuid].state # "sent"
      /\ batch = <<>> /\ UNCHANGED <<batch, store, missed>>
      /\ AllCached(sync) /\ HeardInOrder(sync, batch, store, missed)
  BY DEF ReadFinishes, Idle, MirrorInv, Mirrored
<1>3. sync' = finally(drawn)
  <2>1. [sync EXCEPT !.entities = shown, !.dirtyUUIDs = @ \cup failed,
                     !.session.isSnapshotOwed = @ /\ ~read.isSnapshot,
                     !.drawnRebuildSeq = IF read.isSnapshot THEN read.seq ELSE @,
                     !.retryTimer = @ \/ failed # {}] = drawn
    OBVIOUS
  <2> QED BY <2>1 DEF ReadFinishes
<1>4. /\ session \in SessionType /\ freed \in SessionType
      /\ freed.read = Absent /\ freed.isSnapshotOwed = owed
      /\ freed.stream = sync.session.stream /\ freed.wire = sync.session.wire
  <2>1. owed \in BOOLEAN OBVIOUS
  <2> HIDE DEF owed
  <2> QED BY <1>1, <2>1 DEF SessionType
<1>5. /\ seq \in Nat /\ dirty \in SUBSET UUIDs /\ retry \in BOOLEAN
      /\ \A u \in UUIDs : read.got[u].state = "failed" => u \in dirty
      /\ \A u \in UUIDs : u \in sync.dirtyUUIDs => u \in dirty
  BY <1>1
<1>6. shown \in [UUIDs -> DrawnType \cup {Absent}] BY <1>1, AppliedTyped
<1>7. ASSUME NEW u \in UUIDs
      PROVE  /\ read.got[u].state = "loaded" =>
                  /\ read.got[u].t \in TransformType /\ read.got[u].instance \in Instances
                  /\ shown[u] = Read(sync.entities[u], read.got[u].t,
                                     read.got[u].instance, read.isRebuild)
             /\ read.got[u].state = "failed" => shown[u] \in {sync.entities[u], Absent}
             /\ read.got[u].state = "unasked" => shown[u] = sync.entities[u]
             /\ read.got[u].state \in {"loaded", "failed", "unasked"}
  <2>1. read.got[u] \in AnswerType /\ read.got[u].state # "sent" BY <1>1, <1>2
  <2> DEFINE a == read.got[u]
  <2> HIDE DEF read
  <2>2. shown[u] = CASE a.state = "loaded" ->
                          Read(sync.entities[u], a.t, a.instance, read.isRebuild)
                     [] a.state = "failed" /\ read.isRebuild -> Absent
                     [] OTHER -> sync.entities[u]
    BY DEF Applied
  <2>3. /\ a.state \in {"loaded", "failed", "unasked"}
        /\ a.state = "loaded" => a.t \in TransformType /\ a.instance \in Instances
    BY <2>1 DEF AnswerType, Instances
  <2> HIDE DEF shown
  <2> QED BY <2>2, <2>3
<1> HIDE DEF shown, session, freed, dirty, retry, seq
<1>8. /\ drawn \in SyncType /\ drawn.session = session /\ drawn.entities = shown
      /\ drawn.pendingEvents = sync.pendingEvents /\ drawn.dirtyUUIDs = dirty
  BY <1>1, <1>4, <1>5, <1>6 DEF SyncType
<1> HIDE DEF drawn
<1>9. freed = [drawn.session EXCEPT !.read = Absent] BY <1>8 DEF freed
<1>10. /\ rest.session = freed /\ rest.entities = shown /\ rest.dirtyUUIDs = dirty
       /\ rest.pendingEvents = sync.pendingEvents
  BY <1>8 DEF SyncType
<1> HIDE DEF rest
<1>11. /\ ~Reading(rest) /\ Coming(rest) = Coming(sync) /\ (Heard(rest) <=> Heard(sync))
       /\ Unread(sync) => Unread(rest)
  BY <1>1, <1>2, <1>4, <1>10, SessionsDiffer DEF Reading, Coming, Heard, Unread
<1> HIDE DEF read, owed, failed
<1>12. ASSUME NEW u \in UUIDs
       PROVE  /\ Cached(shown[u])
              /\ Heard(sync) /\ u \notin missed => Known(rest, <<>>, u, store[u])
  <2>1. sync.entities[u] \in DrawnType \cup {Absent} /\ Cached(sync.entities[u])
    BY <1>1, <1>2 DEF AllCached
  <2>2. Heard(sync) /\ u \notin missed => Known(sync, <<>>, u, store[u])
    BY <1>2 DEF HeardInOrder
  <2>3. Answer(sync, u) = read.got[u] BY DEF Answer, read
  <2>4. CASE read.got[u].state = "loaded"
    <3> DEFINE t == read.got[u].t
               i == read.got[u].instance
               r == Read(sync.entities[u], t, i, read.isRebuild)
    <3>1. t \in TransformType /\ i \in Instances /\ shown[u] = r BY <1>7, <2>4
    <3> HIDE DEF t, i
    <3>2. Cached(r)
      BY <1>1, <2>1, <3>1, ReadShows
    <3>3. ASSUME Heard(sync), u \notin missed PROVE Known(rest, <<>>, u, store[u])
      <4>1. Current(t, Coming(sync), u, store[u])
        BY <1>1, <2>2, <2>3, <2>4, <3>3 DEF Known, t
      <4>2. Follows(r, Coming(sync), u, store[u])
        BY <1>1, <2>1, <3>1, <4>1, ReadFollows
      <4>3. <<>> \o Coming(sync) = Coming(sync)
        <5>1. sync.session.wire \in Seq(EventType) /\ sync.pendingEvents \in Seq(EventType)
          BY <1>1 DEF SessionType, SyncType
        <5>2. Coming(sync) \in Seq(EventType) BY <5>1, ConcatProperties DEF Coming
        <5> QED BY <5>2, ConcatEmptySeq
      <4> QED BY <1>10, <1>11, <3>1, <4>2, <4>3 DEF Known
    <3> QED BY <3>1, <3>2, <3>3
  <2>5. CASE read.got[u].state = "failed"
    <3>1. u \in dirty /\ shown[u] \in {sync.entities[u], Absent} BY <1>5, <1>7, <2>5
    <3>2. Cached(shown[u]) BY <2>1, <3>1 DEF Cached
    <3> QED BY <1>10, <1>11, <3>1, <3>2 DEF Known
  <2>6. CASE read.got[u].state = "unasked"
    <3>1. shown[u] = sync.entities[u] BY <1>7, <2>6
    <3>2. ASSUME Heard(sync), u \notin missed PROVE Known(rest, <<>>, u, store[u])
      <4>1. \/ u \in sync.dirtyUUIDs \/ Unread(sync)
            \/ Follows(sync.entities[u], <<>> \o Coming(sync), u, store[u])
        BY <2>2, <2>3, <2>6, <3>2 DEF Known
      <4> QED BY <1>5, <1>10, <1>11, <3>1, <4>1 DEF Known
    <3> QED BY <2>1, <3>1, <3>2
  <2> QED BY <1>7, <2>4, <2>5, <2>6
<1>13. AllCached(rest) BY <1>10, <1>12 DEF AllCached
<1>14. ReadInOrder(rest) BY <1>11 DEF ReadInOrder
<1>15. HeardInOrder(rest, <<>>, store, missed)
  BY <1>2, <1>4, <1>10, <1>11, <1>12 DEF HeardInOrder
<1>16. Mirrored([drawn EXCEPT !.session = freed], <<>>, store, missed)
  BY <1>13, <1>14, <1>15 DEF Mirrored, rest
<1>17. Mirrored(sync', <<>>, store, missed)
  BY <1>3, <1>4, <1>8, <1>9, <1>16, MirroredFinally
<1> QED BY <1>2, <1>17 DEF MirrorInv

LEMMA MirrorStarts == Init => MirrorInv
<1> SUFFICES ASSUME Init PROVE MirrorInv OBVIOUS
<1>1. sync.session = Absent /\ \A uuid \in UUIDs : sync.entities[uuid] = Absent
  BY DEF Init
<1>2. AllCached(sync) BY <1>1 DEF AllCached, Cached
<1>3. ReadInOrder(sync) BY <1>1 DEF ReadInOrder, Reading
<1>4. HeardInOrder(sync, batch, store, missed) BY <1>1 DEF HeardInOrder, Heard
<1> QED BY <1>2, <1>3, <1>4 DEF MirrorInv, Mirrored

\* What follows the store with nothing left to come shows it.
LEMMA FollowedShown ==
  \A d, u, now : Follows(d, <<>>, u, now) =>
     IF now = Absent THEN d = Absent ELSE Shows(d, now)
<1> SUFFICES ASSUME NEW d, NEW u, NEW now, Follows(d, <<>>, u, now)
             PROVE  IF now = Absent THEN d = Absent ELSE Shows(d, now)
  OBVIOUS
<1>1. About(<<>>, u) = {} BY DEF About
<1>2. Survives(<<>>, u) /\ \A f \in Parts : Untouched(<<>>, u, f)
  BY <1>1 DEF Survives, Untouched
<1>3. /\ d = Absent => now = Absent
      /\ d # Absent => /\ now # Absent /\ ShowsNature(d, now)
                       /\ \A f \in Parts : ShowsPart(f, d, now)
  BY <1>1, <1>2 DEF Follows
<1>4. ASSUME d # Absent PROVE Shows(d, now)
  <2>1. ShowsPart("pose", d, now) /\ ShowsPart("body", d, now) /\ ShowsPart("meta", d, now)
    BY <1>3, <1>4 DEF Parts
  <2> QED BY <1>3, <1>4, <2>1 DEF ShowsPart, ShowsNature, Shows
<1> QED BY <1>3, <1>4

\* Once nothing is under way, each uuid is drawn exactly as the store holds it,
\* whatever cuts, retries, rebuilds, held events and partial updates came before,
\* but for a change that fell in the gap before the subscription
\* (worldStateSync.ts: resync, fetchTransforms, applyRead, refreshEntity, flush,
\* applyEvents, and the events held back while a read is in flight).
THEOREM Mirrors == Spec => []MirrorsStore
<1>1. Inv /\ MirrorInv /\ [Next]_vars => MirrorInv'
  <2> SUFFICES ASSUME Inv, MirrorInv, [Next]_vars PROVE MirrorInv' OBVIOUS
  <2>1. CASE \E uuid \in UUIDs : StoreAdds(uuid) \/ StoreRemoves(uuid) \/ StoreUpdates(uuid)
    BY <2>1, ChangesMirrored
  <2>2. CASE StoreRebuilt BY <2>2, RebuiltMirrored
  <2>3. CASE StatusReported \/ ClientArrives \/ ClientReplaced \/ ClientLost
    BY <2>3, ReportsMirrored
  <2>4. CASE StoreSubscribes \/ StreamRefused BY <2>4, SubscribesMirrored
  <2>5. CASE EventArrives BY <2>5, ArrivesMirrored
  <2>6. CASE StreamEnds BY <2>6, StreamEndsMirrored
  <2>7. CASE Flush BY <2>7, FlushMirrored
  <2>8. CASE ApplyEvent BY <2>8, ApplyMirrored
  <2>9. CASE RetryFires BY <2>9, RetryMirrored
  <2>10. CASE ListServed BY <2>10, ListServedMirrored
  <2>11. CASE ListFails BY <2>11, ListFailsMirrored
  <2>12. CASE ReadFinishes BY <2>12, ReadFinishesMirrored
  <2>13. CASE \E uuid \in UUIDs : GetServed(uuid) \/ GetFails(uuid)
    BY <2>13, GetsMirrored
  <2>14. CASE \E uuid \in UUIDs : ParseLands(uuid) \/ ChunkPulled(uuid) \/ PullParks(uuid)
    BY <2>14, ChunkMirrored
  <2>15. CASE UNCHANGED vars
    <3>1. UNCHANGED <<sync, batch, store, missed>> BY <2>15 DEF vars
    <3>2. Mirrored(sync', batch', store', missed') BY <3>1 DEF MirrorInv
    <3> QED BY <3>2 DEF MirrorInv
  <2> QED
    BY <2>1, <2>2, <2>3, <2>4, <2>5, <2>6, <2>7, <2>8, <2>9, <2>10, <2>11, <2>12,
       <2>13, <2>14, <2>15
    DEF Next
<1>2. MirrorInv => MirrorsStore
  <2> SUFFICES ASSUME MirrorInv, Quiet, NEW uuid \in UUIDs \ missed
               PROVE  IF store[uuid] = Absent THEN sync.entities[uuid] = Absent
                      ELSE Shows(sync.entities[uuid], store[uuid])
    BY DEF MirrorsStore
  <2>1. /\ batch = <<>> /\ Heard(sync) /\ ~Reading(sync) /\ ~Unread(sync)
        /\ uuid \notin sync.dirtyUUIDs
    BY DEF Quiet, Idle, Heard, Reading, Unread
  <2>2. batch \o Coming(sync) = <<>>
    <3>1. Coming(sync) = <<>> \o <<>> BY DEF Quiet, Coming
    <3> QED BY <2>1, <3>1
  <2>3. Known(sync, batch, uuid, store[uuid])
    BY <2>1 DEF MirrorInv, Mirrored, HeardInOrder
  <2>4. Follows(sync.entities[uuid], <<>>, uuid, store[uuid])
    BY <2>1, <2>2, <2>3 DEF Known
  <2> QED BY <2>4, FollowedShown
<1> QED BY InvHolds, MirrorStarts, <1>1, <1>2, PTL DEF Spec

=============================================================================
