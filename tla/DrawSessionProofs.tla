-------------------------- MODULE DrawSessionProofs --------------------------
(***************************************************************************)
(* Theorems of DrawSession, for every set of ports, callers and drawings   *)
(* and every bound: first of the server the calls go to, whose invariant   *)
(* is stated by what the lock is held for, then of the recordings.         *)
(***************************************************************************)
EXTENDS DrawSession, SequenceTheorems, TLAPS

---------------------------------------------------------------------------
(* The server.                                                             *)

\* What the session does to the server: one of its steps, or nothing.
ServerNext ==
    \/ \E port \in Ports :
         \/ StartAttaches(port)
         \/ \E production \in BOOLEAN : StartListens(port, production)
         \/ StartRefused(port)
    \/ \E n \in Own : ReadsServer(n) \/ Panics(n) \/ Serve(n)
    \/ StaticListens \/ StaticFails \/ StartUndone \/ StartReturns
    \/ AttachDefault
    \/ StopAttached \/ StopShuts \/ StopReturns
    \/ ExternalStarts \/ ExternalStops
    \/ Page

LEMMA SessionIsServer == [Next]_vars => ServerNext \/ UNCHANGED serverVars
<1> SUFFICES ASSUME [Next]_vars PROVE ServerNext \/ UNCHANGED serverVars
  OBVIOUS
<1>1. CASE Lifecycle BY <1>1 DEF Lifecycle, ServerNext
<1>2. CASE Network BY <1>2 DEF Network, ServerNext
<1>3. ASSUME NEW c \in Callers, Api(c) PROVE ServerNext \/ UNCHANGED serverVars
  <2>1. ASSUME NEW request \in Requests, Call(c, request)
        PROVE  ServerNext \/ UNCHANGED serverVars
    BY <2>1 DEF Call, GetClient, ServerNext
  <2>2. CASE Record(c) BY <2>2 DEF Record, GetClient, ServerNext
  <2>3. CASE StopRecord(c) \/ TestRecording(c) \/ WriteEntry(c) \/ Send(c)
    BY <2>3 DEF StopRecord, TestRecording, WriteEntry, Send
  <2>4. CASE GetRecorder(c) \/ StartRecording(c) \/ StartRecordingFails(c)
                \/ StopRecording(c)
    BY <2>4 DEF GetRecorder, StartRecording, StartRecordingFails, StopRecording, Started
  <2> QED BY <1>3, <2>1, <2>2, <2>3, <2>4 DEF Api
<1>4. CASE UNCHANGED vars BY <1>4 DEF vars
<1> QED BY <1>1, <1>2, <1>3, <1>4 DEF Next

\* Servers of this process, the other one and none are three different things.
LEMMA ServersDiffer ==
    /\ Own \subseteq Nat /\ External \notin Own /\ None \notin Own
    /\ External # None
    /\ \A n \in Nat : External \notin 1 .. n /\ None \notin 1 .. n
BY ServersAssumption DEF Own

Made == 1 .. servers

\* The inductive invariant of the server: what the network holds (a server that
\* is not shut down is the package's, and the last one made, so what a goroutine
\* reads is no older than its own) ...
NetworkInv ==
    /\ rpcSrv # None => rpcSrv = servers /\ servers > 0
    /\ serving \subseteq Made /\ shut \subseteq Made
    /\ \A n \in Made : n \notin shut => n = rpcSrv
    /\ \A n \in Own : runner[n] # None => n \in Made /\ runner[n] \in n .. servers
    /\ \A n \in serving : runner[n] # None
    /\ \A port \in Ports :
         /\ listener[port] \in Made \cup {External, None}
         /\ listener[port] \in serving => runner[listener[port]] \notin shut

\* ... whose files are in which temp dir, ...
FilesInv == \A port \in Ports : listener[port] # None => temp[port] = listener[port]

\* ... and what the package says, by what its lock is held for. `Up` is a server
\* that has its port, `Down` one that is being shut down.
Unused == ~running /\ ~attached /\ client = None /\ recorder = None
InUse == running /\ client # None /\ recorder # None
Up == rpcSrv # None /\ rpcSrv \notin shut /\ address \in Ports /\ listener[address] = rpcSrv
Down == rpcSrv # None /\ rpcSrv \in shut

PackageInv ==
    /\ mu = "free" =>
         /\ running => InUse
         /\ running /\ ~attached => Up
         /\ ~running => Unused
         /\ ~running \/ attached => rpcSrv = None
    /\ mu \in {"static", "ready"} => Unused /\ Up
    /\ mu = "undoing" => Unused /\ Down
    /\ mu = "stopping" => InUse /\ ~attached /\ Down
    /\ mu = "crashed" => \A port \in Ports : listener[port] \notin Own

ServerInv == ServerTypeOK /\ NetworkInv /\ PackageInv /\ FilesInv

LEMMA ServerStarts == ServerInit => ServerInv
<1> SUFFICES ASSUME ServerInit PROVE ServerInv OBVIOUS
<1> USE PortsAssumption, ServersAssumption DEF ServerInit
<1>1. ServerTypeOK
  <2>1. page \in Pages BY DEF Pages
  <2>2. 1 \in 1 .. MaxDelay /\ 0 \in 0 .. MaxVisits OBVIOUS
  <2>3. running \in BOOLEAN /\ attached \in BOOLEAN OBVIOUS
  <2>4. /\ listener \in [Ports -> Own \cup {External, None}]
        /\ temp \in [Ports -> Own \cup {External, None}]
    OBVIOUS
  <2>5. /\ rpcSrv \in Own \cup {None} /\ address \in Ports \cup {None}
        /\ runner \in [Own -> Own \cup {None}]
        /\ client \in Clients \cup {None}
        /\ recorder \in (1 .. MaxRecorders) \cup {None}
        /\ recorders \in 0 .. MaxRecorders /\ servers \in 0 .. MaxServers
        /\ serving \subseteq Own /\ shut \subseteq Own
    OBVIOUS
  <2>6. mu \in {"free", "static", "undoing", "ready", "stopping", "crashed"} OBVIOUS
  <2>7. visits \in 0 .. MaxVisits BY <2>2
  <2> QED BY <2>1, <2>3, <2>4, <2>5, <2>6, <2>7 DEF ServerTypeOK
<1>2. NetworkInv BY DEF NetworkInv, Own, Made
<1>3. PackageInv BY DEF PackageInv, Unused
<1>4. FilesInv BY DEF FilesInv
<1> QED BY <1>1, <1>2, <1>3, <1>4 DEF ServerInv

\* Closing listeners frees their ports and no other.
LEMMA FreedPorts ==
  ASSUME ServerTypeOK, NEW closed
  PROVE  /\ Freed(closed) \in [Ports -> Own \cup {External, None}]
         /\ \A port \in Ports :
              Freed(closed)[port] = IF listener[port] \in closed THEN None ELSE listener[port]
BY DEF Freed, ServerTypeOK

---------------------------------------------------------------------------
(* Each step of the server keeps its invariant.                            *)

LEMMA AttachKept ==
  ASSUME ServerInv, NEW port \in Ports, mu = "free", NewClient(port),
         ~running \/ client = None,
         address' = port, attached' = TRUE,
         UNCHANGED <<mu, rpcSrv, network, visits, page>>
  PROVE  ServerInv'
<1> USE PortsAssumption, ServersAssumption DEF network, NewClient
<1>1. ServerTypeOK' BY DEF ServerInv, ServerTypeOK, Clients, Own
<1>2. NetworkInv' BY DEF ServerInv, NetworkInv, Made
<1>3. PackageInv'
  <2>1. ~running /\ rpcSrv = None BY DEF ServerInv, PackageInv, InUse
  <2>2. recorder' # None /\ client' # None
    <3>1. client' \in Clients BY DEF Clients, ServerInv, ServerTypeOK
    <3>2. recorder' \in Nat BY DEF ServerInv, ServerTypeOK
    <3> QED BY <3>1, <3>2, ClientsAssumption
  <2> QED BY <2>1, <2>2 DEF PackageInv, InUse
<1>4. FilesInv' BY DEF ServerInv, FilesInv
<1> QED BY <1>1, <1>2, <1>3, <1>4 DEF ServerInv

LEMMA StartListensKept ==
  ASSUME ServerInv, NEW port \in Ports, NEW production \in BOOLEAN,
         StartListens(port, production)
  PROVE  ServerInv'
<1> USE PortsAssumption, ServersAssumption DEF StartListens
<1>1. /\ servers + 1 \in Own /\ servers' \in 0 .. MaxServers
      /\ servers + 1 \notin Made /\ Made' = Made \cup {servers + 1}
  BY DEF ServerInv, ServerTypeOK, Own, Made
<1>2. /\ listener' \in [Ports -> Own \cup {External, None}]
      /\ temp' \in [Ports -> Own \cup {External, None}]
      /\ \A q \in Ports :
           /\ listener'[q] = IF q = port THEN servers + 1 ELSE listener[q]
           /\ temp'[q] = IF q = port THEN servers + 1 ELSE temp[q]
  BY <1>1 DEF ServerInv, ServerTypeOK
<1>3. Unused /\ rpcSrv = None BY DEF ServerInv, PackageInv
<1>4. ServerTypeOK'
  <2>1. mu' \in {"static", "ready"} OBVIOUS
  <2> QED BY <1>1, <1>2, <2>1 DEF ServerInv, ServerTypeOK
<1>5. NetworkInv'
  <2> USE DEF NetworkInv
  <2>1. /\ rpcSrv' = servers' /\ servers' > 0
        /\ servers \in Nat /\ servers' = servers + 1 /\ servers' \in Made'
    BY <1>1 DEF ServerInv, ServerTypeOK
  <2>2. serving' \subseteq Made' /\ shut' \subseteq Made' BY <1>1 DEF ServerInv
  <2>3. \A n \in Made' : n \notin shut' => n = rpcSrv'
    <3>1. \A n \in Made : n # None BY <2>1, ServersDiffer DEF Made
    <3> QED BY <1>1, <1>3, <2>1, <3>1 DEF ServerInv
  <2>4. \A n \in Own : runner'[n] # None => n \in Made' /\ runner'[n] \in n .. servers'
    BY <1>1, <2>1 DEF ServerInv, Own
  <2>5. \A n \in serving' : runner'[n] # None BY DEF ServerInv
  <2>6. ASSUME NEW q \in Ports
        PROVE /\ listener'[q] \in Made' \cup {External, None}
              /\ listener'[q] \in serving' => runner'[listener'[q]] \notin shut'
    BY <1>1, <1>2 DEF ServerInv
  <2> QED BY <2>1, <2>2, <2>3, <2>4, <2>5, <2>6
<1>6. PackageInv'
  <2>1. mu' \in {"static", "ready"} /\ mu' # "free" OBVIOUS
  <2>2. Unused' BY <1>3 DEF Unused
  <2>3. Up' BY <1>1, <1>2, ServersDiffer DEF Up, ServerInv, NetworkInv
  <2> QED BY <2>1, <2>2, <2>3 DEF PackageInv
<1>7. FilesInv' BY <1>2 DEF ServerInv, FilesInv
<1> QED BY <1>4, <1>5, <1>6, <1>7 DEF ServerInv

LEMMA StartRefusedKept ==
  ASSUME ServerInv, NEW port \in Ports, StartRefused(port)
  PROVE  ServerInv'
<1> USE DEF StartRefused, network
<1>1. ServerTypeOK' BY DEF ServerInv, ServerTypeOK
<1>2. NetworkInv' BY DEF ServerInv, NetworkInv, Made
<1>3. PackageInv' BY DEF ServerInv, PackageInv, Unused
<1>4. FilesInv' BY DEF ServerInv, FilesInv
<1> QED BY <1>1, <1>2, <1>3, <1>4 DEF ServerInv

\* What a goroutine reads is the server that was made last, and not shut down
\* when it was not registered with it before.
LEMMA ReadsServerKept ==
  ASSUME ServerInv, NEW n \in Own, ReadsServer(n)
  PROVE  ServerInv'
<1> USE DEF ReadsServer, singleton
<1>1. /\ runner' \in [Own -> Own \cup {None}]
      /\ \A k \in Own : runner'[k] = IF k = n THEN rpcSrv ELSE runner[k]
  BY DEF ServerInv, ServerTypeOK
<1>2. ServerTypeOK' BY <1>1 DEF ServerInv, ServerTypeOK
<1>3. NetworkInv'
  <2> USE DEF NetworkInv, Made
  <2>1. /\ rpcSrv' # None => rpcSrv' = servers' /\ servers' > 0
        /\ serving' \subseteq Made' /\ shut' \subseteq Made'
        /\ \A k \in Made' : k \notin shut' => k = rpcSrv'
    BY DEF ServerInv
  <2>2. \A k \in Own : runner'[k] # None => k \in Made' /\ runner'[k] \in k .. servers'
    BY <1>1 DEF ServerInv, ServerTypeOK
  <2>3. n \notin serving BY DEF ServerInv
  <2>4. \A k \in serving : k \in Own /\ runner'[k] = runner[k]
    BY <1>1, <2>3 DEF ServerInv, ServerTypeOK
  <2>5. ASSUME NEW q \in Ports
        PROVE /\ listener'[q] \in Made' \cup {External, None}
              /\ listener'[q] \in serving' => runner'[listener'[q]] \notin shut'
    BY <2>4 DEF ServerInv
  <2> QED BY <2>1, <2>2, <2>4, <2>5 DEF ServerInv
<1>4. PackageInv' BY DEF ServerInv, PackageInv, Unused, InUse, Up, Down
<1>5. FilesInv' BY DEF ServerInv, FilesInv
<1> QED BY <1>2, <1>3, <1>4, <1>5 DEF ServerInv

\* Listeners that are closed, whoever registered them, are of no matter.
LEMMA ClosedKept ==
  ASSUME ServerInv, NEW closed \in SUBSET Own, listener' = Freed(closed),
         UNCHANGED <<rpcSrv, servers, runner, shut, temp>>,
         serving' \subseteq Made, serving \subseteq serving',
         \A n \in serving' : runner[n] # None,
         \A n \in serving' \ serving : n \in closed \/ runner[n] \notin shut
  PROVE  /\ listener' \in [Ports -> Own \cup {External, None}]
         /\ \A q \in Ports : listener'[q] \in {listener[q], None}
         /\ NetworkInv' /\ FilesInv'
<1>1. /\ listener' \in [Ports -> Own \cup {External, None}]
      /\ \A q \in Ports :
           listener'[q] = IF listener[q] \in closed THEN None ELSE listener[q]
  BY FreedPorts DEF ServerInv
<1>2. NetworkInv'
  <2> USE DEF NetworkInv, Made
  <2>1. /\ rpcSrv' # None => rpcSrv' = servers' /\ servers' > 0
        /\ serving' \subseteq Made' /\ shut' \subseteq Made'
        /\ \A n \in Made' : n \notin shut' => n = rpcSrv'
        /\ \A n \in Own : runner'[n] # None => n \in Made' /\ runner'[n] \in n .. servers'
        /\ \A n \in serving' : runner'[n] # None
    BY DEF ServerInv
  <2>2. ASSUME NEW q \in Ports
        PROVE /\ listener'[q] \in Made' \cup {External, None}
              /\ listener'[q] \in serving' => runner'[listener'[q]] \notin shut'
    <3>1. CASE listener[q] \in closed
      <4>1. listener'[q] = None BY <1>1, <3>1
      <4>2. None \notin serving'
        <5>1. servers \in Nat BY ServersAssumption DEF ServerInv, ServerTypeOK
        <5>2. None \notin 1 .. servers BY <5>1, ServersDiffer
        <5> QED BY <5>2
      <4> QED BY <4>1, <4>2
    <3>2. CASE listener[q] \notin closed
      <4>1. listener'[q] = listener[q] BY <1>1, <3>2
      <4> QED BY <3>2, <4>1 DEF ServerInv
    <3> QED BY <3>1, <3>2
  <2> QED BY <2>1, <2>2
<1>3. FilesInv' BY <1>1 DEF ServerInv, FilesInv
<1> QED BY <1>1, <1>2, <1>3

LEMMA ServeKept ==
  ASSUME ServerInv, NEW n \in Own, Serve(n)
  PROVE  ServerInv'
<1> USE DEF Serve, singleton
<1> DEFINE closed == IF runner[n] \in shut THEN {n} ELSE {}
<1>1. listener' = Freed(closed)
  <2>1. listener = Freed({}) BY DEF Freed, ServerInv, ServerTypeOK
  <2> QED BY <2>1
<1>2. /\ serving' \subseteq Made /\ serving \subseteq serving'
      /\ \A k \in serving' : runner[k] # None
      /\ \A k \in serving' \ serving : k \in closed \/ runner[k] \notin shut
  BY DEF ServerInv, NetworkInv
<1>3. closed \in SUBSET Own OBVIOUS
<1> HIDE DEF closed
<1>4. /\ listener' \in [Ports -> Own \cup {External, None}]
      /\ \A q \in Ports : listener'[q] \in {listener[q], None}
      /\ NetworkInv' /\ FilesInv'
  BY <1>1, <1>2, <1>3, ClosedKept
<1>5. ServerTypeOK' BY <1>2, <1>4 DEF ServerInv, ServerTypeOK
<1>6. PackageInv'
  <2>1. Up => Up'
    <3>1. SUFFICES ASSUME Up PROVE listener'[address] = rpcSrv BY DEF Up
    <3>2. rpcSrv # n \/ runner[n] \notin shut
      BY <3>1 DEF ServerInv, NetworkInv, Made, Up, ServerTypeOK, Own
    <3>3. rpcSrv \notin closed BY <3>2 DEF closed
    <3> QED BY <1>1, <3>1, <3>3, FreedPorts DEF ServerInv, Up
  <2>2. None \notin Own BY ServersDiffer
  <2> QED BY <1>4, <2>1, <2>2 DEF ServerInv, PackageInv, Unused, InUse, Down
<1> QED BY <1>4, <1>5, <1>6 DEF ServerInv

\* The end of the process closes all of its listeners.
LEMMA PanicsKept ==
  ASSUME ServerInv, NEW n \in Own, Panics(n)
  PROVE  ServerInv'
<1> USE DEF Panics, singleton
<1>1. /\ listener' \in [Ports -> Own \cup {External, None}]
      /\ NetworkInv' /\ FilesInv'
  <2>1. \A k \in serving : runner[k] # None BY DEF ServerInv, NetworkInv
  <2> QED BY <2>1, ClosedKept DEF ServerInv, NetworkInv
<1>2. \A port \in Ports : listener'[port] \notin Own
  BY FreedPorts, ServersDiffer DEF ServerInv
<1>3. ServerTypeOK' BY <1>1 DEF ServerInv, ServerTypeOK
<1>4. PackageInv' BY <1>2 DEF PackageInv
<1> QED BY <1>1, <1>3, <1>4 DEF ServerInv

LEMMA StaticListensKept ==
  ASSUME ServerInv, StaticListens
  PROVE  ServerInv'
<1> USE DEF StaticListens, singleton, network
<1>1. ServerTypeOK' BY DEF ServerInv, ServerTypeOK
<1>2. NetworkInv' BY DEF ServerInv, NetworkInv, Made
<1>3. PackageInv' BY DEF ServerInv, PackageInv, Unused, Up
<1>4. FilesInv' BY DEF ServerInv, FilesInv
<1> QED BY <1>1, <1>2, <1>3, <1>4 DEF ServerInv

\* Shutting the package's server down, by a Start that fails and by Stop.
LEMMA ShutdownKept ==
  ASSUME ServerInv, Up, Shutdown(rpcSrv),
         UNCHANGED <<singleton, servers, runner, serving, temp, visits, page>>,
         mu' \in {"undoing", "stopping"}
  PROVE  ServerTypeOK' /\ NetworkInv' /\ Down' /\ FilesInv'
<1> USE DEF Shutdown, singleton
<1> DEFINE closed == {n \in serving : runner[n] = rpcSrv}
<1>1. /\ listener' \in [Ports -> Own \cup {External, None}]
      /\ \A q \in Ports :
           listener'[q] = IF listener[q] \in closed THEN None ELSE listener[q]
  BY FreedPorts DEF ServerInv
<1>2. rpcSrv \in Own /\ rpcSrv \in Made /\ Made' = Made
  BY DEF ServerInv, ServerTypeOK, NetworkInv, Up, Made
<1>3. ServerTypeOK'
  <2>1. mu' \in {"free", "static", "undoing", "ready", "stopping", "crashed"} OBVIOUS
  <2>2. UNCHANGED runner OBVIOUS
  <2> QED BY <1>1, <1>2, <2>1, <2>2 DEF ServerInv, ServerTypeOK
<1>4. NetworkInv'
  <2> USE DEF NetworkInv
  <2>1. /\ rpcSrv' # None => rpcSrv' = servers' /\ servers' > 0
        /\ serving' \subseteq Made' /\ shut' \subseteq Made'
        /\ \A n \in Made' : n \notin shut' => n = rpcSrv'
        /\ \A n \in Own : runner'[n] # None => n \in Made' /\ runner'[n] \in n .. servers'
        /\ \A n \in serving' : runner'[n] # None
    BY <1>2 DEF ServerInv
  <2>2. ASSUME NEW q \in Ports
        PROVE /\ listener'[q] \in Made' \cup {External, None}
              /\ listener'[q] \in serving' => runner'[listener'[q]] \notin shut'
    <3>1. CASE listener[q] \in closed
      <4>1. listener'[q] = None BY <1>1, <3>1
      <4>2. None \notin serving' BY ServersDiffer DEF ServerInv, ServerTypeOK
      <4> QED BY <4>1, <4>2
    <3>2. CASE listener[q] \notin closed
      <4>1. listener'[q] = listener[q] BY <1>1, <3>2
      <4>2. listener[q] \in serving => runner[listener[q]] # rpcSrv BY <3>2
      <4> QED BY <1>2, <4>1, <4>2 DEF ServerInv
    <3> QED BY <3>1, <3>2
  <2> QED BY <2>1, <2>2
<1>5. Down' BY <1>2, ServersDiffer DEF Down, Up
<1>6. FilesInv' BY <1>1 DEF ServerInv, FilesInv
<1> QED BY <1>3, <1>4, <1>5, <1>6

LEMMA StaticFailsKept ==
  ASSUME ServerInv, StaticFails
  PROVE  ServerInv'
<1>1. Unused /\ Up BY DEF StaticFails, ServerInv, PackageInv
<1>2. ServerTypeOK' /\ NetworkInv' /\ Down' /\ FilesInv'
  BY <1>1, ShutdownKept DEF StaticFails
<1>3. PackageInv'
  BY <1>1, <1>2 DEF StaticFails, singleton, PackageInv, Unused
<1> QED BY <1>2, <1>3 DEF ServerInv

LEMMA StopShutsKept ==
  ASSUME ServerInv, StopShuts
  PROVE  ServerInv'
<1>1. InUse /\ Up BY DEF StopShuts, ServerInv, PackageInv
<1>2. ServerTypeOK' /\ NetworkInv' /\ Down' /\ FilesInv'
  BY <1>1, ShutdownKept DEF StopShuts
<1>3. PackageInv'
  BY <1>1, <1>2 DEF StopShuts, singleton, PackageInv, InUse
<1> QED BY <1>2, <1>3 DEF ServerInv

\* The server that was shut down is let go.
LEMMA LetGoKept ==
  ASSUME ServerInv, Down, rpcSrv' = None, mu' = "free", UNCHANGED <<network, visits, page>>,
         UNCHANGED recorders, Unused', address' \in Ports \cup {None},
         running' \in BOOLEAN, attached' \in BOOLEAN
  PROVE  ServerInv'
<1> USE DEF network
<1>1. ServerTypeOK'
  <2>1. mu' \in {"free", "static", "undoing", "ready", "stopping", "crashed"} OBVIOUS
  <2>2. client' \in Clients \cup {None} /\ recorder' \in (1 .. MaxRecorders) \cup {None}
    BY DEF Unused
  <2> QED BY <2>1, <2>2 DEF ServerInv, ServerTypeOK
<1>2. NetworkInv' BY ServersDiffer DEF ServerInv, NetworkInv, Made, Down
<1>3. PackageInv' BY DEF PackageInv, Unused
<1>4. FilesInv' BY DEF ServerInv, FilesInv
<1> QED BY <1>1, <1>2, <1>3, <1>4 DEF ServerInv

LEMMA StartUndoneKept ==
  ASSUME ServerInv, StartUndone
  PROVE  ServerInv'
<1>1. Unused /\ Down BY DEF StartUndone, ServerInv, PackageInv
<1>2. /\ Unused' /\ address' \in Ports \cup {None}
      /\ running' \in BOOLEAN /\ attached' \in BOOLEAN
  BY <1>1 DEF StartUndone, Unused, ServerInv, ServerTypeOK
<1> QED BY <1>1, <1>2, LetGoKept DEF StartUndone

LEMMA StopReturnsKept ==
  ASSUME ServerInv, StopReturns
  PROVE  ServerInv'
<1>1. ~attached /\ Down BY DEF StopReturns, ServerInv, PackageInv
<1>2. /\ Unused' /\ address' \in Ports \cup {None}
      /\ running' \in BOOLEAN /\ attached' \in BOOLEAN
  BY <1>1 DEF StopReturns, Reset, Unused, ServerInv, ServerTypeOK
<1> QED BY <1>1, <1>2, LetGoKept DEF StopReturns, Reset

LEMMA StartReturnsKept ==
  ASSUME ServerInv, StartReturns
  PROVE  ServerInv'
<1> USE PortsAssumption, ServersAssumption DEF StartReturns, NewClient, network
<1>1. Unused /\ Up BY DEF ServerInv, PackageInv
<1>2. client' \in Clients /\ recorder' \in 1 .. MaxRecorders /\ recorders' \in 0 .. MaxRecorders
  BY <1>1 DEF ServerInv, ServerTypeOK, Clients, Up
<1>3. ServerTypeOK' BY <1>2 DEF ServerInv, ServerTypeOK
<1>4. NetworkInv' BY DEF ServerInv, NetworkInv, Made
<1>5. PackageInv'
  <2>1. InUse'
    <3>1. client' # None BY <1>2, ClientsAssumption
    <3>2. recorder' # None BY <1>2
    <3> QED BY <3>1, <3>2 DEF InUse
  <2>2. Up' /\ ~attached' BY <1>1 DEF Up, Unused
  <2> QED BY <2>1, <2>2 DEF PackageInv
<1>6. FilesInv' BY DEF ServerInv, FilesInv
<1> QED BY <1>3, <1>4, <1>5, <1>6 DEF ServerInv

LEMMA StopAttachedKept ==
  ASSUME ServerInv, StopAttached
  PROVE  ServerInv'
<1> USE DEF StopAttached, Reset, network
<1>1. rpcSrv = None BY DEF ServerInv, PackageInv
<1>2. Unused' BY DEF Unused
<1>3. ServerTypeOK'
  <2>1. running' \in BOOLEAN /\ attached' \in BOOLEAN OBVIOUS
  <2> QED BY <2>1 DEF ServerInv, ServerTypeOK
<1>4. NetworkInv' BY DEF ServerInv, NetworkInv, Made
<1>5. PackageInv' BY <1>1, <1>2 DEF PackageInv, Unused
<1>6. FilesInv' BY DEF ServerInv, FilesInv
<1> QED BY <1>3, <1>4, <1>5, <1>6 DEF ServerInv

\* The other process takes the default port when nobody has it, and lets it go.
LEMMA ExternalKept ==
  ASSUME ServerInv, ExternalStarts \/ ExternalStops
  PROVE  ServerInv'
<1> USE PortsAssumption, ServersAssumption DEF singleton
<1> DEFINE there == IF ExternalStarts THEN External ELSE None
<1>0. /\ UNCHANGED <<mu, singleton, servers, runner, serving, shut, page>>
      /\ visits' \in 0 .. MaxVisits
  BY DEF ServerInv, ServerTypeOK, ExternalStarts, ExternalStops
<1>1. /\ listener' \in [Ports -> Own \cup {External, None}]
      /\ temp' \in [Ports -> Own \cup {External, None}]
      /\ listener[DefaultPort] \in {External, None}
      /\ \A q \in Ports : listener'[q] = IF q = DefaultPort THEN there ELSE listener[q]
      /\ \A q \in Ports : temp'[q] = temp[q] \/ listener'[q] = temp'[q]
      /\ \A q \in Ports : q # DefaultPort => temp'[q] = temp[q]
  <2>1. CASE ExternalStarts BY <2>1 DEF ServerInv, ServerTypeOK, ExternalStarts
  <2>2. CASE ~ExternalStarts BY <2>2 DEF ServerInv, ServerTypeOK, ExternalStops
  <2> QED BY <2>1, <2>2
<1>2. ServerTypeOK' BY <1>0, <1>1 DEF ServerInv, ServerTypeOK
<1>3. there \in {External, None} OBVIOUS
<1> HIDE DEF there
<1>4. NetworkInv'
  <2> USE DEF NetworkInv, Made
  <2>1. /\ rpcSrv' # None => rpcSrv' = servers' /\ servers' > 0
        /\ serving' \subseteq Made' /\ shut' \subseteq Made'
        /\ \A n \in Made' : n \notin shut' => n = rpcSrv'
        /\ \A n \in Own : runner'[n] # None => n \in Made' /\ runner'[n] \in n .. servers'
        /\ \A n \in serving' : runner'[n] # None
    BY <1>0 DEF ServerInv
  <2>2. ASSUME NEW q \in Ports
        PROVE /\ listener'[q] \in Made' \cup {External, None}
              /\ listener'[q] \in serving' => runner'[listener'[q]] \notin shut'
    <3>1. CASE q = DefaultPort
      <4>1. listener'[q] \in {External, None} BY <1>1, <1>3, <3>1
      <4>2. listener'[q] \notin Own BY <4>1, ServersDiffer
      <4>3. serving' \subseteq Own BY <1>2 DEF ServerTypeOK
      <4> QED BY <4>1, <4>2, <4>3
    <3>2. CASE q # DefaultPort BY <1>0, <1>1, <3>2 DEF ServerInv
    <3> QED BY <3>1, <3>2
  <2> QED BY <2>1, <2>2
<1>5. PackageInv'
  <2>1. Up => Up'
    <3>1. Up => address # DefaultPort
      BY <1>1, ServersDiffer DEF Up, ServerInv, ServerTypeOK
    <3> QED BY <1>0, <1>1, <3>1 DEF Up
  <2>2. (\A q \in Ports : listener[q] \notin Own) => \A q \in Ports : listener'[q] \notin Own
    BY <1>1, <1>3, ServersDiffer
  <2> QED BY <1>0, <2>1, <2>2 DEF ServerInv, PackageInv, Unused, InUse, Down
<1>6. FilesInv'
  <2>1. CASE ExternalStarts
    BY <2>1 DEF ServerInv, ServerTypeOK, ExternalStarts, FilesInv
  <2>2. CASE ExternalStops
    BY <2>2 DEF ServerInv, ServerTypeOK, ExternalStops, FilesInv
  <2> QED BY <2>1, <2>2
<1> QED BY <1>2, <1>4, <1>5, <1>6 DEF ServerInv

LEMMA PageKept ==
  ASSUME ServerInv, Page
  PROVE  ServerInv'
<1> USE ServersAssumption DEF lifecycle, singleton, network
<1>1. UNCHANGED <<lifecycle, visits>>
  BY DEF Page, PageConnects, PageRefused, PageHears, PageOverflows, PageCut, PageWakes
<1>2. page' \in Pages
  <2>1. page \in Pages /\ listener \in [Ports -> Own \cup {External, None}]
    BY DEF ServerInv, ServerTypeOK
  <2>2. Backoff(page) \in Pages
    <3>1. page.delay \in 1 .. MaxDelay BY <2>1 DEF Pages
    <3>2. (IF 2 * page.delay > MaxDelay THEN MaxDelay ELSE 2 * page.delay) \in 1 .. MaxDelay
      BY <3>1
    <3> QED BY <2>1, <3>2 DEF Pages, Backoff
  <2>3. 1 \in 1 .. MaxDelay OBVIOUS
  <2>4. CASE PageConnects
    <3>1. Answering(DefaultPort) \in Own \cup {External, None}
      BY <2>1, PortsAssumption DEF Answering, ServerInv, ServerTypeOK
    <3> QED BY <2>1, <2>4, <3>1 DEF PageConnects, Pages
  <2>5. CASE PageRefused \/ PageCut BY <2>2, <2>5 DEF PageRefused, PageCut
  <2>6. CASE PageHears BY <2>1, <2>3, <2>6 DEF PageHears, Pages
  <2>7. CASE PageOverflows BY <2>1, <2>3, <2>7 DEF PageOverflows, Pages
  <2>8. CASE PageWakes BY <2>1, <2>8 DEF PageWakes, Pages
  <2> QED BY <2>4, <2>5, <2>6, <2>7, <2>8 DEF Page
<1>3. ServerTypeOK' BY <1>1, <1>2 DEF ServerInv, ServerTypeOK
<1>4. NetworkInv' BY <1>1 DEF ServerInv, NetworkInv, Made
<1>5. PackageInv' BY <1>1 DEF ServerInv, PackageInv, Unused, InUse, Up, Down
<1>6. FilesInv' BY <1>1 DEF ServerInv, FilesInv
<1> QED BY <1>3, <1>4, <1>5, <1>6 DEF ServerInv

LEMMA ServerKept ==
  ASSUME ServerInv, ServerNext \/ UNCHANGED serverVars
  PROVE  ServerInv'
<1>1. ASSUME NEW port \in Ports, StartAttaches(port) PROVE ServerInv'
  BY <1>1, AttachKept DEF StartAttaches
<1>2. ASSUME NEW port \in Ports, NEW production \in BOOLEAN, StartListens(port, production)
      PROVE  ServerInv'
  BY <1>2, StartListensKept
<1>3. ASSUME NEW port \in Ports, StartRefused(port) PROVE ServerInv'
  BY <1>3, StartRefusedKept
<1>4. ASSUME NEW n \in Own, ReadsServer(n) \/ Panics(n) \/ Serve(n) PROVE ServerInv'
  BY <1>4, ReadsServerKept, PanicsKept, ServeKept
<1>5. CASE StaticListens BY <1>5, StaticListensKept
<1>6. CASE StaticFails BY <1>6, StaticFailsKept
<1>7. CASE StartUndone BY <1>7, StartUndoneKept
<1>8. CASE StartReturns BY <1>8, StartReturnsKept
<1>9. CASE AttachDefault BY <1>9, AttachKept, PortsAssumption DEF AttachDefault
<1>10. CASE StopAttached BY <1>10, StopAttachedKept
<1>11. CASE StopShuts BY <1>11, StopShutsKept
<1>12. CASE StopReturns BY <1>12, StopReturnsKept
<1>13. CASE ExternalStarts \/ ExternalStops BY <1>13, ExternalKept
<1>14. CASE Page BY <1>14, PageKept
<1>15. CASE UNCHANGED serverVars
  BY <1>15 DEF serverVars, lifecycle, singleton, network, ServerInv, ServerTypeOK,
       NetworkInv, Made, PackageInv, Unused, InUse, Up, Down, FilesInv
<1> QED
  BY <1>1, <1>2, <1>3, <1>4, <1>5, <1>6, <1>7, <1>8, <1>9, <1>10, <1>11, <1>12,
     <1>13, <1>14, <1>15 DEF ServerNext

LEMMA ServerAlways == Spec => []ServerInv
<1>1. Init => ServerInv BY ServerStarts DEF Init
<1>2. ServerInv /\ [Next]_vars => ServerInv' BY SessionIsServer, ServerKept
<1> QED BY <1>1, <1>2, PTL DEF Spec

\* Whoever of this process answers on a port is the package's server, which has
\* the files of its own port.
LEMMA WhoAnswers ==
  ASSUME ServerInv, NEW port \in Ports
  PROVE  /\ Answering(port) \in {rpcSrv, External, None}
         /\ Answering(port) # None => \E home \in Ports : temp[home] = Answering(port)
<1>1. CASE listener[port] \in serving
  <2>1. /\ listener[port] \in Own
        /\ runner[listener[port]] \in Own /\ runner[listener[port]] \in Made
        /\ runner[listener[port]] \notin shut
    <3>1. listener[port] \in Own /\ listener[port] \in Nat
      BY <1>1, ServersDiffer DEF ServerInv, ServerTypeOK
    <3>2. /\ runner[listener[port]] # None /\ runner[listener[port]] \notin shut
          /\ runner[listener[port]] \in listener[port] .. servers
      BY <1>1, <3>1 DEF ServerInv, NetworkInv
    <3>3. runner[listener[port]] \in Own BY <3>1, <3>2 DEF ServerInv, ServerTypeOK
    <3>4. listener[port] \in 1 .. servers BY <1>1 DEF ServerInv, NetworkInv, Made
    <3> QED BY <3>1, <3>2, <3>3, <3>4 DEF Made
  <2>2. Answering(port) = rpcSrv /\ rpcSrv \in Own /\ rpcSrv \notin shut
    BY <1>1, <2>1 DEF Answering, ServerInv, NetworkInv
  <2>3. Up
    BY <2>1, <2>2, ServersDiffer DEF ServerInv, PackageInv, ServerTypeOK, Down
  <2>4. temp[address] = rpcSrv BY <2>3 DEF Up, ServerInv, FilesInv
  <2> QED BY <2>2, <2>3, <2>4 DEF Up
<1>2. CASE listener[port] \notin serving
  <2>1. CASE listener[port] = External
    <3>1. temp[port] = External /\ Answering(port) = External
      BY <1>2, <2>1, ServersAssumption DEF ServerInv, FilesInv, Answering
    <3> QED BY <3>1
  <2>2. CASE listener[port] # External BY <1>2, <2>2 DEF Answering
  <2> QED BY <2>1, <2>2
<1> QED BY <1>1, <1>2

\* Outside Start and Stop the package's variables agree with the network, in
\* whatever order servers start, fail, are shut down, and their goroutines get to
\* read rpcSrv and to Serve, and whatever the other process does
\* (client/server/server.go).
THEOREM ServersAnswer == Spec => []OwnServerAnswers
<1>1. ServerInv => OwnServerAnswers
  <2> SUFFICES ASSUME ServerInv, mu = "free" PROVE OwnServerAnswers
    BY DEF OwnServerAnswers
  <2>1. ASSUME running, ~attached
        PROVE  /\ rpcSrv # None /\ listener[address] = rpcSrv
               /\ runner[rpcSrv] \in {rpcSrv, None}
    <3>1. Up BY <2>1 DEF ServerInv, PackageInv
    <3>2. rpcSrv \in Own /\ rpcSrv = servers /\ servers \in Nat
      BY <3>1 DEF Up, ServerInv, NetworkInv, ServerTypeOK
    <3>3. runner[rpcSrv] # None => runner[rpcSrv] \in servers .. servers
      BY <3>2 DEF ServerInv, NetworkInv
    <3> QED BY <3>1, <3>2, <3>3 DEF Up
  <2>2. /\ ~running => client = None /\ recorder = None /\ ~attached
        /\ ~running \/ attached => rpcSrv = None
    BY DEF ServerInv, PackageInv, Unused
  <2>3. ASSUME NEW port \in Ports
        PROVE  /\ Answering(port) \in {rpcSrv, External, None}
               /\ listener[port] \in Own \ {rpcSrv} => listener[port] \in shut
    <3>1. listener[port] \in Own => listener[port] \in Made
      BY ServersDiffer DEF ServerInv, NetworkInv
    <3> QED BY <3>1, WhoAnswers DEF ServerInv, NetworkInv
  <2> QED BY <2>1, <2>2, <2>3 DEF OwnServerAnswers
<1> QED BY <1>1, ServerAlways, PTL

\* No server's chunk files are deleted while it listens or answers: the temp dir
\* of a port is always that of whoever listens there.
THEOREM ChunkFilesKept == Spec => []ChunksKept
<1>1. ServerInv => ChunksKept BY WhoAnswers DEF ServerInv, FilesInv, ChunksKept
<1> QED BY <1>1, ServerAlways, PTL

\* No wait of the page gets shorter but by what an open connection brings
\* (reconnect.ts): a server that accepts and drops does not defeat the backoff.
THEOREM BackoffIsKept == Spec => BackoffHolds
<1>1. ServerInv /\ [Next]_vars
        => [page'.delay < page.delay => page.phase = "open"]_page
  <2> SUFFICES ASSUME ServerInv, [Next]_vars, page' # page, page'.delay < page.delay
               PROVE  page.phase = "open"
    OBVIOUS
  <2>1. /\ page \in Pages /\ listener \in [Ports -> Own \cup {External, None}]
        /\ page.delay \in 1 .. MaxDelay
    BY DEF ServerInv, ServerTypeOK, Pages
  <2>2. Page
    BY SessionIsServer DEF ServerNext, StartAttaches, StartListens, StartRefused, ReadsServer,
      Panics, Serve,
      StaticListens, StaticFails, StartUndone, StartReturns, AttachDefault, StopAttached,
      StopShuts, StopReturns, Reset, ExternalStarts, ExternalStops, serverVars
  <2>3. CASE PageRefused \/ PageCut
    <3>1. page'.delay = IF 2 * page.delay > MaxDelay THEN MaxDelay ELSE 2 * page.delay
      BY <2>1, <2>3 DEF PageRefused, PageCut, Backoff, Pages
    <3> QED BY <2>1, <3>1, ServersAssumption
  <2>4. CASE PageConnects BY <2>1, <2>4 DEF PageConnects, Pages
  <2>5. CASE PageWakes BY <2>1, <2>5 DEF PageWakes, Pages
  <2>6. CASE PageHears \/ PageOverflows BY <2>6 DEF PageHears, PageOverflows
  <2> QED BY <2>2, <2>3, <2>4, <2>5, <2>6 DEF Page
<1> QED BY <1>1, ServerAlways, PTL DEF BackoffHolds, Spec

---------------------------------------------------------------------------
(* What a recording replays.                                               *)

\* A recording with one call more, if it replays, replays as that call, which was
\* made on what the calls before it leave; and those replay, too.
LEMMA ReplayedMore ==
  ASSUME NEW file \in Seq(Requests), NEW request \in Requests,
         ~ReplayFails(Append(file, request))
  PROVE  /\ Replayed(Append(file, request)) = Drawn(request)
         /\ ~Refused(request, Replayed(file))
         /\ ~ReplayFails(file)
<1> DEFINE longer == Append(file, request)
<1>1. /\ Len(file) \in Nat /\ Len(longer) = Len(file) + 1
      /\ DOMAIN file = 1 .. Len(file) /\ DOMAIN longer = 1 .. Len(file) + 1
      /\ longer[Len(file) + 1] = request
      /\ \A i \in 1 .. Len(file) : longer[i] = file[i]
  OBVIOUS
<1> HIDE DEF longer
<1>2. \A i \in 1 .. Len(file) + 1 : Before(longer, i) = Before(file, i)
  BY <1>1 DEF Before
<1>3. Replayed(longer) = Drawn(request) BY <1>1 DEF Replayed, Before
<1>4. Before(longer, Len(file) + 1) = Replayed(file) BY <1>1, <1>2 DEF Replayed
<1>5. ~ReplayFails(longer) BY DEF longer
<1>6. ~Refused(request, Replayed(file)) BY <1>1, <1>4, <1>5 DEF ReplayFails
<1>7. ~ReplayFails(file) BY <1>1, <1>2, <1>5 DEF ReplayFails
<1> QED BY <1>3, <1>6, <1>7 DEF longer

LEMMA ReplayedNothing == Replayed(<<>>) = None
BY DEF Replayed, Before

---------------------------------------------------------------------------
(* The calls and their recordings.                                         *)

\* The inductive invariant of the session. A client goes with its recorder, a
\* recorder not made yet has no recording, ...
RecorderInv ==
    /\ client = None <=> recorder = None
    /\ client # None => client.recorder = recorder
    /\ recorder # None => recorder \in 1 .. recorders
    /\ \A r \in 1 .. MaxRecorders : r > recorders => open[r] = 0

\* ... a caller has what its stage needs, and the scene it cleared is empty, ...
CallInv ==
    \A c \in Callers :
        /\ Busy(c) => calls[c].client # None
        /\ calls[c].client # None => calls[c].client.recorder <= recorders
        /\ calls[c].at \in {"start", "stop"} => calls[c].recorder # None
        /\ calls[c].recorder # None => calls[c].recorder <= recorders
        /\ calls[c].then = "record" => calls[c].request = Clear
        /\ calls[c].cleared # None => scene[calls[c].cleared] = None

\* ... and the recording that is on is one call ahead of the scene or in step
\* with it: one caller at most is busy, with the client of this recorder, and
\* between its entry and its execution the recording leads.
Recorded == recorder # None /\ open[recorder] # 0 /\ base[open[recorder]] # None
Sending(c) == calls[c].at = "send"

RecordingInv ==
    Recorded =>
        LET file == files[open[recorder]]
        IN /\ \A c, d \in Callers : Busy(c) /\ Busy(d) => c = d
           /\ \A c \in Callers : Busy(c) => calls[c].client.recorder = recorder
           /\ (\A c \in Callers : ~Sending(c)) =>
                ReplayFails(file) \/ Replayed(file) = scene[base[open[recorder]]]
           /\ \A c \in Callers : Sending(c) =>
                \/ ReplayFails(file)
                \/ /\ Replayed(file) = Drawn(calls[c].request)
                   /\ ~Refused(calls[c].request, scene[base[open[recorder]]])

SessionInv == TypeOK /\ RecorderInv /\ CallInv /\ RecordingInv

LEMMA RequestsTyped == Clear \in Requests /\ None \notin Drawings
BY SessionAssumption DEF Requests

LEMMA RestingTyped ==
    /\ Resting \in Caller
    /\ Resting.client = None /\ Resting.recorder = None /\ Resting.cleared = None
    /\ Resting.at = "rest" /\ Resting.then = "none"
BY RequestsTyped DEF Resting, Caller, Stages

LEMMA SessionStarts == Init => SessionInv
<1> SUFFICES ASSUME Init PROVE SessionInv OBVIOUS
<1> USE SessionAssumption, ServersAssumption DEF Init
<1>1. TypeOK
  <2>1. ServerTypeOK BY ServerStarts DEF ServerInv
  <2>2. calls \in [Callers -> Caller] BY RestingTyped
  <2>3. /\ files \in Seq(Seq(Requests)) /\ Len(files) = 0
        /\ open \in [1 .. MaxRecorders -> 0 .. Len(files)]
    OBVIOUS
  <2> QED BY <2>1, <2>2, <2>3 DEF TypeOK
<1>2. RecorderInv BY DEF RecorderInv, ServerInit
<1>3. CallInv BY RestingTyped DEF CallInv, Busy
<1>4. RecordingInv BY DEF RecordingInv, Recorded, ServerInit
<1> QED BY <1>1, <1>2, <1>3, <1>4 DEF SessionInv

\* What a step of the server does to the client and its recorder.
SameClient == UNCHANGED <<client, recorder, recorders>>
NoClient == client' = None /\ recorder' = None /\ recorders' = recorders
AnotherClient ==
    /\ recorders' = recorders + 1 /\ recorder' = recorders + 1
    /\ recorders + 1 \in 1 .. MaxRecorders
    /\ client' \in Clients /\ client' # None /\ client'.recorder = recorders + 1

LEMMA ClientSteps ==
  ASSUME ServerInv, ServerNext \/ UNCHANGED serverVars
  PROVE  SameClient \/ NoClient \/ AnotherClient
<1>1. ASSUME NEW port \in Ports, NewClient(port) PROVE AnotherClient
  <2>1. recorders + 1 \in 1 .. MaxRecorders
    BY <1>1, ServersAssumption DEF NewClient, ServerInv, ServerTypeOK
  <2>2. client' \in Clients /\ client'.recorder = recorders + 1
    BY <1>1, <2>1 DEF NewClient, Clients
  <2> QED BY <1>1, <2>1, <2>2, ClientsAssumption DEF NewClient, AnotherClient
<1>2. ASSUME NEW port \in Ports, StartAttaches(port) PROVE AnotherClient
  BY <1>1, <1>2 DEF StartAttaches
<1>3. CASE AttachDefault BY <1>1, <1>3, PortsAssumption DEF AttachDefault
<1>4. CASE StartReturns
  BY <1>1, <1>4 DEF StartReturns, ServerInv, PackageInv, Up
<1>5. CASE StopAttached BY <1>5 DEF StopAttached, Reset, NoClient
<1>6. CASE StopReturns BY <1>6 DEF StopReturns, Reset, NoClient
<1>7. ASSUME NEW port \in Ports, NEW production \in BOOLEAN,
             StartListens(port, production) \/ StartRefused(port)
      PROVE  SameClient
  BY <1>7 DEF StartListens, StartRefused, SameClient
<1>8. ASSUME NEW n \in Own, ReadsServer(n) \/ Panics(n) \/ Serve(n) PROVE SameClient
  BY <1>8 DEF ReadsServer, Panics, Serve, singleton, SameClient
<1>9. CASE StaticListens \/ StaticFails \/ StartUndone \/ StopShuts
  BY <1>9 DEF StaticListens, StaticFails, StartUndone, StopShuts, singleton, SameClient
<1>10. CASE ExternalStarts \/ ExternalStops
  BY <1>10 DEF ExternalStarts, ExternalStops, singleton, SameClient
<1>11. CASE Page
  BY <1>11 DEF Page, PageConnects, PageRefused, PageHears, PageOverflows, PageCut,
    PageWakes, lifecycle, singleton, SameClient
<1>12. CASE UNCHANGED serverVars
  BY <1>12 DEF serverVars, lifecycle, singleton, SameClient
<1>13. TRUE \in BOOLEAN OBVIOUS
<1> QED
  BY <1>2, <1>3, <1>4, <1>5, <1>6, <1>7, <1>8, <1>9, <1>10, <1>11, <1>12, <1>13
  DEF ServerNext

\* A client is kept with its recorder through all of them.
LEMMA RecorderKept ==
  ASSUME SessionInv, ServerInv', SameClient \/ NoClient \/ AnotherClient,
         open' \in [1 .. MaxRecorders -> Nat],
         \A r \in 1 .. MaxRecorders : r > recorders => open'[r] = 0
  PROVE  RecorderInv'
<1>1. recorders \in Nat /\ recorders' \in Nat /\ recorders' >= recorders
  BY ServersAssumption DEF SessionInv, TypeOK, ServerTypeOK, ServerInv, SameClient,
    NoClient, AnotherClient
<1>2. \A r \in 1 .. MaxRecorders : r > recorders' => open'[r] = 0
  BY <1>1, ServersAssumption
<1>3. CASE SameClient BY <1>2, <1>3 DEF SessionInv, RecorderInv, SameClient
<1>4. CASE NoClient BY <1>2, <1>4 DEF SessionInv, RecorderInv, NoClient
<1>5. CASE AnotherClient
  <2>1. recorder' # None BY <1>5, ServersAssumption DEF AnotherClient
  <2> QED BY <1>1, <1>2, <1>5, <2>1 DEF RecorderInv, AnotherClient
<1> QED BY <1>3, <1>4, <1>5

---------------------------------------------------------------------------
(* Each step of the session keeps its invariant.                           *)

\* The lifecycle leaves the calls and the files alone; a client that comes has a
\* recorder with no recording.
LEMMA LifecycleKept ==
  ASSUME SessionInv, ServerInv', SameClient \/ NoClient \/ AnotherClient,
         Keeps \/ (Closes /\ NoClient)
  PROVE  SessionInv'
<1> USE DEF Keeps, Closes, sessionVars
<1>1. /\ UNCHANGED <<scene, calls, made, files, base>>
      /\ open' \in [1 .. MaxRecorders -> 0 .. Len(files)]
      /\ \A r \in 1 .. MaxRecorders : open'[r] = 0 \/ open'[r] = open[r]
  <2>1. open \in [1 .. MaxRecorders -> 0 .. Len(files)] /\ Len(files) \in Nat
    BY DEF SessionInv, TypeOK
  <2>2. UNCHANGED <<scene, calls, made, files, base>> OBVIOUS
  <2>3. open' = open \/ open' = [open EXCEPT ![recorder] = 0] OBVIOUS
  <2>4. /\ open' \in [1 .. MaxRecorders -> 0 .. Len(files)]
        /\ \A r \in 1 .. MaxRecorders : open'[r] = 0 \/ open'[r] = open[r]
    <3> HIDE DEF Keeps, Closes, sessionVars
    <3>1. CASE open' = open BY <2>1, <3>1
    <3>2. CASE open' = [open EXCEPT ![recorder] = 0]
      <4>1. open' = [r \in 1 .. MaxRecorders |-> IF r = recorder THEN 0 ELSE open[r]]
        BY <2>1, <3>2
      <4>2. 0 \in 0 .. Len(files) BY <2>1
      <4>3. \A r \in 1 .. MaxRecorders : open'[r] = 0 \/ open'[r] = open[r] BY <4>1
      <4>4. open' \in [1 .. MaxRecorders -> 0 .. Len(files)] BY <2>1, <4>1, <4>2
      <4> QED BY <4>3, <4>4
    <3> QED BY <2>3, <3>1, <3>2
  <2> QED BY <2>2, <2>4
<1>2. TypeOK' BY <1>1 DEF SessionInv, TypeOK, ServerInv
<1>3. RecorderInv'
  <2>1. open' \in [1 .. MaxRecorders -> Nat] BY <1>1
  <2>2. \A r \in 1 .. MaxRecorders : r > recorders => open'[r] = 0
    BY <1>1 DEF SessionInv, RecorderInv
  <2> QED BY <2>1, <2>2, RecorderKept
<1>4. CallInv'
  <2>1. recorders \in Nat /\ recorders' \in Nat /\ recorders' >= recorders
    BY ServersAssumption DEF SessionInv, TypeOK, ServerTypeOK, ServerInv, SameClient,
      NoClient, AnotherClient
  <2>2. \A c \in Callers :
          /\ calls[c].client # None => calls[c].client.recorder \in Nat
          /\ calls[c].recorder # None => calls[c].recorder \in Nat
    BY DEF SessionInv, TypeOK, Caller, Clients
  <2>3. calls' = calls /\ scene' = scene BY <1>1
  <2> QED BY <2>1, <2>2, <2>3 DEF SessionInv, CallInv, Busy
<1>5. RecordingInv'
  <2>1. CASE SameClient /\ Keeps
    BY <1>1, <2>1 DEF SessionInv, RecordingInv, Recorded, Busy, Sending, SameClient
  <2>2. CASE NoClient BY <2>2 DEF RecordingInv, Recorded, NoClient
  <2>3. CASE AnotherClient /\ Keeps
    <3>1. recorders \in Nat /\ recorders + 1 > recorders /\ recorders + 1 \in 1 .. MaxRecorders
      BY <2>3, ServersAssumption DEF SessionInv, TypeOK, ServerTypeOK, AnotherClient
    <3>2. open'[recorder'] = 0
      BY <2>3, <3>1 DEF SessionInv, RecorderInv, AnotherClient
    <3> QED BY <3>2 DEF RecordingInv, Recorded
  <2> QED BY <2>1, <2>2, <2>3
<1> QED BY <1>2, <1>3, <1>4, <1>5 DEF SessionInv

\* The other process goes with what was drawn on it.
LEMMA ExternalStopsKept ==
  ASSUME SessionInv, ServerInv', SameClient,
         scene' = [scene EXCEPT ![External] = None],
         base' = [f \in DOMAIN base |-> IF base[f] = External THEN None ELSE base[f]],
         calls' = [c \in Callers |->
                     IF calls[c].cleared = External
                     THEN [calls[c] EXCEPT !.cleared = None] ELSE calls[c]],
         UNCHANGED <<made, open, files>>
  PROVE  SessionInv'
<1>1. /\ scene \in [Own \cup {External} -> Drawings \cup {None}]
      /\ calls \in [Callers -> Caller]
      /\ base \in [1 .. MaxFiles -> Own \cup {External, None}]
  BY DEF SessionInv, TypeOK
<1>2. /\ scene' \in [Own \cup {External} -> Drawings \cup {None}]
      /\ \A s \in Own \cup {External} : scene'[s] = IF s = External THEN None ELSE scene[s]
  BY <1>1
<1>3. calls' \in [Callers -> Caller] BY <1>1 DEF Caller
<1>4. \A c \in Callers :
        /\ calls'[c].at = calls[c].at /\ calls'[c].request = calls[c].request
        /\ calls'[c].client = calls[c].client /\ calls'[c].recorder = calls[c].recorder
        /\ calls'[c].then = calls[c].then
        /\ calls'[c].cleared = IF calls[c].cleared = External THEN None ELSE calls[c].cleared
  BY <1>1 DEF Caller
<1>5. /\ base' \in [1 .. MaxFiles -> Own \cup {External, None}]
      /\ \A f \in 1 .. MaxFiles :
           base'[f] # None => base'[f] = base[f] /\ base[f] # External
  BY <1>1
<1>6. TypeOK' BY <1>2, <1>3, <1>5 DEF SessionInv, TypeOK, ServerInv
<1>7. RecorderInv'
  <2>1. open' \in [1 .. MaxRecorders -> Nat] BY DEF SessionInv, TypeOK
  <2>2. \A r \in 1 .. MaxRecorders : r > recorders => open'[r] = 0
    BY DEF SessionInv, RecorderInv
  <2> QED BY <2>1, <2>2, RecorderKept
<1>8. CallInv'
  <2> SUFFICES ASSUME NEW c \in Callers
               PROVE  /\ Busy(c)' => calls'[c].client # None
                      /\ calls'[c].client # None => calls'[c].client.recorder <= recorders'
                      /\ calls'[c].at \in {"start", "stop"} => calls'[c].recorder # None
                      /\ calls'[c].recorder # None => calls'[c].recorder <= recorders'
                      /\ calls'[c].then = "record" => calls'[c].request = Clear
                      /\ calls'[c].cleared # None => scene'[calls'[c].cleared] = None
    BY DEF CallInv
  <2>1. calls[c].cleared \in Own \cup {External, None} BY <1>1 DEF Caller
  <2> QED BY <1>2, <1>4, <2>1 DEF SessionInv, CallInv, Busy, SameClient
<1>9. RecordingInv'
  <2> SUFFICES ASSUME Recorded' PROVE RecordingInv' BY DEF RecordingInv
  <2>1. /\ recorder \in 1 .. MaxRecorders /\ open[recorder] \in 1 .. MaxFiles
        /\ recorder' = recorder
    BY SessionAssumption DEF Recorded, SessionInv, TypeOK, ServerTypeOK, SameClient
  <2>2. /\ base[open[recorder]] \in Own /\ base'[open[recorder]] = base[open[recorder]]
        /\ Recorded
    BY <1>1, <1>5, <2>1 DEF Recorded
  <2>3. scene'[base'[open[recorder]]] = scene[base[open[recorder]]]
    BY <1>2, <2>2, ServersDiffer
  <2>4. \A c \in Callers : (Busy(c)' <=> Busy(c)) /\ (Sending(c)' <=> Sending(c))
    BY <1>4 DEF Busy, Sending
  <2> QED BY <1>4, <2>1, <2>2, <2>3, <2>4 DEF SessionInv, RecordingInv
<1> QED BY <1>6, <1>7, <1>8, <1>9 DEF SessionInv

---------------------------------------------------------------------------
(* The steps of a call.                                                    *)

\* A caller moves on: the others stay where they are.
LEMMA CallerMoves ==
  ASSUME SessionInv, NEW c \in Callers, NEW caller \in Caller, Goes(c, caller)
  PROVE  /\ calls' \in [Callers -> Caller]
         /\ calls'[c] = caller
         /\ \A d \in Callers \ {c} : calls'[d] = calls[d]
BY DEF SessionInv, TypeOK, Goes

LEMMA CallTyped ==
  ASSUME SessionInv, NEW c \in Callers
  PROVE  /\ calls[c] \in Caller
         /\ calls[c].at \in Stages /\ calls[c].request \in Requests
         /\ calls[c].client \in Clients \cup {None}
         /\ calls[c].then \in {"none", "record"}
         /\ calls[c].recorder \in (1 .. MaxRecorders) \cup {None}
         /\ calls[c].cleared \in Own \cup {External, None}
         /\ Busy(c) => calls[c].client \in Clients
                       /\ calls[c].client.recorder \in 1 .. MaxRecorders
                       /\ calls[c].client.address \in Ports
BY DEF SessionInv, TypeOK, Caller, CallInv, Clients

LEMMA RecordingTyped ==
  ASSUME SessionInv, Recorded
  PROVE  /\ recorder \in 1 .. MaxRecorders
         /\ open[recorder] \in 1 .. Len(files) /\ open[recorder] \in 1 .. MaxFiles
         /\ files[open[recorder]] \in Seq(Requests)
         /\ base[open[recorder]] \in Own \cup {External}
<1>1. recorder \in 1 .. MaxRecorders
  BY DEF SessionInv, TypeOK, ServerTypeOK, Recorded
<1>2. /\ open[recorder] \in 0 .. Len(files) /\ Len(files) \in Nat
      /\ Len(files) <= MaxFiles /\ files \in Seq(Seq(Requests))
  BY <1>1 DEF SessionInv, TypeOK
<1>3. open[recorder] \in 1 .. Len(files) /\ open[recorder] \in 1 .. MaxFiles
  BY <1>2, SessionAssumption DEF Recorded
<1>4. files[open[recorder]] \in Seq(Requests) BY <1>2, <1>3
<1>5. base[open[recorder]] \in Own \cup {External}
  BY <1>3 DEF SessionInv, TypeOK, Recorded
<1> QED BY <1>1, <1>3, <1>4, <1>5

\* No step of a call makes a recording for a recorder not made yet, or changes
\* what was told a caller that stays where it is.
LEMMA OthersKept ==
  ASSUME SessionInv, ServerInv', SameClient \/ AnotherClient, UNCHANGED scene,
         NEW c \in Callers, NEW caller \in Caller, Goes(c, caller),
         caller.at \in {"have", "write", "send"} => caller.client # None,
         caller.client # None => caller.client.recorder <= recorders',
         caller.at \in {"start", "stop"} => caller.recorder # None,
         caller.recorder # None => caller.recorder <= recorders',
         caller.then = "record" => caller.request = Clear,
         caller.cleared # None => scene[caller.cleared] = None
  PROVE  CallInv'
<1>1. /\ calls'[c] = caller /\ \A d \in Callers \ {c} : calls'[d] = calls[d]
  BY CallerMoves
<1>2. recorders \in Nat /\ recorders' \in Nat /\ recorders' >= recorders
  BY ServersAssumption DEF SessionInv, TypeOK, ServerTypeOK, ServerInv, SameClient,
    AnotherClient
<1> SUFFICES ASSUME NEW d \in Callers
             PROVE  /\ Busy(d)' => calls'[d].client # None
                    /\ calls'[d].client # None => calls'[d].client.recorder <= recorders'
                    /\ calls'[d].at \in {"start", "stop"} => calls'[d].recorder # None
                    /\ calls'[d].recorder # None => calls'[d].recorder <= recorders'
                    /\ calls'[d].then = "record" => calls'[d].request = Clear
                    /\ calls'[d].cleared # None => scene'[calls'[d].cleared] = None
  BY DEF CallInv
<1>3. CASE d = c BY <1>1, <1>3 DEF Busy
<1>4. CASE d # c
  <2>1. calls'[d] = calls[d] BY <1>1, <1>4
  <2>2. /\ calls[d].client # None => calls[d].client.recorder \in Nat
        /\ calls[d].recorder # None => calls[d].recorder \in Nat
    BY CallTyped DEF Clients
  <2> QED BY <1>2, <2>1, <2>2 DEF SessionInv, CallInv, Busy
<1> QED BY <1>3, <1>4

\* A caller that is not busy and stays that way does not matter to a recording.
LEMMA BystanderKept ==
  ASSUME SessionInv, SameClient, UNCHANGED scene,
         NEW c \in Callers, NEW caller \in Caller, Goes(c, caller), ~Busy(c),
         caller.at \notin {"have", "write", "send"},
         Recorded' => /\ Recorded /\ open'[recorder] = open[recorder]
                      /\ files'[open[recorder]] = files[open[recorder]]
                      /\ base'[open[recorder]] = base[open[recorder]]
  PROVE  RecordingInv'
<1>1. /\ calls'[c] = caller /\ \A d \in Callers \ {c} : calls'[d] = calls[d]
  BY CallerMoves
<1>2. \A d \in Callers : /\ Busy(d)' <=> Busy(d)
                         /\ Sending(d)' <=> Sending(d)
                         /\ Busy(d) => calls'[d] = calls[d]
                         /\ Sending(d) => Busy(d)
  BY <1>1 DEF Busy, Sending
<1>3. recorder' = recorder BY DEF SameClient
<1> QED BY <1>2, <1>3 DEF SessionInv, RecordingInv

LEMMA GetClientKept ==
  ASSUME SessionInv, ServerInv, ServerInv', NEW c \in Callers, NEW request \in Requests,
         NEW then \in {"none", "record"}, then = "record" => request = Clear,
         GetClient(c, request, then)
  PROVE  SessionInv'
<1> DEFINE caller == [Resting EXCEPT !.at = "have", !.request = request, !.then = then,
                                     !.client = client']
<1> USE DEF GetClient
<1>1. SameClient \/ AnotherClient
  <2>1. SameClient \/ NoClient \/ AnotherClient
    <3>1. ServerNext \/ UNCHANGED serverVars BY DEF ServerNext
    <3> QED BY <3>1, ClientSteps
  <2>2. NoClient => SameClient
    BY PortsAssumption, ServersAssumption, ClientsAssumption
    DEF NoClient, SameClient, AttachDefault, NewClient, serverVars, lifecycle, singleton,
      ServerInv, ServerTypeOK
  <2> QED BY <2>1, <2>2
<1>2. client' \in Clients /\ client' # None /\ recorder' # None /\ client'.recorder = recorder'
  <2>1. CASE AnotherClient
    BY <2>1, ServersAssumption DEF AnotherClient, SessionInv, TypeOK, ServerTypeOK
  <2>2. CASE client # None /\ UNCHANGED serverVars
    BY <2>2 DEF serverVars, lifecycle, singleton, SessionInv, RecorderInv, TypeOK, ServerTypeOK
  <2>3. CASE SameClient /\ AttachDefault
    BY <2>3, ServersAssumption DEF AttachDefault, NewClient, SameClient, ServerInv, ServerTypeOK
  <2> QED BY <1>1, <2>1, <2>2, <2>3
<1>3. /\ caller \in Caller
      /\ caller.at = "have" /\ caller.client = client' /\ caller.recorder = None
      /\ caller.cleared = None /\ caller.then = then /\ caller.request = request
  BY <1>2, RestingTyped DEF Resting, Caller, Stages
<1> HIDE DEF caller
<1>4. Goes(c, caller) BY DEF caller
<1>5. /\ calls' \in [Callers -> Caller] /\ calls'[c] = caller
      /\ \A d \in Callers \ {c} : calls'[d] = calls[d]
  BY <1>3, <1>4, CallerMoves
<1>6. /\ base' \in [1 .. MaxFiles -> Own \cup {External, None}]
      /\ base' # base => ~Alone(c) \/ \A f \in 1 .. MaxFiles : base'[f] = None
      /\ ~Alone(c) => \A f \in 1 .. MaxFiles : base'[f] = None
  BY DEF SessionInv, TypeOK, Baseless
<1>7. TypeOK'
  <2>1. made' \in 0 .. MaxCalls BY SessionAssumption DEF SessionInv, TypeOK
  <2> QED BY <1>5, <1>6, <2>1 DEF SessionInv, TypeOK, ServerInv
<1>8. RecorderInv'
  <2>1. open' \in [1 .. MaxRecorders -> Nat] BY DEF SessionInv, TypeOK
  <2>2. \A r \in 1 .. MaxRecorders : r > recorders => open'[r] = 0
    BY DEF SessionInv, RecorderInv
  <2> QED BY <1>1, <2>1, <2>2, RecorderKept
<1>9. CallInv'
  <2>1. caller.client.recorder <= recorders'
    BY <1>2, <1>3, <1>8, <1>7 DEF RecorderInv, TypeOK, ServerTypeOK
  <2> QED BY <1>1, <1>2, <1>3, <1>4, <2>1, OthersKept
<1>10. RecordingInv'
  <2> SUFFICES ASSUME Recorded' PROVE RecordingInv' BY DEF RecordingInv
  <2>1. SameClient
    <3>1. SUFFICES ASSUME AnotherClient PROVE FALSE BY <1>1
    <3>2. recorders \in Nat /\ recorders + 1 > recorders
      BY ServersAssumption DEF SessionInv, TypeOK, ServerTypeOK
    <3>3. open'[recorder'] = 0
      BY <3>1, <3>2 DEF SessionInv, RecorderInv, AnotherClient
    <3> QED BY <3>3 DEF Recorded
  <2>2. Alone(c) /\ base' = base /\ Recorded
    <3>1. recorder \in 1 .. MaxRecorders /\ open[recorder] \in 1 .. MaxFiles
      BY <2>1, SessionAssumption
      DEF Recorded, SessionInv, TypeOK, ServerTypeOK, SameClient
    <3>2. Alone(c) BY <1>6, <2>1, <3>1 DEF Recorded, SameClient
    <3> QED BY <2>1, <3>2 DEF Recorded, SameClient
  <2>3. \A d \in Callers : ~Sending(d) /\ ~Sending(d)' /\ (Busy(d)' => d = c)
    BY <1>3, <1>5, <2>2 DEF Alone, Sending, Busy
  <2>4. calls'[c].client.recorder = recorder' BY <1>2, <1>3, <1>5
  <2>5. \/ ReplayFails(files[open[recorder]])
        \/ Replayed(files[open[recorder]]) = scene[base[open[recorder]]]
    BY <2>2, <2>3 DEF SessionInv, RecordingInv
  <2>6. /\ open'[recorder'] = open[recorder] /\ files' = files /\ base' = base
        /\ scene' = scene
    BY <2>1, <2>2 DEF SameClient
  <2> QED BY <2>3, <2>4, <2>5, <2>6 DEF RecordingInv
<1> QED BY <1>7, <1>8, <1>9, <1>10 DEF SessionInv

LEMMA TestRecordingKept ==
  ASSUME SessionInv, ServerInv', NEW c \in Callers, TestRecording(c)
  PROVE  SessionInv'
<1> USE DEF TestRecording
<1> DEFINE next == IF open[calls[c].client.recorder] = 0 THEN "send" ELSE "write"
           caller == [calls[c] EXCEPT !.at = next]
<1>1. SameClient /\ Busy(c)
  BY DEF SameClient, serverVars, lifecycle, singleton, Busy
<1>2. /\ caller \in Caller /\ caller.at = next
      /\ caller.client = calls[c].client /\ caller.recorder = calls[c].recorder
      /\ caller.cleared = calls[c].cleared /\ caller.then = calls[c].then
      /\ caller.request = calls[c].request
  BY CallTyped DEF Caller, Stages
<1>3. next \in {"send", "write"} OBVIOUS
<1>4. Goes(c, caller) OBVIOUS
<1> HIDE DEF caller
<1>5. /\ calls' \in [Callers -> Caller] /\ calls'[c] = caller
      /\ \A d \in Callers \ {c} : calls'[d] = calls[d]
  BY <1>2, <1>4, CallerMoves
<1>6. TypeOK' BY <1>5 DEF SessionInv, TypeOK, ServerInv
<1>7. RecorderInv' BY <1>1 DEF SessionInv, RecorderInv, SameClient
<1>8. CallInv'
  <2>1. /\ calls[c].client # None => calls[c].client.recorder <= recorders
        /\ calls[c].recorder # None => calls[c].recorder <= recorders
        /\ calls[c].then = "record" => calls[c].request = Clear
        /\ calls[c].cleared # None => scene[calls[c].cleared] = None
        /\ calls[c].client # None
    BY <1>1 DEF SessionInv, CallInv
  <2>2. recorders' = recorders /\ scene' = scene BY <1>1 DEF SameClient
  <2>3. caller.at \notin {"start", "stop"} BY <1>2, <1>3
  <2> QED BY <1>1, <1>2, <1>4, <2>1, <2>2, <2>3, OthersKept
<1>9. RecordingInv'
  <2> SUFFICES ASSUME Recorded' PROVE RecordingInv' BY DEF RecordingInv
  <2>1. Recorded /\ recorder' = recorder BY <1>1 DEF Recorded, SameClient
  <2>2. /\ calls[c].client.recorder = recorder
        /\ \A d \in Callers : Busy(d) => d = c
    BY <1>1, <2>1 DEF SessionInv, RecordingInv
  <2>3. next = "write" BY <2>1, <2>2 DEF Recorded
  <2>4. \A d \in Callers : ~Sending(d) /\ ~Sending(d)' /\ (Busy(d)' => d = c)
    BY <1>2, <1>5, <2>2, <2>3 DEF Busy, Sending
  <2>5. \/ ReplayFails(files[open[recorder]])
        \/ Replayed(files[open[recorder]]) = scene[base[open[recorder]]]
    BY <2>1, <2>4 DEF SessionInv, RecordingInv
  <2>6. calls'[c].client.recorder = recorder' BY <1>2, <1>5, <2>1, <2>2
  <2> QED BY <2>1, <2>4, <2>5, <2>6 DEF RecordingInv
<1> QED BY <1>6, <1>7, <1>8, <1>9 DEF SessionInv

LEMMA WriteEntryKept ==
  ASSUME SessionInv, ServerInv', NEW c \in Callers, WriteEntry(c)
  PROVE  SessionInv'
<1> USE DEF WriteEntry
<1> DEFINE caller == [calls[c] EXCEPT !.at = "send"]
           file == open[calls[c].client.recorder]
<1>1. SameClient /\ Busy(c)
  BY DEF SameClient, serverVars, lifecycle, singleton, Busy
<1>2. /\ caller \in Caller /\ caller.at = "send"
      /\ caller.client = calls[c].client /\ caller.recorder = calls[c].recorder
      /\ caller.cleared = calls[c].cleared /\ caller.then = calls[c].then
      /\ caller.request = calls[c].request
  BY CallTyped DEF Caller, Stages
<1>4. Goes(c, caller) OBVIOUS
<1> HIDE DEF caller
<1>5. /\ calls' \in [Callers -> Caller] /\ calls'[c] = caller
      /\ \A d \in Callers \ {c} : calls'[d] = calls[d]
  BY <1>2, <1>4, CallerMoves
<1>6. /\ files' \in Seq(Seq(Requests)) /\ Len(files') = Len(files)
      /\ file # 0 => files'[file] = Append(files[file], calls[c].request)
  <2>1. /\ file \in 0 .. Len(files) /\ files \in Seq(Seq(Requests)) /\ Len(files) \in Nat
        /\ calls[c].request \in Requests
    BY <1>1, CallTyped DEF SessionInv, TypeOK
  <2>2. CASE file = 0 BY <2>1, <2>2
  <2>3. CASE file # 0
    <3>1. file \in 1 .. Len(files) BY <2>1, <2>3
    <3>2. Append(files[file], calls[c].request) \in Seq(Requests) BY <2>1, <3>1
    <3>3. files' = [files EXCEPT ![file] = Append(files[file], calls[c].request)]
      BY <2>3
    <3> DEFINE entry == Append(files[file], calls[c].request)
    <3>4. entry \in Seq(Requests) /\ files' = [files EXCEPT ![file] = entry]
      BY <3>2, <3>3
    <3> HIDE DEF file, entry
    <3> DEFINE written == [files EXCEPT ![file] = entry]
    <3>5. /\ written \in Seq(Seq(Requests)) /\ Len(written) = Len(files)
          /\ written[file] = entry
      BY <2>1, <3>1, <3>4, ExceptSeq
    <3>6. files' = written BY <3>4
    <3> HIDE DEF written
    <3>7. entry = Append(files[file], calls[c].request) BY DEF entry
    <3> QED BY <3>5, <3>6, <3>7
  <2> QED BY <2>2, <2>3
<1>7. TypeOK' BY <1>5, <1>6 DEF SessionInv, TypeOK, ServerInv
<1>8. RecorderInv' BY <1>1 DEF SessionInv, RecorderInv, SameClient
<1>9. CallInv'
  <2>1. /\ calls[c].client # None => calls[c].client.recorder <= recorders
        /\ calls[c].recorder # None => calls[c].recorder <= recorders
        /\ calls[c].then = "record" => calls[c].request = Clear
        /\ calls[c].cleared # None => scene[calls[c].cleared] = None
        /\ calls[c].client # None
    BY <1>1 DEF SessionInv, CallInv
  <2>2. recorders' = recorders /\ scene' = scene BY <1>1 DEF SameClient
  <2>3. caller.at \notin {"start", "stop"} BY <1>2
  <2> QED BY <1>1, <1>2, <1>4, <2>1, <2>2, <2>3, OthersKept
<1>10. RecordingInv'
  <2> SUFFICES ASSUME Recorded' PROVE RecordingInv' BY DEF RecordingInv
  <2>1. Recorded /\ recorder' = recorder BY <1>1 DEF Recorded, SameClient
  <2>2. /\ calls[c].client.recorder = recorder
        /\ \A d \in Callers : Busy(d) => d = c
    BY <1>1, <2>1 DEF SessionInv, RecordingInv
  <2>3. files'[open[recorder]] = Append(files[open[recorder]], calls[c].request)
    BY <1>6, <2>1, <2>2 DEF Recorded
  <2>4. \/ ReplayFails(files'[open[recorder]])
        \/ /\ Replayed(files'[open[recorder]]) = Drawn(calls[c].request)
           /\ ~Refused(calls[c].request, scene[base[open[recorder]]])
    <3> SUFFICES ASSUME ~ReplayFails(files'[open[recorder]])
                 PROVE  /\ Replayed(files'[open[recorder]]) = Drawn(calls[c].request)
                        /\ ~Refused(calls[c].request, scene[base[open[recorder]]])
      OBVIOUS
    <3>1. /\ Replayed(files'[open[recorder]]) = Drawn(calls[c].request)
          /\ ~Refused(calls[c].request, Replayed(files[open[recorder]]))
          /\ ~ReplayFails(files[open[recorder]])
      <4>1. files[open[recorder]] \in Seq(Requests) /\ calls[c].request \in Requests
        BY <2>1, RecordingTyped, CallTyped
      <4>2. ~ReplayFails(Append(files[open[recorder]], calls[c].request)) BY <2>3
      <4> QED BY <2>3, <4>1, <4>2, ReplayedMore
    <3>2. \A d \in Callers : ~Sending(d) BY <2>2 DEF Busy, Sending
    <3>3. Replayed(files[open[recorder]]) = scene[base[open[recorder]]]
      BY <2>1, <3>1, <3>2 DEF SessionInv, RecordingInv
    <3> QED BY <3>1, <3>3
  <2>5. Sending(c)' /\ \A d \in Callers : (Sending(d)' => d = c) /\ (Busy(d)' => d = c)
    BY <1>2, <1>5, <2>2 DEF Busy, Sending
  <2>6. calls'[c].client.recorder = recorder' /\ calls'[c].request = calls[c].request
    BY <1>2, <1>5, <2>1, <2>2
  <2>7. open' = open /\ base' = base /\ scene' = scene OBVIOUS
  <2> QED BY <2>1, <2>4, <2>5, <2>6, <2>7 DEF RecordingInv
<1> QED BY <1>7, <1>8, <1>9, <1>10 DEF SessionInv

LEMMA SendKept ==
  ASSUME SessionInv, ServerInv', NEW c \in Callers, Send(c)
  PROVE  SessionInv'
<1> USE DEF Send
<1> DEFINE server == Answering(calls[c].client.address)
           file == open[calls[c].client.recorder]
           caller == IF server = None \/ calls[c].then = "none" THEN Resting
                     ELSE [Resting EXCEPT !.at = "getRecorder",
                                          !.cleared = IF Alone(c) THEN server ELSE None]
<1>1. /\ SameClient /\ Busy(c) /\ Sending(c) /\ open' = open /\ files' = files
      /\ made' = made
  BY DEF SameClient, serverVars, lifecycle, singleton, Busy, Sending
<1>2. server \in Own \cup {External, None}
  BY <1>1, CallTyped DEF SessionInv, TypeOK, ServerTypeOK, Answering
<1>3. /\ caller \in Caller /\ caller.at \in {"rest", "getRecorder"}
      /\ caller.client = None /\ caller.recorder = None /\ caller.then = "none"
      /\ caller.cleared # None => server # None /\ caller.cleared = server
                                  /\ calls[c].then = "record"
  <2>1. CASE server = None \/ calls[c].then = "none" BY <2>1, RestingTyped
  <2>2. CASE ~(server = None \/ calls[c].then = "none")
    <3>1. calls[c].then = "record" BY <2>2, CallTyped
    <3> QED BY <1>2, <2>2, <3>1, RestingTyped DEF Resting, Caller, Stages
  <2> QED BY <2>1, <2>2
<1>4. /\ calls' \in [Callers -> Caller] /\ calls'[c] = caller
      /\ \A d \in Callers \ {c} :
           /\ calls'[d].at = calls[d].at /\ calls'[d].request = calls[d].request
           /\ calls'[d].client = calls[d].client /\ calls'[d].recorder = calls[d].recorder
           /\ calls'[d].then = calls[d].then /\ calls'[d].cleared = None
  <2>1. calls' = [d \in Callers |-> IF d # c THEN [calls[d] EXCEPT !.cleared = None]
                                    ELSE caller]
    <3> HIDE DEF Answering
    <3> QED OBVIOUS
  <2>2. \A d \in Callers : calls[d] \in Caller BY CallTyped
  <2> HIDE DEF caller
  <2>3. \A k \in Caller :
          /\ [k EXCEPT !.cleared = None] \in Caller
          /\ [k EXCEPT !.cleared = None].at = k.at
          /\ [k EXCEPT !.cleared = None].request = k.request
          /\ [k EXCEPT !.cleared = None].client = k.client
          /\ [k EXCEPT !.cleared = None].recorder = k.recorder
          /\ [k EXCEPT !.cleared = None].then = k.then
          /\ [k EXCEPT !.cleared = None].cleared = None
    BY DEF Caller
  <2>4. calls'[c] = caller
        /\ \A d \in Callers \ {c} : calls'[d] = [calls[d] EXCEPT !.cleared = None]
    BY <2>1
  <2>5. calls' \in [Callers -> Caller] BY <1>3, <2>1, <2>2, <2>3
  <2> QED BY <2>2, <2>3, <2>4, <2>5
<1> HIDE DEF caller
<1>5. /\ scene' \in [Own \cup {External} -> Drawings \cup {None}]
      /\ server # None => scene'[server] = Executed(calls[c].request, scene[server])
  <2>1. /\ scene \in [Own \cup {External} -> Drawings \cup {None}]
        /\ calls[c].request \in Requests
    BY CallTyped DEF SessionInv, TypeOK
  <2>2. CASE server = None BY <2>1, <2>2
  <2>3. CASE server # None
    <3>1. scene' = [scene EXCEPT ![server] = Executed(calls[c].request, scene[server])]
      BY <2>3
    <3>2. Executed(calls[c].request, scene[server]) \in Drawings \cup {None}
      BY <1>2, <2>1, <2>3 DEF Executed, Drawn, Requests
    <3> DEFINE drawn == Executed(calls[c].request, scene[server])
    <3>3. server \in Own \cup {External} BY <1>2, <2>3
    <3>4. drawn \in Drawings \cup {None} BY <3>2
    <3>5. scene' = [scene EXCEPT ![server] = drawn] BY <3>1
    <3> HIDE DEF server, drawn
    <3> DEFINE owners == Own \cup {External}
               scenes == Drawings \cup {None}
    <3>6. /\ scene \in [owners -> scenes] /\ server \in owners /\ drawn \in scenes
      BY <2>1, <3>3, <3>4
    <3> HIDE DEF owners, scenes
    <3>7. scene' \in [owners -> scenes] BY <3>5, <3>6
    <3>8. scene'[server] = drawn BY <3>5, <3>6
    <3>9. drawn = Executed(calls[c].request, scene[server]) BY DEF drawn
    <3> QED BY <3>7, <3>8, <3>9 DEF owners, scenes
  <2> QED BY <2>2, <2>3
<1>6. /\ base' \in [1 .. MaxFiles -> Own \cup {External, None}]
      /\ \A f \in 1 .. MaxFiles :
           base'[f] # None => base'[f] = base[f] /\ (f = file => base[f] = server)
  <2>1. base \in [1 .. MaxFiles -> Own \cup {External, None}] BY DEF SessionInv, TypeOK
  <2>2. base' = [f \in 1 .. MaxFiles |->
                   IF f = file /\ base[f] # server THEN None ELSE base[f]]
    BY <2>1
  <2> HIDE DEF file, server
  <2> QED BY <2>1, <2>2
<1>7. TypeOK' BY <1>1, <1>4, <1>5, <1>6 DEF SessionInv, TypeOK, ServerInv
<1>8. RecorderInv' BY <1>1 DEF SessionInv, RecorderInv, SameClient
<1>9. CallInv'
  <2> SUFFICES ASSUME NEW d \in Callers
               PROVE  /\ Busy(d)' => calls'[d].client # None
                      /\ calls'[d].client # None => calls'[d].client.recorder <= recorders'
                      /\ calls'[d].at \in {"start", "stop"} => calls'[d].recorder # None
                      /\ calls'[d].recorder # None => calls'[d].recorder <= recorders'
                      /\ calls'[d].then = "record" => calls'[d].request = Clear
                      /\ calls'[d].cleared # None => scene'[calls'[d].cleared] = None
    BY DEF CallInv
  <2>1. CASE d = c
    <3>1. caller.cleared # None => scene'[caller.cleared] = None
      <4>1. calls[c].then = "record" => calls[c].request = Clear
        BY DEF SessionInv, CallInv
      <4> HIDE DEF server
      <4>2. Executed(Clear, scene[server]) = None BY DEF Executed, Refused, Drawn
      <4> QED BY <1>3, <1>5, <4>1, <4>2
    <3> QED BY <1>3, <1>4, <2>1, <3>1 DEF Busy
  <2>2. CASE d # c
    BY <1>1, <1>4, <2>2 DEF SessionInv, CallInv, Busy, SameClient
  <2> QED BY <2>1, <2>2
<1>10. RecordingInv'
  <2> SUFFICES ASSUME Recorded' PROVE RecordingInv' BY DEF RecordingInv
  <2>1. recorder' = recorder /\ open[recorder] \in 1 .. MaxFiles
    BY <1>1, SessionAssumption
    DEF Recorded, SessionInv, TypeOK, ServerTypeOK, SameClient
  <2>2. Recorded /\ base'[open[recorder]] = base[open[recorder]]
    BY <1>1, <1>6, <2>1 DEF Recorded
  <2>3. /\ calls[c].client.recorder = recorder
        /\ \A d \in Callers : Busy(d) => d = c
        /\ \/ ReplayFails(files[open[recorder]])
           \/ /\ Replayed(files[open[recorder]]) = Drawn(calls[c].request)
              /\ ~Refused(calls[c].request, scene[base[open[recorder]]])
    BY <1>1, <2>2 DEF SessionInv, RecordingInv
  <2>4. base'[open[recorder]] = server /\ server # None
    BY <1>1, <1>6, <2>1, <2>2, <2>3 DEF Recorded
  <2>5. \A d \in Callers : ~Busy(d)' /\ ~Sending(d)'
    BY <1>3, <1>4, <2>3 DEF Busy, Sending
  <2>6. \/ ReplayFails(files[open[recorder]])
        \/ Replayed(files[open[recorder]]) = scene'[base'[open[recorder]]]
    <3>1. base[open[recorder]] = server BY <2>2, <2>4
    <3> HIDE DEF server
    <3> QED BY <1>5, <2>3, <2>4, <3>1 DEF Executed
  <2> QED BY <1>1, <2>1, <2>5, <2>6 DEF RecordingInv
<1> QED BY <1>7, <1>8, <1>9, <1>10 DEF SessionInv

LEMMA StopRecordKept ==
  ASSUME SessionInv, ServerInv', NEW c \in Callers, StopRecord(c) \/ GetRecorder(c)
  PROVE  SessionInv'
<1> USE DEF StopRecord, GetRecorder
<1> DEFINE caller == IF StopRecord(c) THEN [Resting EXCEPT !.at = "stop", !.recorder = recorder]
                     ELSE IF recorder = None THEN Resting
                     ELSE [calls[c] EXCEPT !.at = "start", !.recorder = recorder]
<1>1. /\ SameClient /\ ~Busy(c)
      /\ UNCHANGED <<scene, made, open, files, base>>
  BY DEF SameClient, serverVars, lifecycle, singleton, Busy
<1>2. recorder \in (1 .. MaxRecorders) \cup {None} /\ recorders \in Nat
      /\ (recorder # None => recorder <= recorders)
  BY ServersAssumption DEF SessionInv, TypeOK, ServerTypeOK, RecorderInv
<1>3. /\ calls[c].client # None => calls[c].client.recorder <= recorders
      /\ calls[c].then = "record" => calls[c].request = Clear
      /\ calls[c].cleared # None => scene[calls[c].cleared] = None
  BY DEF SessionInv, CallInv
<1>4. /\ caller \in Caller /\ caller.at \notin {"have", "write", "send"}
      /\ caller.client # None => caller.client.recorder <= recorders
      /\ caller.at \in {"start", "stop"} => caller.recorder # None
      /\ caller.recorder # None => caller.recorder <= recorders
      /\ caller.then = "record" => caller.request = Clear
      /\ caller.cleared # None => scene[caller.cleared] = None
  <2>1. CASE StopRecord(c)
    <3>1. caller = [Resting EXCEPT !.at = "stop", !.recorder = recorder] BY <2>1
    <3>2. recorder # None BY <2>1
    <3> HIDE DEF caller
    <3> QED BY <1>2, <3>1, <3>2, RestingTyped DEF Resting, Caller, Stages
  <2>2. CASE ~StopRecord(c) /\ recorder = None
    <3>1. caller = Resting BY <2>2
    <3> HIDE DEF caller
    <3> QED BY <3>1, RestingTyped
  <2>3. CASE ~StopRecord(c) /\ recorder # None
    <3>1. caller = [calls[c] EXCEPT !.at = "start", !.recorder = recorder] BY <2>3
    <3>2. calls[c] \in Caller BY CallTyped
    <3> HIDE DEF caller
    <3> QED BY <1>2, <1>3, <2>3, <3>1, <3>2 DEF Caller, Stages
  <2> QED BY <2>1, <2>2, <2>3
<1>5. Goes(c, caller) OBVIOUS
<1> HIDE DEF caller
<1>6. calls' \in [Callers -> Caller] BY <1>4, <1>5, CallerMoves
<1>7. TypeOK' BY <1>1, <1>6 DEF SessionInv, TypeOK, ServerInv
<1>8. RecorderInv' BY <1>1 DEF SessionInv, RecorderInv, SameClient
<1>9. CallInv'
  <2>1. recorders' = recorders /\ scene' = scene BY <1>1 DEF SameClient
  <2> QED BY <1>1, <1>4, <1>5, <2>1, OthersKept
<1>10. RecordingInv'
  <2>1. Recorded' => Recorded BY <1>1 DEF Recorded, SameClient
  <2> QED BY <1>1, <1>4, <1>5, <2>1, BystanderKept
<1> QED BY <1>7, <1>8, <1>9, <1>10 DEF SessionInv

\* A caller that opens or closes a recording and rests.
LEMMA StartedKept ==
  ASSUME SessionInv, ServerInv', NEW c \in Callers, calls[c].at \in {"start", "stop"},
         NEW file \in Nat, Started(c, file),
         files' \in Seq(Seq(Requests)), Len(files') <= MaxFiles, file <= Len(files'),
         Len(files) <= Len(files'),
         base' \in [1 .. MaxFiles -> Own \cup {External, None}],
         RecordingInv'
  PROVE  SessionInv'
<1> USE DEF Started
<1>1. SameClient /\ ~Busy(c) /\ UNCHANGED <<scene, made>>
  BY DEF SameClient, serverVars, lifecycle, singleton, Busy
<1>2. calls' \in [Callers -> Caller] BY RestingTyped, CallerMoves
<1>3. /\ calls[c].recorder \in 1 .. MaxRecorders /\ calls[c].recorder <= recorders
      /\ recorders \in Nat
  <2>1. calls[c].recorder # None /\ calls[c].recorder <= recorders
    BY DEF SessionInv, CallInv
  <2>2. recorders \in Nat BY ServersAssumption DEF SessionInv, TypeOK, ServerTypeOK
  <2> QED BY <2>1, <2>2, CallTyped
<1>4. /\ open' \in [1 .. MaxRecorders -> 0 .. Len(files')]
      /\ \A r \in 1 .. MaxRecorders :
           open'[r] = IF r = calls[c].recorder THEN file ELSE open[r]
  <2>1. open \in [1 .. MaxRecorders -> 0 .. Len(files)] /\ Len(files) \in Nat
        /\ Len(files') \in Nat
    BY DEF SessionInv, TypeOK
  <2>2. open' = [open EXCEPT ![calls[c].recorder] = file] OBVIOUS
  <2> QED BY <1>3, <2>1, <2>2
<1>5. TypeOK' BY <1>1, <1>2, <1>4 DEF SessionInv, TypeOK, ServerInv
<1>6. RecorderInv'
  <2>1. \A r \in 1 .. MaxRecorders : r > recorders => open'[r] = 0
    BY <1>3, <1>4 DEF SessionInv, RecorderInv
  <2>2. open' \in [1 .. MaxRecorders -> Nat] BY <1>4
  <2> QED BY <1>1, <2>1, <2>2, RecorderKept
<1>7. CallInv' BY <1>1, RestingTyped, OthersKept
<1> QED BY <1>5, <1>6, <1>7 DEF SessionInv

\* A recording is closed, or not opened: the one that is on, if it still is, is
\* another recorder's.
LEMMA StopRecordingKept ==
  ASSUME SessionInv, ServerInv', NEW c \in Callers, StartRecordingFails(c) \/ StopRecording(c)
  PROVE  SessionInv'
<1>1. /\ calls[c].at \in {"start", "stop"} /\ Started(c, 0)
      /\ UNCHANGED <<files, base, scene>>
      /\ SameClient /\ ~Busy(c) /\ Goes(c, Resting)
      /\ open' = [open EXCEPT ![calls[c].recorder] = 0]
  BY DEF StartRecordingFails, StopRecording, Started, SameClient, serverVars, lifecycle,
    singleton, Busy
<1>2. /\ files \in Seq(Seq(Requests)) /\ Len(files) \in Nat /\ Len(files) <= MaxFiles
      /\ base \in [1 .. MaxFiles -> Own \cup {External, None}]
      /\ open \in [1 .. MaxRecorders -> 0 .. Len(files)]
      /\ calls[c].recorder \in 1 .. MaxRecorders
  BY <1>1, CallTyped DEF SessionInv, TypeOK, CallInv
<1>3. RecordingInv'
  <2>1. Recorded' => Recorded /\ open'[recorder] = open[recorder]
    <3>1. SUFFICES ASSUME Recorded' PROVE Recorded /\ open'[recorder] = open[recorder]
      OBVIOUS
    <3>2. recorder' = recorder /\ recorder \in 1 .. MaxRecorders
      BY <1>1, <3>1 DEF Recorded, SameClient, SessionInv, TypeOK, ServerTypeOK
    <3>3. open'[recorder] = IF recorder = calls[c].recorder THEN 0 ELSE open[recorder]
      BY <1>1, <1>2, <3>2
    <3> QED BY <1>1, <3>1, <3>2, <3>3 DEF Recorded
  <2> QED BY <1>1, <2>1, RestingTyped, BystanderKept
<1> QED BY <1>1, <1>2, <1>3, StartedKept

\* A recording begins empty, and the scene that its caller cleared is empty.
LEMMA StartRecordingKept ==
  ASSUME SessionInv, ServerInv', NEW c \in Callers, StartRecording(c)
  PROVE  SessionInv'
<1> USE DEF StartRecording
<1> DEFINE file == Len(files) + 1
<1>1. /\ calls[c].at \in {"start", "stop"} /\ Started(c, file)
      /\ SameClient /\ ~Busy(c) /\ Goes(c, Resting) /\ UNCHANGED scene
      /\ open' = [open EXCEPT ![calls[c].recorder] = file]
  BY DEF Started, SameClient, serverVars, lifecycle, singleton, Busy
<1>2. /\ files \in Seq(Seq(Requests)) /\ Len(files) \in Nat
      /\ base \in [1 .. MaxFiles -> Own \cup {External, None}]
      /\ open \in [1 .. MaxRecorders -> 0 .. Len(files)]
      /\ calls[c].recorder \in 1 .. MaxRecorders
      /\ calls[c].cleared \in Own \cup {External, None}
      /\ calls[c].cleared # None => scene[calls[c].cleared] = None
  BY <1>1, CallTyped DEF SessionInv, TypeOK, CallInv
<1>3. /\ files' \in Seq(Seq(Requests)) /\ Len(files') = file
      /\ files'[file] = <<>>
      /\ \A f \in 1 .. Len(files) : files'[f] = files[f]
  <2>1. <<>> \in Seq(Requests) OBVIOUS
  <2> QED BY <1>2, <2>1
<1>4. file \in Nat /\ file \in 1 .. MaxFiles /\ file \notin 1 .. Len(files)
  BY <1>2, SessionAssumption
<1>5. base' = [base EXCEPT ![file] = IF Alone(c) THEN calls[c].cleared ELSE None]
  OBVIOUS
<1> HIDE DEF file
<1>6. /\ base' \in [1 .. MaxFiles -> Own \cup {External, None}]
      /\ base'[file] = IF Alone(c) THEN calls[c].cleared ELSE None
      /\ \A f \in 1 .. MaxFiles : f # file => base'[f] = base[f]
  BY <1>2, <1>4, <1>5
<1>7. RecordingInv'
  <2>1. CASE recorder = calls[c].recorder
    <3> SUFFICES ASSUME Recorded' PROVE RecordingInv' BY DEF RecordingInv
    <3>1. recorder' = recorder /\ open'[recorder'] = file
      BY <1>1, <1>2, <2>1 DEF SameClient
    <3>2. Alone(c) /\ base'[file] = calls[c].cleared /\ calls[c].cleared # None
      BY <1>6, <3>1 DEF Recorded
    <3>3. \A d \in Callers : ~Busy(d)' /\ ~Sending(d)'
      <4>1. /\ calls'[c] = Resting /\ \A d \in Callers \ {c} : calls'[d] = calls[d]
        BY <1>1, RestingTyped, CallerMoves
      <4> QED BY <3>2, <4>1, RestingTyped DEF Alone, Busy, Sending
    <3>4. Replayed(files'[file]) = scene'[base'[file]]
      BY <1>1, <1>2, <1>3, <3>2, ReplayedNothing
    <3> QED BY <3>1, <3>3, <3>4 DEF RecordingInv
  <2>2. CASE recorder # calls[c].recorder
    <3>1. Recorded' => /\ Recorded /\ open'[recorder] = open[recorder]
                       /\ files'[open[recorder]] = files[open[recorder]]
                       /\ base'[open[recorder]] = base[open[recorder]]
      <4> SUFFICES ASSUME Recorded'
                   PROVE  /\ Recorded /\ open'[recorder] = open[recorder]
                          /\ files'[open[recorder]] = files[open[recorder]]
                          /\ base'[open[recorder]] = base[open[recorder]]
        OBVIOUS
      <4>1. recorder' = recorder /\ recorder \in 1 .. MaxRecorders
        BY <1>1 DEF Recorded, SameClient, SessionInv, TypeOK, ServerTypeOK
      <4>2. open'[recorder] = open[recorder] BY <1>1, <1>2, <2>2, <4>1
      <4>3. open[recorder] \in 1 .. Len(files) BY <1>2, <4>1, <4>2 DEF Recorded
      <4>4. open[recorder] \in 1 .. MaxFiles /\ open[recorder] # file
        <5>1. Len(files) <= MaxFiles BY DEF SessionInv, TypeOK
        <5> QED BY <1>2, <1>4, <4>3, <5>1, SessionAssumption
      <4>5. base'[open[recorder]] = base[open[recorder]] BY <1>6, <4>4
      <4> QED BY <1>3, <4>1, <4>2, <4>3, <4>5 DEF Recorded
    <3> QED BY <1>1, <3>1, RestingTyped, BystanderKept
  <2> QED BY <2>1, <2>2
<1>8. /\ Len(files') <= MaxFiles /\ file <= Len(files') /\ Len(files) <= Len(files')
  BY <1>2, <1>3, <1>4 DEF file
<1> QED BY <1>1, <1>3, <1>4, <1>6, <1>7, <1>8, StartedKept

LEMMA SessionKept ==
  ASSUME SessionInv, ServerInv, ServerInv', [Next]_vars
  PROVE  SessionInv'
<1>0. SameClient \/ NoClient \/ AnotherClient BY SessionIsServer, ClientSteps
<1>1. CASE Lifecycle
  <2>1. Keeps \/ ((StopAttached \/ StopReturns) /\ Closes) BY <1>1 DEF Lifecycle
  <2>2. (StopAttached \/ StopReturns) => NoClient
    BY DEF StopAttached, StopReturns, Reset, NoClient
  <2> QED BY <1>0, <2>1, <2>2, LifecycleKept
<1>2. CASE Network
  <2>1. CASE Keeps BY <1>0, <2>1, LifecycleKept
  <2>2. CASE ~Keeps
    <3>1. /\ ExternalStops
          /\ scene' = [scene EXCEPT ![External] = None]
          /\ base' = [f \in DOMAIN base |-> IF base[f] = External THEN None ELSE base[f]]
          /\ calls' = [c \in Callers |->
                         IF calls[c].cleared = External
                         THEN [calls[c] EXCEPT !.cleared = None] ELSE calls[c]]
          /\ UNCHANGED <<made, open, files>>
      BY <1>2, <2>2 DEF Network
    <3>2. SameClient BY <3>1 DEF ExternalStops, singleton, SameClient
    <3> QED BY <3>1, <3>2, ExternalStopsKept
  <2> QED BY <2>1, <2>2
<1>3. ASSUME NEW c \in Callers, Api(c) PROVE SessionInv'
  <2>1. ASSUME NEW request \in Requests, Call(c, request) PROVE SessionInv'
    BY <2>1, GetClientKept DEF Call
  <2>2. CASE Record(c) BY <2>2, RequestsTyped, GetClientKept DEF Record
  <2>3. CASE StopRecord(c) \/ GetRecorder(c) BY <2>3, StopRecordKept
  <2>4. CASE TestRecording(c) BY <2>4, TestRecordingKept
  <2>5. CASE WriteEntry(c) BY <2>5, WriteEntryKept
  <2>6. CASE Send(c) BY <2>6, SendKept
  <2>7. CASE StartRecording(c) BY <2>7, StartRecordingKept
  <2>8. CASE StartRecordingFails(c) \/ StopRecording(c) BY <2>8, StopRecordingKept
  <2> QED BY <1>3, <2>1, <2>2, <2>3, <2>4, <2>5, <2>6, <2>7, <2>8 DEF Api
<1>4. CASE UNCHANGED vars
  <2>1. Keeps BY <1>4 DEF vars, Keeps
  <2> QED BY <1>0, <2>1, LifecycleKept
<1> QED BY <1>1, <1>2, <1>3, <1>4 DEF Next

LEMMA SessionAlways == Spec => [](ServerInv /\ SessionInv)
<1>1. Init => ServerInv /\ SessionInv BY ServerStarts, SessionStarts DEF Init
<1>2. ServerInv /\ SessionInv /\ [Next]_vars => (ServerInv /\ SessionInv)'
  BY SessionIsServer, ServerKept, SessionKept
<1> QED BY <1>1, <1>2, PTL DEF Spec

\* The variables of the session keep their types.
THEOREM Types == Spec => []TypeOK
<1>1. SessionInv => TypeOK BY DEF SessionInv
<1> QED BY <1>1, SessionAlways, PTL

\* While the calls of a process come one after another, what is written of a
\* recording replays to the scene it was recorded from, through every Stop,
\* Start, lost server and recording that fails to open (recording.go, replay.go).
THEOREM RecordingsReplay == Spec => []SessionReplays
<1>1. SessionInv => SessionReplays
  BY DEF SessionInv, RecordingInv, Recorded, Busy, Sending, SessionReplays
<1> QED BY <1>1, SessionAlways, PTL

=============================================================================
