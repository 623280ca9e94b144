----------------------------- MODULE DrawServer -----------------------------
(***************************************************************************)
(* The draw server a Go process has at most one of (client/server/         *)
(* server.go): Start, Stop and the client that is made on demand, all      *)
(* under the package's mutex, and the page that stays connected to         *)
(* whatever listens on its port (plugins/DrawService/reconnect.ts).        *)
(* Servers of this process are numbered, because a stopped one may still   *)
(* have streams, and so are the listeners and goroutines Start makes with  *)
(* them; a server of another process (`make up`) is External.              *)
(***************************************************************************)
EXTENDS Naturals, FiniteSets

CONSTANTS
    Ports,          \* where servers may listen; each has its own temp dir
    DefaultPort,    \* the port GetClient probes and the page connects to
    External,       \* a server of another process
    None,
    MaxServers,     \* servers this process makes in one behaviour
    MaxRecorders,   \* clients it makes, each with its recorder
    MaxVisits,      \* times the external server comes
    MaxDelay        \* the cap of the page's backoff, in steps of the first

ASSUME PortsAssumption == DefaultPort \in Ports /\ None \notin Ports
ASSUME ServersAssumption ==
    /\ MaxServers \in Nat /\ MaxRecorders \in Nat /\ MaxVisits \in Nat
    /\ MaxDelay \in Nat \ {0}
    /\ External \notin Nat /\ None \notin Nat /\ External # None

VARIABLES
    mu,         \* who holds the package's lock: "free" or what they are doing;
                \* "crashed" when the process is gone
    running, attached,
    rpcSrv,     \* the server of this process, or None
    address, client, recorder,
    recorders,  \* recorders made so far
    servers,    \* servers made so far
    listener,   \* port -> whose listener is there
    runner,     \* goroutine -> the server it read from rpcSrv, or None so far
    serving,    \* goroutines that have called Serve
    shut,       \* servers whose Shutdown was called
    temp,       \* port -> the server whose chunk files its temp dir holds
    visits,
    page        \* the reconnect loop of one page

singleton == <<running, attached, rpcSrv, address, client, recorder, recorders>>
network == <<servers, listener, runner, serving, shut, temp>>
lifecycle == <<mu, singleton, network>>
serverVars == <<lifecycle, visits, page>>

Own == 1 .. MaxServers
Clients == [address : Ports, recorder : 1 .. MaxRecorders]

ASSUME ClientsAssumption == None \notin Clients

Pages == [phase : {"attempt", "open", "waiting"},
          at : Own \cup {External, None},
          delay : 1 .. MaxDelay]        \* the next wait

ServerTypeOK ==
    /\ mu \in {"free", "static", "undoing", "ready", "stopping", "crashed"}
    /\ running \in BOOLEAN /\ attached \in BOOLEAN
    /\ rpcSrv \in Own \cup {None}
    /\ address \in Ports \cup {None}
    /\ client \in Clients \cup {None}
    /\ recorder \in (1 .. MaxRecorders) \cup {None}
    /\ recorders \in 0 .. MaxRecorders /\ servers \in 0 .. MaxServers
    /\ listener \in [Ports -> Own \cup {External, None}]
    /\ runner \in [Own -> Own \cup {None}]
    /\ serving \subseteq Own /\ shut \subseteq Own
    /\ temp \in [Ports -> Own \cup {External, None}]
    /\ visits \in 0 .. MaxVisits
    /\ page \in Pages

ServerInit ==
    /\ mu = "free" /\ running = FALSE /\ attached = FALSE
    /\ rpcSrv = None /\ address = None /\ client = None /\ recorder = None
    /\ recorders = 0 /\ servers = 0
    /\ listener = [port \in Ports |-> None]
    /\ runner = [n \in Own |-> None]
    /\ serving = {} /\ shut = {} /\ temp = [port \in Ports |-> None]
    /\ visits = 0
    /\ page = [phase |-> "attempt", at |-> None, delay |-> 1]

---------------------------------------------------------------------------
(* Start and the lazy attach.                                              *)

\* A client of its own connection pool, with a recorder of its own.
NewClient(port) ==
    /\ recorders < MaxRecorders
    /\ recorders' = recorders + 1
    /\ recorder' = recorders + 1
    /\ client' = [address |-> port, recorder |-> recorders + 1]
    /\ running' = TRUE

\* The port is in use, by whatever program.
StartAttaches(port) ==
    /\ mu = "free" /\ ~running
    /\ listener[port] # None
    /\ NewClient(port)
    /\ address' = port /\ attached' = TRUE
    /\ UNCHANGED <<mu, rpcSrv, network, visits, page>>

\* The service, which empties its temp dir, is made after the listen.
StartListens_ServiceFirst(port, production) ==
    /\ mu = "free" /\ ~running
    /\ servers < MaxServers
    /\ address' = port
    /\ servers' = servers + 1
    /\ temp' = [temp EXCEPT ![port] = servers + 1]
    /\ rpcSrv' = IF listener[port] = None THEN servers + 1 ELSE rpcSrv
    /\ listener' = [listener EXCEPT ![port] = IF @ = None THEN servers + 1 ELSE @]
    /\ mu' = IF listener[port] # None THEN "free" ELSE IF production THEN "static" ELSE "ready"
    /\ UNCHANGED <<running, attached, client, recorder, recorders, runner, serving,
                   shut, visits, page>>
StartListens(port, production) ==
    /\ mu = "free" /\ ~running
    /\ listener[port] = None
    /\ servers < MaxServers
    /\ address' = port
    /\ servers' = servers + 1
    /\ listener' = [listener EXCEPT ![port] = servers + 1]
    /\ temp' = [temp EXCEPT ![port] = servers + 1]
    /\ rpcSrv' = servers + 1
    /\ mu' = IF production THEN "static" ELSE "ready"
    /\ UNCHANGED <<running, attached, client, recorder, recorders, runner, serving,
                   shut, visits, page>>

\* Any other error of the listen; the address has been set.
StartRefused(port) ==
    /\ mu = "free" /\ ~running
    /\ address' = port
    /\ UNCHANGED <<mu, running, attached, rpcSrv, client, recorder, recorders,
                   network, visits, page>>

Freed(listeners) ==
    [port \in Ports |-> IF listener[port] \in listeners THEN None ELSE listener[port]]

\* Shutdown closes the listeners that Serve has registered with the server.
Shutdown(server) ==
    /\ shut' = shut \cup {server}
    /\ listener' = Freed({n \in serving : runner[n] = server})

\* The goroutine of Start evaluates the package's rpcSrv when it gets to run,
\* not when it is made: after a Stop, a failed Start, another Start.
ReadsServer(n) ==
    /\ n \in 1 .. servers /\ runner[n] = None
    /\ rpcSrv # None
    /\ runner' = [runner EXCEPT ![n] = rpcSrv]
    /\ UNCHANGED <<mu, singleton, servers, listener, serving, shut, temp, visits, page>>

\* There is none by then: Serve on a nil server ends the process.
Panics(n) ==
    /\ n \in 1 .. servers /\ runner[n] = None
    /\ rpcSrv = None
    /\ mu' = "crashed"
    /\ listener' = Freed(Own)
    /\ UNCHANGED <<singleton, servers, runner, serving, shut, temp, visits, page>>

\* Serve registers the listener, and closes it when its server is shut down.
Serve(n) ==
    /\ runner[n] # None /\ n \notin serving
    /\ serving' = serving \cup {n}
    /\ listener' = IF runner[n] \in shut THEN Freed({n}) ELSE listener
    /\ UNCHANGED <<mu, singleton, servers, runner, shut, temp, visits, page>>

StaticListens ==
    /\ mu = "static" /\ mu' = "ready"
    /\ UNCHANGED <<singleton, network, visits, page>>

StaticFails_LeavesRpc ==
    /\ mu = "static" /\ mu' = "free"
    /\ rpcSrv' = None
    /\ UNCHANGED <<running, attached, address, client, recorder, recorders,
                   network, visits, page>>
StaticFails ==
    /\ mu = "static" /\ mu' = "undoing"
    /\ Shutdown(rpcSrv)
    /\ UNCHANGED <<singleton, servers, runner, serving, temp, visits, page>>

\* That Shutdown has no deadline: it waits for the page to go.
StartUndone ==
    /\ mu = "undoing" /\ mu' = "free"
    /\ page.at # rpcSrv
    /\ rpcSrv' = None
    /\ UNCHANGED <<running, attached, address, client, recorder, recorders, network,
                   visits, page>>

StartReturns ==
    /\ mu = "ready" /\ mu' = "free"
    /\ NewClient(address)
    /\ UNCHANGED <<attached, rpcSrv, address, network, visits, page>>

\* GetClient when there is no client: a server on the default port will do.
AttachDefault ==
    /\ mu = "free" /\ client = None
    /\ listener[DefaultPort] # None
    /\ NewClient(DefaultPort)
    /\ address' = DefaultPort /\ attached' = TRUE
    /\ UNCHANGED <<mu, rpcSrv, network, visits, page>>

---------------------------------------------------------------------------
(* Stop.                                                                   *)

Reset ==
    /\ client' = None /\ address' = None /\ recorder' = None
    /\ running' = FALSE
    /\ UNCHANGED <<recorders, visits, page>>

StopAttached ==
    /\ mu = "free" /\ running /\ attached
    /\ Reset /\ attached' = FALSE
    /\ UNCHANGED <<mu, rpcSrv, network>>

StopShuts ==
    /\ mu = "free" /\ running /\ ~attached
    /\ mu' = "stopping"
    /\ Shutdown(rpcSrv)
    /\ UNCHANGED <<singleton, servers, runner, serving, temp, visits, page>>

\* The connections are idle, or five seconds have passed: a stream that is
\* still open stays open.
StopReturns ==
    /\ mu = "stopping" /\ mu' = "free"
    /\ Reset /\ rpcSrv' = None
    /\ UNCHANGED <<attached, network>>

---------------------------------------------------------------------------
(* The other process.                                                      *)

ExternalStarts ==
    /\ visits < MaxVisits /\ listener[DefaultPort] = None
    /\ visits' = visits + 1
    /\ listener' = [listener EXCEPT ![DefaultPort] = External]
    /\ temp' = [temp EXCEPT ![DefaultPort] = External]
    /\ UNCHANGED <<mu, singleton, servers, runner, serving, shut, page>>

\* Its streams end with it.
ExternalStops ==
    /\ listener[DefaultPort] = External
    /\ listener' = [listener EXCEPT ![DefaultPort] = None]
    /\ UNCHANGED <<mu, singleton, servers, runner, serving, shut, temp, visits, page>>

---------------------------------------------------------------------------
(* The page (runWithReconnect).                                            *)

Backoff(p) ==
    [p EXCEPT !.phase = "waiting", !.at = None,
              !.delay = IF 2 * @ > MaxDelay THEN MaxDelay ELSE 2 * @]

\* Whoever accepts connections to a port; those to a listener nobody serves yet
\* have to wait.
Answering(port) ==
    IF listener[port] \in serving THEN runner[listener[port]]
    ELSE IF listener[port] = External THEN External ELSE None

PageConnects_ResetsDelay ==
    /\ page.phase = "attempt"
    /\ Answering(DefaultPort) # None
    /\ page' = [page EXCEPT !.phase = "open", !.at = Answering(DefaultPort), !.delay = 1]
    /\ UNCHANGED <<lifecycle, visits>>
PageConnects ==
    /\ page.phase = "attempt"
    /\ Answering(DefaultPort) # None
    /\ page' = [page EXCEPT !.phase = "open", !.at = Answering(DefaultPort)]
    /\ UNCHANGED <<lifecycle, visits>>

PageRefused ==
    /\ page.phase = "attempt"
    /\ listener[DefaultPort] = None
    /\ page' = Backoff(page)
    /\ UNCHANGED <<lifecycle, visits>>

\* Data resets the backoff, a connection alone does not.
PageHears ==
    /\ page.phase = "open"
    /\ page' = [page EXCEPT !.delay = 1]
    /\ UNCHANGED <<lifecycle, visits>>

\* ResourceExhausted: a resync, at once.
PageOverflows ==
    /\ page.phase = "open"
    /\ page' = [page EXCEPT !.phase = "attempt", !.at = None, !.delay = 1]
    /\ UNCHANGED <<lifecycle, visits>>

PageCut ==
    /\ page.phase = "open"
    /\ page' = Backoff(page)
    /\ UNCHANGED <<lifecycle, visits>>

PageWakes ==
    /\ page.phase = "waiting"
    /\ page' = [page EXCEPT !.phase = "attempt"]
    /\ UNCHANGED <<lifecycle, visits>>

Page ==
    \/ PageConnects \/ PageRefused \/ PageHears
    \/ PageOverflows \/ PageCut \/ PageWakes

---------------------------------------------------------------------------
(* Properties.                                                             *)

\* Outside Start and Stop, the state of the package says what is true of the
\* network: a server of this process that runs has its port, where nobody else
\* ever serves it; a failed Start or a finished Stop leaves no client, no
\* recorder and no server; and whoever of this process answers, on any port, is
\* the server that runs. A listener left by a Start whose goroutine came late
\* may still be there, unserved or served by that server (server.go 179-184).
OwnServerAnswers ==
    mu = "free" =>
        /\ running /\ ~attached =>
             /\ rpcSrv # None /\ listener[address] = rpcSrv
             /\ runner[rpcSrv] \in {rpcSrv, None}
        /\ ~running => client = None /\ recorder = None /\ ~attached
        /\ ~running \/ attached => rpcSrv = None
        /\ \A port \in Ports :
             /\ Answering(port) \in {rpcSrv, External, None}
             /\ listener[port] \in Own \ {rpcSrv} => listener[port] \in shut

\* Whoever listens on a port has the chunk files of its temp dir: "constructing
\* one on the attach path would delete the chunk files the server already
\* listening on this port is serving" (server.go). And who answers, on whatever
\* listener, still has the files of the port it was made for.
ChunksKept ==
    \A port \in Ports :
        /\ listener[port] # None => temp[port] = listener[port]
        /\ Answering(port) # None => \E home \in Ports : temp[home] = Answering(port)

\* The waits of a page never get shorter but by what a connection that is open
\* brings: a server that accepts connections and drops them does not defeat the
\* backoff (onData in reconnect.ts).
BackoffHolds ==
    [][page'.delay < page.delay => page.phase = "open"]_page

\* "It is safe to call Stop and then Start again" (server.go): no Stop or Start
\* ends the process.
StopIsSafe == mu # "crashed"

\* By that comment a page that is connected after a Stop and a Start is connected
\* to the server that runs. But a stream outlives the Shutdown of its server, and
\* then shows the scene of a service nobody draws to.
PageFollowsServer ==
    mu = "free" /\ running /\ ~attached /\ address = DefaultPort /\ page.phase = "open"
        => page.at \in {rpcSrv, External}

=============================================================================
