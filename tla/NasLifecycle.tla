----------------------------- MODULE NasLifecycle -----------------------------
(***************************************************************************)
(* Starting and stopping the server on Android: the foreground service     *)
(* (NasService.kt) calls the binding (mobile/mobile.go), which runs a      *)
(* server (startServer and StartAsync of internal/server/server.go) that   *)
(* also answers LAN discovery (discovery.go).                              *)
(*                                                                         *)
(* onStartCommand and onDestroy run on the main thread; onStartCommand     *)
(* starts a thread that calls Mobile.start.  Start and Stop hold one mutex *)
(* from their first line to their last.  A server has a goroutine in       *)
(* Serve, one in the discovery loop, one per request and, after Shutdown,  *)
(* one that closes the discovery socket.                                   *)
(***************************************************************************)
EXTENDS Naturals, FiniteSets

CONSTANTS MaxStarts,   \* bound: threads that call Mobile.start
          MaxRetries,  \* maxPortRetries
          MaxActive,   \* bound: requests in the handlers of one server
          MaxServeErrors  \* bound: Serve calls that fail

ASSUME LifecycleAssumption ==
  /\ MaxStarts \in Nat \ {0} /\ {MaxRetries, MaxActive, MaxServeErrors} \subseteq Nat
  /\ MaxRetries < 45777

Starts == 1 .. MaxStarts     \* threads, and the servers they start
Ports == 0 .. MaxRetries     \* TCP ports, from the preferred one
DiscoveryPort == 45777     \* UDP
NoServer == 0
Free == 0
Main == MaxStarts + 1

NotStarted == [tcp |-> "none", port |-> 0, udp |-> "none", down |-> FALSE,
               failed |-> FALSE, active |-> 0]
Server == [tcp : {"none", "bound", "serving", "closed"}, port : Ports,
           udp : {"none", "open", "closing", "closed"}, down : BOOLEAN,
           failed : BOOLEAN, active : 0 .. MaxActive]

VARIABLES
  foreign,        \* ports that other programs hold
  service,        \* the NasService object exists
  main,           \* the main thread: "idle" or a place in onDestroy
  thread,         \* thread[t]: where start thread t is, and the address it got
  serverAddress,  \* NasService.serverAddress: a server, for its URL
  starting,       \* NasService.starting
  mu,             \* who holds the mutex of the binding
  mobile,         \* running, addr and stopFn of the binding
  srv,            \* srv[i]: the server that thread i started
  crossed         \* history: onDestroy was called while a start thread was under way

androidVars == <<service, main, thread, serverAddress, starting, crossed>>
bindingVars == <<mu, mobile>>
nasVars == <<foreign, androidVars, bindingVars, srv>>

NasTypeOK ==
  /\ foreign \subseteq Ports \cup {DiscoveryPort}
  /\ thread \in [Starts -> [at : {"none", "called", "listening", "bound", "returned",
                                  "cleared", "done"},
                            port : Ports, got : Starts \cup {NoServer}]]
  /\ main \in {"idle", "stop called", "shutting down", "stopped"}
  /\ serverAddress \in Starts \cup {NoServer}
  /\ mu \in Starts \cup {Free, Main}
  /\ mobile \in [running : BOOLEAN, addr : Starts \cup {NoServer}, stop : Starts \cup {NoServer}]
  /\ srv \in [Starts -> Server]

NotRunning == [running |-> FALSE, addr |-> NoServer, stop |-> NoServer]

NasInit ==
  /\ foreign \in SUBSET (Ports \cup {DiscoveryPort})
  /\ service = FALSE /\ main = "idle"
  /\ thread = [t \in Starts |-> [at |-> "none", port |-> 0, got |-> NoServer]]
  /\ serverAddress = NoServer /\ starting = FALSE
  /\ mu = Free /\ mobile = NotRunning
  /\ srv = [i \in Starts |-> NotStarted]
  /\ crossed = FALSE

Open(i) == srv[i].tcp \in {"bound", "serving"}
StartsUnderWay == {t \in Starts : thread[t].at \notin {"none", "done"}}

----------------------------------------------------------------------------
(* NasService: a start                                                     *)

\* Already running, or a start is in flight: nothing.  Else a thread calls Mobile.start.
OnStartCommand ==
  /\ main = "idle"
  /\ service' = TRUE
  /\ IF serverAddress # NoServer \/ starting THEN UNCHANGED <<starting, thread>>
     ELSE \E t \in Starts :
            /\ thread[t].at = "none" /\ \A s \in 1 .. t - 1 : thread[s].at # "none"
            /\ thread' = [thread EXCEPT ![t].at = "called"]
            /\ starting' = TRUE
  /\ UNCHANGED <<foreign, main, serverAddress, crossed, bindingVars, srv>>

\* Start: the address of a running server, or a new server, whose scan has begun.
StartLocks(t) ==
  /\ thread[t].at = "called" /\ mu = Free
  /\ IF mobile.running
     THEN thread' = [thread EXCEPT ![t].at = "returned", ![t].got = mobile.addr] /\ UNCHANGED mu
     ELSE thread' = [thread EXCEPT ![t].at = "listening"] /\ mu' = t
  /\ UNCHANGED <<foreign, service, main, serverAddress, starting, crossed, mobile, srv>>

\* net.Listen on the port, on the next one if it is taken, and so on.
Listen(t) ==
  LET port == thread[t].port
      taken == port \in foreign \/ \E i \in Starts : Open(i) /\ srv[i].port = port
  IN /\ thread[t].at = "listening"
     /\ \/ /\ ~ taken
           /\ srv' = [srv EXCEPT ![t].tcp = "bound", ![t].port = port]
           /\ thread' = [thread EXCEPT ![t].at = "bound"]
           /\ UNCHANGED mu
        \/ /\ taken /\ port < MaxRetries
           /\ thread' = [thread EXCEPT ![t].port = port + 1]
           /\ UNCHANGED <<srv, mu>>
        \/ /\ taken /\ port = MaxRetries
           /\ thread' = [thread EXCEPT ![t].at = "returned"]
           /\ mu' = Free /\ UNCHANGED srv
     /\ UNCHANGED <<foreign, service, main, serverAddress, starting, crossed, mobile>>

\* startDiscovery: a port that is taken disables discovery.
StartDiscovery(t) ==
  /\ thread[t].at = "bound" /\ srv[t].udp = "none" /\ mu = t
  /\ srv' = [srv EXCEPT ![t].udp =
               IF DiscoveryPort \in foreign \/ \E i \in Starts : srv[i].udp \in {"open", "closing"}
               THEN "closed" ELSE "open"]
  /\ UNCHANGED <<foreign, androidVars, bindingVars>>

\* The goroutine for Serve is started, and Start returns.
StartReturns(t) ==
  /\ thread[t].at = "bound" /\ srv[t].udp # "none" /\ mu = t
  /\ mobile' = [running |-> TRUE, addr |-> t, stop |-> t]
  /\ mu' = Free
  /\ thread' = [thread EXCEPT ![t].at = "returned", ![t].got = t]
  /\ UNCHANGED <<foreign, service, main, serverAddress, starting, crossed, srv>>

ClearStarting(t) ==
  /\ thread[t].at = "returned"
  /\ starting' = FALSE
  /\ thread' = [thread EXCEPT ![t].at = "cleared"]
  /\ UNCHANGED <<foreign, service, main, serverAddress, crossed, bindingVars, srv>>

\* A failed start calls stopSelf, which Android answers with onDestroy at some time.
Publish(t) ==
  /\ thread[t].at = "cleared"
  /\ serverAddress' = IF thread[t].got = NoServer THEN serverAddress ELSE thread[t].got
  /\ thread' = [thread EXCEPT ![t].at = "done"]
  /\ UNCHANGED <<foreign, service, main, starting, crossed, bindingVars, srv>>

----------------------------------------------------------------------------
(* NasService: onDestroy, on the main thread                               *)

OnDestroy ==
  /\ main = "idle" /\ service
  /\ main' = "stop called"
  /\ crossed' = (crossed \/ StartsUnderWay # {})
  /\ UNCHANGED <<foreign, service, thread, serverAddress, starting, bindingVars, srv>>

\* Mutant: no RegisterOnShutdown.
ShutdownTCP(s) == [s EXCEPT !.down = TRUE, !.tcp = IF @ = "serving" THEN "closed" ELSE @]

\* Shutdown closes the listeners that Serve has tracked, and starts d.Close in a goroutine.
Shutdown(s) ==
  [s EXCEPT !.down = TRUE,
            !.tcp = IF @ = "serving" THEN "closed" ELSE @,
            !.udp = IF @ = "open" THEN "closing" ELSE @]

StopLocks ==
  /\ main = "stop called" /\ mu = Free
  /\ IF mobile.running
     THEN /\ mu' = Main /\ main' = "shutting down"
          /\ srv' = [srv EXCEPT ![mobile.stop] = Shutdown(@)]
     ELSE main' = "stopped" /\ UNCHANGED <<mu, srv>>
  /\ UNCHANGED <<foreign, service, thread, serverAddress, starting, crossed, mobile>>

\* Mutant: the binding keeps the address of the server it stopped.
StopKeepsAddress ==
  /\ main = "shutting down"
  /\ mobile' = [NotRunning EXCEPT !.addr = mobile.addr]
  /\ mu' = Free /\ main' = "stopped"
  /\ UNCHANGED <<foreign, service, thread, serverAddress, starting, crossed, srv>>

\* Mutant: Shutdown gets a context without a deadline.
StopWaits ==
  /\ main = "shutting down" /\ srv[mobile.stop].active = 0
  /\ mobile' = NotRunning
  /\ mu' = Free /\ main' = "stopped"
  /\ UNCHANGED <<foreign, service, thread, serverAddress, starting, crossed, srv>>

\* Shutdown returns: no handler is active, or its ten seconds are over; handlers go on.
StopReturns ==
  /\ main = "shutting down"
  /\ mobile' = NotRunning
  /\ mu' = Free /\ main' = "stopped"
  /\ UNCHANGED <<foreign, service, thread, serverAddress, starting, crossed, srv>>

\* Mutant: onDestroy does not clear the address.
DestroyedOnly ==
  /\ main = "stopped"
  /\ service' = FALSE /\ main' = "idle"
  /\ UNCHANGED <<foreign, thread, serverAddress, starting, crossed, bindingVars, srv>>

Destroyed ==
  /\ main = "stopped"
  /\ serverAddress' = NoServer
  /\ service' = FALSE /\ main' = "idle"
  /\ UNCHANGED <<foreign, thread, starting, crossed, bindingVars, srv>>

----------------------------------------------------------------------------
(* The goroutines of a server                                              *)

Spawned(i) == srv[i].tcp = "bound" /\ (mobile.stop = i \/ srv[i].down)

\* Serve: after Shutdown it only closes its listener.
ServeBegins(i) ==
  /\ Spawned(i)
  /\ srv' = [srv EXCEPT ![i].tcp = IF srv[i].down THEN "closed" ELSE "serving"]
  /\ UNCHANGED <<foreign, androidVars, bindingVars>>

\* Accept fails for good: the error is logged.
ServeFails(i) ==
  /\ srv[i].tcp = "serving"
  /\ Cardinality({j \in Starts : srv[j].failed}) < MaxServeErrors
  /\ srv' = [srv EXCEPT ![i].tcp = "closed", ![i].failed = TRUE]
  /\ UNCHANGED <<foreign, androidVars, bindingVars>>

AcceptRequest(i) ==
  /\ srv[i].tcp = "serving" /\ srv[i].active < MaxActive
  /\ srv' = [srv EXCEPT ![i].active = @ + 1]
  /\ UNCHANGED <<foreign, androidVars, bindingVars>>

\* A handler may take any time: no fairness.
HandlerReturns(i) ==
  /\ srv[i].active > 0
  /\ srv' = [srv EXCEPT ![i].active = @ - 1]
  /\ UNCHANGED <<foreign, androidVars, bindingVars>>

\* discovery.Close, and the read loop returns.
DiscoveryCloses(i) ==
  /\ srv[i].udp = "closing"
  /\ srv' = [srv EXCEPT ![i].udp = "closed"]
  /\ UNCHANGED <<foreign, androidVars, bindingVars>>

StartStep(t) ==
  \/ StartLocks(t) \/ Listen(t) \/ StartDiscovery(t) \/ StartReturns(t)
  \/ ClearStarting(t) \/ Publish(t)
DestroyStep == StopLocks \/ StopReturns \/ Destroyed
ServerStep(i) == ServeBegins(i) \/ DiscoveryCloses(i)

NasNext ==
  \/ OnStartCommand \/ OnDestroy \/ DestroyStep
  \/ \E i \in Starts : \/ StartStep(i) \/ ServerStep(i)
                       \/ ServeFails(i) \/ AcceptRequest(i) \/ HandlerReturns(i)

\* Goroutines and threads that can run do run; the user, clients and handlers need not.
NasFairness ==
  /\ WF_nasVars(DestroyStep)
  /\ \A i \in Starts : WF_nasVars(StartStep(i)) /\ WF_nasVars(ServerStep(i))

NasSpec == NasInit /\ [][NasNext]_nasVars /\ NasFairness

----------------------------------------------------------------------------
(* Properties                                                              *)

\* Whenever Address can answer, it names the server that Stop would stop, and that server
\* listens, unless its Serve failed; no second server listens beside it, and who answers a
\* discovery probe listens at the port it names.
OneServer ==
  /\ mu = Free => /\ mobile.addr = mobile.stop
                  /\ mobile.addr # NoServer => /\ ~ srv[mobile.addr].down
                                               /\ Open(mobile.addr) \/ srv[mobile.addr].failed
  /\ \A i, j \in Starts : Open(i) /\ Open(j) /\ i # j => srv[i].down \/ srv[j].down
  /\ \A i \in Starts : srv[i].udp = "open" => Open(i) \/ srv[i].failed

\* Unless onDestroy once ran into a start: when neither is under way, the service shows the
\* address of the server that runs, and a destroyed service has left no server running.
ServiceAgrees ==
  \/ crossed \/ main # "idle" \/ StartsUnderWay # {}
  \/ serverAddress = mobile.addr /\ (~ service => ~ mobile.running)

\* A server that is shut down lets go of its TCP and UDP ports, also if it was stopped before
\* its Serve began and if its handlers never return.
PortsReleased == \A i \in Starts : srv[i].down ~> ~ Open(i) /\ srv[i].udp = "closed"

\* onDestroy and Mobile.start return, also if handlers never do, whoever has the mutex.
CallsReturn ==
  /\ main # "idle" ~> main = "idle"
  /\ \A t \in Starts : thread[t].at = "called" ~> thread[t].at = "done"
=============================================================================
