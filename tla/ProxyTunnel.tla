----------------------------- MODULE ProxyTunnel -----------------------------
(***************************************************************************)
(* ProxyService and WireGuardClient: the tunnel that follows the server    *)
(* connection, driven by events each of which starts a goroutine.          *)
(*                                                                         *)
(* A k in Config is a WireGuard configuration received from the server; it *)
(* also names what handleWireGuardConfig makes of it: its own execution,   *)
(* the client (and its device), the goroutine that registers with the      *)
(* server and the one that runs handleTunnelRequests.  A c in Conn is a    *)
(* server connection, and names the handler of its ConnectionClosed;       *)
(* Stopper is ProxyService.Stop, which begins as that handler does.        *)
(*                                                                         *)
(* The connections come from a service that keeps the promises of          *)
(* ConnectionCustody, as ConnectionLifecycle does.                         *)
(***************************************************************************)
EXTENDS Naturals

\* Connections and configurations, numbered in the order of their arrival.
CONSTANTS Conn, Config

ASSUME ArrivalNumbers == Conn \subseteq Nat \ {0} /\ Config \subseteq Nat \ {0}

Stopper  == 0
NoConn   == 0
NoConfig == 0
Closer   == Conn \cup {Stopper}

VARIABLES
  status,      \* [Conn -> the connection, as ConnectionCustody has it]
  announced,   \* connections whose ConnectionEstablished is being delivered
  handler,     \* [Config -> where handleWireGuardConfig is]
  closer,      \* [Closer -> where the handler of ConnectionClosed, or Stop, is]
  device,      \* [Config -> the client's device]
  dead,        \* clients whose peer answers no handshake any more
  register,    \* [Config -> where the registration goroutine is]
  tunnel,      \* [Config -> where handleTunnelRequests is]
  sshConn, wgClient, cancelFunc, \* fields of ProxyService
  mu,          \* the configuration whose handler holds connectionMu
  ctxDone,     \* tunnel goroutines whose proxyCtx has been cancelled
  crashed      \* a goroutine has panicked

Custody == INSTANCE ConnectionCustody

events  == <<status, announced>>
fields  == <<sshConn, wgClient, cancelFunc>>
threads == <<handler, closer, register, tunnel>>
flags   == <<ctxDone, crashed>>
vars    == <<events, threads, device, dead, fields, mu, flags>>

Init ==
  /\ Custody!Init /\ announced = {}
  /\ handler = [k \in Config |-> "idle"]
  /\ closer = [t \in Closer |-> "idle"]
  /\ device = [k \in Config |-> "none"] /\ dead = {}
  /\ register = [k \in Config |-> "idle"]
  /\ tunnel = [k \in Config |-> "idle"]
  /\ sshConn = NoConn /\ wgClient = NoConfig /\ cancelFunc = NoConfig
  /\ mu = NoConfig /\ ctxDone = {}
  /\ crashed = FALSE

Alive   == ~crashed
CanLock == mu = NoConfig

\* Service.Stop has cancelled s.ctx and removed the listeners.
serviceDone == closer[Stopper] = "done"
CtxDone(k) == k \in ctxDone \/ serviceDone

-----------------------------------------------------------------------------
(* The connection service, as ProxyService sees it                          *)

\* The next configuration arrives and its handler starts, if ProxyService is
\* still subscribed.
Publishes(k) ==
  /\ handler[k] = "idle" /\ \A j \in Config : j < k => handler[j] # "idle"
  /\ handler' = [handler EXCEPT ![k] = IF serviceDone THEN "done" ELSE "lock"]

\* Connect dials, and fails.
Dials(c) ==
  /\ Alive
  /\ \A d \in Conn : d < c => status[d] # "unused"
  /\ Custody!Open(c)
  /\ UNCHANGED <<announced, threads, device, dead, fields, mu, flags>>

Fails(c) ==
  /\ Alive
  /\ Custody!Abandon(c)
  /\ UNCHANGED <<announced, threads, device, dead, fields, mu, flags>>

\* Connect: sendConfig has published the first configuration; the connection
\* is stored and ConnectionEstablished published.
Establish(c, k) ==
  /\ Alive
  /\ Custody!Install(c)
  /\ Publishes(k)
  /\ announced' = IF serviceDone THEN announced ELSE announced \cup {c}
  /\ UNCHANGED <<closer, register, tunnel, device, dead, fields, mu, flags>>

\* handleConfigEvent: the configuration is sent again and answered again.
Reconfigure(k) ==
  /\ Alive
  /\ \E c \in Conn : status[c] = "current"
  /\ Publishes(k)
  /\ UNCHANGED <<events, closer, register, tunnel, device, dead, fields, mu, flags>>

\* closeConnection, for whatever reason: the pointer is taken ...
Retire(c) ==
  /\ Alive
  /\ Custody!Retire(c)
  /\ UNCHANGED <<announced, threads, device, dead, fields, mu, flags>>

\* ... the connection closed, and ConnectionClosed published.
CloseConnection(c) ==
  /\ Alive
  /\ Custody!Close(c)
  /\ closer' = [closer EXCEPT ![c] = IF serviceDone THEN "done" ELSE "cancel"]
  /\ UNCHANGED <<announced, handler, register, tunnel, device, dead, fields, mu, flags>>

StopBegins ==
  /\ Alive
  /\ closer[Stopper] = "idle"
  /\ closer' = [closer EXCEPT ![Stopper] = "cancel"]
  /\ UNCHANGED <<events, handler, register, tunnel, device, dead, fields, mu, flags>>

\* The peer stops answering: the last handshake will be too old for IsHealthy.
PeerDies(k) ==
  /\ Alive
  /\ device[k] = "running" /\ k \notin dead
  /\ dead' = dead \cup {k}
  /\ UNCHANGED <<events, threads, device, fields, mu, flags>>

-----------------------------------------------------------------------------
(* handleConnectionEvents *)

\* ConnectionEstablished.
SetSSHConn(c) ==
  /\ Alive
  /\ c \in announced
  /\ CanLock
  /\ sshConn' = c
  /\ announced' = announced \ {c}
  /\ UNCHANGED <<status, threads, device, dead, wgClient, cancelFunc, mu, flags>>

\* ConnectionClosed and Stop, without the lock: call s.cancelFunc ...
CloserCancels(t) ==
  /\ Alive
  /\ closer[t] = "cancel"
  /\ ctxDone' = IF cancelFunc = NoConfig THEN ctxDone ELSE ctxDone \cup {cancelFunc}
  /\ closer' = [closer EXCEPT ![t] = IF cancelFunc = NoConfig THEN "lock" ELSE "clear"]
  /\ UNCHANGED <<events, handler, register, tunnel, device, dead, fields, mu, crashed>>

\* ... and clear it.
CloserClears(t) ==
  /\ Alive
  /\ closer[t] = "clear"
  /\ cancelFunc' = NoConfig
  /\ closer' = [closer EXCEPT ![t] = "lock"]
  /\ UNCHANGED <<events, handler, register, tunnel, device, dead, sshConn, wgClient, mu, flags>>

\* WireGuardClient.Stop closes a running device, and does nothing to another.
StopClient ==
  IF wgClient = NoConfig \/ device[wgClient] # "running" THEN device
  ELSE [device EXCEPT ![wgClient] = "closed"]

\* Under the lock: stop and drop the client; Stop leaves sshConn alone, and
\* goes on to Service.Stop.
CloserStopsClient(t) ==
  /\ Alive
  /\ closer[t] = "lock"
  /\ CanLock
  /\ device' = StopClient
  /\ wgClient' = NoConfig
  /\ sshConn' = IF t = Stopper THEN sshConn ELSE NoConn
  /\ closer' = [closer EXCEPT ![t] = IF t = Stopper THEN "service" ELSE "done"]
  /\ UNCHANGED <<events, handler, register, tunnel, dead, cancelFunc, mu, flags>>

\* Service.Stop: cancel s.ctx, then remove the listeners.
StopService ==
  /\ Alive
  /\ closer[Stopper] = "service"
  /\ closer' = [closer EXCEPT ![Stopper] = "done"]
  /\ UNCHANGED <<events, handler, register, tunnel, device, dead, fields, mu, flags>>

-----------------------------------------------------------------------------
(* handleWireGuardConfig, which holds connectionMu from its first step to   *)
(* its last                                                                 *)

\* WireGuardClient.Start after the old client was stopped.  "none": a key or an
\* address does not parse, or there is no TUN.  "closed": the device refuses its
\* configuration or does not come up, and is closed again.
StartClient(k, outcome) == [StopClient EXCEPT ![k] = outcome]

\* NewWireGuardClient or Start fails: the old client, stopped, stays in
\* s.wgClient, and nobody hears ProxyFailed.
ClientFails(k) ==
  /\ Alive
  /\ handler[k] = "lock"
  /\ CanLock
  /\ device' \in {StartClient(k, "none"), StartClient(k, "closed")}
  /\ handler' = [handler EXCEPT ![k] = "done"]
  /\ UNCHANGED <<events, closer, register, tunnel, dead, fields, mu, flags>>

\* A handler that replaces the client without stopping it.
InstallBesideOld(k) ==
  /\ Alive
  /\ handler[k] = "lock"
  /\ CanLock
  /\ mu' = k
  /\ device' = [device EXCEPT ![k] = "running"]
  /\ wgClient' = k
  /\ register' = [register EXCEPT ![k] = "wait"]
  /\ handler' = [handler EXCEPT ![k] = "arm"]
  /\ UNCHANGED <<events, closer, tunnel, dead, sshConn, cancelFunc, flags>>

\* The old client is stopped and the new one takes its place; registration is
\* left to a goroutine.
Install(k) ==
  /\ Alive
  /\ handler[k] = "lock"
  /\ CanLock
  /\ mu' = k
  /\ device' = StartClient(k, "running")
  /\ wgClient' = k
  /\ register' = [register EXCEPT ![k] = "wait"]
  /\ handler' = [handler EXCEPT ![k] = "arm"]
  /\ UNCHANGED <<events, closer, tunnel, dead, sshConn, cancelFunc, flags>>

\* A handler that forgets to unlock.
ArmKeepsLock(k) ==
  /\ Alive
  /\ handler[k] = "arm"
  /\ ctxDone' = IF cancelFunc = NoConfig THEN ctxDone ELSE ctxDone \cup {cancelFunc}
  /\ cancelFunc' = k
  /\ tunnel' = [tunnel EXCEPT ![k] = "start"]
  /\ handler' = [handler EXCEPT ![k] = "done"]
  /\ UNCHANGED <<events, closer, register, device, dead, sshConn, wgClient, mu, crashed>>

\* A handler that stores the new cancelFunc, and then calls it as the old one.
ArmCancelsNew(k) ==
  /\ Alive
  /\ handler[k] = "arm"
  /\ ctxDone' = ctxDone \cup {k}
  /\ cancelFunc' = k
  /\ tunnel' = [tunnel EXCEPT ![k] = "start"]
  /\ mu' = NoConfig
  /\ handler' = [handler EXCEPT ![k] = "done"]
  /\ UNCHANGED <<events, closer, register, device, dead, sshConn, wgClient, crashed>>

\* The old tunnel goroutine is cancelled and a new one started.
Arm(k) ==
  /\ Alive
  /\ handler[k] = "arm"
  /\ ctxDone' = IF cancelFunc = NoConfig THEN ctxDone ELSE ctxDone \cup {cancelFunc}
  /\ cancelFunc' = k
  /\ tunnel' = [tunnel EXCEPT ![k] = "start"]
  /\ mu' = NoConfig
  /\ handler' = [handler EXCEPT ![k] = "done"]
  /\ UNCHANGED <<events, closer, register, device, dead, sshConn, wgClient, crashed>>

-----------------------------------------------------------------------------
(* The registration goroutine: five tries, 100 ms apart, to find sshConn    *)

\* SendPayload over the connection found, or no connection in half a second:
\* the server may have been told or not, ProxyService is none the wiser.
Register(k) ==
  /\ Alive
  /\ register[k] = "wait"
  /\ CanLock
  /\ register' = [register EXCEPT ![k] = "done"]
  /\ UNCHANGED <<events, handler, closer, tunnel, device, dead, fields, mu, flags>>

-----------------------------------------------------------------------------
(* handleTunnelRequests *)

TunnelGoes(k, from, to) ==
  /\ Alive
  /\ tunnel[k] = from
  /\ tunnel' = [tunnel EXCEPT ![k] = to]
  /\ UNCHANGED <<events, handler, closer, register, device, dead, fields, mu, ctxDone>>

\* Read s.wgClient under the lock and Listen on its device, which must be
\* running; Listen can also fail for reasons of its own.
TunnelListens(k) ==
  /\ CanLock
  /\ wgClient # NoConfig /\ device[wgClient] = "running"
  /\ TunnelGoes(k, "start", "serving")
  /\ UNCHANGED crashed

\* No client, or Listen fails, which nobody hears of.
TunnelCannotListen(k) ==
  /\ CanLock
  /\ TunnelGoes(k, "start", "deaf")
  /\ UNCHANGED crashed

\* proxyCtx is done.
TunnelCancelled(k) ==
  /\ CtxDone(k)
  /\ TunnelGoes(k, "serving", "done")
  /\ UNCHANGED crashed

\* A health check that asks only whether the client is running.
TunnelLostIfStopped(k) ==
  /\ CanLock
  /\ wgClient # NoConfig
  /\ device[wgClient] # "running"
  /\ TunnelGoes(k, "serving", "lost")
  /\ UNCHANGED crashed

\* The health check finds the client stopped or its last handshake too old (or
\* none yet): WireGuardDisconnected is published and the goroutine returns.
TunnelLost(k) ==
  /\ CanLock
  /\ wgClient # NoConfig
  /\ TunnelGoes(k, "serving", "lost")
  /\ UNCHANGED crashed

\* The health check calls IsHealthy on a nil client (proxy.go:382).
HealthCheckPanics(k) ==
  /\ CanLock
  /\ wgClient = NoConfig
  /\ TunnelGoes(k, "serving", "done")
  /\ crashed' = TRUE

-----------------------------------------------------------------------------
Outside ==
  \/ \E c \in Conn : Dials(c) \/ Fails(c) \/ Retire(c) \/ CloseConnection(c)
  \/ \E c \in Conn, k \in Config : Establish(c, k)
  \/ \E k \in Config : Reconfigure(k) \/ PeerDies(k)
  \/ StopBegins

Close(t)   == CloserCancels(t) \/ CloserClears(t) \/ CloserStopsClient(t)
Handle(k)  == ClientFails(k) \/ Install(k) \/ Arm(k)
Listen(k)  == TunnelListens(k) \/ TunnelCannotListen(k)
Check(k)   == TunnelLost(k) \/ HealthCheckPanics(k)

Next ==
  \/ Outside
  \/ \E c \in Conn : SetSSHConn(c)
  \/ \E t \in Closer : Close(t)
  \/ StopService
  \/ \E k \in Config :
       Handle(k) \/ Register(k) \/ Listen(k) \/ TunnelCancelled(k) \/ Check(k)

Spec == Init /\ [][Next]_vars

\* A health check that must fail: the client is gone, stopped or dead.
CheckMustFail(k) ==
  /\ wgClient # NoConfig => (device[wgClient] # "running" \/ wgClient \in dead)
  /\ Check(k)

\* The handler that holds the lock goes on, and a health check that must fail
\* comes.  Nothing more is needed.
Fairness == \A k \in Config : WF_vars(Handle(k)) /\ WF_vars(CheckMustFail(k))

FairSpec == Spec /\ Fairness

-----------------------------------------------------------------------------
(* Properties *)

\* Every variable has its type, and the lock is held by the handler that
\* installed a client and has not started its tunnel goroutine yet.
TypeOK ==
  /\ status \in [Conn -> Custody!Status]
  /\ announced \subseteq Conn
  /\ handler \in [Config -> {"idle", "lock", "arm", "done"}]
  /\ closer \in [Closer -> {"idle", "cancel", "clear", "lock", "service", "done"}]
  /\ device \in [Config -> {"none", "running", "closed"}]
  /\ dead \subseteq Config
  /\ register \in [Config -> {"idle", "wait", "done"}]
  /\ tunnel \in [Config -> {"idle", "start", "deaf", "serving", "lost", "done"}]
  /\ sshConn \in Conn \cup {NoConn}
  /\ wgClient \in Config \cup {NoConfig} /\ cancelFunc \in Config \cup {NoConfig}
  /\ mu \in Config \cup {NoConfig}
  /\ ctxDone \subseteq Config
  /\ crashed \in BOOLEAN
  /\ \A k \in Config : handler[k] = "arm" <=> mu = k

\* No device is leaked: a running device is that of s.wgClient, so that at
\* most one runs and the next Stop, close or configuration will find it
\* (proxy.go:62-67, 109-115, 134-139 and 185).
NoStrayDevice ==
  \A k \in Config : device[k] = "running" => wgClient = k

\* A client in place can be taken down: its tunnel goroutine is there, or ended
\* by itself, and the next close or configuration can cancel it; or the handler
\* that installs it is not through; or a close that dropped its cancelFunc, read
\* and cleared without the lock (proxy.go:104-107), is about to drop it, too.
ClientIsWatched ==
  wgClient # NoConfig =>
    \/ mu = wgClient
    \/ \E t \in Closer : closer[t] \in {"clear", "lock"}
    \/ /\ cancelFunc = wgClient /\ wgClient \notin ctxDone
       /\ tunnel[wgClient] \notin {"idle", "done"} \/ serviceDone

Serving(k) == tunnel[k] = "serving" /\ ~crashed

\* A tunnel whose peer is dead does not stay in place: its goroutine reports
\* it or ends, or the client is replaced.
DeadTunnelNoticed ==
  \A k \in Config :
    (Serving(k) /\ wgClient = k /\ k \in dead) ~> (~Serving(k) \/ wgClient # k)

\* README.md:181, "Graceful recovery: Handles network interruptions
\* seamlessly": while nobody has called Stop, losing the connection does not
\* crash the agent.
NoCrash == closer[Stopper] = "idle" => ~crashed
=============================================================================
