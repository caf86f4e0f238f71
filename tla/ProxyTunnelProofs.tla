-------------------------- MODULE ProxyTunnelProofs --------------------------
(***************************************************************************)
(* For every number of connections and configurations: type correctness of *)
(* ProxyTunnel, that no WireGuard device is ever leaked, and that a client *)
(* in place can be taken down.                                             *)
(***************************************************************************)
EXTENDS ProxyTunnel, TLAPS

\* The lock protects both the device that runs and the pointer to it, so the
\* two properties are inductive together.
IInv == TypeOK /\ NoStrayDevice

LEMMA InitIInv == Init => IInv
<1> SUFFICES ASSUME Init PROVE IInv
  OBVIOUS
<1>1. TypeOK
  <2>1. \A k \in Config : handler[k] = "arm" <=> mu = k
    BY ArrivalNumbers DEF Init, NoConfig
  <2>2. QED
    BY <2>1 DEF Init, TypeOK, Custody!Init, Custody!Status
<1>2. NoStrayDevice
  BY DEF Init, NoStrayDevice
<1>3. QED
  BY <1>1, <1>2 DEF IInv

\* Once the client is stopped, no device runs.
LEMMA StopClientStops ==
  ASSUME IInv
  PROVE  /\ StopClient \in [Config -> {"none", "running", "closed"}]
         /\ \A k \in Config : StopClient[k] # "running"
<1>1. CASE wgClient = NoConfig \/ device[wgClient] # "running"
  BY <1>1, ArrivalNumbers DEF IInv, TypeOK, NoStrayDevice, StopClient, NoConfig
<1>2. CASE wgClient \in Config /\ device[wgClient] = "running"
  BY <1>2, ArrivalNumbers DEF IInv, TypeOK, NoStrayDevice, StopClient, NoConfig
<1>3. QED
  BY <1>1, <1>2 DEF IInv, TypeOK

LEMMA OutsideStep == IInv /\ Outside => IInv'
<1> SUFFICES ASSUME IInv, Outside PROVE IInv'
  OBVIOUS
<1> USE DEF IInv, TypeOK, NoStrayDevice, Closer, events, threads, flags, fields,
            Custody!Status
<1>1. ASSUME NEW c \in Conn, Dials(c) PROVE IInv'
  BY <1>1 DEF Dials, Custody!Open, Custody!Moves
<1>2. ASSUME NEW c \in Conn, Fails(c) PROVE IInv'
  BY <1>2 DEF Fails, Custody!Abandon, Custody!Moves
<1>3. ASSUME NEW c \in Conn, NEW k \in Config, Establish(c, k) PROVE IInv'
  BY <1>3 DEF Establish, Publishes, Custody!Install, Custody!Moves
<1>4. ASSUME NEW c \in Conn, Retire(c) PROVE IInv'
  BY <1>4 DEF Retire, Custody!Retire, Custody!Moves
<1>5. ASSUME NEW c \in Conn, CloseConnection(c) PROVE IInv'
  BY <1>5 DEF CloseConnection, Custody!Close, Custody!Moves
<1>6. ASSUME NEW k \in Config, Reconfigure(k) PROVE IInv'
  BY <1>6 DEF Reconfigure, Publishes
<1>7. ASSUME NEW k \in Config, PeerDies(k) PROVE IInv'
  BY <1>7 DEF PeerDies
<1>8. CASE StopBegins
  BY <1>8 DEF StopBegins
<1>9. QED
  BY <1>1, <1>2, <1>3, <1>4, <1>5, <1>6, <1>7, <1>8 DEF Outside

LEMMA CloserStep ==
  ASSUME IInv,
         \/ \E t \in Closer : Close(t)
         \/ StopService
         \/ \E c \in Conn : SetSSHConn(c)
  PROVE  IInv'
<1> USE DEF IInv, TypeOK, NoStrayDevice, Closer, events, threads, flags, fields
<1>1. ASSUME NEW t \in Closer, CloserCancels(t) PROVE IInv'
  BY <1>1 DEF CloserCancels
<1>2. ASSUME NEW t \in Closer, CloserClears(t) PROVE IInv'
  BY <1>2 DEF CloserClears
<1>3. ASSUME NEW t \in Closer, CloserStopsClient(t) PROVE IInv'
  BY <1>3, StopClientStops DEF CloserStopsClient
<1>4. CASE StopService
  BY <1>4 DEF StopService
<1>5. ASSUME NEW c \in Conn, SetSSHConn(c) PROVE IInv'
  BY <1>5 DEF SetSSHConn
<1>6. QED
  BY <1>1, <1>2, <1>3, <1>4, <1>5 DEF Close

LEMMA HandlerStep ==
  ASSUME IInv, NEW k \in Config, Handle(k)
  PROVE  IInv'
<1> USE ArrivalNumbers DEF IInv, TypeOK, NoStrayDevice, Closer, NoConfig,
                           events, threads, flags, fields
<1>1. CASE ClientFails(k)
  BY <1>1, StopClientStops DEF ClientFails, StartClient, CanLock
<1>2. CASE Install(k)
  BY <1>2, StopClientStops DEF Install, StartClient, CanLock
<1>3. CASE Arm(k)
  BY <1>3 DEF Arm
<1>4. QED
  BY <1>1, <1>2, <1>3 DEF Handle

LEMMA GoroutineStep ==
  ASSUME IInv, NEW k \in Config,
         Register(k) \/ Listen(k) \/ TunnelCancelled(k) \/ Check(k)
  PROVE  IInv'
<1> USE DEF IInv, TypeOK, NoStrayDevice, Closer, events, threads, flags, fields
<1>1. CASE Register(k)
  BY <1>1 DEF Register
<1>2. CASE Listen(k) \/ TunnelCancelled(k)
  BY <1>2 DEF Listen, TunnelListens, TunnelCannotListen, TunnelCancelled, TunnelGoes
<1>3. CASE Check(k)
  BY <1>3 DEF Check, TunnelLost, HealthCheckPanics, TunnelGoes
<1>4. QED
  BY <1>1, <1>2, <1>3

LEMMA Invariance == Spec => []IInv
<1>1. IInv /\ UNCHANGED vars => IInv'
  BY DEF IInv, TypeOK, NoStrayDevice, Closer, vars, events, threads, flags, fields
<1>2. IInv /\ [Next]_vars => IInv'
  BY <1>1, OutsideStep, CloserStep, HandlerStep, GoroutineStep DEF Next
<1>3. QED
  BY InitIInv, <1>2, PTL DEF Spec

-----------------------------------------------------------------------------
(* Who can take a client down *)

\* A handler that holds the lock has put its client in place; it starts its
\* tunnel goroutine, which can be cancelled from then on, and is through; and
\* a connection is closed when it is announced as closed.
Handling ==
  /\ mu # NoConfig => wgClient = mu
  /\ \A k \in Config :
       tunnel[k] # "idle" \/ k \in ctxDone \/ cancelFunc = k => handler[k] = "done"
  /\ \A c \in Conn : closer[c] # "idle" => status[c] = "closed"

Watched == Handling /\ ClientIsWatched

LEMMA InitWatched == Init => Watched
BY ArrivalNumbers DEF Init, Watched, Handling, ClientIsWatched, NoConfig, Closer

\* Most steps leave the client, its cancelFunc and their handler alone.
LeavesClient ==
  /\ UNCHANGED <<cancelFunc, wgClient, mu, ctxDone, tunnel>>
  /\ \A k \in Config : handler[k] = "done" => handler'[k] = "done"
  /\ \A t \in Closer : closer[t] \in {"clear", "lock"} => closer'[t] = closer[t]
  /\ serviceDone => serviceDone'
  /\ \A c \in Conn : closer'[c] # "idle" => status'[c] = "closed"

LEMMA WatchedKept == Watched /\ LeavesClient => Watched'
BY DEF Watched, Handling, ClientIsWatched, LeavesClient

LEMMA WatchedOutside ==
  ASSUME IInv, Watched,
         \/ Outside \/ StopService \/ UNCHANGED vars
         \/ \E c \in Conn : SetSSHConn(c)
         \/ \E k \in Config : Register(k) \/ ClientFails(k)
  PROVE  Watched'
<1> SUFFICES LeavesClient
  BY WatchedKept
<1> USE DEF LeavesClient, Watched, Handling, IInv, TypeOK, serviceDone, Closer,
            events, threads, fields, flags
<1>1. ASSUME NEW c \in Conn, Dials(c) \/ Fails(c) \/ Retire(c) PROVE LeavesClient
  BY <1>1 DEF Dials, Fails, Retire, Custody!Open, Custody!Abandon, Custody!Retire, Custody!Moves
<1>2. ASSUME NEW c \in Conn, NEW k \in Config, Establish(c, k) PROVE LeavesClient
  BY <1>2 DEF Establish, Publishes, Custody!Install, Custody!Moves
<1>3. ASSUME NEW c \in Conn, CloseConnection(c) PROVE LeavesClient
  BY <1>3, ArrivalNumbers DEF CloseConnection, Custody!Close, Custody!Moves, Stopper
<1>4. ASSUME NEW k \in Config, Reconfigure(k) \/ PeerDies(k) PROVE LeavesClient
  BY <1>4 DEF Reconfigure, PeerDies, Publishes
<1>5. CASE StopBegins \/ StopService
  BY <1>5, ArrivalNumbers DEF StopBegins, StopService, Stopper
<1>6. ASSUME NEW c \in Conn, SetSSHConn(c) PROVE LeavesClient
  BY <1>6 DEF SetSSHConn
<1>7. ASSUME NEW k \in Config, Register(k) \/ ClientFails(k) PROVE LeavesClient
  BY <1>7 DEF Register, ClientFails
<1>8. CASE UNCHANGED vars
  BY <1>8 DEF vars
<1>9. QED
  BY <1>1, <1>2, <1>3, <1>4, <1>5, <1>6, <1>7, <1>8 DEF Outside

\* A close that cancels has yet to take the client, and will.
LEMMA WatchedClose ==
  ASSUME IInv, Watched, NEW t \in Closer, Close(t)
  PROVE  Watched'
<1> USE DEF IInv, TypeOK, Watched, Handling, Closer, events, threads, fields, flags
<1>1. \A c \in Conn : closer'[c] # "idle" => status'[c] = "closed"
  BY DEF Close, CloserCancels, CloserClears, CloserStopsClient
<1>2. CASE CloserCancels(t)
  <2>1. closer'[t] \in {"clear", "lock"}
    BY <1>2 DEF CloserCancels
  <2>2. ClientIsWatched'
    BY <2>1 DEF ClientIsWatched
  <2>3. QED
    BY <1>1, <1>2, <2>2 DEF CloserCancels
<1>3. CASE CloserClears(t)
  <2>1. closer'[t] \in {"clear", "lock"}
    BY <1>3 DEF CloserClears
  <2>2. ClientIsWatched'
    BY <2>1 DEF ClientIsWatched
  <2>3. QED
    BY <1>1, <1>3, <2>2, ArrivalNumbers DEF CloserClears, NoConfig
<1>4. CASE CloserStopsClient(t)
  BY <1>1, <1>4 DEF CloserStopsClient, CanLock, ClientIsWatched
<1>5. QED
  BY <1>2, <1>3, <1>4 DEF Close

LEMMA WatchedHandle ==
  ASSUME IInv, Watched, NEW k \in Config, Install(k) \/ Arm(k)
  PROVE  Watched'
<1> USE ArrivalNumbers DEF IInv, TypeOK, Watched, Handling, ClientIsWatched, serviceDone,
                           Closer, NoConfig, events, threads, fields, flags
<1>1. CASE Install(k)
  BY <1>1 DEF Install, CanLock
<1>2. CASE Arm(k)
  <2>1. mu = k /\ wgClient = k /\ k \notin ctxDone /\ cancelFunc # k /\ tunnel[k] = "idle"
    BY <1>2 DEF Arm
  <2>2. ClientIsWatched'
    BY <1>2, <2>1 DEF Arm
  <2>3. QED
    BY <1>2, <2>1, <2>2 DEF Arm
<1>3. QED
  BY <1>1, <1>2

\* A tunnel goroutine is over only if it was cancelled, or by itself.
LEMMA WatchedTunnel ==
  ASSUME IInv, Watched, NEW k \in Config, Listen(k) \/ TunnelCancelled(k) \/ Check(k)
  PROVE  Watched'
<1> USE DEF IInv, TypeOK, Watched, Handling, TunnelGoes, events, threads, fields, flags
<1>1. /\ UNCHANGED <<status, closer, handler, cancelFunc, wgClient, mu, ctxDone>>
      /\ tunnel[k] # "idle" /\ \A j \in Config : j # k => tunnel'[j] = tunnel[j]
      /\ \/ tunnel'[k] \in {"deaf", "serving", "lost"}
         \/ tunnel'[k] = "done" /\ (wgClient = NoConfig \/ k \in ctxDone \/ serviceDone)
  BY DEF Listen, TunnelListens, TunnelCannotListen, TunnelCancelled, Check, TunnelLost,
     HealthCheckPanics, CtxDone
<1>2. Handling'
  BY <1>1
<1>3. ClientIsWatched'
  BY <1>1 DEF ClientIsWatched, serviceDone
<1>4. QED
  BY <1>2, <1>3

LEMMA WatchedStep == IInv /\ Watched /\ [Next]_vars => Watched'
BY WatchedOutside, WatchedClose, WatchedHandle, WatchedTunnel DEF Next, Handle

-----------------------------------------------------------------------------
\* TypeOK holds of every behaviour, whatever the numbers of connections and
\* configurations; with it, connectionMu has one holder.
THEOREM TypeCorrect == Spec => []TypeOK
BY Invariance, PTL DEF IInv

\* handleWireGuardConfig, handleConnectionEvents and Stop never lose track of
\* a running WireGuard device.
THEOREM NoDeviceLeak == Spec => []NoStrayDevice
BY Invariance, PTL DEF IInv

\* However closes, configurations and Stop follow each other, and although they
\* share cancelFunc without the lock, no client is left in place with a tunnel
\* goroutine that was cancelled, or that nobody can cancel.
THEOREM ClientWatched == Spec => []ClientIsWatched
BY Invariance, InitWatched, WatchedStep, PTL DEF Spec, Watched
=============================================================================
