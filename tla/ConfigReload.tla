----------------------------- MODULE ConfigReload -----------------------------
(***************************************************************************)
(* The configuration, from the file to the server: SIGHUP reloads it, each *)
(* reload in a goroutine of its own, the services store it, Main dials     *)
(* with it, and handleConfigEvent sends it over the connection in use and  *)
(* waits for the answer on a stdout that readData reads as well.           *)
(*                                                                         *)
(* Answers carry no name and no number.  A scanner that has been given up  *)
(* after its time-out goes on reading.  A version of the configuration is  *)
(* a number; an r in Reload is one SIGHUP and what it starts.              *)
(***************************************************************************)
EXTENDS Naturals, Sequences

CONSTANTS Reload, Conn, NoConn,
          MaxVersion  \* bound on the edits of the file

ASSUME NoConnIsNone == NoConn \notin Conn
ASSUME BoundIsNat == MaxVersion \in Nat \ {0}

VARIABLES
  file, readable,  \* the version in the file, and whether config.Load takes it
  config, connConfig, proxyConfig, \* what the three services have stored
  server,      \* [Conn -> the version the server has been sent]
  connState,   \* [Conn -> "unused", "open", "closed"]
  connection,  \* ConnectionService.connection
  main, mainConfig, \* App.Run and runWithReconnect: where it is, its local cfg
  subscribed,  \* ConnectionService's handleConfigEvent is registered
  stopping,    \* a stop of ConnectionService has yet to do its work
  reload,      \* [Reload -> where it is]
  version,     \* [Reload -> the version it loaded]
  target,      \* [Reload -> the connection its handler found]
  proxyDue,    \* reloads whose handler in ProxyService has yet to run
  wire,        \* [Conn -> the answers on their way, as the reloads answered]
  scanning,    \* reloads whose scanner is reading
  outOfStep,   \* connections over which a wait was given up, or two overlapped
  requested,   \* connections in use when a handler asked for a reconnection,
               \* since the last reload
  raced,       \* the last reload ran beside another, or beside Main
  unheard      \* ... or was published while ConnectionService was stopped

services == <<config, connConfig, proxyConfig>>
link     == <<server, connState, connection, wire>>
mains    == <<main, mainConfig>>
reloads  == <<reload, version, target, proxyDue>>
exchange == <<scanning, outOfStep>>
history  == <<requested, raced, unheard>>
vars == <<file, readable, services, link, mains, subscribed, stopping,
          reloads, exchange, history>>

Init ==
  /\ file = 1 /\ readable = TRUE
  /\ config = 0 /\ connConfig = 0 /\ proxyConfig = 0
  /\ server = [c \in Conn |-> 0] /\ connState = [c \in Conn |-> "unused"]
  /\ connection = NoConn /\ wire = [c \in Conn |-> <<>>]
  /\ main = "load" /\ mainConfig = 0
  /\ subscribed = TRUE /\ stopping = FALSE
  /\ reload = [r \in Reload |-> "idle"] /\ version = [r \in Reload |-> 0]
  /\ target = [r \in Reload |-> NoConn] /\ proxyDue = {}
  /\ scanning = {} /\ outOfStep = {}
  /\ requested = {} /\ raced = FALSE /\ unheard = FALSE

Busy(r)   == reload[r] \notin {"idle", "done"} \/ r \in proxyDue
SomeoneReloads == \E r \in Reload : Busy(r)

\* The file is edited, and may be left unparsable.
Edit ==
  /\ file < MaxVersion
  /\ file' = file + 1
  /\ readable' \in BOOLEAN
  /\ UNCHANGED <<services, link, mains, subscribed, stopping, reloads, exchange, history>>

-----------------------------------------------------------------------------
(* App.Run and runWithReconnect *)

MainGoes(from, to) ==
  /\ main = from
  /\ main' = to
  /\ UNCHANGED <<file, readable>>

\* LoadConfig: Run goes on only with a configuration.
MainLoads ==
  /\ MainGoes("load", "set connection")
  /\ readable
  /\ config' = file /\ mainConfig' = file
  /\ raced' = (raced \/ SomeoneReloads)
  /\ UNCHANGED <<connConfig, proxyConfig, link, subscribed, stopping, reloads, exchange,
                 requested, unheard>>

MainSetsConnection ==
  /\ MainGoes("set connection", "set proxy")
  /\ connConfig' = mainConfig
  /\ UNCHANGED <<config, proxyConfig, link, mainConfig, subscribed, stopping,
                 reloads, exchange, history>>

MainSetsProxy ==
  /\ MainGoes("set proxy", "select")
  /\ proxyConfig' = mainConfig
  /\ mainConfig' = 0
  /\ UNCHANGED <<config, connConfig, link, subscribed, stopping,
                 reloads, exchange, history>>

\* A tick that finds no connection: GetConfig ...
MainReads ==
  /\ MainGoes("select", "start")
  /\ connection = NoConn
  /\ mainConfig' = connConfig
  /\ raced' = (raced \/ SomeoneReloads)
  /\ UNCHANGED <<services, link, subscribed, stopping, reloads, exchange,
                 requested, unheard>>

\* ... Start, which subscribes again ...
MainStarts ==
  /\ MainGoes("start", "dial")
  /\ subscribed' = TRUE
  /\ UNCHANGED <<services, link, mainConfig, stopping, reloads, exchange, history>>

\* ... and Connect: the dial fails, whose listener stops the service, or the
\* first exchange does ...
MainFails ==
  /\ MainGoes("dial", "select")
  /\ stopping' \in {stopping, TRUE}
  /\ mainConfig' = 0
  /\ UNCHANGED <<services, link, subscribed, reloads, exchange, history>>

\* ... or both succeed, ...
MainDials(c) ==
  /\ MainGoes("dial", "store")
  /\ connState[c] = "unused"
  /\ connState' = [connState EXCEPT ![c] = "open"]
  /\ server' = [server EXCEPT ![c] = mainConfig]
  /\ UNCHANGED <<services, connection, wire, mainConfig, subscribed, stopping,
                 reloads, exchange, history>>

\* ... and the configuration is stored along with the connection.
MainStores ==
  /\ MainGoes("store", "select")
  /\ connConfig' = mainConfig
  /\ connection' \in {c \in Conn : connState[c] = "open"}
  /\ mainConfig' = 0
  /\ UNCHANGED <<config, proxyConfig, server, connState, wire, subscribed, stopping, reloads, exchange, history>>

-----------------------------------------------------------------------------
(* The loss of a connection, and the stop of the service that follows it *)

\* The loop of a connection ends, for whatever reason, and closes the current
\* one; the event of the close has App stop the service.
ConnectionLost ==
  /\ connection # NoConn
  /\ connection' = NoConn
  /\ connState' = [connState EXCEPT ![connection] = "closed"]
  /\ stopping' = TRUE
  /\ UNCHANGED <<file, readable, services, server, wire, mains, subscribed,
                 reloads, exchange, history>>

\* ConnectionService.Stop: whatever connection there is by now is closed, and
\* handleConfigEvent is no longer registered.
ServiceStops ==
  /\ stopping
  /\ subscribed' = FALSE
  /\ stopping' = (connection # NoConn)
  /\ connection' = NoConn
  /\ connState' = IF connection = NoConn THEN connState
                  ELSE [connState EXCEPT ![connection] = "closed"]
  /\ UNCHANGED <<file, readable, services, server, wire, mains, reloads, exchange, history>>

-----------------------------------------------------------------------------
(* ConfigService.reloadAndPublishConfig, and the two handlers it starts *)

ReloadGoes(r, from, to) ==
  /\ reload[r] = from
  /\ reload' = [reload EXCEPT ![r] = to]
  /\ UNCHANGED <<file, readable, mains>>

\* SIGHUP: config.Load, of the file as it is by then.
LoadFile(r) ==
  /\ ReloadGoes(r, "idle", "set")
  /\ readable
  /\ version' = [version EXCEPT ![r] = file]
  /\ requested' = {} /\ unheard' = FALSE
  /\ raced' = (SomeoneReloads \/ main # "select")
  /\ UNCHANGED <<services, link, subscribed, stopping, target, proxyDue, exchange>>

LoadFileFails(r) ==
  /\ ReloadGoes(r, "idle", "done")
  /\ ~readable
  /\ UNCHANGED <<services, link, subscribed, stopping, version, target, proxyDue,
                 exchange, history>>

SetConfig(r) ==
  /\ ReloadGoes(r, "set", "publish")
  /\ config' = version[r]
  /\ UNCHANGED <<connConfig, proxyConfig, link, subscribed, stopping, version,
                 target, proxyDue, exchange, history>>

\* ConfigUpdated: ProxyService hears it, ConnectionService if it is started.
PublishUpdate(r) ==
  /\ ReloadGoes(r, "publish", IF subscribed THEN "store" ELSE "done")
  /\ proxyDue' = proxyDue \cup {r}
  /\ unheard' = ~subscribed
  /\ UNCHANGED <<services, link, subscribed, stopping, version, target, exchange,
                 requested, raced>>

\* ProxyService.handleConfigEvent
ProxyStores(r) ==
  /\ r \in proxyDue
  /\ proxyDue' = proxyDue \ {r}
  /\ proxyConfig' = version[r]
  /\ UNCHANGED <<file, readable, config, connConfig, link, mains, subscribed, stopping,
                 reload, version, target, exchange, history>>

\* ConnectionService.handleConfigEvent: SetConfig, ...
ConnectionStores(r) ==
  /\ ReloadGoes(r, "store", "look")
  /\ connConfig' = version[r]
  /\ UNCHANGED <<config, proxyConfig, link, subscribed, stopping, version, target,
                 proxyDue, exchange, history>>

\* ... a look at the connection, without which there is nobody to tell and no
\* loop to cancel (the request published then closes none), ...
FindConnection(r) ==
  /\ ReloadGoes(r, "look", IF connection = NoConn THEN "done" ELSE "send")
  /\ target' = [target EXCEPT ![r] = connection]
  /\ UNCHANGED <<services, link, subscribed, stopping, version, proxyDue, exchange, history>>

\* The connection of r, if a scanner is reading it already.
Overlapped(r) == {target[q] : q \in scanning} \cap {target[r]}

\* A sendConfig that writes its payload again, to be sure.
SendTwice(r) ==
  /\ ReloadGoes(r, "send", "await")
  /\ connState[target[r]] = "open"
  /\ server' = [server EXCEPT ![target[r]] = version[r]]
  /\ wire' = [wire EXCEPT ![target[r]] = @ \o <<r, r>>]
  /\ scanning' = scanning \cup {r}
  /\ outOfStep' = outOfStep \cup Overlapped(r)
  /\ UNCHANGED <<services, connState, connection, subscribed, stopping, version,
                 target, proxyDue, history>>

\* ... and sendConfig: the server takes the configuration and may answer.  The
\* scanner's goroutine is started.
Send(r) ==
  /\ ReloadGoes(r, "send", "await")
  /\ connState[target[r]] = "open"
  /\ server' = [server EXCEPT ![target[r]] = version[r]]
  /\ wire' \in {wire, [wire EXCEPT ![target[r]] = Append(@, r)]}
  /\ scanning' = scanning \cup {r}
  /\ outOfStep' = outOfStep \cup Overlapped(r)
  /\ UNCHANGED <<services, connState, connection, subscribed, stopping, version,
                 target, proxyDue, history>>

\* A handler that does not ask for a reconnection.
RequestNothing == UNCHANGED requested

\* ReconnectRequested is published, and App goes on publishing it.  Nothing is
\* closed here: the loop that hears it is cancelled, joins its readers, which a
\* quiet peer keeps waiting, and then closes whatever connection is current,
\* which is a ConnectionLost, if it comes to it.
RequestReconnect == requested' = requested \cup ({connection} \cap Conn)

\* SendPayload fails.
SendFails(r) ==
  /\ ReloadGoes(r, "send", "done")
  /\ RequestReconnect
  /\ target' = [target EXCEPT ![r] = NoConn]
  /\ UNCHANGED <<services, link, subscribed, stopping, version, proxyDue,
                 exchange, raced, unheard>>

\* A reader takes the answers there are, or the first few of them.
Taken(c) == \E n \in 1 .. Len(wire[c]) :
  wire' = [wire EXCEPT ![c] = SubSeq(@, n + 1, Len(@))]

\* readData takes answers it has no use for.
ReadDataTakes(c) ==
  /\ connState[c] = "open"
  /\ Taken(c)
  /\ UNCHANGED <<file, readable, services, server, connState, connection, mains,
                 subscribed, stopping, reloads, exchange, history>>

\* A scanner that goes on to the next line.
ScannerGoesOn(r) ==
  /\ r \in scanning
  /\ Taken(target[r])
  /\ reload' = [reload EXCEPT ![r] = "done"]
  /\ UNCHANGED <<file, readable, services, server, connState, connection, mains,
                 subscribed, stopping, version, target, proxyDue, exchange, history>>

\* A scanner takes answers, and its handler, if it still waits, uses the first:
\* a configuration that it publishes ...
ScannerTakes(r) ==
  /\ r \in scanning
  /\ Taken(target[r])
  /\ scanning' = scanning \ {r}
  /\ reload' = [reload EXCEPT ![r] = "done"]
  /\ target' = [target EXCEPT ![r] = NoConn]
  /\ UNCHANGED <<file, readable, services, server, connState, connection, mains,
                 subscribed, stopping, version, proxyDue, outOfStep, history>>

\* ... or an error.
ScannerTakesError(r) ==
  /\ reload[r] = "await"
  /\ Taken(target[r])
  /\ scanning' = scanning \ {r}
  /\ ReloadGoes(r, "await", "done")
  /\ RequestReconnect
  /\ target' = [target EXCEPT ![r] = NoConn]
  /\ UNCHANGED <<services, server, connState, connection, subscribed, stopping,
                 version, proxyDue, outOfStep, raced, unheard>>

\* The stream is at its end, or 60 s are over and the scanner is left behind.
WaitFails(r) ==
  /\ ReloadGoes(r, "await", "done")
  /\ \/ connState[target[r]] = "closed" /\ scanning' = scanning \ {r} /\ UNCHANGED outOfStep
     \/ outOfStep' = outOfStep \cup {target[r]} /\ UNCHANGED scanning
  /\ RequestReconnect
  /\ UNCHANGED <<services, link, subscribed, stopping, version, target, proxyDue,
                 raced, unheard>>

-----------------------------------------------------------------------------
Main ==
  \/ MainLoads \/ MainSetsConnection \/ MainSetsProxy
  \/ MainReads \/ MainStarts \/ MainFails \/ MainStores
  \/ \E c \in Conn : MainDials(c)

Reloads(r) ==
  \/ SetConfig(r) \/ PublishUpdate(r)
  \/ ConnectionStores(r) \/ FindConnection(r)
  \/ Send(r) \/ SendFails(r) \/ WaitFails(r)

Next ==
  \/ Edit \/ Main \/ ConnectionLost \/ ServiceStops
  \/ \E r \in Reload :
       LoadFile(r) \/ LoadFileFails(r) \/ Reloads(r) \/ ProxyStores(r)
         \/ ScannerTakes(r) \/ ScannerTakesError(r)
  \/ \E c \in Conn : ReadDataTakes(c)

Spec == Init /\ [][Next]_vars

-----------------------------------------------------------------------------
(* Properties *)

Version == 0 .. MaxVersion

\* Every variable has its type; a scanner reads for a handler that waits for it,
\* or is left behind on a connection that is out of step.
TypeOK ==
  /\ file \in Version /\ readable \in BOOLEAN
  /\ config \in Version /\ connConfig \in Version /\ proxyConfig \in Version
  /\ server \in [Conn -> Version]
  /\ connState \in [Conn -> {"unused", "open", "closed"}]
  /\ connection \in Conn \cup {NoConn}
  /\ main \in {"load", "set connection", "set proxy", "select", "start", "dial", "store"}
  /\ mainConfig \in Version
  /\ subscribed \in BOOLEAN /\ stopping \in BOOLEAN
  /\ reload \in [Reload -> {"idle", "set", "publish", "store", "look", "send", "await", "done"}]
  /\ version \in [Reload -> Version] /\ target \in [Reload -> Conn \cup {NoConn}]
  /\ proxyDue \subseteq Reload /\ outOfStep \subseteq Conn
  /\ wire \in [Conn -> Seq(Reload)]
  /\ requested \subseteq Conn /\ raced \in BOOLEAN /\ unheard \in BOOLEAN
  /\ scanning \subseteq Reload
  /\ \A r \in Reload : reload[r] \in {"send", "await"} => target[r] \in Conn
  /\ \A r \in Reload : reload[r] = "await" => r \in scanning
  /\ \A r \in scanning :
       \/ reload[r] = "await"
       \/ reload[r] = "done" /\ target[r] \in outOfStep

Settled == main = "select" /\ ~SomeoneReloads

\* The three services have the same configuration, and so has the server of the
\* connection in use, unless a handler that could not bring it there has asked
\* for this connection to be replaced.
Agree ==
  /\ connConfig = config /\ proxyConfig = config
  /\ connection # NoConn => server[connection] = config \/ connection \in requested

\* Once nothing is at work, services and server agree, across failed sends,
\* stolen and late answers, lost connections and redials; unless the last reload
\* ran beside another or while Main was between reading the configuration and
\* storing it (connection.go:89-92), or ConnectionService was stopped when it
\* came.  How long a connection that is to be replaced stays in use is for its
\* peer to say: see LoopEndsWithConnection in ConnectionLifecycle.
AgreeUnlessRaced == Settled /\ ~raced /\ ~unheard => Agree

\* A handler takes no answer for its own that is another's, with readData and
\* scanners reading beside it, as long as no wait on this connection has been
\* given up and no two have overlapped (connection.go:206-269).  Once one has,
\* the answers may stay one behind for good, which no later handler notices.
OwnAnswer ==
  [][\A r \in Reload :
       reload[r] = "await" /\ reload'[r] = "done" /\ wire' # wire
         => Head(wire[target[r]]) = r \/ target[r] \in outOfStep]_vars

\* README.md:139, "SIGHUP: Reload configuration": a reload that nothing else ran
\* beside leaves everyone with the configuration it read.
ReloadReachesAll == Settled /\ ~raced => Agree
=============================================================================
