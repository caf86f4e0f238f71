# Verification of the Amaru agent

TLA+ specifications of the agent's concurrent core, the TLC runs that check them
on small instances, and TLAPS proofs of the safety properties for instances of
any size. Paths are relative to the repository; line numbers refer to the commit
these modules were written from. `PROJECT.json` maps each definition to its
lines and lists the runs, the fault each property is known to detect, the
findings, the hazards and the theorems.

## The system

The agent keeps one SSH connection to a server, sends its application's
configuration over it, receives a WireGuard configuration in answer, and serves
the application to the server through a userspace WireGuard tunnel. It is a
set of services on an event bus.

| component | state | operations | works with |
|---|---|---|---|
| `App` (`internal/app`) | ticker, backoff delay, termination flag | `Run`, `runWithReconnect`, listeners on five event types, timers | calls the services; hears and publishes events |
| `ConnectionService` | `connection`, `config`, unsubscribes | `Start`, `Connect`, `Stop`, `closeConnection`, `handleConfigEvent`, one goroutine per connection | called by `App`'s ticker, stop handlers and shutdown, at once |
| `protocol.RunMainLoop` | two contexts, two channels, an errgroup | `readData`, `readStderr`, `RunHeartbeat`, the join | runs in the connection's goroutine; a bus listener cancels it |
| `ssh.Conn` | session, stdin, mutex | `SendPayload`, `Close`, reads | used by the main loop, handshakes, registration |
| `ProxyService` | `sshConn`, `wgClient`, `wgConfig`, `cancelFunc` | event handlers, registration, `handleTunnelRequests`, forwarding | every event handled in its own goroutine |
| `WireGuardClient` | `running`, device, netstack | `Start`, `Stop`, `Listen`, health | owned by `ProxyService` |
| `ConfigService` | the loaded configuration | `LoadConfig`, the reload after SIGHUP | publishes `ConfigUpdated`, which two services handle |
| `SignalService` | signal channels, exit timer | SIGHUP, SIGTERM | publishes on the bus; ends the process after 5 s |
| `event.Bus` | a signal per type, listeners under a key | `Subscribe`, `Publish`, unsubscribe, `Close` | everything |
| key generation, registration | two key files and their backups | `-genkey`, `-register` | the file system, the backend |
| others | | flags, PID file, options, logging, i18n | no behaviour over time |

What is hard here: every publication starts goroutines nobody waits for, so the
handlers of `ConnectionClosed`, of a new configuration and of a reconnection
overlap freely; closing is done by whoever comes first (`Stop` of a handler, the
connection's own goroutine, shutdown); the goroutine of a connection re-reads
`s.connection` after it was started; subscriptions are keyed by code pointers
that closures share; some fields are written under a lock and cleared without
it; answers on stdout carry no name and have two readers; a time-out lets a
waiter go on while what it waited for still runs; the exit timer races the
orderly stop; and key files are replaced in several steps any of which may be
the last.

What makes the components correct: a connection is opened only when none is in
place, is closed exactly once and always has its goroutine; a loop asked to
reconnect does not outlive its connection's streams; the main loop leaves nobody
behind that uses the connection; retries are spaced and a connection is watched
closely; a signal ends the process, in order when it can; services and server
come to agree on a reloaded configuration; a WireGuard device is never left
running unowned; a tunnel follows its connection and can be cancelled; an event
reaches who is subscribed and nobody else; no private key is lost and no public
key is announced without its private half.

## Modules

`MainLoop` (implements `LoopContract`). `RunMainLoop`, its three goroutines, and
below them the mutex of `ssh.Conn`. `reader`, `stderrReader`, `heartbeat`,
`main`, `sender` and `closer` are program counters; `ctx`, `readCancelled` and
`group` the three ways the goroutines' context gets done; `reconnectCh` and
`dataErrCh` the two channels of capacity one; `mu` is the mutex that
`SendPayload` and `Close` share; `stdout`, `stderr` and `link` say what the next
read or write will do, blocking for ever included. One action is one atomic step
of one goroutine: the check at the top of a loop, a read that returns, a
`select` that takes a case, a lock. A read's deadline has no effect on an SSH
channel (its reader has no `SetReadDeadline`), so a quiet stream blocks.
`sender` is one of `sendConfig` and the registration, `closer` is
`closeConnection`. `LoopContract` is what `runProtocolMode` relies on.

`ConnectionLifecycle` (implements `ConnectionCustody`). `runWithReconnect`
(`Main`), executions of the stop handler (`Handler`) and the goroutines of
connections (`Conn`), which interleave at each access to `s.connection`, the bus
and the list of unsubscribes. `closeConnection` is `Swap` (under the mutex) and
`CloseHeld`; the rest of `Service.Stop` is `Take`, `Remove`, `StopReturns`;
`Connect` is `MainDial`..`MainSpawn`; `runConnectionLoop` is `LoopBegin` to
`closeConnection`. `RunMainLoop` is one interval here, ended by `LoopCancelled`
or `LoopFaults`: the two results `LoopContract` allows. `ended` holds the loops
whose streams the peer has ended: a cancelled loop joins its readers, which a
quiet peer can keep in a Read for good, and its connection is closed only after
that. `ConnectionCustody` is
the promise about each connection: unused, opening, current, closing, closed,
one at a time opening or current.

`ProxyTunnel` (composed with `ConnectionCustody`). `ProxyService` and the
WireGuard client. What the connection service does is not modelled a second
time: `Dials`, `Fails`, `Establish`, `Retire` and `CloseConnection` take the
actions of an instance of `ConnectionCustody`, which `ConnectionLifecycle` is
proved to implement. `closer` are the handlers of `ConnectionClosed` and
`Stop`, `handler` those of `WireGuardConfigReceived`, `tunnel` the goroutines
`handleTunnelRequests`, `register` those that register. `connectionMu` is `mu`;
a handler that takes and releases it with nothing visible in between is one
action. A device is none, running or closed; `dead` clients get no handshake. A
tunnel goroutine that ends by itself is "lost" (it reported the tunnel) or
"deaf" (it could not listen, and nobody hears of it).

`TunnelForward`. `handleTunnelRequests` once it listens, its accept loop, and one
accepted connection: the dial of the local application, two copies that close
their destination, the wait for the group's context, the deadlines, the join.

`Supervisor`. `runWithReconnect` against the clock: the ticker with its period
and the tick in its channel, the backoff, the token in `resetBackoff`, the
listeners that reset or double the backoff, the termination flag, the exit timer
of `SignalService` and the time-out of `stopServices`. Time is in seconds; a
second passes only when nothing is ready to run (`Quiet`), steps of the same
second interleave freely. `fails`, `sinceFail` and `hindered` are history the
properties speak of.

`ConfigReload`. The configuration from the file to the server: edits, SIGHUP
(each a `Reload` in a goroutine of its own), `LoadConfig`, the copies in
`ConfigService`, `ConnectionService` and `ProxyService`, the copy `Main` dials
with, `handleConfigEvent` and `sendConfig` with the exchange over stdout, whose
answers `readData` or a scanner left behind by a time-out may take. A scanner
buffers: it takes all the lines that are there, or the first few, and uses the
first. A handler that could not bring the configuration to the server asks for a
reconnection, which closes nothing by itself: the connection stays current, and
may stay without the configuration, until its loop ends (`ConnectionLost`).
`requested` is history: the connection in use when the last reload's handler
asked. So is `outOfStep`: the connections over which a wait was given up, or two
exchanges overlapped, so that an answer may be another's.

`EventBus` (implements `Subscriptions`). `event.Bus` for one event type, with
the signals library below it as external operators: `Subscribe`, the functions
it returns, `Close`, and `Publish` in its two halves, the look-up under the read
lock and the `Emit` after it. `KeyOf` gives each handler its code pointer.
`Subscriptions` says what a caller may count on: a subscription alone with its
key is registered; removing it removes whoever holds the key.

`KeyFiles`. Runs of `-genkey` and `-register`, concurrent or one after another,
each of which may be killed or fail between any two file operations.
`os.WriteFile` is two steps, truncation and writing. A key is named by the run
that generates it, a backup by the second in which its run looked at the clock.

`MC*` instantiate the modules for TLC, `*Proofs` hold the theorems. Operators
that precede a definition and carry a telling name (`SwapKeepsPointer` before
`Swap`) are plausible faults of that definition; no behaviour uses them, and
each property is known to detect the one `PROJECT.json` pairs it with.

### Abstractions that hold for all modules

- `Publish` never blocks on listeners and starts one goroutine for each: the
  signals library emits that way. This allows every order in which listeners
  that the bus waited for could run, and more.
- Time: only `Supervisor` measures it. Elsewhere tickers, timers and time-outs
  may fire at any moment, and a wait that ends by time-out may end at once.
- Data: a configuration is an identity or a version, a payload is not
  represented. A dial or a handshake may fail at any time.
- `s.cancelFunc` is tested and called as one read, as the compiled code does;
  the write that clears it is a step of its own. The plain boolean
  `terminationReceived` is taken as seen by the next tick; a write that is never
  seen ends in `os.Exit` like a signal nobody hears (`signal = "lost"`).
- The health check in `ProxyTunnel` may fail at any time, because a tunnel
  without a first handshake is unhealthy by `IsHealthy`; it must fail when the
  client is stopped or dead.

## Runs

| run | instance | what it shows |
|---|---|---|
| `MainLoop` | complete (no parameters), fair; 143 thousand states | `ReadFaultNotLost`: an unexpected read error reaches the select, or the loop is ending anyway. `NoWriteOnClosed`: no Write on a closed connection. `ImplementsContract`. `CancelEndsLoop`: a cancelled loop whose streams ended returns. `FaultEndsLoop`: a failed read takes the loop out of its select, and once stderr has ended too the loop returns. `CloseEnds`: a Close ends. The returns and the Close are claimed only if no Write is blocked for good |
| `ConnectionLifecycle` | 2 connections, 1 handler, at most 2 unsubscribes, fair; 386 thousand states | `SingleOwner`, `CurrentIsServed`, `ListenerIsLive`, `ClosesOwnFirst`, refinement of `ConnectionCustody`. `LoopEndsWithConnection`: a registered loop is removed and its connection closed, once somebody else has closed it or once a request is on its way and the peer has ended the streams |
| `ProxyTunnel` | 1 connection, 2 configurations, fair; 251 thousand states | `NoStrayDevice`; `ClientIsWatched`: the client in place can be taken down; `DeadTunnelNoticed` |
| `TunnelForward` | complete, fair; 1,076 states | `NothingLeftBehind`; cancel and error end the handler |
| `Supervisor` | the program's own periods (1 s, 30 s, 60 s, 5 s), `stopServices` 1 s, at most 2 pending listeners of each kind, fair; 332 thousand states | `WatchedClosely`, `RetriesSpaced`, `KilledOnlyIfHindered`; a signal ends the process |
| `ConfigReload` | 2 reloads, 2 connections, 2 versions, symmetric; 1.2 million states | `AgreeUnlessRaced`: once all is quiet services and server agree, unless the connection in use is to be replaced because they do not; `OwnAnswer`: over a connection in step nobody takes another's answer |
| `EventBus` | 3 subscriptions, 2 of them under one key, 2 publishers, 2 signals; 14 thousand states | `ListenersAreActive`; refinement of `Subscriptions` |
| `KeyFiles` | 3 runs, 2 seconds, symmetric; 1.4 million states | `KeyKept`, `PublishedHasPrivate`, `PairAgrees` |

Four runs end in a violation. Each checks one sentence of the repository against
the code; `PROJECT.json` (findings) quotes it:

| run | what happens |
|---|---|
| `MainLoop_deadpeer` | the peer closes both streams and heartbeats fail, yet the select watches none of this and the loop stays |
| `ProxyTunnel_crash` (2 connections) | the connection is lost while the handler of its configuration is at work: the handler of `ConnectionClosed` finds no cancelFunc yet (proxy.go:104) and waits for the mutex, the configuration's handler stores it and starts the tunnel goroutine, the first handler drops the client (line 112), and the goroutine's next health check calls `IsHealthy` on nil |
| `Supervisor_graceful` | the handshake of a dial fails and the ticker is put off by 30 s; a SIGTERM then is heard while `Main` waits in its select, and `os.Exit` comes 5 s later, before the next tick |
| `ConfigReload_unheard` | a SIGHUP between the stop of the connection service and the next `Start` never reaches it |

### Bounds

Two connections let an old one meet its successor, two configurations let a
handler meet the previous one's tunnel, two reloads let one overtake another and
let a late scanner take the other's answer (how far this reaches takes three,
see below, and is what the proof is for), three subscriptions let a key be
shared and another not, three runs of the generator let a backup meet two
successors; no other hazard on the list needs more. `ConnectionLifecycle` has one
handler so that its liveness is checked in the same run; two handlers, and
connections without bound in `ProxyTunnel`, are covered by the proofs, which
remove the bounds for the safety properties. When every handler is busy, a
publication proceeds as if its listener's goroutine was not scheduled yet
(`CanNotify`), so the bound blocks no publisher. `MaxUnsubs` bounds how often
`Start` is called without a `Stop` in between. `MaxPending` bounds listeners
that are started and have not run: two failures in a row with no listener run in
between are reached. `MaxVersion`, `MaxSignal` and `MaxSecond` bound edits of the file, signals
made by the bus, and the clock of `KeyFiles`. `CHECK_DEADLOCK FALSE` is set
where the code comes to a rightful end.

### Fairness

Goroutines that can take a step are scheduled (weak fairness on each goroutine),
and armed timers and tickers fire. Strong fairness is used twice: for
`RunHeartbeat`'s choice of a done context, since its select is taken again after
every tick and Go chooses among ready cases at random; and for a goroutine that
waits for a mutex others keep taking, since Go's mutexes do not starve a waiter.
Peers, the network, signals, edits and updates are never assumed to do anything,
and a dial of the server need not end: the time-out of `ssh.Dial` bounds the TCP
connect only. The dial of the local application ends, by its time-out. A write
may block for ever; the liveness properties of `MainLoop` say "unless"
(`WritesPass`). A read may block for ever, too, which no cancellation ends: in
`ConnectionLifecycle` a cancelled loop is sure to return only once the peer or a
Close has ended its streams (`StreamsOver`), as `CancelEndsLoop` of `MainLoop`
has it, and a Close is assumed not to wait for a blocked Write (`CloseEnds`). In
`ProxyTunnel` only the handler that holds the lock and a health check that must
fail are assumed to proceed; in `TunnelForward` the dial, the forwarder, and a
copy whose connection has ended.

## Proofs

For every value of the constants, from the assumptions each module states about
them:

| module | theorems | what the inductive invariant `IInv` adds to the properties |
|---|---|---|
| `MainLoopProofs` | `TypeCorrect`, `FaultReported` (`ReadFaultNotLost`), `WritersExclude` (`NoWriteOnClosed`), `KeepsContract` (`ImplementsContract`) | a done group has a cause; the reads are cancelled when the select is left and not before; what is in a channel, and then in the result, has its cause |
| `ConnectionLifecycleProofs` | `TypeCorrect`, `OwnedOnce` (`SingleOwner`), `AlwaysServed` (`CurrentIsServed`), `ListenerAlwaysLive` (`ListenerIsLive`), `RefinesCustody` (`ImplementsCustody`), `OwnFirst` (`ClosesOwnFirst`) | a thread has a connection in its local variable exactly between taking and giving it up; from the tick that found none to the store there is none, since only `Main` stores (why the unguarded store in `Connect` overwrites nothing); the goroutine of a connection does not exist before `MainSpawn`; for `OwnFirst`, what a goroutine serves was current once and is not being established |
| `ProxyTunnelProofs` | `TypeCorrect`, `NoDeviceLeak` (`NoStrayDevice`), `ClientWatched` (`ClientIsWatched`) | for the device nothing: the type invariant says who holds the lock, and the two are inductive together; for `ClientWatched`, who holds the lock has put its client in place, no tunnel goroutine is there or cancelled before its handler is through, and a connection is announced as closed once |
| `ConfigReloadProofs` | `TypeCorrect`, `AgreeInTheEnd` (`AgreeUnlessRaced`), `AnswersMatch` (`OwnAnswer`) | one connection is open at a time; a connection in step has one scanner at most, and on it the answer this one waits for or none; a reload that has not raced is the only one, with `Main` in its select, and how far it has got says who has its version; with no reload at work, what `Main` carries is what all have agreed upon |
| `TunnelForwardProofs` | `TypeCorrect`, `LeavesNothing` (`NothingLeftBehind`) | no copy runs before the dial has succeeded |
| `SupervisorProofs` | `TypeCorrect`, `ConnectionWatched` (`WatchedClosely`), `ExitNeedsHindrance` (`KilledOnlyIfHindered`), `DialsSpaced` (`RetriesSpaced`) | by the second failure in a row no token of an earlier success is left; from then on time since the failure and time to the next tick add up to a shortened `MinDelay`; an unhindered signal leaves `stopServices` its time |
| `EventBusProofs` | `TypeCorrect`, `DeliversToActive` (`ListenersAreActive`), `BusKeepsPromise` (`ImplementsSubscriptions`) | a signal that is not in the map has no listener |
| `KeyFilesProofs` | `TypeCorrect`, `NoKeyLost` (`KeyKept`), `PrivateHalfFirst` (`PublishedHasPrivate`), `PairStaysTogether` (`PairAgrees`) | the clock is past the second `Original`, so a backup is not the file in use; what a run found is still there; what a backup's buffer holds; where the old private key is meanwhile; a run nobody interfered with is alone and finds its own private key in place |

The steps are laid out one action at a time. In `ConnectionLifecycleProofs`
most steps touch neither a connection nor a pointer to one, and `QuietStep`
disposes of them once; the refinement shows that each step changes the status of
at most one connection (`MoveOne`) in a way `ConnectionCustody` allows. In
`SupervisorProofs` the arithmetic of the backoff is in `DelayBounds`: whatever
the jitter, a delay lies between four fifths of `MinDelay` and six fifths of
`MaxDelay`. The assumption `CheckInterval + StopTimeout < GracefulTimeout` is
what makes a served signal possible at all (1 s, a prompt stop, 5 s). Two
refinements chain: `ConnectionLifecycle` implements `ConnectionCustody`, and
`NoDeviceLeak` and `ClientWatched` hold of `ProxyTunnel` driven by it. In
`ConfigReloadProofs` agreement is preserved in groups: a step that ends a handler
is a `HandlerEnds` (with the server informed, or the connection in use requested
to go), one that only loses a connection is a
`LeavesAgreement`, and each group is dealt with once.

Only model-checked: liveness, which with fairness and `ENABLED` is beyond the
prover. Every invariant, action property and refinement a run checks is also a
theorem. Nothing in these modules needs induction over data or a recursive
operator.

## What the models also show

Effects no run is spent on, because no document promises otherwise; the hazards
list them with the properties that hold all the same:

- `ReconnectRequested` is republished by its own listener (app.go:219) for as
  long as `App` is subscribed.
- A new loop may subscribe before the old one has unsubscribed, both under one
  key, and then run without a reconnect handler (bus.go:32).
- The goroutine of an old connection, late, closes the new one
  (connection.go:303); `ClosesOwnFirst` says its own is then already gone.
- A late `Service.Stop` removes the subscription `Start` has just renewed
  (service.go:44).
- A late `ConnectionClosed` takes down the tunnel of the next connection
  (proxy.go:109), and of two configurations the older may win the lock.
- A close may drop the cancelFunc of a tunnel goroutine it has not cancelled
  (proxy.go:104-107, between a new configuration's handler). `ClientIsWatched`
  says that this close is then about to take the client, too; the goroutine
  itself stays until its health check finds the client gone, or serves a listener
  of a closed device for as long as later clients are healthy.
- A request to reconnect does not close a live connection whose peer is quiet:
  the cancelled `RunMainLoop` joins its readers (loop.go:50), which stay in a
  Read (loop.go:69, common.go:21), and `closeConnection` comes after the join
  (connection.go:303). Its reconnect handler stays registered and its heartbeat
  is gone. `LoopEndsWithConnection` therefore asks for the end of the streams.
- So a connection may stay in use without the configuration after a failed send
  or an error for an answer; `Agree` accepts it as `requested`.
- A wait for an answer that is given up (connection.go:261) asks for a
  reconnection, and while that has not closed the connection, the answer comes
  late and is taken for that of the next exchange, whose own is taken by the one
  after. Two reloads
  cannot show this, since the second is the one that overlaps; an instance with
  three did, and `OwnAnswer` therefore speaks of the connection and not of the
  single exchange.
- Two clean ends leave the forwarder waiting for its context (proxy.go:444);
  `NothingLeftBehind` says it holds no open connection by then.
- A generator interrupted between its two files leaves a new private key beside
  the old public one, which `-register` sends (`torn` in `KeyFiles`).

## Not modelled

- `runWithReconnect`'s case of a done context: `main` passes
  `context.Background()`. A second SIGTERM and the draining of the signal
  channels. The stop of one service after the other inside `stopServices` is one
  interval.
- `ssh.Connect` and the clean-up of its failures (ssh.go:68-152) are one step
  that succeeds, fails or never returns; `CheckHealth` has no caller.
- What the registration sends to the server, keys, the text handed to the
  WireGuard device, the header of a payload: data no property tells apart. The
  slice of a short `PublicKey` (connection.go:193) and the parsing of an address
  (wireguard.go:118) can panic; each is an expression over one input and a
  matter for unit tests.
- The key files are the default ones; `-key` names others and does not change
  the steps. The HTTP exchange with the backend and the `config.toml` it yields
  are pure I/O, and so are the PID file and the other flags.
- Transport options, factory and registry, logging, error wrapping and
  localisation, and the generated mocks have no behaviour over time.

## What is left

1. `ProxyTunnel` composed with `ConfigReload`: which configuration's answer the
   tunnel in place belongs to.
2. The safety core of the liveness properties: that whenever a goroutine is
   waited for, some step that brings its end nearer is possible.
