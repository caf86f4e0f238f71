------------------------- MODULE ConnectionLifecycle -------------------------
(***************************************************************************)
(* ConnectionService and the part of App that drives it: who owns the      *)
(* server connection, who closes it, and which listeners are registered on *)
(* the event bus while connections come and go.                            *)
(*                                                                         *)
(* Threads.  Main is App.runWithReconnect: its ticker calls Start and      *)
(* Connect, and its end calls stopServices.  Each h in Handler is one      *)
(* execution of App's listener for ConnectionClosed / ConnectionFailed, up *)
(* to the firing of the timer it arms.  Each c in Conn is a connection and *)
(* also the goroutine Connect starts after it, which runs                  *)
(* runConnectionLoop: that goroutine reads s.connection itself, and need   *)
(* not find c there.                                                       *)
(*                                                                         *)
(* Publish starts the listeners registered at that moment, each in its own *)
(* goroutine, and does not wait for them.                                  *)
(***************************************************************************)
EXTENDS Naturals

CONSTANTS
  Conn,      \* the connections that can be opened, in one execution
  Handler,   \* the stop handlers and armed timers that can exist at a time
  Main,      \* App.runWithReconnect
  NoConn,    \* nil
  MaxUnsubs  \* bound on the length of the service's list of unsubscribes

Thread == {Main} \cup Handler \cup Conn

ASSUME ThreadsDiffer ==
  /\ Main \notin Handler \cup Conn
  /\ Handler \cap Conn = {}
  /\ NoConn \notin Thread

ASSUME BoundIsNat == MaxUnsubs \in Nat

VARIABLES
  connState,  \* [Conn -> {"unused", "open", "closed"}]
  connection, \* s.connection
  held,       \* [Thread -> Conn or NoConn]: the thread's local variable conn
  pc,         \* [Thread -> where the thread is]
  serves,     \* [Conn -> the connection the goroutine found in s.connection]
  cancelled,  \* goroutines whose runCtx their reconnect handler cancelled
  recSub,     \* whose reconnect handler is registered on ReconnectRequested
  ended,      \* running loops whose streams the peer has ended
  republish,  \* App's listener on ReconnectRequested is about to publish it
  cfgSub,     \* handleConfigEvent is registered on ConfigUpdated
  unsubs,     \* Len(s.unsubscribes)
  taken       \* [Thread -> unsubscribes still to be called by Service.Stop]

custody == <<connState, connection, held>>
loops   == <<serves, cancelled, recSub, ended>>
config  == <<cfgSub, unsubs, taken>>
vars    == <<custody, pc, loops, republish, config>>

\* startServices has called Start once; runWithReconnect is in its select.
Init ==
  /\ connState = [c \in Conn |-> "unused"]
  /\ connection = NoConn
  /\ held = [t \in Thread |-> NoConn]
  /\ pc = [t \in Thread |-> IF t = Main THEN "select" ELSE "idle"]
  /\ serves = [c \in Conn |-> NoConn]
  /\ cancelled = {} /\ recSub = NoConn /\ ended = {}
  /\ republish = FALSE
  /\ cfgSub = TRUE /\ unsubs = 1
  /\ taken = [t \in Thread |-> 0]

-----------------------------------------------------------------------------
(* The event bus.  Listeners are keyed by the code pointer of the handler  *)
(* (bus.go:32), which all closures of handleReconnectEvent share: a second *)
(* registration under a key that is present is ignored, and a removal      *)
(* removes whoever holds the key.                                          *)

AddListener(l)  == recSub' = IF recSub = NoConn THEN l ELSE recSub
RemoveListener  == recSub' = NoConn

\* App's listeners are registered until runWithReconnect returns.
AppSubscribed == pc[Main] # "exited"

\* Publish ConnectionClosed or ConnectionFailed: App's listener starts as h.
\* When every h is busy, its goroutine is one that is never scheduled.
CanNotify(h) == pc[h] = "idle" \/ \A g \in Handler : pc[g] # "idle"
Notify(p, h) ==
  IF AppSubscribed /\ pc[h] = "idle" THEN [p EXCEPT ![h] = "swap"] ELSE p

\* cancelFunc of the registered handler, without which only App hears.
PublishReconnectUnheard ==
  /\ UNCHANGED cancelled
  /\ republish' = AppSubscribed

\* Publish ReconnectRequested: the registered loop's handler cancels its
\* runCtx, and App's listener starts, whose triggerReconnect publishes again.
PublishReconnect ==
  /\ cancelled' = IF recSub = NoConn THEN cancelled ELSE cancelled \cup {recSub}
  /\ republish' = AppSubscribed

-----------------------------------------------------------------------------
(* ConnectionService.closeConnection, called by Stop (Main and Handler) and *)
(* at the end of runConnectionLoop, and the rest of Service.Stop.          *)

AfterClose(t) == IF t \in Conn THEN "done" ELSE "take"

\* A closeConnection that reads s.connection and forgets to clear it.
SwapKeepsPointer(t) ==
  /\ pc[t] = "swap"
  /\ held' = [held EXCEPT ![t] = connection]
  /\ pc' = [pc EXCEPT ![t] = IF connection = NoConn THEN AfterClose(t) ELSE "close"]
  /\ UNCHANGED <<connState, connection, loops, republish, config>>

\* Under connectionMu: take s.connection and leave nil there.
Swap(t) ==
  /\ pc[t] = "swap"
  /\ held' = [held EXCEPT ![t] = connection]
  /\ connection' = NoConn
  /\ pc' = [pc EXCEPT ![t] = IF connection = NoConn THEN AfterClose(t) ELSE "close"]
  /\ UNCHANGED <<connState, loops, republish, config>>

\* conn.Close(), then publish ConnectionClosed.
CloseHeld(t, h) ==
  /\ pc[t] = "close"
  /\ CanNotify(h)
  /\ connState' = [connState EXCEPT ![held[t]] = "closed"]
  /\ held' = [held EXCEPT ![t] = NoConn]
  /\ pc' = Notify([pc EXCEPT ![t] = AfterClose(t)], h)
  /\ UNCHANGED <<connection, loops, republish, config>>

\* Service.Stop: take the list of unsubscribes under s.mu.
Take(t) ==
  /\ pc[t] = "take"
  /\ taken' = [taken EXCEPT ![t] = unsubs]
  /\ unsubs' = 0
  /\ pc' = [pc EXCEPT ![t] = "remove"]
  /\ UNCHANGED <<custody, loops, republish, cfgSub>>

\* Calling one unsubscribe too many.
RemoveUnguarded(t) ==
  /\ pc[t] = "remove"
  /\ cfgSub' = FALSE
  /\ taken' = [taken EXCEPT ![t] = taken[t] - 1]
  /\ UNCHANGED <<custody, pc, loops, republish, unsubs>>

\* Call the next of them: whichever it is, it removes handleConfigEvent.
Remove(t) ==
  /\ pc[t] = "remove"
  /\ taken[t] > 0
  /\ cfgSub' = FALSE
  /\ taken' = [taken EXCEPT ![t] = taken[t] - 1]
  /\ UNCHANGED <<custody, pc, loops, republish, unsubs>>

\* All called, and the wait for s.wg is over, or its 500 ms are.  A handler
\* then arms its timer; runWithReconnect returns and its context is cancelled.
StopReturns(t) ==
  /\ pc[t] = "remove"
  /\ taken[t] = 0
  /\ pc' = [pc EXCEPT ![t] = IF t = Main THEN "exited" ELSE "timer"]
  /\ UNCHANGED <<custody, loops, republish, config>>

\* time.AfterFunc(delay, triggerReconnect): the delay is abstract.
TimerFires(h) ==
  /\ pc[h] = "timer"
  /\ pc' = [pc EXCEPT ![h] = "idle"]
  /\ PublishReconnect
  /\ UNCHANGED <<custody, serves, recSub, ended, config>>

-----------------------------------------------------------------------------
(* runWithReconnect *)

MainGoes(from, to) ==
  /\ pc[Main] = from
  /\ pc' = [pc EXCEPT ![Main] = to]

\* A tick after the termination signal, or a done context: stopServices.
MainTerminates ==
  /\ MainGoes("select", "swap")
  /\ UNCHANGED <<custody, loops, republish, config>>

\* A tick that connects whatever HasConnection says.
MainTickUnchecked ==
  /\ MainGoes("select", "subscribe")
  /\ UNCHANGED <<custody, loops, republish, config>>

\* A tick that finds no connection.
MainTick ==
  /\ connection = NoConn
  /\ MainGoes("select", "subscribe")
  /\ UNCHANGED <<custody, loops, republish, config>>

\* ConnectionService.Start: Subscribe(ConfigUpdated) ...
MainSubscribe ==
  /\ MainGoes("subscribe", "add")
  /\ cfgSub' = TRUE
  /\ UNCHANGED <<custody, loops, republish, unsubs, taken>>

\* ... then AddSubscription.
MainAdd ==
  /\ unsubs < MaxUnsubs
  /\ MainGoes("add", "dial")
  /\ unsubs' = unsubs + 1
  /\ UNCHANGED <<custody, loops, republish, cfgSub, taken>>

\* Connect: transport.Connect fails, and ConnectionFailed is published.
MainDialFails(h) ==
  /\ pc[Main] = "dial"
  /\ CanNotify(h)
  /\ pc' = Notify([pc EXCEPT ![Main] = "select"], h)
  /\ UNCHANGED <<custody, loops, republish, config>>

\* transport.Connect returns a new connection; sendConfig follows.
MainDial(c) ==
  /\ connState[c] = "unused"
  /\ MainGoes("dial", "handshake")
  /\ connState' = [connState EXCEPT ![c] = "open"]
  /\ held' = [held EXCEPT ![Main] = c]
  /\ UNCHANGED <<connection, loops, republish, config>>

\* sendConfig fails: the connection is closed and no event published.
MainHandshakeFails ==
  /\ MainGoes("handshake", "select")
  /\ connState' = [connState EXCEPT ![held[Main]] = "closed"]
  /\ held' = [held EXCEPT ![Main] = NoConn]
  /\ UNCHANGED <<connection, loops, republish, config>>

MainHandshake ==
  /\ MainGoes("handshake", "store")
  /\ UNCHANGED <<custody, loops, republish, config>>

\* s.connection = conn, under connectionMu.
MainStore ==
  /\ MainGoes("store", "spawn")
  /\ connection' = held[Main]
  /\ UNCHANGED <<connState, held, loops, republish, config>>

\* ConnectionEstablished is published and the goroutine started.
MainSpawn ==
  /\ pc[Main] = "spawn"
  /\ pc' = [pc EXCEPT ![Main] = "select", ![held[Main]] = "begin"]
  /\ held' = [held EXCEPT ![Main] = NoConn]
  /\ UNCHANGED <<connState, connection, loops, republish, config>>

-----------------------------------------------------------------------------
(* runConnectionLoop, in the goroutine started after connection l *)

LoopGoes(l, from, to) ==
  /\ pc[l] = from
  /\ pc' = [pc EXCEPT ![l] = to]

\* Serve whatever connection is current by now, if any.
LoopBegin(l) ==
  /\ LoopGoes(l, "begin", IF connection = NoConn THEN "done" ELSE "subscribe")
  /\ serves' = [serves EXCEPT ![l] = connection]
  /\ UNCHANGED <<custody, cancelled, recSub, ended, republish, config>>

\* runProtocolMode: Subscribe(ReconnectRequested), then RunMainLoop.
LoopSubscribe(l) ==
  /\ LoopGoes(l, "subscribe", "running")
  /\ AddListener(l)
  /\ UNCHANGED <<custody, serves, cancelled, ended, republish, config>>

\* A cancelled loop that leaves its listener behind.
LoopCancelledKeepsListener(l) ==
  /\ l \in cancelled \/ ~AppSubscribed
  /\ LoopGoes(l, "running", "swap")
  /\ UNCHANGED <<custody, loops, republish, config>>

\* A cancelled loop that returns without closeConnection.
LoopCancelledKeepsConnection(l) ==
  /\ l \in cancelled \/ ~AppSubscribed
  /\ LoopGoes(l, "running", "done")
  /\ RemoveListener
  /\ UNCHANGED <<custody, serves, cancelled, ended, republish, config>>

\* RunMainLoop returns nil or context.Canceled; the deferred unsub runs.  It
\* may do so at any time, when data makes the reads return, and is sure to only
\* when the streams are over: g.Wait joins readers that may be blocked in Read.
LoopCancelled(l) ==
  /\ l \in cancelled \/ ~AppSubscribed
  /\ LoopGoes(l, "running", "swap")
  /\ RemoveListener
  /\ ended' = ended \ {l}
  /\ UNCHANGED <<custody, serves, cancelled, republish, config>>

\* RunMainLoop returns an unexpected read error; the deferred unsub runs.
LoopFaults(l) ==
  /\ LoopGoes(l, "running", "report")
  /\ RemoveListener
  /\ ended' = ended \ {l}
  /\ UNCHANGED <<custody, serves, cancelled, republish, config>>

\* Publish ConnectionFailed; closeConnection follows.
LoopReports(l, h) ==
  /\ pc[l] = "report"
  /\ CanNotify(h)
  /\ pc' = Notify([pc EXCEPT ![l] = "swap"], h)
  /\ UNCHANGED <<custody, loops, republish, config>>

\* The peer ends the streams that loop l reads.
PeerEnds(l) ==
  /\ pc[l] = "running" /\ connState[serves[l]] = "open"
  /\ ended' = ended \cup {l}
  /\ UNCHANGED <<custody, pc, serves, cancelled, recSub, republish, config>>

\* The connection that loop l serves has been closed.
HasClosed(l) == serves[l] # NoConn /\ connState[serves[l]] = "closed"

\* The reads of loop l return: the peer or a Close has ended its streams.
StreamsOver(l) == l \in ended \/ HasClosed(l)

-----------------------------------------------------------------------------
(* Other publishers *)

\* App's listener on ReconnectRequested: triggerReconnect publishes it again.
Republish ==
  /\ republish
  /\ PublishReconnect
  /\ UNCHANGED <<custody, pc, serves, recSub, ended, config>>

\* handleConfigEvent when there is no connection, or when sending the new
\* configuration on it fails.
ConfigUpdateFails ==
  /\ cfgSub
  /\ PublishReconnect
  /\ UNCHANGED <<custody, pc, serves, recSub, ended, config>>

\* A tunnel was set up: sendConfig has succeeded and handed on its parameters.
TunnelConfigured ==
  pc[Main] \in {"store", "spawn"} \/ \E c \in Conn : pc[c] # "idle"

\* Run's listener turns WireGuardDisconnected into ConnectionFailed.
TunnelLost(h) ==
  /\ AppSubscribed /\ TunnelConfigured
  /\ CanNotify(h)
  /\ pc' = Notify(pc, h)
  /\ UNCHANGED <<custody, loops, republish, config>>

-----------------------------------------------------------------------------
MainConnects ==
  \/ MainTick \/ MainSubscribe \/ MainAdd
  \/ \E h \in Handler : MainDialFails(h)
  \/ \E c \in Conn : MainDial(c)
  \/ MainHandshakeFails \/ MainHandshake \/ MainStore \/ MainSpawn

Closing(t) == Swap(t) \/ \E h \in Handler : CloseHeld(t, h)
Stopping(t) == Take(t) \/ Remove(t) \/ StopReturns(t)

LoopRuns(l) == LoopBegin(l) \/ LoopSubscribe(l) \/ LoopCancelled(l)
LoopFails(l) == LoopFaults(l) \/ \E h \in Handler : LoopReports(l, h)

Next ==
  \/ MainConnects \/ MainTerminates
  \/ \E t \in Thread : Closing(t) \/ Stopping(t)
  \/ \E h \in Handler : TimerFires(h) \/ TunnelLost(h)
  \/ \E l \in Conn : LoopRuns(l) \/ LoopFails(l) \/ PeerEnds(l)
  \/ Republish \/ ConfigUpdateFails

Spec == Init /\ [][Next]_vars

\* Threads that can go on do, and timers fire; a Close is not kept waiting by
\* a Write that never ends.  A cancelled loop returns once the streams of its
\* connection are over, as CancelEndsLoop of MainLoop says, and no sooner if the
\* peer is quiet.  Main may dial for ever (nothing bounds the SSH handshake),
\* and nothing makes a stream end, a read fail, a signal or an update arrive.
LoopGoesOn(l) ==
  \/ LoopBegin(l) \/ LoopSubscribe(l)
  \/ StreamsOver(l) /\ LoopCancelled(l)
  \/ \E h \in Handler : LoopReports(l, h)
  \/ Closing(l)

Fairness ==
  /\ WF_vars(Closing(Main) \/ Stopping(Main))
  /\ \A h \in Handler : WF_vars(Closing(h) \/ Stopping(h) \/ TimerFires(h))
  /\ \A l \in Conn : WF_vars(LoopGoesOn(l))
  /\ WF_vars(Republish)

FairSpec == Spec /\ Fairness

-----------------------------------------------------------------------------
(* Properties *)

MainPC    == {"select", "subscribe", "add", "dial", "handshake", "store",
              "spawn", "swap", "close", "take", "remove", "exited"}
HandlerPC == {"idle", "swap", "close", "take", "remove", "timer"}
LoopPC    == {"idle", "begin", "subscribe", "running", "report",
              "swap", "close", "done"}

\* Every variable has its type.
TypeOK ==
  /\ connState \in [Conn -> {"unused", "open", "closed"}]
  /\ connection \in Conn \cup {NoConn}
  /\ held \in [Thread -> Conn \cup {NoConn}]
  /\ pc \in [Thread -> MainPC \cup HandlerPC \cup LoopPC]
  /\ pc[Main] \in MainPC
  /\ \A h \in Handler : pc[h] \in HandlerPC
  /\ \A c \in Conn : pc[c] \in LoopPC
  /\ serves \in [Conn -> Conn \cup {NoConn}]
  /\ cancelled \in SUBSET Conn
  /\ recSub \in Conn \cup {NoConn} /\ ended \in SUBSET Conn
  /\ republish \in BOOLEAN /\ cfgSub \in BOOLEAN
  /\ unsubs \in Nat
  /\ taken \in [Thread -> Nat]

\* Thread t alone is responsible for closing held[t].
Owns(t) == pc[t] \in {"handshake", "store", "close"}

\* Nothing is leaked and nothing is closed twice: an open connection is in
\* s.connection or with exactly one thread that will store or close it, and
\* whatever is in these places is open (connection.go:66-103 and 149-163).
SingleOwner ==
  /\ connection # NoConn => connState[connection] = "open"
  /\ \A t \in Thread : Owns(t) =>
       /\ held[t] # NoConn /\ held[t] # connection
       /\ connState[held[t]] = "open"
  /\ \A t, u \in Thread : Owns(t) /\ Owns(u) /\ held[t] = held[u] => t = u
  /\ \A c \in Conn : connState[c] = "open" =>
       c = connection \/ \E t \in Thread : Owns(t) /\ held[t] = c

\* The current connection is never left without the goroutine started for it,
\* in its loop (or about to be, or about to close it): HasConnection is never
\* true of a connection whose goroutine is over.  That the loop still hears of
\* the peer does not follow: see DeadPeerEndsLoop in MainLoop.
CurrentIsServed ==
  \A c \in Conn : connection = c =>
    \/ pc[Main] = "spawn" /\ held[Main] = c
    \/ pc[c] = "begin"
    \/ pc[c] \in {"subscribe", "running", "report", "swap"} /\ serves[c] = c

\* A registered reconnect handler belongs to a loop that is running: no
\* request is swallowed by the handler of a loop that has ended.
ListenerIsLive ==
  recSub # NoConn => pc[recSub] = "running"

\* Where connection c is in the life ConnectionCustody describes.
StatusOf(c) ==
  IF connState[c] # "open" THEN connState[c]
  ELSE IF connection = c THEN "current"
  ELSE IF held[Main] = c /\ pc[Main] \in {"handshake", "store"} THEN "opening"
  ELSE "closing"

Custody == INSTANCE ConnectionCustody WITH status <- [c \in Conn |-> StatusOf(c)]

\* The service keeps the promise of ConnectionCustody.
ImplementsCustody == Custody!Spec

\* A loop that is registered does not wait for ever on a connection that is to
\* go.  Once a request is on its way and the peer has ended the streams, or once
\* somebody else has closed the connection (whose event makes App stop the
\* service and arm a timer, the timer's request cancels the loop), the loop's
\* handler is removed and its connection closed.  A live connection with a
\* quiet peer a request does not close: the cancelled loop joins its readers,
\* and closeConnection comes after it (loop.go:37-50, connection.go:136-163,
\* 290-303, app.go:208-219).
LoopEndsWithConnection ==
  \A l \in Conn :
    (recSub = l /\ (HasClosed(l) \/ (republish /\ l \in ended)))
      ~> (recSub # l /\ HasClosed(l))

\* The goroutine of one connection closes another one (it closes whatever is in
\* s.connection by the time it ends, connection.go:303) only if somebody else
\* has taken its own away, and has closed it or is about to: a goroutine never
\* leaves its own connection open to close another.
ClosesOwnFirst ==
  \A l \in Conn : (pc[l] = "close" /\ held[l] # serves[l]) =>
    \/ connState[serves[l]] = "closed"
    \/ \E t \in Thread \ {l} : Owns(t) /\ held[t] = serves[l]
=============================================================================
