------------------------------ MODULE Supervisor ------------------------------
(***************************************************************************)
(* App.runWithReconnect against the clock: the ticker that decides when to *)
(* dial, the backoff that puts it off, the listeners that reset or double  *)
(* the backoff, and the two ways the process ends after a SIGTERM: the     *)
(* orderly stopServices, or os.Exit from the timer of SignalService.       *)
(*                                                                         *)
(* Time passes in seconds.  A second passes only when nothing is ready to  *)
(* run: goroutines are prompt, a dial may take any time, stopServices has  *)
(* its time-out.  Steps of the same second interleave freely.              *)
(***************************************************************************)
EXTENDS Integers

CONSTANTS
  CheckInterval, MinDelay, MaxDelay,  \* app.go:156-160, in seconds
  GracefulTimeout,                    \* signal.go:13
  StopTimeout,                        \* app.go:134
  Jitter,                             \* the extremes of the jitter, in fifths
  MaxPending                          \* bound on listeners started and not run

ASSUME Periods ==
  /\ CheckInterval \in Nat \ {0} /\ StopTimeout \in Nat
  /\ MinDelay \in Nat \ {0} /\ MaxDelay \in Nat /\ MinDelay <= MaxDelay
  /\ GracefulTimeout \in Nat /\ CheckInterval + StopTimeout < GracefulTimeout
  /\ Jitter \subseteq {-1, 0, 1} /\ MaxPending \in Nat

VARIABLES
  proc,         \* "running", "exited" (Run returned) or "killed" (os.Exit)
  pc,           \* where Run is
  conn,         \* the connection: "none", "up", "stuck" (Close blocks)
  tickLeft, period, tickReady,  \* the ticker, and a tick in its channel
  currentDelay, \* the backoff
  resetBackoff, \* a token is in the channel (capacity 1)
  established,  \* listeners of ConnectionEstablished started and not run
  losses,       \* listeners of ConnectionClosed and ConnectionFailed, likewise
  signal,       \* "none", "published" (listener started), "lost", "heard"
  exitLeft,     \* seconds until os.Exit, -1 while no timer is armed
  stopLeft,     \* seconds stopServices may still take
  fails,        \* dials failed since the last that succeeded, up to 2
  sinceFail,    \* seconds since the last put-off, up to MinDelay
  hindered      \* something kept the signal from being served in time

ticker   == <<tickLeft, period, tickReady>>
backoff  == <<currentDelay, resetBackoff>>
pending  == <<established, losses>>
ending   == <<proc, signal, exitLeft, stopLeft>>
history  == <<fails, sinceFail, hindered>>
vars     == <<pc, conn, ticker, backoff, pending, ending, history>>

\* startServices is done: signals are handled, LoadConfig is next.
Init ==
  /\ proc = "running" /\ pc = "load" /\ conn = "none"
  /\ tickLeft = CheckInterval /\ period = CheckInterval /\ tickReady = FALSE
  /\ currentDelay = MinDelay /\ resetBackoff = FALSE
  /\ established = 0 /\ losses = 0
  /\ signal = "none" /\ exitLeft = -1 /\ stopLeft = StopTimeout
  /\ fails = 0 /\ sinceFail = MinDelay /\ hindered = FALSE

Running == proc = "running"
Armed   == exitLeft >= 0
MinOf(a, b) == IF a <= b THEN a ELSE b

-----------------------------------------------------------------------------
(* runWithReconnect *)

\* nextBackoffDelay: the jitter is added to the delay, which is then doubled.
Delay(j) == currentDelay + j * (currentDelay \div 5)
DoubledUncapped == 2 * currentDelay
Doubled  == MinOf(2 * currentDelay, MaxDelay)

\* ticker.Reset: a tick that is ready is discarded.
ResetTicker(d) ==
  /\ tickLeft' = d
  /\ period' = d
  /\ tickReady' = FALSE

MainGoes(from, to) ==
  /\ Running
  /\ pc = from
  /\ pc' = to

\* LoadConfig succeeds: Run subscribes and starts its ticker ...
Subscribe ==
  /\ MainGoes("load", "select")
  /\ ResetTicker(CheckInterval)
  /\ UNCHANGED <<conn, backoff, pending, ending, history>>

\* ... or fails, and Run returns.
LoadFails ==
  /\ MainGoes("load", "done")
  /\ proc' = "exited"
  /\ UNCHANGED <<conn, ticker, backoff, pending, signal, exitLeft, stopLeft, history>>

\* A loop that does not shorten the period again.
SelectResetKeepsPeriod ==
  /\ MainGoes("select", "select")
  /\ resetBackoff
  /\ resetBackoff' = FALSE
  /\ UNCHANGED <<conn, ticker, currentDelay, pending, ending, history>>

\* case <-resetBackoff
SelectReset ==
  /\ MainGoes("select", "select")
  /\ resetBackoff
  /\ resetBackoff' = FALSE
  /\ ResetTicker(CheckInterval)
  /\ UNCHANGED <<conn, currentDelay, pending, ending, history>>

Tick ==
  /\ tickReady
  /\ tickReady' = FALSE
  /\ UNCHANGED <<tickLeft, period, backoff, pending, ending, fails, sinceFail>>

\* A tick after the signal: stopServices.
TickStops ==
  /\ MainGoes("select", "stop")
  /\ Tick
  /\ signal = "heard"
  /\ UNCHANGED <<conn, hindered>>

\* A tick that finds no connection: Start and Connect.
TickDials ==
  /\ MainGoes("select", "dial")
  /\ Tick
  /\ signal # "heard" /\ conn = "none"
  /\ hindered' = (hindered \/ Armed)
  /\ UNCHANGED conn

\* A tick that finds a connection.
TickIdles ==
  /\ MainGoes("select", "select")
  /\ Tick
  /\ signal # "heard" /\ conn # "none"
  /\ UNCHANGED <<conn, hindered>>

\* transport.Connect fails and ConnectionFailed is published ...
DialFails ==
  /\ MainGoes("dial", "putoff")
  /\ losses < MaxPending
  /\ losses' = losses + 1
  /\ UNCHANGED <<conn, ticker, backoff, established, ending, history>>

\* ... or sendConfig fails, and nothing is.
HandshakeFails ==
  /\ MainGoes("dial", "putoff")
  /\ UNCHANGED <<conn, ticker, backoff, pending, ending, history>>

\* A failed dial after which the ticker goes on as before.
PutOffForgotten ==
  /\ MainGoes("putoff", "select")
  /\ fails' = MinOf(fails + 1, 2)
  /\ sinceFail' = 0
  /\ UNCHANGED <<conn, ticker, backoff, pending, ending, hindered>>

\* Either way the next tick is put off.
PutOff ==
  /\ MainGoes("putoff", "select")
  /\ \E j \in Jitter : ResetTicker(Delay(j))
  /\ currentDelay' = Doubled
  /\ fails' = MinOf(fails + 1, 2)
  /\ sinceFail' = 0
  /\ UNCHANGED <<conn, resetBackoff, pending, ending, hindered>>

\* Connect stores the connection and publishes ConnectionEstablished.
DialSucceeds ==
  /\ MainGoes("dial", "reset")
  /\ established < MaxPending
  /\ established' = established + 1
  /\ conn' = "up"
  /\ fails' = 0
  /\ UNCHANGED <<ticker, backoff, losses, ending, sinceFail, hindered>>

\* resetBackoffFn: a full channel already holds a token.
ResetBackoff ==
  /\ currentDelay' = MinDelay
  /\ resetBackoff' = TRUE

MainResets ==
  /\ MainGoes("reset", "select")
  /\ ResetBackoff
  /\ UNCHANGED <<conn, ticker, pending, ending, history>>

\* stopServices returns, unless a Close is stuck.
StopReturns ==
  /\ MainGoes("stop", "done")
  /\ conn # "stuck"
  /\ conn' = "none"
  /\ proc' = "exited"
  /\ UNCHANGED <<ticker, backoff, pending, signal, exitLeft, stopLeft, history>>

-----------------------------------------------------------------------------
(* Listeners, each run in a goroutine of its own *)

EstablishedHeard ==
  /\ Running
  /\ established > 0
  /\ established' = established - 1
  /\ ResetBackoff
  /\ UNCHANGED <<pc, conn, ticker, losses, ending, history>>

\* ConnectionClosed, ConnectionFailed: the connection service is stopped,
\* which closes the connection there is by then, and the backoff advances.
LossHeard ==
  /\ Running
  /\ losses > 0 /\ conn # "stuck"
  /\ losses' = IF conn = "up" THEN losses ELSE losses - 1
  /\ conn' = "none"
  /\ currentDelay' = Doubled
  /\ UNCHANGED <<pc, ticker, resetBackoff, established, ending, history>>

\* A listener that sets a copy of the flag.
TerminationMisheard ==
  /\ Running
  /\ signal = "published"
  /\ signal' = "lost"
  /\ UNCHANGED <<pc, conn, ticker, backoff, pending, proc, exitLeft, stopLeft, history>>

\* terminationReceived = true
TerminationHeard ==
  /\ Running
  /\ signal = "published"
  /\ signal' = "heard"
  /\ UNCHANGED <<pc, conn, ticker, backoff, pending, proc, exitLeft, stopLeft, history>>

-----------------------------------------------------------------------------
(* SignalService *)

\* What keeps a signal that arrives now from being served before os.Exit: it
\* is not subscribed to yet, the next tick is too far, or Close is stuck.
Hindrance ==
  \/ pc \in {"load", "dial", "putoff"}
  \/ pc \in {"select", "reset"} /\ ~tickReady
       /\ tickLeft + StopTimeout >= GracefulTimeout
  \/ conn = "stuck"

\* A handler that forgets the exit timer.
TerminateUntimed ==
  /\ Running
  /\ signal = "none"
  /\ signal' = IF pc = "load" THEN "lost" ELSE "published"
  /\ hindered' = Hindrance
  /\ UNCHANGED <<pc, conn, ticker, backoff, pending, proc, exitLeft, stopLeft, fails, sinceFail>>

\* SIGINT or SIGTERM: TerminationSignal is published, os.Exit is scheduled.
Terminate ==
  /\ Running
  /\ signal = "none"
  /\ signal' = IF pc = "load" THEN "lost" ELSE "published"
  /\ exitLeft' = GracefulTimeout
  /\ hindered' = Hindrance
  /\ UNCHANGED <<pc, conn, ticker, backoff, pending, proc, stopLeft, fails, sinceFail>>

\* os.Exit(1)
Exit ==
  /\ Running
  /\ exitLeft = 0
  /\ proc' = "killed"
  /\ UNCHANGED <<pc, conn, ticker, backoff, pending, signal, exitLeft, stopLeft, history>>

-----------------------------------------------------------------------------
(* The connection and the clock *)

\* The connection is closed, and ConnectionClosed published.
ConnectionLost ==
  /\ Running
  /\ conn # "none" /\ losses < MaxPending
  /\ conn' = "none"
  /\ losses' = losses + 1
  /\ UNCHANGED <<pc, ticker, backoff, established, ending, history>>

\* The peer lets a write through no more: Close waits for the writer.
ConnectionSticks ==
  /\ Running
  /\ conn = "up"
  /\ conn' = "stuck"
  /\ hindered' = (hindered \/ Armed)
  /\ UNCHANGED <<pc, ticker, backoff, pending, ending, fails, sinceFail>>

\* Nothing is ready: Run is waiting, and no listener is.
Quiet ==
  /\ \/ pc = "select" /\ ~tickReady /\ ~resetBackoff
     \/ pc = "dial"
     \/ pc = "stop" /\ (stopLeft > 0 \/ conn = "stuck")
  /\ established = 0 /\ (losses = 0 \/ conn = "stuck")
  /\ signal # "published" /\ exitLeft # 0

Second ==
  /\ Running /\ Quiet
  /\ tickLeft' = IF tickLeft = 1 THEN period ELSE tickLeft - 1
  /\ tickReady' = (tickReady \/ tickLeft = 1)
  /\ exitLeft' = IF Armed THEN exitLeft - 1 ELSE exitLeft
  /\ stopLeft' = IF pc = "stop" /\ stopLeft > 0 THEN stopLeft - 1 ELSE stopLeft
  /\ sinceFail' = MinOf(sinceFail + 1, MinDelay)
  /\ UNCHANGED <<proc, pc, conn, period, backoff, pending, signal, fails, hindered>>

-----------------------------------------------------------------------------
Main ==
  \/ Subscribe \/ LoadFails
  \/ SelectReset \/ TickStops \/ TickDials \/ TickIdles
  \/ PutOff \/ MainResets \/ StopReturns
Dial      == DialFails \/ HandshakeFails \/ DialSucceeds
Listeners == EstablishedHeard \/ LossHeard \/ TerminationHeard
Peer      == ConnectionLost \/ ConnectionSticks

Next == Main \/ Dial \/ Listeners \/ Terminate \/ Exit \/ Peer \/ Second

Spec == Init /\ [][Next]_vars

\* Goroutines run, timers fire and time goes on.  A dial need not end, and
\* nothing frees a stuck connection.
Fairness == WF_vars(Main) /\ WF_vars(Listeners) /\ WF_vars(Exit) /\ WF_vars(Second)

FairSpec == Spec /\ Fairness

-----------------------------------------------------------------------------
(* Properties *)

Longest == MaxDelay + MaxDelay \div 5

\* Every variable has its type; with the jitter a delay can exceed MaxDelay by
\* a fifth (app.go:184-194).
TypeOK ==
  /\ proc \in {"running", "exited", "killed"}
  /\ pc \in {"load", "select", "dial", "putoff", "reset", "stop", "done"}
  /\ conn \in {"none", "up", "stuck"}
  /\ period \in 1 .. Longest \cup {CheckInterval}
  /\ tickLeft \in 1 .. period
  /\ currentDelay \in MinDelay .. MaxDelay
  /\ tickReady \in BOOLEAN /\ resetBackoff \in BOOLEAN /\ hindered \in BOOLEAN
  /\ established \in Nat /\ losses \in Nat
  /\ signal \in {"none", "published", "lost", "heard"}
  /\ exitLeft \in -1 .. GracefulTimeout /\ stopLeft \in 0 .. StopTimeout
  /\ fails \in 0 .. 2 /\ sinceFail \in 0 .. MinDelay

\* While a connection is in place the ticker runs at checkInterval, or is about
\* to: no token is lost between a put-off and a success, so that the loss of a
\* connection is noticed at once (app.go:173-176, 208 and 239-240).
WatchedClosely ==
  (conn # "none" /\ pc \in {"select", "stop"}) =>
    period = CheckInterval \/ resetBackoff

\* A backoff can be undone by a token left over from the last success, but not
\* twice: from the second failure in a row on, dials are a shortened MinDelay
\* apart (app.go:176-180, 239-240 and 255-258).
RetriesSpaced ==
  [][pc # "dial" /\ pc' = "dial" /\ fails >= 2
       => sinceFail >= MinDelay - MinDelay \div 5]_vars

\* The exit timer (signal.go:75) cuts the orderly stop short only if the signal
\* came before Run subscribed, while the ticker was put off, while Run was
\* dialling, or with a connection that cannot be closed.
KilledOnlyIfHindered == proc = "killed" => hindered

\* A signal ends the process, even one nobody heard, with a dial that never
\* returns or a connection that cannot be closed.
SignalEndsProcess == signal # "none" ~> ~Running

\* README.md:140, "SIGINT/SIGTERM: Graceful shutdown": os.Exit does not end a
\* process whose Run has heard the signal and sits in its select, with no dial
\* and no Close to wait for.
GracefulShutdown == ~(proc = "killed" /\ signal = "heard" /\ pc = "select")
=============================================================================
