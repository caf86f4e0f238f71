--------------------------- MODULE SupervisorProofs ---------------------------
(***************************************************************************)
(* For every choice of the periods: type correctness of Supervisor, that   *)
(* the ticker watches a connection closely, that failed dials are spaced,  *)
(* and what it takes for os.Exit to cut the orderly stop short.            *)
(***************************************************************************)
EXTENDS Supervisor, TLAPS

Shortest == MinDelay - MinDelay \div 5

\* What the jitter makes of a delay.
LEMMA DelayBounds ==
  ASSUME currentDelay \in MinDelay .. MaxDelay, NEW j \in Jitter
  PROVE  /\ Delay(j) \in 1 .. Longest
         /\ Delay(j) >= Shortest
<1> DEFINE d == currentDelay  fifth == currentDelay \div 5
<1>1. d \in Nat /\ d >= 1 /\ d >= MinDelay /\ d <= MaxDelay /\ MinDelay \in Nat /\ MaxDelay \in Nat
  BY Periods
<1>2. /\ fifth \in Nat /\ 5 * fifth <= d
      /\ fifth <= MaxDelay \div 5 /\ MaxDelay \div 5 \in Nat
      /\ d - fifth >= MinDelay - MinDelay \div 5
      /\ MinDelay \div 5 \in Nat
  BY <1>1
<1>3. j = -1 \/ j = 0 \/ j = 1
  BY Periods
<1>4. /\ j = -1 => Delay(j) = d - fifth
      /\ j = 0 => Delay(j) = d
      /\ j = 1 => Delay(j) = d + fifth
  BY <1>2, <1>1 DEF Delay
<1>5. QED
  BY <1>1, <1>2, <1>3, <1>4 DEF Longest, Shortest

LEMMA ShortestNat == Shortest \in Nat /\ Shortest <= MinDelay
<1>1. MinDelay \in Nat
  BY Periods
<1>2. MinDelay \div 5 \in Nat /\ MinDelay \div 5 <= MinDelay
  BY <1>1
<1>3. QED
  BY <1>1, <1>2 DEF Shortest

-----------------------------------------------------------------------------
(* The invariant *)

\* Where Run is says what it has done.
Located ==
  /\ pc \in {"load", "dial", "putoff"} => conn = "none"
  /\ pc \in {"load", "reset"} => fails = 0
  /\ pc = "stop" => signal = "heard"
  /\ pc = "done" => ~Running
  /\ pc \notin {"stop", "done"} => stopLeft = StopTimeout
  /\ Armed <=> signal # "none"

\* No token of an earlier success is left by the time of the second failure in
\* a row: the first has put the next dial off, and time has passed since.
TokensSpent ==
  /\ fails >= 1 /\ (tickReady \/ pc \in {"dial", "putoff", "stop"})
       => established = 0 /\ ~resetBackoff
  /\ fails >= 2 => established = 0 /\ ~resetBackoff

\* From then on the next tick is far enough from the failure.
PutOffHolds ==
  pc = "select" /\ fails >= 2 =>
    IF tickReady THEN sinceFail >= Shortest ELSE tickLeft + sinceFail >= Shortest

\* While nothing hinders it, a signal is served in time: Run is waiting for a
\* tick that leaves room for stopServices, or is in stopServices.  In the
\* signal's own second, and only then, the ticker can still be reset.
InTime ==
  Running /\ Armed /\ ~hindered =>
    /\ conn # "stuck" /\ signal \in {"published", "heard"}
    /\ pc \in {"select", "reset", "stop"}
    /\ pc = "stop" => stopLeft < exitLeft
    /\ pc # "stop" =>
         /\ StopTimeout < exitLeft
         /\ \/ exitLeft = GracefulTimeout
            \/ signal = "heard" /\ established = 0 /\ ~resetBackoff /\ pc # "reset"
         /\ tickReady \/ resetBackoff \/ pc = "reset" \/ tickLeft + StopTimeout < exitLeft

IInv ==
  /\ TypeOK /\ WatchedClosely /\ KilledOnlyIfHindered
  /\ Located /\ TokensSpent /\ PutOffHolds /\ InTime

LEMMA InitIInv == Init => IInv
<1> SUFFICES ASSUME Init PROVE IInv
  OBVIOUS
<1>1. /\ tickReady \in BOOLEAN /\ resetBackoff \in BOOLEAN /\ hindered \in BOOLEAN
      /\ ~tickReady /\ ~resetBackoff /\ ~hindered
  BY Zenon DEF Init
<1>2. /\ tickLeft = CheckInterval /\ period = CheckInterval /\ CheckInterval \in 1 .. CheckInterval
      /\ currentDelay = MinDelay /\ MinDelay \in MinDelay .. MaxDelay
      /\ exitLeft = -1 /\ -1 \in -1 .. GracefulTimeout
      /\ stopLeft = StopTimeout /\ StopTimeout \in 0 .. StopTimeout
      /\ sinceFail = MinDelay /\ MinDelay \in 0 .. MinDelay
  BY Periods DEF Init
<1>3. TypeOK
  BY <1>1, <1>2 DEF Init, TypeOK
<1>4. QED
  BY <1>1, <1>2, <1>3, Periods DEF Init, IInv, WatchedClosely, KilledOnlyIfHindered, Located,
     TokensSpent, PutOffHolds, InTime, Armed, Running

LEMMA LoadStep == IInv /\ (Subscribe \/ LoadFails) => IInv'
<1> SUFFICES ASSUME IInv, Subscribe \/ LoadFails PROVE IInv'
  OBVIOUS
<1> USE Periods DEF IInv, TypeOK, WatchedClosely, KilledOnlyIfHindered, Located, TokensSpent,
        PutOffHolds, InTime, Armed, Running, MainGoes, ResetTicker, backoff, pending, ending,
        history, ticker
<1>1. CASE Subscribe
  <2>1. tickReady' \in BOOLEAN /\ ~tickReady'
    BY <1>1, Zenon DEF Subscribe
  <2>2. /\ proc = "running" /\ pc = "load" /\ pc' = "select"
        /\ tickLeft' = CheckInterval /\ period' = CheckInterval
        /\ UNCHANGED <<conn, backoff, pending, ending, history>>
    BY <1>1 DEF Subscribe
  <2>3. TypeOK'
    BY <2>1, <2>2
  <2>4. QED
    BY <2>1, <2>2, <2>3
<1>2. CASE LoadFails
  BY <1>2 DEF LoadFails
<1>3. QED
  BY <1>1, <1>2

LEMMA SelectStep ==
  IInv /\ (SelectReset \/ TickStops \/ TickDials \/ TickIdles) => IInv'
<1> SUFFICES ASSUME IInv, SelectReset \/ TickStops \/ TickDials \/ TickIdles PROVE IInv'
  OBVIOUS
<1> USE Periods DEF IInv, TypeOK, WatchedClosely, KilledOnlyIfHindered, Located, TokensSpent,
        PutOffHolds, InTime, Armed, Running, MainGoes, ResetTicker, Tick, backoff, pending,
        ending, history, ticker
<1>1. CASE SelectReset
  <2>1. /\ resetBackoff /\ resetBackoff' \in BOOLEAN /\ ~resetBackoff'
        /\ tickReady' \in BOOLEAN /\ ~tickReady'
    BY <1>1, Zenon DEF SelectReset
  <2>2. /\ proc = "running" /\ pc = "select" /\ pc' = "select"
        /\ tickLeft' = CheckInterval /\ period' = CheckInterval
        /\ UNCHANGED <<conn, currentDelay, pending, ending, history>>
    BY <1>1 DEF SelectReset
  <2>3. PutOffHolds'
    BY <2>1, <2>2
  <2>4. InTime'
    BY <2>1, <2>2
  <2>5. QED
    BY <2>1, <2>2, <2>3, <2>4
<1>2. CASE TickStops
  BY <1>2 DEF TickStops
<1>3. CASE TickDials
  BY <1>3 DEF TickDials
<1>4. CASE TickIdles
  <2>1. tickReady /\ tickReady' \in BOOLEAN /\ ~tickReady'
    BY <1>4, Zenon DEF TickIdles
  <2>2. /\ proc = "running" /\ pc = "select" /\ pc' = "select"
        /\ signal # "heard" /\ conn # "none"
        /\ UNCHANGED <<conn, hindered, tickLeft, period, backoff, pending, ending,
                       fails, sinceFail>>
    BY <1>4 DEF TickIdles
  <2>3. TypeOK' /\ WatchedClosely' /\ KilledOnlyIfHindered' /\ Located' /\ TokensSpent'
    BY <2>1, <2>2
  <2>4. PutOffHolds'
    BY <2>1, <2>2, ShortestNat
  <2>5. InTime'
    BY <2>1, <2>2
  <2>6. QED
    BY <2>3, <2>4, <2>5
<1>5. QED
  BY <1>1, <1>2, <1>3, <1>4

LEMMA DialStep ==
  IInv /\ (Dial \/ PutOff \/ MainResets \/ StopReturns) => IInv'
<1> SUFFICES ASSUME IInv, Dial \/ PutOff \/ MainResets \/ StopReturns PROVE IInv'
  OBVIOUS
<1> USE Periods DEF IInv, TypeOK, WatchedClosely, KilledOnlyIfHindered, Located, TokensSpent,
        PutOffHolds, InTime, Armed, Running, MainGoes, ResetTicker, ResetBackoff, MinOf,
        backoff, pending, ending, history, ticker
<1>1. CASE DialFails
  BY <1>1 DEF DialFails
<1>2. CASE HandshakeFails
  BY <1>2 DEF HandshakeFails
<1>3. CASE DialSucceeds
  BY <1>3 DEF DialSucceeds
<1>4. CASE PutOff
  <2>1. PICK j \in Jitter : ResetTicker(Delay(j))
    BY <1>4 DEF PutOff
  <2>2. tickReady' \in BOOLEAN /\ ~tickReady'
    BY <2>1, Zenon DEF ResetTicker
  <2>3. tickLeft' = period' /\ tickLeft' \in 1 .. Longest /\ tickLeft' >= Shortest
    BY <2>1, DelayBounds
  <2>4. /\ proc = "running" /\ pc = "putoff" /\ pc' = "select"
        /\ currentDelay' = Doubled /\ fails' = MinOf(fails + 1, 2) /\ sinceFail' = 0
        /\ UNCHANGED <<conn, resetBackoff, pending, ending, hindered>>
    BY <1>4 DEF PutOff
  <2>5. currentDelay' \in MinDelay .. MaxDelay
    BY <2>4 DEF Doubled
  <2>6. /\ fails' \in 0 .. 2 /\ sinceFail' \in 0 .. MinDelay
        /\ period' \in 1 .. Longest \cup {CheckInterval} /\ tickLeft' \in 1 .. period'
    BY <2>3, <2>4
  <2>7. TypeOK'
    <3>1. resetBackoff' \in BOOLEAN /\ hindered' \in BOOLEAN
      BY <2>4
    <3>2. pc' \in {"load", "select", "dial", "putoff", "reset", "stop", "done"}
      BY <2>4
    <3>3. UNCHANGED <<proc, conn, established, losses, signal, exitLeft, stopLeft>>
      BY <2>4
    <3>4. /\ proc' \in {"running", "exited", "killed"} /\ conn' \in {"none", "up", "stuck"}
          /\ established' \in Nat /\ losses' \in Nat
          /\ signal' \in {"none", "published", "lost", "heard"}
          /\ exitLeft' \in -1 .. GracefulTimeout /\ stopLeft' \in 0 .. StopTimeout
      BY <3>3
    <3> HIDE DEF IInv, WatchedClosely, KilledOnlyIfHindered, Located, TokensSpent, PutOffHolds, InTime
    <3>5. QED
      BY <2>2, <2>5, <2>6, <3>1, <3>2, <3>4, Zenon DEF TypeOK
  <2>8. WatchedClosely' /\ KilledOnlyIfHindered' /\ Located' /\ InTime'
    BY <2>2, <2>4
  <2>9. TokensSpent'
    BY <2>2, <2>4
  <2>10. PutOffHolds'
    <3>1. tickLeft' \in Nat /\ sinceFail' = 0
      BY <2>3, <2>4
    <3>2. tickLeft' + sinceFail' >= Shortest
      <4>1. \A m, n \in Nat : m >= n => m + 0 >= n
        OBVIOUS
      <4>2. tickLeft' + 0 >= Shortest
        BY <4>1, <3>1, <2>3, ShortestNat, Zenon
      <4>3. QED
        BY <4>2, <3>1, Zenon
    <3>3. QED
      BY <2>2, <3>2, Zenon
  <2>11. QED
    BY <2>7, <2>8, <2>9, <2>10
<1>5. CASE MainResets
  BY <1>5 DEF MainResets
<1>6. CASE StopReturns
  BY <1>6 DEF StopReturns
<1>7. QED
  BY <1>1, <1>2, <1>3, <1>4, <1>5, <1>6 DEF Dial

LEMMA ListenerStep == IInv /\ Listeners => IInv'
<1> SUFFICES ASSUME IInv, Listeners PROVE IInv'
  OBVIOUS
<1> USE Periods DEF IInv, TypeOK, WatchedClosely, KilledOnlyIfHindered, Located, TokensSpent,
        PutOffHolds, InTime, Armed, Running, ResetBackoff, Doubled, MinOf,
        backoff, pending, ending, history, ticker
<1>1. CASE EstablishedHeard
  BY <1>1 DEF EstablishedHeard
<1>2. CASE LossHeard
  BY <1>2 DEF LossHeard
<1>3. CASE TerminationHeard
  BY <1>3 DEF TerminationHeard
<1>4. QED
  BY <1>1, <1>2, <1>3 DEF Listeners

LEMMA OutsideStep == IInv /\ (Terminate \/ Exit \/ Peer \/ Second) => IInv'
<1> SUFFICES ASSUME IInv, Terminate \/ Exit \/ Peer \/ Second PROVE IInv'
  OBVIOUS
<1> USE Periods DEF IInv, TypeOK, WatchedClosely, KilledOnlyIfHindered, Located, TokensSpent,
        PutOffHolds, InTime, Armed, Running, MinOf,
        backoff, pending, ending, history, ticker
<1>1. CASE Terminate
  BY <1>1 DEF Terminate, Hindrance
<1>2. CASE Exit
  BY <1>2 DEF Exit
<1>3. CASE ConnectionLost
  BY <1>3 DEF ConnectionLost
<1>4. CASE ConnectionSticks
  BY <1>4 DEF ConnectionSticks
<1>5. CASE Second
  <2>1. CASE tickLeft = 1
    <3>1. tickReady' \in BOOLEAN /\ tickReady'
      BY <1>5, <2>1, Zenon DEF Second
    <3>2. TypeOK' /\ WatchedClosely' /\ KilledOnlyIfHindered' /\ Located'
      BY <1>5, <2>1, <3>1 DEF Second, Quiet
    <3>3. TokensSpent'
      BY <1>5, <2>1, <3>1 DEF Second, Quiet
    <3>4. PutOffHolds'
      BY <1>5, <2>1, <3>1, ShortestNat DEF Second, Quiet
    <3>5. InTime'
      BY <1>5, <2>1, <3>1 DEF Second, Quiet
    <3>6. QED
      BY <3>2, <3>3, <3>4, <3>5
  <2>2. CASE tickLeft # 1
    <3>1. tickReady' = tickReady /\ tickLeft' = tickLeft - 1
      BY <1>5, <2>2 DEF Second
    <3>2. TypeOK' /\ WatchedClosely' /\ KilledOnlyIfHindered' /\ Located'
      BY <1>5, <2>2, <3>1 DEF Second, Quiet
    <3>3. TokensSpent'
      BY <1>5, <2>2, <3>1 DEF Second, Quiet
    <3>4. PutOffHolds'
      BY <1>5, <2>2, <3>1, ShortestNat DEF Second, Quiet
    <3>5. InTime'
      BY <1>5, <2>2, <3>1 DEF Second, Quiet
    <3>6. QED
      BY <3>2, <3>3, <3>4, <3>5
  <2>3. QED
    BY <2>1, <2>2
<1>6. QED
  BY <1>1, <1>2, <1>3, <1>4, <1>5 DEF Peer

LEMMA Invariance == Spec => []IInv
<1>1. IInv /\ [Next]_vars => IInv'
  <2> SUFFICES ASSUME IInv, [Next]_vars PROVE IInv'
    OBVIOUS
  <2>1. CASE Main
    BY <2>1, LoadStep, SelectStep, DialStep DEF Main
  <2>2. CASE Dial
    BY <2>2, DialStep
  <2>3. CASE Listeners
    BY <2>3, ListenerStep
  <2>4. CASE Terminate \/ Exit \/ Peer \/ Second
    BY <2>4, OutsideStep
  <2>5. CASE UNCHANGED vars
    <3>1. /\ UNCHANGED <<proc, pc, conn, tickLeft, period, tickReady, currentDelay, resetBackoff>>
          /\ UNCHANGED <<established, losses, signal, exitLeft, stopLeft, fails, sinceFail, hindered>>
      BY <2>5 DEF vars, ticker, backoff, pending, ending, history
    <3>2. TypeOK' /\ WatchedClosely' /\ KilledOnlyIfHindered'
      BY <3>1 DEF IInv, TypeOK, WatchedClosely, KilledOnlyIfHindered
    <3>3. Located' /\ TokensSpent' /\ PutOffHolds' /\ InTime'
      BY <3>1 DEF IInv, Located, TokensSpent, PutOffHolds, InTime, Armed, Running
    <3>4. QED
      BY <3>2, <3>3 DEF IInv
  <2>6. QED
    BY <2>1, <2>2, <2>3, <2>4, <2>5 DEF Next
<1>2. QED
  BY InitIInv, <1>1, PTL DEF Spec

-----------------------------------------------------------------------------
(* Theorems *)

\* Every variable keeps its type; the delay exceeds MaxDelay by a fifth at most
\* (app.go:184-194).
THEOREM TypeCorrect == Spec => []TypeOK
<1>1. IInv => TypeOK
  BY DEF IInv
<1>2. QED
  BY Invariance, <1>1, PTL

\* While a connection is in place the ticker runs at checkInterval, or a token
\* is there to make it (app.go:208, 239-240).
THEOREM ConnectionWatched == Spec => []WatchedClosely
<1>1. IInv => WatchedClosely
  BY DEF IInv
<1>2. QED
  BY Invariance, <1>1, PTL

\* os.Exit (signal.go:75) cuts the orderly stop short only after one of the
\* hindrances Supervisor names.
THEOREM ExitNeedsHindrance == Spec => []KilledOnlyIfHindered
<1>1. IInv => KilledOnlyIfHindered
  BY DEF IInv
<1>2. QED
  BY Invariance, <1>1, PTL

\* From the second failure in a row on, a dial follows the last by a shortened
\* MinDelay at least (app.go:176-180, 255-258).
THEOREM DialsSpaced == Spec => RetriesSpaced
<1> DEFINE Spaced == pc # "dial" /\ pc' = "dial" /\ fails >= 2 => sinceFail >= Shortest
<1>1. IInv /\ [Next]_vars => Spaced
  <2> SUFFICES ASSUME IInv, [Next]_vars, pc # "dial", pc' = "dial", fails >= 2
               PROVE  sinceFail >= Shortest
    OBVIOUS
  <2>1. CASE TickDials
    BY <2>1 DEF IInv, PutOffHolds, TickDials, Tick, MainGoes
  <2>2. pc' = pc \/ pc' # "dial" \/ TickDials
    <3>1. CASE Main
      BY <3>1 DEF Main, Subscribe, LoadFails, SelectReset, TickStops, TickIdles, PutOff,
         MainResets, StopReturns, MainGoes
    <3>2. CASE Dial
      BY <3>2 DEF Dial, DialFails, HandshakeFails, DialSucceeds, MainGoes
    <3>3. CASE Listeners
      BY <3>3 DEF Listeners, EstablishedHeard, LossHeard, TerminationHeard
    <3>4. CASE Terminate \/ Exit \/ Peer \/ Second
      BY <3>4 DEF Terminate, Exit, Peer, ConnectionLost, ConnectionSticks, Second
    <3>5. CASE UNCHANGED vars
      BY <3>5 DEF vars
    <3>6. QED
      BY <3>1, <3>2, <3>3, <3>4, <3>5 DEF Next
  <2>3. QED
    BY <2>1, <2>2
<1>2. IInv /\ [Next]_vars => [Spaced]_vars
  BY <1>1
<1>3. QED
  BY Invariance, <1>2, PTL DEF Spec, RetriesSpaced, Shortest
=============================================================================
