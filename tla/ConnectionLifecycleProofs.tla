---------------------- MODULE ConnectionLifecycleProofs ----------------------
(***************************************************************************)
(* For every number of connections and of stop handlers: type correctness, *)
(* the custody of connections, and the refinement of ConnectionCustody.    *)
(***************************************************************************)
EXTENDS ConnectionLifecycle, TLAPS

\* A thread holds a connection exactly while it is at one of these places.
HeldWhileUsed ==
  \A t \in Thread : held[t] # NoConn <=> Owns(t) \/ pc[t] = "spawn"

\* From a tick that found no connection to the store, there is none.
NoneWhileConnecting ==
  pc[Main] \in {"subscribe", "add", "dial", "handshake", "store"}
    => connection = NoConn

\* The goroutine of a connection does not start before MainSpawn, and until
\* then no other connection than this one is current.
LoopNotStarted ==
  /\ \A c \in Conn : connState[c] = "unused" => pc[c] = "idle"
  /\ pc[Main] \in {"handshake", "store", "spawn"} => pc[held[Main]] = "idle"
  /\ pc[Main] = "spawn" => /\ connState[held[Main]] # "unused"
                           /\ connection \in {NoConn, held[Main]}

\* The inductive invariant.
IInv ==
  /\ TypeOK /\ HeldWhileUsed /\ NoneWhileConnecting /\ LoopNotStarted
  /\ SingleOwner /\ CurrentIsServed /\ ListenerIsLive

LEMMA InitIInv == Init => IInv
<1> SUFFICES ASSUME Init PROVE IInv
  OBVIOUS
<1> USE ThreadsDiffer DEF Init, Thread, Owns
<1>1. TypeOK
  BY DEF TypeOK, MainPC, HandlerPC, LoopPC
<1>2. HeldWhileUsed /\ SingleOwner
  <2>1. \A t \in Thread : ~Owns(t) /\ pc[t] # "spawn" /\ held[t] = NoConn
    OBVIOUS
  <2>2. QED
    BY <2>1 DEF HeldWhileUsed, SingleOwner
<1>3. NoneWhileConnecting /\ LoopNotStarted /\ CurrentIsServed /\ ListenerIsLive
  BY DEF NoneWhileConnecting, LoopNotStarted, CurrentIsServed, ListenerIsLive
<1>4. QED
  BY <1>1, <1>2, <1>3 DEF IInv

\* Type correctness is inductive by itself but for held[Main] and held[t].
LEMMA TypeStep == IInv /\ [Next]_vars => TypeOK'
<1> SUFFICES ASSUME IInv, [Next]_vars PROVE TypeOK'
  OBVIOUS
<1> USE ThreadsDiffer, BoundIsNat DEF IInv, TypeOK, Thread, MainPC, HandlerPC, LoopPC
<1>1. CASE MainConnects
  <2>1. CASE MainTick \/ MainHandshake
    BY <2>1 DEF MainTick, MainHandshake, MainGoes, custody, loops, config
  <2>8. CASE MainSubscribe
    BY <2>8 DEF MainSubscribe, MainGoes, custody, loops
  <2>7. CASE MainStore
    BY <2>7 DEF MainStore, MainGoes, loops, config
  <2>6. CASE MainAdd
    BY <2>6 DEF MainAdd, MainGoes, custody, loops
  <2>2. CASE \E h \in Handler : MainDialFails(h)
    BY <2>2 DEF MainDialFails, Notify, custody, loops, config
  <2>3. CASE \E c \in Conn : MainDial(c)
    BY <2>3 DEF MainDial, MainGoes, custody, loops, config
  <2>4. CASE MainHandshakeFails \/ MainSpawn
    BY <2>4 DEF MainHandshakeFails, MainSpawn, MainGoes, loops, config,
       HeldWhileUsed, Owns
  <2>5. QED
    BY <1>1, <2>1, <2>2, <2>3, <2>4, <2>6, <2>7, <2>8 DEF MainConnects
<1>2. CASE MainTerminates
  BY <1>2 DEF MainTerminates, MainGoes, custody, loops, config
<1>3. ASSUME NEW t \in Thread, Closing(t) PROVE TypeOK'
  <2>1. CASE Swap(t)
    BY <2>1 DEF Swap, AfterClose, loops, config
  <2>2. ASSUME NEW h \in Handler, CloseHeld(t, h) PROVE TypeOK'
    BY <2>2 DEF CloseHeld, AfterClose, Notify, loops, config, HeldWhileUsed, Owns
  <2>3. QED
    BY <1>3, <2>1, <2>2 DEF Closing
<1>4. ASSUME NEW t \in Thread, Stopping(t) PROVE TypeOK'
  <2>1. CASE Take(t)
    BY <2>1 DEF Take, custody, loops
  <2>2. CASE Remove(t)
    <3>1. taken' \in [Thread -> Nat]
      BY <2>2 DEF Remove
    <3>2. QED
      BY <2>2, <3>1 DEF Remove, custody, loops
  <2>3. CASE StopReturns(t)
    <3>1. t \notin Conn
      BY <2>3 DEF StopReturns
    <3>2. CASE t = Main
      BY <2>3, <3>2 DEF StopReturns, custody, loops, config
    <3>3. CASE t \in Handler
      BY <2>3, <3>3 DEF StopReturns, custody, loops, config
    <3>4. QED
      BY <3>1, <3>2, <3>3
  <2>4. QED
    BY <1>4, <2>1, <2>2, <2>3 DEF Stopping
<1>5. ASSUME NEW h \in Handler, TimerFires(h) \/ TunnelLost(h) PROVE TypeOK'
  <2>1. CASE TimerFires(h)
    BY <2>1 DEF TimerFires, PublishReconnect, AppSubscribed, custody, config
  <2>2. CASE TunnelLost(h)
    BY <2>2 DEF TunnelLost, Notify, custody, loops, config
  <2>3. QED
    BY <1>5, <2>1, <2>2
<1>6. ASSUME NEW l \in Conn, LoopRuns(l) \/ LoopFails(l) PROVE TypeOK'
  <2>1. CASE LoopBegin(l) \/ LoopSubscribe(l)
    BY <2>1 DEF LoopBegin, LoopSubscribe, LoopGoes, AddListener, custody, loops, config
  <2>2. CASE LoopCancelled(l) \/ LoopFaults(l)
    BY <2>2 DEF LoopCancelled, LoopFaults, LoopGoes, RemoveListener, custody, config
  <2>3. ASSUME NEW h \in Handler, LoopReports(l, h) PROVE TypeOK'
    BY <2>3 DEF LoopReports, Notify, custody, loops, config
  <2>4. QED
    BY <1>6, <2>1, <2>2, <2>3 DEF LoopRuns, LoopFails
<1>7. CASE Republish \/ ConfigUpdateFails
  <2>1. PublishReconnect /\ UNCHANGED <<custody, pc, serves, recSub, ended, config>>
    BY <1>7 DEF Republish, ConfigUpdateFails
  <2>2. QED
    BY <2>1 DEF PublishReconnect, AppSubscribed, custody, config
<1>8. CASE UNCHANGED vars
  BY <1>8 DEF vars, custody, loops, config
<1>9. ASSUME NEW l \in Conn, PeerEnds(l) PROVE TypeOK'
  BY <1>9 DEF PeerEnds, custody, config
<1>10. QED
  BY <1>1, <1>2, <1>3, <1>4, <1>5, <1>6, <1>7, <1>8, <1>9 DEF Next

-----------------------------------------------------------------------------
(* Custody.  Most steps are quiet: they leave the connections and who holds *)
(* them alone, and no thread enters or leaves a place where it holds one.   *)

Quiet ==
  /\ UNCHANGED custody
  /\ \A t \in Thread : /\ Owns(t)' <=> Owns(t)
                       /\ pc'[t] = "spawn" <=> pc[t] = "spawn"
  /\ pc'[Main] \in {"handshake", "store"} <=> pc[Main] \in {"handshake", "store"}

LEMMA QuietStep == IInv /\ Quiet => HeldWhileUsed' /\ SingleOwner'
BY DEF IInv, Quiet, custody, HeldWhileUsed, SingleOwner

\* The steps of Main that are quiet.
LEMMA QuietMain ==
  ASSUME TypeOK,
         \/ MainTick \/ MainSubscribe \/ MainAdd \/ MainHandshake \/ MainTerminates
         \/ \E h \in Handler : MainDialFails(h)
  PROVE  Quiet
<1>1. CASE MainTick \/ MainSubscribe \/ MainAdd \/ MainHandshake \/ MainTerminates
  BY <1>1 DEF Quiet, MainTick, MainSubscribe, MainAdd, MainHandshake, MainTerminates,
     MainGoes, Owns, TypeOK, Thread
<1>2. ASSUME NEW h \in Handler, MainDialFails(h) PROVE Quiet
  BY <1>2 DEF Quiet, MainDialFails, Notify, CanNotify, Owns, TypeOK, Thread
<1>3. QED
  BY <1>1, <1>2

LEMMA QuietStop ==
  ASSUME TypeOK, NEW t \in Thread, Stopping(t)
  PROVE  Quiet
BY DEF Stopping, Take, Remove, StopReturns, Quiet, Owns, TypeOK, Thread

LEMMA QuietHandler ==
  ASSUME TypeOK, NEW h \in Handler, TimerFires(h) \/ TunnelLost(h)
  PROVE  Quiet
BY DEF TimerFires, TunnelLost, Notify, Quiet, Owns, TypeOK, Thread

LEMMA QuietLoop ==
  ASSUME TypeOK, NEW l \in Conn, LoopRuns(l) \/ LoopFails(l)
  PROVE  Quiet
<1>1. CASE LoopRuns(l) \/ LoopFaults(l)
  BY <1>1 DEF LoopRuns, LoopBegin, LoopSubscribe, LoopCancelled, LoopFaults, LoopGoes,
     Quiet, Owns, TypeOK, Thread
<1>2. ASSUME NEW h \in Handler, LoopReports(l, h) PROVE Quiet
  BY <1>2 DEF LoopReports, Notify, Quiet, Owns, TypeOK, Thread
<1>3. QED
  BY <1>1, <1>2 DEF LoopFails

LEMMA QuietBus ==
  ASSUME \/ Republish \/ ConfigUpdateFails \/ UNCHANGED vars
         \/ \E l \in Conn : PeerEnds(l)
  PROVE  Quiet
BY DEF Republish, ConfigUpdateFails, PeerEnds, vars, Quiet, Owns, custody

LEMMA CustodyStep == IInv /\ [Next]_vars => HeldWhileUsed' /\ SingleOwner'
<1> SUFFICES ASSUME IInv, [Next]_vars PROVE HeldWhileUsed' /\ SingleOwner'
  OBVIOUS
<1>q. ASSUME Quiet PROVE HeldWhileUsed' /\ SingleOwner'
  BY <1>q, QuietStep
<1>t. TypeOK
  BY DEF IInv
<1>1. ASSUME NEW c \in Conn, MainDial(c) PROVE HeldWhileUsed' /\ SingleOwner'
  BY <1>1, ThreadsDiffer DEF MainDial, MainGoes, IInv, TypeOK, HeldWhileUsed, SingleOwner,
     NoneWhileConnecting, Owns, Thread
<1>2. CASE MainHandshakeFails
  BY <1>2, ThreadsDiffer DEF MainHandshakeFails, MainGoes, IInv, TypeOK, HeldWhileUsed,
     SingleOwner, NoneWhileConnecting, Owns, Thread
<1>3. CASE MainStore
  BY <1>3, ThreadsDiffer DEF MainStore, MainGoes, IInv, TypeOK, HeldWhileUsed,
     SingleOwner, NoneWhileConnecting, Owns, Thread
<1>4. CASE MainSpawn
  BY <1>4, ThreadsDiffer DEF MainSpawn, IInv, TypeOK, HeldWhileUsed,
     SingleOwner, LoopNotStarted, Owns, Thread
<1>5. ASSUME NEW t \in Thread, Swap(t) PROVE HeldWhileUsed' /\ SingleOwner'
  BY <1>5, ThreadsDiffer DEF Swap, AfterClose, IInv, TypeOK, HeldWhileUsed,
     SingleOwner, Owns, Thread
<1>6. ASSUME NEW t \in Thread, NEW h \in Handler, CloseHeld(t, h)
      PROVE  HeldWhileUsed' /\ SingleOwner'
  \* Closing ends t's ownership; a handler that starts owns nothing yet.
  <2>1. /\ Owns(t) /\ held[t] \in Conn /\ held[t] # connection
        /\ connState[held[t]] = "open"
    BY <1>6, <1>t DEF CloseHeld, IInv, TypeOK, SingleOwner, Owns
  <2>2. /\ pc'[t] # "close" /\ ~Owns(t)' /\ pc'[t] # "spawn"
        /\ \A u \in Thread \ {t} : (Owns(u)' <=> Owns(u)) /\ (pc'[u] = "spawn" <=> pc[u] = "spawn")
    BY <1>6, <1>t, ThreadsDiffer DEF CloseHeld, AfterClose, Notify, TypeOK, Owns, Thread
  <2>3. /\ held'[t] = NoConn /\ \A u \in Thread \ {t} : held'[u] = held[u]
        /\ connection' = connection
        /\ connState'[held[t]] = "closed"
        /\ \A c \in Conn \ {held[t]} : connState'[c] = connState[c]
    BY <1>6, <1>t, <2>1 DEF CloseHeld, TypeOK
  <2>4. HeldWhileUsed'
    BY <2>2, <2>3 DEF IInv, HeldWhileUsed
  <2>5. SingleOwner'
    BY <2>1, <2>2, <2>3, <1>t DEF IInv, TypeOK, SingleOwner
  <2>6. QED
    BY <2>4, <2>5
<1>7. QED
  BY <1>q, <1>t, <1>1, <1>2, <1>3, <1>4, <1>5, <1>6, QuietMain, QuietStop, QuietHandler,
     QuietLoop, QuietBus DEF Next, MainConnects, Closing

-----------------------------------------------------------------------------
(* The goroutines of the connections, their listeners, and Main connecting *)

Watching == NoneWhileConnecting /\ LoopNotStarted /\ CurrentIsServed /\ ListenerIsLive

\* Main holds a connection when it is about to store or to announce one.
LEMMA HeldIsConn ==
  ASSUME IInv, pc[Main] \in {"handshake", "store", "spawn"}
  PROVE  held[Main] \in Conn
BY DEF IInv, TypeOK, HeldWhileUsed, Owns, Thread

LEMMA WatchingMain ==
  ASSUME IInv, MainConnects \/ MainTerminates
  PROVE  Watching'
<1> USE ThreadsDiffer DEF IInv, TypeOK, Thread, Watching, NoneWhileConnecting,
        LoopNotStarted, CurrentIsServed, ListenerIsLive
<1>1. CASE MainTick \/ MainSubscribe \/ MainAdd \/ MainTerminates
  BY <1>1 DEF MainTick, MainSubscribe, MainAdd, MainTerminates, MainGoes, custody, loops
<1>2. ASSUME NEW h \in Handler, MainDialFails(h) PROVE Watching'
  BY <1>2 DEF MainDialFails, Notify, custody, loops
<1>3. ASSUME NEW c \in Conn, MainDial(c) PROVE Watching'
  BY <1>3 DEF MainDial, MainGoes, loops
<1>4. CASE MainHandshakeFails
  BY <1>4 DEF MainHandshakeFails, MainGoes, loops, HeldWhileUsed, Owns, SingleOwner
<1>5. CASE MainHandshake
  BY <1>5 DEF MainHandshake, MainGoes, custody, loops
<1>6. CASE MainStore
  BY <1>6 DEF MainStore, MainGoes, loops, HeldWhileUsed, Owns, SingleOwner
<1>7. CASE MainSpawn
  BY <1>7 DEF MainSpawn, loops, HeldWhileUsed, Owns
<1>8. QED
  BY <1>1, <1>2, <1>3, <1>4, <1>5, <1>6, <1>7 DEF MainConnects

LEMMA WatchingStop ==
  ASSUME IInv, NEW t \in Thread, Closing(t) \/ Stopping(t)
  PROVE  Watching'
<1> USE ThreadsDiffer DEF IInv, TypeOK, Thread, Watching, NoneWhileConnecting,
        LoopNotStarted, CurrentIsServed, ListenerIsLive
<1>1. CASE Swap(t)
  BY <1>1 DEF Swap, AfterClose, loops, HeldWhileUsed, Owns
<1>2. ASSUME NEW h \in Handler, CloseHeld(t, h) PROVE Watching'
  BY <1>2 DEF CloseHeld, AfterClose, Notify, loops, HeldWhileUsed, Owns, SingleOwner
<1>3. CASE Take(t)
  BY <1>3 DEF Take, custody, loops
<1>4. CASE Remove(t)
  BY <1>4 DEF Remove, custody, loops
<1>5. CASE StopReturns(t)
  BY <1>5 DEF StopReturns, custody, loops
<1>6. QED
  BY <1>1, <1>2, <1>3, <1>4, <1>5 DEF Closing, Stopping

LEMMA WatchingOthers ==
  ASSUME IInv,
         \/ \E h \in Handler : TimerFires(h) \/ TunnelLost(h)
         \/ Republish \/ ConfigUpdateFails \/ UNCHANGED vars
         \/ \E l \in Conn : PeerEnds(l)
  PROVE  Watching'
<1> USE ThreadsDiffer DEF IInv, TypeOK, Thread, Watching, NoneWhileConnecting,
        LoopNotStarted, CurrentIsServed, ListenerIsLive
<1>1. ASSUME NEW h \in Handler, TimerFires(h) PROVE Watching'
  BY <1>1 DEF TimerFires, custody
<1>2. ASSUME NEW h \in Handler, TunnelLost(h) PROVE Watching'
  BY <1>2 DEF TunnelLost, Notify, custody, loops
<1>3. CASE Republish \/ ConfigUpdateFails \/ UNCHANGED vars
  BY <1>3 DEF Republish, ConfigUpdateFails, vars, custody, loops
<1>4. ASSUME NEW l \in Conn, PeerEnds(l) PROVE Watching'
  BY <1>4 DEF PeerEnds, custody
<1>5. QED
  BY <1>1, <1>2, <1>3, <1>4

LEMMA WatchingLoop ==
  ASSUME IInv, NEW l \in Conn, LoopRuns(l) \/ LoopFails(l)
  PROVE  Watching'
<1> USE ThreadsDiffer DEF IInv, TypeOK, Thread, Watching, NoneWhileConnecting,
        LoopNotStarted, CurrentIsServed, ListenerIsLive, LoopGoes
<1>1. CASE LoopBegin(l)
  BY <1>1 DEF LoopBegin, custody
<1>2. CASE LoopSubscribe(l)
  BY <1>2 DEF LoopSubscribe, AddListener, custody
<1>3. CASE LoopCancelled(l)
  BY <1>3 DEF LoopCancelled, RemoveListener, custody
<1>4. CASE LoopFaults(l)
  BY <1>4 DEF LoopFaults, RemoveListener, custody
<1>5. ASSUME NEW h \in Handler, LoopReports(l, h) PROVE Watching'
  <2>1. /\ pc[l] = "report" /\ pc'[l] = "swap"
        /\ UNCHANGED <<custody, loops>>
        /\ \A t \in {Main} \cup Conn : t # l => pc'[t] = pc[t]
    BY <1>5 DEF LoopReports, Notify
  <2>2. CurrentIsServed'
    BY <2>1 DEF custody, loops
  <2>3. QED
    BY <2>1, <2>2, HeldIsConn DEF custody, loops
<1>6. QED
  BY <1>1, <1>2, <1>3, <1>4, <1>5 DEF LoopRuns, LoopFails

LEMMA StepIInv == IInv /\ [Next]_vars => IInv'
<1>1. IInv /\ [Next]_vars => Watching'
  BY WatchingMain, WatchingStop, WatchingOthers, WatchingLoop DEF Next
<1>2. QED
  BY <1>1, TypeStep, CustodyStep DEF IInv, Watching

LEMMA Invariance == Spec => []IInv
BY InitIInv, StepIInv, PTL DEF Spec

-----------------------------------------------------------------------------
(* The theorems *)

\* TypeOK holds of every behaviour, whatever the number of connections, of
\* stop handlers and the bound on the list of unsubscribes.
THEOREM TypeCorrect == Spec => []TypeOK
BY Invariance, PTL DEF IInv

\* closeConnection and Connect neither leak a connection nor close one twice,
\* however stop handlers, loops and runWithReconnect interleave.
THEOREM OwnedOnce == Spec => []SingleOwner
BY Invariance, PTL DEF IInv

\* HasConnection is never true of a connection that its goroutine has left.
THEOREM AlwaysServed == Spec => []CurrentIsServed
BY Invariance, PTL DEF IInv

\* The reconnect handler on the bus is never the handler of an ended loop.
THEOREM ListenerAlwaysLive == Spec => []ListenerIsLive
BY Invariance, PTL DEF IInv

-----------------------------------------------------------------------------
(* Refinement: every step is a step of ConnectionCustody or a stutter *)

status == [c \in Conn |-> StatusOf(c)]

\* Connection x alone changes its status.
LEMMA MoveOne ==
  ASSUME NEW x \in Conn, NEW from, NEW to,
         StatusOf(x) = from, StatusOf(x)' = to,
         \A c \in Conn : c # x => StatusOf(c)' = StatusOf(c)
  PROVE  Custody!Moves(x, from, to)
BY DEF Custody!Moves

LEMMA StatusKept ==
  ASSUME \A c \in Conn : StatusOf(c)' = StatusOf(c)
  PROVE  UNCHANGED status
BY DEF status

LEMMA QuietStatus ==
  ASSUME Quiet PROVE UNCHANGED status
BY StatusKept DEF Quiet, custody, StatusOf

LEMMA RefinesInit == Init => Custody!Init
BY DEF Init, Custody!Init, StatusOf

LEMMA RefinesStep == IInv /\ [Next]_vars => [Custody!Next]_status
<1> SUFFICES ASSUME IInv, [Next]_vars PROVE Custody!Next \/ UNCHANGED status
  OBVIOUS
<1>t. TypeOK
  BY DEF IInv
<1>q. ASSUME Quiet PROVE UNCHANGED status
  BY <1>q, QuietStatus
<1>1. ASSUME NEW c \in Conn, MainDial(c) PROVE Custody!Open(c)
  <2>1. \A d \in Conn : StatusOf(d) \notin {"opening", "current"}
    BY <1>1, ThreadsDiffer DEF MainDial, MainGoes, StatusOf, IInv, TypeOK, Thread,
       NoneWhileConnecting
  <2>2. /\ StatusOf(c) = "unused" /\ StatusOf(c)' = "opening"
        /\ \A d \in Conn : d # c => StatusOf(d)' = StatusOf(d)
    BY <1>1, ThreadsDiffer DEF MainDial, MainGoes, StatusOf, IInv, TypeOK,
       NoneWhileConnecting, HeldWhileUsed, Owns, Thread
  <2>3. QED
    BY <2>1, <2>2, MoveOne DEF Custody!Open
<1>2. CASE MainHandshakeFails
  <2>0. PICK c \in Conn : c = held[Main]
    BY <1>2, HeldIsConn DEF MainHandshakeFails, MainGoes
  <2>1. /\ StatusOf(c) = "opening" /\ StatusOf(c)' = "closed"
        /\ \A d \in Conn : d # c => StatusOf(d)' = StatusOf(d)
    BY <1>2, <2>0 DEF MainHandshakeFails, MainGoes, StatusOf, IInv, TypeOK,
       SingleOwner, NoneWhileConnecting, HeldWhileUsed, Owns, Thread
  <2>2. Custody!Abandon(c)
    BY <2>1, MoveOne DEF Custody!Abandon
  <2>3. QED
    BY <2>1, <2>2 DEF Custody!Next
<1>3. CASE MainStore
  <2>0. PICK c \in Conn : c = held[Main]
    BY <1>3, HeldIsConn DEF MainStore, MainGoes
  <2>1. /\ StatusOf(c) = "opening" /\ StatusOf(c)' = "current"
        /\ \A d \in Conn : d # c => StatusOf(d)' = StatusOf(d)
    BY <1>3, <2>0, ThreadsDiffer DEF MainStore, MainGoes, StatusOf, IInv, TypeOK,
       SingleOwner, NoneWhileConnecting, HeldWhileUsed, Owns, Thread
  <2>2. Custody!Install(c)
    BY <2>1, MoveOne DEF Custody!Install
  <2>3. QED
    BY <2>1, <2>2 DEF Custody!Next
<1>4. CASE MainSpawn
  <2>1. \A d \in Conn : StatusOf(d)' = StatusOf(d)
    BY <1>4, ThreadsDiffer DEF MainSpawn, StatusOf, IInv, TypeOK, LoopNotStarted,
       HeldWhileUsed, Owns, Thread
  <2>2. QED
    BY <2>1, StatusKept
<1>5. ASSUME NEW t \in Thread, Swap(t) PROVE Custody!Next \/ UNCHANGED status
  <2>1. CASE connection = NoConn
    <3>1. \A d \in Conn : StatusOf(d)' = StatusOf(d)
      BY <1>5, <2>1, ThreadsDiffer DEF Swap, AfterClose, StatusOf, IInv, TypeOK, Thread
    <3>2. QED
      BY <3>1, StatusKept
  <2>2. CASE connection # NoConn
    <3>0. PICK c \in Conn : c = connection
      BY <2>2 DEF IInv, TypeOK
    <3>1. /\ StatusOf(c) = "current" /\ StatusOf(c)' = "closing"
          /\ \A d \in Conn : d # c => StatusOf(d)' = StatusOf(d)
      BY <1>5, <2>2, <3>0, ThreadsDiffer DEF Swap, AfterClose, StatusOf, IInv, TypeOK,
         SingleOwner, NoneWhileConnecting, Thread
    <3>2. Custody!Retire(c)
      BY <3>1, MoveOne DEF Custody!Retire
    <3>3. QED
      BY <3>1, <3>2 DEF Custody!Next
  <2>3. QED
    BY <2>1, <2>2
<1>6. ASSUME NEW t \in Thread, NEW h \in Handler, CloseHeld(t, h)
      PROVE  Custody!Next
  <2>0. PICK c \in Conn : c = held[t]
    BY <1>6 DEF CloseHeld, IInv, TypeOK, SingleOwner, Owns
  <2>1. /\ c # connection /\ connState[c] = "open"
        /\ pc[Main] \in {"handshake", "store"} => held[Main] # c
    BY <1>6, <2>0 DEF CloseHeld, IInv, SingleOwner, Owns, Thread
  <2>2. /\ connection' = connection
        /\ connState' = [connState EXCEPT ![c] = "closed"]
        /\ pc'[Main] \in {"handshake", "store"} <=> pc[Main] \in {"handshake", "store"}
        /\ pc[Main] \in {"handshake", "store"} => held'[Main] = held[Main]
    BY <1>6, <2>0, ThreadsDiffer DEF CloseHeld, AfterClose, Notify, IInv, TypeOK, Thread
  <2>3. /\ StatusOf(c) = "closing" /\ StatusOf(c)' = "closed"
        /\ \A d \in Conn : d # c => StatusOf(d)' = StatusOf(d)
    BY <2>1, <2>2 DEF StatusOf, IInv, TypeOK
  <2>4. Custody!Close(c)
    BY <2>3, MoveOne DEF Custody!Close
  <2>5. QED
    BY <2>4 DEF Custody!Next
<1>7. QED
  BY <1>q, <1>t, <1>1, <1>2, <1>3, <1>4, <1>5, <1>6, QuietMain, QuietStop, QuietHandler,
     QuietLoop, QuietBus DEF Next, MainConnects, Closing, Custody!Next

\* The service keeps the promise of ConnectionCustody: one connection at a
\* time is being established or in use, and each is closed once, for good.
THEOREM RefinesCustody == Spec => ImplementsCustody
<1>1. Spec => [][Custody!Next]_status
  BY Invariance, RefinesStep, PTL DEF Spec
<1>2. Spec => Custody!Init
  BY RefinesInit DEF Spec
<1>3. QED
  BY <1>1, <1>2, PTL DEF ImplementsCustody, Custody!Spec, status

-----------------------------------------------------------------------------
(* A goroutine's own connection goes first *)

\* Who is past LoopBegin has a connection, one that Main is not establishing.
ServedWasCurrent ==
  \A l \in Conn : pc[l] \in {"subscribe", "running", "report", "swap", "close"} =>
    /\ serves[l] \in Conn
    /\ connState[serves[l]] # "unused"
    /\ pc[Main] \in {"handshake", "store"} => held[Main] # serves[l]

\* What a step does that leaves loops and threads' connections where they were.
LoopsKept ==
  /\ serves' = serves
  /\ \A l \in Conn : pc'[l] \in {"subscribe", "running", "report", "swap", "close"}
                       <=> pc[l] \in {"subscribe", "running", "report", "swap", "close"}
  /\ \A l \in Conn : pc'[l] = "close" <=> pc[l] = "close"

OwnFirstInv == ServedWasCurrent /\ ClosesOwnFirst

LEMMA QuietOwnFirst ==
  ASSUME OwnFirstInv, Quiet, LoopsKept
  PROVE  OwnFirstInv'
BY DEF OwnFirstInv, ServedWasCurrent, ClosesOwnFirst, Quiet, LoopsKept, custody

LEMMA LoopsKeptByQuiet ==
  ASSUME TypeOK,
         \/ MainTick \/ MainSubscribe \/ MainAdd \/ MainHandshake \/ MainTerminates
         \/ \E h \in Handler : MainDialFails(h) \/ TimerFires(h) \/ TunnelLost(h)
         \/ \E t \in Thread : Stopping(t)
         \/ \E l \in Conn : LoopSubscribe(l) \/ LoopCancelled(l) \/ LoopFails(l)
         \/ Republish \/ ConfigUpdateFails \/ UNCHANGED vars
         \/ \E l \in Conn : PeerEnds(l)
  PROVE  LoopsKept
<1> USE ThreadsDiffer DEF LoopsKept, TypeOK, Thread
<1>1. CASE MainTick \/ MainSubscribe \/ MainAdd \/ MainHandshake \/ MainTerminates
  BY <1>1 DEF MainTick, MainSubscribe, MainAdd, MainHandshake, MainTerminates, MainGoes, loops
<1>2. ASSUME NEW h \in Handler, MainDialFails(h) \/ TimerFires(h) \/ TunnelLost(h)
      PROVE  LoopsKept
  BY <1>2 DEF MainDialFails, TimerFires, TunnelLost, Notify, loops
<1>3. ASSUME NEW t \in Thread, Stopping(t) PROVE LoopsKept
  BY <1>3 DEF Stopping, Take, Remove, StopReturns, loops, LoopPC
<1>4. ASSUME NEW l \in Conn, LoopSubscribe(l) \/ LoopCancelled(l) \/ LoopFails(l)
      PROVE  LoopsKept
  <2>1. CASE LoopSubscribe(l) \/ LoopCancelled(l) \/ LoopFaults(l)
    BY <2>1 DEF LoopSubscribe, LoopCancelled, LoopFaults, LoopGoes
  <2>2. ASSUME NEW h \in Handler, LoopReports(l, h) PROVE LoopsKept
    BY <2>2 DEF LoopReports, Notify, loops
  <2>3. QED
    BY <1>4, <2>1, <2>2 DEF LoopFails
<1>5. CASE Republish \/ ConfigUpdateFails \/ UNCHANGED vars
  BY <1>5 DEF Republish, ConfigUpdateFails, vars, loops
<1>6. ASSUME NEW l \in Conn, PeerEnds(l) PROVE LoopsKept
  BY <1>6 DEF PeerEnds
<1>7. QED
  BY <1>1, <1>2, <1>3, <1>4, <1>5, <1>6

LEMMA OwnFirstStep == IInv /\ OwnFirstInv /\ [Next]_vars => OwnFirstInv'
<1> SUFFICES ASSUME IInv, OwnFirstInv, [Next]_vars PROVE OwnFirstInv'
  OBVIOUS
<1> USE ThreadsDiffer DEF IInv, TypeOK, Thread, OwnFirstInv, ServedWasCurrent, ClosesOwnFirst
<1>q. ASSUME Quiet, LoopsKept PROVE OwnFirstInv'
  BY <1>q, QuietOwnFirst
<1>1. ASSUME NEW c \in Conn, MainDial(c) PROVE OwnFirstInv'
  BY <1>1 DEF MainDial, MainGoes, loops, Owns, HeldWhileUsed
<1>2. CASE MainHandshakeFails
  BY <1>2 DEF MainHandshakeFails, MainGoes, loops, Owns, HeldWhileUsed
<1>3. CASE MainStore
  BY <1>3 DEF MainStore, MainGoes, loops, Owns
<1>4. CASE MainSpawn
  BY <1>4 DEF MainSpawn, loops, Owns, HeldWhileUsed, LoopNotStarted
<1>5. ASSUME NEW t \in Thread, Swap(t) PROVE OwnFirstInv'
  BY <1>5 DEF Swap, AfterClose, loops, Owns, SingleOwner
<1>6. ASSUME NEW t \in Thread, NEW h \in Handler, CloseHeld(t, h) PROVE OwnFirstInv'
  \* t closes what it holds; the others keep what they own.
  <2>1. /\ held[t] \in Conn /\ connState' = [connState EXCEPT ![held[t]] = "closed"]
        /\ serves' = serves
        /\ \A u \in Thread \ {t} : held'[u] = held[u] /\ (Owns(u)' <=> Owns(u))
    BY <1>6 DEF CloseHeld, AfterClose, Notify, loops, Owns, SingleOwner
  <2>2. /\ pc'[t] # "close"
        /\ \A l \in Conn : pc'[l] # pc[l] => l = t /\ pc'[l] = "done"
        /\ pc'[Main] \in {"handshake", "store"} => pc[Main] = pc'[Main] /\ held'[Main] = held[Main]
    BY <1>6 DEF CloseHeld, AfterClose, Notify
  <2>3. ServedWasCurrent'
    BY <2>1, <2>2
  <2>4. ASSUME NEW l \in Conn, pc'[l] = "close", held'[l] # serves[l]
        PROVE  \/ connState'[serves[l]] = "closed"
               \/ \E u \in Thread \ {l} : Owns(u)' /\ held'[u] = serves[l]
    <3>1. l # t /\ pc[l] = "close" /\ held[l] # serves[l] /\ serves[l] \in Conn
      BY <2>1, <2>2, <2>4
    <3>2. CASE connState[serves[l]] = "closed"
      BY <2>1, <3>1, <3>2
    <3>3. ASSUME NEW u \in Thread \ {l}, Owns(u), held[u] = serves[l]
          PROVE  \/ connState'[serves[l]] = "closed"
                 \/ \E v \in Thread \ {l} : Owns(v)' /\ held'[v] = serves[l]
      BY <2>1, <3>1, <3>3
    <3>4. QED
      BY <3>1, <3>2, <3>3
  <2>5. QED
    BY <2>1, <2>3, <2>4
<1>7. ASSUME NEW l \in Conn, LoopBegin(l) PROVE OwnFirstInv'
  BY <1>7 DEF LoopBegin, LoopGoes, custody, Owns, SingleOwner
<1>8. QED
  BY <1>q, <1>1, <1>2, <1>3, <1>4, <1>5, <1>6, <1>7, LoopsKeptByQuiet, QuietMain, QuietStop,
     QuietHandler, QuietLoop, QuietBus
     DEF Next, MainConnects, Closing, LoopRuns

LEMMA OwnFirstInit == Init => OwnFirstInv
BY DEF Init, OwnFirstInv, ServedWasCurrent, ClosesOwnFirst, Thread

\* A goroutine that closes another's connection has not left its own open.
THEOREM OwnFirst == Spec => []ClosesOwnFirst
<1>1. Spec => []OwnFirstInv
  BY Invariance, OwnFirstInit, OwnFirstStep, PTL DEF Spec
<1>2. QED
  BY <1>1, PTL DEF OwnFirstInv
=============================================================================
