---------------------------- MODULE MainLoopProofs ----------------------------
(***************************************************************************)
(* MainLoop: type correctness, no read error is lost, no connection is     *)
(* closed under a write, and the loop keeps LoopContract.                  *)
(***************************************************************************)
EXTENDS MainLoop, TLAPS

\* The group's context is done only for a cause: the caller, the loop itself,
\* the heartbeat or the reader.
GroupHasCause ==
  group # "none" =>
    ctx = "cancelled" \/ readCancelled \/ heartbeat = "error" \/ reader = "error"

\* The reads are cancelled when the select is left, and not before.
ReadsCancelled == readCancelled <=> main # "select"

\* What is in the channels, and then in the result, has its cause.
ResultHasCause ==
  /\ reconnectCh => request # "none"
  /\ reader = "report" \/ dataErrCh => stdout = "fault"
  /\ result = "nil" => request # "none"
  /\ result = "error" => stdout = "fault"
  /\ result = "canceled" => ctx = "cancelled"

IInv ==
  /\ TypeOK /\ ReadFaultNotLost /\ NoWriteOnClosed
  /\ GroupHasCause /\ ReadsCancelled /\ ResultHasCause

LEMMA InitIInv == Init => IInv
BY DEF Init, IInv, TypeOK, ReadFaultNotLost, NoWriteOnClosed, GroupHasCause,
       ReadsCancelled, ResultHasCause, Exited

LEMMA ReaderStep == IInv /\ Reader => IInv'
<1> SUFFICES ASSUME IInv, Reader PROVE IInv'
  OBVIOUS
<1> USE DEF IInv, TypeOK, ReadFaultNotLost, NoWriteOnClosed, GroupHasCause, ReadsCancelled,
            ResultHasCause, channels, conn, ssh, Exited, gCtxDone, ReaderReturn, GroupReturn
<1>1. CASE ReaderTop
  BY <1>1 DEF ReaderTop
<1>2. CASE ReaderRead
  <2>1. CASE gCtxDone
    <3>1. /\ reader = "read" /\ reader' = "canceled"
          /\ group' = IF group = "none" THEN "canceled" ELSE group
          /\ stdout' = IF stdout = "data" THEN "quiet" ELSE stdout
          /\ UNCHANGED <<ctx, readCancelled, channels, main, result,
                         stderrReader, heartbeat, stderr, ssh>>
      BY <1>2, <2>1 DEF ReaderRead
    <3>2. QED
      BY <2>1, <3>1
  <2>2. CASE ~gCtxDone /\ stdout = "eof"
    BY <1>2, <2>2 DEF ReaderRead
  <2>3. CASE ~gCtxDone /\ stdout = "fault"
    BY <1>2, <2>3 DEF ReaderRead
  <2>4. CASE ~gCtxDone /\ stdout = "data"
    BY <1>2, <2>4 DEF ReaderRead
  <2>5. QED
    BY <1>2, <2>1, <2>2, <2>3, <2>4 DEF ReaderRead
<1>3. CASE ReaderReport
  <2>1. /\ reader = "report" /\ reader' = "error" /\ stdout = "fault"
        /\ group' = IF group = "none" THEN "error" ELSE group
        /\ UNCHANGED <<ctx, readCancelled, request, reconnectCh, main, result,
                       stderrReader, heartbeat, conn>>
    BY <1>3 DEF ReaderReport
  <2>2. dataErrCh' \in BOOLEAN /\ (dataErrCh' \/ gCtxDone)
    BY <1>3, Zenon DEF ReaderReport
  <2>3. QED
    BY <2>1, <2>2
<1>4. QED
  BY <1>1, <1>2, <1>3 DEF Reader

LEMMA StderrStep == IInv /\ Stderr => IInv'
<1> SUFFICES ASSUME IInv, Stderr PROVE IInv'
  OBVIOUS
<1> USE DEF IInv, TypeOK, ReadFaultNotLost, NoWriteOnClosed, GroupHasCause, ReadsCancelled,
            ResultHasCause, channels, conn, ssh, Exited
<1>1. CASE StderrTop
  BY <1>1 DEF StderrTop
<1>2. CASE StderrRead
  BY <1>2 DEF StderrRead
<1>3. QED
  BY <1>1, <1>2 DEF Stderr

LEMMA HeartbeatStep == IInv /\ Heartbeat => IInv'
<1> SUFFICES ASSUME IInv, Heartbeat PROVE IInv'
  OBVIOUS
<1> USE DEF IInv, TypeOK, ReadFaultNotLost, NoWriteOnClosed, GroupHasCause, ReadsCancelled,
            ResultHasCause, channels, conn, ssh, Exited, gCtxDone, GroupReturn
<1>1. CASE HeartbeatDone
  BY <1>1 DEF HeartbeatDone
<1>2. CASE HeartbeatTick
  BY <1>2 DEF HeartbeatTick
<1>3. CASE HeartbeatLocks
  BY <1>3 DEF HeartbeatLocks
<1>4. CASE HeartbeatWrites
  BY <1>4 DEF HeartbeatWrites
<1>5. QED
  BY <1>1, <1>2, <1>3, <1>4 DEF Heartbeat

LEMMA MainStep == IInv /\ Main => IInv'
<1> SUFFICES ASSUME IInv, Main PROVE IInv'
  OBVIOUS
<1> USE DEF IInv, TypeOK, ReadFaultNotLost, NoWriteOnClosed, GroupHasCause, ReadsCancelled,
            ResultHasCause, channels, conn, ssh, goroutines, Exited, Decide
<1>1. CASE SelectCtxDone
  BY <1>1 DEF SelectCtxDone
<1>2. CASE SelectDataErr
  <2>1. dataErrCh /\ dataErrCh' \in BOOLEAN /\ ~dataErrCh'
    BY <1>2, Zenon DEF SelectDataErr
  <2>2. /\ main = "select" /\ main' = "wait" /\ result' = "error"
        /\ readCancelled' = TRUE
        /\ UNCHANGED <<ctx, group, request, reconnectCh, goroutines, conn>>
    BY <1>2 DEF SelectDataErr
  <2>3. QED
    BY <2>1, <2>2
<1>3. CASE SelectReconnect
  <2>1. reconnectCh /\ reconnectCh' \in BOOLEAN /\ ~reconnectCh'
    BY <1>3, Zenon DEF SelectReconnect
  <2>2. /\ main = "select" /\ main' = "wait" /\ result' = "nil"
        /\ readCancelled' = TRUE
        /\ UNCHANGED <<ctx, group, request, dataErrCh, goroutines, conn>>
    BY <1>3 DEF SelectReconnect
  <2>3. QED
    BY <2>1, <2>2
<1>4. CASE Return
  BY <1>4 DEF Return
<1>5. QED
  BY <1>1, <1>2, <1>3, <1>4 DEF Main

LEMMA CallerStep == IInv /\ Caller => IInv'
<1> SUFFICES ASSUME IInv, Caller PROVE IInv'
  OBVIOUS
<1> USE DEF IInv, TypeOK, ReadFaultNotLost, NoWriteOnClosed, GroupHasCause, ReadsCancelled,
            ResultHasCause, channels, conn, ssh, goroutines, Exited
<1>1. CASE RequestReconnect
  BY <1>1 DEF RequestReconnect
<1>2. CASE RequestCancel
  BY <1>2 DEF RequestCancel
<1>3. CASE ParentCancel
  BY <1>3 DEF ParentCancel
<1>4. QED
  BY <1>1, <1>2, <1>3 DEF Caller

LEMMA SSHConnStep == IInv /\ SSHConn => IInv'
<1> SUFFICES ASSUME IInv, SSHConn PROVE IInv'
  OBVIOUS
<1> USE DEF IInv, TypeOK, ReadFaultNotLost, NoWriteOnClosed, GroupHasCause, ReadsCancelled,
            ResultHasCause, channels, goroutines, outside, Exited
<1>1. CASE SenderAsks \/ SenderLocks \/ SenderWrites
  BY <1>1 DEF SenderAsks, SenderLocks, SenderWrites
<1>2. CASE CloserAsks \/ CloserCloses
  BY <1>2 DEF CloserAsks, CloserCloses
<1>3. QED
  BY <1>1, <1>2 DEF SSHConn

LEMMA NetworkStep == IInv /\ Network => IInv'
<1> SUFFICES ASSUME IInv, Network PROVE IInv'
  OBVIOUS
<1> USE DEF IInv, TypeOK, ReadFaultNotLost, NoWriteOnClosed, GroupHasCause, ReadsCancelled,
            ResultHasCause, channels, goroutines, ssh, outside, Exited
<1>1. CASE StdoutChanges \/ StderrChanges
  BY <1>1 DEF StdoutChanges, StderrChanges
<1>2. CASE LinkChanges
  BY <1>2 DEF LinkChanges
<1>3. QED
  BY <1>1, <1>2 DEF Network

LEMMA Invariance == Spec => []IInv
<1>1. IInv /\ UNCHANGED vars => IInv'
  BY DEF IInv, TypeOK, ReadFaultNotLost, NoWriteOnClosed, GroupHasCause, ReadsCancelled,
         ResultHasCause, vars, channels, goroutines, conn, ssh, Exited
<1>2. IInv /\ [Next]_vars => IInv'
  BY <1>1, ReaderStep, StderrStep, HeartbeatStep, MainStep, CallerStep, SSHConnStep,
     NetworkStep DEF Next
<1>3. QED
  BY InitIInv, <1>2, PTL DEF Spec

\* TypeOK holds of every behaviour.
THEOREM TypeCorrect == Spec => []TypeOK
BY Invariance, PTL DEF IInv

\* An unexpected read error reaches RunMainLoop's select, unless the loop is
\* being cancelled or the heartbeat failed first.
THEOREM FaultReported == Spec => []ReadFaultNotLost
BY Invariance, PTL DEF IInv

\* ssh.Conn is never closed while someone writes, and has one writer.
THEOREM WritersExclude == Spec => []NoWriteOnClosed
BY Invariance, PTL DEF IInv

-----------------------------------------------------------------------------
(* Refinement *)

\* Contract's variables.
failed  == stdout = "fault"
outcome == IF main = "returned" THEN result ELSE "none"

\* A step that lets causes arise only, or a goroutine return, is allowed.
LEMMA CausesOrRelease ==
  ASSUME ctx = "cancelled" => ctx' = "cancelled",
         request # "none" => request' # "none",
         failed => failed',
         Joined' = Joined \/ (~Joined /\ Joined' /\ UNCHANGED <<ctx, request, failed>>),
         outcome' = outcome
  PROVE  [Contract!Next]_(Contract!vars)
BY DEF Contract!Next, Contract!Cause, Contract!Release, Contract!vars, Contract!causes,
       failed, outcome

LEMMA GoroutinesRefine ==
  ASSUME IInv, Reader \/ Stderr \/ Heartbeat
  PROVE  [Contract!Next]_(Contract!vars)
<1> USE DEF IInv, TypeOK, Exited, channels, conn, ssh, Joined, failed, outcome
<1>1. CASE Reader
  BY <1>1, CausesOrRelease DEF Reader, ReaderTop, ReaderRead, ReaderReport, ReaderReturn
<1>2. CASE Stderr
  BY <1>2, CausesOrRelease DEF Stderr, StderrTop, StderrRead
<1>3. CASE Heartbeat
  BY <1>3, CausesOrRelease DEF Heartbeat, HeartbeatDone, HeartbeatTick, HeartbeatLocks,
     HeartbeatWrites
<1>4. QED
  BY <1>1, <1>2, <1>3

LEMMA SurroundingsRefine ==
  ASSUME IInv, Caller \/ SSHConn \/ Network
  PROVE  [Contract!Next]_(Contract!vars)
<1> USE DEF IInv, TypeOK, goroutines, channels, outside, conn, ssh, Joined, failed, outcome
<1>1. CASE Caller
  BY <1>1, CausesOrRelease DEF Caller, RequestReconnect, RequestCancel, ParentCancel
<1>2. CASE SSHConn
  BY <1>2, CausesOrRelease DEF SSHConn, SenderAsks, SenderLocks, SenderWrites, CloserAsks,
     CloserCloses
<1>3. CASE Network
  BY <1>3, CausesOrRelease DEF Network, StdoutChanges, StderrChanges, LinkChanges
<1>4. QED
  BY <1>1, <1>2, <1>3

LEMMA MainRefines ==
  ASSUME IInv, Main
  PROVE  [Contract!Next]_(Contract!vars)
<1> USE DEF IInv, TypeOK, goroutines, channels, conn, ssh, Joined, failed, outcome
<1>1. CASE SelectCtxDone \/ SelectDataErr \/ SelectReconnect
  BY <1>1, CausesOrRelease DEF SelectCtxDone, SelectDataErr, SelectReconnect, Decide
<1>2. CASE Return
  <2>1. Contract!Return
    BY <1>2 DEF Return, ResultHasCause, Contract!Return, Contract!Justified, Contract!causes
  <2>2. QED
    BY <2>1 DEF Contract!Next
<1>3. QED
  BY <1>1, <1>2 DEF Main

\* RunMainLoop returns once, for a cause of its result, and when none of its
\* goroutines can touch the connection any more.
THEOREM KeepsContract == Spec => ImplementsContract
<1>1. Init => Contract!Init
  BY DEF Init, Contract!Init, Joined, Exited
<1>2. IInv /\ [Next]_vars => [Contract!Next]_(Contract!vars)
  <2>1. UNCHANGED vars => UNCHANGED Contract!vars
    BY DEF vars, Contract!vars, Contract!causes, Joined, goroutines, channels, conn
  <2>2. QED
    BY <2>1, GoroutinesRefine, SurroundingsRefine, MainRefines DEF Next
<1>3. QED
  BY <1>1, <1>2, Invariance, PTL DEF Spec, ImplementsContract, Contract!Spec
=============================================================================
