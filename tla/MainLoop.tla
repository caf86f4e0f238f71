------------------------------ MODULE MainLoop ------------------------------
(***************************************************************************)
(* protocol.RunMainLoop: the goroutine that owns a live connection, and    *)
(* the three goroutines of its errgroup: readData on stdout, readStderr on *)
(* stderr, and RunHeartbeat.  The caller is runProtocolMode; the reconnect *)
(* handler it subscribes puts a token in reconnectCh and cancels the       *)
(* context RunMainLoop was given.                                          *)
(*                                                                         *)
(* A goroutine's variable is its program counter; once it has returned it  *)
(* is what it returned: "nil", "canceled" (ctx.Err()) or "error".  Time is *)
(* abstract: the heartbeat ticker may fire whenever its select is waiting. *)
(*                                                                         *)
(* ssh.Conn is below: SendPayload holds the connection's mutex while it    *)
(* writes, which may block, and Close waits for the same mutex.  Besides   *)
(* the heartbeat, a sender (registration, handleConfigEvent) and a closer  *)
(* (closeConnection) use it; they run outside of the loop.                 *)
(***************************************************************************)

VARIABLES
  ctx,           \* the context RunMainLoop is given: "live" or "cancelled"
  readCancelled, \* cancelRead() has been called
  group,         \* the first error of the errgroup: "none", "canceled", "error"
  request,       \* the reconnect handler: "none", "sent" (token put), "cancelled"
  reconnectCh,   \* a token is in the channel (capacity 1)
  dataErrCh,     \* an error is in the channel (capacity 1)
  main,          \* RunMainLoop: "select", "wait" (in g.Wait) or "returned"
  result,        \* what RunMainLoop returns, "none" while it is undecided
  reader, stderrReader, heartbeat,
  stdout, stderr, \* what the next Read would do: "quiet" blocks
  link,          \* stdin: "up", "stuck" (a Write blocks), "down", "closed" (nil)
  mu,            \* who holds the connection's mutex, "free" if nobody does
  sender,        \* another SendPayload: "idle", "lock", "write"
  closer         \* a Close: "idle", "lock", "done"

goroutines == <<reader, stderrReader, heartbeat>>
channels   == <<request, reconnectCh, dataErrCh>>
ssh        == <<link, mu, sender, closer>>
conn       == <<stdout, stderr, ssh>>
vars == <<ctx, readCancelled, group, channels, main, result, goroutines, conn>>

Exited == {"nil", "canceled", "error"}

\* The context the group's goroutines see: cancelled by the caller, by
\* cancelRead, or by the first error one of them returned.
gCtxDone == ctx = "cancelled" \/ readCancelled \/ group # "none"

\* errgroup.Group.Go: the first non-nil error is kept and cancels gCtx.
GroupReturn(kind) ==
  group' = IF group = "none" /\ kind # "nil" THEN kind ELSE group

Init ==
  /\ ctx = "live" /\ readCancelled = FALSE /\ group = "none"
  /\ request = "none" /\ reconnectCh = FALSE /\ dataErrCh = FALSE
  /\ main = "select" /\ result = "none"
  /\ reader = "top" /\ stderrReader = "top" /\ heartbeat = "wait"
  /\ stdout = "quiet" /\ stderr = "quiet"
  /\ link = "up" /\ mu = "free" /\ sender = "idle" /\ closer = "idle"

-----------------------------------------------------------------------------
(* readData *)

ReaderReturn(kind) ==
  /\ reader' = kind
  /\ GroupReturn(kind)

\* Top of the loop: leave when the group's context is done, else enter Read.
ReaderTop ==
  /\ reader = "top"
  /\ IF gCtxDone THEN ReaderReturn("canceled")
                 ELSE reader' = "read" /\ UNCHANGED group
  /\ UNCHANGED <<ctx, readCancelled, channels, main, result,
                 stderrReader, heartbeat, conn>>

\* Read returned.  A done context wins over whatever was read; an expected
\* error (io.EOF, a closed pipe) ends the reader without telling anyone; any
\* other error is to be reported; data is dropped.
ReaderRead ==
  /\ reader = "read"
  /\ stdout # "quiet"
  /\ stdout' = IF stdout = "data" THEN "quiet" ELSE stdout
  /\ CASE gCtxDone                       -> ReaderReturn("canceled")
       [] ~gCtxDone /\ stdout = "eof"    -> ReaderReturn("nil")
       [] ~gCtxDone /\ stdout = "fault"  -> reader' = "report" /\ UNCHANGED group
       [] ~gCtxDone /\ stdout = "data"   -> reader' = "top" /\ UNCHANGED group
  /\ UNCHANGED <<ctx, readCancelled, channels, main, result,
                 stderrReader, heartbeat, stderr, ssh>>

\* A select that drops the error whenever it is not taken at once: the
\* buffered send is replaced by giving up.
ReaderReportDropped ==
  /\ reader = "report"
  /\ ReaderReturn("error")
  /\ UNCHANGED <<ctx, readCancelled, channels, main, result,
                 stderrReader, heartbeat, conn>>

\* select { errorCh <- err; <-ctx.Done() }: either ready case may be taken.
ReaderReport ==
  /\ reader = "report"
  /\ \/ ~dataErrCh /\ dataErrCh' = TRUE
     \/ gCtxDone /\ UNCHANGED dataErrCh
  /\ ReaderReturn("error")
  /\ UNCHANGED <<ctx, readCancelled, request, reconnectCh, main, result,
                 stderrReader, heartbeat, conn>>

-----------------------------------------------------------------------------
(* readStderr: always returns nil to the group *)

StderrTop ==
  /\ stderrReader = "top"
  /\ stderrReader' = IF gCtxDone THEN "nil" ELSE "read"
  /\ UNCHANGED <<ctx, readCancelled, group, channels, main, result,
                 reader, heartbeat, conn>>

StderrRead ==
  /\ stderrReader = "read"
  /\ stderr # "quiet"
  /\ stderr' = IF stderr = "data" THEN "quiet" ELSE stderr
  /\ stderrReader' = IF stderr = "data" THEN "top" ELSE "nil"
  /\ UNCHANGED <<ctx, readCancelled, group, channels, main, result,
                 reader, heartbeat, stdout, ssh>>

-----------------------------------------------------------------------------
(* RunHeartbeat *)

\* A heartbeat that only watches its ticker.
HeartbeatIgnoresDone == FALSE /\ UNCHANGED vars

\* A heartbeat that takes the end of its context for a normal end.
HeartbeatDoneQuietly ==
  /\ heartbeat = "wait"
  /\ gCtxDone
  /\ heartbeat' = "nil"
  /\ GroupReturn("nil")
  /\ UNCHANGED <<ctx, readCancelled, channels, main, result,
                 reader, stderrReader, conn>>

HeartbeatDone ==
  /\ heartbeat = "wait"
  /\ gCtxDone
  /\ heartbeat' = "canceled"
  /\ GroupReturn("canceled")
  /\ UNCHANGED <<ctx, readCancelled, channels, main, result,
                 reader, stderrReader, conn>>

HeartbeatTick ==
  /\ heartbeat = "wait"
  /\ heartbeat' = "lock"
  /\ UNCHANGED <<ctx, readCancelled, group, channels, main, result,
                 reader, stderrReader, conn>>

\* SendPayload locks the connection; on a closed one it fails at once.
HeartbeatLocks ==
  /\ heartbeat = "lock"
  /\ mu = "free"
  /\ IF link = "closed" THEN heartbeat' = "error" /\ GroupReturn("error") /\ UNCHANGED mu
     ELSE heartbeat' = "write" /\ mu' = "heartbeat" /\ UNCHANGED group
  /\ UNCHANGED <<ctx, readCancelled, channels, main, result,
                 reader, stderrReader, stdout, stderr, link, sender, closer>>

\* The Write returns, and the mutex is released.
HeartbeatWrites ==
  /\ heartbeat = "write"
  /\ link # "stuck"
  /\ mu' = "free"
  /\ IF link = "up"
       THEN heartbeat' = "wait" /\ UNCHANGED group
       ELSE heartbeat' = "error" /\ GroupReturn("error")
  /\ UNCHANGED <<ctx, readCancelled, channels, main, result,
                 reader, stderrReader, stdout, stderr, link, sender, closer>>

-----------------------------------------------------------------------------
(* RunMainLoop itself.  Its select watches ctx, not the group's context.   *)

Decide(r) ==
  /\ main = "select"
  /\ main' = "wait"
  /\ result' = r
  /\ readCancelled' = TRUE
  /\ UNCHANGED <<ctx, group, request, goroutines, conn>>

SelectCtxDone ==
  /\ ctx = "cancelled"
  /\ Decide("canceled")
  /\ UNCHANGED <<reconnectCh, dataErrCh>>

SelectDataErr ==
  /\ dataErrCh
  /\ dataErrCh' = FALSE
  /\ Decide("error")
  /\ UNCHANGED reconnectCh

SelectReconnect ==
  /\ reconnectCh
  /\ reconnectCh' = FALSE
  /\ Decide("nil")
  /\ UNCHANGED dataErrCh

\* RunMainLoop returning without waiting for its goroutines.
ReturnUnjoined ==
  /\ main = "wait"
  /\ main' = "returned"
  /\ UNCHANGED <<ctx, readCancelled, group, channels, result, goroutines, conn>>

\* g.Wait() has joined all three goroutines; its error is only logged.
Return ==
  /\ main = "wait"
  /\ {reader, stderrReader, heartbeat} \subseteq Exited
  /\ main' = "returned"
  /\ UNCHANGED <<ctx, readCancelled, group, channels, result, goroutines, conn>>

-----------------------------------------------------------------------------
(* The caller: the closure of handleReconnectEvent runs, in a goroutine of *)
(* the event bus, while runProtocolMode is subscribed; the cancellation of *)
(* the application's context comes from outside.                           *)

\* The non-blocking send: a full channel drops the token.
RequestReconnect ==
  /\ main # "returned"
  /\ request # "sent"
  /\ request' = "sent"
  /\ reconnectCh' = TRUE
  /\ UNCHANGED <<ctx, readCancelled, group, dataErrCh, main, result,
                 goroutines, conn>>

\* ... then cancelFunc(), the cancellation of runCtx.
RequestCancel ==
  /\ request = "sent"
  /\ request' = "cancelled"
  /\ ctx' = "cancelled"
  /\ UNCHANGED <<readCancelled, group, reconnectCh, dataErrCh, main, result,
                 goroutines, conn>>

ParentCancel ==
  /\ ctx = "live"
  /\ ctx' = "cancelled"
  /\ UNCHANGED <<readCancelled, group, channels, main, result, goroutines, conn>>

-----------------------------------------------------------------------------
(* ssh.Conn, used from elsewhere *)

outside == <<ctx, readCancelled, group, channels, main, result, goroutines>>

\* SendPayload is called, locks the connection, unless it is closed ...
SenderAsks ==
  /\ sender = "idle"
  /\ sender' = "lock"
  /\ UNCHANGED <<outside, stdout, stderr, link, mu, closer>>

SenderLocks ==
  /\ sender = "lock"
  /\ mu = "free"
  /\ IF link = "closed" THEN sender' = "idle" /\ UNCHANGED mu
     ELSE sender' = "write" /\ mu' = "sender"
  /\ UNCHANGED <<outside, stdout, stderr, link, closer>>

\* A write that returns early when marshalling fails, without the unlock.
SenderKeepsLock ==
  /\ sender = "write"
  /\ link # "stuck"
  /\ sender' = "idle"
  /\ UNCHANGED <<outside, stdout, stderr, link, mu, closer>>

\* ... and writes.
SenderWrites ==
  /\ sender = "write"
  /\ link # "stuck"
  /\ sender' = "idle"
  /\ mu' = "free"
  /\ UNCHANGED <<outside, stdout, stderr, link, closer>>

\* closeConnection has taken the connection and calls Close.
CloserAsks ==
  /\ closer = "idle"
  /\ closer' = "lock"
  /\ UNCHANGED <<outside, stdout, stderr, link, mu, sender>>

\* A Close that does not wait for the mutex.
CloserClosesUnlocked ==
  /\ closer = "lock"
  /\ closer' = "done"
  /\ link' = "closed"
  /\ stdout' = IF stdout = "fault" THEN "fault" ELSE "eof"
  /\ stderr' = "eof"
  /\ UNCHANGED <<outside, mu, sender>>

\* Close: stdin, session and client are closed and forgotten; reads return
\* io.EOF from now on.
CloserCloses ==
  /\ closer = "lock"
  /\ mu = "free"
  /\ closer' = "done"
  /\ link' = "closed"
  /\ stdout' = IF stdout = "fault" THEN "fault" ELSE "eof"
  /\ stderr' = "eof"
  /\ UNCHANGED <<outside, mu, sender>>

-----------------------------------------------------------------------------
(* The peer and the network *)

StdoutChanges ==
  /\ stdout = "quiet"
  /\ stdout' \in {"data", "eof", "fault"}
  /\ UNCHANGED <<ctx, readCancelled, group, channels, main, result,
                 goroutines, stderr, ssh>>

StderrChanges ==
  /\ stderr = "quiet"
  /\ stderr' \in {"data", "eof"}
  /\ UNCHANGED <<ctx, readCancelled, group, channels, main, result,
                 goroutines, stdout, ssh>>

\* The peer's window fills up or empties again, or the link is lost, which lets
\* go of a blocked Write.
LinkChanges ==
  /\ link \in {"up", "stuck"}
  /\ link' \in {"up", "stuck", "down"} \ {link}
  /\ UNCHANGED <<outside, stdout, stderr, mu, sender, closer>>

-----------------------------------------------------------------------------
Reader    == ReaderTop \/ ReaderRead \/ ReaderReport
Stderr    == StderrTop \/ StderrRead
Heartbeat == HeartbeatDone \/ HeartbeatTick \/ HeartbeatLocks \/ HeartbeatWrites
Main      == SelectCtxDone \/ SelectDataErr \/ SelectReconnect \/ Return
Caller    == RequestReconnect \/ RequestCancel \/ ParentCancel
SSHConn   == SenderAsks \/ SenderLocks \/ SenderWrites \/ CloserAsks \/ CloserCloses
Network   == StdoutChanges \/ StderrChanges \/ LinkChanges

Next == Reader \/ Stderr \/ Heartbeat \/ Main \/ Caller \/ SSHConn \/ Network

Spec == Init /\ [][Next]_vars

\* Goroutines are scheduled, a reconnect handler that started finishes, the
\* heartbeat's ticker fires and its select eventually takes a done context.
\* Go's mutexes let nobody wait for ever while they are released.  Nothing is
\* assumed of the peer, of the caller or of the network.
Fairness ==
  /\ WF_vars(Reader) /\ WF_vars(Stderr) /\ WF_vars(Main)
  /\ WF_vars(HeartbeatTick) /\ SF_vars(HeartbeatDone)
  /\ SF_vars(HeartbeatLocks) /\ WF_vars(HeartbeatWrites)
  /\ WF_vars(SenderWrites) /\ SF_vars(CloserCloses)
  /\ WF_vars(RequestCancel)

FairSpec == Spec /\ Fairness

-----------------------------------------------------------------------------
(* Properties *)

\* Every variable has its type.  A goroutine returns only what its callers
\* count on: readStderr nil, so that it never ends the group, and RunHeartbeat
\* always an error, so that its end always does (loop.go:26-34,
\* common.go:12-50).  RunMainLoop has a result exactly when it has left its
\* select (loop.go:36-48).
TypeOK ==
  /\ ctx \in {"live", "cancelled"}
  /\ readCancelled \in BOOLEAN /\ reconnectCh \in BOOLEAN /\ dataErrCh \in BOOLEAN
  /\ group \in {"none", "canceled", "error"}
  /\ request \in {"none", "sent", "cancelled"}
  /\ main \in {"select", "wait", "returned"}
  /\ result \in {"none", "nil", "canceled", "error"}
  /\ reader \in {"top", "read", "report"} \cup Exited
  /\ stderrReader \in {"top", "read", "nil"}
  /\ heartbeat \in {"wait", "lock", "write", "canceled", "error"}
  /\ stdout \in {"quiet", "data", "eof", "fault"}
  /\ stderr \in {"quiet", "data", "eof"}
  /\ link \in {"up", "stuck", "down", "closed"}
  /\ mu \in {"free", "heartbeat", "sender"}
  /\ sender \in {"idle", "lock", "write"} /\ closer \in {"idle", "lock", "done"}
  /\ (result = "none") = (main = "select")

\* An unexpected read error is not lost: while RunMainLoop is still in its
\* select after the reader gave up with an error, either the error is in
\* dataErrCh, or the loop is being cancelled, or the heartbeat failed first and
\* cancelled the group under the reader (loop.go:80-85).
ReadFaultNotLost ==
  (reader = "error" /\ main = "select")
    => dataErrCh \/ ctx = "cancelled" \/ heartbeat = "error"

Joined == {reader, stderrReader, heartbeat} \subseteq Exited

\* What the connection service relies on: see LoopContract.  The abstract
\* connection is in use as long as a goroutine of the group has not returned.
Contract == INSTANCE LoopContract WITH
  cancelled <- ctx = "cancelled",
  requested <- request # "none",
  failed    <- stdout = "fault",
  inUse     <- ~Joined,
  outcome   <- IF main = "returned" THEN result ELSE "none"

\* RunMainLoop implements the contract: it returns only with a cause for its
\* result and only when none of its goroutines can touch the connection again.
ImplementsContract == Contract!Spec

StreamsEnded == stdout \in {"eof", "fault"} /\ stderr = "eof"

\* A connection is not closed under a Write: once stdin is nil nobody is
\* writing, and only the writer that holds the mutex writes (ssh.go:153-212).
NoWriteOnClosed ==
  /\ link = "closed" => mu = "free"
  /\ (heartbeat = "write") = (mu = "heartbeat")
  /\ (sender = "write") = (mu = "sender")

\* From some time on, no Write is blocked for good.
WritesPass == <>[](link # "stuck")

\* Once the loop's context is cancelled and the connection's streams have
\* ended, RunMainLoop returns, unless a Write is blocked for ever: no goroutine
\* of the group is left waiting, for a read or for the mutex.
CancelEndsLoop ==
  WritesPass => ((ctx = "cancelled" /\ StreamsEnded) ~> main = "returned")

\* A read that fails unexpectedly takes RunMainLoop out of its select, unless
\* the heartbeat failed first.  It does not make it return: g.Wait joins
\* readStderr, which may be blocked in a Read.  Once stderr has ended as well it
\* returns, unless a Write is blocked for ever (loop.go:40-50,80-85,
\* common.go:21).
FaultEndsLoop ==
  /\ reader = "report" ~> (main # "select" \/ heartbeat = "error")
  /\ WritesPass => ((reader = "report" /\ stderr = "eof")
                      ~> (main = "returned" \/ heartbeat = "error"))

\* A Close ends, whoever else sends, unless a Write is blocked for ever.
CloseEnds == WritesPass => (closer = "lock" ~> closer = "done")

\* README.md, "Connection health monitoring: Actively checks connection
\* health": a connection whose peer is gone, so that both streams are at their
\* end and heartbeats cannot be written, makes the loop return.
DeadPeerEndsLoop ==
  (stdout = "eof" /\ stderr = "eof" /\ link = "down") ~> main = "returned"
=============================================================================
