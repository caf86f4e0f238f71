---------------------------- MODULE TunnelForward ----------------------------
(***************************************************************************)
(* ProxyService.handleTunnelRequests once it listens, its accept loop, and *)
(* handleTunnelConnection: one connection accepted on the tunnel,          *)
(* forwarded to the local application by two goroutines of an errgroup,    *)
(* each an io.Copy that closes its destination when it ends.               *)
(***************************************************************************)

VARIABLES
  ctx,       \* the tunnel handler's context has been cancelled
  listening, \* handleTunnelRequests has not returned: its listener is open
  acceptor,  \* the accept loop runs
  groupErr,  \* a goroutine of the group has returned an error
  stream,    \* [Side -> what a read finds: "open" (blocks), "eof" or "reset"]
  closed,    \* [Side -> this end of the connection has been closed]
  copy,      \* [Side -> the io.Copy reading it: "none", "run", "nil", "error"]
  deadline,  \* both connections have been given a deadline
  main       \* "none", "dial", "wait" (for gCtx), "join" (g.Wait), "returned"

accepting == <<listening, acceptor>>
vars == <<ctx, accepting, groupErr, stream, closed, copy, deadline, main>>

Side == {"tunnel", "local"}
Other(s) == IF s = "tunnel" THEN "local" ELSE "tunnel"

Init ==
  /\ ctx = FALSE /\ listening = TRUE /\ acceptor = TRUE /\ groupErr = FALSE
  /\ stream = [s \in Side |-> "open"]
  /\ closed = [s \in Side |-> FALSE]
  /\ copy = [s \in Side |-> "none"]
  /\ deadline = FALSE /\ main = "none"

-----------------------------------------------------------------------------
(* handleTunnelRequests and its accept loop                                 *)

\* ctx is done, or the health check fails: the listener is closed.
HandlerReturns ==
  /\ listening
  /\ listening' = FALSE
  /\ UNCHANGED <<ctx, acceptor, groupErr, stream, closed, copy, deadline, main>>

\* Accept a connection; its handler starts in a goroutine of its own.
Accept ==
  /\ acceptor /\ listening
  /\ main = "none"
  /\ main' = "dial"
  /\ UNCHANGED <<ctx, accepting, groupErr, stream, closed, copy, deadline>>

\* Accept fails, as it must once the listener is closed, and the loop returns
\* whether ctx is done or not.
AcceptFails ==
  /\ acceptor
  /\ acceptor' = FALSE
  /\ UNCHANGED <<ctx, listening, groupErr, stream, closed, copy, deadline, main>>

\* A handler that limits the time of the forwarding, too.
DialLocalWithDeadline ==
  /\ main = "dial"
  /\ main' = "wait"
  /\ copy' = [s \in Side |-> "run"]
  /\ deadline' = TRUE
  /\ UNCHANGED <<ctx, accepting, groupErr, stream, closed>>

\* net.Dial to the application succeeds, and the two copies start ...
DialLocal ==
  /\ main = "dial"
  /\ main' = "wait"
  /\ copy' = [s \in Side |-> "run"]
  /\ UNCHANGED <<ctx, accepting, groupErr, stream, closed, deadline>>

\* ... or fails, and the tunnel's connection is closed.
DialFails ==
  /\ main = "dial"
  /\ main' = "returned"
  /\ closed' = [closed EXCEPT !["tunnel"] = TRUE]
  /\ UNCHANGED <<ctx, accepting, groupErr, stream, copy, deadline>>

-----------------------------------------------------------------------------
(* The two copies and the wait for them                                     *)

\* The outcomes a read of side s can have for io.Copy, none while it blocks.
\* A connection closed at this end fails to be read; the tunnel's (netstack)
\* may report the end of the stream instead.
ReadEnds(s) ==
  (IF closed[s] THEN {"error"} \cup (IF s = "tunnel" THEN {"nil"} ELSE {}) ELSE {})
  \cup (IF stream[s] = "eof" /\ ~closed[s] THEN {"nil"} ELSE {})
  \cup (IF stream[s] = "reset" THEN {"error"} ELSE {})
  \cup (IF deadline THEN {"error"} ELSE {})

\* A goroutine that leaves its destination open when it ends.
CopyEndsOpen(s) ==
  /\ copy[s] = "run"
  /\ \E r \in ReadEnds(s) :
       /\ copy' = [copy EXCEPT ![s] = r]
       /\ groupErr' = (groupErr \/ r = "error")
  /\ UNCHANGED <<ctx, accepting, stream, closed, deadline, main>>

\* io.Copy returns, and the deferred Close of its destination runs.
CopyEnds(s) ==
  /\ copy[s] = "run"
  /\ \E r \in ReadEnds(s) :
       /\ copy' = [copy EXCEPT ![s] = r]
       /\ groupErr' = (groupErr \/ r = "error")
  /\ closed' = [closed EXCEPT ![Other(s)] = TRUE]
  /\ UNCHANGED <<ctx, accepting, stream, deadline, main>>

\* Data is being copied and the destination cannot be written any more.
CopyCannotWrite(s) ==
  /\ copy[s] = "run"
  /\ closed[Other(s)] \/ stream[Other(s)] = "reset"
  /\ copy' = [copy EXCEPT ![s] = "error"]
  /\ groupErr' = TRUE
  /\ closed' = [closed EXCEPT ![Other(s)] = TRUE]
  /\ UNCHANGED <<ctx, accepting, stream, deadline, main>>

\* A handler that goes on to g.Wait without the deadlines.
WaitOverNoDeadline ==
  /\ main = "wait"
  /\ ctx \/ groupErr
  /\ main' = "join"
  /\ UNCHANGED <<ctx, accepting, groupErr, stream, closed, copy, deadline>>

\* A handler that watches the caller's context instead of the group's.
WaitOverIgnoresErrors ==
  /\ main = "wait"
  /\ ctx
  /\ main' = "join"
  /\ deadline' = TRUE
  /\ UNCHANGED <<ctx, accepting, groupErr, stream, closed, copy>>

\* <-gCtx.Done(), then SetDeadline on both: gCtx is done when ctx is or when a
\* goroutine returned an error, not when both returned nil.
WaitOver ==
  /\ main = "wait"
  /\ ctx \/ groupErr
  /\ main' = "join"
  /\ deadline' = TRUE
  /\ UNCHANGED <<ctx, accepting, groupErr, stream, closed, copy>>

\* g.Wait() returns, and the deferred Close of both connections runs.
Return ==
  /\ main = "join"
  /\ \A s \in Side : copy[s] # "run"
  /\ main' = "returned"
  /\ closed' = [s \in Side |-> TRUE]
  /\ UNCHANGED <<ctx, accepting, groupErr, stream, copy, deadline>>

\* The remote peer or the application ends its stream, or resets it.
PeerEnds(s) ==
  /\ stream[s] # "reset"
  /\ main # "none" /\ (s = "local" => copy[s] # "none")
  /\ stream' \in {[stream EXCEPT ![s] = e] : e \in {"eof", "reset"}}
  /\ UNCHANGED <<ctx, accepting, groupErr, closed, copy, deadline, main>>

\* handleTunnelRequests' context is cancelled.
Cancel ==
  /\ ~ctx
  /\ ctx' = TRUE
  /\ UNCHANGED <<accepting, groupErr, stream, closed, copy, deadline, main>>

Copying(s) == CopyEnds(s) \/ CopyCannotWrite(s)
Dial       == DialLocal \/ DialFails
Forwarder  == WaitOver \/ Return

Next ==
  \/ HandlerReturns \/ Accept \/ AcceptFails
  \/ Dial \/ Forwarder
  \/ Cancel
  \/ \E s \in Side : Copying(s) \/ PeerEnds(s)

Spec == Init /\ [][Next]_vars

\* Goroutines are scheduled, and a dial to the local application succeeds or
\* times out.  Nothing is assumed of the peers or of the caller.
Fairness ==
  /\ WF_vars(Dial)
  /\ WF_vars(Forwarder)
  /\ \A s \in Side : WF_vars(CopyEnds(s))

FairSpec == Spec /\ Fairness

-----------------------------------------------------------------------------
(* Properties *)

\* Every variable has its type, and connections that are being forwarded have
\* no deadline: only the end of the wait gives them one (proxy.go:444-447).
TypeOK ==
  /\ ctx \in BOOLEAN /\ listening \in BOOLEAN /\ acceptor \in BOOLEAN
  /\ groupErr \in BOOLEAN /\ deadline \in BOOLEAN
  /\ stream \in [Side -> {"open", "eof", "reset"}]
  /\ closed \in [Side -> BOOLEAN]
  /\ copy \in [Side -> {"none", "run", "nil", "error"}]
  /\ main \in {"none", "dial", "wait", "join", "returned"}
  /\ deadline => main \in {"join", "returned"}

Ended(s) == copy[s] \in {"nil", "error"}

\* A returned handler has closed the tunnel's connection and left no goroutine
\* behind, and a copy that ended has passed the end of its stream on to the
\* other side (proxy.go:403, 432 and 439).  In particular, when both copies
\* have ended without an error, and the handler waits for a context that they
\* do not cancel (proxy.go:444), it holds no open connection.
NothingLeftBehind ==
  /\ main = "returned" => closed["tunnel"] /\ \A s \in Side : copy[s] # "run"
  /\ \A s \in Side : Ended(s) => closed[Other(s)]

\* Cancelling the tunnel ends the handler of an accepted connection, even with
\* both peers silent.
CancelEndsForwarding == (ctx /\ main # "none") ~> main = "returned"

\* A failed read or write of either direction ends the handler.
ErrorEndsForwarding == groupErr ~> main = "returned"
=============================================================================
