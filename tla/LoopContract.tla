---------------------------- MODULE LoopContract ----------------------------
(***************************************************************************)
(* What a connection's goroutine may assume of protocol.RunMainLoop: it    *)
(* returns at most once, with a cause for what it returns, and leaves no   *)
(* goroutine behind that still uses the connection.                        *)
(***************************************************************************)

VARIABLES
  cancelled, \* the context given to the loop has been cancelled
  requested, \* a reconnect has been requested of this loop
  failed,    \* reading the connection failed with an unexpected error
  inUse,     \* some goroutine of the loop may still use the connection
  outcome    \* "none" until the loop returns

causes == <<cancelled, requested, failed>>
vars   == <<causes, inUse, outcome>>

Init ==
  /\ cancelled = FALSE /\ requested = FALSE /\ failed = FALSE
  /\ inUse = TRUE /\ outcome = "none"

\* Causes arise at any time, and never go away.
Cause ==
  /\ cancelled => cancelled'
  /\ requested => requested'
  /\ failed    => failed'
  /\ UNCHANGED <<inUse, outcome>>

\* The last goroutine lets go of the connection; it is not taken up again.
Release ==
  /\ inUse
  /\ inUse' = FALSE
  /\ UNCHANGED <<causes, outcome>>

\* What each result of the loop presupposes.
Justified(r) ==
  \/ r = "canceled" /\ cancelled
  \/ r = "nil" /\ requested
  \/ r = "error" /\ failed

Return ==
  /\ outcome = "none"
  /\ ~inUse
  /\ outcome' \in {"nil", "canceled", "error"}
  /\ Justified(outcome')
  /\ UNCHANGED <<causes, inUse>>

Next == Cause \/ Release \/ Return

Spec == Init /\ [][Next]_vars
=============================================================================
