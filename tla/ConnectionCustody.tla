-------------------------- MODULE ConnectionCustody --------------------------
(***************************************************************************)
(* What the agent promises of the server connections it opens: one at a    *)
(* time is being established or in use, each is closed exactly once, and   *)
(* none comes back.                                                        *)
(***************************************************************************)

CONSTANT Conn
VARIABLE status

Status == {"unused", "opening", "current", "closing", "closed"}

Init == status = [c \in Conn |-> "unused"]

Moves(c, from, to) ==
  /\ status[c] = from
  /\ status' = [status EXCEPT ![c] = to]

\* A connection is opened only while none is being established or in use.
Open(c) ==
  /\ \A d \in Conn : status[d] \notin {"opening", "current"}
  /\ Moves(c, "unused", "opening")

Install(c) == Moves(c, "opening", "current")
Abandon(c) == Moves(c, "opening", "closed")
Retire(c)  == Moves(c, "current", "closing")
Close(c)   == Moves(c, "closing", "closed")

Next == \E c \in Conn :
  Open(c) \/ Install(c) \/ Abandon(c) \/ Retire(c) \/ Close(c)

Spec == Init /\ [][Next]_status
=============================================================================
