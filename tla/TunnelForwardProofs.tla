------------------------- MODULE TunnelForwardProofs -------------------------
(***************************************************************************)
(* Type correctness of TunnelForward, and that a handler leaves nothing    *)
(* behind: for any number of steps of the peers and of the copies.         *)
(***************************************************************************)
EXTENDS TunnelForward, TLAPS

\* No copy is started before the application has been reached, so that a
\* handler that could not dial has none to join.
CopiesAfterDial ==
  main \in {"none", "dial"} => \A s \in Side : copy[s] = "none"

IInv == TypeOK /\ NothingLeftBehind /\ CopiesAfterDial

LEMMA InitIInv == Init => IInv
BY DEF Init, IInv, TypeOK, NothingLeftBehind, CopiesAfterDial, Ended, Side

\* The other side is a side, and a read ends with an error or without.
LEMMA Sides == \A s \in Side : Other(s) \in Side /\ Other(s) # s /\ Other(Other(s)) = s
BY DEF Side, Other

LEMMA ReadOutcomes ==
  ASSUME TypeOK, NEW s \in Side PROVE ReadEnds(s) \subseteq {"nil", "error"}
BY DEF TypeOK, ReadEnds

LEMMA AcceptingStep ==
  ASSUME IInv, HandlerReturns \/ Accept \/ AcceptFails \/ Dial
  PROVE  IInv'
<1> USE DEF IInv, TypeOK, NothingLeftBehind, CopiesAfterDial, Ended, accepting
<1>1. CASE HandlerReturns
  BY <1>1 DEF HandlerReturns
<1>2. CASE Accept
  BY <1>2 DEF Accept
<1>3. CASE AcceptFails
  BY <1>3 DEF AcceptFails
<1>4. CASE DialLocal
  BY <1>4 DEF DialLocal
<1>5. CASE DialFails
  BY <1>5 DEF DialFails, Side
<1>6. QED
  BY <1>1, <1>2, <1>3, <1>4, <1>5 DEF Dial

LEMMA CopyStep ==
  ASSUME IInv, NEW s \in Side, Copying(s)
  PROVE  IInv'
<1> USE Sides DEF IInv, TypeOK, NothingLeftBehind, CopiesAfterDial, Ended, accepting
<1>1. CASE CopyEnds(s)
  <2>1. PICK r \in {"nil", "error"} :
          /\ copy' = [copy EXCEPT ![s] = r]
          /\ groupErr' = (groupErr \/ r = "error")
    BY <1>1, ReadOutcomes DEF CopyEnds
  <2>2. groupErr' \in BOOLEAN
    BY <2>1
  <2>3. QED
    BY <1>1, <2>1, <2>2 DEF CopyEnds, Side
<1>2. CASE CopyCannotWrite(s)
  BY <1>2 DEF CopyCannotWrite, Side
<1>3. QED
  BY <1>1, <1>2 DEF Copying

LEMMA EndStep ==
  ASSUME IInv, Forwarder \/ Cancel \/ \E s \in Side : PeerEnds(s)
  PROVE  IInv'
<1> USE DEF IInv, TypeOK, NothingLeftBehind, CopiesAfterDial, Ended, accepting
<1>1. CASE WaitOver
  BY <1>1 DEF WaitOver
<1>2. CASE Return
  BY <1>2, Sides DEF Return, Side
<1>3. CASE Cancel
  BY <1>3 DEF Cancel
<1>4. CASE \E s \in Side : PeerEnds(s)
  BY <1>4 DEF PeerEnds
<1>5. QED
  BY <1>1, <1>2, <1>3, <1>4 DEF Forwarder

LEMMA Invariance == Spec => []IInv
<1>1. IInv /\ UNCHANGED vars => IInv'
  BY DEF IInv, TypeOK, NothingLeftBehind, CopiesAfterDial, Ended, vars, accepting
<1>2. IInv /\ [Next]_vars => IInv'
  BY <1>1, AcceptingStep, CopyStep, EndStep DEF Next
<1>3. QED
  BY InitIInv, <1>2, PTL DEF Spec

\* TypeOK holds of every behaviour.
THEOREM TypeCorrect == Spec => []TypeOK
BY Invariance, PTL DEF IInv

\* A returned handler has closed the tunnel's connection and joined its copies,
\* and a copy that ended has closed its destination.
THEOREM LeavesNothing == Spec => []NothingLeftBehind
BY Invariance, PTL DEF IInv
=============================================================================
