---------------------------- MODULE Subscriptions ----------------------------
(***************************************************************************)
(* What the event bus promises for one event type.  A subscription that is *)
(* alone with its key is registered until an unsubscribe function of that  *)
(* key is called or the bus is closed; an event reaches exactly the        *)
(* subscriptions registered when it is emitted, unless nobody was when it  *)
(* was published, or the bus has been closed since.                        *)
(***************************************************************************)

CONSTANTS Sub, Pub, KeyOf

VARIABLES
  active,     \* subscribed, not unsubscribed, and not closed
  registered, \* those of them that events reach
  begun,      \* events published and not yet emitted
  missed,     \* those of them that will reach nobody
  delivered   \* [Pub -> the subscriptions it reached]

vars == <<active, registered, begun, missed, delivered>>

SameKey(s) == {t \in Sub : KeyOf[t] = KeyOf[s]}

Init ==
  /\ active = {} /\ registered = {}
  /\ begun = {} /\ missed = {}
  /\ delivered = [p \in Pub |-> {}]

Subscribe(s) ==
  /\ active' = active \cup {s}
  /\ registered' \in {registered, registered \cup {s}}
  /\ SameKey(s) \cap active = {} => s \in registered'
  /\ UNCHANGED <<begun, missed, delivered>>

\* Whoever holds the key is removed, be it another.
Unsubscribe(s) ==
  /\ active' = active \ {s}
  /\ registered' = registered \ SameKey(s)
  /\ UNCHANGED <<begun, missed, delivered>>

Close ==
  /\ active' = {} /\ registered' = {}
  /\ missed' = begun
  /\ UNCHANGED <<begun, delivered>>

Publish(p) ==
  /\ p \notin begun
  /\ begun' = begun \cup {p}
  /\ missed' \in {missed, missed \cup {p}}
  /\ registered # {} => missed' = missed
  /\ UNCHANGED <<active, registered, delivered>>

Emit(p) ==
  /\ p \in begun
  /\ begun' = begun \ {p} /\ missed' = missed \ {p}
  /\ delivered' = [delivered EXCEPT ![p] = IF p \in missed THEN {} ELSE registered]
  /\ UNCHANGED <<active, registered>>

Next ==
  \/ \E s \in Sub : Subscribe(s) \/ Unsubscribe(s)
  \/ Close
  \/ \E p \in Pub : Publish(p) \/ Emit(p)

Spec == Init /\ [][Next]_vars
=============================================================================
