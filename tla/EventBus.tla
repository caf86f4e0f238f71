------------------------------- MODULE EventBus -------------------------------
(***************************************************************************)
(* event.Bus, for one event type.  Subscribe, the functions it returns and *)
(* Close run under the bus's write lock; Publish takes the read lock only  *)
(* to look the signal up, and emits on what it found after the unlock.     *)
(*                                                                         *)
(* Signals (github.com/maniartech/signals) are external: AddListener       *)
(* ignores a key that is present, RemoveListener removes its holder, Reset *)
(* removes all, Emit starts each listener in a goroutine of its own.       *)
(***************************************************************************)
EXTENDS Naturals

CONSTANTS
  Sub, Pub,      \* calls of Subscribe and of Publish
  Key, KeyOf,    \* the code pointer of a handler, which closures share
  NoSub,
  MaxSignal      \* bound on the signals made

ASSUME Keys == KeyOf \in [Sub -> Key] /\ NoSub \notin Sub
ASSUME BoundIsNat == MaxSignal \in Nat

Signal == 1 .. MaxSignal
NoSignal == 0

VARIABLES
  signal,    \* b.signals[eventType], NoSignal while there is none
  made,      \* signals made so far
  listeners, \* [Signal -> [Key -> the subscription that holds the key]]
  state,     \* [Sub -> "new", "active", or "gone": unsubscribed or closed]
  found,     \* [Pub -> the signal Publish found]
  pub,       \* [Pub -> "idle", "found", "done"]
  delivered  \* [Pub -> the subscriptions whose handlers were started]

vars == <<signal, made, listeners, state, found, pub, delivered>>

NoListeners == [k \in Key |-> NoSub]

Init ==
  /\ signal = NoSignal /\ made = 0
  /\ listeners = [g \in Signal |-> NoListeners]
  /\ state = [s \in Sub |-> "new"]
  /\ found = [p \in Pub |-> NoSignal]
  /\ pub = [p \in Pub |-> "idle"]
  /\ delivered = [p \in Pub |-> {}]

-----------------------------------------------------------------------------
(* signals.Signal, external *)

AddListener(ls, k, s) == IF ls[k] = NoSub THEN [ls EXCEPT ![k] = s] ELSE ls
RemoveListener(ls, k) == [ls EXCEPT ![k] = NoSub]
Listeners(g) ==
  IF g = NoSignal THEN {} ELSE {listeners[g][k] : k \in Key} \ {NoSub}

-----------------------------------------------------------------------------
\* A Subscribe that makes a new signal every time.
SubscribeAnew(s) ==
  /\ state[s] = "new"
  /\ made < MaxSignal
  /\ signal' = made + 1 /\ made' = made + 1
  /\ listeners' = [listeners EXCEPT ![signal'] = AddListener(@, KeyOf[s], s)]
  /\ state' = [state EXCEPT ![s] = "active"]
  /\ UNCHANGED <<found, pub, delivered>>

\* A Subscribe that takes the pointer of the closure it wraps the handler in,
\* which is the same for all.
SubscribeWrapper(s) ==
  /\ state[s] = "new"
  /\ IF signal # NoSignal THEN UNCHANGED <<signal, made>>
     ELSE made < MaxSignal /\ signal' = made + 1 /\ made' = made + 1
  /\ listeners' = [listeners EXCEPT ![signal'] = AddListener(@, CHOOSE k \in Key : TRUE, s)]
  /\ state' = [state EXCEPT ![s] = "active"]
  /\ UNCHANGED <<found, pub, delivered>>

Subscribe(s) ==
  /\ state[s] = "new"
  /\ IF signal # NoSignal THEN UNCHANGED <<signal, made>>
     ELSE made < MaxSignal /\ signal' = made + 1 /\ made' = made + 1
  /\ listeners' = [listeners EXCEPT ![signal'] = AddListener(@, KeyOf[s], s)]
  /\ state' = [state EXCEPT ![s] = "active"]
  /\ UNCHANGED <<found, pub, delivered>>

\* The function Subscribe returned looks the signal up again; it may be called
\* more than once, and after Close.
Unsubscribe(s) ==
  /\ state[s] # "new"
  /\ listeners' = IF signal = NoSignal THEN listeners
                  ELSE [listeners EXCEPT ![signal] = RemoveListener(@, KeyOf[s])]
  /\ state' = [state EXCEPT ![s] = "gone"]
  /\ UNCHANGED <<signal, made, found, pub, delivered>>

\* A Close that forgets to reset the signal it drops.
CloseWithoutReset ==
  /\ signal' = NoSignal
  /\ state' = [s \in Sub |-> IF state[s] = "active" THEN "gone" ELSE state[s]]
  /\ UNCHANGED <<listeners, made, found, pub, delivered>>

\* Reset every signal and start over with an empty map.
Close ==
  /\ listeners' = IF signal = NoSignal THEN listeners
                  ELSE [listeners EXCEPT ![signal] = NoListeners]
  /\ signal' = NoSignal
  /\ state' = [s \in Sub |-> IF state[s] = "active" THEN "gone" ELSE state[s]]
  /\ UNCHANGED <<made, found, pub, delivered>>

\* Publish: the look-up ...
Publish(p) ==
  /\ pub[p] # "found"
  /\ found' = [found EXCEPT ![p] = signal]
  /\ pub' = [pub EXCEPT ![p] = "found"]
  /\ UNCHANGED <<signal, made, listeners, state, delivered>>

\* ... and, after the unlock, Emit on the signal that was found, if any.
Emit(p) ==
  /\ pub[p] = "found"
  /\ delivered' = [delivered EXCEPT ![p] = Listeners(found[p])]
  /\ pub' = [pub EXCEPT ![p] = "done"]
  /\ UNCHANGED <<signal, made, listeners, state, found>>

Next ==
  \/ \E s \in Sub : Subscribe(s) \/ Unsubscribe(s)
  \/ Close
  \/ \E p \in Pub : Publish(p) \/ Emit(p)

Spec == Init /\ [][Next]_vars

-----------------------------------------------------------------------------
(* Properties *)

\* Every variable has its type, a key is held by a subscription of that key,
\* and the current signal is the last one made.
TypeOK ==
  /\ made \in 0 .. MaxSignal
  /\ signal \in {NoSignal, made}
  /\ listeners \in [Signal -> [Key -> Sub \cup {NoSub}]]
  /\ state \in [Sub -> {"new", "active", "gone"}]
  /\ found \in [Pub -> 0 .. made]
  /\ pub \in [Pub -> {"idle", "found", "done"}]
  /\ delivered \in [Pub -> SUBSET Sub]
  /\ \A g \in Signal, k \in Key : listeners[g][k] # NoSub => KeyOf[listeners[g][k]] = k

\* A handler whose unsubscribe function has been called, or whose bus has been
\* closed, is never started again: no signal, not even one an event still in
\* flight has found, has it as a listener (bus.go:44-47 and 65-74, 90-93).
ListenersAreActive ==
  \A g \in Signal : Listeners(g) \subseteq {s \in Sub : state[s] = "active"}

Abstract == INSTANCE Subscriptions WITH
  active     <- {s \in Sub : state[s] = "active"},
  registered <- Listeners(signal),
  begun      <- {p \in Pub : pub[p] = "found"},
  missed     <- {p \in Pub : pub[p] = "found" /\ (found[p] = NoSignal \/ found[p] # signal)}

\* The bus keeps the promise of Subscriptions, whatever keys handlers share.
ImplementsSubscriptions == Abstract!Spec
=============================================================================
