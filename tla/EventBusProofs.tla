---------------------------- MODULE EventBusProofs ----------------------------
(***************************************************************************)
(* For every assignment of keys to handlers, every number of subscriptions *)
(* and publications: the bus delivers to active handlers only, and keeps   *)
(* the promise of Subscriptions.                                           *)
(***************************************************************************)
EXTENDS EventBus, TLAPS

active == {s \in Sub : state[s] = "active"}
begun  == {p \in Pub : pub[p] = "found"}
missed == {p \in Pub : pub[p] = "found" /\ (found[p] = NoSignal \/ found[p] # signal)}

\* A signal that is not in the map has no listener: it has been reset, or is
\* still to be made.
OthersEmpty ==
  \A g \in Signal, k \in Key : g # signal => listeners[g][k] = NoSub

\* ListenersAreActive, key by key.
HoldersActive ==
  \A g \in Signal, k \in Key :
    listeners[g][k] # NoSub => state[listeners[g][k]] = "active"

IInv == TypeOK /\ HoldersActive /\ OthersEmpty

\* A subscription is a listener when it holds its own key.
LEMMA HoldsItsKey ==
  ASSUME TypeOK, NEW g \in Signal, NEW s \in Sub
  PROVE  s \in Listeners(g) <=> listeners[g][KeyOf[s]] = s
BY Keys, BoundIsNat DEF TypeOK, Listeners, Signal, NoSignal

LEMMA ListenersAreSubs ==
  ASSUME TypeOK, NEW g \in Signal \cup {NoSignal}
  PROVE  Listeners(g) \subseteq Sub
BY DEF TypeOK, Listeners

LEMMA InitIInv == Init => IInv
<1> SUFFICES ASSUME Init PROVE IInv
  OBVIOUS
<1>1. TypeOK
  BY BoundIsNat DEF Init, TypeOK, NoListeners, NoSignal
<1>2. HoldersActive /\ OthersEmpty
  BY DEF Init, HoldersActive, OthersEmpty, NoListeners
<1>3. QED
  BY <1>1, <1>2 DEF IInv

\* What a Subscribe does to the signals: the one of the map, new or not, gets
\* the subscription under its key if the key is free.
LEMMA SubscribeSignals ==
  ASSUME IInv, NEW s \in Sub, Subscribe(s)
  PROVE  /\ TypeOK'
         /\ signal' \in Signal
         /\ signal # NoSignal => signal' = signal
         /\ \A p \in Pub : signal = NoSignal => found[p] # signal'
         /\ \A g \in Signal, k \in Key : g # signal' => listeners'[g][k] = NoSub
         /\ \A k \in Key : k # KeyOf[s] => listeners'[signal'][k] = listeners[signal'][k]
         /\ listeners[signal'][KeyOf[s]] = NoSub => listeners'[signal'][KeyOf[s]] = s
         /\ listeners[signal'][KeyOf[s]] # NoSub
              => listeners'[signal'][KeyOf[s]] = listeners[signal'][KeyOf[s]]
<1>k. KeyOf[s] \in Key /\ s # NoSub
  BY Keys
<1>1. /\ signal' \in Signal /\ made' \in 0 .. MaxSignal /\ made' >= made
      /\ signal' = made'
      /\ signal # NoSignal => signal' = signal
      /\ \A p \in Pub : signal = NoSignal => found[p] # signal'
  BY BoundIsNat DEF Subscribe, IInv, TypeOK, Signal, NoSignal
<1>2. listeners' = [listeners EXCEPT ![signal'] =
                      AddListener(listeners[signal'], KeyOf[s], s)]
  BY DEF Subscribe
<1>3. /\ \A g \in Signal : g # signal' => listeners'[g] = listeners[g]
      /\ listeners'[signal'] = AddListener(listeners[signal'], KeyOf[s], s)
  BY <1>1, <1>2 DEF IInv, TypeOK
<1>4. /\ \A k \in Key : k # KeyOf[s] => listeners'[signal'][k] = listeners[signal'][k]
      /\ listeners[signal'][KeyOf[s]] = NoSub => listeners'[signal'][KeyOf[s]] = s
      /\ listeners[signal'][KeyOf[s]] # NoSub
           => listeners'[signal'][KeyOf[s]] = listeners[signal'][KeyOf[s]]
  BY <1>1, <1>3, <1>k DEF AddListener, IInv, TypeOK
<1>5. listeners' \in [Signal -> [Key -> Sub \cup {NoSub}]]
  <2>1. AddListener(listeners[signal'], KeyOf[s], s) \in [Key -> Sub \cup {NoSub}]
    BY <1>1, <1>k DEF AddListener, IInv, TypeOK
  <2>2. QED
    BY <1>1, <1>2, <2>1 DEF IInv, TypeOK
<1>6. \A g \in Signal, k \in Key : listeners'[g][k] # NoSub => KeyOf[listeners'[g][k]] = k
  BY <1>1, <1>3, <1>4, <1>k DEF IInv, TypeOK
<1>7. TypeOK'
  <2>1. found' \in [Pub -> 0 .. made']
    <3>1. found \in [Pub -> 0 .. made] /\ made \in Nat /\ made' \in Nat
      BY <1>1, BoundIsNat DEF IInv, TypeOK
    <3>2. QED
      BY <1>1, <3>1 DEF Subscribe
  <2>2. signal' \in {NoSignal, made'} /\ state' \in [Sub -> {"new", "active", "gone"}]
    BY <1>1 DEF Subscribe, IInv, TypeOK
  <2>3. QED
    BY <1>1, <1>5, <1>6, <2>1, <2>2 DEF Subscribe, IInv, TypeOK
<1>8. \A g \in Signal, k \in Key : g # signal' => listeners'[g][k] = NoSub
  BY <1>1, <1>3 DEF IInv, OthersEmpty, Signal, NoSignal
<1>9. QED
  BY <1>1, <1>4, <1>7, <1>8

LEMMA SubscribeStep ==
  ASSUME IInv, NEW s \in Sub, Subscribe(s) PROVE IInv'
<1>1. HoldersActive'
  <2> SUFFICES ASSUME NEW g \in Signal, NEW k \in Key, listeners'[g][k] # NoSub
               PROVE  state'[listeners'[g][k]] = "active"
    BY DEF HoldersActive
  <2>1. state' = [state EXCEPT ![s] = "active"] /\ state \in [Sub -> {"new", "active", "gone"}]
    BY DEF Subscribe, IInv, TypeOK
  <2>2. listeners'[g][k] = s \/ listeners'[g][k] = listeners[g][k]
    BY SubscribeSignals
  <2>3. listeners[g][k] # NoSub => listeners[g][k] \in Sub /\ state[listeners[g][k]] = "active"
    BY DEF IInv, TypeOK, HoldersActive
  <2>4. QED
    BY <2>1, <2>2, <2>3
<1>2. OthersEmpty'
  BY SubscribeSignals DEF OthersEmpty
<1>3. QED
  BY <1>1, <1>2, SubscribeSignals DEF IInv

LEMMA UnsubscribeStep ==
  ASSUME IInv, NEW s \in Sub, Unsubscribe(s) PROVE IInv'
<1> USE Keys DEF Unsubscribe, RemoveListener, IInv, TypeOK, HoldersActive, OthersEmpty,
            Signal, NoSignal
<1>1. CASE signal = NoSignal
  <2>1. \A g \in Signal, k \in Key : listeners[g][k] = NoSub
    BY <1>1
  <2>2. QED
    BY <1>1, <2>1
<1>2. CASE signal # NoSignal
  <2>1. /\ signal \in Signal
        /\ listeners' = [listeners EXCEPT ![signal] = [listeners[signal] EXCEPT ![KeyOf[s]] = NoSub]]
    BY <1>2, BoundIsNat
  <2>2. listeners' \in [Signal -> [Key -> Sub \cup {NoSub}]]
    <3>1. [listeners[signal] EXCEPT ![KeyOf[s]] = NoSub] \in [Key -> Sub \cup {NoSub}]
      BY <2>1
    <3>2. QED
      BY <2>1, <3>1
  <2>3. \A g \in Signal, k \in Key :
          listeners'[g][k] = IF g = signal /\ k = KeyOf[s] THEN NoSub ELSE listeners[g][k]
    BY <2>1
  <2>4. TypeOK'
    BY <2>2, <2>3
  <2>5. HoldersActive' /\ OthersEmpty'
    BY <2>3
  <2>6. QED
    BY <2>4, <2>5
<1>3. QED
  BY <1>1, <1>2

\* Close leaves no listener on any signal.
LEMMA CloseEmpties ==
  ASSUME IInv, Close
  PROVE  /\ listeners' \in [Signal -> [Key -> Sub \cup {NoSub}]]
         /\ \A g \in Signal, k \in Key : listeners'[g][k] = NoSub
<1>1. CASE signal = NoSignal
  BY <1>1 DEF Close, IInv, TypeOK, OthersEmpty, Signal, NoSignal
<1>2. CASE signal # NoSignal
  <2>1. signal \in Signal /\ listeners' = [listeners EXCEPT ![signal] = NoListeners]
    BY <1>2, BoundIsNat DEF Close, IInv, TypeOK, Signal, NoSignal
  <2>2. NoListeners \in [Key -> Sub \cup {NoSub}] /\ \A k \in Key : NoListeners[k] = NoSub
    BY DEF NoListeners
  <2>3. QED
    BY <2>1, <2>2 DEF IInv, TypeOK, OthersEmpty
<1>3. QED
  BY <1>1, <1>2

LEMMA CloseStep ==
  ASSUME IInv, Close PROVE IInv'
<1>1. TypeOK'
  BY CloseEmpties DEF Close, IInv, TypeOK
<1>2. HoldersActive' /\ OthersEmpty'
  BY CloseEmpties DEF HoldersActive, OthersEmpty
<1>3. QED
  BY <1>1, <1>2 DEF IInv

LEMMA PublishStep ==
  ASSUME IInv, NEW p \in Pub, Publish(p) PROVE IInv'
<1>1. signal \in 0 .. made
  BY DEF IInv, TypeOK, NoSignal
<1>2. QED
  BY <1>1 DEF Publish, IInv, TypeOK, HoldersActive, OthersEmpty

LEMMA EmitStep ==
  ASSUME IInv, NEW p \in Pub, Emit(p) PROVE IInv'
<1>1. found[p] \in Signal \cup {NoSignal}
  BY BoundIsNat DEF IInv, TypeOK, Signal, NoSignal
<1>2. Listeners(found[p]) \subseteq Sub
  BY <1>1, ListenersAreSubs DEF IInv
<1>3. QED
  BY <1>2 DEF Emit, IInv, TypeOK, HoldersActive, OthersEmpty

LEMMA Invariance == Spec => []IInv
<1>1. IInv /\ UNCHANGED vars => IInv'
  BY DEF IInv, TypeOK, HoldersActive, OthersEmpty, vars
<1>2. IInv /\ [Next]_vars => IInv'
  BY <1>1, SubscribeStep, UnsubscribeStep, CloseStep, PublishStep, EmitStep DEF Next
<1>3. QED
  BY InitIInv, <1>2, PTL DEF Spec

\* TypeOK holds of every behaviour; with it, a key is held by a subscription
\* whose handler has that key.
THEOREM TypeCorrect == Spec => []TypeOK
BY Invariance, PTL DEF IInv

\* An event never starts a handler whose unsubscribe function has been called
\* or whose bus has been closed, whatever keys the handlers share.
THEOREM DeliversToActive == Spec => []ListenersAreActive
<1>1. IInv => ListenersAreActive
  BY DEF IInv, TypeOK, HoldersActive, ListenersAreActive, Listeners
<1>2. QED
  BY <1>1, Invariance, PTL

-----------------------------------------------------------------------------
(* Refinement *)

\* What events reach: the holders of the keys of the signal in the map.
LEMMA Registered ==
  ASSUME IInv, NEW s \in Sub
  PROVE  /\ signal = NoSignal => Listeners(signal) = {}
         /\ Listeners(signal) \subseteq Sub
         /\ s \in Listeners(signal)
              <=> signal # NoSignal /\ listeners[signal][KeyOf[s]] = s
<1>1. signal \in Signal \cup {NoSignal}
  BY BoundIsNat DEF IInv, TypeOK, Signal, NoSignal
<1>2. QED
  BY <1>1, HoldsItsKey, ListenersAreSubs DEF IInv, Listeners

\* A signal that Publish found and that is not in the map any more is empty.
LEMMA StaleIsEmpty ==
  ASSUME IInv, NEW p \in Pub, found[p] # signal
  PROVE  Listeners(found[p]) = {}
<1>1. found[p] \in Signal \cup {NoSignal}
  BY BoundIsNat DEF IInv, TypeOK, Signal, NoSignal
<1>2. QED
  BY <1>1 DEF IInv, OthersEmpty, Listeners

LEMMA RefinesInit == Init => Abstract!Init
BY DEF Init, Abstract!Init, Listeners

LEMMA RefinesSubscribe ==
  ASSUME IInv, NEW s \in Sub, Subscribe(s) PROVE Abstract!Subscribe(s)
<1>1. IInv'
  BY SubscribeStep
<1>2. /\ active' = active \cup {s} /\ begun' = begun
  BY DEF active, begun, Subscribe, IInv, TypeOK
<1>3. missed' = missed
  BY SubscribeSignals DEF missed, Subscribe, NoSignal, Signal
<1>4. \A t \in Sub : t \in Listeners(signal)' <=> listeners'[signal'][KeyOf[t]] = t
  <2>1. TypeOK' /\ signal' \in Signal
    BY SubscribeSignals
  <2>2. QED
    BY <2>1, Keys DEF TypeOK, Listeners, Signal, NoSignal
<1>5. Listeners(signal) \subseteq Sub /\ Listeners(signal)' \subseteq Sub
  <2>1. signal' \in Signal /\ TypeOK'
    BY SubscribeSignals
  <2>2. Listeners(signal)' \subseteq Sub
    BY <2>1 DEF TypeOK, Listeners
  <2>3. QED
    BY <2>2, Registered
<1>6. CASE signal = NoSignal \/ listeners[signal][KeyOf[s]] = NoSub
  <2>1. listeners[signal'][KeyOf[s]] = NoSub
    BY <1>6, SubscribeSignals, Keys DEF IInv, OthersEmpty, Signal, NoSignal
  <2>2. \A t \in Sub : t \in Listeners(signal)' <=> t \in Listeners(signal) \/ t = s
    <3> SUFFICES ASSUME NEW t \in Sub
                 PROVE  listeners'[signal'][KeyOf[t]] = t
                          <=> t \in Listeners(signal) \/ t = s
      BY <1>4
    <3>1. CASE KeyOf[t] = KeyOf[s]
      BY <1>6, <2>1, <3>1, SubscribeSignals, Registered, Keys
    <3>2. CASE KeyOf[t] # KeyOf[s] /\ signal # NoSignal
      BY <3>2, SubscribeSignals, Registered, Keys
    <3>3. CASE KeyOf[t] # KeyOf[s] /\ signal = NoSignal
      <4>1. listeners'[signal'][KeyOf[t]] = NoSub
        BY <3>3, SubscribeSignals, Keys DEF IInv, OthersEmpty, Signal, NoSignal
      <4>2. QED
        BY <3>3, <4>1, Registered, Keys
    <3>4. QED
      BY <3>1, <3>2, <3>3
  <2>3. Listeners(signal)' = Listeners(signal) \cup {s}
    BY <1>5, <2>2
  <2>4. QED
    BY <1>2, <1>3, <2>3 DEF Abstract!Subscribe, active, begun, missed, Subscribe
<1>7. CASE signal # NoSignal /\ listeners[signal][KeyOf[s]] # NoSub
  <2>1. \A t \in Sub : t \in Listeners(signal)' <=> t \in Listeners(signal)
    BY <1>4, <1>7, SubscribeSignals, Registered, Keys
  <2>2. Listeners(signal)' = Listeners(signal)
    BY <1>5, <2>1
  <2>3. PICK h \in Sub : h = listeners[signal][KeyOf[s]]
    BY <1>7, SubscribeSignals, Keys DEF IInv, TypeOK
  <2>4. KeyOf[h] = KeyOf[s] /\ state[h] = "active"
    BY <1>7, <2>3, SubscribeSignals, Keys DEF IInv, TypeOK, HoldersActive
  <2>5. h \in Abstract!SameKey(s) \cap active
    BY <2>4 DEF Abstract!SameKey, active
  <2>6. QED
    BY <1>2, <1>3, <2>2, <2>5 DEF Abstract!Subscribe, active, begun, missed, Subscribe
<1>8. QED
  BY <1>6, <1>7

LEMMA RefinesUnsubscribe ==
  ASSUME IInv, NEW s \in Sub, Unsubscribe(s) PROVE Abstract!Unsubscribe(s)
<1>1. active' = active \ {s} /\ begun' = begun /\ missed' = missed
  BY DEF active, begun, missed, Unsubscribe, IInv, TypeOK
<1>2. Listeners(signal)' = Listeners(signal) \ Abstract!SameKey(s)
  <2>1. IInv'
    BY UnsubscribeStep
  <2>2. CASE signal = NoSignal
    BY <2>2 DEF Unsubscribe, Listeners
  <2>3. CASE signal # NoSignal
    <3>1. signal \in Signal
      BY <2>3, BoundIsNat DEF IInv, TypeOK, Signal, NoSignal
    <3>2. \A k \in Key : listeners'[signal][k]
                           = IF k = KeyOf[s] THEN NoSub ELSE listeners[signal][k]
      BY <2>3, <3>1, Keys DEF Unsubscribe, RemoveListener, IInv, TypeOK
    <3>3. Listeners(signal) = {listeners[signal][k] : k \in Key} \ {NoSub}
      BY <2>3 DEF Listeners
    <3>4. Listeners(signal)' = {listeners'[signal][k] : k \in Key} \ {NoSub}
      BY <2>3 DEF Listeners, Unsubscribe
    <3>5. \A k \in Key : listeners[signal][k] # NoSub
                            => /\ listeners[signal][k] \in Sub
                               /\ KeyOf[listeners[signal][k]] = k
      BY <3>1 DEF IInv, TypeOK
    <3>6. QED
      BY <3>2, <3>3, <3>4, <3>5, Keys DEF Abstract!SameKey
  <2>4. QED
    BY <2>2, <2>3
<1>3. QED
  BY <1>1, <1>2 DEF Abstract!Unsubscribe, active, begun, missed, Unsubscribe

LEMMA RefinesClose ==
  ASSUME IInv, Close PROVE Abstract!Close
<1>1. active' = {} /\ begun' = begun /\ missed' = begun
  BY DEF active, begun, missed, Close, IInv, TypeOK
<1>2. Listeners(signal)' = {}
  BY DEF Close, Listeners
<1>3. QED
  BY <1>1, <1>2 DEF Abstract!Close, active, begun, missed, Close

LEMMA RefinesPublish ==
  ASSUME IInv, NEW p \in Pub, Publish(p) PROVE Abstract!Publish(p)
<1>1. begun' = begun \cup {p} /\ p \notin begun
  BY DEF begun, Publish, IInv, TypeOK
<1>2. missed' = IF signal = NoSignal THEN missed \cup {p} ELSE missed
  BY DEF missed, Publish, IInv, TypeOK
<1>3. Listeners(signal)' = Listeners(signal) /\ active' = active
  BY DEF Publish, Listeners, active
<1>4. Listeners(signal) # {} => signal # NoSignal
  BY DEF Listeners
<1>5. QED
  BY <1>1, <1>2, <1>3, <1>4 DEF Abstract!Publish, active, begun, missed, Publish

LEMMA RefinesEmit ==
  ASSUME IInv, NEW p \in Pub, Emit(p) PROVE Abstract!Emit(p)
<1>1. /\ begun' = begun \ {p} /\ p \in begun /\ missed' = missed \ {p}
  BY DEF begun, missed, Emit, IInv, TypeOK
<1>2. Listeners(signal)' = Listeners(signal) /\ active' = active
  BY DEF Emit, Listeners, active
<1>3. Listeners(found[p]) = IF p \in missed THEN {} ELSE Listeners(signal)
  <2>1. CASE p \in missed /\ found[p] = NoSignal
    BY <2>1 DEF Listeners
  <2>2. CASE p \in missed /\ found[p] # signal
    BY <2>2, StaleIsEmpty
  <2>3. CASE p \notin missed
    BY <2>3 DEF missed, Emit
  <2>4. QED
    BY <2>1, <2>2, <2>3 DEF missed
<1>4. delivered' = [delivered EXCEPT ![p] = IF p \in missed THEN {} ELSE Listeners(signal)]
  BY <1>3 DEF Emit
<1>5. QED
  BY <1>1, <1>2, <1>4 DEF Abstract!Emit, active, begun, missed

LEMMA RefinesStep == IInv /\ [Next]_vars => [Abstract!Next]_(Abstract!vars)
<1> SUFFICES ASSUME IInv, [Next]_vars PROVE Abstract!Next \/ UNCHANGED Abstract!vars
  OBVIOUS
<1>1. ASSUME UNCHANGED vars PROVE UNCHANGED Abstract!vars
  BY <1>1 DEF vars, Abstract!vars, Listeners
<1>2. QED
  BY <1>1, RefinesSubscribe, RefinesUnsubscribe, RefinesClose, RefinesPublish, RefinesEmit
     DEF Next, Abstract!Next

\* Whatever keys handlers share, an event reaches exactly the subscriptions
\* registered when it is emitted, and a subscription alone with its key stays
\* registered until it is unsubscribed or the bus is closed.
THEOREM BusKeepsPromise == Spec => ImplementsSubscriptions
<1>1. Spec => [][Abstract!Next]_(Abstract!vars)
  BY Invariance, RefinesStep, PTL DEF Spec
<1>2. Spec => Abstract!Init
  BY RefinesInit DEF Spec
<1>3. QED
  BY <1>1, <1>2, PTL DEF ImplementsSubscriptions, Abstract!Spec
=============================================================================
