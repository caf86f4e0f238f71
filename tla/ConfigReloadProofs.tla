-------------------------- MODULE ConfigReloadProofs --------------------------
(***************************************************************************)
(* For any number of reloads, connections and versions: type correctness   *)
(* of ConfigReload, that services and server agree unless the last reload  *)
(* raced, went unheard or asked for the connection in use to be replaced,  *)
(* and that no handler takes another's answer.                             *)
(***************************************************************************)
EXTENDS ConfigReload, SequenceTheorems, TLAPS

\* One connection at a time is open: the current one, or the one Main has
\* dialled and not yet stored, which nobody else knows.
OneOpen ==
  /\ connection # NoConn => connState[connection] = "open" /\ main = "select"
  /\ \A c \in Conn : connState[c] = "open" => c = connection \/ main = "store"
  /\ \A c, d \in Conn : connState[c] = "open" /\ connState[d] = "open" => c = d
  /\ \A r \in Reload : target[r] \in Conn => connState[target[r]] # "unused"

\* While no wait on it was given up and no two overlapped, a connection has at
\* most one scanner, the answer on it is the answer this one waits for, and
\* without a scanner there is none, unless it comes too late.
InStep ==
  \A c \in Conn \ outOfStep :
    /\ \A q, r \in scanning : target[q] = c /\ target[r] = c => q = r
    /\ \A r \in scanning : target[r] = c => wire[c] \in {<<>>, <<r>>}
    /\ connState[c] # "closed" /\ (\A r \in scanning : target[r] # c) => wire[c] = <<>>

\* ProxyService hears of a reload only once it is published.
DueWhenPublished ==
  \A r \in proxyDue : reload[r] \notin {"idle", "set", "publish"}

\* A reload that has not raced is the only one, with Main in its select.
OneAtATime ==
  ~raced =>
    /\ \A q, r \in Reload : Busy(q) /\ Busy(r) => q = r
    /\ SomeoneReloads => main = "select"

\* How far such a reload has got, and what it has changed by then.
Progress ==
  ~raced => \A r \in Reload : Busy(r) =>
    /\ reload[r] # "set" => config = version[r]
    /\ reload[r] \notin {"set", "publish"} /\ r \notin proxyDue => proxyConfig = version[r]
    /\ ~unheard =>
         /\ reload[r] \in {"look", "send", "await", "done"} => connConfig = version[r]
         /\ reload[r] \in {"send", "await"} => connection \in {NoConn, target[r]}
         /\ reload[r] \in {"await", "done"} /\ connection # NoConn
              => server[connection] = version[r] \/ connection \in requested

\* With no reload at work, what Main carries is what all have agreed upon.
Rest ==
  ~raced /\ ~unheard /\ ~SomeoneReloads =>
    /\ main # "load" /\ main # "select" => mainConfig = config
    /\ main \notin {"load", "set connection"} => connConfig = config
    /\ main \notin {"load", "set connection", "set proxy"} => proxyConfig = config
    /\ main = "select" /\ connection # NoConn
         => server[connection] = config \/ connection \in requested
    /\ main = "store" => \A c \in Conn : connState[c] = "open" => server[c] = config

\* The inductive invariant.
IInv ==
  /\ TypeOK /\ OneOpen /\ InStep
  /\ DueWhenPublished /\ OneAtATime /\ Progress /\ Rest

LEMMA ZeroIsVersion == 0 \in Version
BY BoundIsNat DEF Version

LEMMA NextIsVersion ==
  ASSUME NEW v \in Version, v < MaxVersion PROVE v + 1 \in Version
BY BoundIsNat DEF Version

LEMMA InitIInv == Init => IInv
<1> SUFFICES ASSUME Init PROVE IInv
  OBVIOUS
<1> USE NoConnIsNone, BoundIsNat DEF Init, Busy, SomeoneReloads
<1>1. TypeOK
  <2>1. file \in Version
    BY DEF Version
  <2>2. wire \in [Conn -> Seq(Reload)]
    BY EmptySeq
  <2>3. QED
    BY <2>1, <2>2, ZeroIsVersion DEF TypeOK
<1>2. OneOpen /\ InStep /\ DueWhenPublished
  BY DEF OneOpen, InStep, DueWhenPublished
<1>3. OneAtATime /\ Progress /\ Rest
  BY DEF OneAtATime, Progress, Rest
<1>4. QED
  BY <1>1, <1>2, <1>3 DEF IInv

-----------------------------------------------------------------------------
(* What the steps have in common *)

\* What is left of a connection's answers after a reader has taken some.
LEMMA TakenProperties ==
  ASSUME wire \in [Conn -> Seq(Reload)], NEW c \in Conn, Taken(c)
  PROVE  /\ wire' \in [Conn -> Seq(Reload)]
         /\ wire[c] # <<>>
         /\ \A d \in Conn : d # c => wire'[d] = wire[d]
         /\ \A r \in Reload : wire[c] = <<r>> => wire'[c] = <<>>
<1>1. PICK n \in 1 .. Len(wire[c]) :
        wire' = [wire EXCEPT ![c] = SubSeq(wire[c], n + 1, Len(wire[c]))]
  BY DEF Taken
<1>2. wire[c] \in Seq(Reload) /\ Len(wire[c]) \in Nat
  BY LenProperties
<1>3. SubSeq(wire[c], n + 1, Len(wire[c])) \in Seq(Reload)
  <2>1. \A i \in n + 1 .. Len(wire[c]) : wire[c][i] \in Reload
    BY <1>2, ElementOfSeq
  <2>2. QED
    BY <1>2, <2>1, SubSeqProperties
<1>4. wire[c] # <<>>
  BY <1>1, EmptySeq
<1>5. ASSUME NEW r \in Reload, wire[c] = <<r>> PROVE wire'[c] = <<>>
  <2>1. n = 1 /\ Len(wire[c]) = 1
    BY <1>5
  <2>2. SubSeq(wire[c], 2, 1) = <<>>
    BY SubSeqEmpty
  <2>3. QED
    BY <1>1, <2>1, <2>2
<1>6. QED
  BY <1>1, <1>3, <1>4, <1>5

\* Who asks for a reconnection names the connection in use, if there is one.
LEMMA ReconnectProperties ==
  ASSUME TypeOK, RequestReconnect
  PROVE  /\ requested' \subseteq Conn
         /\ connection # NoConn => connection \in requested'
BY DEF RequestReconnect, TypeOK

-----------------------------------------------------------------------------
(* Type correctness *)

LEMMA MainType == ASSUME TypeOK, Main PROVE TypeOK'
<1> USE ZeroIsVersion DEF TypeOK, MainGoes, services, link, mains, reloads, exchange, history
<1>1. CASE MainLoads
  BY <1>1 DEF MainLoads
<1>2. CASE MainSetsConnection
  BY <1>2 DEF MainSetsConnection
<1>8. CASE MainSetsProxy
  BY <1>8 DEF MainSetsProxy
<1>3. CASE MainReads
  BY <1>3 DEF MainReads
<1>4. CASE MainStarts
  BY <1>4 DEF MainStarts
<1>9. CASE MainFails
  BY <1>9 DEF MainFails
<1>5. CASE MainStores
  BY <1>5 DEF MainStores
<1>6. ASSUME NEW c \in Conn, MainDials(c) PROVE TypeOK'
  BY <1>6 DEF MainDials
<1>7. QED
  BY <1>1, <1>2, <1>3, <1>4, <1>5, <1>6, <1>8, <1>9 DEF Main

LEMMA LossType ==
  ASSUME TypeOK, Edit \/ ConnectionLost \/ ServiceStops
  PROVE  TypeOK'
<1> USE DEF TypeOK, services, link, mains, reloads, exchange, history
<1>1. CASE Edit
  <2>1. file' \in Version
    BY <1>1, NextIsVersion DEF Edit
  <2>2. QED
    BY <1>1, <2>1 DEF Edit
<1>2. CASE ConnectionLost
  BY <1>2 DEF ConnectionLost
<1>3. CASE ServiceStops
  BY <1>3 DEF ServiceStops
<1>4. QED
  BY <1>1, <1>2, <1>3

LEMMA ReloadType ==
  ASSUME TypeOK, NEW r \in Reload,
         LoadFile(r) \/ LoadFileFails(r) \/ Reloads(r) \/ ProxyStores(r)
  PROVE  TypeOK'
<1> USE DEF TypeOK, ReloadGoes, services, link, mains, reloads, exchange, history
<1>1. CASE LoadFile(r)
  BY <1>1 DEF LoadFile
<1>2. CASE LoadFileFails(r)
  BY <1>2 DEF LoadFileFails
<1>3. CASE SetConfig(r)
  BY <1>3 DEF SetConfig
<1>10. CASE PublishUpdate(r)
  BY <1>10 DEF PublishUpdate
<1>4. CASE ProxyStores(r)
  BY <1>4 DEF ProxyStores
<1>11. CASE ConnectionStores(r)
  BY <1>11 DEF ConnectionStores
<1>5. CASE FindConnection(r)
  BY <1>5 DEF FindConnection
<1>6. CASE Send(r)
  <2>1. target[r] \in Conn
    BY <1>6 DEF Send
  <2>2. wire' \in [Conn -> Seq(Reload)]
    <3>1. Append(wire[target[r]], r) \in Seq(Reload)
      BY <2>1, AppendProperties
    <3>2. QED
      BY <1>6, <3>1 DEF Send
  <2>3. outOfStep' \subseteq Conn /\ outOfStep \subseteq outOfStep'
    BY <1>6, <2>1 DEF Send, Overlapped
  <2>4. /\ server' \in [Conn -> Version]
        /\ reload' = [reload EXCEPT ![r] = "await"] /\ target' = target
        /\ scanning' = scanning \cup {r}
    BY <1>6, <2>1 DEF Send
  <2>5. \A q \in scanning' :
          reload'[q] = "await" \/ (reload'[q] = "done" /\ target'[q] \in outOfStep')
    BY <2>3, <2>4
  <2>6. scanning' \subseteq Reload /\ \A q \in Reload :
          /\ reload'[q] \in {"send", "await"} => target'[q] \in Conn
          /\ reload'[q] = "await" => q \in scanning'
    BY <2>1, <2>4
  <2>7. UNCHANGED <<file, readable, config, connConfig, proxyConfig, connState, connection, main,
                    mainConfig, subscribed, stopping, version, proxyDue, requested, raced,
                    unheard>>
    BY <1>6 DEF Send
  <2>8. reload' \in [Reload -> {"idle", "set", "publish", "store", "look", "send", "await", "done"}]
    BY <2>4
  <2>9. QED
    BY <2>2, <2>3, <2>4, <2>5, <2>6, <2>7, <2>8
<1>7. CASE SendFails(r)
  <2>1. requested' \subseteq Conn
    BY <1>7, ReconnectProperties DEF SendFails
  <2>2. /\ reload[r] = "send" /\ reload' = [reload EXCEPT ![r] = "done"]
        /\ target' = [target EXCEPT ![r] = NoConn]
        /\ UNCHANGED <<file, readable, config, connConfig, proxyConfig, server, connState,
                      connection, main, mainConfig, subscribed, stopping, version, proxyDue,
                      wire, scanning, outOfStep, raced, unheard>>
    BY <1>7 DEF SendFails
  <2>3. r \notin scanning
    BY <2>2
  <2>4. QED
    BY <2>1, <2>2, <2>3
<1>8. CASE WaitFails(r)
  <2>1. requested' \subseteq Conn
    BY <1>8, ReconnectProperties DEF WaitFails
  <2>2. /\ reload[r] = "await" /\ reload' = [reload EXCEPT ![r] = "done"]
        /\ UNCHANGED <<file, readable, config, connConfig, proxyConfig, server, connState,
                      connection, main, mainConfig, subscribed, stopping, version, target,
                      proxyDue, wire, raced, unheard>>
    BY <1>8 DEF WaitFails
  <2>3. \/ scanning' = scanning \ {r} /\ outOfStep' = outOfStep
        \/ scanning' = scanning /\ outOfStep' = outOfStep \cup {target[r]}
    BY <1>8 DEF WaitFails
  <2>4. target[r] \in Conn /\ r \in scanning
    BY <2>2
  <2>5. /\ scanning' \subseteq scanning /\ outOfStep \subseteq outOfStep' /\ outOfStep' \subseteq Conn
        /\ r \in scanning' => target[r] \in outOfStep'
        /\ \A q \in scanning : q # r => q \in scanning'
    BY <2>3, <2>4
  <2>6. /\ reload'[r] = "done" /\ \A q \in Reload : q # r => reload'[q] = reload[q]
        /\ reload' \in [Reload -> {"idle", "set", "publish", "store", "look", "send", "await", "done"}]
    BY <2>2
  <2>7. /\ \A q \in Reload : reload'[q] \in {"send", "await"} => target[q] \in Conn
        /\ \A q \in Reload : reload'[q] = "await" => q \in scanning'
    BY <2>5, <2>6
  <2>8. \A q \in scanning' :
          reload'[q] = "await" \/ (reload'[q] = "done" /\ target[q] \in outOfStep')
    BY <2>5, <2>6
  <2>9. QED
    BY <2>1, <2>2, <2>5, <2>6, <2>7, <2>8
<1>9. QED
  BY <1>1, <1>2, <1>3, <1>4, <1>5, <1>6, <1>7, <1>8, <1>10, <1>11 DEF Reloads

LEMMA ReaderType ==
  ASSUME TypeOK,
         \/ \E r \in Reload : ScannerTakes(r) \/ ScannerTakesError(r)
         \/ \E c \in Conn : ReadDataTakes(c)
  PROVE  TypeOK'
<1> USE DEF TypeOK, ReloadGoes, services, link, mains, reloads, exchange, history
<1>1. ASSUME NEW r \in Reload, ScannerTakes(r) PROVE TypeOK'
  <2>1. target[r] \in Conn
    BY <1>1 DEF ScannerTakes
  <2>2. wire' \in [Conn -> Seq(Reload)]
    BY <1>1, <2>1, TakenProperties DEF ScannerTakes
  <2>3. /\ reload' = [reload EXCEPT ![r] = "done"] /\ target' = [target EXCEPT ![r] = NoConn]
        /\ scanning' = scanning \ {r}
        /\ UNCHANGED <<file, readable, config, connConfig, proxyConfig, server, connState, connection,
                      main, mainConfig, subscribed, stopping, version, proxyDue, outOfStep,
                      requested, raced, unheard>>
    BY <1>1 DEF ScannerTakes
  <2>4. QED
    BY <2>2, <2>3
<1>2. ASSUME NEW r \in Reload, ScannerTakesError(r) PROVE TypeOK'
  <2>1. target[r] \in Conn
    BY <1>2 DEF ScannerTakesError
  <2>2. wire' \in [Conn -> Seq(Reload)]
    BY <1>2, <2>1, TakenProperties DEF ScannerTakesError
  <2>3. requested' \subseteq Conn
    BY <1>2, ReconnectProperties DEF ScannerTakesError
  <2>4. /\ reload' = [reload EXCEPT ![r] = "done"] /\ target' = [target EXCEPT ![r] = NoConn]
        /\ scanning' = scanning \ {r}
        /\ UNCHANGED <<file, readable, config, connConfig, proxyConfig, server, connState,
                      connection, main, mainConfig, subscribed, stopping, version, proxyDue,
                      outOfStep, raced, unheard>>
    BY <1>2 DEF ScannerTakesError
  <2>5. QED
    BY <2>2, <2>3, <2>4
<1>3. ASSUME NEW c \in Conn, ReadDataTakes(c) PROVE TypeOK'
  <2>1. wire' \in [Conn -> Seq(Reload)]
    BY <1>3, TakenProperties DEF ReadDataTakes
  <2>2. UNCHANGED <<file, readable, services, server, connState, connection, mains, subscribed,
                    stopping, reloads, exchange, history>>
    BY <1>3 DEF ReadDataTakes
  <2>3. QED
    BY <2>1, <2>2
<1>4. QED
  BY <1>1, <1>2, <1>3

LEMMA TypeStep == TypeOK /\ [Next]_vars => TypeOK'
<1>1. TypeOK /\ UNCHANGED vars => TypeOK'
  BY DEF TypeOK, vars, services, link, mains, reloads, exchange, history
<1>2. QED
  BY <1>1, MainType, LossType, ReloadType, ReaderType DEF Next

-----------------------------------------------------------------------------
(* Connections.  But for Main, a step at most closes the current connection *)
(* and has a handler look at it or forget it.                               *)

KeepsLink == connState' = connState /\ connection' = connection

LosesLink ==
  /\ connection' = NoConn
  /\ connState' = IF connection = NoConn THEN connState
                  ELSE [connState EXCEPT ![connection] = "closed"]

OthersMove ==
  /\ main' = main /\ mainConfig' = mainConfig
  /\ KeepsLink \/ LosesLink
  /\ \A q \in Reload : target'[q] \in {target[q], NoConn, connection}

LEMMA OthersProperties ==
  ASSUME TypeOK, [Next]_vars, ~Main
  PROVE  OthersMove
<1> USE DEF OthersMove, KeepsLink, LosesLink, ReloadGoes,
            services, link, mains, reloads, exchange, history
<1>t. target \in [Reload -> Conn \cup {NoConn}]
  BY DEF TypeOK
<1>1. CASE Edit \/ UNCHANGED vars
  BY <1>1 DEF Edit, vars
<1>2. CASE ConnectionLost \/ ServiceStops
  BY <1>2 DEF ConnectionLost, ServiceStops
<1>3. ASSUME NEW r \in Reload,
             \/ LoadFile(r) \/ LoadFileFails(r) \/ SetConfig(r) \/ PublishUpdate(r)
             \/ ProxyStores(r) \/ ConnectionStores(r) \/ Send(r) \/ ScannerTakes(r)
      PROVE  OthersMove
  BY <1>3, <1>t DEF LoadFile, LoadFileFails, SetConfig, PublishUpdate, ProxyStores,
     ConnectionStores, Send, ScannerTakes
<1>4. ASSUME NEW r \in Reload, FindConnection(r) PROVE OthersMove
  BY <1>4, <1>t DEF FindConnection
<1>5. ASSUME NEW r \in Reload, SendFails(r) \/ WaitFails(r) \/ ScannerTakesError(r)
      PROVE  OthersMove
  BY <1>5, <1>t DEF SendFails, WaitFails, ScannerTakesError
<1>6. ASSUME NEW c \in Conn, ReadDataTakes(c) PROVE OthersMove
  BY <1>6 DEF ReadDataTakes
<1>7. QED
  BY <1>1, <1>2, <1>3, <1>4, <1>5, <1>6 DEF Next, Reloads

LEMMA OneOpenMain == ASSUME TypeOK, OneOpen, Main PROVE OneOpen'
<1> USE NoConnIsNone DEF TypeOK, OneOpen, MainGoes, link, reloads
<1>1. CASE MainLoads \/ MainSetsConnection \/ MainSetsProxy \/ MainReads \/ MainStarts \/ MainFails
  BY <1>1 DEF MainLoads, MainSetsConnection, MainSetsProxy, MainReads, MainStarts, MainFails
<1>2. CASE MainStores
  BY <1>2 DEF MainStores
<1>3. ASSUME NEW c \in Conn, MainDials(c) PROVE OneOpen'
  BY <1>3 DEF MainDials
<1>4. QED
  BY <1>1, <1>2, <1>3 DEF Main

LEMMA OneOpenOthers == ASSUME TypeOK, OneOpen, OthersMove PROVE OneOpen'
<1> USE NoConnIsNone DEF TypeOK, OneOpen, OthersMove
<1>1. CASE KeepsLink
  BY <1>1 DEF KeepsLink
<1>2. CASE LosesLink
  BY <1>2 DEF LosesLink
<1>3. QED
  BY <1>1, <1>2

LEMMA OneOpenStep == TypeOK /\ OneOpen /\ [Next]_vars => OneOpen'
BY OneOpenMain, OneOpenOthers, OthersProperties

-----------------------------------------------------------------------------
(* Exchanges.  Most steps leave answers and scanners alone, and can only    *)
(* close a connection.                                                      *)

LeavesExchange ==
  /\ wire' = wire /\ scanning' = scanning /\ outOfStep' = outOfStep
  /\ \A q \in scanning : target'[q] = target[q]
  /\ \A c \in Conn : connState'[c] # "closed" =>
       connState[c] # "closed"

LEMMA InStepKept == InStep /\ LeavesExchange => InStep'
BY DEF InStep, LeavesExchange

\* Who looks for a connection, sends, or has yet to, has no scanner.
LEMMA NoScannerYet ==
  ASSUME TypeOK, NEW r \in Reload, reload[r] \in {"look", "send"}
  PROVE  r \notin scanning
BY DEF TypeOK

LEMMA ExchangeLeft ==
  ASSUME TypeOK, OneOpen,
         \/ Main \/ Edit \/ ConnectionLost \/ ServiceStops \/ UNCHANGED vars
         \/ \E r \in Reload :
              \/ LoadFile(r) \/ LoadFileFails(r) \/ SetConfig(r) \/ PublishUpdate(r)
              \/ ProxyStores(r) \/ ConnectionStores(r) \/ FindConnection(r) \/ SendFails(r)
  PROVE  LeavesExchange
<1> USE DEF LeavesExchange, link, reloads, exchange, history
<1>1. CASE Main
  <2>1. CASE MainLoads \/ MainSetsConnection \/ MainSetsProxy \/ MainReads
             \/ MainStarts \/ MainFails \/ MainStores
    BY <2>1 DEF MainLoads, MainSetsConnection, MainSetsProxy, MainReads,
       MainStarts, MainFails, MainStores
  <2>2. ASSUME NEW c \in Conn, MainDials(c) PROVE LeavesExchange
    BY <2>2 DEF MainDials, TypeOK
  <2>3. QED
    BY <1>1, <2>1, <2>2 DEF Main
<1>2. CASE Edit \/ UNCHANGED vars
  BY <1>2 DEF Edit, vars
<1>3. CASE ConnectionLost \/ ServiceStops
  BY <1>3 DEF ConnectionLost, ServiceStops, TypeOK
<1>4. ASSUME NEW r \in Reload,
             \/ LoadFile(r) \/ LoadFileFails(r) \/ SetConfig(r) \/ PublishUpdate(r)
             \/ ProxyStores(r) \/ ConnectionStores(r)
      PROVE  LeavesExchange
  BY <1>4 DEF LoadFile, LoadFileFails, SetConfig, PublishUpdate, ProxyStores,
     ConnectionStores
<1>5. ASSUME NEW r \in Reload, FindConnection(r) \/ SendFails(r) PROVE LeavesExchange
  <2>1. r \notin scanning
    BY <1>5, NoScannerYet DEF FindConnection, SendFails, ReloadGoes
  <2>2. CASE FindConnection(r)
    BY <2>1, <2>2 DEF FindConnection, TypeOK
  <2>3. CASE SendFails(r)
    BY <2>1, <2>3 DEF SendFails, TypeOK
  <2>4. QED
    BY <1>5, <2>2, <2>3
<1>6. QED
  BY <1>1, <1>2, <1>3, <1>4, <1>5

LEMMA InStepSend ==
  ASSUME TypeOK, InStep, NEW r \in Reload, Send(r) PROVE InStep'
<1> DEFINE c == target[r]
<1>1. /\ c \in Conn /\ connState[c] = "open" /\ r \notin scanning
      /\ connState' = connState /\ target' = target /\ scanning' = scanning \cup {r}
      /\ outOfStep \subseteq outOfStep'
      /\ \A d \in Conn : d # c => wire'[d] = wire[d]
      /\ wire'[c] \in {wire[c], Append(wire[c], r)}
  BY NoScannerYet DEF Send, ReloadGoes, reloads, link, TypeOK
<1>2. c \notin outOfStep' => /\ \A q \in scanning : target[q] # c
                             /\ c \notin outOfStep
  BY DEF Send, Overlapped
<1>3. c \notin outOfStep' => wire'[c] \in {<<>>, <<r>>}
  <2>1. c \notin outOfStep' => wire[c] = <<>>
    BY <1>1, <1>2 DEF InStep
  <2>2. Append(<<>>, r) = <<r>>
    OBVIOUS
  <2>3. QED
    BY <1>1, <2>1, <2>2
<1>4. \A d \in Conn \ outOfStep' : d # c =>
        /\ d \in Conn \ outOfStep /\ wire'[d] = wire[d] /\ connState'[d] = connState[d]
        /\ \A q \in scanning' : target'[q] = d => q \in scanning /\ target[q] = d
        /\ \A q \in scanning : target[q] = d => q \in scanning' /\ target'[q] = d
  BY <1>1
<1>5. c \notin outOfStep' => \A q \in scanning' : target'[q] = c <=> q = r
  BY <1>1, <1>2
<1>6. ASSUME NEW d \in Conn \ outOfStep', d # c
      PROVE  /\ \A p, q \in scanning' : target'[p] = d /\ target'[q] = d => p = q
             /\ \A q \in scanning' : target'[q] = d => wire'[d] \in {<<>>, <<q>>}
             /\ connState'[d] # "closed" /\ (\A q \in scanning' : target'[q] # d) => wire'[d] = <<>>
  BY <1>4, <1>6 DEF InStep
<1>7. ASSUME c \notin outOfStep'
      PROVE  /\ \A p, q \in scanning' : target'[p] = c /\ target'[q] = c => p = q
             /\ \A q \in scanning' : target'[q] = c => wire'[c] \in {<<>>, <<q>>}
             /\ connState'[c] # "closed" /\ (\A q \in scanning' : target'[q] # c) => wire'[c] = <<>>
  BY <1>1, <1>3, <1>5, <1>7
<1>8. QED
  BY <1>6, <1>7 DEF InStep

LEMMA InStepWaitFails ==
  ASSUME TypeOK, OneOpen, InStep, NEW r \in Reload, WaitFails(r) PROVE InStep'
<1>1. /\ target[r] \in Conn /\ wire' = wire /\ target' = target
      /\ \A c \in Conn : connState'[c] # "closed" => connState[c] # "closed"
  BY DEF WaitFails, ReloadGoes, TypeOK, link
<1>2. CASE outOfStep' = outOfStep \cup {target[r]} /\ scanning' = scanning
  BY <1>1, <1>2 DEF InStep
<1>3. CASE connState[target[r]] = "closed" /\ scanning' = scanning \ {r} /\ outOfStep' = outOfStep
  BY <1>1, <1>3 DEF InStep
<1>4. QED
  BY <1>2, <1>3 DEF WaitFails

LEMMA InStepTakes ==
  ASSUME TypeOK, OneOpen, InStep,
         \/ \E r \in Reload : ScannerTakes(r) \/ ScannerTakesError(r)
         \/ \E c \in Conn : ReadDataTakes(c)
  PROVE  InStep'
<1>t. wire \in [Conn -> Seq(Reload)] /\ scanning \subseteq Reload
  BY DEF TypeOK
<1>1. ASSUME NEW r \in Reload, ScannerTakes(r) \/ ScannerTakesError(r) PROVE InStep'
  <2>1. /\ r \in scanning /\ target[r] \in Conn /\ Taken(target[r])
        /\ scanning' = scanning \ {r} /\ outOfStep' = outOfStep
        /\ target' = [target EXCEPT ![r] = NoConn]
        /\ \A c \in Conn : connState'[c] # "closed" => connState[c] # "closed"
    BY <1>1 DEF ScannerTakes, ScannerTakesError, ReloadGoes, TypeOK, link
  <2>2. \A q \in scanning' : q # r /\ target'[q] = target[q]
    BY <2>1 DEF TypeOK
  <2>3. target[r] \notin outOfStep => wire[target[r]] = <<r>> /\ wire'[target[r]] = <<>>
    BY <1>t, <2>1, TakenProperties DEF InStep
  <2>4. \A d \in Conn : d # target[r] => wire'[d] = wire[d]
    BY <1>t, <2>1, TakenProperties
  <2>5. QED
    BY <2>1, <2>2, <2>3, <2>4 DEF InStep
<1>2. ASSUME NEW c \in Conn, ReadDataTakes(c) PROVE InStep'
  <2>1. /\ wire[c] # <<>> /\ \A d \in Conn : d # c => wire'[d] = wire[d]
        /\ \A r \in Reload : wire[c] = <<r>> => wire'[c] = <<>>
        /\ UNCHANGED <<target, scanning, outOfStep, connState>> /\ connState[c] = "open"
    BY <1>2, <1>t, TakenProperties DEF ReadDataTakes, reloads, exchange
  <2>2. QED
    BY <1>t, <2>1 DEF InStep
<1>3. QED
  BY <1>1, <1>2

LEMMA InStepStep == TypeOK /\ OneOpen /\ InStep /\ [Next]_vars => InStep'
BY InStepKept, ExchangeLeft, InStepSend, InStepWaitFails, InStepTakes DEF Next, Reloads

-----------------------------------------------------------------------------
(* Agreement *)

Agreement == DueWhenPublished /\ OneAtATime /\ Progress /\ Rest

\* What the lemmas below use of TypeOK and OneOpen.
Basics ==
  /\ reload \in [Reload -> {"idle", "set", "publish", "store", "look", "send", "await", "done"}]
  /\ version \in [Reload -> Version] /\ target \in [Reload -> Conn \cup {NoConn}]
  /\ server \in [Conn -> Version] /\ proxyDue \subseteq Reload
  /\ \A r \in Reload : reload[r] \in {"send", "await"} => target[r] \in Conn
  /\ connection # NoConn => connection \in Conn /\ main = "select"
  /\ \A c, d \in Conn : connState[c] = "open" /\ connState[d] = "open" => c = d

LEMMA BasicsHold == TypeOK /\ OneOpen => Basics
BY DEF TypeOK, OneOpen, Basics

LEMMA AgreementMain ==
  ASSUME TypeOK, OneOpen, Agreement, Main PROVE Agreement'
<1>b. Basics
  BY BasicsHold
<1> USE NoConnIsNone
        DEF Basics, Agreement, DueWhenPublished, OneAtATime, Progress, Rest, Busy, SomeoneReloads,
            MainGoes, services, link, reloads, history
<1>1. CASE MainLoads
  BY <1>1, <1>b DEF MainLoads
<1>2. CASE MainSetsConnection
  BY <1>2, <1>b DEF MainSetsConnection
<1>3. CASE MainSetsProxy
  BY <1>3, <1>b DEF MainSetsProxy
<1>4. CASE MainReads
  BY <1>4, <1>b DEF MainReads
<1>5. CASE MainStarts
  BY <1>5, <1>b DEF MainStarts
<1>6. CASE MainFails
  BY <1>6, <1>b DEF MainFails
<1>7. CASE MainStores
  BY <1>7, <1>b DEF MainStores
<1>8. ASSUME NEW c \in Conn, MainDials(c) PROVE Agreement'
  <2>1. \A d \in Conn : connState[d] # "open"
    BY <1>8 DEF MainDials, OneOpen
  <2>2. connState \in [Conn -> {"unused", "open", "closed"}]
    BY DEF TypeOK
  <2>3. QED
    BY <1>8, <1>b, <2>1, <2>2 DEF MainDials
<1>9. QED
  BY <1>1, <1>2, <1>3, <1>4, <1>5, <1>6, <1>7, <1>8 DEF Main

LEMMA AgreementIgnored ==
  ASSUME Basics, Agreement, NEW r \in Reload,
         reload[r] = "idle", reload' = [reload EXCEPT ![r] = "done"],
         UNCHANGED <<services, link, mains, version, target, proxyDue, history>>
  PROVE  Agreement'
<1>1. r \notin proxyDue
  BY DEF Agreement, DueWhenPublished
<1>2. /\ ~Busy(r) /\ ~Busy(r)' /\ \A q \in Reload : q # r => reload'[q] = reload[q]
      /\ \A q \in Reload : Busy(q)' <=> Busy(q)
  BY <1>1 DEF Basics, Busy
<1>3. UNCHANGED <<config, connConfig, proxyConfig, server, connState, connection, main, mainConfig,
                  version, target, proxyDue, requested, raced, unheard>>
  BY DEF services, link, mains, history
<1>4. DueWhenPublished' /\ OneAtATime'
  BY <1>1, <1>2, <1>3 DEF Basics, Agreement, DueWhenPublished, OneAtATime, SomeoneReloads
<1>5. Progress'
  BY <1>2, <1>3 DEF Agreement, Progress
<1>6. Rest'
  BY <1>2, <1>3 DEF Agreement, Rest, SomeoneReloads
<1>7. QED
  BY <1>4, <1>5, <1>6 DEF Agreement

LEMMA AgreementLoad ==
  ASSUME Basics, Agreement, NEW r \in Reload,
         LoadFile(r) \/ LoadFileFails(r) \/ SetConfig(r) \/ PublishUpdate(r)
  PROVE  Agreement'
<1> USE DEF Basics, Agreement, DueWhenPublished, OneAtATime, Progress, Rest, Busy, SomeoneReloads,
            ReloadGoes, services, link, mains, history
<1>1. CASE LoadFile(r)
  BY <1>1 DEF LoadFile
<1>2. CASE LoadFileFails(r)
  BY <1>2, AgreementIgnored DEF LoadFileFails
<1>3. CASE SetConfig(r)
  BY <1>3 DEF SetConfig
<1>4. CASE PublishUpdate(r)
  BY <1>4 DEF PublishUpdate
<1>5. QED
  BY <1>1, <1>2, <1>3, <1>4

LEMMA AgreementSend ==
  ASSUME Basics, Agreement, NEW r \in Reload, Send(r) PROVE Agreement'
<1>1. /\ reload[r] = "send" /\ reload' = [reload EXCEPT ![r] = "await"]
      /\ server' = [server EXCEPT ![target[r]] = version[r]]
      /\ UNCHANGED <<config, connConfig, proxyConfig, connState, connection, main, mainConfig,
                    version, target, proxyDue, requested, raced, unheard>>
  BY DEF Send, ReloadGoes, services, mains, history
<1>2. /\ Busy(r) /\ target[r] \in Conn
      /\ \A q \in Reload : (Busy(q)' <=> Busy(q)) /\ (q # r => reload'[q] = reload[q])
      /\ reload'[r] = "await" /\ server'[target[r]] = version[r]
  BY <1>1 DEF Basics, Busy
<1>3. SomeoneReloads /\ SomeoneReloads'
  BY <1>2 DEF SomeoneReloads
<1>4. DueWhenPublished' /\ OneAtATime' /\ Rest'
  BY <1>1, <1>2, <1>3 DEF Basics, Agreement, DueWhenPublished, OneAtATime, Rest
<1>5. ASSUME ~raced, NEW q \in Reload, Busy(q)' PROVE q = r
  BY <1>2, <1>5 DEF Agreement, OneAtATime
<1>6. Progress'
  BY <1>1, <1>2, <1>5 DEF Agreement, Progress
<1>7. QED
  BY <1>4, <1>6 DEF Agreement

LEMMA AgreementHandle ==
  ASSUME Basics, Agreement, NEW r \in Reload,
         ProxyStores(r) \/ ConnectionStores(r) \/ FindConnection(r) \/ Send(r)
  PROVE  Agreement'
<1> USE NoConnIsNone
        DEF Basics, Agreement, DueWhenPublished, OneAtATime, Progress, Rest, Busy, SomeoneReloads,
            ReloadGoes, services, link, mains, history
<1>1. CASE ProxyStores(r)
  BY <1>1 DEF ProxyStores
<1>2. CASE ConnectionStores(r)
  BY <1>2 DEF ConnectionStores
<1>3. CASE FindConnection(r)
  BY <1>3 DEF FindConnection
<1>4. CASE Send(r)
  BY <1>4, AgreementSend
<1>5. QED
  BY <1>1, <1>2, <1>3, <1>4

\* A handler is through: with the server informed, or with the connection in use
\* to be replaced.
HandlerEnds(r) ==
  /\ reload[r] \in {"send", "await"} /\ reload' = [reload EXCEPT ![r] = "done"]
  /\ UNCHANGED <<services, server, connection, mains, version, proxyDue, raced, unheard>>
  /\ \/ reload[r] = "await" /\ requested' = requested
     \/ connection # NoConn => connection \in requested'
  /\ \A q \in Reload : q # r => target'[q] = target[q]

LEMMA AgreementEnds ==
  ASSUME Basics, Agreement, NEW r \in Reload, HandlerEnds(r)
  PROVE  Agreement'
<1> USE DEF HandlerEnds, Busy, services, mains
<1>1. /\ Busy(r) /\ \A q \in Reload : Busy(q)' => Busy(q)
      /\ \A q \in Reload : q # r => (Busy(q)' <=> Busy(q)) /\ reload'[q] = reload[q]
      /\ reload'[r] = "done"
  BY DEF Basics
<1>2. DueWhenPublished' /\ OneAtATime'
  BY <1>1 DEF Basics, Agreement, DueWhenPublished, OneAtATime, SomeoneReloads
<1>3. ASSUME ~raced
      PROVE  /\ main = "select" /\ \A q \in Reload : Busy(q) => q = r
             /\ config = version[r] /\ (r \notin proxyDue => proxyConfig = version[r])
             /\ ~unheard' => /\ connConfig = version[r]
                             /\ connection # NoConn => \/ server[connection] = version[r]
                                                       \/ connection \in requested'
  BY <1>1, <1>3, NoConnIsNone DEF Agreement, OneAtATime, Progress, SomeoneReloads
<1>4. Progress'
  BY <1>1, <1>3 DEF Progress
<1>5. Rest'
  BY <1>1, <1>3 DEF Rest, SomeoneReloads
<1>6. QED
  BY <1>2, <1>4, <1>5 DEF Agreement

\* Nothing happens that matters, but that a connection may go.
LeavesAgreement ==
  /\ UNCHANGED <<services, server, mains, reload, version, proxyDue, history>>
  /\ connection' \in {connection, NoConn}
  /\ \A r \in Reload : reload[r] \in {"send", "await"} => target'[r] = target[r]
  /\ \A c \in Conn : connState'[c] = "open" => connState[c] = "open"

LEMMA AgreementKept ==
  ASSUME Basics, Agreement, LeavesAgreement PROVE Agreement'
BY NoConnIsNone
   DEF Basics, Agreement, DueWhenPublished, OneAtATime, Progress, Rest, Busy, SomeoneReloads,
       LeavesAgreement, services, mains, history

LEMMA AgreementOthers ==
  ASSUME TypeOK, OneOpen, Agreement,
         \/ Edit \/ ConnectionLost \/ ServiceStops \/ UNCHANGED vars
         \/ \E r \in Reload : \/ SendFails(r) \/ WaitFails(r)
                              \/ ScannerTakes(r) \/ ScannerTakesError(r)
         \/ \E c \in Conn : ReadDataTakes(c)
  PROVE  Agreement'
<1>b. Basics
  BY BasicsHold
<1> USE DEF ReloadGoes, services, link, mains, reloads, history
<1>1. CASE Edit \/ UNCHANGED vars \/ \E c \in Conn : ReadDataTakes(c)
  <2>1. LeavesAgreement
    BY <1>1 DEF Edit, vars, ReadDataTakes, LeavesAgreement
  <2>2. QED
    BY <1>b, <2>1, AgreementKept
<1>2. CASE ConnectionLost \/ ServiceStops
  <2>1. LeavesAgreement
    BY <1>2 DEF ConnectionLost, ServiceStops, LeavesAgreement, TypeOK
  <2>2. QED
    BY <1>b, <2>1, AgreementKept
<1>3. ASSUME NEW r \in Reload, SendFails(r) \/ WaitFails(r) \/ ScannerTakesError(r)
      PROVE  Agreement'
  <2>1. HandlerEnds(r)
    BY <1>3, <1>b, ReconnectProperties
       DEF SendFails, WaitFails, ScannerTakesError, HandlerEnds, Basics
  <2>2. QED
    BY <1>b, <2>1, AgreementEnds
<1>4. ASSUME NEW r \in Reload, ScannerTakes(r) PROVE Agreement'
  <2>1. CASE reload[r] = "await"
    <3>1. HandlerEnds(r)
      BY <1>4, <1>b, <2>1 DEF ScannerTakes, HandlerEnds, Basics
    <3>2. QED
      BY <1>b, <3>1, AgreementEnds
  <2>2. CASE reload[r] = "done"
    <3>1. LeavesAgreement
      BY <1>4, <1>b, <2>2 DEF ScannerTakes, LeavesAgreement, Basics
    <3>2. QED
      BY <1>b, <3>1, AgreementKept
  <2>3. QED
    BY <1>4, <2>1, <2>2 DEF ScannerTakes, TypeOK
<1>5. QED
  BY <1>1, <1>2, <1>3, <1>4

LEMMA AgreementStep == TypeOK /\ OneOpen /\ Agreement /\ [Next]_vars => Agreement'
BY BasicsHold, AgreementMain, AgreementLoad, AgreementHandle, AgreementOthers DEF Next, Reloads

-----------------------------------------------------------------------------
(* The theorems *)

LEMMA Invariance == Spec => []IInv
<1>1. IInv /\ [Next]_vars => IInv'
  BY TypeStep, OneOpenStep, InStepStep, AgreementStep DEF IInv, Agreement
<1>2. QED
  BY <1>1, InitIInv, PTL DEF Spec

\* TypeOK holds for any number of reloads, connections and edits: a scanner that
\* nobody waits for is found on connections that are out of step only.
THEOREM TypeCorrect == Spec => []TypeOK
BY Invariance, PTL DEF IInv

\* However sends fail, answers are stolen and connections come and go, services
\* and server agree once all is quiet, unless the last reload ran beside another
\* or beside Main, found ConnectionService stopped, or could not bring the
\* configuration to the server and asked for this connection to be replaced.
THEOREM AgreeInTheEnd == Spec => []AgreeUnlessRaced
<1>1. IInv => AgreeUnlessRaced
  BY DEF IInv, Rest, AgreeUnlessRaced, Settled, Agree
<1>2. QED
  BY <1>1, Invariance, PTL

\* A handler gets through with an answer only by its own scanner.
LEMMA AnswerTakers ==
  ASSUME TypeOK, Next, NEW r \in Reload,
         reload[r] = "await", reload'[r] = "done", wire' # wire
  PROVE  ScannerTakes(r) \/ ScannerTakesError(r)
<1> USE DEF ReloadGoes, link, reloads, TypeOK
<1>1. ~Main
  BY DEF Main, MainLoads, MainSetsConnection, MainSetsProxy, MainReads, MainStarts,
     MainFails, MainStores, MainDials
<1>2. ~(Edit \/ ConnectionLost \/ ServiceStops \/ \E c \in Conn : ReadDataTakes(c))
  BY DEF Edit, ConnectionLost, ServiceStops, ReadDataTakes
<1>3. ASSUME NEW q \in Reload,
             LoadFile(q) \/ LoadFileFails(q) \/ Reloads(q) \/ ProxyStores(q)
      PROVE  FALSE
  BY <1>3 DEF LoadFile, LoadFileFails, Reloads, SetConfig, PublishUpdate, ProxyStores,
     ConnectionStores, FindConnection, Send, SendFails, WaitFails
<1>4. ASSUME NEW q \in Reload, ScannerTakes(q) \/ ScannerTakesError(q)
      PROVE  q = r
  BY <1>4 DEF ScannerTakes, ScannerTakesError
<1>5. QED
  BY <1>1, <1>2, <1>3, <1>4 DEF Next

\* No handler takes another's answer on a connection that is in step.
THEOREM AnswersMatch == Spec => OwnAnswer
<1> DEFINE Own == \A r \in Reload :
       reload[r] = "await" /\ reload'[r] = "done" /\ wire' # wire
         => Head(wire[target[r]]) = r \/ target[r] \in outOfStep
<1>1. ASSUME IInv, Next, NEW r \in Reload,
             reload[r] = "await", reload'[r] = "done", wire' # wire, target[r] \notin outOfStep
      PROVE  Head(wire[target[r]]) = r
  <2>1. wire \in [Conn -> Seq(Reload)] /\ target[r] \in Conn /\ r \in scanning
    BY <1>1 DEF IInv, TypeOK
  <2>2. ScannerTakes(r) \/ ScannerTakesError(r)
    BY <1>1, AnswerTakers DEF IInv
  <2>3. wire[target[r]] # <<>>
    BY <2>1, <2>2, TakenProperties DEF ScannerTakes, ScannerTakesError
  <2>4. wire[target[r]] = <<r>>
    BY <1>1, <2>1, <2>3 DEF IInv, InStep
  <2>5. QED
    BY <2>4
<1>2. IInv /\ [Next]_vars => [Own]_vars
  BY <1>1
<1>3. QED
  BY <1>2, Invariance, PTL DEF Spec, OwnAnswer
=============================================================================
