SPECIFICATION FairSpec
CONSTANTS
  Main = Main
  NoConn = NoConn
  MaxUnsubs = 2
  Conn = {c1, c2}
  Handler = {h1}
INVARIANTS TypeOK SingleOwner CurrentIsServed ListenerIsLive ClosesOwnFirst
PROPERTIES ImplementsCustody LoopEndsWithConnection
\* runWithReconnect returns and everything stops.
CHECK_DEADLOCK FALSE
