SPECIFICATION FairSpec
CONSTANTS
  Conn = {1}
  Config = {1, 2}
INVARIANTS TypeOK NoStrayDevice ClientIsWatched
PROPERTIES DeadTunnelNoticed
\* Everything may have been handled.
CHECK_DEADLOCK FALSE
