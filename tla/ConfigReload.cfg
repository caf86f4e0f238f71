SPECIFICATION Spec
CONSTANTS
  NoConn = NoConn
  Reload = {r1, r2}
  Conn = {c1, c2}
  MaxVersion = 2
SYMMETRY Symmetry
INVARIANTS TypeOK AgreeUnlessRaced
PROPERTY OwnAnswer
\* Everything may have been reloaded.
CHECK_DEADLOCK FALSE
