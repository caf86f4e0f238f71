SPECIFICATION Spec
CONSTANTS
  Conn = {1, 2}
  Config = {1, 2}
INVARIANT NoCrash
\* Everything may have been handled.
CHECK_DEADLOCK FALSE
