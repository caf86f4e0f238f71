SPECIFICATION FairSpec
INVARIANTS TypeOK NothingLeftBehind
PROPERTIES CancelEndsForwarding ErrorEndsForwarding
\* The handler returns for good.
CHECK_DEADLOCK FALSE
