SPECIFICATION FairSpec
INVARIANTS TypeOK ReadFaultNotLost NoWriteOnClosed
PROPERTIES ImplementsContract CancelEndsLoop FaultEndsLoop CloseEnds
\* The loop returns for good.
CHECK_DEADLOCK FALSE
