SPECIFICATION FairSpec
PROPERTY DeadPeerEndsLoop
CHECK_DEADLOCK FALSE
