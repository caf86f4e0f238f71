SPECIFICATION FairSpec
CONSTANTS
  CheckInterval = 1
  MinDelay = 30
  MaxDelay = 60
  GracefulTimeout = 5
  StopTimeout = 1
  Jitter <- JitterFifths
  MaxPending = 2
INVARIANT GracefulShutdown
\* Run returns, or the process is killed.
CHECK_DEADLOCK FALSE
