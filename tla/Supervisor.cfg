SPECIFICATION FairSpec
CONSTANTS
  CheckInterval = 1
  MinDelay = 30
  MaxDelay = 60
  GracefulTimeout = 5
  StopTimeout = 1
  Jitter <- JitterFifths
  MaxPending = 2
INVARIANTS TypeOK WatchedClosely KilledOnlyIfHindered
PROPERTIES RetriesSpaced SignalEndsProcess
\* Run returns, or the process is killed.
CHECK_DEADLOCK FALSE
