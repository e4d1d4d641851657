CONSTANTS
  Threads = {t1, t2, t3}
  TryThreads = {t1, t2, t3}
  Nobody = Nobody
  NoMode = NoMode
SPECIFICATION FairSpec
INVARIANTS
  Inv
  NoLostWakeup
PROPERTIES
  ImplementsLock
  GrantsInTheEnd
\* A process that crashed has stopped.
CHECK_DEADLOCK FALSE
