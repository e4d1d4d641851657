CONSTANTS
  Wakers = {w1, w2}
  Nobody = Nobody
SPECIFICATION FairTaskSpec
INVARIANTS
  TaskInv
  WakeIsKept
PROPERTIES
  StopReturns
  WakeRuns
