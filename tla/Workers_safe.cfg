SPECIFICATION Spec
CONSTANTS
  t1 = t1
  t2 = t2
  t3 = t3
  n1 = n1
  n2 = n2
  Threads = {t1, t2, t3}
  Nobody = Nobody
  Nodes = {n1, n2}
  Null = Null
  Cap = 2
  Hash <- MCHash
  Plans <- MCPlans
INVARIANTS
  Inv
  ReleaseMatches
PROPERTIES
  NoSleepOnCount
  JobsEnd
  SyncSpec
CHECK_DEADLOCK FALSE
