CONSTANTS
  Threads = {t1, t2, t3}
  S_MASK = 3
SPECIFICATION FairSpec
INVARIANTS
  Inv
  UpgradeKeepsReading
PROPERTIES
  ImplementsSXLock
  DrainEnds
