SPECIFICATION RecordsSpec
CONSTANTS
  t1 = t1
  t2 = t2
  Users = {t1, t2}
  RecLen = 2
  Capacities = {4, 5}
  Sizes = {1, 2}
  Counts = {1, 3}
  Limits <- MCLimits
  Dests <- MCDests
  MaxWrites = 2
  MaxReads = 1
  MaxCopies = 2
  BatchBytes = 2
  Word = 16
INVARIANTS
  RecordsInv
  LossIsReported
PROPERTIES
  CallsEnd
CHECK_DEADLOCK FALSE
