CONSTANTS
  Peers = {p1, p2}
  Faulty = {p2}
  PrefixLen = 2
  Sizes = {0, 1}
  MaxMsgs = 2
  Window = 1
  InitCap = 1
  MayStop = TRUE
  MayFail = TRUE
SPECIFICATION Spec
INVARIANTS
  Inv
  EchoesInOrder
PROPERTIES
  AllAnswered
  ClosedLeave
\* A server that was closed has stopped.
CHECK_DEADLOCK FALSE
