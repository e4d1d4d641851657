SPECIFICATION Spec
CONSTANTS
  c1 = c1
  c2 = c2
  Clients = {c1, c2}
  Lengths = {2, 5}
  Vectors <- MCVectors
  Offsets = {0, 4}
  InitialFiles <- MCInitialFiles
  MaxCalls = 2
  MaxInterrupts = 1
  Interruptible = {"vector", "positional"}
  Mixed = FALSE
  Word = 16
  Dword = 4
  Zero = Zero
INVARIANTS
  Inv
  PositionFollows
PROPERTIES
  ImplementsContract
  CallsReturn
CHECK_DEADLOCK FALSE
