CONSTANTS
  b1 = b1
  b2 = b2
  Bufs = {b1, b2}
  Bytes = {zero, one}
  cap <- MCcap
  Sizes = {1, 2}
  MaxLen = 2
  End = "front"
  Strays = FALSE
SYMMETRY Symmetry
VIEW RingsOnly
SPECIFICATION Spec
INVARIANTS
  TypeOK
PROPERTIES
  ImplementsQueues
