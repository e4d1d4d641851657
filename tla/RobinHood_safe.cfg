CONSTANTS
  Keys = {0, 1, 2, 3, 4, 5, 6, 8}
  cap = 4
  DeletesUnanchored = FALSE
SPECIFICATION Spec
INVARIANTS
  DibInvariant
PROPERTIES
  ImplementsDictionary
