SPECIFICATION Spec
CONSTANTS
  Absent = Absent
  cap_per_node = 3
  Sizes = {1, 2}
  max_insert = 2
  MaxStep = 3
  MaxLen <- MCMaxLen
  MaxBlocks = 3
  Slices <- MCSlices
INVARIANTS
  Inv
  SlicesSelect
PROPERTIES
  ImplementsByteArray
  AlarmsAreCounts
CHECK_DEADLOCK FALSE
