CONSTANTS
  Pages = {p1, p2, p3}
  Cap = 2
  NoSlab = NoSlab
  Ids = {c1, c2, c3, c4}
  Sizes = {1, 2, 4, 5, 6}
  max_alloc_size = 5
  max_total_size = 11
  target_chunk_mult = 2
  min_chunk_size = 3
  max_chunk_size = 4
  max_chunks = 3
  Checked = TRUE
SPECIFICATION AllSpec
INVARIANTS
  SlabInv
  Inv
  CountersMatch
PROPERTIES
  GrowsOnlyWhenFull
