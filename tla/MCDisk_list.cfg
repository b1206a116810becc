\* A directory with an entry in the second half of its block.
CONSTANTS
  Images <- AllImages
  Setups <- SplitSetups
  Sectors = 26
  B = 2
  SECTOR = 4
  INODE = 2
  Span = 32
  MAX_NR_BLOCK_GROUPS = 2
  Slow = TRUE
  Wired = {14, 15}
SPECIFICATION Spec
INVARIANTS RootsAreListed
CHECK_DEADLOCK FALSE
