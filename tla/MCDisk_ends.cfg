\* A drive that is busy when its status is first read.
CONSTANTS
  Images <- AllImages
  Setups <- AllSetups
  Sectors = 26
  B = 2
  SECTOR = 4
  INODE = 2
  Span = 32
  MAX_NR_BLOCK_GROUPS = 2
  Slow = TRUE
  Wired = {14, 15}
SPECIFICATION Spec
PROPERTIES DriverEnds
CHECK_DEADLOCK FALSE
