\* Drives of every kind, that may be busy.
CONSTANTS
  Images <- AllImages
  Setups <- AllSetups
  Sectors = 26
  B = 2
  SECTOR = 4
  INODE = 2
  Span = 32
  MAX_NR_BLOCK_GROUPS = 2
  Slow = TRUE
  Wired = {14, 15}
SPECIFICATION Spec
INVARIANTS TypeOK ReadsWhatItAsked FindsTheDrives PlainRootsAreListed
CHECK_DEADLOCK FALSE
