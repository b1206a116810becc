SPECIFICATION Spec
CONSTANTS
  Formats <- MCFormats
  MAX_MSG_SIZE = 6
  Word = 256
  Dividers <- MCDividers
  Nibbles <- MCNibbles
INVARIANTS TypeOK NothingLost OnlyTheLastIsCut OverrunOnlyBehindNumber
CHECK_DEADLOCK FALSE
