\* Three processes, two of them rivals for one feature, and one message length:
\* who waits for whom.
CONSTANTS
  tty = tty
  shell = shell
  hd = hd
  TTY = TTY
  CMD = CMD
  Idle = Idle
  NULL = NULL
  NoFeature = NoFeature
  Procs <- ThreeProcs
  Features <- BothFeatures
  Supplies <- ThreeSupplies
  Lens = {1}
  MaxIrq = 15
  Lines = {1, 14}
  Wired = {1, 14}
SPECIFICATION Spec
VIEW Control
INVARIANTS LinksNotShared NobodyForgotten NoMissedRendezvous NoMissedInterrupt WaitersFollowSupplier DeadHoldNoLine
PROPERTIES UnblockedForAReason InterruptsKept NoOvertaking
