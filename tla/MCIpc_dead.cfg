\* A send to a supplier that has exited.
CONSTANTS
  tty = tty
  shell = shell
  hd = hd
  TTY = TTY
  CMD = CMD
  Idle = Idle
  NULL = NULL
  NoFeature = NoFeature
  Procs <- TwoProcs
  Features <- BothFeatures
  Supplies <- TwoSupplies
  Lens = {1, 2}
  MaxIrq = 15
  Lines = {0, 1, 16}
  Wired = {1}
SPECIFICATION Spec
INVARIANTS NobodyWaitsForTheDead
