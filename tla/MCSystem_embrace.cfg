\* A user who presses Enter again while the shell answers.
CONSTANTS
  tty = tty
  shell = shell
  hd = hd
  TTY = TTY
  CMD = CMD
  Idle = Idle
  NULL = NULL
  NoFeature = NoFeature
  Procs <- AllProcs
  Features <- AllFeatures
  Supplies <- AllSupplies
  Lens = {0, 1, 2}
  MaxIrq = 15
  Lines = {1, 14, 15}
  Wired = {1}
  Reports = 2
  Full = 2
SPECIFICATION SysSpec
INVARIANTS NoEmbrace
