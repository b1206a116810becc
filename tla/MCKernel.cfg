\* Boots that work and boots that fail, then any calls of two programs.
CONSTANTS
  tty = tty
  shell = shell
  hd = hd
  TTY = TTY
  CMD = CMD
  Idle = Idle
  NULL = NULL
  NoFeature = NoFeature
  Procs <- AllProcs
  Features <- AllFeatures
  Supplies <- WhoSupplies
  Lens = {1, 2}
  MaxIrq = 15
  Lines = {1}
  Wired = {1}
  MAX_NO_PROCS = 3
  NO_AVL_DSCRPTS = 20
  KernelDescriptors = {0, 1, 3}
  NO_BASE = 511
  Half = 8
  Octet = 8
  Nibble = 4
  Page = 16
  LowEnd = 20
  VideoEnd = 24
  TssAt <- TssPlaces
  TssSize = 1
  Boots <- SomeBoots
  KernelEnd = 6
  Tty = tty
  VideoBase = 23
  VideoLimit = 1
  Addrs = {0, 2, 511}
  NUM_PORTS = 1
  PortArgs = {0, 1}
  DeviceWords = {0}
SPECIFICATION KSpec
VIEW Future
INVARIANTS EachHasItsOwn OneDriverPerPort
PROPERTIES AddressesStayInside
\* A program that faults, and a boot that fails, stop the machine.
CHECK_DEADLOCK FALSE
