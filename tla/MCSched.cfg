\* Four processes of weight 1, where every neighbour a process kept passes the
\* weight test and only the links reject it; and three of different weights.
CONSTANTS
  tty = tty
  shell = shell
  hd = hd
  other = other
  Idle = Idle
  NULL = NULL
  Procs <- FourProcs
  Boots <- EqualAndMixed
  Word = 8
SPECIFICATION FairSpec
INVARIANTS TypeOK ListIsTheQueue LinksAgree HeaviestFirst WeightIsTotal RunsOnCredit
PROPERTIES ImplementsRunQueue NoStarvation
