---------------------------- MODULE SystemProofs ----------------------------
(***************************************************************************)
(* Proofs about the running system: the programs make only calls of the    *)
(* kernel, and what module System says of the terminal and the shell.      *)
(***************************************************************************)
EXTENDS System, IpcProofs, FiniteSetTheorems

USE RunQueueAssumption, IpcAssumption, SystemAssumption

-----------------------------------------------------------------------------
(***************************************************************************)
(* The three programs.                                                     *)
(***************************************************************************)
LEMMA AtMostTwo ==
  ASSUME NEW a, NEW b
  PROVE  Cardinality({a, b}) # 3
<1>1. IsFiniteSet({b}) /\ Cardinality({b}) = 1
  BY FS_Singleton
<1>2. Cardinality({b} \cup {a}) = IF a \in {b} THEN Cardinality({b}) ELSE Cardinality({b}) + 1
  BY <1>1, FS_AddElement
<1>3. {b} \cup {a} = {a, b}
  OBVIOUS
<1>4. QED
  BY <1>1, <1>2, <1>3

LEMMA ThreePrograms == tty # shell /\ tty # hd /\ shell # hd
<1>1. tty = shell => {tty, shell, hd} = {tty, hd}
  OBVIOUS
<1>2. tty = hd => {tty, shell, hd} = {tty, shell}
  OBVIOUS
<1>3. shell = hd => {tty, shell, hd} = {tty, shell}
  OBVIOUS
<1>4. Cardinality({tty, shell, hd}) = 3
  OBVIOUS
<1>5. Cardinality({tty, hd}) # 3 /\ Cardinality({tty, shell}) # 3
  BY AtMostTwo
<1>6. QED
  BY <1>1, <1>2, <1>3, <1>4, <1>5
-----------------------------------------------------------------------------
(***************************************************************************)
(* Every step of the system is an entry into the kernel of module Ipc.     *)
(***************************************************************************)
LEMMA ReceiveIsCall ==
  ASSUME NEW p \in Procs, NEW len \in Lens, CallReceive(p, len)
  PROVE  Receive(p)
BY DEF CallReceive, Receive, Owners

LEMMA SendIsCall ==
  ASSUME NEW p \in Procs, NEW f \in Features, NEW block \in BOOLEAN, CallSend(p, f, block)
  PROVE  SendByFeature(p, block)
<1>1. 1 \in Lens
  OBVIOUS
<1>2. CASE SendRefused(p, f, TRUE, block)
  BY <1>2 DEF SendByFeature
<1>3. CASE SendDelivers(p, f, 1) \/ SendQueues(p, f, 1) \/ (block /\ SendAwaits(p, f, 1))
  BY <1>1, <1>3 DEF SendByFeature
<1>4. QED
  BY <1>2, <1>3 DEF CallSend

LEMMA LineIsCall ==
  ASSUME NEW p \in Procs, NEW n \in Lines, n \in 1 .. MaxIrq, n # 2, TakeIrq(p, n)
  PROVE  RequestIrq(p)
<1>1. ~(n \in {0, 2} \/ n > MaxIrq)
  OBVIOUS
<1>2. QED
  BY <1>1 DEF RequestIrq

LEMMA FeatureIsCall ==
  ASSUME NEW p \in Procs, NEW f \in Supplies[p], TakeFeature(p, f)
  PROVE  SetFeature(p)
BY DEF SetFeature

LEMMA TtyCalls ==
  ASSUME curptr = tty, TtyStep
  PROVE  Next
<1>1. tty \in Procs /\ Full \in Lens /\ 0 \in Lens /\ CMD \in Features /\ TTY \in Supplies[tty]
  OBVIOUS
<1>2. ASSUME NEW line, TtyReceive(line)
      PROVE  Receive(tty)
  BY <1>1, <1>2, ReceiveIsCall DEF TtyReceive, Room
<1>3. CASE TakeIrq(tty, 1)
  <2>1. 1 \in Lines /\ 1 \in 1 .. MaxIrq
    OBVIOUS
  <2>2. QED
    BY <1>1, <1>3, <2>1, LineIsCall DEF Next, Syscall
<1>4. CASE TakeFeature(tty, TTY)
  BY <1>1, <1>4, FeatureIsCall DEF Next, Syscall
<1>5. CASE \E line : TtyReceive(line)
  BY <1>1, <1>2, <1>5 DEF Next, Syscall
<1>6. CASE ClockTick
  BY <1>6 DEF Next
<1>7. CASE CallSend(tty, CMD, FALSE)
  BY <1>1, <1>7, SendIsCall DEF Next, Syscall
<1>8. QED
  BY <1>3, <1>4, <1>5, <1>6, <1>7
  DEF TtyStep, TtyStart, TtyLoop, TtyReadsKey, TtyShows, TtyEdits, TtyEnter

LEMMA ShellCalls ==
  ASSUME curptr = shell, ShellStep
  PROVE  Next
<1>1. shell \in Procs /\ Full \in Lens /\ TTY \in Features /\ CMD \in Supplies[shell]
  OBVIOUS
<1>2. CASE TakeFeature(shell, CMD)
  BY <1>1, <1>2, FeatureIsCall DEF Next, Syscall
<1>3. CASE CallReceive(shell, Full)
  BY <1>1, <1>3, ReceiveIsCall DEF Next, Syscall
<1>4. CASE CallSend(shell, TTY, TRUE)
  BY <1>1, <1>4, SendIsCall DEF Next, Syscall
<1>5. QED
  BY <1>2, <1>3, <1>4 DEF ShellStep, ShellFeature, Says

LEMMA HdCalls ==
  ASSUME curptr = hd, HdStep
  PROVE  Next
<1>1. hd \in Procs /\ TTY \in Features
  OBVIOUS
<1>2. CASE \E n \in DiskLines : TakeIrq(hd, n)
  <2>1. PICK n \in DiskLines : TakeIrq(hd, n)
    BY <1>2
  <2>2. n \in Lines /\ n \in 1 .. MaxIrq /\ n # 2
    BY DEF DiskLines
  <2>3. QED
    BY <1>1, <2>1, <2>2, LineIsCall DEF Next, Syscall
<1>3. CASE CallSend(hd, TTY, TRUE)
  BY <1>1, <1>3, SendIsCall DEF Next, Syscall
<1>4. CASE Exit(hd)
  BY <1>1, <1>4 DEF Next, Syscall
<1>5. QED
  BY <1>2, <1>3, <1>4 DEF HdStep, Says

LEMMA ProgramCases ==
  ASSUME NEW p \in Procs, Program(p)
  PROVE  \/ curptr = tty /\ p = tty /\ TtyStep
         \/ curptr = shell /\ p = shell /\ ShellStep
         \/ curptr = hd /\ p = hd /\ HdStep
<1>1. CASE p = tty
  BY <1>1, ThreePrograms DEF Program
<1>2. CASE p = shell
  BY <1>2, ThreePrograms DEF Program
<1>3. CASE p = hd
  BY <1>3, ThreePrograms DEF Program
<1>4. QED
  BY <1>1, <1>2, <1>3

LEMMA StepIsEntry == [SysNext]_sysVars => [Next]_vars
<1>1. ASSUME NEW p \in Procs, Program(p)
      PROVE  Next
  BY <1>1, ProgramCases, TtyCalls, ShellCalls, HdCalls
<1>2. ASSUME Tick
      PROVE  Next
  BY <1>2 DEF Tick, Next
<1>3. ASSUME NEW k \in Keys, Types(k)
      PROVE  Next
  BY <1>3 DEF Types, Next
<1>4. QED
  BY <1>1, <1>2, <1>3 DEF SysNext, sysVars

\* The programs make only calls that the kernel of module Ipc answers, so
\* what is proved of Ipc for any programs holds of these three.
THEOREM ProgramsUseTheKernel == SysSpec => ImplementsIpc
<1>1. SysInit => Init
  BY DEF SysInit
<1>2. QED
  BY <1>1, StepIsEntry, PTL DEF SysSpec, ImplementsIpc, Spec
-----------------------------------------------------------------------------
(***************************************************************************)
(* The invariant of the system.                                            *)
(***************************************************************************)
\* The terminal is about to look at a verdict that has the bit of the keyboard.
Hears == pc[tty] = "received" /\ RECEIVING \notin state[tty] /\ 1 \in esi[tty]

\* The bit of the keyboard is in one place at most, the word interrupts or the
\* verdict, and only while the controller holds a scancode.
KeyHeld ==
  /\ 1 \in interrupts[tty] => key # "none"
  /\ Hears => key # "none" /\ 1 \notin interrupts[tty]
  /\ pc[tty] # "none"

\* A call that is over has not failed, where the program looks.
NothingFailed ==
  \A p \in {tty, shell} : p \in ready /\ pc[p] \in {"loop", "received"} => ~Failed(p)

\* Nobody waits for the disk driver, the one that exits.
HdSuppliesNothing == \A f \in Features : supplier[f] # hd

PcTypeOK == pc \in [Procs -> Keys \cup {"start", "feature", "loop", "received", "flush", "none"}]
SmallTypesOK ==
  /\ typing \in BOOLEAN /\ said \in Procs /\ left \in 0 .. Reports
  /\ key \in Keys \cup {"none"} /\ asked \in BOOLEAN /\ hasty \in BOOLEAN

SInv ==
  /\ IInv
  /\ PcTypeOK /\ SmallTypesOK
  /\ KeyHeld
  /\ NothingFailed
  /\ HdSuppliesNothing

LEMMA InitSInv == SysInit => SInv
<1> SUFFICES ASSUME SysInit PROVE SInv
  OBVIOUS
<1>1. IInv
  BY InitIInv DEF SysInit
<1>2. PcTypeOK /\ SmallTypesOK
  <2>1. PcTypeOK
    BY DEF SysInit, PcTypeOK
  <2>2. Reports \in 0 .. Reports /\ tty \in Procs
    OBVIOUS
  <2>3. SmallTypesOK
    BY <2>2 DEF SysInit, SmallTypesOK
  <2>4. QED
    BY <2>1, <2>3
<1>3. KeyHeld /\ NothingFailed
  <2>1. pc[tty] = "start" /\ pc[shell] = "start" /\ interrupts[tty] = {}
    BY DEF SysInit, Init, Unclaimed
  <2>2. QED
    BY <2>1 DEF KeyHeld, Hears, NothingFailed
<1>4. HdSuppliesNothing
  BY DEF SysInit, Init, Unclaimed, HdSuppliesNothing
<1>5. QED
  BY <1>1, <1>2, <1>3, <1>4 DEF SInv

\* What an entry shows of a process that did not make it: nothing, or a
\* completed exchange.
Spared(q) ==
  /\ interrupts'[q] = interrupts[q]
  /\ \/ esi'[q] = OK
     \/ esi'[q] = esi[q] /\ state'[q] = state[q] /\ (q \in ready' => q \in ready)

LEMMA ReceiveSpares ==
  ASSUME IInv, NEW p \in Procs, curptr = p, NEW len \in Lens, CallReceive(p, len),
         NEW q \in Procs, q # p
  PROVE  Spared(q)
<1>1. CASE ReceiveInterrupt(p, len)
  BY <1>1 DEF ReceiveInterrupt, KernelEntry, Spared, IInv, TypeOK
<1>2. CASE ReceiveMessage(p, NULL, len)
  <2>1. PICK i \in DOMAIN list[p] :
          LET s == list[p][i]
          IN /\ esi' = TellBoth(esi, p, s, OK)
             /\ state' = Unset(s, SENDING)
             /\ KernelEntry(Unblocked(s, SENDING), {})
             /\ interrupts' = interrupts
    BY <1>2 DEF ReceiveMessage
  <2> DEFINE s == list[p][i]
  <2>2. s \in Procs /\ Unblocked(s, SENDING) = {s}
    BY WaiterSleeps DEF Heads
  <2>3. CASE q = s
    BY <2>1, <2>2, <2>3 DEF TellBoth, Spared, IInv, TypeOK
  <2>4. CASE q # s
    BY <2>1, <2>2, <2>4 DEF TellBoth, Unset, KernelEntry, Spared, IInv, TypeOK
  <2>5. QED
    BY <2>3, <2>4
<1>3. CASE ReceiveBlocks(p, NULL, len)
  BY <1>3 DEF ReceiveBlocks, KernelEntry, Spared, IInv, TypeOK
<1>4. QED
  BY <1>1, <1>2, <1>3 DEF CallReceive

LEMMA SendSpares ==
  ASSUME IInv, NEW p \in Procs, curptr = p, NEW f \in Features, NEW block \in BOOLEAN,
         CallSend(p, f, block), NEW q \in Procs, q # p
  PROVE  Spared(q)
<1>1. CASE SendRefused(p, f, TRUE, block)
  <2>1. PICK verdict : Return(p, verdict)
    BY <1>1 DEF SendRefused
  <2>2. QED
    BY <2>1 DEF Return, KernelEntry, Spared, IInv, TypeOK
<1>2. CASE SendDelivers(p, f, 1)
  <2> DEFINE r == supplier[f]
  <2>1. r \in Procs /\ RECEIVING \in state[r]
    BY <1>2 DEF IInv, TypeOK, Owners, SendDelivers, ReceivingFrom
  <2>2. Unblocked(r, RECEIVING) = {r}
    BY <2>1, ReceiverSleeps
  <2>3. CASE q = r
    BY <1>2, <2>1, <2>3 DEF SendDelivers, TellBoth, Spared, IInv, TypeOK
  <2>4. CASE q # r
    BY <1>2, <2>1, <2>2, <2>4 DEF SendDelivers, TellBoth, Unset, KernelEntry, Spared, IInv, TypeOK
  <2>5. QED
    BY <2>3, <2>4
<1>3. CASE SendQueues(p, f, 1)
  BY <1>3 DEF SendQueues, KernelEntry, Spared, IInv, TypeOK
<1>4. CASE SendAwaits(p, f, 1)
  BY <1>4 DEF SendAwaits, KernelEntry, Spared, IInv, TypeOK
<1>5. QED
  BY <1>1, <1>2, <1>3, <1>4 DEF CallSend

LEMMA StartSpares ==
  ASSUME IInv, NEW p \in Procs,
         (\E n : TakeIrq(p, n)) \/ (\E f : TakeFeature(p, f)) \/ ClockTick,
         NEW q \in Procs, q # p \/ ClockTick
  PROVE  Spared(q)
BY DEF TakeIrq, TakeFeature, ClockTick, ipcVars, KernelEntry, Spared, IInv, TypeOK

LEMMA ExitSpares ==
  ASSUME SInv, curptr = hd, Exit(hd), NEW q \in Procs, q # hd
  PROVE  Spared(q)
<1>1. IInv /\ hd \in Procs
  BY DEF SInv
<1>2. list[hd] = <<>>
  BY DEF SInv, HdSuppliesNothing, IInv, WaitersFollowSupplier
<1>3. ToSet(list[hd]) = {}
  BY <1>2 DEF ToSet
<1>4. /\ esi'[q] = esi[q] /\ state'[q] = state[q] /\ interrupts' = interrupts
      /\ KernelEntry(UNION {Unblocked(r, SENDING) : r \in {}}, {hd})
  BY <1>1, <1>3 DEF Exit, IInv, TypeOK
<1>5. QED
  BY <1>4 DEF Spared, KernelEntry

\* A process that is spared keeps what the invariant says of it.
LEMMA SparedNotFailed ==
  ASSUME NothingFailed, NEW p \in {tty, shell}, Spared(p), pc'[p] = pc[p]
  PROVE  p \in ready' /\ pc'[p] \in {"loop", "received"} => ~Failed(p)'
BY DEF Spared, NothingFailed, Failed, OK

LEMMA SparedKeyHeld ==
  ASSUME KeyHeld, Spared(tty), pc'[tty] = pc[tty], key' = key
  PROVE  KeyHeld'
BY DEF Spared, KeyHeld, Hears, OK
-----------------------------------------------------------------------------
(***************************************************************************)
(* One lemma per program.                                                  *)
(***************************************************************************)
\* A receive that is over reports interrupts or a message.
LEMMA ReceiveOutcome ==
  ASSUME IInv, NEW p \in Procs, curptr = p, NEW len \in Lens, CallReceive(p, len)
  PROVE  /\ interrupts'[p] = {}
         /\ supplier' = supplier
         /\ \/ esi'[p] = interrupts[p]
            \/ esi'[p] = OK
            \/ p \notin ready' /\ RECEIVING \in state'[p]
<1>1. CASE ReceiveInterrupt(p, len)
  BY <1>1 DEF ReceiveInterrupt, IInv, TypeOK
<1>2. CASE ReceiveMessage(p, NULL, len)
  <2>1. PICK i \in DOMAIN list[p] :
          /\ esi' = TellBoth(esi, p, list[p][i], OK)
          /\ interrupts' = interrupts /\ interrupts[p] = {} /\ supplier' = supplier
    BY <1>2 DEF ReceiveMessage
  <2>2. list[p][i] \in Procs
    BY WaiterSleeps DEF Heads
  <2>3. QED
    BY <2>1, <2>2 DEF TellBoth, IInv, TypeOK
<1>3. CASE ReceiveBlocks(p, NULL, len)
  BY <1>3 DEF ReceiveBlocks, KernelEntry, IInv, TypeOK
<1>4. QED
  BY <1>1, <1>2, <1>3 DEF CallReceive

\* A send that may block, to somebody else's feature, ends well or not yet.
LEMMA SendOutcome ==
  ASSUME IInv, NEW p \in Procs, curptr = p, NEW f \in Features, supplier[f] # p,
         CallSend(p, f, TRUE)
  PROVE  esi'[p] = OK \/ p \notin ready'
<1>1. ~SendRefused(p, f, TRUE, TRUE)
  BY DEF SendRefused
<1>2. CASE SendDelivers(p, f, 1)
  <2>1. supplier[f] \in Procs
    BY <1>2 DEF IInv, TypeOK, Owners, SendDelivers
  <2>2. QED
    BY <1>2, <2>1 DEF SendDelivers, TellBoth, IInv, TypeOK
<1>3. CASE SendQueues(p, f, 1) \/ SendAwaits(p, f, 1)
  BY <1>3 DEF SendQueues, SendAwaits, KernelEntry
<1>4. QED
  BY <1>1, <1>2, <1>3 DEF CallSend

LEMMA SendKeepsTables ==
  ASSUME NEW p, NEW f, NEW block, CallSend(p, f, block)
  PROVE  interrupts' = interrupts /\ supplier' = supplier
BY DEF CallSend, SendRefused, Return, SendDelivers, SendQueues, SendAwaits

LEMMA InterruptBits ==
  ASSUME IInv, NEW p \in Procs
  PROVE  \A n \in interrupts[p] : ~(n < 0)
BY DEF IInv, TypeOK

\* The receive of the terminal, wherever it comes from.
LEMMA TtyReceives ==
  ASSUME SInv, curptr = tty, NEW line \in BOOLEAN, TtyReceive(line),
         pc' = [pc EXCEPT ![tty] = "received"], asked' \in BOOLEAN, UNCHANGED hasty
  PROVE  PcTypeOK' /\ SmallTypesOK' /\ KeyHeld' /\ NothingFailed' /\ HdSuppliesNothing'
<1>1. /\ IInv /\ tty \in Procs /\ shell \in Procs /\ tty # shell /\ Room(line) \in Lens
      /\ CallReceive(tty, Room(line)) /\ key' = key /\ left' = left /\ typing' = line
  BY ThreePrograms DEF SInv, Room, TtyReceive
<1>2. /\ interrupts'[tty] = {} /\ supplier' = supplier
      /\ \/ esi'[tty] = interrupts[tty]
         \/ esi'[tty] = OK
         \/ tty \notin ready' /\ RECEIVING \in state'[tty]
  BY <1>1, ReceiveOutcome
<1>3. PcTypeOK' /\ pc'[tty] = "received" /\ pc'[shell] = pc[shell]
  BY <1>1 DEF SInv, PcTypeOK
<1>4. said' \in Procs
  <2>1. list[tty] # <<>> => Head(list[tty]) \in Procs
    BY <1>1 DEF IInv, TypeOK, Heads
  <2>2. QED
    BY <1>1, <2>1 DEF SInv, SmallTypesOK, TtyReceive, Author
<1>5. SmallTypesOK'
  BY <1>1, <1>4 DEF SInv, SmallTypesOK
<1>6. KeyHeld'
  <2>1. Hears' => 1 \in interrupts[tty]
    BY <1>2 DEF Hears, OK
  <2>2. QED
    BY <1>1, <1>2, <1>3, <2>1 DEF SInv, KeyHeld
<1>7. NothingFailed'
  <2>1. tty \in ready' => ~Failed(tty)'
    BY <1>1, <1>2, InterruptBits DEF Failed, OK
  <2>2. Spared(shell)
    BY <1>1, ReceiveSpares
  <2>3. shell \in ready' /\ pc'[shell] \in {"loop", "received"} => ~Failed(shell)'
    BY <1>3, <2>2, SparedNotFailed DEF SInv
  <2>4. QED
    BY <2>1, <2>3 DEF NothingFailed
<1>8. HdSuppliesNothing'
  BY <1>2 DEF SInv, HdSuppliesNothing
<1>9. QED
  BY <1>3, <1>5, <1>6, <1>7, <1>8

\* The other steps of the terminal leave the verdict of the shell alone.
LEMMA TtyMoves ==
  ASSUME SInv, curptr = tty, NEW to, pc' = [pc EXCEPT ![tty] = to],
         to \in Keys \cup {"feature", "loop", "flush"},
         to = "loop" => ~Failed(tty)',
         Spared(shell), 1 \in interrupts'[tty] => key' # "none",
         UNCHANGED <<typing, said, left, asked, hasty>>, key' \in Keys \cup {"none"},
         \A f \in Features : supplier'[f] \in {supplier[f], tty}
  PROVE  PcTypeOK' /\ SmallTypesOK' /\ KeyHeld' /\ NothingFailed' /\ HdSuppliesNothing'
<1>1. tty \in Procs /\ shell \in Procs /\ tty # shell /\ tty # hd
  BY ThreePrograms
<1>2. PcTypeOK' /\ pc'[tty] = to /\ pc'[shell] = pc[shell]
  BY <1>1 DEF SInv, PcTypeOK
<1>3. SmallTypesOK'
  BY DEF SInv, SmallTypesOK
<1>4. to # "received" /\ KeyHeld'
  BY <1>2 DEF KeyHeld, Hears, Keys
<1>5. shell \in ready' /\ pc'[shell] \in {"loop", "received"} => ~Failed(shell)'
  BY <1>2, SparedNotFailed DEF SInv
<1>6. NothingFailed'
  BY <1>2, <1>4, <1>5 DEF NothingFailed
<1>7. HdSuppliesNothing'
  BY <1>1 DEF SInv, HdSuppliesNothing
<1>8. QED
  BY <1>2, <1>3, <1>4, <1>6, <1>7

LEMMA TtyKeeps ==
  ASSUME SInv, curptr = tty, TtyStep, UNCHANGED hasty
  PROVE  PcTypeOK' /\ SmallTypesOK' /\ KeyHeld' /\ NothingFailed' /\ HdSuppliesNothing'
<1>1. /\ IInv /\ tty \in Procs /\ shell \in Procs /\ tty # shell /\ typing \in BOOLEAN
      /\ asked \in BOOLEAN /\ TTY \in Features /\ CMD \in Features
      /\ key \in Keys \cup {"none"} /\ (1 \in interrupts[tty] => key # "none")
  BY ThreePrograms DEF SInv, SmallTypesOK, KeyHeld
<1>2. CASE Goto(tty, "start", "feature") /\ TakeIrq(tty, 1) /\ UNCHANGED <<typing, said, left, key, asked>>
  <2>1. Spared(shell)
    BY <1>1, <1>2, StartSpares
  <2>2. supplier' = supplier /\ interrupts' = interrupts
    BY <1>2 DEF TakeIrq
  <2>3. QED
    BY <1>1, <1>2, <2>1, <2>2, TtyMoves DEF Goto
<1>3. CASE Goto(tty, "feature", "loop") /\ TakeFeature(tty, TTY) /\ UNCHANGED <<typing, said, left, key, asked>>
  <2>1. Spared(shell)
    BY <1>1, <1>3, StartSpares
  <2>2. /\ \A f \in Features : supplier'[f] \in {supplier[f], tty}
        /\ interrupts' = interrupts /\ esi'[tty] = OK
    BY <1>1, <1>3 DEF TakeFeature, IInv, TypeOK
  <2>3. ~Failed(tty)'
    BY <2>2 DEF Failed, OK
  <2>4. QED
    BY <1>1, <1>3, <2>1, <2>2, <2>3, TtyMoves DEF Goto
<1>4. CASE TtyReadsKey
  <2>1. Spared(shell) /\ UNCHANGED <<supplier, interrupts, esi, state>>
    BY <1>1, <1>4, StartSpares DEF TtyReadsKey, ClockTick, ipcVars
  <2>2. RECEIVING \notin state[tty]
    BY <1>1, RunnerIsFree
  <2>3. key # "none" /\ 1 \notin interrupts[tty]
    BY <1>4, <2>2 DEF TtyReadsKey, Goto, KeyBit, SInv, KeyHeld, Hears
  <2>4. key \in Keys
    BY <1>1, <2>3
  <2>5. key # "loop"
    BY <2>4 DEF Keys
  <2>6. QED
    BY <1>1, <1>4, <2>1, <2>3, <2>4, <2>5, TtyMoves DEF TtyReadsKey, Goto
<1>5. CASE \E line \in BOOLEAN : /\ TtyReceive(line) /\ pc' = [pc EXCEPT ![tty] = "received"]
                                 /\ asked' \in BOOLEAN
  BY <1>5, TtyReceives
<1>6. CASE /\ Goto(tty, "enter", "flush") /\ CallSend(tty, CMD, FALSE)
           /\ UNCHANGED <<typing, said, left, key, asked>>
  <2>1. Spared(shell) /\ interrupts' = interrupts /\ supplier' = supplier
    BY <1>1, <1>6, SendSpares, SendKeepsTables
  <2>2. QED
    BY <1>1, <1>6, <2>1, TtyMoves DEF Goto
<1>7. TtyLoop \/ TtyShows \/ TtyEdits \/ (Goto(tty, "flush", "received") /\ TtyReceive(FALSE) /\ UNCHANGED asked)
        => \E line \in BOOLEAN : /\ TtyReceive(line) /\ pc' = [pc EXCEPT ![tty] = "received"]
                                 /\ asked' \in BOOLEAN
  BY <1>1 DEF TtyLoop, TtyShows, TtyEdits, Goto
<1>8. QED
  BY <1>2, <1>3, <1>4, <1>5, <1>6, <1>7 DEF TtyStep, TtyStart, TtyEnter

LEMMA ShellKeeps ==
  ASSUME SInv, curptr = shell, ShellStep, UNCHANGED hasty
  PROVE  PcTypeOK' /\ SmallTypesOK' /\ KeyHeld' /\ NothingFailed' /\ HdSuppliesNothing'
<1>1. /\ IInv /\ tty \in Procs /\ shell \in Procs /\ tty # shell /\ shell # hd
      /\ TTY \in Features /\ CMD \in Features /\ Full \in Lens
  BY ThreePrograms DEF SInv
<1>2. PICK to \in {"loop", "received"} : pc' = [pc EXCEPT ![shell] = to]
  BY DEF ShellStep, Goto
<1>3. PcTypeOK' /\ pc'[shell] = to /\ pc'[tty] = pc[tty]
  BY <1>1, <1>2 DEF SInv, PcTypeOK
<1>4. CASE Goto(shell, "start", "loop") /\ TakeFeature(shell, CMD) /\ UNCHANGED <<typing, said, left, key, asked>>
  <2>1. Spared(tty)
    BY <1>1, <1>4, StartSpares
  <2>2. esi'[shell] = OK /\ \A f \in Features : supplier'[f] \in {supplier[f], shell}
    BY <1>1, <1>4 DEF TakeFeature, IInv, TypeOK
  <2>3. ~Failed(shell)'
    BY <2>2 DEF Failed, OK
  <2>4. NothingFailed'
    BY <1>3, <2>1, <2>3, SparedNotFailed DEF SInv, NothingFailed
  <2>5. KeyHeld'
    BY <1>3, <1>4, <2>1, SparedKeyHeld DEF SInv
  <2>6. SmallTypesOK' /\ HdSuppliesNothing'
    BY <1>1, <1>4, <2>2 DEF SInv, SmallTypesOK, HdSuppliesNothing
  <2>7. QED
    BY <1>3, <2>4, <2>5, <2>6
<1>5. CASE CallReceive(shell, Full) /\ UNCHANGED <<typing, said, left, key, asked>>
  <2>1. Spared(tty)
    BY <1>1, <1>5, ReceiveSpares
  <2>2. /\ supplier' = supplier
        /\ \/ esi'[shell] = interrupts[shell]
           \/ esi'[shell] = OK
           \/ shell \notin ready' /\ RECEIVING \in state'[shell]
    BY <1>1, <1>5, ReceiveOutcome
  <2>3. shell \in ready' => ~Failed(shell)'
    BY <1>1, <2>2, InterruptBits DEF Failed, OK
  <2>4. NothingFailed'
    BY <1>3, <2>1, <2>3, SparedNotFailed DEF SInv, NothingFailed
  <2>5. KeyHeld'
    BY <1>3, <1>5, <2>1, SparedKeyHeld DEF SInv
  <2>6. SmallTypesOK' /\ HdSuppliesNothing'
    BY <1>5, <2>2 DEF SInv, SmallTypesOK, HdSuppliesNothing
  <2>7. QED
    BY <1>3, <2>4, <2>5, <2>6
<1>6. CASE Says(shell) /\ UNCHANGED left
  <2>1. Spared(tty) /\ supplier' = supplier
    BY <1>1, <1>6, SendSpares, SendKeepsTables DEF Says
  <2>2. supplier[TTY] # shell
    <3>1. TTY \notin Supplies[shell] /\ shell # NULL
      OBVIOUS
    <3>2. QED
      BY <1>1, <3>1 DEF IInv, SuppliesItsOwn
  <2>3. esi'[shell] = OK \/ shell \notin ready'
    BY <1>1, <1>6, <2>2, SendOutcome DEF Says
  <2>4. shell \in ready' => ~Failed(shell)'
    BY <2>3 DEF Failed, OK
  <2>5. NothingFailed'
    BY <1>3, <2>1, <2>4, SparedNotFailed DEF SInv, NothingFailed
  <2>6. KeyHeld'
    BY <1>3, <1>6, <2>1, SparedKeyHeld DEF SInv, Says
  <2>7. SmallTypesOK' /\ HdSuppliesNothing'
    BY <1>1, <1>6, <2>1 DEF SInv, SmallTypesOK, HdSuppliesNothing, Says, Author
  <2>8. QED
    BY <1>3, <2>5, <2>6, <2>7
<1>7. QED
  BY <1>4, <1>5, <1>6 DEF ShellStep, ShellFeature

\* A step that is not made by the terminal or the shell.
LEMMA OthersKeep ==
  ASSUME SInv, Spared(tty), Spared(shell), UNCHANGED <<pc, key>>, SmallTypesOK',
         supplier' = supplier
  PROVE  PcTypeOK' /\ SmallTypesOK' /\ KeyHeld' /\ NothingFailed' /\ HdSuppliesNothing'
<1>1. KeyHeld'
  BY SparedKeyHeld DEF SInv
<1>2. NothingFailed'
  BY SparedNotFailed DEF SInv, NothingFailed
<1>3. PcTypeOK' /\ HdSuppliesNothing'
  BY DEF SInv, PcTypeOK, HdSuppliesNothing
<1>4. QED
  BY <1>1, <1>2, <1>3

LEMMA HdKeeps ==
  ASSUME SInv, curptr = hd, HdStep, UNCHANGED hasty
  PROVE  PcTypeOK' /\ SmallTypesOK' /\ KeyHeld' /\ NothingFailed' /\ HdSuppliesNothing'
<1>1. /\ IInv /\ tty \in Procs /\ shell \in Procs /\ hd \in Procs /\ tty # hd /\ shell # hd
      /\ TTY \in Features
  BY ThreePrograms DEF SInv
<1>2. CASE (\E n : TakeIrq(hd, n)) /\ UNCHANGED <<typing, said, left, key, asked>>
  <2>1. Spared(tty) /\ Spared(shell)
    BY <1>1, <1>2, StartSpares
  <2>2. supplier' = supplier /\ SmallTypesOK'
    BY <1>2 DEF TakeIrq, SInv, SmallTypesOK
  <2>3. QED
    BY <1>2, <2>1, <2>2, OthersKeep DEF HdStep
<1>3. CASE left > 0 /\ left' = left - 1 /\ Says(hd)
  <2>1. Spared(tty) /\ Spared(shell) /\ supplier' = supplier
    BY <1>1, <1>3, SendSpares, SendKeepsTables DEF Says
  <2>2. SmallTypesOK'
    <3>1. left' \in 0 .. Reports
      BY <1>3 DEF SInv, SmallTypesOK
    <3>2. QED
      BY <1>1, <1>3, <3>1 DEF SInv, SmallTypesOK, Says, Author
  <2>3. QED
    BY <1>3, <2>1, <2>2, OthersKeep DEF HdStep, Says
<1>4. CASE Exit(hd) /\ UNCHANGED <<typing, said, left, key, asked>>
  <2>1. Spared(tty) /\ Spared(shell)
    BY <1>1, <1>4, ExitSpares
  <2>2. supplier' = supplier /\ SmallTypesOK'
    BY <1>4 DEF Exit, SInv, SmallTypesOK
  <2>3. QED
    BY <1>4, <2>1, <2>2, OthersKeep DEF HdStep
<1>5. QED
  BY <1>2, <1>3, <1>4 DEF HdStep

LEMMA TickKeeps ==
  ASSUME SInv, Tick, UNCHANGED hasty
  PROVE  PcTypeOK' /\ SmallTypesOK' /\ KeyHeld' /\ NothingFailed' /\ HdSuppliesNothing'
<1>1. Spared(tty) /\ Spared(shell)
  BY StartSpares DEF SInv, Tick
<1>2. supplier' = supplier /\ SmallTypesOK'
  BY DEF Tick, ClockTick, ipcVars, SInv, SmallTypesOK
<1>3. QED
  BY <1>1, <1>2, OthersKeep DEF Tick

\* A key is pressed while the controller is empty: no bit of the keyboard is
\* on its way then, and the one that is made now comes with a scancode.
LEMMA TypesKeeps ==
  ASSUME SInv, NEW k \in Keys, Types(k), UNCHANGED hasty
  PROVE  PcTypeOK' /\ SmallTypesOK' /\ KeyHeld' /\ NothingFailed' /\ HdSuppliesNothing'
<1>1. /\ IInv /\ tty \in Procs /\ shell \in Procs /\ key' # "none" /\ pc' = pc
      /\ 1 \notin interrupts[tty] /\ ~Hears
  BY DEF SInv, KeyHeld, Types, Keys
<1>2. PcTypeOK' /\ SmallTypesOK'
  BY DEF SInv, PcTypeOK, SmallTypesOK, Types
<1>3. irqs[1] \in Procs \cup {NULL}
  BY DEF SInv, IInv, TypeOK, Owners
<1>4. CASE KernelEntry({}, {}) /\ UNCHANGED ipcVars
  <2>1. UNCHANGED <<ready, interrupts, supplier, esi, state>>
    BY <1>4 DEF ipcVars, KernelEntry
  <2>2. KeyHeld'
    BY <1>1, <2>1 DEF KeyHeld, Hears, SInv
  <2>3. NothingFailed' /\ HdSuppliesNothing'
    BY <1>1, <2>1 DEF SInv, NothingFailed, Failed, HdSuppliesNothing
  <2>4. QED
    BY <1>2, <2>2, <2>3
<1>5. CASE irqs[1] \in Procs /\ NotifyReceiver(irqs[1], 1)
  <2> DEFINE r == irqs[1]
  <2>1. Unblocked(r, RECEIVING) = {r}
    BY <1>1, <1>5, ReceiverSleeps DEF NotifyReceiver, InReceive
  <2>2. /\ esi'[r] = {1} /\ \A q \in Procs \ {r} : esi'[q] = esi[q]
        /\ ready' = ready \cup {r} /\ interrupts' = interrupts /\ supplier' = supplier
    BY <1>1, <1>5, <2>1 DEF NotifyReceiver, KernelEntry, IInv, TypeOK
  <2> HIDE DEF r
  <2>3. KeyHeld'
    BY <1>1, <2>2 DEF KeyHeld, SInv
  <2>4. \A p \in {tty, shell} : Failed(p)' => Failed(p) /\ p # r
    BY <1>1, <2>2 DEF Failed
  <2>5. NothingFailed' /\ HdSuppliesNothing'
    BY <1>1, <2>2, <2>4 DEF SInv, NothingFailed, HdSuppliesNothing
  <2>6. QED
    BY <1>2, <2>3, <2>5
<1>6. CASE irqs[1] \in Procs /\ NotifyLater(irqs[1], 1)
  <2>1. UNCHANGED <<ready, supplier, esi, state>>
    BY <1>6 DEF NotifyLater, KernelEntry
  <2>2. KeyHeld'
    BY <1>1, <2>1 DEF KeyHeld, Hears, SInv
  <2>3. NothingFailed' /\ HdSuppliesNothing'
    BY <1>1, <2>1 DEF SInv, NothingFailed, Failed, HdSuppliesNothing
  <2>4. QED
    BY <1>2, <2>2, <2>3
<1>7. QED
  BY <1>3, <1>4, <1>5, <1>6 DEF Types, HardInt
-----------------------------------------------------------------------------
\* Every call of a program, every key and every interrupt keeps the invariant.
LEMMA StepSInv == SInv /\ [SysNext]_sysVars => SInv'
<1> SUFFICES ASSUME SInv, [SysNext]_sysVars
             PROVE  SInv'
  OBVIOUS
<1>1. IInv'
  BY StepIsEntry, StepIInv DEF SInv
<1>2. CASE UNCHANGED sysVars
  <2>1. UNCHANGED <<pc, typing, said, left, key, asked, hasty, vars>>
    BY <1>2 DEF sysVars
  <2>2. UNCHANGED <<ready, supplier, interrupts, esi, state>>
    BY <2>1 DEF vars, rqVars, ipcVars
  <2>3. PcTypeOK' /\ SmallTypesOK' /\ HdSuppliesNothing'
    BY <2>1, <2>2 DEF SInv, PcTypeOK, SmallTypesOK, HdSuppliesNothing
  <2>4. KeyHeld' /\ NothingFailed'
    BY <2>1, <2>2 DEF SInv, KeyHeld, Hears, NothingFailed, Failed
  <2>5. QED
    BY <1>1, <2>3, <2>4 DEF SInv
<1>3. CASE SysNext
  <2>1. CASE \E p \in Procs : Program(p)
    BY <1>1, <1>3, <2>1, ProgramCases, TtyKeeps, ShellKeeps, HdKeeps DEF SysNext, SInv
  <2>2. CASE Tick
    BY <1>1, <1>3, <2>2, TickKeeps DEF SysNext, SInv
  <2>3. CASE \E k \in Keys : Types(k)
    BY <1>1, <1>3, <2>3, TypesKeeps DEF SysNext, SInv
  <2>4. QED
    BY <1>3, <2>1, <2>2, <2>3 DEF SysNext
<1>4. QED
  BY <1>2, <1>3

\* The places of the programs, the registers they wait on and the tables of
\* the kernel fit together in every reachable state.
THEOREM SystemInvariance == SysSpec => []SInv
<1>1. SysInit => SInv
  BY InitSInv
<1>2. SInv /\ [SysNext]_sysVars => SInv'
  BY StepSInv
<1>3. QED
  BY <1>1, <1>2, PTL DEF SysSpec

\* The programs keep their types: who is at which call, whose text is shown,
\* and the tables of the kernel under them.
THEOREM SystemTypeCorrect == SysSpec => []SysTypeOK
<1>1. SInv => SysTypeOK
  BY DEF SInv, IInv, PcTypeOK, SmallTypesOK, SysTypeOK
<1>2. QED
  BY <1>1, SystemInvariance, PTL

\* handle_interrupt of the terminal reads a scancode that is there, once
\* (tty/main.c, kernel/utilities_C.c notify_irq): the bit of the keyboard is
\* in one place at most, and only while the controller holds a scancode.
THEOREM RealKeysAreRead == SysSpec => []ReadsRealKeys
<1>1. SInv => ReadsRealKeys
  BY DEF SInv, KeyHeld, ReadsRealKeys
<1>2. QED
  BY <1>1, SystemInvariance, PTL

\* No call of main_loop (tty/main.c) and of the shell's loop fails, so neither
\* program exits: only the disk driver ends, and nobody waits for it.
THEOREM DriversStayAlive == SysSpec => []DriversLive
<1>1. SInv => DriversLive
  BY DEF SInv, IInv, RunnerIsReady, NothingFailed, DriversLive
<1>2. QED
  BY <1>1, SystemInvariance, PTL
=============================================================================
