------------------------------- MODULE Kernel -------------------------------
(***************************************************************************)
(* The kernel as a whole: start creates the processes of the programs that *)
(* were loaded behind it and enables interrupts; from then on each entry   *)
(* is a call of Ipc, with the buffers it names looked up in the segment    *)
(* descriptors of the caller (ProcTable), or a call that reaches hardware: *)
(* the I/O ports and vir2phys.                                             *)
(***************************************************************************)
EXTENDS Ipc, ProcTable

CONSTANTS
  Boots,                   \* what may be loaded: sequences of [name, size]
  KernelEnd,               \* where the first program lies
  Tty,                     \* the program that is given the screen
  VideoBase, VideoLimit,   \* the screen, 0xb8000 and 4096
  Addrs,                   \* the addresses programs pass
  NUM_PORTS, PortArgs,     \* ports, and the words that programs pass for one
  DeviceWords              \* what a port is read as

\* The programs lie one behind the other, the first behind the kernel: the
\* address behind each of them.
Ends(boot) ==
  LET end[i \in 0 .. Len(boot)] ==
        IF i = 0 THEN KernelEnd ELSE end[i - 1] + boot[i].size
  IN end

\* The boot loader runs in real mode, where there is one megabyte.
ASSUME KernelAssumption ==
  /\ Addrs \subseteq 0 .. Word - 1 /\ Lens \subseteq 0 .. Word - 1
  /\ NUM_PORTS \in Nat \ {0} /\ PortArgs \subseteq Nat /\ DeviceWords \subseteq Nat
  /\ KernelEnd \in Nat /\ VideoBase \in 0 .. Word - 2 /\ VideoLimit \in 0 .. Word - 1
  /\ Boots \subseteq Seq([name : Procs, size : 1 .. OneMeg - 1])
  /\ \A boot \in Boots : Ends(boot)[Len(boot)] < Word
  /\ \A boot \in Boots : \A i, j \in DOMAIN boot : boot[i].name = boot[j].name => i = j

VARIABLES
  loaded,          \* the programs behind the kernel
  created,         \* how many of them are processes
  phase,           \* what the machine does: see below
  t,               \* the process table
  edx,             \* the address a process offers
  port_accessers,  \* the process that claimed a port
  touched,         \* history: what the last entry read and wrote for programs
  drivers          \* history: the processes that ever reached a port

bootVars == <<loaded, created, phase>>
kernelVars == <<bootVars, t, edx, port_accessers, touched, drivers>>

\* start creates processes with interrupts off, until sti; a machine that
\* stopped handles nothing any more.
STARTING == "starting"
RUNNING == "running"
STOPPED == "stopped"

NOPERMS == {-9}
UNAVAILABLE == {-10}
INVALIDADDRESS == {-14}
Ports == 0 .. NUM_PORTS - 1

KInit ==
  /\ ready = {} /\ curptr = NULL
  /\ state = [p \in Procs |-> {EMPTY}]
  /\ Unclaimed
  /\ loaded \in Boots /\ created = 0 /\ phase = STARTING
  /\ t = EmptyTable(NULL)
  /\ edx = [p \in Procs |-> 0]
  /\ port_accessers = [n \in Ports |-> NULL]
  /\ touched = {} /\ drivers = [n \in Ports |-> {}]
-----------------------------------------------------------------------------
(***************************************************************************)
(* start                                                                   *)
(***************************************************************************)
AddressOf(i) == Ends(loaded)[i - 1]

SegmentArgs(i) ==
  LET ofTty(s) == loaded[i].name = Tty /\ s = "gs"
  IN [name |-> loaded[i].name,
      base |-> [s \in Segments |-> IF ofTty(s) THEN VideoBase ELSE AddressOf(i)],
      limit |-> [s \in Segments |-> IF ofTty(s) THEN VideoLimit ELSE loaded[i].size]]

\* A process that could not be created is enqueued all the same: NULL is
\* followed into the kernel's own memory.
CreateProgram ==
  LET i == created + 1
      c == Create(t, SegmentArgs(i))
  IN /\ phase = STARTING /\ created < Len(loaded)
     /\ t' = c.m
     /\ \/ /\ c.slot # 0
           /\ created' = i
           /\ state' = [state EXCEPT ![loaded[i].name] = {}]
           /\ ready' = ready \cup {loaded[i].name}
           /\ UNCHANGED phase
        \/ c.slot = 0 /\ phase' = STOPPED /\ UNCHANGED <<created, state, ready>>
     /\ UNCHANGED <<curptr, list, want, supplier, irqs, interrupts, esi, eax, ecx>>
     /\ UNCHANGED <<loaded, edx, port_accessers, touched, drivers>>

EnableInterrupts ==
  /\ phase = STARTING /\ created = Len(loaded)
  /\ phase' = RUNNING
  /\ UNCHANGED <<vars, loaded, created, t, edx, port_accessers, touched, drivers>>
-----------------------------------------------------------------------------
(***************************************************************************)
(* The calls of Ipc                                                        *)
(***************************************************************************)
SlotOf(p) == CHOOSE i \in 1 .. MAX_NO_PROCS : t.slot[i].name = p
DataSegment(p) == t.gdt[t.slot[SlotOf(p)].sel["ds"]]

\* validate_data_area adds in 32 bits.
FaultStartValid(p, addr, size) == GetLimit(DataSegment(p)) >= addr
ValidArea(p, addr, size) == GetLimit(DataSegment(p)) >= (addr + size) % Word

Physical(p, addr) == (GetBase(DataSegment(p)) + addr) % Word

\* exchange_data: the bytes are read and written through a segment that
\* covers all memory, where the descriptors of the two say.
Exchange(s, at, r, to, bytes) ==
  UNION {{<<"read", s, Physical(s, at + k)>>, <<"write", r, Physical(r, to + k)>>}
           : k \in 0 .. bytes - 1}

Offer(p, addr) == edx' = [edx EXCEPT ![p] = addr]

KSend(p, f, addr, len, block) ==
  LET valid == ValidArea(p, addr, len)
  IN \/ SendRefused(p, f, valid, block) /\ touched' = {} /\ UNCHANGED edx
     \/ /\ f \in Features /\ valid /\ SendDelivers(p, f, len) /\ Offer(p, addr)
        /\ touched' = Exchange(p, addr, supplier[f], edx[supplier[f]], eax'[p])
     \/ f \in Features /\ valid /\ SendQueues(p, f, len) /\ Offer(p, addr) /\ touched' = {}
     \/ f \in Features /\ block /\ SendAwaits(p, f, len) /\ Offer(p, addr) /\ touched' = {}

\* Whose message is taken is told by the list it leaves.
Taken(p) == CHOOSE s \in ToSet(list[p]) : ~Contains(list'[p], s)

KReceive(p, from, addr, len) ==
  \/ ~ValidArea(p, addr, len) /\ Return(p, INVALIDBUFFER) /\ touched' = {} /\ UNCHANGED edx
  \/ /\ ValidArea(p, addr, len)
     /\ Offer(p, addr)
     /\ \/ ReceiveMessage(p, from, len)
             /\ touched' = Exchange(Taken(p), edx[Taken(p)], p, addr, eax'[p])
        \/ (ReceiveInterrupt(p, len) \/ ReceiveBlocks(p, from, len)) /\ touched' = {}

\* The six segments are given back, the ports and the task segment are not.
KExit(p) == Exit(p) /\ t' = Release(t, SlotOf(p)) /\ touched' = {}
-----------------------------------------------------------------------------
(***************************************************************************)
(* vir2phys and the ports.  The calls that succeed without writing esi     *)
(* leave there what the caller had in it.                                  *)
(***************************************************************************)
Answer(p, word) ==
  /\ eax' = [eax EXCEPT ![p] = word]
  /\ KernelEntry({}, {})
  /\ UNCHANGED <<state, list, want, supplier, irqs, interrupts, ecx>>

Vir2Phys(p, virtual) ==
  \/ ~ValidArea(p, virtual, 0) /\ Return(p, INVALIDADDRESS) /\ touched' = {}
  \/ /\ ValidArea(p, virtual, 0)
     /\ Answer(p, Physical(p, virtual)) /\ UNCHANGED esi
     /\ touched' = {<<"told", p, eax'[p]>>}

FaultFree(p, n) == TRUE
MayClaim(p, n) == port_accessers[n] \in {NULL, p}

ClaimPort(p, n) ==
  \/ ~MayClaim(p, n) /\ Return(p, UNAVAILABLE) /\ UNCHANGED port_accessers
  \/ /\ MayClaim(p, n)
     /\ port_accessers' = [port_accessers EXCEPT ![n] = p]
     /\ KernelEntry({}, {}) /\ UNCHANGED ipcVars

\* inb and inw give the caller a word of the device, outb and outw give the
\* device one of his.
UsePort(p, n) ==
  \/ port_accessers[n] # p /\ Return(p, NOPERMS) /\ UNCHANGED drivers
  \/ /\ port_accessers[n] = p
     /\ drivers' = [drivers EXCEPT ![n] = @ \cup {p}]
     /\ \/ \E word \in DeviceWords : Answer(p, word) /\ esi' = [esi EXCEPT ![p] = OK]
        \/ Return(p, OK)
-----------------------------------------------------------------------------
KSyscall(p) ==
  \/ \E f \in Features \cup {NoFeature}, addr \in Addrs, len \in Lens, block \in BOOLEAN :
       KSend(p, f, addr, len, block) /\ UNCHANGED <<t, port_accessers, drivers>>
  \/ \E from \in Owners, addr \in Addrs, len \in Lens :
       KReceive(p, from, addr, len) /\ UNCHANGED <<t, port_accessers, drivers>>
  \/ (SetFeature(p) \/ RequestIrq(p) \/ UnknownSyscall(p))
       /\ touched' = {} /\ UNCHANGED <<t, edx, port_accessers, drivers>>
  \/ KExit(p) /\ UNCHANGED <<edx, port_accessers, drivers>>
  \/ \E virtual \in Addrs : Vir2Phys(p, virtual) /\ UNCHANGED <<t, edx, port_accessers, drivers>>
  \/ \E port \in PortArgs : /\ \/ ClaimPort(p, port % NUM_PORTS) /\ UNCHANGED drivers
                               \/ UsePort(p, port % NUM_PORTS) /\ UNCHANGED port_accessers
                            /\ touched' = {} /\ UNCHANGED <<t, edx>>

KInterrupt ==
  /\ ClockTick \/ \E n \in Wired : HardInt(n)
  /\ touched' = {} /\ UNCHANGED <<t, edx, port_accessers, drivers>>

\* do_exception: a program that faults stops the machine.
Exception ==
  /\ curptr \in Procs
  /\ phase' = STOPPED /\ touched' = {}
  /\ UNCHANGED <<vars, loaded, created, t, edx, port_accessers, drivers>>

Entry ==
  /\ phase = RUNNING
  /\ \/ (\E p \in Procs : curptr = p /\ KSyscall(p)) /\ UNCHANGED bootVars
     \/ KInterrupt /\ UNCHANGED bootVars
     \/ Exception

KNext == CreateProgram \/ EnableInterrupts \/ Entry

KSpec == KInit /\ [][KNext]_<<vars, kernelVars>>
-----------------------------------------------------------------------------
(***************************************************************************)
(* Properties                                                              *)
(***************************************************************************)
Processes == {loaded[i].name : i \in 1 .. created}
Program(p) == CHOOSE i \in 1 .. created : loaded[i].name = p
Image(p) == LET a == AddressOf(Program(p)) IN a .. a + loaded[Program(p)].size - 1
Given(p) == Descriptors(t.slot[SlotOf(p)])

\* create_process and the bitmap, across the calls of start and the exits that
\* follow: every process keeps a slot and seven descriptors of its own, none of
\* them the kernel's; what get_base and get_limit read back from that of its data is where
\* its program lies and how long it is, at every later call; and no program
\* lies where another one lies, or where the BIOS and the screen are.
EachHasItsOwn ==
  /\ \A p \in Processes :
       /\ \A s \in DOMAIN Given(p) : Given(p)[s] \in 1 .. NO_AVL_DSCRPTS - 1 \ KernelDescriptors
       /\ GetBase(DataSegment(p)) = AddressOf(Program(p))
       /\ GetLimit(DataSegment(p)) = loaded[Program(p)].size
       /\ Image(p) \cap LowEnd .. OneMeg - 1 = {}
  /\ \A p, q \in Processes :
       /\ \A r, s \in DOMAIN Given(p) : Given(p)[r] = Given(q)[s] => p = q /\ r = s
       /\ p # q => Image(p) \cap Image(q) = {}

\* The buffer a caller names is looked at when it calls, and used when its peer
\* calls, perhaps much later: all bytes that an exchange reads and writes for a
\* process lie in its program, and so does an address that vir2phys tells, or
\* it is the first behind the program.  Two buffers are not looked at: one
\* whose address and length add up to 2^32 or more, and that of a sender that
\* found no supplier and waited at the feature, with no flag set.
AddressesStayInside ==
  [][\A touch \in touched' :
       LET p == touch[2]
       IN \/ touch[3] \in Image(p)
          \/ touch[1] = "told" /\ touch[3] - 1 \in Image(p)
          \/ touch[1] # "told" /\ edx'[p] + ecx'[p] >= Word
          \/ touch[1] = "read" /\ p # curptr /\ SENDING \notin state[p]]_<<vars, kernelVars>>

\* claim_port and the accesses, across exits: a device is driven by one process
\* from the first access to its port on, and by no other after that one exited,
\* in whatever state it left the device.
OneDriverPerPort == \A n \in Ports : Cardinality(drivers[n]) <= 1
=============================================================================
