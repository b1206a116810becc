-------------------------------- MODULE Ipc ---------------------------------
(***************************************************************************)
(* The system calls of the kernel that make processes meet: synchronous    *)
(* messages sent to the supplier of a feature, device interrupts delivered *)
(* through receive, and exit (kernel/utilities_C.c).                       *)
(*                                                                         *)
(* One action is one entry into the kernel: the handler runs with          *)
(* interrupts off, from do_hard_int to the dispatch at its end.  The       *)
(* process that runs is free to make any call, with any arguments.         *)
(***************************************************************************)
EXTENDS RunQueue, Integers, SequencesExt

CONSTANTS Features,   \* the one-bit feature numbers
          NoFeature,  \* a word with no bit, or several, set
          Supplies,   \* the features each process may try to supply
          Lens,       \* message lengths
          MaxIrq,     \* the highest line number, 15 (MAX_IRQ)
          Lines,      \* the line numbers programs ask for
          Wired       \* the lines unmasked at the interrupt controller

\* No program of this repository supplies two features (tty/main.c:471,
\* shell/main.c:24).  set_feature overwrites firstSender, so a process that
\* supplied a second one would lose the senders that queue for the first.
ASSUME IpcAssumption ==
  /\ Features \cap Procs = {}
  /\ NULL \notin Features /\ NoFeature \notin Features
  /\ Supplies \in [Procs -> SUBSET Features]
  /\ \A p \in Procs : \A f, g \in Supplies[p] : f = g
  /\ Lens \subseteq Nat
  /\ MaxIrq \in Nat /\ Lines \subseteq Nat
  /\ Wired \subseteq (1 .. MaxIrq) \ {2}

VARIABLES
  state,       \* the flags of a process: none, EMPTY, RECEIVING, SENDING
  list,        \* the lists linked by nextSender: firstSender of a process,
               \* waiter of a feature
  want,        \* receivingFrom: the sender a receiver waits for, NULL for any
  supplier,    \* the process that supplies a feature
  irqs,        \* the process that took an interrupt line
  interrupts,  \* the lines that fired since a process last received
  esi,         \* the verdict register
  eax,         \* the number of bytes the last exchange reported
  ecx          \* the length a process offers

ipcVars == <<state, list, want, supplier, irqs, interrupts, esi, eax, ecx>>
vars == <<rqVars, ipcVars>>

EMPTY == "EMPTY"
RECEIVING == "RECEIVING"
SENDING == "SENDING"

\* A word of esi is either a set of interrupt bits, of which OK (0) is the
\* empty one, or a negative error code.
OK == {}
UNKNOWNSYSCALL == {-1}
INVALIDBUFFER == {-2}
CIRCULARSEND == {-3}
WOULDBLOCK == {-4}
INVALIDFEATURE == {-5}
INVALIDIRQ == {-6}
IRQINUSE == {-7}
PROCESSDIED == {-8}
FEATUREBUSY == {-11}

Owners == Procs \cup {NULL}
Heads == Procs \cup Features
Words == SUBSET ((-14 .. -1) \cup (1 .. MaxIrq))
-----------------------------------------------------------------------------
\* Nobody waits, supplies a feature or owns a line.
Unclaimed ==
  /\ list = [h \in Heads |-> <<>>]
  /\ want = [p \in Procs |-> NULL]
  /\ supplier = [f \in Features |-> NULL]
  /\ irqs = [n \in 0 .. MaxIrq |-> NULL]
  /\ interrupts = [p \in Procs |-> {}]
  /\ esi = [p \in Procs |-> OK]
  /\ eax = [p \in Procs |-> 0]
  /\ ecx = [p \in Procs |-> 0]

Init ==
  /\ ready = Procs /\ curptr = NULL
  /\ state = [p \in Procs |-> {}]
  /\ Unclaimed

\* A call that returns to p at once with a verdict and changes nothing else.
Return(p, verdict) ==
  /\ esi' = [esi EXCEPT ![p] = verdict]
  /\ KernelEntry({}, {})
  /\ UNCHANGED <<state, list, want, supplier, irqs, interrupts, eax, ecx>>

\* Each definition named Fault... is a defect that the one after it could have
\* had; the properties are checked to tell the two apart.

\* unsetStateFlag clears a flag of q, and puts q back into the run queue when
\* no flag is left.
FaultKeepFlag(q, flag) == state
Unset(q, flag) == [state EXCEPT ![q] = @ \ {flag}]
FaultNoEnqueue(q, flag) == {}
Unblocked(q, flag) == IF state[q] \ {flag} = {} THEN {q} ELSE {}

FaultOnlyByName(r, s) == RECEIVING \in state[r] /\ want[r] = s
ReceivingFrom(r, s) == RECEIVING \in state[r] /\ want[r] \in {NULL, s}

\* A sender goes to the end of the list it joins.
FaultJoinInFront(h, p) == [list EXCEPT ![h] = <<p>> \o @]
Join(h, p) == [list EXCEPT ![h] = Append(@, p)]

\* Both sides of an exchange are told of it in a register.
FaultTellCaller(reg, p, q, v) == [reg EXCEPT ![p] = v]
TellBoth(reg, p, q, v) == [reg EXCEPT ![p] = v, ![q] = v]

Shorter(m, n) == IF m > n THEN n ELSE m
-----------------------------------------------------------------------------
(***************************************************************************)
(* syscall_send_by_feature and syscall_send                                *)
(***************************************************************************)
SendRefused(p, f, valid, block) ==
  \/ f \notin Features /\ Return(p, INVALIDFEATURE)
  \/ f \in Features /\ supplier[f] = p /\ Return(p, CIRCULARSEND)
  \/ f \in Features /\ supplier[f] = NULL /\ ~block /\ Return(p, WOULDBLOCK)
  \/ f \in Features /\ supplier[f] \notin {p, NULL} /\ ~valid /\ Return(p, INVALIDBUFFER)

\* The supplier waits for p: the message is copied and both go on.
SendDelivers(p, f, len) ==
  LET r == supplier[f]
      bytes == Shorter(len, ecx[r])
  IN /\ r \notin {p, NULL} /\ ReceivingFrom(r, p)
     /\ ecx' = [ecx EXCEPT ![p] = len]
     /\ eax' = TellBoth(eax, p, r, bytes)
     /\ esi' = TellBoth(esi, p, r, OK)
     /\ want' = [want EXCEPT ![r] = NULL]
     /\ state' = Unset(r, RECEIVING)
     /\ KernelEntry(Unblocked(r, RECEIVING), {})
     /\ UNCHANGED <<list, supplier, irqs, interrupts>>

\* The supplier does not: p joins its list and leaves the processor, whatever
\* the block argument says.
SendQueues(p, f, len) ==
  LET r == supplier[f]
  IN /\ r \notin {p, NULL} /\ ~ReceivingFrom(r, p)
     /\ ecx' = [ecx EXCEPT ![p] = len]
     /\ list' = Join(r, p)
     /\ state' = [state EXCEPT ![p] = @ \cup {SENDING}]
     /\ KernelEntry({}, {p})
     /\ UNCHANGED <<want, supplier, irqs, interrupts, esi, eax>>

\* Nobody supplies f yet: p waits at the feature, with no flag set and its
\* buffer not looked at.
SendAwaits(p, f, len) ==
  /\ supplier[f] = NULL
  /\ ecx' = [ecx EXCEPT ![p] = len]
  /\ list' = Join(f, p)
  /\ KernelEntry({}, {p})
  /\ UNCHANGED <<state, want, supplier, irqs, interrupts, esi, eax>>

SendByFeature(p, block) ==
  \E valid \in BOOLEAN :
    \/ \E f \in Features \cup {NoFeature} : SendRefused(p, f, valid, block)
    \/ \E f \in Features, len \in Lens :
         \/ valid /\ SendDelivers(p, f, len)
         \/ valid /\ SendQueues(p, f, len)
         \/ block /\ SendAwaits(p, f, len)
-----------------------------------------------------------------------------
(***************************************************************************)
(* syscall_receive                                                         *)
(***************************************************************************)
\* A pending interrupt goes before any message.
ReceiveInterrupt(p, len) ==
  /\ interrupts[p] # {}
  /\ ecx' = [ecx EXCEPT ![p] = len]
  /\ eax' = [eax EXCEPT ![p] = 0]
  /\ esi' = [esi EXCEPT ![p] = interrupts[p]]
  /\ interrupts' = [interrupts EXCEPT ![p] = {}]
  /\ KernelEntry({}, {})
  /\ UNCHANGED <<state, list, want, supplier, irqs>>

\* get_sender: the first of the list, or the one asked for.
ReceiveMessage(p, from, len) ==
  \E i \in DOMAIN list[p] :
    LET s == list[p][i]
        bytes == Shorter(ecx[s], len)
    IN /\ interrupts[p] = {}
       /\ IF from = NULL THEN i = 1 ELSE s = from
       /\ ecx' = [ecx EXCEPT ![p] = len]
       /\ eax' = TellBoth(eax, p, s, bytes)
       /\ esi' = TellBoth(esi, p, s, OK)
       /\ list' = [list EXCEPT ![p] = RemoveAt(@, i)]
       /\ state' = Unset(s, SENDING)
       /\ KernelEntry(Unblocked(s, SENDING), {})
       /\ UNCHANGED <<want, supplier, irqs, interrupts>>

FaultSleepAnyway(p, from, len) ==
  /\ IF from = NULL THEN list[p] = <<>> ELSE ~Contains(list[p], from)
  /\ ecx' = [ecx EXCEPT ![p] = len]
  /\ want' = [want EXCEPT ![p] = from]
  /\ state' = [state EXCEPT ![p] = @ \cup {RECEIVING}]
  /\ KernelEntry({}, {p})
  /\ UNCHANGED <<list, supplier, irqs, interrupts, esi, eax>>

ReceiveBlocks(p, from, len) ==
  /\ interrupts[p] = {}
  /\ IF from = NULL THEN list[p] = <<>> ELSE ~Contains(list[p], from)
  /\ ecx' = [ecx EXCEPT ![p] = len]
  /\ want' = [want EXCEPT ![p] = from]
  /\ state' = [state EXCEPT ![p] = @ \cup {RECEIVING}]
  /\ KernelEntry({}, {p})
  /\ UNCHANGED <<list, supplier, irqs, interrupts, esi, eax>>

Receive(p) ==
  \/ Return(p, INVALIDBUFFER)
  \/ \E len \in Lens :
       \/ ReceiveInterrupt(p, len)
       \/ \E from \in Owners : ReceiveMessage(p, from, len) \/ ReceiveBlocks(p, from, len)
-----------------------------------------------------------------------------
(***************************************************************************)
(* syscall_set_feature, syscall_request_irq, syscall_exit, and a system    *)
(* call number out of range                                                *)
(***************************************************************************)
FaultInherit(p, f) == [list EXCEPT ![p] = list[f]]
FaultNoInherit(p, f) == list
Inherit(p, f) == [list EXCEPT ![p] = list[f], ![f] = <<>>]

TakeFeature(p, f) ==
  /\ supplier[f] = NULL
  /\ supplier' = [supplier EXCEPT ![f] = p]
  /\ list' = Inherit(p, f)
  /\ esi' = [esi EXCEPT ![p] = OK]
  /\ KernelEntry({}, {})
  /\ UNCHANGED <<state, want, irqs, interrupts, eax, ecx>>

SetFeature(p) ==
  \/ Return(p, INVALIDFEATURE)
  \/ \E f \in Supplies[p] :
       \/ TakeFeature(p, f)
       \/ supplier[f] # NULL /\ Return(p, FEATUREBUSY)

TakeIrq(p, n) ==
  /\ irqs[n] \in {NULL, p}
  /\ irqs' = [irqs EXCEPT ![n] = p]
  /\ esi' = [esi EXCEPT ![p] = OK]
  /\ KernelEntry({}, {})
  /\ UNCHANGED <<state, list, want, supplier, interrupts, eax, ecx>>

RequestIrq(p) ==
  \E n \in Lines :
    IF n \in {0, 2} \/ n > MaxIrq THEN Return(p, INVALIDIRQ)
    ELSE \/ TakeIrq(p, n)
         \/ irqs[n] \notin {NULL, p} /\ Return(p, IRQINUSE)

\* release_irqs_taken stops short of line MaxIrq.
FaultReleaseFewer(p) ==
  [n \in 0 .. MaxIrq |-> IF n < MaxIrq - 1 /\ irqs[n] = p THEN NULL ELSE irqs[n]]
Released(p) ==
  [n \in 0 .. MaxIrq |-> IF n < MaxIrq /\ irqs[n] = p THEN NULL ELSE irqs[n]]

\* The features p supplies and the receivers that wait for p stay as they are.
Exit(p) ==
  LET waiting == ToSet(list[p])
      still == [state EXCEPT ![p] = {EMPTY}]
  IN /\ state' = [q \in Procs |-> IF q \in waiting THEN still[q] \ {SENDING} ELSE still[q]]
     /\ irqs' = Released(p)
     /\ esi' = [q \in Procs |-> IF q \in waiting THEN PROCESSDIED ELSE esi[q]]
     /\ list' = [list EXCEPT ![p] = <<>>]
     /\ KernelEntry(UNION {Unblocked(q, SENDING) : q \in waiting}, {p})
     /\ UNCHANGED <<want, supplier, interrupts, eax, ecx>>

UnknownSyscall(p) == Return(p, UNKNOWNSYSCALL)

Syscall(p) ==
  /\ curptr = p
  /\ \/ \E block \in BOOLEAN : SendByFeature(p, block)
     \/ Receive(p)
     \/ SetFeature(p)
     \/ RequestIrq(p)
     \/ Exit(p)
     \/ UnknownSyscall(p)
-----------------------------------------------------------------------------
(***************************************************************************)
(* Interrupts: do_hard_int and notify_irq                                  *)
(***************************************************************************)
ClockTick == KernelEntry({}, {}) /\ UNCHANGED ipcVars

FaultNotSending(p) == SENDING \notin state[p]
InReceive(p) == RECEIVING \in state[p]

\* The owner is inside receive: whoever it waits for, the call returns with
\* the bit of the line.
NotifyReceiver(p, n) ==
  /\ InReceive(p)
  /\ esi' = [esi EXCEPT ![p] = {n}]
  /\ eax' = [eax EXCEPT ![p] = 0]
  /\ want' = [want EXCEPT ![p] = NULL]
  /\ state' = Unset(p, RECEIVING)
  /\ KernelEntry(Unblocked(p, RECEIVING), {})
  /\ UNCHANGED <<list, supplier, irqs, interrupts, ecx>>

FaultRecordLast(p, n) == [interrupts EXCEPT ![p] = {n}]
Record(p, n) == [interrupts EXCEPT ![p] = @ \cup {n}]

NotifyLater(p, n) ==
  /\ ~InReceive(p)
  /\ interrupts' = Record(p, n)
  /\ KernelEntry({}, {})
  /\ UNCHANGED <<state, list, want, supplier, irqs, esi, eax, ecx>>

HardInt(n) ==
  IF irqs[n] = NULL THEN KernelEntry({}, {}) /\ UNCHANGED ipcVars
  ELSE NotifyReceiver(irqs[n], n) \/ NotifyLater(irqs[n], n)

Next ==
  \/ \E p \in Procs : Syscall(p)
  \/ ClockTick
  \/ \E n \in Wired : HardInt(n)

Spec == Init /\ [][Next]_vars
-----------------------------------------------------------------------------
(***************************************************************************)
(* Properties                                                              *)
(***************************************************************************)
\* Every variable keeps its type; a process has at most one flag.
TypeOK ==
  /\ ready \subseteq Procs /\ curptr \in Procs \cup {Idle, NULL}
  /\ state \in [Procs -> {{}, {EMPTY}, {RECEIVING}, {SENDING}}]
  /\ list \in [Heads -> Seq(Procs)]
  /\ want \in [Procs -> Owners]
  /\ supplier \in [Features -> Owners]
  /\ irqs \in [0 .. MaxIrq -> Owners]
  /\ interrupts \in [Procs -> SUBSET (1 .. MaxIrq)]
  /\ esi \in [Procs -> Words]
  /\ eax \in [Procs -> Nat] /\ ecx \in [Procs -> Nat]

\* All lists share the one link field nextSender of a process, so a process
\* that stood on two lists, or twice on one, would splice them together: each
\* process stands on at most one place of all lists of the system.
NotShared(l) ==
  \A g, h \in Heads : \A i \in DOMAIN l[g], j \in DOMAIN l[h] :
    l[g][i] = l[h][j] => g = h /\ i = j

LinksNotShared == NotShared(list)

Listed(q) == \E h \in Heads : Contains(list[h], q)

\* No process is forgotten: one that is not in the run queue has exited, or
\* is inside receive, or stands on a list where another process can find it;
\* and a process in the run queue is none of these.  This covers the senders
\* that wait for a feature, which block without any flag to tell so.
NobodyForgotten ==
  \A p \in Procs : /\ p \in ready <=> state[p] = {} /\ ~Listed(p)
                   /\ SENDING \in state[p] => Listed(p)
                   /\ Listed(p) => state[p] \subseteq {SENDING}

\* A receiver and a sender that may meet never both wait: the sender would
\* have been served on arrival, or the receiver on its call.
NoMissedRendezvous ==
  \A r \in Procs : RECEIVING \in state[r] =>
    IF want[r] = NULL THEN list[r] = <<>> ELSE ~Contains(list[r], want[r])

\* A driver never sleeps in receive while an interrupt it should serve is
\* pending: notify_irq and syscall_receive cannot miss each other.
NoMissedInterrupt ==
  \A p \in Procs : RECEIVING \in state[p] => interrupts[p] = {}

\* Senders wait at a feature only until it has a supplier, and then only on
\* the list of a process that supplies one: set_feature leaves nobody behind
\* at the feature, and overwrites no list that has members.
WaitersFollowSupplier ==
  /\ \A f \in Features : list[f] # <<>> => supplier[f] = NULL
  /\ \A p \in Procs : list[p] # <<>> => \E f \in Features : supplier[f] = p

\* A line of a process that exited can be taken by another one.
DeadHoldNoLine ==
  \A n \in 0 .. MaxIrq - 1 : irqs[n] \in Procs => EMPTY \notin state[irqs[n]]

\* Whoever is unblocked finds in esi why: the call of the process that runs
\* completed its exchange and both report the same count, or the process that
\* runs exited and was the one it sent to, or one of its own lines fired.
UnblockedForAReason ==
  [][\A p \in ready' \ ready :
       \/ curptr \in Procs /\ esi'[p] = OK /\ esi'[curptr] = OK /\ eax'[p] = eax'[curptr]
       \/ curptr \in Procs /\ esi'[p] = PROCESSDIED /\ Contains(list[curptr], p)
            /\ EMPTY \in state'[curptr]
       \/ \E n \in DOMAIN irqs : irqs[n] = p /\ esi'[p] = {n} /\ eax'[p] = 0]_vars

\* The verdict and the count a process was unblocked with are still there when
\* it runs, however many entries of others come first.
VerdictKept ==
  [][\A p \in ready : p # curptr => esi'[p] = esi[p] /\ eax'[p] = eax[p]]_vars

\* p stands on the same list as q, in front of it.
InFront(l, p, q) ==
  \E h \in Heads : \E i, j \in DOMAIN l[h] : l[h][i] = p /\ l[h][j] = q /\ i < j

\* Nobody overtakes: while p waits in front of q it stays in front, also when
\* a feature finds its supplier and its waiters move to that process, and q
\* leaves before p only when the receiver asked for q by name; and who comes
\* to stand behind somebody else came to the list later.
NoOvertaking ==
  [][\A p, q \in Procs :
       /\ InFront(list, p, q) =>
            \/ InFront(list', p, q)
            \/ p \in ready'
            \/ \E len \in Lens : ReceiveMessage(curptr, q, len)
       /\ InFront(list', p, q) => InFront(list, p, q) \/ ~Listed(q)]_vars

\* An interrupt that was recorded stays recorded until its process is told of
\* it by receive.
InterruptsKept ==
  [][\A p \in Procs : \A n \in interrupts[p] \ interrupts'[p] :
       p = curptr /\ n \in esi'[p]]_vars

\* What the interface says and the handlers do not keep; it is refuted by a
\* run of its own.

\* Whoever sends to a process that exited is told that its peer died, instead
\* of waiting on its list.
NobodyWaitsForTheDead == \A p \in Procs : EMPTY \in state[p] => list[p] = <<>>

\* The inductive invariant: the properties above, with two facts they rest on.
\* The process that runs is in the run queue, so no handler blocks a process
\* twice; and a process supplies only a feature it may ask for, of which there
\* is one, so that set_feature finds the list it overwrites empty.
RunnerIsReady == curptr \in Procs => curptr \in ready
SuppliesItsOwn == \A f \in Features : supplier[f] # NULL => f \in Supplies[supplier[f]]

IInv ==
  /\ TypeOK
  /\ RunnerIsReady
  /\ SuppliesItsOwn
  /\ LinksNotShared
  /\ NobodyForgotten
  /\ NoMissedRendezvous
  /\ NoMissedInterrupt
  /\ WaitersFollowSupplier
  /\ DeadHoldNoLine
=============================================================================
