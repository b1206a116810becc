# mycrokernel in TLA+

mycrokernel is a small 32-bit kernel for a PC with one processor. It schedules
processes by a virtual-time round robin, lets them exchange messages
synchronously, delivers device interrupts to user-space drivers, and boots with
three programs: a terminal driver, a shell and a disk driver. This directory is
its verification project: TLA+ modules translated from the source, the TLC
configurations that check them on small instances, and theorems about the
scheduler, the system calls, the kernel as a whole and the programs that the
TLA+ proof system checks for every instance.

`U` below stands for `src/kernel/utilities_C.c`.

    tlc -workers 2 -config MCIpc_three.cfg MCIpc     # a run
    tlapm IpcProofs.tla                              # the proofs

## 1. Inventory

### Parts of the system

| Part | Source | State it keeps | Operations |
|---|---|---|---|
| run queue and scheduler | `U:167-364`, `kernel/types.h` | `schedqueue` (head, weight, ticks left), `curptr`, `nextptr`; per process `next`, `previous`, `ticksleft`, the ENQUEUED bit | `enqueue`, `dequeue`, `charge_process`, `pick_next_proc`, macro `schedule` |
| messages | `U:459-568, 667-756`, `_exchange_data` | per process `state` (EMPTY, RECEIVING, SENDING), `receivingFrom`, `firstSender`, `nextSender`, saved registers | `send_by_feature`, `receive` |
| features | `U:570-617, 758-772` | `featureTable`: supplier and list of waiters | `set_feature` |
| interrupt lines | `U:619-627, 866-882, 908-941` | `irqs`, per process `interrupts` | `request_irq`, `notify_irq` |
| exit | `U:640-665` | all of the above | `syscall_exit` |
| kernel entry | `kernel/interrupt.hla`, `U:884-966` | – | task gates for the vectors 0x20 to 0x2f and the system call; `do_hard_int` |
| uptime clock | `U:884-895` | seconds, minutes, hours | `clockIsr` |
| I/O ports, `vir2phys` | `U:774-864` | `port_accessers` | `inb`, `outb`, `inw`, `outw`, `claim_port`, `vir2phys` |
| process table | `U:983-1216`, `utilities_HLA.hla:118-256` | `pproctab`, bitmaps of descriptors and pids | `create_process`, and the release of what it took |
| exceptions | `U:968-981` | – | prints, and the machine stops |
| start of the kernel | `kernel/main.hla`, `go.hla`, `gdt.hla` | – | paging, interrupt controllers, memory map, three processes, `sti` |
| terminal driver | `tty/` | screen and cursor, line, echo, marks, shift | a loop of `receive`; keys edit the line, messages are shown |
| shell | `shell/main.c` | – | a loop of `receive` and an answer |
| disk driver | `hd/main.c` | what is on each channel, the channel selected, sector buffers | claims ports, identifies drives, reads partition tables and root directories, reports them, ends |
| user library | `usrlib/` | the buffer of a call of `outf` | call stubs, `outf`, conversions of numbers |
| boot loader, console of the kernel, PCI scan, build files | `boot/`, `kernel/video.hla`, `kernel/lowlevel.hla` | – | – |

### How they interact

Everything that crosses a process boundary is a system call or an interrupt. A
handler runs in the kernel's task with interrupts off from the gate to the
dispatch at its end (`kernel/interrupt.hla:10-29`, `kernel/prototype.hhf:176-192`),
so **one kernel entry is one atomic step**, and there is no finer interleaving
on the single processor. Between two entries the dispatched process runs; all
it does that others can see is its next call.

An entry may call several parts: `syscall_receive` changes the messages, then
`unsetStateFlag` puts a sender back with `enqueue`, then `do_hard_int` charges
and picks. A handler may write into the saved registers of another process
(`set_err`), and those registers are the only thing the other process will see.

### What is hard

* A process that leaves the run queue keeps its two links and offers them as a
  hint when it comes back. The neighbours may have moved by then.
* Tick counters are unsigned and counted down at every entry, also for entries
  that come before a process was chosen, and `enqueue` and the eligibility test
  multiply and divide them.
* A sender and a receiver come in either order. Each tests for the other and
  goes to sleep if it is not there.
* An interrupt arrives at any time relative to its driver's `receive`.
* The lists of senders of a process and of waiters for a feature share one link
  field, and one is turned into the other when a supplier appears.
* Exits free some of what a process had and not the rest.
* A buffer is validated when its owner calls and used when the peer calls, against
  a descriptor whose fields are put together again each time.
* `create_process` may fail when it has taken some of what it needs.
* In the terminal, messages interrupt a line that is being edited, on a screen
  that scrolls, and some of the line must not be shown.
* The terminal and the shell send to each other from the loops that receive.
* The disk driver talks to up to four drives over two buses, which may be absent,
  silent or slow, and waits for interrupts that the kernel records for it.
* `outf` cuts a text where its buffer ends, in front of a number or behind a
  character.

PROJECT.json lists each as a hazard at its line.

### What makes each part correct

| Part | Properties |
|---|---|
| run queue | the list is exactly the queue, doubly linked and sorted; totals are right; whoever runs is in the queue and has credit; nobody starves |
| messages, features | nobody sleeps with its partner there; nobody is unreachable; lists do not splice; order of arrival is kept; an unblocked process is told why, and the verdict is still there when it runs |
| interrupts, exit | a recorded interrupt is not lost and is not slept over; a dead process holds no line |
| terminal | the screen shows the line Enter would send; secrets are never shown; buffers keep their bounds |
| disk driver | it acts on the sectors it asked for, of the drive it asked; it takes for a drive only what is one; directories are listed completely |
| `outf` | what is sent is the text that was meant; the terminal cuts at most the last character of a message |
| process table, ports | a descriptor has one owner and says what was asked for; exchanges stay inside the programs of both sides; a device has one driver, also after an exit |
| whole system | lines are answered, keys read, programs never act on a verdict that is not theirs, the disk driver ends |

## 2. Modules

| Module | Lines it stands for | What it is |
|---|---|---|
| `RunQueue` | `U:293-298`, `schedule` | what the scheduler promises: an entry lets some processes join and the caller leave, and dispatches one of those that remain |
| `Sched` | `U:167-364, 944-966` | the linked list, in code order, as functions on one record `k` |
| `Ipc` | `U:459-772, 866-966` | the system calls by which processes meet, and interrupts; EXTENDS `RunQueue` |
| `ProcTable` | `U:983-1216`, `utilities_HLA.hla:118-193`, `lowlevel.hla:48-196` | slots, bitmap and segment descriptors, as functions on one record |
| `Kernel` | `main.hla:229-342`, `U:449-457, 667-906, 968-981` | the kernel as a whole: boot, then every system call with its buffers, ports, exceptions; EXTENDS `Ipc` and `ProcTable` |
| `Tty` | `tty/main.c`, `tty/utilities.hla` | the line editor on its screen |
| `System` | the three `main` functions | the programs as clients of `Ipc`, and a user |
| `Disk` | `hd/main.c` | the disk driver with its drives |
| `Outf` | `usrlib/utilities.c:61-206` | how a program's text becomes messages |
| `MCSched`, `MCIpc`, `MCKernel`, `MCTty`, `MCSystem`, `MCDisk`, `MCOutf` | – | instances for TLC |
| `SchedProofs`, `IpcProofs`, `KernelProofs`, `SystemProofs`, `TtyProofs`, `DiskProofs`, `OutfProofs` | – | theorems about the module of that name |
| `Induction` | – | induction, sums, division and flattened sequences, for the proofs |

How they compose: `Sched` implements `RunQueue` (a PROPERTY with the refinement
mapping `ready <- k.enq`, `curptr <- k.cur`); `Ipc` uses the abstract
`RunQueue` in place of the list, so that what is shown of it holds for any
dispatch order; `Kernel` conjoins the actions of `Ipc` with what they do to
buffers and to the process table, and adds the calls that touch hardware; `System`
runs the programs on `Ipc` and is checked to implement it. `Tty` has the inside of the program `System` abstracts to `typing`, `Disk` that
of the one it abstracts to `left`, and `Outf` that of one send.

### Sched

State: the record `k` has `head`, `weight`, `left` (struct `_schedqueue`:
head, schedticks, ticksleft), `cur` and `nxt` (`curptr`, `nextptr`), and functions
`next`, `prev`, `ticks`, `enq` for the fields of the task state segments.
`w` is `schedticks` of a process, constant after `create_process`; `Init` chooses
one of `Boots`, the processes that were created and in which order they were
enqueued, each with its weight.
Operators are named for the C functions. Handlers are functions of
the memory because one entry calls several of them: `Exit` wakes senders,
removes the caller, and dispatches.

Actions: `Preempt` (an entry that changes no state flag), `Wake`, `Block`,
`Exit`, which wakes any number of processes that are off the queue, none to all, in any
order (`SenderLists`; which of them wait to send is for `Ipc`). Arithmetic is modulo `Word`, which stands for 2^32. The assumption on
it, that the weights add up to less, is what the 32-bit field needs too.
`dequeue` of the running process loops until another is picked; the model
unfolds the loop `LoopBound` = `Word` times after the first turn. A loop that needed
more would leave the process current outside the queue, which `ImplementsRunQueue`
forbids; that none does is proved (`LoopEnds`). Before the first dispatch `curptr` is NULL and
`charge_process` (U:280) stores through it; the store goes to a fixed low
address that holds no field of the scheduler, so only the total changes.

### Ipc

State and code: `state` is the flag word; `list[p]` is the list from
`firstSender` of a process, `list[f]` from the waiter of a feature, both linked by
`nextSender`; `want` is `receivingFrom`; `esi`, `eax`, `ecx` are the saved
registers that carry verdict, byte count and length. A verdict is a set:
interrupt bits, with the empty set for OK, or one negative code.

Actions: one per handler outcome, in the order of the handler's tests
(`SendRefused`, `SendDelivers`, `SendQueues`, `SendAwaits`, `ReceiveInterrupt`,
`ReceiveMessage`, `ReceiveBlocks`, `TakeFeature`, `TakeIrq`, `Exit`, …). The
process that runs may make any call with any argument, including wrong ones.
Buffers are valid or not; the bytes are left out and their number is kept.

Assumption: a process supplies at most one feature, and asks for those in
`Supplies` only. It holds of the repository (`tty/main.c:471`,
`shell/main.c:24`) and is needed: `set_feature` overwrites `firstSender`.
`featureTable` has only 4 entries (U:43) although `check_feature` takes any of 32
bits; `Features` has only features inside the table.
`Exit` has the state, the lines and the lists; the descriptors it also returns
(U:643-661) are in `Kernel`.
`Wired` is the set of lines that interrupt. The boot code masks all but lines 0
and 1 (`main.hla:299-300`); the model allows others, since the handlers serve all.

### ProcTable and Kernel

State of `ProcTable`: the record `m` has `used` (the bits of `gdtBitmap`), `low` (the
bytes that `freeBitInBitfield` masks instead), `gdt` (the descriptors, with the base in
three fields, the limit in two and the granularity bit), and `slot` (per process
EMPTY or not, name, selectors). `Create` is `create_process`: a scan for a slot, then
six times the same code, `AddSegment`, one behind the other, then the task segment;
what was granted before a failure is given back with `Free`. `NO_BASE`, `0xa0000`, `0xc0000`
and the widths of the fields are constants.

State of `Kernel`: `loaded` (the programs behind the kernel), `created` and `phase` (how far
`start` came), `t` (the process table), `edx` (the address a process offers),
`port_accessers`. `touched` and `drivers` are history variables: what the last
entry read and wrote for programs (an exception touches nothing), and who ever reached a
port. `Ends` says where in memory each program ends: they lie one behind the other.
`KernelAssumption` takes each for shorter than a megabyte (the boot loader puts them there
in real mode) and all to end below 2^32. `KInit` is the machine
before the first `create_process`; `CreateProgram` and `EnableInterrupts` are the rest of
`start`; then each entry is an action of `Ipc` whose `valid` is now `ValidArea`, or
`Vir2Phys`, `ClaimPort`, `UsePort`, `KExit`, or an exception, which stops the
machine. When `create_process` fails, `start` enqueues NULL, which writes
through a null pointer: nothing is said of what follows (`phase` is STOPPED). The calls of
`start` come before the first exit, so nobody ever asks for a descriptor that was
given back. `EachHasItsOwn` speaks of slots, descriptors and bytes: the images of two
processes are disjoint, and each descriptor reads back what was asked for.

### Tty

State: the cells and the cursor in cells (the code counts bytes, two per cell);
the line (`snd_buffer`, whose length is `screen_idx`); which of its characters are
on the screen (`screen_echoed`); `rcv_buffer`; `echo`, `input_dirty`, `shiftCount`.
`astray` is a history variable: a digit was printed since the line began.
`process_message` has what `main_loop` does with the bytes it received: `Limit` is the length of
the receive, 0 while a line is being typed; `Bytes` is the number after the cap (`tty/main.c:449`);
and the last byte is made 0 (`:192`). With no bytes that write is in front of `rcv_buffer`,
in what the compiler puts there: the last cell of `snd_buffer`, which is 0 in any line that fits.
A character tells where it came from: `Letters` were typed, `Secrets` typed without
echo, `Digits` printed by a digit key, `Others` sent by other programs. So
`SecretsStayHidden` can look for a secret on the screen; the assumption is that the sets
are told apart, not that no message may hold the same letter.
An action is a round of the loop; every key first restores a line that a
message pushed away, as `process_scancode` does. The cursor is a 16-bit word, so
it has `Offsets` = 2^15 values and wraps below 0; the write that follows lies
beyond the limit of the video segment, so nothing happens after it: `Next` needs
a cursor on the screen. Attributes, the status line below the other lines and
the wording of complaints are left out.

### System

State: `pc` is where a program is between two calls; `typing` is
`screen_idx # 0`; `said` is whose text is in `rcv_buffer`; `left` the reports
the disk driver has yet to send; `key` the output buffer of the keyboard
controller; `asked` that the user is waiting for an answer. Each program step
is one call of `Ipc`, conjoined with what the program does before it. Calls
that only touch ports change nothing here but who runs next, which `Tick` does at
any time; only `inb(0x60)` is kept, because it lets the keyboard interrupt again.
The disk driver takes lines 14 and 15 between its reports, and exit gives back the
first of them; neither fires, because the boot code masks both, so its receive (module
`Disk`) is for drives that answer late and is left out here.
The user is `hasty` (types at any time) or patient (waits until both programs are
set up and until each answer has appeared); which one is chosen in `SysInit`.

### Disk

State: `controller` is that field of `channels`; `selected` is `channel_selected`;
`geometry` is `nr_heads` and `nr_sectors_per_track`, which identify takes from the drive;
`dev` is the state of a bus (the unit selected, the sector in its registers, busy or
with data); `bits` the interrupts the kernel recorded; `got` the sectors the current
function has read; `shown` the names reported. The functions call each other from
`read_partition_table` down to `do_direct_directory` and back; `work` is the calls
still to be made, in order, and `CallDone` replaces a call that has read its
sectors (`Wants`) by those it makes (`Makes`). Reading one sector is `Command` (the
registers, the command and the first look at the status), then `Transfer`, or
`MustWait` and `Woken` until the status is looked at again.

A partition is looked for where its cylinder, head and sector are in the geometry of the drive
(`chs2lba`, in a word; the number of its first sector in `lba` is not read). Groups are counted as the
code does, in two divisions that round down (`NrBlockGroups`); the descriptors of those groups are copied and the
others stay 0 (`Root`). The root inode is taken from the group, the sector of the table and the
offset that `read_inode` computes (`RootGroup`, `RootOffset`, `RootInode`). Where the code has no
meaning - a division by zero, an inode shown that was not read, one that reaches beyond its
sector - the step is `Stops`, and nothing follows (`Undefined`).

Nobody else may use the ports, so the writes up to a command are one step. Sizes
are in sectors. A sector of an image is a record of `Views`: what it is if it is read as a
partition table, a super block, a group descriptor, an inode, pointers or entries. So
a call may come to any sector and read it as anything, and a drive need not be a sound file
system; only the sizes of entries are positive. An inode may be read from any byte of a sector,
of which it takes `INODE`. `Span` is 2^23, the sectors that a
byte offset in 32 bits reaches, and the offsets the driver keeps in bytes are taken
`% Span`. `Wired` has both disk lines although the boot code masks the
second controller (`main.hla:299-300`), which is generous to the driver. A
successful `claim_port` leaves the error word as it was (U:853-864); it is taken not to be
negative. `write_sector`, `display_status` and the DMA set-up are never called.

What the driver ought to report is defined from the sectors alone, without regard to calls
or to the order of reading: a *tree* (`InodeTree`, `GroupTree`, up to `DriveTree`) has the names
of the entries under a structure, and says whether it is `plain`. A structure is plain if its sectors are on the
drive and its offset in bytes fits a word; a block of pointers if it ends within its first half;
a directory block if the entries of its first half lead past the block (`PlainSlots`); a partition if it is
where its cylinder, head and sector say (`Placed`); and a file system if its root inode is in the first group and
that group is counted (`GroupTree`). The code reads the first half of a block twice, never reads `lba`,
rounds the groups down and adds the address of another group twice, and no more than that can be
promised of it. `BlockTrees` gives the
tree of every block of a file system, as one with entries and on each level of indirection. A
file system the driver refuses (too many groups, blocks of another size) has no names, and one
without a root inode or with groups of nothing is not plain.

### Outf

State: the format and how far it was read (`cur`), `msg` up to `idx`, the messages
sent. A format is a sequence of characters and conversions; the word of a conversion comes
with it. `Character`, `Number` and `End` are the branches of the loop. A send that
fails ends the call. Behind its end the buffer is undefined, and the model stops
there (`Overrun`). The conversions are recursive functions over the powers of ten or
sixteen; `Powers` is what is assumed of those: each is the base times the next, the last is
1, and the base times the first covers a word.
`Meant` is the reference they are compared with: the digits of a number, without
regard to how they are found. `Shown` is what `tty/main.c:449, 192` leaves of a message that is
received whole.

## 3. Runs

| Run | Instance | Shows |
|---|---|---|
| `sched` | 4 processes of weight 1 and 3 of weights 3, 2, 1, `Word` 8, clock fair; 109 000 states | `ListIsTheQueue`, `LinksAgree`, `HeaviestFirst`, `WeightIsTotal`, `RunsOnCredit` (weight 1), `NoStarvation`; the list implements `RunQueue` |
| `ipc_two` | 2 processes, lengths 1 and 2 | types, `VerdictKept`: registers and verdicts |
| `ipc_three` | 3 processes, 2 of them rivals for a feature, lines 1 and 14 | who waits for whom: `LinksNotShared`, `NobodyForgotten`, `NoMissedRendezvous`, `NoMissedInterrupt`, `WaitersFollowSupplier`, `DeadHoldNoLine`, `UnblockedForAReason`, `InterruptsKept`, `NoOvertaking` |
| `kernel` | two programs that fit, two of which one does not, three for which descriptors run out; words of 9 bits; 74 000 states | `EachHasItsOwn`, `AddressesStayInside`, `OneDriverPerPort` |
| `tty_keys` | 2 lines of 3 cells, 2 letters, a secret, a digit, texts of 0, 1 and 6 letters; 2.3 million states | `ScreenShowsLine`, `SecretsStayHidden`, bounds of line and message |
| `system_programs` | 3 programs, 2 reports, either user; 75 000 states | `ReadsRealKeys`, `DriversLive`; the programs implement `Ipc`; for the patient user `LinesAreAnswered`, `KeysAreRead`, `HdEnds` |
| `disk_read` | 14 images on 4 channels, prompt and slow drives; 26 000 states | `ReadsWhatItAsked`, `FindsTheDrives`, `PlainRootsAreListed` |
| `outf` | a buffer of 6, words of 8 bits; 40 000 states | `NothingLost` (of what is sent), `OnlyTheLastIsCut` (by the terminal), `OverrunOnlyBehindNumber` |
| `ipc_dead` | as `ipc_two` | refutes `NobodyWaitsForTheDead` |
| `system_embrace` | hasty user | refutes `NoEmbrace` |
| `disk_list` | as `disk_read` | refutes `RootsAreListed` |
| `disk_ends` | as `disk_read` | refutes `DriverEnds` |

### Bounds, and why they are enough

* *Processes.* The kernel boots three. A link has two neighbours, so four
  processes give a stale hint with both neighbours moved and a stranger between
  them. Two lists and a process that moves between them need three.
* *Weights.* With equal weights every kept neighbour passes the weight test and
  only the link tests reject it; with three different ones every comparison of the
  scan is taken both ways.
* *Word.* In `sched`, 8 is larger than the sum of the weights, as 2^32 is,
  and small enough that a counter that wraps is seen to.
* *Lens.* Two lengths tell the shorter from the longer. In `ipc_three` there is
  one, and the VIEW drops `esi`, `eax` and `ecx`: no handler branches on them
  (`ecx` only feeds `eax`), so states that differ there have the same futures. The
  properties of that run that name `esi'` or `eax'` speak of the step itself,
  in which those registers are set from what the VIEW keeps.
* *Lines.* Line 1 is the keyboard; 14 is the last that exit releases; 0, 2
  and 16 are refused. Two lines let a second one fire before the first was seen.
* *Boots, Addrs, ports.* In `kernel` a word has 9 bits, a page 16 bytes and a megabyte
  32; the programs have 2 to 12 bytes and the kernel ends at 6. A buffer of 1 or 2
  bytes starts at 0, at 2, which is inside one program and at the end of the other,
  and at the last word, where the sum wraps. 20 descriptors are enough for two programs
  and not for three. One port is claimed under two words that differ above 16 bits, by both
  programs. `LimitsReadBack` in `MCKernel` compares `get_limit` with what was asked for, for
  every limit. The VIEW drops `esi`, `eax`, and the buffer of a process that is not waiting,
  which is named anew before anything looks at it; `AddressesStayInside` speaks
  of the buffers at the step that uses them, when both are kept or just named.
* *Screen.* A buffer of 5 cells on two lines: a line can fill its buffer, scroll,
  and be pushed away in the middle of a screen line. A text of 6 fills
`rcv_buffer` with its 0, so the cap and the last 0 change it. `shiftCount` counts modulo
  2 (0, not 0), which is all that the guards ask.
* *Reports, Full.* Two reports let one wait at the feature and one on the list; a
  receive of length 0, of the length of a message, and longer.
* *Drives.* 26 sectors and address registers of base 2: every register carries
  a digit of some address. `Span` is 32, so no offset of the run wraps. A sector has 4 bytes and an
  inode 2, so the second inode of a table is in the first sector, in the second, or in two; three
  geometries put the partition at sector 2 with each of the three numbers. Two direct pointers and two per half of a block give
  directories that end within the direct ones, fill them, and go on over all three levels.
  `MAX_NR_BLOCK_GROUPS` is 2, and one image has more; others have one, none, a second that holds
  the root inode, groups of no inodes, a single inode, and a partition that is elsewhere. The setups put images, drives
  that do not answer and nothing on master and slave of both buses.
* *Formats.* All 256 words in each conversion; every sequence of up to five of a
  character and four numbers of 1, 2 and 4 characters, so that each kind meets each
  of the last cells of a buffer of 6; texts up to three buffers long. In the
  code the buffer has 1921 bytes and numbers at most 11 characters: in both, any
  number fits an empty buffer, which is the assumption.

`CHECK_DEADLOCK FALSE` is said where the program may stop: in `kernel`, where an
exception or a boot that fails stops the machine; in `tty_keys`, where a
cursor off the screen stops the machine; in the disk runs, whose driver ends or
sleeps for ever; in `outf`, where a call returns.

### Fairness

`FairSpec` of `Sched` has WF on `Preempt`: the clock interrupts for ever (line 0
is unmasked). No fairness is assumed of system calls or devices. `SysSpec` has
SF on "some entry dispatches p" and on the next call of p. `NoStarvation` justifies
the first: a process in the queue is dispatched, whatever the others do; it has
to be strong because a process goes in and out of the queue. The second: a
program between two calls runs through finite code, and it is interrupted on
the way, so it gets there only by being dispatched again and again. Nothing is
assumed of the user: he may stop typing, and liveness speaks of what was typed.
`Disk` has WF on the driver (the same argument) and on a busy drive getting ready.

### Mutants

Operators named `Fault…` are defects the code could plausibly have had: a dropped
test, a loop that ends too early, a flag not cleared. Each stands before the
definition it would replace, is used by nothing, and shows that the property it
belongs to depends on that definition (PROJECT.json, `mutants`).

## 4. Proofs

A proof module EXTENDS the module it is about, and assumes its `…Assumption` and nothing
else. Each has one inductive invariant, a lemma for every action that says the action keeps
it, and theorems that read the properties off it. Where TLC checks a property on a small
instance, the theorem says it for every value of the constants.

| Module | Invariant | Theorem: the property of a run it states |
|---|---|---|
| `SchedProofs` | `Inv`, `Credit` | `TypeCorrect`: `TypeOK`; `QueueIsOneList`: `ListIsTheQueue`; `LinksStayInverse`: `LinksAgree`; `QueueStaysSorted`: `HeaviestFirst`; `WeightStaysTotal`: `WeightIsTotal`; `CountersNeverWrap`: `RunsOnCredit`; `ListImplementsRunQueue`: `ImplementsRunQueue` |
| `IpcProofs` | `IInv` | `TypeCorrect`: `TypeOK`; `NoSplicedLists`: `LinksNotShared`; `NobodyIsForgotten`: `NobodyForgotten`; `RendezvousHappens`: `NoMissedRendezvous`; `InterruptsAreSeen`: `NoMissedInterrupt`; `WaitersAreServed`: `WaitersFollowSupplier`; `DeadReleaseLines`: `DeadHoldNoLine` |
| | action properties | `VerdictsStay`: `VerdictKept`; `UnblockedKnowWhy`: `UnblockedForAReason`; `InterruptsStay`: `InterruptsKept`; `WaitersKeepTheirTurn`: `NoOvertaking`; `RunQueueServes`: `Spec => RQSpec` |
| `KernelProofs` | `DInv`, `KInv` | `OneDriver`: `OneDriverPerPort`; `EverybodyHasHisOwn`: `EachHasItsOwn`; `AddressesAreOwn`: `AddressesStayInside`; `KernelKeepsIpc`: `IInv` in the kernel |
| `SystemProofs` | `SInv` | `ProgramsUseTheKernel`: `ImplementsIpc`; `SystemTypeCorrect`: `SysTypeOK`; `RealKeysAreRead`: `ReadsRealKeys`; `DriversStayAlive`: `DriversLive` |
| `TtyProofs` | `TtyInv` | `TtyTypeCorrect`: `TypeOK`; `LineIsShown`: `ScreenShowsLine`; `SecretsAreKept`: `SecretsStayHidden` |
| `DiskProofs` | `DiskInv` | `DiskTypeCorrect`: `TypeOK`; `CallsGetTheirSectors`: `ReadsWhatItAsked`; `DrivesAreFound`: `FindsTheDrives` |
| | `Walk` | `PlainDirectoriesAreListed`: `PlainRootsAreListed` |
| `OutfProofs` | `OInv` | `OutfTypeCorrect`: `TypeOK`; `OneCharacterIsCut`: `OnlyTheLastIsCut`; `OneWayToOverrun`: `OverrunOnlyBehindNumber`; `TextIsWhole`: `NothingLost` |

### Induction

The induction theorems of the library take a predicate as a parameter, which the installed
provers cannot instantiate. `Induction` states them about sets: a set that holds 0 and,
with each number, the next one is `Nat` (`SetInduction`; `SubsetInduction` for finite
sets). `IteratesExist` gives the function that a recursive definition over a counter
chooses. With the two, what `Nth`, `EnqueueAll`, `LeaveProcessor`, `Ends`, `Spell`,
`PutAll`, `Visible`, `Partitions`, `Names` and `BlockTrees` compute is proved and not only
tried. Sums over finite sets and division are there too, and what `FlattenSeq` of the
community modules, a recursive function, does with one more sequence and with two lists of them
(`FlattenOneMore`, `FlattenBoth`).

### Scheduler

None of the properties of the list holds by itself: `enqueue` inserts at a place that kept
links name, which is only right if the list is sorted and linked both ways; `dequeue`
recognises the last process by the total. `Good` says it in one: the memory is typed, the
weights sum to less than a word, there is one `Chain` from the head that is exactly the
processes with the ENQUEUED bit, sorted by weight, and `weight` is their sum. The main lemmas are
`InsertChain` and `DeleteChain`; `KeptLinksFit` (kept neighbours that pass the tests of
`enqueue`, weight included, name a place between neighbours of today's list);
`ScanFits` (the scan finds a place if they do not); and `LoopEnds`: the loop
of `dequeue` picks another process within `Word` turns, counted by the ticks that the
process is still to be given until it is not eligible. `Inv` adds to `Good` that between
two entries `nextptr` is NULL and who runs is queued; it gives the refinement of `RunQueue`.

`Credit` is the invariant of the counters for weight 1: no counter is above 1, who
runs has its tick, everybody has it before the first interrupt, and idle runs when
nobody can.

### System calls

`IInv` joins the properties of the first row with two facts. `RunnerIsReady`: whoever runs
is in the queue, so it has no flag and is on no list when it makes a call; this is what
keeps it from joining a second list. `SuppliesItsOwn`: a supplier supplies a feature of its
own `Supplies`, of which there is one, so a process that takes a feature supplies none yet
and nobody can be queued on it: the list `set_feature` overwrites is empty. Each action then
disturbs a few conjuncts. Lemmas about lists (what joining, leaving and moving one does to
who stands where) come first.

The action properties follow from `IInv` by cases over `AnyEntry`, the outcomes of a call and
of an interrupt. Whoever sleeps is receiver or on a list, so an entry that
writes to its registers is one that found it there, and wakes it (`VerdictsStay`,
`UnblockedKnowWhy`). Of two processes on one list the order changes only when one of them leaves
(`WaitersKeepTheirTurn`: appending, removing and moving a list keep `InFront`). As nobody
joins the run queue but those an entry wakes, and nobody leaves it but the caller, the calls are
steps of `RunQueue` (`RunQueueServes`).

### Kernel

`DInv` adds to `OneDriverPerPort` that only the owner of a port was ever its driver; what
is left are `ClaimPort`, which is granted to the owner or for a port that nobody
drove, and `UsePort`, which is for the owner.

`KInv` is there because the properties speak of the past: a buffer is looked at
when its owner calls and used when the peer does, so `BufferInside` keeps what the look
showed for as long as the process waits; and what the look compares with is read from
descriptors, so `Table` keeps that the slots hold the programs in their order, each with
descriptors of its own that read back its place (`BaseReadsBack`, `LimitReadsBack`: three
fields, two fields and the granularity bit put together again). One lemma for `Create` and one
for `Release` say what they do to the table; one lemma per call says which buffers it names
or drops. Then `IInv` holds in the kernel as in `Ipc`, and whatever an entry touches
is `Fine`: it lies in the program of its owner, or goes through one of the two buffers
that `AddressesStayInside` names.

### Programs

Every step of a program is shown to be one of the calls of `Ipc`, with arguments it allows, so
the system is an instance of `Ipc` and `IInv` holds there. `SInv` adds: the bit of the keyboard
is in the pending word or in the verdict of the terminal, never in both, and only while the
controller holds a scancode; a call that is over has not failed where the program does not
look; and the disk driver, the one that exits, supplies nothing, so nobody waits for it.

### Terminal

`InFront`: unless a digit went astray, the visible part of the line stands in front of the
cursor and starts where a line of the screen starts, so scrolling by whole lines cannot cut it
(the buffer has one character less than the screen has cells); and while text has pushed the
line away the cursor is at the start of a line, from which it is restored whole.
`MarkedAreLetters`: the marks that stand within the line stand at letters (a mark left over
from an earlier line is overwritten when the line reaches it), so what is restored is
never a secret.

### Disk driver

The drives may hold anything: the proof is about every content of every sector.
`Asking`: between a command and its transfer the bus is set to the unit and the sector that
the call on top of `work` wants next. That needs `Selecting` (the unit the driver believes to
be selected is selected, or the write it leaves out would be missed) and `AddressIsRead` (four
registers of base `B` carry every number of a sector). `MakesAreCalls`: whatever a call
reads, it makes calls with a pointer that is not 0 and a level of 0 to 3.

`Walk` says where the driver is on its way over the drives. `FindsAll`: every channel that was
asked and has a drive is known to have one, which is the other half of `FindsTheDrives`.
`Progress`: the names in `shown`, followed by the names in the trees under the calls on `work`
(`Unders`), are the names on the channels up to `ch`. So `work` is no more than the rest
of a traversal that is written down as a stack, and each kind of call has to do its part of it
(`CallIsUnder`): what it reports, and then what is under the calls it makes, is what is
under itself. For a partition table, a super block, a group descriptor and a root inode
this is the definition of their trees, once the recursive `Partitions` is unfolded and a list of
direct and indirect pointers that ends at the first zero is cut where `read_directory` cuts it
(`DirectoryBlocksAre`). For the place of a partition `plain` says
that `chs2lba` gives the number of its first sector (`PartitionTreeIs`), with the geometry that `FindsAll` keeps;
for a group descriptor, that it is the first and was copied (`GroupTreeIs`). A driver that meets what is
`Undefined` stops and never ends, so nothing is promised of it (`StopsStep`). A block is
where `plain` is needed most. The second half of what was read is
the first half again: the pointers up to the first zero are the same if there is a zero in the
first half (`UpToZeroOfBoth`), and so are the entries if they step from one to the next and
then over the second half (`PlainNames`, by induction from the end of the block). When the
last channel is done, nothing is left on `work` and `shown` is the names of all of them.

### outf

`CellsLeft`: with more to write, fewer than two cells are left only right behind a number that fills
the buffer but for its last cell (`Fills`); one character later the text is out of room for its 0, and
that is the overrun. `Fills` speaks of what `String` spelled, and `OneWayToOverrun` of the numeral,
which are the same (`SpellsNumeral`). `MessagesFit`: a message with its 0 has at most `MAX_MSG_SIZE`
bytes, so the terminal, which takes one less, cuts one character if it cuts at all
(`OneCharacterIsCut`). The
spelling of a number is shown to be short enough and to have only characters (`Spelled`).

`NothingLost` compares with a reference that knows nothing of the code: a number has as many
digits as it takes, and each is found by division. `SpellsNumeral` shows that the
code finds the same, one divider after the other: what is left of the number before a divider
is the number modulo the power before it (`DigitOf`), and nothing is written until the
first digit that is not 0 or the divider 1. It holds for every width of
a word and for both bases. Negative numbers need that a word has an even number of values.
Then no send loses or repeats text, because the messages and the buffer are always the text
so far (`TextGrows`, `FlattenOneMore`).

### Model-checked only

Liveness (`NoStarvation`, `LinesAreAnswered`, `KeysAreRead`, `HdEnds`) is out of the
prover's reach. Every other property of a passing run is stated by a theorem. The four
properties that are refuted have none.
`TreesAreAsExpected` (`MCDisk`) is an assumption that TLC evaluates: it compares the trees of
the fourteen images with their names written out, so that what `PlainRootsAreListed` promises is
tied to something besides the definition of trees.

## 5. Where code and text disagree

With a run (PROJECT.json, `findings`): a send to a process that exited is never
answered (U:686); terminal and shell block each other, because a send with
`block = FALSE` sleeps too (`tty/main.c:108`, U:686); a directory block is read as its
first sector twice (`hd/main.c:685`); the disk driver compares a mask with a line
number and waits for ever (`hd/main.c:507`).

Without a run, seen while reading or modelling:

* A message that arrives while a line is being typed is received with length 0, so
  the text of the one before is shown again (`tty/main.c:441`).
* A digit at the start of a full line lets backspace leave the screen
  (`tty/utilities.hla:16`); `tty_keys` speaks of lines without a digit.
* The last byte of a message is made 0 after the count was capped below the size of the
  buffer (`tty/main.c:449, 192`), so a message of 1921 bytes, its 0 included, is shown without its
  last character: every full piece of a long text of `outf` is one (`usrlib/utilities.c:164`).
* With length 0 that 0 is written to `rcv_buffer[-1]` (`tty/main.c:441, 192`), which is the last
  cell of `snd_buffer` as the compiler lays them out and holds 0 anyway.
* `outf` writes behind its buffer when a number fills it but for one cell and text
  follows (`usrlib/utilities.c:164`); `OverrunOnlyBehindNumber` is that boundary. No
  text of the three programs is that long.
* `outf(NULL, ...)` has the error word at address 0 of the program, over its first
  instructions, which have run by then; `memcpy` stores its last byte there too
  (`usrlib/utilities.c:27`).
* A drive that is busy at identification is asked for its signature at ports 4 and
  5 (`hd/main.c:342`), which nobody claimed: the driver ends, `BusyDrive`. So neither
  ATAPI nor SATA is ever recognised.
* After `TODOERROR` `read_inode` returns with the inode undefined and no error set, and
  `show_inode` reads it: a file system of fewer than two inodes (`Stops`).
* Groups are counted in divisions that round down (`hd/main.c:794-798`), so a file system smaller than
  one group has none, no descriptor is copied, and its root inode is read from a table at
  block 0 (`hd/main.c:564, 616`). Its directory is listed wrongly or not at all; it is not
  `plain`. A last group that is not full is missed in the same way, which harms nobody here.
* Inodes or blocks per group of 0, or a block size that shifts to 0, divide by zero (`Stops`).
* The address of the inode table in a descriptor counts from the start of the file system; for
  a group other than the first `read_inode` adds the start of the group to it (`hd/main.c:619-621`).
* `read_inode` reads one sector, so an inode that begins near its end is taken from what
  lies behind the buffer (`hd/main.c:628-630`).
* A partition is found by cylinder, head and sector with words 3 and 6 of what identify reads
  (`hd/main.c:283-284, 857`), the default geometry, while the report prints words 54 to 56; the
  number of the first sector in the table is not read. They agree only if whoever wrote the table
  used that geometry.
* A directory entry of size 0 is listed for ever (`hd/main.c:661`).
* Offsets are kept in bytes in 32 bits (`hd/main.c:618-624, 673-675`): a root inode or a
  block behind the first 4 GB of a drive is read from another place (`Span`).
* `release_irqs_taken` stops before line 15 (U:622), which request_irq grants.
* `shift_pressed` counts every repeat of a held key (`tty/main.c:155`).
* Digit keys print and do not type (`tty/main.c:94`), though README.md:137 says
  that what is typed is sent.
* A key pressed before `request_irq` interrupts nobody, and the keyboard then
  waits to be read for ever. `KeysAreRead` is about a user who waits for the setup.
* With weights other than 1 a process with no ticks left can be picked, and its counter
  wraps: three of weights 3, 2, 1 do it, and so do two of weight 2. So `RunsOnCredit` is
  about weight 1, which is what the kernel boots with.
* The queue's `ticksleft` drifts from the sum of its members' ticks.
* `hasFailed(error)` in `tty/main.c:474` tests a pointer.
* `freeBitInBitfield` applies its mask to a byte at the start of the kernel's segment
  (`utilities_HLA.hla:187`), so nothing that exit or `create_process` returns is free again.
* `create_process` assigns no pid, and exit returns the pid 0, which is the idle task's.
* `start` enqueues what `create_process` returns without a look (`main.hla:319, 325, 331`).
* `validate_data_area` adds address and length in 32 bits, so a sum that wraps passes
  (U:453), and a sender that waits for a feature is not looked at (U:712-715);
  `AddressesStayInside` names both.
* `claim_port` and `vir2phys` write no verdict when they succeed (U:847, 861): the stub
  then reports what the caller had in esi.
* `create_process` rounds a limit in pages up unless its last 10 bits are 0, where a page
  has 12 (U:1060): some limits come out up to 3072 bytes short. The programs of the
  repository have no segment that is counted in pages.
* A limit is the last offset of a segment; the processes are given the length of their
  program, so the hardware grants each one byte more.
* `memAreaValid` adds base and limit in 32 bits (U:990), so a region that wraps passes.
* The bitmap has room for 8192 descriptors (`kernel/const.h:12`), but the IDT follows
  the GDT after 1024 (`kernel/const.hhf:80-81`).
* The report of a drive prints two numbers that it is not given (`hd/main.c:368`).
* `err2String` has no text for INVALIDADDRESS (`usrlib/utilities.c:208-223`).
* The uptime counts every tick as a second (U:886), at 32 ticks per second
  (`kernel/const.hhf:33`); nothing that runs reads it.
* `featureTable` is sized by `sizeof(uint32_t)`, 4 entries for 32 features (U:43).

## 6. Not modelled

Boot loader and hardware set-up of the start (straight-line; what it leaves is in each
`Init`), the console of the kernel and the PCI scan (device output; the scan is not called),
the command table of the kernel (unused), the uptime counters (nothing that runs reads them), build
files. Of the user library, copying and comparing strings. Of the disk driver,
`write_sector`, `display_status` and the DMA set-up, which are never called.

## 7. Plan

Done, in this order: `RunQueue` and `Sched`; `Ipc` on top of `RunQueue`; `IpcProofs`;
`Tty`; `System`; `Disk`; `Outf`; `ProcTable` and `Kernel`; the port theorem of
`KernelProofs`; `SchedProofs`; the action theorems of `IpcProofs`; `SystemProofs`; the rest
of `KernelProofs`; `OutfProofs`; `TtyProofs`; `DiskProofs`; the trees of `Disk` and the
invariant of its walk.

Left: `Disk` as a client of `System`: its receive and its reports as calls of `Ipc`.
