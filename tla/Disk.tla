-------------------------------- MODULE Disk --------------------------------
(***************************************************************************)
(* The disk driver (hd/main.c): it looks for four drives, reads the        *)
(* partition table of each, and reports the root directory of every Linux  *)
(* partition.                                                              *)
(*                                                                         *)
(* The driver alone owns its ports, so the writes up to a command are one  *)
(* step, and so is a transfer.  Its recursion over the blocks of a         *)
(* directory is the stack work.  write_sector and the DMA set-up are never *)
(* called.  Block sizes are counted in sectors.                            *)
(***************************************************************************)
EXTENDS Naturals, FiniteSetsExt, SequencesExt

CONSTANTS
  Images,       \* the contents of drives, by name
  Setups,       \* what may be on the four channels: "none", "other", an image
  Sectors,      \* the sectors of a drive
  B,            \* the values of an address register, 2^8
  SECTOR,       \* the bytes of a sector, 512
  INODE,        \* the bytes of an inode_t, 128
  Span,         \* the sectors that a byte offset in a word reaches, 2^23
  MAX_NR_BLOCK_GROUPS,
  Slow,         \* whether a drive may be busy when its status is first read
  Wired         \* the lines that are not masked

Buses == {"primary", "secondary"}
Order == << <<"primary", "master">>, <<"primary", "slave">>,
            <<"secondary", "master">>, <<"secondary", "slave">> >>
Channels == Range(Order)
Bus(c) == c[1]
Unit(c) == c[2]
Line(c) == IF Bus(c) = "primary" THEN 14 ELSE 15

Absent == {"none", "other"}

\* The values of a word, 2^32.
Words == Span * SECTOR

\* A partition starts at a cylinder, a head and a sector; lba says the same as a
\* number, which the driver does not read.
Partition == [linux : BOOLEAN, cylinder : Nat, head : Nat, sector : Nat, lba : Nat]
Superblock == [size : Nat, inodes : Nat, blocks : Nat,
               inodes_per_group : Nat, blocks_per_group : Nat, inode_size : Nat]
INode == [directory : BOOLEAN, direct : Seq(Nat), indirect : [1 .. 3 -> Nat]]

\* A sector, by what it may be read as; as inodes, from any of its bytes.
Views == [table : Seq(Partition),
          super : Superblock,
          group : [0 .. MAX_NR_BLOCK_GROUPS - 1 -> Nat],
          inode : [0 .. SECTOR - 1 -> INode],
          pointers : Seq(Nat),
          entries : Seq([name : STRING, size : Nat \ {0}])]

\* An image has sectors, and the geometry that the drive tells identify.
Geometries == [heads : Nat, sectors : Nat]

ASSUME DiskAssumption ==
  /\ Sectors \in Nat \ {0} /\ B \in Nat \ {0, 1} /\ Sectors <= 16 * B * B * B
  /\ Span \in Nat \ {0} /\ SECTOR \in Nat \ {0} /\ INODE \in 0 .. SECTOR /\ Sectors <= Words
  /\ MAX_NR_BLOCK_GROUPS \in Nat \ {0, 1}
  /\ Setups \subseteq [Channels -> DOMAIN Images \cup Absent]
  /\ Absent \cap DOMAIN Images = {}
  /\ \A i \in DOMAIN Images : /\ Images[i].sector \in [0 .. Sectors - 1 -> Views]
                               /\ Images[i].geometry \in Geometries
  /\ Slow \in BOOLEAN

VARIABLES
  drives,      \* what is on the channels; never changes
  claimed,     \* the ports the driver may use: a bus, or none, and a register
  controller,  \* what identify found on each channel
  geometry,    \* what the drive there told it: nr_heads, nr_sectors_per_track
  selected,    \* channel_selected: its index in Order, 0 for none
  dev,         \* per bus: the unit selected, the sector asked for, its status
  lines,       \* the interrupt lines the driver took
  bits,        \* interrupts recorded for it
  pc, ch,      \* where it is, and at which channel
  work,        \* the calls that main still has to make for this channel
  got,         \* what the call at the top has read so far
  shown,       \* the names of directory entries reported
  err

driver == <<claimed, controller, geometry, selected, lines, pc, ch, work, got, shown, err>>
vars == <<drives, driver, dev, bits>>

c0 == Order[ch]

Registers == {"data", "error", "count", "low", "mid", "high", "select", "command", "status"}
Statuses == {"idle", "busy", "drq"}

Init ==
  /\ drives \in Setups
  /\ claimed = {} /\ lines = {} /\ bits = {}
  /\ controller = [c \in Channels |-> "UNKNOWN"]
  /\ geometry = [c \in Channels |-> [heads |-> 0, sectors |-> 0]]
  /\ selected = 0
  /\ dev = [b \in Buses |-> [unit |-> "master", sector |-> 0, status |-> "idle"]]
  /\ pc = "claim" /\ ch = 1 /\ work = <<>> /\ got = <<>> /\ shown = <<>> /\ err = "OK"

claim_ports ==
  /\ pc = "claim"
  /\ claimed' = Buses \X Registers /\ pc' = "identify"
  /\ UNCHANGED <<drives, controller, geometry, selected, dev, lines, bits, ch, work, got, shown, err>>

\* The line of c rises: it is recorded for its owner.
Raised(c) == IF Line(c) \in lines \cap Wired THEN bits \cup {Line(c)} ELSE bits
-----------------------------------------------------------------------------
(***************************************************************************)
(* identify                                                                *)
(***************************************************************************)
Advance == IF ch = Len(Order) THEN ch' = 1 /\ pc' = "main" ELSE ch' = ch + 1 /\ UNCHANGED pc

\* select_drive writes to the port only if another channel was selected.
FaultSelectOnce == selected = 0
Selects == selected # ch
Selected == [dev EXCEPT ![Bus(c0)].unit = IF Selects THEN Unit(c0) ELSE @]

\* No status at all, a drive that answers with data, and one that does not.
Identified(answers) ==
  /\ \/ answers = "none" /\ controller' = [controller EXCEPT ![c0] = "NONE"]
                          /\ UNCHANGED <<geometry, lines, bits>>
     \/ answers = "other" /\ UNCHANGED <<controller, geometry, lines, bits>>
     \/ /\ answers \notin Absent
        /\ controller' = [controller EXCEPT ![c0] = "ATA"]
        /\ geometry' = [geometry EXCEPT ![c0] = Images[answers].geometry]
        /\ bits' = Raised(c0)
        /\ lines' = lines \cup {Line(c0)}
  /\ Advance /\ UNCHANGED err

\* A drive that is busy is asked for its signature, at the port PORT_LBA_MID
\* of no bus.
BusyDrive(answers) ==
  /\ Slow /\ answers # "none" /\ <<"no bus", "mid">> \notin claimed
  /\ err' = "NOPERMS" /\ pc' = "end"
  /\ UNCHANGED <<controller, geometry, lines, bits, ch>>

identify ==
  /\ pc = "identify"
  /\ selected' = ch
  /\ dev' = Selected
  /\ LET answers == drives[<<Bus(c0), dev'[Bus(c0)].unit>>]
     IN Identified(answers) \/ BusyDrive(answers)
  /\ UNCHANGED <<drives, claimed, work, got, shown>>
-----------------------------------------------------------------------------
(***************************************************************************)
(* What the calls read, and what they do with it                           *)
(***************************************************************************)
\* Sector numbers are words.
Two(sector) == <<sector % Words, (sector + 1) % Words>>

\* The group descriptors begin with the block behind the superblock, at least two
\* sectors behind it.
GroupTable(call) == Two(call.first + (IF call.super.size = 2 THEN 4 ELSE call.super.size))

\* read_inode, of inode 2: its group, and its offset in the table of that group, in
\* bytes.  The address of the table and all that is added to it are byte offsets, in
\* words.
RootGroup(super) == 1 \div super.inodes_per_group
RootOffset(super) == (1 % super.inodes_per_group) * super.inode_size
RootInode(call) ==
  LET blocks == RootGroup(call.super) * call.super.blocks_per_group + call.table
  IN <<(call.first + blocks * call.super.size + RootOffset(call.super) \div SECTOR) % Span>>

\* do_indirect_directory: the first sector of the block into both halves, and
\* blocks of 1024 bytes only.
BlockTwice(call) ==
  IF call.size # 2 THEN <<>>
  ELSE LET s == (call.first + ((call.block * call.size) % Span)) % Words IN <<s, s>>

Wants(call) ==
  CASE call.do = "table"  -> <<0>>
    [] call.do = "super"  -> Two(call.first + 2)
    [] call.do = "groups" -> GroupTable(call)
    [] call.do = "root"   -> RootInode(call)
    [] call.do = "block"  -> BlockTwice(call)

Zeros(s) == {i \in DOMAIN s : s[i] = 0}
UpToZero(s) == IF Zeros(s) = {} THEN s ELSE SubSeq(s, 1, Min(Zeros(s)) - 1)

BlockSize(call) == IF call.do = "root" THEN call.super.size ELSE call.size
Block(call, pointer, level) ==
  [do |-> "block", first |-> call.first, size |-> BlockSize(call), block |-> pointer, level |-> level]
Blocks(call, pointers, level) == [i \in DOMAIN pointers |-> Block(call, pointers[i], level)]

\* read_directory: a zero among the direct pointers ends it.
FaultLastDirect(call, inode) == Blocks(call, UpToZero(Front(inode.direct)), 0)
DirectoryBlocks(call, inode) ==
  LET direct == UpToZero(inode.direct)
      indirect == UpToZero(inode.indirect)
  IN Blocks(call, direct, 0) \o
     IF Len(direct) < Len(inode.direct) THEN <<>>
     ELSE [level \in DOMAIN indirect |-> Block(call, indirect[level], level)]

\* do_direct_directory, over the slots of a block: each entry says how many it
\* takes.
Names(slots) ==
  LET from[i \in 1 .. Len(slots) + 1] ==
        IF i > Len(slots) THEN <<>>
        ELSE <<slots[i].name>> \o
             from[LET n == i + slots[i].size IN IF n > Len(slots) THEN Len(slots) + 1 ELSE n]
  IN from[1]

\* What was read, the first or the second time.
Text(i) == Images[drives[got[i][1]]].sector[got[i][2]]
Pointers == Text(1).pointers \o Text(2).pointers
Entries == Text(1).entries \o Text(2).entries

\* chs2lba, in a word.  A sector number of 0, which counts from 1, is the one before.
FaultTrackMajor(g, p) == ((p.cylinder * g.sectors + p.head) * g.heads + p.sector + (Words - 1)) % Words
chs2lba(g, p) == ((p.cylinder * g.heads + p.head) * g.sectors + p.sector + (Words - 1)) % Words

\* read_partition_table reads the superblock of every Linux partition.
Partitions(g, table) ==
  LET calls[i \in 0 .. Len(table)] ==
        IF i = 0 THEN <<>>
        ELSE IF table[i].linux
        THEN Append(calls[i - 1], [do |-> "super", first |-> chs2lba(g, table[i])])
        ELSE calls[i - 1]
  IN calls[Len(table)]

\* read_superblock, with more groups than there is room for and without.  Both
\* divisions round down: what is smaller than one group counts as none.
Divisible(super) == super.inodes_per_group # 0 /\ super.blocks_per_group # 0
NrBlockGroups(super) ==
  Min({super.inodes \div super.inodes_per_group, super.blocks \div super.blocks_per_group})

Groups(call, super) ==
  IF NrBlockGroups(super) > MAX_NR_BLOCK_GROUPS THEN <<>>
  ELSE <<[do |-> "groups", first |-> call.first, super |-> super]>>

\* read_group_descriptor_table copies the descriptors of the groups that were
\* counted; the others stay zero.
Root(call, group) ==
  LET g == RootGroup(call.super)
  IN <<[do |-> "root", first |-> call.first, super |-> call.super,
        table |-> IF g < NrBlockGroups(call.super) THEN group[g] ELSE 0]>>

\* show_inode
Inode(call, inode) == IF inode.directory THEN DirectoryBlocks(call, inode) ELSE <<>>

\* The C code has no meaning, and the model goes no further: a division by zero,
\* which stops the machine, in read_superblock or by the block size in read_inode;
\* an inode that is shown although it was not read, because there is no second one;
\* and one of which a part is behind the sector that was read.
Undefined(call) ==
  \/ call.do = "super" /\ Len(got) = 2 /\ ~Divisible(Text(1).super)
  \/ call.do = "root" /\ \/ call.super.inodes < 2 \/ call.super.size = 0
                         \/ Len(got) = 1 /\ (RootOffset(call.super) % SECTOR) + INODE > SECTOR

\* do_indirect_directory, above the last level.
FaultZeroToo(call) ==
  IF call.size # 2 \/ call.level = 0 THEN <<>> ELSE Blocks(call, Pointers, call.level - 1)
Indirect(call) ==
  IF call.size # 2 \/ call.level = 0 THEN <<>>
  ELSE Blocks(call, UpToZero(Pointers), call.level - 1)

\* The calls that a call makes when it has read what it wants.
Makes(call) ==
  CASE call.do = "table"  -> Partitions(geometry[c0], Text(1).table)
    [] call.do = "super"  -> Groups(call, Text(1).super)
    [] call.do = "groups" -> Root(call, Text(1).group)
    [] call.do = "root"   -> Inode(call, Text(1).inode[RootOffset(call.super) % SECTOR])
    [] call.do = "block"  -> Indirect(call)

Reports(call) ==
  IF call.do = "block" /\ call.size = 2 /\ call.level = 0 THEN Names(Entries) ELSE <<>>
-----------------------------------------------------------------------------
(***************************************************************************)
(* The loop of main                                                        *)
(***************************************************************************)
NextDrive ==
  /\ pc = "main"
  /\ IF ch > Len(Order) THEN pc' = "end" /\ UNCHANGED <<ch, work>>
     ELSE IF controller[c0] = "ATA"
     THEN pc' = "work" /\ work' = <<[do |-> "table"]>> /\ UNCHANGED ch
     ELSE ch' = ch + 1 /\ UNCHANGED <<pc, work>>
  /\ UNCHANGED <<drives, claimed, controller, geometry, selected, dev, lines, bits, got, shown, err>>

DriveDone ==
  /\ pc = "work" /\ work = <<>>
  /\ pc' = "main" /\ ch' = ch + 1
  /\ UNCHANGED <<drives, claimed, controller, geometry, selected, dev, lines, bits, work, got, shown, err>>

Stops ==
  /\ pc = "work" /\ work # <<>> /\ Undefined(Head(work))
  /\ pc' = "undefined"
  /\ UNCHANGED <<drives, claimed, controller, geometry, selected, dev, lines, bits, ch, work, got, shown, err>>

CallDone ==
  /\ pc = "work" /\ work # <<>> /\ ~Undefined(Head(work)) /\ Len(got) = Len(Wants(Head(work)))
  /\ shown' = shown \o Reports(Head(work))
  /\ work' = Makes(Head(work)) \o Tail(work)
  /\ got' = <<>>
  /\ UNCHANGED <<drives, claimed, controller, geometry, selected, dev, lines, bits, pc, ch, err>>
-----------------------------------------------------------------------------
(***************************************************************************)
(* read_sector                                                             *)
(***************************************************************************)
\* The address as it goes to four registers, the last of them together with the
\* unit, and as the drive puts it together.
FaultSwapped(n) == <<n % B, (n \div (B * B)) % B, (n \div B) % B, n \div (B * B * B)>>
Address(n) == <<n % B, (n \div B) % B, (n \div (B * B)) % B, n \div (B * B * B)>>
Addressed(r) == r[1] + B * (r[2] + B * (r[3] + B * r[4]))

Command ==
  /\ pc = "work" /\ work # <<>> /\ ~Undefined(Head(work)) /\ Len(got) < Len(Wants(Head(work)))
  /\ LET n == Wants(Head(work))[Len(got) + 1] IN
     IF n >= Sectors
     THEN err' = "BEYONDENDOFDEVICE" /\ pc' = "end" /\ UNCHANGED <<dev, bits, selected>>
     ELSE \E s \in {"drq"} \cup (IF Slow THEN {"busy"} ELSE {}) :
            /\ dev' = [dev EXCEPT ![Bus(c0)] = [unit |-> Unit(c0),
                                               sector |-> Addressed(Address(n)),
                                               status |-> s]]
            /\ bits' = IF s = "drq" THEN Raised(c0) ELSE bits
            /\ selected' = ch /\ pc' = "look" /\ UNCHANGED err
  /\ UNCHANGED <<drives, claimed, controller, geometry, lines, ch, work, got, shown>>

\* DRQ is set: 256 words are transferred.
Transfer ==
  /\ pc = "look" /\ dev[Bus(c0)].status = "drq"
  /\ got' = Append(got, << <<Bus(c0), dev[Bus(c0)].unit>>, dev[Bus(c0)].sector>>)
  /\ dev' = [dev EXCEPT ![Bus(c0)].status = "idle"]
  /\ pc' = "work"
  /\ UNCHANGED <<drives, claimed, controller, geometry, selected, lines, bits, ch, work, shown, err>>

MustWait ==
  /\ pc = "look" /\ dev[Bus(c0)].status = "busy"
  /\ pc' = "wait"
  /\ UNCHANGED <<drives, claimed, controller, geometry, selected, dev, lines, bits, ch, work, got, shown, err>>

\* receive returns the recorded interrupts as a word with one bit for each; the
\* driver compares it with the number of the line, and reads the status again
\* only if the two are equal.
Word(s) == MapThenSumSet(LAMBDA n : 2 ^ n, s)

Woken ==
  /\ pc = "wait" /\ bits # {}
  /\ bits' = {}
  /\ IF Word(bits) = Line(c0) THEN pc' = "look" ELSE UNCHANGED pc
  /\ UNCHANGED <<drives, claimed, controller, geometry, selected, dev, lines, ch, work, got, shown, err>>

\* The drive has the sector ready.
Ready(b) ==
  /\ dev[b].status = "busy"
  /\ dev' = [dev EXCEPT ![b].status = "drq"]
  /\ bits' = Raised(<<b, dev[b].unit>>)
  /\ UNCHANGED <<drives, driver>>

read_sector == Command \/ Transfer \/ MustWait \/ Woken

Driver == claim_ports \/ identify \/ NextDrive \/ DriveDone \/ Stops \/ CallDone \/ read_sector

Next == Driver \/ \E b \in Buses : Ready(b)

\* The scheduler lets the driver run (Sched, NoStarvation), and a drive gets
\* ready some time.
Spec == Init /\ [][Next]_vars /\ WF_vars(Driver) /\ \A b \in Buses : WF_vars(Ready(b))
-----------------------------------------------------------------------------
(***************************************************************************)
(* What is on the drives                                                   *)
(***************************************************************************)
\* A tree is what a directory, a file system or a drive holds: the names of the
\* entries under it, in order, and whether all of it is plain: on the drive, at an
\* offset that a word holds, with what counts in the first half of each block, and
\* where the partition table and the group descriptors put it for this driver.
Leaf == [names |-> <<>>, plain |-> TRUE]
Lost == [names |-> <<>>, plain |-> FALSE]
Joined(trees) == [names |-> FlattenSeq([i \in DOMAIN trees |-> trees[i].names]),
                  plain |-> \A i \in DOMAIN trees : trees[i].plain]
Reached(offset, tree) == [tree EXCEPT !.plain = @ /\ offset < Span]

\* The entries of the first half lead from one to the next, and then past the
\* block.
PlainSlots(first, second) ==
  /\ Len(first) = Len(second)
  /\ \E S \in SUBSET DOMAIN first :
       /\ 1 \in S
       /\ \A i \in S : \/ i + first[i].size \in S
                       \/ i + first[i].size > Len(first) + Len(second)

\* Every block of a file system that starts at a sector, as one with entries, and
\* as one with pointers to blocks that are known.
EntryTrees(image, start) ==
  [b \in Nat |->
     LET s == start + 2 * b
         half(i) == Images[image].sector[s + i].entries
     IN IF s + 1 >= Sectors THEN Lost
        ELSE Reached(2 * b, [names |-> Names(half(0) \o half(1)),
                             plain |-> PlainSlots(half(0), half(1))])]

PointerTrees(image, start, below) ==
  [b \in Nat |->
     LET s == start + 2 * b
         half(i) == Images[image].sector[s + i].pointers
         pointers == UpToZero(half(0) \o half(1))
         tree == Joined([i \in DOMAIN pointers |-> below[pointers[i]]])
     IN IF s + 1 >= Sectors THEN Lost
        ELSE Reached(2 * b, [tree EXCEPT !.plain = @ /\ Zeros(half(0)) # {}])]

BlockTrees(image, start) ==
  LET trees[level \in 0 .. 3] ==
        IF level = 0 THEN EntryTrees(image, start)
        ELSE PointerTrees(image, start, trees[level - 1])
  IN trees

\* The root directory: its direct blocks, and one block on each level of
\* indirection.  Its inode may be in any sector of the table.
InodeTree(image, start, super, table) ==
  LET s == start + 2 * table + RootOffset(super) \div SECTOR
      offset == RootOffset(super) % SECTOR
      inode == Images[image].sector[s].inode[offset]
      pointers == UpToZero(inode.direct \o inode.indirect)
      level(i) == IF i <= Len(inode.direct) THEN 0 ELSE i - Len(inode.direct)
      trees == [i \in DOMAIN pointers |-> BlockTrees(image, start)[level(i)][pointers[i]]]
  IN IF s >= Sectors \/ offset + INODE > SECTOR THEN Lost
     ELSE Reached(s, IF inode.directory THEN Joined(trees) ELSE Leaf)

\* Its descriptor is that of the group of inode 2, whether the groups that
\* read_superblock counts include it or not.  The driver takes the address of the
\* table, in another group than the first, for one within the group.
GroupTree(image, start, super) ==
  LET g == RootGroup(super) IN
  IF start + 5 >= Sectors THEN Lost
  ELSE [InodeTree(image, start, super, Images[image].sector[start + 4].group[g])
          EXCEPT !.plain = @ /\ g = 0 /\ NrBlockGroups(super) > 0]

\* A file system without a root inode, or with groups of nothing, is none.  One of
\* another block size, or with too many groups, is refused.
SystemTree(image, start) ==
  LET super == Images[image].sector[start + 2].super
  IN IF start + 3 >= Sectors \/ ~Divisible(super) \/ super.inodes < 2 THEN Lost
     ELSE IF super.size # 2 \/ NrBlockGroups(super) > MAX_NR_BLOCK_GROUPS THEN Leaf
     ELSE GroupTree(image, start, super)

\* The partition is where its cylinder, head and sector say, and that is the number
\* of a sector.
Placed(image, p) ==
  LET g == Images[image].geometry
  IN p.lba + 1 = (p.cylinder * g.heads + p.head) * g.sectors + p.sector

PartitionTree(image, p) == [SystemTree(image, p.lba) EXCEPT !.plain = @ /\ Placed(image, p)]

DriveTree(image) ==
  LET table == Images[image].sector[0].table
  IN Joined([i \in DOMAIN table |->
               IF table[i].linux THEN PartitionTree(image, table[i]) ELSE Leaf])

\* What is on all of the drives, in the order of the channels.
ChannelTree(c) == IF drives[c] \in Absent THEN Leaf ELSE DriveTree(drives[c])
Roots == Joined([i \in DOMAIN Order |-> ChannelTree(Order[i])])
-----------------------------------------------------------------------------
(***************************************************************************)
(* Properties                                                              *)
(***************************************************************************)
Systems == {super \in Superblock : Divisible(super)}

Calls ==
  [do : {"table"}] \cup [do : {"super"}, first : Nat]
    \cup [do : {"groups"}, first : Nat, super : Systems]
    \cup [do : {"root"}, first : Nat, super : Systems, table : Nat]
    \cup [do : {"block"}, first : Nat, size : Nat, block : Nat \ {0}, level : 0 .. 3]

\* Every variable keeps its type; no call is made for a zero pointer, no drive
\* is asked for a sector it does not have, and no level falls below zero.
TypeOK ==
  /\ drives \in Setups
  /\ claimed \subseteq Buses \X Registers /\ lines \subseteq {14, 15} /\ bits \subseteq lines
  /\ controller \in [Channels -> {"UNKNOWN", "NONE", "ATA"}]
  /\ geometry \in [Channels -> Geometries]
  /\ selected \in 0 .. Len(Order)
  /\ dev \in [Buses -> [unit : {"master", "slave"}, sector : 0 .. Sectors - 1, status : Statuses]]
  /\ pc \in {"claim", "identify", "main", "work", "look", "wait", "undefined", "end"}
  /\ ch \in 1 .. Len(Order) + 1
  /\ work \in Seq(Calls) /\ got \in Seq(Channels \X (0 .. Sectors - 1))
  /\ err \in {"OK", "NOPERMS", "BEYONDENDOFDEVICE"}

\* A call acts on the sectors it asked for, of the drive it asked: whatever was
\* read or identified before on either unit of the bus, or is recorded late.
ReadsWhatItAsked ==
  \A i \in DOMAIN got : got[i] = <<c0, Wants(Head(work))[i]>>

\* A channel is taken for an ATA drive, or for empty, only if it is: the drive
\* that answers is the one that was asked.
FindsTheDrives ==
  \A c \in Channels : /\ controller[c] = "ATA" => drives[c] \notin Absent
                      /\ controller[c] = "NONE" => drives[c] = "none"

Finished == pc = "end" /\ err = "OK"

\* Every name of every root directory is reported once and in order, direct and
\* indirect blocks alike, as long as the directories are plain.
PlainRootsAreListed ==
  Finished /\ Roots.plain => shown = Roots.names

\* What the documentation says and the code does not keep; each is refuted by a
\* run of its own.

\* The content of the root inode is listed (README.md:132), plain or not.
RootsAreListed == Finished => shown = Roots.names

\* The driver exits when its work is done (README.md:132), drives that take their
\* time included.
DriverEnds == <>(pc = "end")
=============================================================================
