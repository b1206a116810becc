----------------------------- MODULE DiskProofs -----------------------------
(***************************************************************************)
(* Theorems about Disk: for any drives on the four channels, whatever is   *)
(* written on them, slow or prompt, the driver takes for a drive only what *)
(* is one, each of its calls acts on the sectors it asked for, and it      *)
(* reports the root directories of the drives, plain ones in full and in   *)
(* order.                                                                  *)
(***************************************************************************)
EXTENDS Disk, Induction

-----------------------------------------------------------------------------
(***************************************************************************)
(* Channels                                                                *)
(***************************************************************************)
Units == {"master", "slave"}

LEMMA FourChannels ==
  /\ Len(Order) = 4 /\ DOMAIN Order = 1 .. 4
  /\ Channels = Buses \X Units
  /\ \A n \in 1 .. 4 : /\ Order[n] \in Channels /\ Bus(Order[n]) \in Buses /\ Unit(Order[n]) \in Units
                       /\ Order[n] = <<Bus(Order[n]), Unit(Order[n])>>
<1>1. Len(Order) = 4 /\ DOMAIN Order = 1 .. 4
  BY DEF Order
<1>2. /\ Order[1] = <<"primary", "master">> /\ Order[2] = <<"primary", "slave">>
      /\ Order[3] = <<"secondary", "master">> /\ Order[4] = <<"secondary", "slave">>
  BY DEF Order
<1>3. \A n \in 1 .. 4 : n = 1 \/ n = 2 \/ n = 3 \/ n = 4
  OBVIOUS
<1>4. \A n \in 1 .. 4 : Order[n] \in Buses \X Units
  BY <1>2, <1>3 DEF Buses, Units
<1>5. Channels = Buses \X Units
  <2>1. Channels = {Order[n] : n \in 1 .. 4}
    BY <1>1 DEF Channels, Range
  <2>2. ASSUME NEW b \in Buses, NEW u \in Units PROVE <<b, u>> \in {Order[n] : n \in 1 .. 4}
    BY <1>2 DEF Buses, Units
  <2> QED BY <2>1, <2>2, <1>4
<1> QED BY <1>1, <1>4, <1>5 DEF Bus, Unit

-----------------------------------------------------------------------------
(***************************************************************************)
(* The address of a sector                                                 *)
(***************************************************************************)
\* The drive puts together the number of the sector that was asked for.
LEMMA AddressIsRead ==
  ASSUME NEW n \in Nat, B \in Nat \ {0, 1}
  PROVE  Addressed(Address(n)) = n
<1> DEFINE q1 == n \div B
           q2 == q1 \div B
           q3 == q2 \div B
<1>1. B \in Nat \ {0} /\ B * B \in Nat \ {0}
  OBVIOUS
<1>2. n \div (B * B) = q2
  BY <1>1, DivideTwice
<1>3. n \div (B * B * B) = q3
  <2>1. n \div ((B * B) * B) = (n \div (B * B)) \div B
    <3> DEFINE C == B * B
    <3>1. C \in Nat \ {0}
      BY <1>1
    <3> HIDE DEF C
    <3>2. n \div (C * B) = (n \div C) \div B
      BY <1>1, <3>1, DivideTwice
    <3> QED BY <3>2 DEF C
  <2> QED BY <1>2, <2>1
<1>4. B \in Nat \ {0}
  OBVIOUS
<1>5. q1 \in Nat
  BY <1>4, Division
<1>6. n % B \in Nat /\ n = B * q1 + (n % B)
  BY <1>4, Division
<1> HIDE DEF q1
<1>7. q2 \in Nat
  BY <1>4, <1>5, Division
<1>8. q1 % B \in Nat /\ q1 = B * q2 + (q1 % B)
  BY <1>4, <1>5, Division
<1> HIDE DEF q2
<1>9. q3 \in Nat
  BY <1>4, <1>7, Division
<1>10. q2 % B \in Nat /\ q2 = B * q3 + (q2 % B)
  BY <1>4, <1>7, Division
<1> HIDE DEF q3
<1>11. Address(n) = <<n % B, q1 % B, q2 % B, q3>>
  BY <1>2, <1>3 DEF Address, q1
<1>12. Addressed(Address(n)) = (n % B) + B * ((q1 % B) + B * ((q2 % B) + B * q3))
  BY <1>11 DEF Addressed
<1>13. (q2 % B) + B * q3 = q2
  BY <1>4, <1>9, <1>10, ProductIsNat
<1>14. (q1 % B) + B * q2 = q1
  BY <1>4, <1>7, <1>8, ProductIsNat
<1>15. (n % B) + B * q1 = n
  BY <1>4, <1>5, <1>6, ProductIsNat
<1> QED BY <1>12, <1>13, <1>14, <1>15

-----------------------------------------------------------------------------
(***************************************************************************)
(* Calls                                                                   *)
(***************************************************************************)
Positive == Nat \ {0}

\* What is known of a call by its kind.
LEMMA Kinds ==
  ASSUME NEW call \in Calls
  PROVE  \/ call.do = "table"
         \/ call.do = "super" /\ call.first \in Nat
         \/ call.do = "groups" /\ call.first \in Nat /\ call.super \in Systems
         \/ call.do = "root" /\ call.first \in Nat /\ call.super \in Systems /\ call.table \in Nat
         \/ /\ call.do = "block" /\ call.first \in Nat /\ call.size \in Nat
            /\ call.block \in Positive /\ call.level \in 0 .. 3
  BY DEF Calls, Positive

\* Words hold the numbers of all sectors.
LEMMA WordsAre ==
  /\ Words \in Positive /\ Sectors \in Positive /\ Sectors <= Words
  /\ Span \in Positive /\ SECTOR \in Positive
  /\ \A n \in Nat : n % Words \in Nat
  /\ \A n \in Nat : n < Sectors => n % Words = n
<1>1. Span \in Positive /\ SECTOR \in Positive /\ Sectors \in Positive /\ Sectors <= Words
  BY DiskAssumption DEF Positive
<1>2. Words \in Nat
  BY <1>1, ProductIsNat DEF Words, Positive
<1>3. Words \in Positive
  BY <1>1, <1>2 DEF Positive
<1>4. \A n \in Nat : n % Words \in Nat /\ (n < Sectors => n % Words = n)
  <2> DEFINE w == Words
  <2>1. w \in Nat \ {0} /\ Sectors <= w /\ Sectors \in Nat
    BY <1>1, <1>3 DEF Positive
  <2> HIDE DEF w
  <2>2. \A n \in Nat : n % w \in Nat
    BY <2>1
  <2>3. ASSUME NEW n \in Nat, n < Sectors PROVE n % w = n
    <3>1. n \in 0 .. w - 1
      BY <2>1, <2>3
    <3> QED BY <2>1, <3>1
  <2> QED BY <2>2, <2>3 DEF w
<1> QED BY <1>1, <1>3, <1>4

LEMMA TwoAre ==
  ASSUME NEW n \in Nat
  PROVE  /\ Two(n) \in Seq(Nat) /\ Len(Two(n)) = 2
         /\ n + 1 < Sectors => Two(n) = <<n, n + 1>>
<1>1. n + 1 \in Nat /\ n % Words \in Nat /\ (n + 1) % Words \in Nat
  BY WordsAre
<1>2. Two(n) \in Seq(Nat) /\ Len(Two(n)) = 2
  BY <1>1 DEF Two
<1>3. ASSUME n + 1 < Sectors PROVE Two(n) = <<n, n + 1>>
  <2>1. n < Sectors
    BY <1>3, WordsAre DEF Positive
  <2>2. n % Words = n /\ (n + 1) % Words = n + 1
    BY <1>1, <1>3, <2>1, WordsAre
  <2> QED BY <2>2 DEF Two
<1> QED BY <1>2, <1>3

\* The root inode is in one of two groups, and somewhere in their tables.
LEMMA SystemIs ==
  ASSUME NEW super \in Systems
  PROVE  /\ super.size \in Nat /\ super.inodes \in Nat /\ super.blocks_per_group \in Nat
         /\ RootGroup(super) \in 0 .. MAX_NR_BLOCK_GROUPS - 1
         /\ RootOffset(super) \in Nat /\ RootOffset(super) \div SECTOR \in Nat
         /\ RootOffset(super) % SECTOR \in 0 .. SECTOR - 1
         /\ NrBlockGroups(super) \in Nat
<1>1. /\ super.size \in Nat /\ super.inodes \in Nat /\ super.blocks \in Nat /\ super.inode_size \in Nat
      /\ super.inodes_per_group \in Nat \ {0} /\ super.blocks_per_group \in Nat \ {0}
  BY DEF Systems, Superblock, Divisible
<1> DEFINE d == super.inodes_per_group
           a == super.inodes \div d
           b == super.blocks \div super.blocks_per_group
<1>2. 1 \div d \in 0 .. 1 /\ 1 % d \in Nat
  <2> DEFINE e == d
  <2>1. e \in Nat \ {0}
    BY <1>1
  <2> HIDE DEF e
  <2>2. 1 \div e \in Nat /\ 1 % e \in 0 .. e - 1 /\ 1 = e * (1 \div e) + (1 % e)
    BY <2>1, Division
  <2>3. 1 \div e <= 1
    BY <2>1
  <2>4. 1 \div e \in 0 .. 1 /\ 1 % e \in Nat
    BY <2>1, <2>2, <2>3
  <2> QED BY <2>4 DEF e
<1>3. RootGroup(super) \in 0 .. MAX_NR_BLOCK_GROUPS - 1
  <2>1. MAX_NR_BLOCK_GROUPS \in Nat \ {0, 1}
    BY DiskAssumption
  <2> QED BY <1>2, <2>1 DEF RootGroup
<1>4. RootOffset(super) \in Nat
  BY <1>1, <1>2, ProductIsNat DEF RootOffset
<1>5. RootOffset(super) \div SECTOR \in Nat /\ RootOffset(super) % SECTOR \in 0 .. SECTOR - 1
  <2> DEFINE o == RootOffset(super)
  <2>1. o \in Nat /\ SECTOR \in Nat \ {0}
    BY <1>4, WordsAre DEF Positive
  <2> HIDE DEF o
  <2> QED BY <2>1, Division DEF o
<1>6. NrBlockGroups(super) \in Nat
  <2>1. a \in Nat /\ b \in Nat
    BY <1>1, Division
  <2>2. NrBlockGroups(super) = Min({a, b})
    BY DEF NrBlockGroups
  <2> HIDE DEF a, b
  <2>3. \E x \in {a, b} : \A y \in {a, b} : x <= y
    BY <2>1
  <2>4. Min({a, b}) \in {a, b}
    BY <2>3 DEF Min
  <2> QED BY <2>1, <2>2, <2>4
<1> QED BY <1>1, <1>3, <1>4, <1>5, <1>6

\* Every call asks for sectors by their numbers.
LEMMA WantsAreNumbers ==
  ASSUME NEW call \in Calls
  PROVE  Wants(call) \in Seq(Nat)
<1>1. CASE call.do = "table"
  BY <1>1 DEF Wants
<1>2. CASE call.do = "super"
  <2>1. call.first + 2 \in Nat
    BY <1>2, Kinds
  <2> QED BY <1>2, <2>1, TwoAre DEF Wants
<1>3. CASE call.do = "groups"
  <2> DEFINE s == call.first + (IF call.super.size = 2 THEN 4 ELSE call.super.size)
  <2>1. call.first \in Nat /\ call.super.size \in Nat
    BY <1>3, Kinds, SystemIs
  <2>2. s \in Nat
    BY <2>1
  <2>3. GroupTable(call) = Two(s)
    BY DEF GroupTable
  <2> HIDE DEF s
  <2> QED BY <1>3, <2>2, <2>3, TwoAre DEF Wants
<1>4. CASE call.do = "root"
  <2> DEFINE blocks == RootGroup(call.super) * call.super.blocks_per_group + call.table
             m == blocks * call.super.size
             n == call.first + m + RootOffset(call.super) \div SECTOR
  <2>1. /\ call.first \in Nat /\ call.table \in Nat /\ call.super.size \in Nat
        /\ call.super.blocks_per_group \in Nat /\ RootGroup(call.super) \in Nat
        /\ RootOffset(call.super) \div SECTOR \in Nat
    BY <1>4, Kinds, SystemIs
  <2>2. blocks \in Nat
    <3>1. RootGroup(call.super) * call.super.blocks_per_group \in Nat
      BY <2>1, ProductIsNat
    <3> QED BY <2>1, <3>1
  <2> HIDE DEF blocks
  <2>3. m \in Nat
    BY <2>1, <2>2, ProductIsNat
  <2> HIDE DEF m
  <2>4. n \in Nat
    BY <2>1, <2>3
  <2>5. RootInode(call) = <<n % Span>>
    BY DEF RootInode, m, blocks
  <2> HIDE DEF n
  <2>6. n % Span \in Nat
    BY <2>4, WordsAre DEF Positive
  <2> QED BY <1>4, <2>5, <2>6 DEF Wants
<1>5. CASE call.do = "block"
  <2>1. call.first \in Nat /\ call.size \in Nat /\ call.block \in Nat
    BY <1>5, Kinds DEF Positive
  <2> DEFINE n == call.block * call.size
             s == call.first + (n % Span)
  <2>2. n \in Nat
    BY <2>1, ProductIsNat
  <2> HIDE DEF n
  <2>3. n % Span \in Nat
    BY <2>2, WordsAre DEF Positive
  <2>4. s \in Nat
    BY <2>1, <2>3
  <2> HIDE DEF s
  <2>5. BlockTwice(call) = IF call.size # 2 THEN <<>> ELSE <<s % Words, s % Words>>
    BY DEF BlockTwice, s, n
  <2>6. BlockTwice(call) \in Seq(Nat)
    BY <2>4, <2>5, WordsAre
  <2> QED BY <1>5, <2>6 DEF Wants
<1> QED BY <1>1, <1>2, <1>3, <1>4, <1>5, Kinds

\* A call for a pointer.
LEMMA BlockIsCall ==
  ASSUME NEW call, call.first \in Nat, BlockSize(call) \in Nat,
         NEW pointer \in Positive, NEW level \in 0 .. 3
  PROVE  Block(call, pointer, level) \in Calls
  BY DEF Block, Calls, Positive

LEMMA BlocksAreCalls ==
  ASSUME NEW call, call.first \in Nat, BlockSize(call) \in Nat,
         NEW pointers \in Seq(Positive), NEW level \in 0 .. 3
  PROVE  Blocks(call, pointers, level) \in Seq(Calls)
<1>1. \A i \in 1 .. Len(pointers) : Block(call, pointers[i], level) \in Calls
  BY BlockIsCall
<1>2. Blocks(call, pointers, level) = [i \in 1 .. Len(pointers) |-> Block(call, pointers[i], level)]
  BY DEF Blocks
<1>3. Len(pointers) \in Nat
  OBVIOUS
<1> QED BY <1>1, <1>2, <1>3

\* Nothing behind the first zero is looked at, nor the zero.
LEMMA UpToZeroIs ==
  ASSUME NEW s \in Seq(Nat)
  PROVE  UpToZero(s) \in Seq(Positive) /\ Len(UpToZero(s)) <= Len(s)
<1>1. DOMAIN s = 1 .. Len(s) /\ Len(s) \in Nat /\ \A i \in 1 .. Len(s) : s[i] \in Nat
  OBVIOUS
<1>2. CASE Zeros(s) = {}
  <2>1. \A i \in 1 .. Len(s) : s[i] \in Positive
    BY <1>1, <1>2 DEF Zeros, Positive
  <2>2. s = [i \in 1 .. Len(s) |-> s[i]]
    OBVIOUS
  <2>3. s \in Seq(Positive)
    BY <1>1, <2>1, <2>2
  <2> QED BY <1>1, <1>2, <2>3 DEF UpToZero
<1>3. CASE Zeros(s) # {}
  <2> DEFINE m == Min(Zeros(s))
  <2>1. Zeros(s) \in SUBSET Nat /\ Zeros(s) \subseteq 1 .. Len(s)
    BY <1>1 DEF Zeros
  <2>2. \E x \in Zeros(s) : \A y \in Zeros(s) : x <= y
    BY <1>3, <2>1, LeastElement
  <2>3. m \in Zeros(s) /\ \A y \in Zeros(s) : m <= y
    BY <2>2 DEF Min
  <2> HIDE DEF m
  <2>4. m \in 1 .. Len(s) /\ m - 1 \in 0 .. Len(s)
    BY <1>1, <2>1, <2>3
  <2>5. \A i \in 1 .. m - 1 : s[i] \in Positive
    <3> TAKE i \in 1 .. m - 1
    <3>1. i \in 1 .. Len(s) /\ ~(m <= i)
      BY <1>1, <2>4
    <3>2. i \notin Zeros(s)
      BY <2>3, <3>1
    <3> QED BY <1>1, <3>1, <3>2 DEF Zeros, Positive
  <2>6. UpToZero(s) = SubSeq(s, 1, m - 1)
    BY <1>3 DEF UpToZero, m
  <2>7. SubSeq(s, 1, m - 1) = [i \in 1 .. m - 1 |-> s[i]]
    <3>1. SubSeq(s, 1, m - 1) = [i \in 1 .. (m - 1) - 1 + 1 |-> s[1 + i - 1]]
      BY <1>1, <2>4
    <3> QED BY <1>1, <2>4
  <2>8. [i \in 1 .. m - 1 |-> s[i]] \in Seq(Positive) /\ Len([i \in 1 .. m - 1 |-> s[i]]) = m - 1
    BY <2>4, <2>5
  <2> QED BY <1>1, <2>4, <2>6, <2>7, <2>8
<1> QED BY <1>2, <1>3

\* Every partition starts at some sector: the one that the partition table names if
\* it does so twice and there is such a sector.
LEMMA PlaceIs ==
  ASSUME NEW geo \in Geometries, NEW p \in Partition
  PROVE  /\ chs2lba(geo, p) \in Nat
         /\ /\ p.lba + 1 = (p.cylinder * geo.heads + p.head) * geo.sectors + p.sector
            /\ p.lba < Sectors
            => chs2lba(geo, p) = p.lba
<1>1. /\ geo.heads \in Nat /\ geo.sectors \in Nat
      /\ p.cylinder \in Nat /\ p.head \in Nat /\ p.sector \in Nat /\ p.lba \in Nat
  BY DEF Geometries, Partition
<1> DEFINE t == p.cylinder * geo.heads
           h == t + p.head
           m == h * geo.sectors
           x == m + p.sector
<1>2. x \in Nat
  <2>1. t \in Nat
    BY <1>1, ProductIsNat
  <2>2. h \in Nat
    BY <1>1, <2>1
  <2> HIDE DEF h
  <2>3. m \in Nat
    BY <1>1, <2>2, ProductIsNat
  <2> HIDE DEF m
  <2> QED BY <1>1, <2>3
<1>3. chs2lba(geo, p) = (x + (Words - 1)) % Words
  BY DEF chs2lba
<1> HIDE DEF x
<1> DEFINE w == Words
<1>4. w \in Nat \ {0}
  BY WordsAre DEF Positive
<1>5. p.lba < Sectors => p.lba < w
  BY <1>1, WordsAre DEF Positive
<1> HIDE DEF w
<1>6. (x + (w - 1)) % w \in Nat
  BY <1>2, <1>4
<1>7. ASSUME p.lba + 1 = x, p.lba < w PROVE (x + (w - 1)) % w = p.lba
  <2>1. x + (w - 1) = w * 1 + p.lba /\ x + (w - 1) \in Nat /\ p.lba \in 0 .. w - 1
    BY <1>1, <1>2, <1>4, <1>7
  <2> QED BY <1>4, <2>1, DivisionIsUnique
<1> QED BY <1>3, <1>5, <1>6, <1>7 DEF w, x

\* The loop of read_partition_table leaves one call for each Linux partition.
LEMMA PartitionsGrow ==
  ASSUME NEW geo \in Geometries, NEW table \in Seq(Partition)
  PROVE  \E g : LET super(i) == [do |-> "super", first |-> chs2lba(geo, table[i])] IN
                /\ g[0] = <<>>
                /\ \A i \in 1 .. Len(table) :
                     g[i] = IF table[i].linux THEN Append(g[i - 1], super(i)) ELSE g[i - 1]
                /\ \A i \in 0 .. Len(table) : g[i] \in Seq(Calls)
                /\ \A i \in 1 .. Len(table) : super(i) \in Calls
                /\ Partitions(geo, table) = g[Len(table)]
<1> DEFINE N == Len(table)
           S == Seq(Calls)
           super(i) == [do |-> "super", first |-> chs2lba(geo, table[i])]
           Steps(f) == f = [i \in 0 .. N |->
                              IF i = 0 THEN <<>>
                              ELSE IF table[i].linux THEN Append(f[i - 1], super(i)) ELSE f[i - 1]]
           D == [n \in Nat |-> [q \in S |-> IF n \in 1 .. N /\ table[n].linux
                                            THEN Append(q, super(n)) ELSE q]]
<1>1. N \in Nat /\ \A i \in 1 .. N : chs2lba(geo, table[i]) \in Nat
  <2>1. N \in Nat /\ \A i \in 1 .. N : table[i] \in Partition
    OBVIOUS
  <2> QED BY <2>1, PlaceIs
<1>2. \A i \in 1 .. N : super(i) \in Calls
  BY <1>1 DEF Calls
<1> HIDE DEF super, N
<1>3. <<>> \in S /\ \A q \in S : \A i \in 1 .. N : Append(q, super(i)) \in S
  BY <1>2
<1> HIDE DEF S
<1>4. D \in [Nat -> [S -> S]]
  BY <1>3
<1>5. PICK f \in [0 .. N -> S] : Iterates(f, N, <<>>, D)
  <2> HIDE DEF D
  <2> QED BY <1>1, <1>3, <1>4, IteratesExist
<1>6. \A n \in 0 .. N : n # 0 => D[n][f[n - 1]] = IF table[n].linux THEN Append(f[n - 1], super(n)) ELSE f[n - 1]
  <2> TAKE n \in 0 .. N
  <2> HAVE n # 0
  <2>1. n \in 1 .. N /\ n \in Nat /\ n - 1 \in 0 .. N
    BY <1>1
  <2>2. f[n - 1] \in S
    BY <2>1
  <2> QED BY <2>1, <2>2
<1> HIDE DEF D
<1>7. Steps(f)
  <2>1. f = [n \in 0 .. N |-> IF n = 0 THEN <<>> ELSE D[n][f[n - 1]]]
    BY <1>5 DEF Iterates
  <2> QED BY <1>6, <2>1
<1> DEFINE g == CHOOSE g : Steps(g)
<1>8. Steps(g)
  BY <1>7
<1>9. Partitions(geo, table) = g[N]
  BY DEF Partitions, N, super
<1> HIDE DEF g
<1> DEFINE Q == {n \in Nat : n <= N => g[n] \in S}
<1>10. 0 \in Q
  <2>1. g[0] = <<>>
    BY <1>1, <1>8
  <2> QED BY <1>3, <2>1
<1>11. \A n \in Q : n + 1 \in Q
  <2> SUFFICES ASSUME NEW n \in Q PROVE n + 1 \in Q
    OBVIOUS
  <2>1. n \in Nat /\ n + 1 \in Nat
    OBVIOUS
  <2> SUFFICES ASSUME n + 1 <= N PROVE g[n + 1] \in S
    BY <2>1
  <2>2. n + 1 \in 0 .. N /\ n + 1 \in 1 .. N /\ n + 1 # 0 /\ (n + 1) - 1 = n /\ g[n] \in S
    BY <1>1, <2>1
  <2>3. g[n + 1] = IF table[n + 1].linux THEN Append(g[n], super(n + 1)) ELSE g[n]
    BY <1>8, <2>2
  <2> QED BY <1>3, <2>2, <2>3
<1>12. Q = Nat
  <2> HIDE DEF Q
  <2>1. Q \in SUBSET Nat
    BY DEF Q
  <2> QED BY <1>10, <1>11, <2>1, SetInduction
<1>13. \A i \in 0 .. N : g[i] \in S
  <2>1. \A i \in 0 .. N : i \in Q /\ i <= N
    <3> HIDE DEF Q
    <3> QED BY <1>1, <1>12
  <2> QED BY <2>1
<1>14. g[0] = <<>>
  BY <1>1, <1>8
<1>15. \A i \in 1 .. N : g[i] = IF table[i].linux THEN Append(g[i - 1], super(i)) ELSE g[i - 1]
  <2> TAKE i \in 1 .. N
  <2>1. i \in 0 .. N /\ i # 0
    BY <1>1
  <2> QED BY <1>8, <2>1
<1> QED BY <1>2, <1>9, <1>13, <1>14, <1>15 DEF S, N, super

LEMMA PartitionsAreCalls ==
  ASSUME NEW geo \in Geometries, NEW table \in Seq(Partition)
  PROVE  Partitions(geo, table) \in Seq(Calls)
<1>1. PICK g : /\ \A i \in 0 .. Len(table) : g[i] \in Seq(Calls)
               /\ Partitions(geo, table) = g[Len(table)]
  BY PartitionsGrow
<1>2. Len(table) \in 0 .. Len(table)
  OBVIOUS
<1> QED BY <1>1, <1>2

\* read_directory asks for blocks that a pointer names, at a level it may have.
LEMMA DirectoryBlocksAreCalls ==
  ASSUME NEW call, call.first \in Nat, BlockSize(call) \in Nat,
         NEW inode, inode.direct \in Seq(Nat), inode.indirect \in [1 .. 3 -> Nat]
  PROVE  DirectoryBlocks(call, inode) \in Seq(Calls)
<1> DEFINE direct == UpToZero(inode.direct)
           indirect == UpToZero(inode.indirect)
           more == [level \in DOMAIN indirect |-> Block(call, indirect[level], level)]
<1>1. direct \in Seq(Positive)
  BY UpToZeroIs
<1>2. Blocks(call, direct, 0) \in Seq(Calls)
  BY <1>1, BlocksAreCalls
<1>3. inode.indirect \in Seq(Nat) /\ Len(inode.indirect) = 3
  <2> DEFINE f == inode.indirect
  <2>1. f \in [1 .. 3 -> Nat]
    OBVIOUS
  <2> HIDE DEF f
  <2>2. f \in Seq(Nat) /\ Len(f) = 3
    <3>1. f = [i \in 1 .. 3 |-> f[i]] /\ \A i \in 1 .. 3 : f[i] \in Nat
      BY <2>1
    <3>2. [i \in 1 .. 3 |-> f[i]] \in Seq(Nat) /\ Len([i \in 1 .. 3 |-> f[i]]) = 3
      BY <3>1
    <3> QED BY <3>1, <3>2
  <2> QED BY <2>2 DEF f
<1>4. indirect \in Seq(Positive) /\ Len(indirect) <= 3
  BY <1>3, UpToZeroIs
<1> HIDE DEF direct, indirect
<1>5. DOMAIN indirect = 1 .. Len(indirect) /\ Len(indirect) \in Nat /\ \A level \in 1 .. Len(indirect) : indirect[level] \in Positive
  BY <1>4
<1>6. \A level \in 1 .. Len(indirect) : Block(call, indirect[level], level) \in Calls
  <2> TAKE level \in 1 .. Len(indirect)
  <2>1. level \in 0 .. 3
    BY <1>4, <1>5
  <2> QED BY <1>5, <2>1, BlockIsCall
<1>7. more \in Seq(Calls)
  BY <1>5, <1>6
<1>8. DirectoryBlocks(call, inode) =
        Blocks(call, direct, 0) \o IF Len(direct) < Len(inode.direct) THEN <<>> ELSE more
  BY DEF DirectoryBlocks, direct, indirect
<1> HIDE DEF more
<1> QED BY <1>2, <1>7, <1>8

-----------------------------------------------------------------------------
(***************************************************************************)
(* The inductive invariant                                                 *)
(***************************************************************************)
\* A drive is worked on while it is a drive, and nothing is left of the call
\* before when the next one begins.
Working ==
  /\ pc \in {"work", "look", "wait"} => ch <= 4 /\ controller[c0] = "ATA"
  /\ pc \in {"claim", "identify"} => ch <= 4
  /\ pc \in {"claim", "identify", "main"} => work = <<>>
  /\ work = <<>> => got = <<>>

\* Between a command and its transfer the bus is set to what the call wants.
Asking ==
  pc \in {"look", "wait"} =>
    /\ work # <<>>
    /\ dev[Bus(c0)].unit = Unit(c0)
    /\ dev[Bus(c0)].sector = Wants(Head(work))[Len(got) + 1]

\* select_drive may leave out the write, for the unit is still selected.
Selecting == selected # 0 => dev[Bus(Order[selected])].unit = Unit(Order[selected])

\* The geometry of a channel is what the drive there told.
Measured == \A c \in Channels : controller[c] = "ATA" => geometry[c] = Images[drives[c]].geometry

DiskInv ==
  /\ TypeOK /\ ReadsWhatItAsked /\ FindsTheDrives
  /\ Working /\ Asking /\ Selecting /\ Measured

LEMMA ViewFields ==
  ASSUME NEW v \in Views
  PROVE  /\ v.table \in Seq(Partition) /\ v.super \in Superblock
         /\ v.group \in [0 .. MAX_NR_BLOCK_GROUPS - 1 -> Nat]
         /\ v.pointers \in Seq(Nat)
         /\ \A o \in 0 .. SECTOR - 1 : /\ v.inode[o].directory \in BOOLEAN
                                        /\ v.inode[o].direct \in Seq(Nat)
                                        /\ v.inode[o].indirect \in [1 .. 3 -> Nat]
<1>1. /\ v.table \in Seq(Partition) /\ v.super \in Superblock
      /\ v.group \in [0 .. MAX_NR_BLOCK_GROUPS - 1 -> Nat] /\ v.pointers \in Seq(Nat)
      /\ v.inode \in [0 .. SECTOR - 1 -> INode]
  BY DEF Views
<1>2. \A o \in 0 .. SECTOR - 1 : v.inode[o] \in INode
  BY <1>1
<1>3. \A i \in INode : i.directory \in BOOLEAN /\ i.direct \in Seq(Nat) /\ i.indirect \in [1 .. 3 -> Nat]
  BY DEF INode
<1> QED BY <1>1, <1>2, <1>3

\* What was read is a sector of the drive.
LEMMA TextIsRead ==
  ASSUME DiskInv, pc = "work", NEW i \in DOMAIN got
  PROVE  Text(i) \in Views
<1>1. ch \in 1 .. 4 /\ controller[c0] = "ATA"
  BY FourChannels DEF DiskInv, Working, TypeOK
<1>2. c0 \in Channels
  BY <1>1, FourChannels DEF c0
<1>3. drives[c0] \notin Absent
  BY <1>1, <1>2 DEF DiskInv, FindsTheDrives
<1>4. drives \in [Channels -> DOMAIN Images \cup Absent]
  BY DiskAssumption DEF DiskInv, TypeOK
<1>5. drives[c0] \in DOMAIN Images
  BY <1>2, <1>3, <1>4
<1>6. got[i][1] = c0
  BY DEF DiskInv, ReadsWhatItAsked
<1>7. got[i][2] \in 0 .. Sectors - 1
  <2> DEFINE A == 0 .. Sectors - 1
  <2>1. got \in Seq(Channels \X A)
    BY DEF DiskInv, TypeOK
  <2> HIDE DEF A
  <2>2. got[i] \in Channels \X A
    BY <2>1
  <2>3. got[i][2] \in A
    BY <2>2
  <2> QED BY <2>3 DEF A
<1>8. Images[drives[c0]].sector \in [0 .. Sectors - 1 -> Views]
  BY <1>5, DiskAssumption
<1> QED BY <1>6, <1>7, <1>8 DEF Text

\* What is known when the driver stands at a channel.
LEMMA AtChannel ==
  ASSUME TypeOK, ch <= 4
  PROVE  /\ ch \in 1 .. 4 /\ c0 \in Channels /\ c0 = <<Bus(c0), Unit(c0)>>
         /\ Bus(c0) \in Buses /\ Unit(c0) \in Units /\ Line(c0) \in {14, 15}
<1>1. ch \in 1 .. 4
  BY FourChannels DEF TypeOK
<1> QED BY <1>1, FourChannels DEF c0, Line

\* A call that has read what it wanted makes calls.
LEMMA MakesAreCalls ==
  ASSUME DiskInv, pc = "work", work # <<>>, Len(got) = Len(Wants(Head(work))), ~Undefined(Head(work))
  PROVE  Makes(Head(work)) \in Seq(Calls)
<1> DEFINE call == Head(work)
<1>1. call \in Calls
  BY DEF DiskInv, TypeOK
<1>2. DOMAIN got = 1 .. Len(Wants(call)) /\ Len(got) = Len(Wants(call)) /\ ~Undefined(call)
  BY DEF DiskInv, TypeOK
<1> HIDE DEF call
<1>3. CASE call.do = "table"
  <2>1. Wants(call) = <<0>>
    BY <1>3 DEF Wants
  <2>2. Text(1) \in Views
    BY <1>2, <2>1, TextIsRead
  <2>3. geometry[c0] \in Geometries
    <3>1. c0 \in Channels
      BY AtChannel DEF DiskInv, Working
    <3> QED BY <3>1 DEF DiskInv, TypeOK
  <2>4. Partitions(geometry[c0], Text(1).table) \in Seq(Calls)
    BY <2>2, <2>3, ViewFields, PartitionsAreCalls
  <2> QED BY <1>3, <2>4 DEF Makes, call
<1>4. CASE call.do = "super"
  <2>1. call.first \in Nat /\ call.first + 2 \in Nat
    BY <1>1, <1>4, Kinds
  <2>2. Wants(call) = Two(call.first + 2) /\ Len(Wants(call)) = 2
    BY <1>4, <2>1, TwoAre DEF Wants
  <2>3. Text(1) \in Views /\ Divisible(Text(1).super)
    BY <1>2, <1>4, <2>2, TextIsRead DEF Undefined
  <2>4. Text(1).super \in Systems
    BY <2>3, ViewFields DEF Systems
  <2>5. [do |-> "groups", first |-> call.first, super |-> Text(1).super] \in Calls
    BY <2>1, <2>4 DEF Calls
  <2>6. Groups(call, Text(1).super) \in Seq(Calls)
    BY <2>5 DEF Groups
  <2> QED BY <1>4, <2>6 DEF Makes, call
<1>5. CASE call.do = "groups"
  <2>1. call.first \in Nat /\ call.super \in Systems
    BY <1>1, <1>5, Kinds
  <2>2. Len(Wants(call)) = 2
    BY <1>5 DEF Wants, GroupTable, Two
  <2>3. Text(1) \in Views
    BY <1>2, <2>2, TextIsRead
  <2>4. Text(1).group[RootGroup(call.super)] \in Nat
    BY <2>1, <2>3, ViewFields, SystemIs
  <2> DEFINE t == IF RootGroup(call.super) < NrBlockGroups(call.super)
                  THEN Text(1).group[RootGroup(call.super)] ELSE 0
             next == [do |-> "root", first |-> call.first, super |-> call.super, table |-> t]
  <2>5. t \in Nat
    BY <2>4
  <2>6. Root(call, Text(1).group) = <<next>>
    BY DEF Root
  <2> HIDE DEF t
  <2>7. next \in Calls
    BY <2>1, <2>5 DEF Calls
  <2> HIDE DEF next
  <2>8. Root(call, Text(1).group) \in Seq(Calls)
    <3>1. <<next>> \in Seq(Calls)
      BY <2>7
    <3>2. Root(call, Text(1).group) = <<next>>
      BY <2>6 DEF next, t
    <3> QED BY <3>1, <3>2
  <2> QED BY <1>5, <2>8 DEF Makes, call
<1>6. CASE call.do = "root"
  <2>1. call.first \in Nat /\ call.super \in Systems
    BY <1>1, <1>6, Kinds
  <2>2. Len(Wants(call)) = 1
    BY <1>6 DEF Wants, RootInode
  <2>3. Text(1) \in Views
    BY <1>2, <2>2, TextIsRead
  <2> DEFINE inode == Text(1).inode[RootOffset(call.super) % SECTOR]
  <2>4. inode.direct \in Seq(Nat) /\ inode.indirect \in [1 .. 3 -> Nat]
    BY <2>1, <2>3, ViewFields, SystemIs
  <2>5. BlockSize(call) \in Nat
    BY <1>6, <2>1, SystemIs DEF BlockSize
  <2>6. Makes(call) = Inode(call, inode)
    BY <1>6 DEF Makes
  <2> HIDE DEF inode
  <2>7. DirectoryBlocks(call, inode) \in Seq(Calls)
    BY <2>1, <2>4, <2>5, DirectoryBlocksAreCalls
  <2>8. Inode(call, inode) \in Seq(Calls)
    BY <2>7 DEF Inode
  <2> QED BY <2>6, <2>8 DEF call
<1>7. CASE call.do = "block"
  <2>1. Makes(call) = Indirect(call)
    BY <1>7 DEF Makes
  <2>2. CASE call.size # 2 \/ call.level = 0
    <3>1. Indirect(call) = <<>>
      BY <2>2 DEF Indirect
    <3>2. Makes(call) \in Seq(Calls)
      BY <2>1, <3>1
    <3> QED BY <3>2 DEF call
  <2>3. CASE call.size = 2 /\ call.level # 0
    <3>1. Len(Wants(call)) = 2
      BY <1>7, <2>3 DEF Wants, BlockTwice
    <3>2. Text(1) \in Views /\ Text(2) \in Views
      BY <1>2, <3>1, TextIsRead
    <3>3. Text(1).pointers \in Seq(Nat) /\ Text(2).pointers \in Seq(Nat)
      BY <3>2, ViewFields
    <3>4. Pointers \in Seq(Nat)
      BY <3>3 DEF Pointers
    <3>5. UpToZero(Pointers) \in Seq(Positive)
      BY <3>4, UpToZeroIs
    <3>6. call.first \in Nat /\ BlockSize(call) \in Nat /\ call.level \in 0 .. 3
      BY <1>1, <1>7, Kinds DEF BlockSize
    <3>7. call.level - 1 \in 0 .. 3
      BY <2>3, <3>6
    <3>8. Blocks(call, UpToZero(Pointers), call.level - 1) \in Seq(Calls)
      BY <3>5, <3>6, <3>7, BlocksAreCalls
    <3>9. Indirect(call) = Blocks(call, UpToZero(Pointers), call.level - 1)
      BY <2>3 DEF Indirect
    <3> QED BY <2>1, <3>8, <3>9 DEF call
  <2> QED BY <2>2, <2>3
<1> QED BY <1>1, <1>3, <1>4, <1>5, <1>6, <1>7, Kinds

-----------------------------------------------------------------------------
(***************************************************************************)
(* The steps                                                               *)
(***************************************************************************)
LEMMA InitHolds == Init => DiskInv
<1> SUFFICES ASSUME Init PROVE DiskInv
  OBVIOUS
<1> USE DEF Init
<1>1. TypeOK
  <2>1. dev \in [Buses -> [unit : {"master", "slave"}, sector : 0 .. Sectors - 1, status : Statuses]]
    BY DiskAssumption DEF Statuses
  <2>2. ch \in 1 .. Len(Order) + 1 /\ selected \in 0 .. Len(Order)
    BY FourChannels
  <2>3. work \in Seq(Calls) /\ got \in Seq(Channels \X (0 .. Sectors - 1))
    OBVIOUS
  <2>4. claimed \subseteq Buses \X Registers /\ lines \subseteq {14, 15} /\ bits \subseteq lines
    OBVIOUS
  <2>5. controller \in [Channels -> {"UNKNOWN", "NONE", "ATA"}]
    OBVIOUS
  <2>6. geometry \in [Channels -> Geometries]
    BY DEF Geometries
  <2> QED BY <2>1, <2>2, <2>3, <2>4, <2>5, <2>6 DEF TypeOK
<1>2. ReadsWhatItAsked /\ FindsTheDrives /\ Measured
  BY DEF ReadsWhatItAsked, FindsTheDrives, Measured
<1>3. Working /\ Asking /\ Selecting
  BY DEF Working, Asking, Selecting
<1> QED BY <1>1, <1>2, <1>3 DEF DiskInv

\* The line of a channel is recorded only for its owner.
LEMMA RaisedIsOwned ==
  ASSUME TypeOK, NEW c
  PROVE  Raised(c) \subseteq lines
  BY DEF Raised, TypeOK

\* The unit that answers is the one the driver means.
LEMMA UnitAnswers ==
  ASSUME DiskInv, identify
  PROVE  /\ dev' \in [Buses -> [unit : {"master", "slave"}, sector : 0 .. Sectors - 1, status : Statuses]]
         /\ dev'[Bus(c0)].unit = Unit(c0)
         /\ Identified(drives[c0]) \/ BusyDrive(drives[c0])
<1>1. pc = "identify" /\ ch <= 4 /\ work = <<>> /\ got = <<>>
  BY DEF identify, DiskInv, Working
<1>2. /\ ch \in 1 .. 4 /\ c0 \in Channels /\ c0 = <<Bus(c0), Unit(c0)>>
      /\ Bus(c0) \in Buses /\ Unit(c0) \in Units /\ Line(c0) \in {14, 15}
  BY <1>1, AtChannel DEF DiskInv
<1>3. /\ selected' = ch /\ dev' = Selected
      /\ UNCHANGED <<drives, claimed, work, got, shown>>
  BY DEF identify
<1> DEFINE R == [unit : {"master", "slave"}, sector : 0 .. Sectors - 1, status : Statuses]
           answers == drives[<<Bus(c0), dev'[Bus(c0)].unit>>]
<1>4. dev' \in [Buses -> R] /\ dev'[Bus(c0)].unit = Unit(c0)
  <2>1. dev \in [Buses -> R]
    BY DEF DiskInv, TypeOK
  <2>2. CASE Selects
    <3>1. dev' = [dev EXCEPT ![Bus(c0)].unit = Unit(c0)]
      BY <1>3, <2>2 DEF Selected
    <3> QED BY <1>2, <2>1, <3>1 DEF Units
  <2>3. CASE ~Selects
    <3>1. dev' = [dev EXCEPT ![Bus(c0)].unit = @]
      BY <1>3, <2>3 DEF Selected
    <3>2. dev' = dev
      BY <1>2, <2>1, <3>1
    <3>3. selected = ch /\ selected # 0
      BY <1>2, <2>3 DEF Selects
    <3>4. dev[Bus(c0)].unit = Unit(c0)
      BY <3>3 DEF DiskInv, Selecting, c0
    <3> QED BY <2>1, <3>2, <3>4
  <2> QED BY <2>2, <2>3
<1>5. answers = drives[c0]
  BY <1>2, <1>4
<1>6. Identified(drives[c0]) \/ BusyDrive(drives[c0])
  <2>1. LET a == drives[<<Bus(c0), dev'[Bus(c0)].unit>>] IN Identified(a) \/ BusyDrive(a)
    BY DEF identify
  <2> QED BY <2>1, <1>5
<1> QED BY <1>4, <1>6

LEMMA IdentifyStep ==
  ASSUME DiskInv, identify
  PROVE  DiskInv'
<1>1. pc = "identify" /\ ch <= 4 /\ work = <<>> /\ got = <<>>
  BY DEF identify, DiskInv, Working
<1>2. /\ ch \in 1 .. 4 /\ c0 \in Channels /\ c0 = <<Bus(c0), Unit(c0)>>
      /\ Bus(c0) \in Buses /\ Unit(c0) \in Units /\ Line(c0) \in {14, 15}
  BY <1>1, AtChannel DEF DiskInv
<1>3. /\ selected' = ch /\ dev' = Selected
      /\ UNCHANGED <<drives, claimed, work, got, shown>>
  BY DEF identify
<1> DEFINE R == [unit : {"master", "slave"}, sector : 0 .. Sectors - 1, status : Statuses]
<1>4. dev' \in [Buses -> R] /\ dev'[Bus(c0)].unit = Unit(c0)
  BY UnitAnswers
<1>5. Identified(drives[c0]) \/ BusyDrive(drives[c0])
  BY UnitAnswers
<1> HIDE DEF R
<1>6. /\ controller' \in [Channels -> {"UNKNOWN", "NONE", "ATA"}]
      /\ geometry' \in [Channels -> Geometries]
      /\ lines \subseteq lines' /\ lines' \subseteq {14, 15} /\ bits' \subseteq lines
      /\ \A c \in Channels : \/ controller'[c] = controller[c] /\ geometry'[c] = geometry[c]
                             \/ c = c0 /\ controller'[c] = "NONE" /\ drives[c] = "none"
                             \/ /\ c = c0 /\ controller'[c] = "ATA" /\ drives[c] \notin Absent
                                /\ geometry'[c] = Images[drives[c]].geometry
      /\ \/ pc' = "identify" /\ ch' \in 1 .. 4 /\ err' = err
         \/ pc' = "main" /\ ch' = 1 /\ err' = err
         \/ pc' = "end" /\ ch' = ch /\ err' = "NOPERMS"
  <2>1. /\ controller \in [Channels -> {"UNKNOWN", "NONE", "ATA"}]
        /\ lines \subseteq {14, 15} /\ bits \subseteq lines /\ Raised(c0) \subseteq lines
        /\ geometry \in [Channels -> Geometries]
    BY RaisedIsOwned DEF DiskInv, TypeOK
  <2>2. CASE Identified(drives[c0])
    <3>1. Advance /\ err' = err
      BY <2>2 DEF Identified
    <3>2. \/ pc' = "identify" /\ ch' \in 1 .. 4
          \/ pc' = "main" /\ ch' = 1
      BY <1>1, <1>2, <3>1, FourChannels DEF Advance
    <3>3. \/ /\ drives[c0] = "none" /\ controller' = [controller EXCEPT ![c0] = "NONE"]
             /\ UNCHANGED <<geometry, lines, bits>>
          \/ UNCHANGED <<controller, geometry, lines, bits>>
          \/ /\ drives[c0] \notin Absent /\ controller' = [controller EXCEPT ![c0] = "ATA"]
             /\ geometry' = [geometry EXCEPT ![c0] = Images[drives[c0]].geometry]
             /\ bits' = Raised(c0) /\ lines' = lines \cup {Line(c0)}
      BY <2>2 DEF Identified
    <3>4. /\ lines \subseteq lines' /\ lines' \subseteq {14, 15} /\ bits' \subseteq lines
      BY <1>2, <2>1, <3>3
    <3>5. CASE drives[c0] \notin Absent
      <4>1. Images[drives[c0]].geometry \in Geometries
        <5>1. drives \in [Channels -> DOMAIN Images \cup Absent]
          BY DiskAssumption DEF DiskInv, TypeOK
        <5>2. drives[c0] \in DOMAIN Images
          BY <1>2, <3>5, <5>1
        <5> QED BY <5>2, DiskAssumption
      <4> DEFINE g == Images[drives[c0]].geometry
      <4>2. \/ controller' = [controller EXCEPT ![c0] = "ATA"] /\ geometry' = [geometry EXCEPT ![c0] = g]
            \/ controller' = [controller EXCEPT ![c0] = "NONE"] /\ geometry' = geometry /\ drives[c0] = "none"
            \/ controller' = controller /\ geometry' = geometry
        BY <3>3
      <4> HIDE DEF g
      <4>3. g \in Geometries
        BY <4>1 DEF g
      <4>4. /\ controller' \in [Channels -> {"UNKNOWN", "NONE", "ATA"}]
            /\ geometry' \in [Channels -> Geometries]
        BY <1>2, <2>1, <4>2, <4>3
      <4>5. \A c \in Channels : \/ controller'[c] = controller[c] /\ geometry'[c] = geometry[c]
                                \/ c = c0 /\ controller'[c] = "NONE" /\ drives[c] = "none"
                                \/ c = c0 /\ controller'[c] = "ATA" /\ geometry'[c] = g
        BY <1>2, <2>1, <4>2
      <4> QED BY <3>1, <3>2, <3>4, <3>5, <4>4, <4>5 DEF g
    <3>6. CASE drives[c0] \in Absent
      <4>1. \/ /\ drives[c0] = "none" /\ controller' = [controller EXCEPT ![c0] = "NONE"]
               /\ geometry' = geometry
            \/ controller' = controller /\ geometry' = geometry
        BY <3>3, <3>6
      <4>2. /\ controller' \in [Channels -> {"UNKNOWN", "NONE", "ATA"}]
            /\ geometry' \in [Channels -> Geometries]
            /\ \A c \in Channels : \/ controller'[c] = controller[c] /\ geometry'[c] = geometry[c]
                                   \/ c = c0 /\ controller'[c] = "NONE" /\ drives[c] = "none"
        BY <1>2, <2>1, <4>1
      <4> QED BY <3>1, <3>2, <3>4, <4>2
    <3> QED BY <3>5, <3>6
  <2>3. CASE BusyDrive(drives[c0])
    BY <2>1, <2>3 DEF BusyDrive
  <2> QED BY <1>5, <2>2, <2>3
<1>7. TypeOK'
  <2>1. selected' \in 0 .. Len(Order) /\ ch' \in 1 .. Len(Order) + 1
    BY <1>2, <1>3, <1>6, FourChannels
  <2>2. pc' \in {"claim", "identify", "main", "work", "look", "wait", "undefined", "end"} /\ err' \in {"OK", "NOPERMS", "BEYONDENDOFDEVICE"}
    BY <1>6 DEF DiskInv, TypeOK
  <2> QED BY <1>3, <1>4, <1>6, <2>1, <2>2 DEF DiskInv, TypeOK, R
<1>8. ReadsWhatItAsked'
  BY <1>1, <1>3 DEF ReadsWhatItAsked
<1>9. FindsTheDrives'
  BY <1>3, <1>6 DEF DiskInv, FindsTheDrives, Absent
<1>10. Working'
  BY <1>1, <1>3, <1>6 DEF Working
<1>11. Asking'
  BY <1>6 DEF Asking
<1>12. Selecting'
  BY <1>2, <1>3, <1>4 DEF Selecting, c0
<1>13. Measured'
  <2>1. ASSUME NEW c \in Channels, controller'[c] = "ATA"
        PROVE  geometry'[c] = Images[drives[c]].geometry
    <3>1. CASE controller'[c] = controller[c] /\ geometry'[c] = geometry[c]
      BY <2>1, <3>1 DEF DiskInv, Measured
    <3>2. CASE controller'[c] = "NONE"
      BY <2>1, <3>2
    <3> QED BY <1>6, <3>1, <3>2
  <2> QED BY <1>3, <2>1 DEF Measured
<1> QED BY <1>7, <1>8, <1>9, <1>10, <1>11, <1>12, <1>13 DEF DiskInv

LEMMA ClaimStep ==
  ASSUME DiskInv, claim_ports
  PROVE  DiskInv'
<1> USE DEF claim_ports, DiskInv
<1>1. TypeOK'
  BY DEF TypeOK
<1>2. ReadsWhatItAsked' /\ FindsTheDrives' /\ Measured'
  BY DEF ReadsWhatItAsked, FindsTheDrives, Measured, c0
<1>3. Working' /\ Asking' /\ Selecting'
  BY DEF Working, Asking, Selecting, c0
<1> QED BY <1>1, <1>2, <1>3

LEMMA NextDriveStep ==
  ASSUME DiskInv, NextDrive
  PROVE  DiskInv'
<1> USE DEF DiskInv
<1>1. /\ pc = "main" /\ work = <<>> /\ got = <<>>
      /\ UNCHANGED <<drives, claimed, controller, geometry, selected, dev, lines, bits, got, shown, err>>
  BY DEF NextDrive, Working
<1>2. \/ pc' = "end" /\ UNCHANGED <<ch, work>>
      \/ ch <= 4 /\ controller[c0] = "ATA" /\ pc' = "work" /\ work' = <<[do |-> "table"]>> /\ ch' = ch
      \/ ch <= 4 /\ ch' = ch + 1 /\ UNCHANGED <<pc, work>>
  BY FourChannels DEF NextDrive, TypeOK
<1>3. work' \in Seq(Calls)
  <2>1. [do |-> "table"] \in Calls
    BY DEF Calls
  <2>2. <<[do |-> "table"]>> \in Seq(Calls)
    BY <2>1
  <2> QED BY <1>2, <2>2 DEF TypeOK
<1>4. TypeOK'
  <2>1. ch' \in 1 .. Len(Order) + 1
    <3>1. ch \in 1 .. 5 /\ Len(Order) = 4
      BY FourChannels DEF TypeOK
    <3>2. ch' = ch \/ (ch <= 4 /\ ch' = ch + 1)
      BY <1>2
    <3> QED BY <3>1, <3>2
  <2>2. pc' \in {"claim", "identify", "main", "work", "look", "wait", "undefined", "end"}
    BY <1>1, <1>2
  <2> QED BY <1>1, <1>3, <2>1, <2>2 DEF TypeOK
<1>5. ReadsWhatItAsked' /\ FindsTheDrives' /\ Measured'
  BY <1>1 DEF ReadsWhatItAsked, FindsTheDrives, Measured
<1>6. Working'
  BY <1>1, <1>2 DEF Working, c0
<1>7. Asking' /\ Selecting'
  BY <1>1, <1>2 DEF Asking, Selecting
<1> QED BY <1>4, <1>5, <1>6, <1>7

LEMMA DriveDoneStep ==
  ASSUME DiskInv, DriveDone
  PROVE  DiskInv'
<1> USE DEF DiskInv
<1>1. /\ pc = "work" /\ work = <<>> /\ pc' = "main" /\ ch' = ch + 1
      /\ UNCHANGED <<drives, claimed, controller, geometry, selected, dev, lines, bits, work, got, shown, err>>
  BY DEF DriveDone
<1>2. ch <= 4 /\ got = <<>>
  BY <1>1 DEF Working
<1>3. ch' \in 1 .. Len(Order) + 1
  BY <1>1, <1>2, FourChannels DEF TypeOK
<1>4. TypeOK'
  BY <1>1, <1>3 DEF TypeOK
<1>5. ReadsWhatItAsked' /\ FindsTheDrives' /\ Measured'
  BY <1>1, <1>2 DEF ReadsWhatItAsked, FindsTheDrives, Measured
<1>6. Working' /\ Asking' /\ Selecting'
  BY <1>1, <1>2 DEF Working, Asking, Selecting
<1> QED BY <1>4, <1>5, <1>6

\* Where the code has no meaning, the model goes no further.
LEMMA StopsStep ==
  ASSUME DiskInv, Stops
  PROVE  DiskInv'
<1> USE DEF DiskInv
<1>1. /\ pc = "work" /\ work # <<>> /\ pc' = "undefined"
      /\ UNCHANGED <<drives, claimed, controller, geometry, selected, dev, lines, bits, ch, work, got, shown, err>>
  BY DEF Stops
<1>2. TypeOK'
  BY <1>1 DEF TypeOK
<1>3. ReadsWhatItAsked' /\ FindsTheDrives' /\ Measured'
  BY <1>1 DEF ReadsWhatItAsked, FindsTheDrives, Measured, c0
<1>4. Working' /\ Asking' /\ Selecting'
  BY <1>1 DEF Working, Asking, Selecting, c0
<1> QED BY <1>2, <1>3, <1>4

LEMMA CallDoneStep ==
  ASSUME DiskInv, CallDone
  PROVE  DiskInv'
<1> USE DEF DiskInv
<1>1. /\ pc = "work" /\ work # <<>> /\ ~Undefined(Head(work)) /\ Len(got) = Len(Wants(Head(work)))
      /\ work' = Makes(Head(work)) \o Tail(work) /\ got' = <<>>
      /\ UNCHANGED <<drives, claimed, controller, geometry, selected, dev, lines, bits, pc, ch, err>>
  BY DEF CallDone
<1>2. Makes(Head(work)) \in Seq(Calls)
  BY <1>1, MakesAreCalls
<1>3. work' \in Seq(Calls)
  <2>1. Tail(work) \in Seq(Calls)
    BY <1>1 DEF TypeOK
  <2> QED BY <1>1, <1>2, <2>1
<1>4. TypeOK'
  BY <1>1, <1>3 DEF TypeOK
<1>5. ReadsWhatItAsked' /\ FindsTheDrives' /\ Measured'
  BY <1>1 DEF ReadsWhatItAsked, FindsTheDrives, Measured
<1>6. Working' /\ Asking' /\ Selecting'
  BY <1>1 DEF Working, Asking, Selecting, c0
<1> QED BY <1>4, <1>5, <1>6

\* The command that is given asks for the next sector that the call wants.
LEMMA CommandStep ==
  ASSUME DiskInv, Command
  PROVE  DiskInv'
<1> DEFINE R == [unit : {"master", "slave"}, sector : 0 .. Sectors - 1, status : Statuses]
           n == Wants(Head(work))[Len(got) + 1]
<1>1. /\ pc = "work" /\ work # <<>> /\ Len(got) < Len(Wants(Head(work)))
      /\ UNCHANGED <<drives, claimed, controller, geometry, lines, ch, work, got, shown>>
  BY DEF Command
<1>2. ch <= 4 /\ controller[c0] = "ATA" /\ c0' = c0
  BY <1>1 DEF DiskInv, Working, c0
<1>3. /\ ch \in 1 .. 4 /\ c0 \in Channels /\ Bus(c0) \in Buses /\ Unit(c0) \in Units
  BY <1>2, AtChannel DEF DiskInv
<1>4. n \in Nat
  <2>1. Head(work) \in Calls
    BY <1>1 DEF DiskInv, TypeOK
  <2>2. Wants(Head(work)) \in Seq(Nat)
    BY <2>1, WantsAreNumbers
  <2>3. Len(got) \in Nat
    BY DEF DiskInv, TypeOK
  <2> QED BY <1>1, <2>2, <2>3
<1> HIDE DEF n
<1>5. CASE n >= Sectors
  <2>1. err' = "BEYONDENDOFDEVICE" /\ pc' = "end" /\ UNCHANGED <<dev, bits, selected>>
    BY <1>5 DEF Command, n
  <2>2. TypeOK'
    BY <1>1, <2>1 DEF DiskInv, TypeOK
  <2>3. ReadsWhatItAsked' /\ FindsTheDrives' /\ Measured'
    BY <1>1, <1>2 DEF DiskInv, ReadsWhatItAsked, FindsTheDrives, Measured
  <2>4. Working' /\ Asking' /\ Selecting'
    BY <1>1, <2>1 DEF DiskInv, Working, Asking, Selecting
  <2> QED BY <2>2, <2>3, <2>4 DEF DiskInv
<1>6. CASE ~(n >= Sectors)
  <2>1. PICK s \in {"drq"} \cup (IF Slow THEN {"busy"} ELSE {}) :
          /\ dev' = [dev EXCEPT ![Bus(c0)] = [unit |-> Unit(c0), sector |-> Addressed(Address(n)), status |-> s]]
          /\ bits' = IF s = "drq" THEN Raised(c0) ELSE bits
          /\ selected' = ch /\ pc' = "look" /\ UNCHANGED err
    BY <1>6 DEF Command, n
  <2>2. Addressed(Address(n)) = n
    BY <1>4, AddressIsRead, DiskAssumption
  <2>3. n \in 0 .. Sectors - 1
    BY <1>4, <1>6, DiskAssumption
  <2>4. s \in Statuses
    BY DEF Statuses
  <2> DEFINE r == [unit |-> Unit(c0), sector |-> n, status |-> s]
  <2>5. r \in R
    BY <1>3, <2>3, <2>4 DEF Units
  <2>6. dev \in [Buses -> R]
    BY DEF DiskInv, TypeOK
  <2>7. dev' = [dev EXCEPT ![Bus(c0)] = r]
    BY <2>1, <2>2
  <2>8. dev'[Bus(c0)].unit = Unit(c0) /\ dev'[Bus(c0)].sector = n
    BY <1>3, <2>6, <2>7
  <2> HIDE DEF r, R
  <2>9. dev' \in [Buses -> R]
    BY <2>5, <2>6, <2>7
  <2>10. bits' \subseteq lines
    BY <2>1, RaisedIsOwned DEF DiskInv, TypeOK
  <2>11. TypeOK'
    <3>1. selected' \in 0 .. Len(Order)
      BY <1>3, <2>1, FourChannels
    <3> QED BY <1>1, <2>1, <2>9, <2>10, <3>1 DEF DiskInv, TypeOK, R
  <2>12. ReadsWhatItAsked' /\ FindsTheDrives' /\ Measured'
    BY <1>1, <1>2 DEF DiskInv, ReadsWhatItAsked, FindsTheDrives, Measured
  <2>13. Working'
    BY <1>1, <1>2, <2>1 DEF DiskInv, Working
  <2>14. Asking'
    BY <1>1, <1>2, <2>8 DEF Asking, n
  <2>15. Selecting'
    BY <1>1, <1>2, <2>1, <2>8 DEF Selecting, c0
  <2> QED BY <2>11, <2>12, <2>13, <2>14, <2>15 DEF DiskInv
<1> QED BY <1>5, <1>6

\* What is transferred is what the command asked for.
LEMMA TransferStep ==
  ASSUME DiskInv, Transfer
  PROVE  DiskInv'
<1> DEFINE A == 0 .. Sectors - 1
           R == [unit : {"master", "slave"}, sector : A, status : Statuses]
           b == Bus(c0)
           x == << <<b, dev[b].unit>>, dev[b].sector>>
<1>1. /\ pc = "look" /\ got' = Append(got, x) /\ pc' = "work"
      /\ dev' = [dev EXCEPT ![b].status = "idle"]
      /\ UNCHANGED <<drives, claimed, controller, geometry, selected, lines, bits, ch, work, shown, err>>
  BY DEF Transfer
<1>2. /\ ch <= 4 /\ controller[c0] = "ATA" /\ c0' = c0
      /\ work # <<>> /\ dev[b].unit = Unit(c0) /\ dev[b].sector = Wants(Head(work))[Len(got) + 1]
  BY <1>1 DEF DiskInv, Working, Asking, c0
<1>3. c0 \in Channels /\ c0 = <<b, Unit(c0)>> /\ b \in Buses
  BY <1>2, AtChannel DEF DiskInv
<1>4. dev \in [Buses -> R] /\ got \in Seq(Channels \X A)
  BY DEF DiskInv, TypeOK
<1>5. x = <<c0, Wants(Head(work))[Len(got) + 1]>> /\ x \in Channels \X A
  BY <1>2, <1>3, <1>4
<1>6. dev' \in [Buses -> R] /\ \A c \in Buses : dev'[c].unit = dev[c].unit
  <2>1. "idle" \in Statuses
    BY DEF Statuses
  <2> QED BY <1>1, <1>3, <1>4, <2>1
<1> HIDE DEF x, R
<1>7. got' \in Seq(Channels \X A)
  BY <1>1, <1>4, <1>5
<1> HIDE DEF A
<1>8. TypeOK'
  BY <1>1, <1>6, <1>7 DEF DiskInv, TypeOK, R, A
<1>9. ReadsWhatItAsked'
  <2>1. DOMAIN got' = 1 .. Len(got) + 1 /\ Len(got) \in Nat /\ DOMAIN got = 1 .. Len(got)
    BY <1>1, <1>4
  <2>2. \A i \in 1 .. Len(got) : got'[i] = got[i]
    BY <1>1, <1>4
  <2>3. got'[Len(got) + 1] = x
    BY <1>1, <1>4
  <2>4. ASSUME NEW i \in DOMAIN got' PROVE got'[i] = <<c0, Wants(Head(work))[i]>>
    <3>1. CASE i = Len(got) + 1
      BY <1>5, <2>3, <3>1
    <3>2. CASE i # Len(got) + 1
      <4>1. i \in DOMAIN got /\ i \in 1 .. Len(got)
        BY <2>1, <3>2
      <4> QED BY <2>2, <4>1 DEF DiskInv, ReadsWhatItAsked
    <3> QED BY <3>1, <3>2
  <2> QED BY <1>1, <1>2, <2>4 DEF ReadsWhatItAsked
<1>10. FindsTheDrives' /\ Measured'
  BY <1>1 DEF DiskInv, FindsTheDrives, Measured
<1>11. Working' /\ Asking'
  BY <1>1, <1>2 DEF Working, Asking
<1>12. Selecting'
  <2>1. selected # 0 => Bus(Order[selected]) \in Buses
    BY FourChannels DEF DiskInv, TypeOK
  <2> QED BY <1>1, <1>6, <2>1 DEF DiskInv, Selecting
<1> QED BY <1>8, <1>9, <1>10, <1>11, <1>12 DEF DiskInv

LEMMA WaitStep ==
  ASSUME DiskInv, MustWait \/ Woken
  PROVE  DiskInv'
<1> USE DEF DiskInv
<1>1. /\ pc \in {"look", "wait"} /\ pc' \in {"look", "wait"}
      /\ bits' \in {bits, {}}
      /\ UNCHANGED <<drives, claimed, controller, geometry, selected, dev, lines, ch, work, got, shown, err>>
  BY DEF MustWait, Woken
<1>2. TypeOK'
  BY <1>1 DEF TypeOK
<1>3. ReadsWhatItAsked' /\ FindsTheDrives' /\ Measured'
  BY <1>1 DEF ReadsWhatItAsked, FindsTheDrives, Measured, c0
<1>4. Working' /\ Asking' /\ Selecting'
  BY <1>1 DEF Working, Asking, Selecting, c0
<1> QED BY <1>2, <1>3, <1>4

\* A drive that gets ready keeps the unit and the sector.
LEMMA ReadyStep ==
  ASSUME DiskInv, NEW b \in Buses, Ready(b)
  PROVE  DiskInv'
<1> DEFINE R == [unit : {"master", "slave"}, sector : 0 .. Sectors - 1, status : Statuses]
<1>1. /\ dev' = [dev EXCEPT ![b].status = "drq"] /\ bits' \subseteq lines
      /\ UNCHANGED <<drives, claimed, controller, geometry, selected, lines, pc, ch, work, got, shown, err>>
  BY RaisedIsOwned DEF Ready, driver, DiskInv
<1>2. /\ dev' \in [Buses -> R]
      /\ \A c \in Buses : dev'[c].unit = dev[c].unit /\ dev'[c].sector = dev[c].sector
  <2>1. dev \in [Buses -> R] /\ "drq" \in Statuses
    BY DEF DiskInv, TypeOK, Statuses
  <2> QED BY <1>1, <2>1
<1>3. TypeOK'
  BY <1>1, <1>2 DEF DiskInv, TypeOK
<1> HIDE DEF R
<1>4. ReadsWhatItAsked' /\ FindsTheDrives' /\ Measured' /\ Working'
  BY <1>1 DEF DiskInv, ReadsWhatItAsked, FindsTheDrives, Measured, Working, c0
<1>5. Asking'
  <2>1. pc \in {"look", "wait"} => Bus(c0) \in Buses
    BY AtChannel DEF DiskInv, Working
  <2> QED BY <1>1, <1>2, <2>1 DEF DiskInv, Asking, c0
<1>6. Selecting'
  <2>1. selected # 0 => Bus(Order[selected]) \in Buses
    BY FourChannels DEF DiskInv, TypeOK
  <2> QED BY <1>1, <1>2, <2>1 DEF DiskInv, Selecting
<1> QED BY <1>3, <1>4, <1>5, <1>6 DEF DiskInv

LEMMA StutterStep ==
  ASSUME DiskInv, UNCHANGED vars
  PROVE  DiskInv'
<1> USE DEF DiskInv, vars, driver
<1>1. TypeOK' /\ ReadsWhatItAsked' /\ FindsTheDrives' /\ Measured'
  BY DEF TypeOK, ReadsWhatItAsked, FindsTheDrives, Measured, c0
<1>2. Working' /\ Asking' /\ Selecting'
  BY DEF Working, Asking, Selecting, c0
<1> QED BY <1>1, <1>2
-----------------------------------------------------------------------------
(***************************************************************************)
(* Trees                                                                   *)
(***************************************************************************)
ATree == [names : Seq(STRING), plain : BOOLEAN]

LEMMA TreeFields ==
  ASSUME NEW t \in ATree
  PROVE  t.names \in Seq(STRING) /\ t.plain \in BOOLEAN /\ t = [names |-> t.names, plain |-> t.plain]
  BY DEF ATree

LEMMA TreeIs ==
  ASSUME NEW n \in Seq(STRING), NEW p \in BOOLEAN
  PROVE  [names |-> n, plain |-> p] \in ATree
  BY DEF ATree

LEMMA LeafIsTree == Leaf \in ATree /\ Lost \in ATree
<1>1. <<>> \in Seq(STRING)
  OBVIOUS
<1> QED BY <1>1, TreeIs DEF Leaf, Lost

\* A condition on where a tree is leaves its names as they are.
LEMMA ReachedIs ==
  ASSUME NEW t \in ATree, NEW offset
  PROVE  /\ Reached(offset, t) \in ATree
         /\ Reached(offset, t).names = t.names
         /\ Reached(offset, t).plain <=> t.plain /\ offset < Span
<1>1. Reached(offset, t) = [t EXCEPT !.plain = t.plain /\ offset < Span]
  BY DEF Reached
<1>2. (t.plain /\ offset < Span) \in BOOLEAN
  OBVIOUS
<1> QED BY <1>1, <1>2 DEF ATree

LEMMA AlsoIs ==
  ASSUME NEW t \in ATree, NEW c \in BOOLEAN
  PROVE  LET u == [t EXCEPT !.plain = @ /\ c] IN
         u \in ATree /\ u.names = t.names /\ (u.plain <=> t.plain /\ c) /\ (t.plain /\ c => u = t)
<1> DEFINE u == [t EXCEPT !.plain = t.plain /\ c]
<1>1. t.plain \in BOOLEAN /\ (t.plain /\ c) \in BOOLEAN
  BY TreeFields
<1>2. u \in ATree /\ u.names = t.names /\ (u.plain <=> t.plain /\ c)
  BY <1>1 DEF ATree
<1>3. ASSUME t.plain /\ c PROVE u = t
  <2> HIDE DEF u
  <2>1. u.plain = t.plain
    BY <1>1, <1>2, <1>3, TreeFields
  <2> QED BY <1>2, <2>1, TreeFields
<1> QED BY <1>2, <1>3

\* The names of several trees, tree by tree.
NamesOf(trees) == [i \in DOMAIN trees |-> trees[i].names]

LEMMA NamesOfIs ==
  ASSUME NEW s \in Seq(ATree)
  PROVE  /\ NamesOf(s) \in Seq(Seq(STRING)) /\ Len(NamesOf(s)) = Len(s)
         /\ \A i \in 1 .. Len(s) : NamesOf(s)[i] = s[i].names /\ s[i] \in ATree
<1>1. Len(s) \in Nat /\ DOMAIN s = 1 .. Len(s) /\ \A i \in 1 .. Len(s) : s[i] \in ATree
  OBVIOUS
<1>2. \A i \in 1 .. Len(s) : s[i].names \in Seq(STRING)
  BY <1>1, TreeFields
<1>3. NamesOf(s) = [i \in 1 .. Len(s) |-> s[i].names]
  BY <1>1 DEF NamesOf
<1> QED BY <1>1, <1>2, <1>3

LEMMA JoinedFields ==
  ASSUME NEW s
  PROVE  /\ Joined(s).names = FlattenSeq(NamesOf(s))
         /\ Joined(s).plain = \A i \in DOMAIN s : s[i].plain
         /\ Joined(s) = [names |-> Joined(s).names, plain |-> Joined(s).plain]
  BY DEF Joined, NamesOf

LEMMA JoinedIsTree ==
  ASSUME NEW s \in Seq(ATree)
  PROVE  Joined(s) \in ATree
<1>1. NamesOf(s) \in Seq(Seq(STRING))
  BY NamesOfIs
<1>2. FlattenSeq(NamesOf(s)) \in Seq(STRING)
  <2> DEFINE S == STRING
             n == NamesOf(s)
  <2>1. n \in Seq(Seq(S)) /\ <<>> \in Seq(S)
    BY <1>1
  <2> HIDE DEF S, n
  <2>2. FlattenSeq(n) \in Seq(S)
    BY <2>1, FlattenOneMore
  <2> QED BY <2>2 DEF S, n
<1>3. (\A i \in DOMAIN s : s[i].plain) \in BOOLEAN
  OBVIOUS
<1> QED BY <1>2, <1>3, JoinedFields, TreeIs

LEMMA JoinedNone == Joined(<<>>) = Leaf
<1>1. NamesOf(<<>>) = <<>>
  BY DEF NamesOf
<1>2. FlattenSeq(<<>>) = <<>>
  BY DEF FlattenSeq
<1>3. (\A i \in DOMAIN <<>> : <<>>[i].plain) = TRUE
  OBVIOUS
<1>4. Joined(<<>>).names = <<>>
  BY <1>1, <1>2, JoinedFields
<1>5. Joined(<<>>).plain = TRUE
  BY <1>3, JoinedFields
<1> QED BY <1>4, <1>5, JoinedFields DEF Leaf

LEMMA JoinedOne ==
  ASSUME NEW t \in ATree
  PROVE  Joined(<<t>>) = t
<1>1. t.names \in Seq(STRING) /\ t.plain \in BOOLEAN /\ t = [names |-> t.names, plain |-> t.plain]
  BY TreeFields
<1>2. NamesOf(<<t>>) = Append(<<>>, t.names)
  BY DEF NamesOf
<1>3. FlattenSeq(Append(<<>>, t.names)) = t.names
  <2> DEFINE S == STRING
             x == t.names
  <2>1. x \in Seq(S) /\ <<>> \in Seq(Seq(S))
    BY <1>1
  <2> HIDE DEF S, x
  <2>2. FlattenSeq(Append(<<>>, x)) = FlattenSeq(<<>>) \o x
    BY <2>1, FlattenOneMore
  <2>3. FlattenSeq(<<>>) = <<>>
    BY DEF FlattenSeq
  <2>4. <<>> \o x = x
    BY <2>1
  <2> QED BY <2>2, <2>3, <2>4 DEF x
<1>4. (\A i \in DOMAIN <<t>> : <<t>>[i].plain) = t.plain
  <2>1. (\A i \in DOMAIN <<t>> : <<t>>[i].plain) <=> t.plain
    OBVIOUS
  <2> QED BY <1>1, <2>1
<1>5. Joined(<<t>>).names = t.names
  BY <1>2, <1>3, JoinedFields
<1>6. Joined(<<t>>).plain = t.plain
  BY <1>4, JoinedFields
<1> QED BY <1>1, <1>5, <1>6, JoinedFields

LEMMA JoinedBoth ==
  ASSUME NEW s \in Seq(ATree), NEW t \in Seq(ATree)
  PROVE  /\ Joined(s \o t).names = Joined(s).names \o Joined(t).names
         /\ Joined(s \o t).plain <=> Joined(s).plain /\ Joined(t).plain
<1> DEFINE u == s \o t
<1>1. u \in Seq(ATree) /\ Len(u) = Len(s) + Len(t) /\ Len(s) \in Nat /\ Len(t) \in Nat
  OBVIOUS
<1>2. /\ \A i \in 1 .. Len(s) : u[i] = s[i]
      /\ \A i \in 1 .. Len(t) : u[Len(s) + i] = t[i]
  OBVIOUS
<1> HIDE DEF u
<1>3. NamesOf(u) = NamesOf(s) \o NamesOf(t)
  <2>1. /\ NamesOf(u) \in Seq(Seq(STRING)) /\ Len(NamesOf(u)) = Len(u)
        /\ \A i \in 1 .. Len(u) : NamesOf(u)[i] = u[i].names
    BY <1>1, NamesOfIs
  <2>2. /\ NamesOf(s) \in Seq(Seq(STRING)) /\ Len(NamesOf(s)) = Len(s)
        /\ \A i \in 1 .. Len(s) : NamesOf(s)[i] = s[i].names
    BY NamesOfIs
  <2>3. /\ NamesOf(t) \in Seq(Seq(STRING)) /\ Len(NamesOf(t)) = Len(t)
        /\ \A i \in 1 .. Len(t) : NamesOf(t)[i] = t[i].names
    BY NamesOfIs
  <2> DEFINE a == NamesOf(s)
             b == NamesOf(t)
             c == NamesOf(u)
             T == Seq(STRING)
  <2>4. a \in Seq(T) /\ b \in Seq(T) /\ c \in Seq(T) /\ Len(c) = Len(a) + Len(b)
    BY <1>1, <2>1, <2>2, <2>3
  <2>5. \A i \in 1 .. Len(a) : c[i] = a[i]
    <3> TAKE i \in 1 .. Len(a)
    <3>1. i \in 1 .. Len(s) /\ i \in 1 .. Len(u)
      BY <1>1, <2>2
    <3> QED BY <1>2, <2>1, <2>2, <3>1
  <2>6. \A i \in 1 .. Len(b) : c[Len(a) + i] = b[i]
    <3> TAKE i \in 1 .. Len(b)
    <3>1. i \in 1 .. Len(t) /\ Len(s) + i \in 1 .. Len(u) /\ Len(a) = Len(s)
      BY <1>1, <2>2, <2>3
    <3> QED BY <1>2, <2>1, <2>3, <3>1
  <2> HIDE DEF a, b, c, T
  <2>7. c = a \o b
    <3>1. a \o b \in Seq(T) /\ Len(a \o b) = Len(a) + Len(b) /\ Len(a) \in Nat /\ Len(b) \in Nat
      BY <2>4
    <3>2. ASSUME NEW i \in 1 .. Len(a) + Len(b) PROVE c[i] = (a \o b)[i]
      <4>1. CASE i <= Len(a)
        <5>1. i \in 1 .. Len(a)
          BY <3>1, <4>1
        <5> QED BY <2>4, <2>5, <5>1
      <4>2. CASE ~(i <= Len(a))
        <5> DEFINE j == i - Len(a)
        <5>1. j \in 1 .. Len(b) /\ i = Len(a) + j
          BY <3>1, <4>2
        <5>2. c[Len(a) + j] = b[j]
          BY <2>6, <5>1
        <5>3. (a \o b)[i] = b[j]
          BY <2>4, <3>1, <4>2
        <5> QED BY <5>1, <5>2, <5>3
      <4> QED BY <4>1, <4>2
    <3> QED BY <2>4, <3>1, <3>2, SeqEqual
  <2> QED BY <2>7 DEF a, b, c
<1>4. FlattenSeq(NamesOf(u)) = FlattenSeq(NamesOf(s)) \o FlattenSeq(NamesOf(t))
  <2> DEFINE S == STRING
             a == NamesOf(s)
             b == NamesOf(t)
  <2>1. a \in Seq(Seq(S)) /\ b \in Seq(Seq(S))
    BY NamesOfIs
  <2> HIDE DEF S, a, b
  <2>2. FlattenSeq(a \o b) = FlattenSeq(a) \o FlattenSeq(b)
    BY <2>1, FlattenBoth
  <2> QED BY <1>3, <2>2 DEF a, b
<1>5. (\A i \in DOMAIN u : u[i].plain) <=> (\A i \in DOMAIN s : s[i].plain) /\ (\A i \in DOMAIN t : t[i].plain)
  <2>1. DOMAIN u = 1 .. Len(u) /\ DOMAIN s = 1 .. Len(s) /\ DOMAIN t = 1 .. Len(t)
    BY <1>1
  <2>2. ASSUME \A i \in DOMAIN u : u[i].plain, NEW i \in DOMAIN s PROVE s[i].plain
    <3>1. i \in 1 .. Len(s) /\ i \in DOMAIN u
      BY <1>1, <2>1
    <3> QED BY <1>2, <2>2, <3>1
  <2>3. ASSUME \A i \in DOMAIN u : u[i].plain, NEW i \in DOMAIN t PROVE t[i].plain
    <3>1. i \in 1 .. Len(t) /\ Len(s) + i \in DOMAIN u
      BY <1>1, <2>1
    <3> QED BY <1>2, <2>3, <3>1
  <2>4. ASSUME \A i \in DOMAIN s : s[i].plain, \A i \in DOMAIN t : t[i].plain, NEW i \in DOMAIN u
        PROVE  u[i].plain
    <3>1. CASE i <= Len(s)
      <4>1. i \in 1 .. Len(s) /\ i \in DOMAIN s
        BY <1>1, <2>1, <3>1
      <4> QED BY <1>2, <2>4, <4>1
    <3>2. CASE ~(i <= Len(s))
      <4> DEFINE j == i - Len(s)
      <4>1. j \in 1 .. Len(t) /\ i = Len(s) + j /\ j \in DOMAIN t
        BY <1>1, <2>1, <3>2
      <4>2. u[i] = t[j]
        BY <1>2, <4>1
      <4> QED BY <2>4, <4>1, <4>2
    <3> QED BY <3>1, <3>2
  <2> QED BY <2>2, <2>3, <2>4
<1>6. Joined(u).names = Joined(s).names \o Joined(t).names
  BY <1>4, JoinedFields
<1>7. Joined(u).plain <=> Joined(s).plain /\ Joined(t).plain
  <2>1. Joined(u).plain = (\A i \in DOMAIN u : u[i].plain)
    BY JoinedFields
  <2>2. Joined(s).plain = (\A i \in DOMAIN s : s[i].plain)
    BY JoinedFields
  <2>3. Joined(t).plain = (\A i \in DOMAIN t : t[i].plain)
    BY JoinedFields
  <2> QED BY <1>5, <2>1, <2>2, <2>3
<1> QED BY <1>6, <1>7 DEF u

\* Nothing comes from trees with nothing.
LEMMA JoinedLeaves ==
  ASSUME NEW n \in Nat
  PROVE  Joined([i \in 1 .. n |-> Leaf]) = Leaf
<1> DEFINE leaves(m) == [i \in 1 .. m |-> Leaf]
           Q == {m \in Nat : Joined(leaves(m)) = Leaf}
<1>1. 0 \in Q
  <2>1. leaves(0) = <<>>
    OBVIOUS
  <2> QED BY <2>1, JoinedNone
<1>2. \A m \in Q : m + 1 \in Q
  <2> SUFFICES ASSUME NEW m \in Q PROVE m + 1 \in Q
    OBVIOUS
  <2>1. m \in Nat /\ Joined(leaves(m)) = Leaf
    OBVIOUS
  <2>2. leaves(m + 1) = leaves(m) \o <<Leaf>>
    BY <2>1
  <2>3. leaves(m) \in Seq(ATree) /\ <<Leaf>> \in Seq(ATree)
    BY <2>1, LeafIsTree
  <2> DEFINE one == <<Leaf>>
             some == leaves(m)
             more == leaves(m + 1)
  <2>4. /\ Joined(more).names = Joined(some).names \o Joined(one).names
        /\ Joined(more).plain <=> Joined(some).plain /\ Joined(one).plain
    <3>1. some \in Seq(ATree) /\ one \in Seq(ATree) /\ more = some \o one
      BY <2>2, <2>3
    <3> HIDE DEF some, one, more
    <3> QED BY <3>1, JoinedBoth
  <2> HIDE DEF leaves
  <2>5. Joined(<<Leaf>>) = Leaf
    BY LeafIsTree, JoinedOne
  <2>6. leaves(m) \o <<Leaf>> \in Seq(ATree)
    BY <2>3
  <2>7. Joined(leaves(m + 1)) \in ATree
    BY <2>2, <2>6, JoinedIsTree
  <2>8. Leaf.names \o Leaf.names = <<>> /\ Leaf.plain = TRUE
    BY DEF Leaf
  <2>9. Joined(leaves(m + 1)).names = <<>> /\ Joined(leaves(m + 1)).plain = TRUE
    BY <2>1, <2>4, <2>5, <2>7, <2>8, TreeFields
  <2>10. Joined(leaves(m + 1)) = Leaf
    BY <2>7, <2>9, TreeFields DEF Leaf
  <2> QED BY <2>1, <2>10
<1>3. Q = Nat
  <2> HIDE DEF Q
  <2>1. Q \in SUBSET Nat
    BY DEF Q
  <2> QED BY <1>1, <1>2, <2>1, SetInduction
<1> QED BY <1>3
-----------------------------------------------------------------------------
(***************************************************************************)
(* The entries of a block                                                  *)
(***************************************************************************)
Slot == [name : STRING, size : Positive]

\* Where do_direct_directory goes from slot i, and what it reports from there.
After(slots, i) == LET n == i + slots[i].size IN IF n > Len(slots) THEN Len(slots) + 1 ELSE n
Leads(from, slots) ==
  from = [i \in 1 .. Len(slots) + 1 |->
            IF i > Len(slots) THEN <<>> ELSE <<slots[i].name>> \o from[After(slots, i)]]

LEMMA AfterIsLater ==
  ASSUME NEW slots \in Seq(Slot), NEW i \in 1 .. Len(slots)
  PROVE  After(slots, i) \in i + 1 .. Len(slots) + 1 /\ <<slots[i].name>> \in Seq(STRING)
<1>1. slots[i] \in Slot
  OBVIOUS
<1>2. slots[i].size \in Nat \ {0} /\ slots[i].name \in STRING
  BY <1>1 DEF Slot, Positive
<1>3. Len(slots) \in Nat
  OBVIOUS
<1>4. After(slots, i) \in i + 1 .. Len(slots) + 1
  BY <1>2, <1>3 DEF After
<1> QED BY <1>2, <1>4

\* do_direct_directory comes to an end, whatever the slots.
LEMMA LeadsExists ==
  ASSUME NEW slots \in Seq(Slot)
  PROVE  \E f : Leads(f, slots)
<1> DEFINE L == Len(slots)
           S == Seq(STRING)
           From(f, i) == f[i] = IF i > L THEN <<>> ELSE <<slots[i].name>> \o f[After(slots, i)]
           Q == {k \in Nat : k <= L => \E f \in [L + 1 - k .. L + 1 -> S] :
                                         \A i \in L + 1 - k .. L + 1 : From(f, i)}
<1>1. L \in Nat
  OBVIOUS
<1>2. \A i \in 1 .. L : After(slots, i) \in i + 1 .. L + 1 /\ <<slots[i].name>> \in S
  BY AfterIsLater
<1>3. <<>> \in S /\ \A s, t \in S : s \o t \in S
  OBVIOUS
<1> HIDE DEF L, S
<1>4. 0 \in Q
  <2> DEFINE f == [i \in L + 1 .. L + 1 |-> <<>>]
  <2>1. f \in [L + 1 - 0 .. L + 1 -> S]
    BY <1>1, <1>3
  <2>2. \A i \in L + 1 - 0 .. L + 1 : From(f, i)
    BY <1>1
  <2> HIDE DEF f, From
  <2> QED BY <2>1, <2>2
<1>5. \A k \in Q : k + 1 \in Q
  <2> SUFFICES ASSUME NEW k \in Q PROVE k + 1 \in Q
    OBVIOUS
  <2>1. k \in Nat /\ k + 1 \in Nat
    OBVIOUS
  <2> SUFFICES ASSUME k + 1 <= L
               PROVE  \E f \in [L + 1 - (k + 1) .. L + 1 -> S] :
                        \A i \in L + 1 - (k + 1) .. L + 1 : From(f, i)
    BY <2>1
  <2>2. k <= L
    BY <1>1, <2>1
  <2>3. PICK f \in [L + 1 - k .. L + 1 -> S] : \A i \in L + 1 - k .. L + 1 : From(f, i)
    BY <2>2
  <2> DEFINE j == L - k
             g == [i \in j .. L + 1 |-> IF i = j THEN <<slots[j].name>> \o f[After(slots, j)] ELSE f[i]]
  <2>4. /\ j \in 1 .. L /\ L + 1 - (k + 1) = j /\ L + 1 - k = j + 1
        /\ \A i \in j .. L + 1 : i = j \/ i \in j + 1 .. L + 1
    BY <1>1, <2>1
  <2>5. After(slots, j) \in j + 1 .. L + 1 /\ <<slots[j].name>> \in S
    BY <1>2, <2>4
  <2>6. f \in [j + 1 .. L + 1 -> S] /\ \A i \in j + 1 .. L + 1 : From(f, i)
    BY <2>3, <2>4
  <2>7. <<slots[j].name>> \o f[After(slots, j)] \in S
    BY <1>3, <2>5, <2>6
  <2>8. g \in [j .. L + 1 -> S]
    BY <2>4, <2>6, <2>7
  <2>9. \A i \in j + 1 .. L + 1 : g[i] = f[i]
    BY <1>1, <2>4
  <2>10. g[j] = <<slots[j].name>> \o f[After(slots, j)]
    BY <1>1, <2>4
  <2> HIDE DEF g
  <2>11. ASSUME NEW i \in j .. L + 1 PROVE From(g, i)
    <3>1. CASE i = j
      <4>1. ~(i > L)
        BY <1>1, <2>4, <3>1
      <4>2. g[After(slots, j)] = f[After(slots, j)]
        BY <2>5, <2>9
      <4> QED BY <2>10, <3>1, <4>1, <4>2
    <3>2. CASE i \in j + 1 .. L + 1
      <4>1. CASE i > L
        BY <2>6, <2>9, <3>2, <4>1
      <4>2. CASE ~(i > L)
        <5>1. i \in 1 .. L
          BY <1>1, <2>4, <3>2, <4>2
        <5>2. After(slots, i) \in i + 1 .. L + 1
          BY <1>2, <5>1
        <5>3. After(slots, i) \in j + 1 .. L + 1
          BY <1>1, <2>4, <3>2, <5>2
        <5> QED BY <2>6, <2>9, <3>2, <4>2, <5>3
      <4> QED BY <4>1, <4>2
    <3> QED BY <2>4, <3>1, <3>2
  <2> HIDE DEF From, j
  <2> QED BY <2>4, <2>8, <2>11
<1>6. Q = Nat
  <2> HIDE DEF Q
  <2>1. Q \in SUBSET Nat
    BY DEF Q
  <2> QED BY <1>4, <1>5, <2>1, SetInduction
<1>7. PICK f \in [1 .. L + 1 -> S] : \A i \in 1 .. L + 1 : From(f, i)
  <2>1. L \in Q
    <3> HIDE DEF Q
    <3> QED BY <1>1, <1>6
  <2>2. L + 1 - L = 1 /\ L <= L
    BY <1>1
  <2> HIDE DEF From
  <2> QED BY <2>1, <2>2
<1>8. f = [i \in 1 .. L + 1 |-> f[i]]
  BY <1>7
<1>9. Leads(f, slots)
  BY <1>7, <1>8 DEF Leads, L
<1> QED BY <1>9

\* Its names: those of a function that leads through the slots.
LEMMA NamesLead ==
  ASSUME NEW slots \in Seq(Slot)
  PROVE  \E f \in [1 .. Len(slots) + 1 -> Seq(STRING)] : Leads(f, slots) /\ Names(slots) = f[1]
<1> DEFINE L == Len(slots)
           S == Seq(STRING)
           f == CHOOSE f : Leads(f, slots)
           Q == {k \in Nat : k <= L => \A i \in L + 1 - k .. L + 1 : f[i] \in S}
<1>1. L \in Nat
  OBVIOUS
<1>2. Leads(f, slots)
  BY LeadsExists
<1>3. Names(slots) = f[1]
  BY DEF Names, Leads, After
<1>4. \A i \in 1 .. L : After(slots, i) \in i + 1 .. L + 1 /\ <<slots[i].name>> \in S
  BY AfterIsLater
<1>5. <<>> \in S /\ \A s, t \in S : s \o t \in S
  OBVIOUS
<1> HIDE DEF S, f
<1>6. \A i \in 1 .. L + 1 : f[i] = IF i > L THEN <<>> ELSE <<slots[i].name>> \o f[After(slots, i)]
  BY <1>2 DEF Leads
<1> HIDE DEF L
<1>7. 0 \in Q
  <2>1. \A i \in L + 1 - 0 .. L + 1 : i \in 1 .. L + 1 /\ i > L
    BY <1>1
  <2> QED BY <1>5, <1>6, <2>1
<1>8. \A k \in Q : k + 1 \in Q
  <2> SUFFICES ASSUME NEW k \in Q PROVE k + 1 \in Q
    OBVIOUS
  <2>1. k \in Nat /\ k + 1 \in Nat
    OBVIOUS
  <2> SUFFICES ASSUME k + 1 <= L, NEW i \in L + 1 - (k + 1) .. L + 1 PROVE f[i] \in S
    BY <2>1
  <2>2. \A n \in L + 1 - k .. L + 1 : f[n] \in S
    BY <1>1, <2>1
  <2>3. CASE i \in L + 1 - k .. L + 1
    BY <2>2, <2>3
  <2>4. CASE i = L - k
    <3>1. i \in 1 .. L /\ i \in 1 .. L + 1 /\ ~(i > L) /\ i + 1 = L + 1 - k
      BY <1>1, <2>1, <2>4
    <3>2. After(slots, i) \in L + 1 - k .. L + 1 /\ <<slots[i].name>> \in S
      BY <1>4, <3>1
    <3>3. f[After(slots, i)] \in S
      BY <2>2, <3>2
    <3>4. f[i] = <<slots[i].name>> \o f[After(slots, i)]
      BY <1>6, <3>1
    <3> QED BY <1>5, <3>2, <3>3, <3>4
  <2> QED BY <1>1, <2>1, <2>3, <2>4
<1>9. Q = Nat
  <2> HIDE DEF Q
  <2>1. Q \in SUBSET Nat
    BY DEF Q
  <2> QED BY <1>7, <1>8, <2>1, SetInduction
<1>10. \A i \in 1 .. L + 1 : f[i] \in S
  <2>1. L \in Q
    <3> HIDE DEF Q
    <3> QED BY <1>1, <1>9
  <2>2. L + 1 - L = 1 /\ L <= L
    BY <1>1
  <2> QED BY <2>1, <2>2
<1>11. f = [i \in 1 .. L + 1 |-> f[i]]
  BY <1>2 DEF Leads, L
<1>12. f \in [1 .. L + 1 -> S]
  BY <1>10, <1>11
<1> QED BY <1>2, <1>3, <1>12 DEF L, S

\* Entries that lead past the block from its first half are the same whatever
\* the second half is taken for.
LEMMA PlainNames ==
  ASSUME NEW a \in Seq(Slot), NEW b \in Seq(Slot), PlainSlots(a, b)
  PROVE  Names(a \o b) = Names(a \o a)
<1> DEFINE M == Len(a)
           one == a \o b
           two == a \o a
<1>1. M \in Nat /\ Len(b) = M /\ DOMAIN a = 1 .. M
  BY DEF PlainSlots
<1>2. PICK S \in SUBSET (1 .. M) : /\ 1 \in S
                                   /\ \A i \in S : \/ i + a[i].size \in S
                                                   \/ i + a[i].size > M + M
  BY <1>1 DEF PlainSlots
<1>3. /\ one \in Seq(Slot) /\ Len(one) = M + M /\ \A i \in 1 .. M : one[i] = a[i]
      /\ two \in Seq(Slot) /\ Len(two) = M + M /\ \A i \in 1 .. M : two[i] = a[i]
  BY <1>1
<1>4. \A i \in 1 .. M : a[i].size \in Nat \ {0}
  <2>1. \A i \in 1 .. M : a[i] \in Slot
    BY <1>1
  <2> QED BY <2>1 DEF Slot, Positive
<1> HIDE DEF M, one, two
<1> DEFINE L == M + M
<1>5. PICK f : Leads(f, one) /\ Names(one) = f[1]
  BY <1>3, NamesLead
<1>6. PICK g : Leads(g, two) /\ Names(two) = g[1]
  BY <1>3, NamesLead
<1>7. ASSUME NEW i \in S
      PROVE  LET n == i + a[i].size
                 m == IF n > L THEN L + 1 ELSE n
             IN /\ f[i] = <<a[i].name>> \o f[m] /\ g[i] = <<a[i].name>> \o g[m]
                /\ m \in S \/ m = L + 1
                /\ m > i
  <2> DEFINE n == i + a[i].size
             m == IF n > L THEN L + 1 ELSE n
  <2>1. i \in 1 .. M /\ i \in 1 .. L + 1 /\ ~(i > L) /\ a[i].size \in Nat \ {0}
    BY <1>1, <1>4
  <2>2. one[i] = a[i] /\ two[i] = a[i]
    BY <1>3, <2>1
  <2>3. After(one, i) = m /\ After(two, i) = m
    BY <1>3, <2>2 DEF After
  <2>4. m \in S \/ m = L + 1
    BY <1>2
  <2>5. m > i
    BY <1>1, <2>1
  <2> HIDE DEF m, n
  <2>6. f[i] = <<one[i].name>> \o f[After(one, i)]
    BY <1>3, <1>5, <2>1 DEF Leads
  <2>7. g[i] = <<two[i].name>> \o g[After(two, i)]
    BY <1>3, <1>6, <2>1 DEF Leads
  <2>8. f[i] = <<a[i].name>> \o f[m] /\ g[i] = <<a[i].name>> \o g[m]
    BY <2>2, <2>3, <2>6, <2>7
  <2> QED BY <2>4, <2>5, <2>8 DEF m, n
<1>8. f[L + 1] = <<>> /\ g[L + 1] = <<>>
  <2>1. L + 1 \in 1 .. L + 1 /\ L + 1 > L
    BY <1>1
  <2> QED BY <1>3, <1>5, <1>6, <2>1 DEF Leads
<1> DEFINE Q == {k \in Nat : \A i \in S : i + k >= L + 1 => f[i] = g[i]}
<1>9. 0 \in Q
  <2>1. \A i \in S : ~(i + 0 >= L + 1)
    BY <1>1
  <2> QED BY <2>1
<1>10. \A k \in Q : k + 1 \in Q
  <2> SUFFICES ASSUME NEW k \in Q PROVE k + 1 \in Q
    OBVIOUS
  <2>0. k \in Nat /\ k + 1 \in Nat /\ \A i \in S : i + k >= L + 1 => f[i] = g[i]
    OBVIOUS
  <2> SUFFICES ASSUME NEW i \in S, i + (k + 1) >= L + 1 PROVE f[i] = g[i]
    BY <2>0
  <2> HIDE DEF Q
  <2> DEFINE n == i + a[i].size
             m == IF n > L THEN L + 1 ELSE n
  <2>1. /\ f[i] = <<a[i].name>> \o f[m] /\ g[i] = <<a[i].name>> \o g[m]
        /\ m \in S \/ m = L + 1
        /\ m > i
    BY <1>7
  <2> HIDE DEF m
  <2>2. CASE m = L + 1
    BY <1>8, <2>1, <2>2
  <2>3. CASE m \in S
    <3>1. m \in 1 .. M /\ i \in 1 .. M
      BY <2>3
    <3>2. m + k >= L + 1
      BY <1>1, <2>0, <2>1, <3>1
    <3>3. f[m] = g[m]
      BY <2>0, <2>3, <3>2
    <3> QED BY <2>1, <3>3
  <2> QED BY <2>1, <2>2, <2>3
<1>11. Q = Nat
  <2> HIDE DEF Q
  <2>1. Q \in SUBSET Nat
    BY DEF Q
  <2> QED BY <1>9, <1>10, <2>1, SetInduction
<1>12. f[1] = g[1]
  <2>1. L \in Nat /\ 1 + L >= L + 1
    BY <1>1
  <2>2. L \in Q
    <3> HIDE DEF Q, L
    <3> QED BY <1>11, <2>1
  <2>3. \A i \in S : i + L >= L + 1 => f[i] = g[i]
    BY <2>2
  <2> QED BY <1>2, <2>1, <2>3
<1> QED BY <1>5, <1>6, <1>12 DEF one, two
-----------------------------------------------------------------------------
(***************************************************************************)
(* What is on a drive                                                      *)
(***************************************************************************)
LEMMA ViewIs ==
  ASSUME NEW image \in DOMAIN Images, NEW n \in Nat, n < Sectors
  PROVE  LET v == Images[image].sector[n] IN
         v \in Views /\ v.entries \in Seq(Slot)
<1> DEFINE v == Images[image].sector[n]
<1>1. Images[image].sector \in [0 .. Sectors - 1 -> Views] /\ Sectors \in Nat
  BY DiskAssumption
<1>2. n \in 0 .. Sectors - 1
  BY <1>1
<1>3. v \in Views
  BY <1>1, <1>2
<1> HIDE DEF v
<1>4. v.entries \in Seq(Slot)
  <2>1. v.entries \in Seq([name : STRING, size : Nat \ {0}])
    BY <1>3 DEF Views
  <2>2. Slot = [name : STRING, size : Nat \ {0}]
    BY DEF Slot, Positive
  <2> QED BY <2>1, <2>2
<1> QED BY <1>3, <1>4 DEF v

\* A block of entries is the names of both its halves.
LEMMA EntryTree ==
  ASSUME NEW image \in DOMAIN Images, NEW start \in Nat, NEW b \in Nat
  PROVE  LET s == start + 2 * b
             half(i) == Images[image].sector[s + i].entries
             t == EntryTrees(image, start)[b]
         IN /\ t \in ATree
            /\ t.plain => s + 1 < Sectors /\ 2 * b < Span /\ PlainSlots(half(0), half(1))
            /\ s + 1 < Sectors => t.names = Names(half(0) \o half(1))
<1> DEFINE s == start + 2 * b
           half(i) == Images[image].sector[s + i].entries
           t == EntryTrees(image, start)[b]
           r == [names |-> Names(half(0) \o half(1)), plain |-> PlainSlots(half(0), half(1))]
<1>1. s \in Nat /\ s + 0 \in Nat /\ s + 1 \in Nat /\ Sectors \in Nat
  BY DiskAssumption
<1>2. t = IF s + 1 >= Sectors THEN Lost ELSE Reached(2 * b, r)
  BY DEF EntryTrees
<1>3. CASE s + 1 >= Sectors
  <2>1. t = Lost
    BY <1>2, <1>3
  <2>2. ~(s + 1 < Sectors)
    BY <1>1, <1>3
  <2> HIDE DEF t, s, half
  <2>3. t \in ATree
    BY <2>1, LeafIsTree
  <2>4. t.plain = FALSE
    BY <2>1 DEF Lost
  <2> QED BY <2>2, <2>3, <2>4 DEF t, s, half
<1>4. CASE ~(s + 1 >= Sectors)
  <2>1. s + 0 < Sectors /\ s + 1 < Sectors
    BY <1>1, <1>4
  <2>2. half(0) \in Seq(Slot) /\ half(1) \in Seq(Slot)
    BY <1>1, <2>1, ViewIs
  <2> HIDE DEF half
  <2>3. half(0) \o half(1) \in Seq(Slot)
    BY <2>2
  <2>4. Names(half(0) \o half(1)) \in Seq(STRING)
    <3> DEFINE a == half(0) \o half(1)
    <3> HIDE DEF a
    <3>1. a \in Seq(Slot)
      BY <2>3 DEF a
    <3>2. PICK f \in [1 .. Len(a) + 1 -> Seq(STRING)] : Names(a) = f[1]
      BY <3>1, NamesLead
    <3>3. 1 \in 1 .. Len(a) + 1
      BY <3>1
    <3> QED BY <3>2, <3>3 DEF a
  <2>5. PlainSlots(half(0), half(1)) \in BOOLEAN
    BY DEF PlainSlots
  <2>6. r \in ATree
    BY <2>4, <2>5, TreeIs
  <2>7. r.names = Names(half(0) \o half(1)) /\ r.plain = PlainSlots(half(0), half(1))
    OBVIOUS
  <2> HIDE DEF r
  <2>8. t = Reached(2 * b, r)
    BY <1>2, <1>4
  <2> HIDE DEF t
  <2>9. t \in ATree /\ t.names = r.names /\ (t.plain <=> r.plain /\ 2 * b < Span)
    BY <2>6, <2>8, ReachedIs
  <2> QED BY <2>1, <2>7, <2>9 DEF t, half
<1> QED BY <1>3, <1>4

\* The trees that pointers name.
Pointed(below, pointers) == [i \in DOMAIN pointers |-> below[pointers[i]]]

LEMMA PointedTrees ==
  ASSUME NEW below \in [Nat -> ATree], NEW pointers \in Seq(Positive)
  PROVE  Pointed(below, pointers) \in Seq(ATree)
<1>1. DOMAIN pointers = 1 .. Len(pointers) /\ Len(pointers) \in Nat
  OBVIOUS
<1>2. \A i \in 1 .. Len(pointers) : pointers[i] \in Nat
  BY DEF Positive
<1>3. \A i \in 1 .. Len(pointers) : below[pointers[i]] \in ATree
  BY <1>2
<1> QED BY <1>1, <1>3 DEF Pointed

\* A block of pointers holds what the blocks hold that it points to.
LEMMA PointerTree ==
  ASSUME NEW image \in DOMAIN Images, NEW start \in Nat, NEW b \in Nat, NEW below \in [Nat -> ATree]
  PROVE  LET s == start + 2 * b
             half(i) == Images[image].sector[s + i].pointers
             pointers == UpToZero(half(0) \o half(1))
             tree == Joined(Pointed(below, pointers))
             t == PointerTrees(image, start, below)[b]
         IN /\ t \in ATree
            /\ t.plain => s + 1 < Sectors /\ 2 * b < Span /\ Zeros(half(0)) # {} /\ tree.plain
            /\ s + 1 < Sectors => t.names = tree.names
<1> DEFINE s == start + 2 * b
           half(i) == Images[image].sector[s + i].pointers
           pointers == UpToZero(half(0) \o half(1))
           tree == Joined(Pointed(below, pointers))
           r == [tree EXCEPT !.plain = @ /\ Zeros(half(0)) # {}]
           t == PointerTrees(image, start, below)[b]
<1>1. s \in Nat /\ s + 0 \in Nat /\ s + 1 \in Nat /\ Sectors \in Nat
  BY DiskAssumption
<1>2. t = IF s + 1 >= Sectors THEN Lost ELSE Reached(2 * b, r)
  BY DEF PointerTrees, Pointed
<1>3. CASE s + 1 >= Sectors
  <2>1. t = Lost
    BY <1>2, <1>3
  <2>2. ~(s + 1 < Sectors)
    BY <1>1, <1>3
  <2> HIDE DEF t, s, half, pointers, tree
  <2>3. t \in ATree
    BY <2>1, LeafIsTree
  <2>4. t.plain = FALSE
    BY <2>1 DEF Lost
  <2> QED BY <2>2, <2>3, <2>4 DEF t, s, half, pointers, tree
<1>4. CASE ~(s + 1 >= Sectors)
  <2>1. s + 0 < Sectors /\ s + 1 < Sectors
    BY <1>1, <1>4
  <2>2. half(0) \in Seq(Nat) /\ half(1) \in Seq(Nat)
    BY <1>1, <2>1, ViewIs, ViewFields
  <2> HIDE DEF half
  <2>3. half(0) \o half(1) \in Seq(Nat)
    BY <2>2
  <2>4. pointers \in Seq(Positive)
    BY <2>3, UpToZeroIs
  <2>5. tree \in ATree
    <3> HIDE DEF pointers
    <3> DEFINE trees == Pointed(below, pointers)
    <3>1. trees \in Seq(ATree)
      BY <2>4, PointedTrees
    <3> HIDE DEF trees
    <3> QED BY <3>1, JoinedIsTree DEF trees
  <2> HIDE DEF tree
  <2>6. r \in ATree /\ r.names = tree.names /\ (r.plain <=> tree.plain /\ Zeros(half(0)) # {})
    <3>1. r = [tree EXCEPT !.plain = tree.plain /\ Zeros(half(0)) # {}]
      OBVIOUS
    <3>2. (tree.plain /\ Zeros(half(0)) # {}) \in BOOLEAN
      OBVIOUS
    <3> HIDE DEF r
    <3> QED BY <2>5, <3>1, <3>2 DEF ATree
  <2> HIDE DEF r
  <2>7. t = Reached(2 * b, r)
    BY <1>2, <1>4
  <2> HIDE DEF t
  <2>8. t \in ATree /\ t.names = r.names /\ (t.plain <=> r.plain /\ 2 * b < Span)
    BY <2>6, <2>7, ReachedIs
  <2> QED BY <2>1, <2>6, <2>8 DEF t, half, tree
<1> QED BY <1>3, <1>4

\* The trees of the blocks, level by level.
LEMMA BlockTreesAre ==
  ASSUME NEW image \in DOMAIN Images, NEW start \in Nat
  PROVE  LET trees == BlockTrees(image, start) IN
         /\ trees \in [0 .. 3 -> [Nat -> ATree]]
         /\ trees[0] = EntryTrees(image, start)
         /\ \A level \in 1 .. 3 : trees[level] = PointerTrees(image, start, trees[level - 1])
<1> DEFINE S == [Nat -> ATree]
           c == EntryTrees(image, start)
           above(f) == PointerTrees(image, start, f)
           D == [n \in Nat |-> [f \in S |-> above(f)]]
           Levels(f) == f = [level \in 0 .. 3 |-> IF level = 0 THEN c ELSE above(f[level - 1])]
<1>1. c \in S
  <2>1. \A b \in Nat : c[b] \in ATree
    BY EntryTree
  <2>2. c = [b \in Nat |-> c[b]]
    BY DEF EntryTrees
  <2> HIDE DEF c
  <2> QED BY <2>1, <2>2
<1>2. \A f \in S : above(f) \in S
  <2> TAKE f \in S
  <2> DEFINE g == above(f)
  <2>1. \A b \in Nat : g[b] \in ATree
    BY PointerTree
  <2>2. g = [b \in Nat |-> g[b]]
    BY DEF PointerTrees
  <2> HIDE DEF g
  <2>3. g \in S
    BY <2>1, <2>2
  <2> QED BY <2>3 DEF g
<1> HIDE DEF S, c, above
<1>3. D \in [Nat -> [S -> S]]
  BY <1>2
<1>4. PICK f \in [0 .. 3 -> S] : Iterates(f, 3, c, D)
  <2> HIDE DEF D
  <2>1. 3 \in Nat
    OBVIOUS
  <2> QED BY <1>1, <1>3, <2>1, IteratesExist
<1>5. Levels(f)
  <2>1. f = [n \in 0 .. 3 |-> IF n = 0 THEN c ELSE D[n][f[n - 1]]]
    BY <1>4 DEF Iterates
  <2>2. \A n \in 0 .. 3 : n # 0 => D[n][f[n - 1]] = above(f[n - 1])
    <3> TAKE n \in 0 .. 3
    <3> HAVE n # 0
    <3>1. n \in Nat /\ n - 1 \in 0 .. 3
      OBVIOUS
    <3>2. f[n - 1] \in S
      BY <3>1
    <3> QED BY <3>1, <3>2
  <2> HIDE DEF D
  <2> QED BY <2>1, <2>2
<1> DEFINE g == CHOOSE g : Levels(g)
<1>6. Levels(g)
  BY <1>5
<1>7. BlockTrees(image, start) = g
  BY DEF BlockTrees, c, above
<1> HIDE DEF g
<1>8. g[0] = c /\ \A level \in 1 .. 3 : g[level] = above(g[level - 1])
  <2>1. \A level \in 0 .. 3 : g[level] = IF level = 0 THEN c ELSE above(g[level - 1])
    BY <1>6
  <2>2. 0 \in 0 .. 3 /\ \A level \in 1 .. 3 : level \in 0 .. 3 /\ level # 0
    OBVIOUS
  <2> QED BY <2>1, <2>2
<1>9. g \in [0 .. 3 -> S]
  <2>1. g[0] \in S
    BY <1>1, <1>8
  <2>2. 1 \in 1 .. 3 /\ 1 - 1 = 0 /\ 2 \in 1 .. 3 /\ 2 - 1 = 1 /\ 3 \in 1 .. 3 /\ 3 - 1 = 2
    OBVIOUS
  <2>3. g[1] \in S
    BY <1>2, <1>8, <2>1, <2>2
  <2>4. g[2] \in S
    BY <1>2, <1>8, <2>2, <2>3
  <2>5. g[3] \in S
    BY <1>2, <1>8, <2>2, <2>4
  <2>6. g = [level \in 0 .. 3 |-> g[level]]
    BY <1>6
  <2>7. \A level \in 0 .. 3 : level = 0 \/ level = 1 \/ level = 2 \/ level = 3
    OBVIOUS
  <2> QED BY <2>1, <2>3, <2>4, <2>5, <2>6, <2>7
<1> QED BY <1>7, <1>8, <1>9 DEF S, c, above
-----------------------------------------------------------------------------
(***************************************************************************)
(* Pointers up to the first zero                                           *)
(***************************************************************************)
LEMMA UpToZeroAt ==
  ASSUME NEW s \in Seq(Nat), NEW m \in 1 .. Len(s), s[m] = 0, \A i \in 1 .. m - 1 : s[i] # 0
  PROVE  Zeros(s) # {} /\ UpToZero(s) = [i \in 1 .. m - 1 |-> s[i]]
<1>1. Len(s) \in Nat /\ DOMAIN s = 1 .. Len(s) /\ m \in Nat
  OBVIOUS
<1>2. m \in Zeros(s) /\ Zeros(s) \subseteq 1 .. Len(s)
  BY <1>1 DEF Zeros
<1>3. \A i \in Zeros(s) : m <= i
  <2> TAKE i \in Zeros(s)
  <2>1. i \in 1 .. Len(s) /\ s[i] = 0
    BY <1>1 DEF Zeros
  <2>2. i \notin 1 .. m - 1
    BY <2>1
  <2> QED BY <1>1, <2>1, <2>2
<1>4. Min(Zeros(s)) = m
  <2> DEFINE x == Min(Zeros(s))
  <2>1. x \in Zeros(s) /\ \A y \in Zeros(s) : x <= y
    BY <1>2, <1>3 DEF Min
  <2> HIDE DEF x
  <2>2. x <= m /\ m <= x /\ x \in Nat
    BY <1>2, <1>3, <2>1
  <2>3. x = m
    BY <1>1, <2>2
  <2> QED BY <2>3 DEF x
<1>5. UpToZero(s) = SubSeq(s, 1, m - 1)
  BY <1>2, <1>4 DEF UpToZero
<1>6. SubSeq(s, 1, m - 1) = [i \in 1 .. m - 1 |-> s[i]]
  <2>1. SubSeq(s, 1, m - 1) = [i \in 1 .. (m - 1) - 1 + 1 |-> s[1 + i - 1]]
    BY <1>1
  <2> QED BY <1>1, <2>1
<1> QED BY <1>2, <1>5, <1>6

\* There is a first zero if there is one.
LEMMA FirstZero ==
  ASSUME NEW s \in Seq(Nat), Zeros(s) # {}
  PROVE  \E m \in 1 .. Len(s) : s[m] = 0 /\ \A i \in 1 .. m - 1 : s[i] # 0
<1>1. Len(s) \in Nat /\ DOMAIN s = 1 .. Len(s)
  OBVIOUS
<1>2. Zeros(s) \in SUBSET Nat /\ \A i \in Zeros(s) : i \in 1 .. Len(s) /\ s[i] = 0
  BY <1>1 DEF Zeros
<1>3. PICK m \in Zeros(s) : \A i \in Zeros(s) : m <= i
  BY <1>2, LeastElement
<1>4. m \in 1 .. Len(s) /\ s[m] = 0
  BY <1>2
<1>5. \A i \in 1 .. m - 1 : s[i] # 0
  <2> TAKE i \in 1 .. m - 1
  <2>1. i \in 1 .. Len(s) /\ ~(m <= i)
    BY <1>1, <1>4
  <2>2. i \notin Zeros(s)
    BY <1>3, <2>1
  <2> QED BY <1>1, <2>1, <2>2 DEF Zeros
<1> QED BY <1>4, <1>5

\* One sequence after the other, place by place.
LEMMA ConcatIs ==
  ASSUME NEW S, NEW a \in Seq(S), NEW b \in Seq(S)
  PROVE  /\ a \o b \in Seq(S) /\ Len(a \o b) = Len(a) + Len(b)
         /\ a \o b = [i \in 1 .. Len(a) + Len(b) |-> IF i <= Len(a) THEN a[i] ELSE b[i - Len(a)]]
<1> DEFINE c == a \o b
<1>1. c \in Seq(S) /\ Len(c) = Len(a) + Len(b)
  OBVIOUS
<1>2. \A i \in 1 .. Len(a) + Len(b) : c[i] = IF i <= Len(a) THEN a[i] ELSE b[i - Len(a)]
  OBVIOUS
<1> HIDE DEF c
<1>3. c = [i \in 1 .. Len(a) + Len(b) |-> c[i]]
  BY <1>1
<1>4. c = [i \in 1 .. Len(a) + Len(b) |-> IF i <= Len(a) THEN a[i] ELSE b[i - Len(a)]]
  BY <1>2, <1>3
<1> QED BY <1>1, <1>4 DEF c

\* Up to the first zero of two sequences: of the first if that has one.
LEMMA UpToZeroOfBoth ==
  ASSUME NEW a \in Seq(Nat), NEW b \in Seq(Nat)
  PROVE  /\ Zeros(a) # {} => UpToZero(a \o b) = UpToZero(a) /\ Len(UpToZero(a)) < Len(a)
         /\ Zeros(a) = {} => UpToZero(a \o b) = a \o UpToZero(b) /\ UpToZero(a) = a
<1> DEFINE c == a \o b
<1>1. Len(a) \in Nat /\ Len(b) \in Nat
  OBVIOUS
<1>2. c \in Seq(Nat) /\ Len(c) = Len(a) + Len(b)
  OBVIOUS
<1>3. \A i \in 1 .. Len(a) : c[i] = a[i] /\ i \in 1 .. Len(c)
  OBVIOUS
<1>4. \A i \in 1 .. Len(b) : c[Len(a) + i] = b[i] /\ Len(a) + i \in 1 .. Len(c)
  OBVIOUS
<1> HIDE DEF c
<1>5. ASSUME Zeros(a) # {}
      PROVE  UpToZero(c) = UpToZero(a) /\ Len(UpToZero(a)) < Len(a)
  <2>1. PICK m \in 1 .. Len(a) : a[m] = 0 /\ \A i \in 1 .. m - 1 : a[i] # 0
    BY <1>5, FirstZero
  <2>2. UpToZero(a) = [i \in 1 .. m - 1 |-> a[i]]
    BY <2>1, UpToZeroAt
  <2>3. m \in 1 .. Len(c) /\ c[m] = 0
    BY <1>3, <2>1
  <2>4. \A i \in 1 .. m - 1 : i \in 1 .. Len(a) /\ c[i] = a[i] /\ c[i] # 0
    <3> TAKE i \in 1 .. m - 1
    <3>1. i \in 1 .. Len(a)
      BY <1>1
    <3> QED BY <1>3, <2>1, <3>1
  <2>5. UpToZero(c) = [i \in 1 .. m - 1 |-> c[i]]
    BY <1>2, <2>3, <2>4, UpToZeroAt
  <2>6. UpToZero(c) = UpToZero(a)
    BY <2>2, <2>4, <2>5
  <2>7. m - 1 \in Nat /\ Len([i \in 1 .. m - 1 |-> a[i]]) = m - 1
    BY <1>1
  <2> QED BY <1>1, <2>2, <2>6, <2>7
<1>6. ASSUME Zeros(a) = {}
      PROVE  UpToZero(c) = a \o UpToZero(b) /\ UpToZero(a) = a
  <2>1. UpToZero(a) = a
    BY <1>6 DEF UpToZero
  <2>2. \A i \in 1 .. Len(a) : a[i] # 0
    BY <1>6 DEF Zeros
  <2>3. CASE Zeros(b) = {}
    <3>1. UpToZero(b) = b
      BY <2>3 DEF UpToZero
    <3>2. \A i \in 1 .. Len(b) : b[i] # 0
      BY <2>3 DEF Zeros
    <3>3. ASSUME NEW i \in 1 .. Len(c) PROVE c[i] # 0
      <4>1. CASE i <= Len(a)
        <5>1. i \in 1 .. Len(a)
          BY <1>1, <4>1
        <5> QED BY <1>3, <2>2, <5>1
      <4>2. CASE ~(i <= Len(a))
        <5> DEFINE j == i - Len(a)
        <5>1. j \in 1 .. Len(b) /\ i = Len(a) + j
          BY <1>1, <1>2, <4>2
        <5> HIDE DEF j
        <5> QED BY <1>4, <3>2, <5>1
      <4> QED BY <4>1, <4>2
    <3>4. Zeros(c) = {}
      BY <1>2, <3>3 DEF Zeros
    <3> QED BY <2>1, <3>1, <3>4 DEF UpToZero, c
  <2>4. CASE Zeros(b) # {}
    <3>1. PICK m \in 1 .. Len(b) : b[m] = 0 /\ \A i \in 1 .. m - 1 : b[i] # 0
      BY <2>4, FirstZero
    <3>2. UpToZero(b) = [i \in 1 .. m - 1 |-> b[i]]
      BY <3>1, UpToZeroAt
    <3> DEFINE M == Len(a) + m
    <3>3. M \in 1 .. Len(c) /\ c[M] = 0 /\ M \in Nat /\ m \in Nat
      BY <1>1, <1>4, <3>1
    <3>4. ASSUME NEW i \in 1 .. M - 1
          PROVE  /\ c[i] # 0
                 /\ i <= Len(a) => c[i] = a[i]
                 /\ ~(i <= Len(a)) => c[i] = b[i - Len(a)]
      <4>1. CASE i <= Len(a)
        <5>1. i \in 1 .. Len(a)
          BY <1>1, <4>1
        <5> QED BY <1>3, <2>2, <4>1, <5>1
      <4>2. CASE ~(i <= Len(a))
        <5> DEFINE j == i - Len(a)
        <5>1. j \in 1 .. Len(b) /\ j \in 1 .. m - 1 /\ i = Len(a) + j
          BY <1>1, <3>3, <4>2
        <5> HIDE DEF j
        <5>2. c[i] = b[j] /\ b[j] # 0
          BY <1>4, <3>1, <5>1
        <5> QED BY <4>2, <5>2 DEF j
      <4> QED BY <4>1, <4>2
    <3>5. UpToZero(c) = [i \in 1 .. M - 1 |-> c[i]]
      <4> HIDE DEF M
      <4>1. \A i \in 1 .. M - 1 : c[i] # 0
        BY <3>4
      <4>2. c \in Seq(Nat) /\ M \in 1 .. Len(c) /\ c[M] = 0
        BY <1>2, <3>3
      <4> HIDE DEF c
      <4> QED BY <4>1, <4>2, UpToZeroAt
    <3> DEFINE d == [i \in 1 .. m - 1 |-> b[i]]
    <3>6. d \in Seq(Nat) /\ Len(d) = m - 1 /\ \A i \in 1 .. m - 1 : d[i] = b[i]
      <4>1. m - 1 \in Nat /\ \A i \in 1 .. m - 1 : b[i] \in Nat
        BY <1>1, <3>3
      <4> QED BY <4>1
    <3> HIDE DEF d
    <3>7. a \o d = [i \in 1 .. M - 1 |-> IF i <= Len(a) THEN a[i] ELSE d[i - Len(a)]]
      <4>1. a \o d = [i \in 1 .. Len(a) + Len(d) |-> IF i <= Len(a) THEN a[i] ELSE d[i - Len(a)]]
        BY <3>6, ConcatIs
      <4>2. Len(a) + Len(d) = M - 1
        BY <1>1, <3>3, <3>6
      <4> QED BY <4>1, <4>2
    <3>8. \A i \in 1 .. M - 1 : c[i] = IF i <= Len(a) THEN a[i] ELSE d[i - Len(a)]
      <4> TAKE i \in 1 .. M - 1
      <4>1. ~(i <= Len(a)) => i - Len(a) \in 1 .. m - 1
        BY <1>1, <3>3
      <4> QED BY <3>4, <3>6, <4>1
    <3>9. UpToZero(c) = a \o d
      <4> HIDE DEF M
      <4> QED BY <3>5, <3>7, <3>8
    <3> QED BY <2>1, <3>2, <3>9 DEF d
  <2> QED BY <2>3, <2>4
<1> QED BY <1>5, <1>6 DEF c

\* The three pointers to blocks of pointers, as a sequence.
LEMMA ThreePointers ==
  ASSUME NEW f \in [1 .. 3 -> Nat]
  PROVE  f \in Seq(Nat) /\ Len(f) = 3
<1>1. f = [i \in 1 .. 3 |-> f[i]] /\ \A i \in 1 .. 3 : f[i] \in Nat
  OBVIOUS
<1>2. [i \in 1 .. 3 |-> f[i]] \in Seq(Nat) /\ Len([i \in 1 .. 3 |-> f[i]]) = 3
  BY <1>1
<1> QED BY <1>1, <1>2

\* read_directory makes one call for each pointer up to the first zero, direct
\* pointers on level 0 and each of the others one level above the one before.
Level(inode, i) == IF i <= Len(inode.direct) THEN 0 ELSE i - Len(inode.direct)

LEMMA DirectoryBlocksAre ==
  ASSUME NEW call, NEW inode, inode.direct \in Seq(Nat), inode.indirect \in [1 .. 3 -> Nat]
  PROVE  LET pointers == UpToZero(inode.direct \o inode.indirect) IN
         /\ pointers \in Seq(Positive)
         /\ \A i \in DOMAIN pointers : Level(inode, i) \in 0 .. 3
         /\ DirectoryBlocks(call, inode) =
              [i \in DOMAIN pointers |-> Block(call, pointers[i], Level(inode, i))]
<1> DEFINE a == inode.direct
           b == inode.indirect
           pointers == UpToZero(a \o b)
           direct == UpToZero(a)
           indirect == UpToZero(b)
           more == [level \in DOMAIN indirect |-> Block(call, indirect[level], level)]
           all == [i \in DOMAIN pointers |-> Block(call, pointers[i], Level(inode, i))]
<1>1. a \in Seq(Nat) /\ b \in Seq(Nat) /\ Len(b) = 3
  BY ThreePointers
<1>2. DirectoryBlocks(call, inode) =
        Blocks(call, direct, 0) \o IF Len(direct) < Len(a) THEN <<>> ELSE more
  BY DEF DirectoryBlocks
<1>3. \A i : Level(inode, i) = IF i <= Len(a) THEN 0 ELSE i - Len(a)
  BY DEF Level
<1> HIDE DEF a, b
<1>4. a \o b \in Seq(Nat) /\ Len(a \o b) = Len(a) + 3 /\ Len(a) \in Nat
  <2>1. a \o b \in Seq(Nat) /\ Len(a \o b) = Len(a) + Len(b)
    BY <1>1, ConcatIs
  <2>2. Len(a) \in Nat
    BY <1>1
  <2> QED BY <1>1, <2>1, <2>2
<1>5. pointers \in Seq(Positive) /\ Len(pointers) <= Len(a) + 3
  BY <1>4, UpToZeroIs
<1>6. direct \in Seq(Positive) /\ indirect \in Seq(Positive) /\ Len(indirect) <= 3
  BY <1>1, UpToZeroIs
<1>7. /\ Zeros(a) # {} => pointers = direct /\ Len(direct) < Len(a)
      /\ Zeros(a) = {} => pointers = a \o indirect /\ direct = a
  BY <1>1, UpToZeroOfBoth
<1> HIDE DEF pointers, direct, indirect
<1>8. /\ DOMAIN pointers = 1 .. Len(pointers) /\ Len(pointers) \in Nat
      /\ DOMAIN direct = 1 .. Len(direct) /\ Len(direct) \in Nat
      /\ DOMAIN indirect = 1 .. Len(indirect) /\ Len(indirect) \in Nat
  BY <1>5, <1>6
<1>9. \A i \in DOMAIN pointers : Level(inode, i) \in 0 .. 3
  <2> TAKE i \in DOMAIN pointers
  <2>1. i \in Nat /\ i <= Len(a) + 3
    BY <1>4, <1>5, <1>8
  <2>2. Level(inode, i) = IF i <= Len(a) THEN 0 ELSE i - Len(a)
    BY <1>3
  <2>3. ~(i <= Len(a)) => i - Len(a) \in 0 .. 3
    BY <1>4, <2>1
  <2> QED BY <2>2, <2>3
<1> DEFINE S == {Block(call, p, l) : p \in Positive, l \in 0 .. 3}
           first == Blocks(call, direct, 0)
<1>10. first \in Seq(S) /\ Len(first) = Len(direct)
       /\ \A i \in 1 .. Len(direct) : first[i] = Block(call, direct[i], 0)
  <2>1. first = [i \in 1 .. Len(direct) |-> Block(call, direct[i], 0)]
    BY <1>8 DEF Blocks
  <2>2. \A i \in 1 .. Len(direct) : direct[i] \in Positive /\ 0 \in 0 .. 3
    BY <1>6
  <2> HIDE DEF first
  <2> QED BY <1>8, <2>1, <2>2
<1>11. more \in Seq(S) /\ Len(more) = Len(indirect)
       /\ \A i \in 1 .. Len(indirect) : more[i] = Block(call, indirect[i], i)
  <2>1. more = [i \in 1 .. Len(indirect) |-> Block(call, indirect[i], i)]
    BY <1>8
  <2>2. \A i \in 1 .. Len(indirect) : indirect[i] \in Positive /\ i \in 0 .. 3
    BY <1>6, <1>8
  <2> HIDE DEF more
  <2> QED BY <1>8, <2>1, <2>2
<1>12. all = [i \in 1 .. Len(pointers) |-> Block(call, pointers[i], Level(inode, i))]
  BY <1>8
<1> HIDE DEF first, more, S, all
<1>13. CASE Zeros(a) # {}
  <2>1. first \o <<>> = first
    BY <1>10
  <2>2. \A i \in 1 .. Len(direct) : Level(inode, i) = 0
    <3> TAKE i \in 1 .. Len(direct)
    <3>0. Len(direct) < Len(a) /\ Len(direct) \in Nat
      BY <1>7, <1>8, <1>13
    <3>1. i <= Len(a)
      BY <1>4, <3>0
    <3> QED BY <1>3, <3>1
  <2>3. first = [i \in 1 .. Len(direct) |-> first[i]]
    BY <1>10
  <2>4. first = all
    BY <1>7, <1>10, <1>12, <1>13, <2>2, <2>3
  <2>5. DirectoryBlocks(call, inode) = first
    BY <1>2, <1>7, <1>13, <2>1 DEF first
  <2> QED BY <1>5, <1>9, <2>4, <2>5 DEF pointers, a, b, all
<1>14. CASE Zeros(a) = {}
  <2>1. DirectoryBlocks(call, inode) = first \o more
    <3>1. ~(Len(direct) < Len(a))
      BY <1>4, <1>7, <1>14
    <3> QED BY <1>2, <3>1 DEF first
  <2>2. /\ first \o more = [i \in 1 .. Len(a) + Len(indirect) |->
                              IF i <= Len(a) THEN first[i] ELSE more[i - Len(a)]]
        /\ Len(pointers) = Len(a) + Len(indirect)
    <3>1. first \o more = [i \in 1 .. Len(first) + Len(more) |->
                             IF i <= Len(first) THEN first[i] ELSE more[i - Len(first)]]
      BY <1>10, <1>11, ConcatIs
    <3>2. Len(pointers) = Len(a) + Len(indirect)
      BY <1>1, <1>6, <1>7, <1>14
    <3> QED BY <1>7, <1>10, <1>11, <1>14, <3>1, <3>2
  <2>3. ASSUME NEW i \in 1 .. Len(a) + Len(indirect)
        PROVE  Block(call, pointers[i], Level(inode, i)) = IF i <= Len(a) THEN first[i] ELSE more[i - Len(a)]
    <3>1. CASE i <= Len(a)
      <4>1. i \in 1 .. Len(direct) /\ direct = a
        BY <1>4, <1>7, <1>14, <3>1
      <4>2. pointers[i] = a[i]
        BY <1>1, <1>6, <1>7, <1>14, <4>1
      <4> QED BY <1>3, <1>10, <3>1, <4>1, <4>2
    <3>2. CASE ~(i <= Len(a))
      <4> DEFINE j == i - Len(a)
      <4>1. j \in 1 .. Len(indirect)
        BY <1>4, <1>8, <3>2
      <4>2. pointers[i] = indirect[j]
        <5>1. a \in Seq(Nat) /\ indirect \in Seq(Nat)
          BY <1>1, <1>6 DEF Positive
        <5>2. a \o indirect = [k \in 1 .. Len(a) + Len(indirect) |->
                                IF k <= Len(a) THEN a[k] ELSE indirect[k - Len(a)]]
          BY <5>1, ConcatIs
        <5> QED BY <1>7, <1>14, <3>2, <5>2
      <4>3. Level(inode, i) = j
        BY <1>3, <3>2
      <4> HIDE DEF j
      <4>4. more[j] = Block(call, indirect[j], j)
        BY <1>11, <4>1
      <4> QED BY <3>2, <4>2, <4>3, <4>4 DEF j
    <3> QED BY <3>1, <3>2
  <2>4. first \o more = all
    BY <1>12, <2>2, <2>3
  <2> QED BY <1>5, <1>9, <2>1, <2>4 DEF pointers, a, b, all
<1> QED BY <1>13, <1>14
-----------------------------------------------------------------------------
(***************************************************************************)
(* From the root inode to the drives                                       *)
(***************************************************************************)
\* The trees under the pointers of an inode.
InodeTrees(image, start, inode) ==
  LET pointers == UpToZero(inode.direct \o inode.indirect)
  IN [i \in DOMAIN pointers |-> BlockTrees(image, start)[Level(inode, i)][pointers[i]]]

LEMMA InodeTreesAre ==
  ASSUME NEW image \in DOMAIN Images, NEW start \in Nat,
         NEW inode, inode.direct \in Seq(Nat), inode.indirect \in [1 .. 3 -> Nat]
  PROVE  InodeTrees(image, start, inode) \in Seq(ATree)
<1> DEFINE pointers == UpToZero(inode.direct \o inode.indirect)
           trees == BlockTrees(image, start)
<1>1. pointers \in Seq(Positive) /\ \A i \in DOMAIN pointers : Level(inode, i) \in 0 .. 3
  BY DirectoryBlocksAre
<1>2. trees \in [0 .. 3 -> [Nat -> ATree]]
  BY BlockTreesAre
<1>3. InodeTrees(image, start, inode) = [i \in DOMAIN pointers |-> trees[Level(inode, i)][pointers[i]]]
  BY DEF InodeTrees
<1> HIDE DEF pointers, trees
<1>4. DOMAIN pointers = 1 .. Len(pointers) /\ Len(pointers) \in Nat /\ \A i \in 1 .. Len(pointers) : pointers[i] \in Nat
  BY <1>1 DEF Positive
<1>5. \A i \in 1 .. Len(pointers) : trees[Level(inode, i)][pointers[i]] \in ATree
  <2> TAKE i \in 1 .. Len(pointers)
  <2>1. Level(inode, i) \in 0 .. 3 /\ pointers[i] \in Nat
    BY <1>1, <1>4
  <2>2. trees[Level(inode, i)] \in [Nat -> ATree]
    BY <1>2, <2>1
  <2> QED BY <2>1, <2>2
<1> QED BY <1>3, <1>4, <1>5

LEMMA InodeTreeIs ==
  ASSUME NEW image \in DOMAIN Images, NEW start \in Nat, NEW super \in Systems, NEW table \in Nat
  PROVE  LET s == start + 2 * table + RootOffset(super) \div SECTOR
             offset == RootOffset(super) % SECTOR
             inode == Images[image].sector[s].inode[offset]
             trees == InodeTrees(image, start, inode)
             t == InodeTree(image, start, super, table)
         IN /\ t \in ATree
            /\ t.plain => /\ s < Sectors /\ s < Span /\ ~(offset + INODE > SECTOR)
                          /\ inode.directory => Joined(trees).plain
            /\ s < Sectors /\ ~(offset + INODE > SECTOR) =>
                 t.names = IF inode.directory THEN Joined(trees).names ELSE <<>>
<1> DEFINE s == start + 2 * table + RootOffset(super) \div SECTOR
           offset == RootOffset(super) % SECTOR
           inode == Images[image].sector[s].inode[offset]
           trees == InodeTrees(image, start, inode)
           t == InodeTree(image, start, super, table)
           r == IF inode.directory THEN Joined(trees) ELSE Leaf
           out == s >= Sectors \/ offset + INODE > SECTOR
<1>1. s \in Nat /\ Sectors \in Nat /\ offset \in 0 .. SECTOR - 1
  BY SystemIs, WordsAre DEF Positive
<1>2. t = IF out THEN Lost ELSE Reached(s, r)
  BY DEF InodeTree, InodeTrees, Level
<1>3. CASE out
  <2>1. t = Lost
    BY <1>2, <1>3
  <2>2. ~(s < Sectors /\ ~(offset + INODE > SECTOR))
    <3> HIDE DEF s, offset
    <3> QED BY <1>1, <1>3
  <2> HIDE DEF t, s, inode, trees, offset, out
  <2>3. t \in ATree
    BY <2>1, LeafIsTree
  <2>4. t.plain = FALSE
    BY <2>1 DEF Lost
  <2> QED BY <2>2, <2>3, <2>4 DEF t, s, inode, trees, offset
<1>4. CASE ~out
  <2>1. s < Sectors /\ ~(offset + INODE > SECTOR)
    <3> HIDE DEF s, offset
    <3> QED BY <1>1, <1>4
  <2> HIDE DEF offset, s, out
  <2>2. /\ inode.direct \in Seq(Nat) /\ inode.indirect \in [1 .. 3 -> Nat]
        /\ inode.directory \in BOOLEAN
    <3>1. Images[image].sector[s] \in Views
      BY <1>1, <2>1, ViewIs
    <3> QED BY <1>1, <3>1, ViewFields
  <2> HIDE DEF inode
  <2>3. trees \in Seq(ATree)
    BY <1>1, <2>2, InodeTreesAre
  <2> HIDE DEF trees
  <2>4. Joined(trees) \in ATree
    BY <2>3, JoinedIsTree
  <2>5. r \in ATree
    BY <2>4, LeafIsTree
  <2>6. /\ r.names = IF inode.directory THEN Joined(trees).names ELSE <<>>
        /\ r.plain => (inode.directory => Joined(trees).plain)
    BY DEF Leaf
  <2> HIDE DEF r
  <2>7. t = Reached(s, r)
    BY <1>2, <1>4
  <2> HIDE DEF t
  <2>8. t \in ATree /\ t.names = r.names /\ (t.plain <=> r.plain /\ s < Span)
    BY <2>5, <2>7, ReachedIs
  <2> QED BY <2>1, <2>6, <2>8 DEF t, inode, trees, offset, s
<1> QED BY <1>3, <1>4

\* A file system is plain only if the descriptor of its root inode is the first, and
\* counted.
LEMMA GroupTreeIs ==
  ASSUME NEW image \in DOMAIN Images, NEW start \in Nat, NEW super \in Systems
  PROVE  LET group == Images[image].sector[start + 4].group
             t == GroupTree(image, start, super)
         IN /\ t \in ATree
            /\ t.plain => /\ start + 5 < Sectors /\ RootGroup(super) = 0 /\ 0 < NrBlockGroups(super)
                          /\ t = InodeTree(image, start, super, group[0])
<1> DEFINE group == Images[image].sector[start + 4].group
           g == RootGroup(super)
           t == GroupTree(image, start, super)
           u == InodeTree(image, start, super, group[g])
           c == g = 0 /\ NrBlockGroups(super) > 0
<1>1. start + 4 \in Nat /\ start + 5 \in Nat /\ Sectors \in Nat /\ NrBlockGroups(super) \in Nat
  BY SystemIs, WordsAre DEF Positive
<1>2. t = IF start + 5 >= Sectors THEN Lost ELSE [u EXCEPT !.plain = @ /\ g = 0 /\ NrBlockGroups(super) > 0]
  BY DEF GroupTree
<1>3. CASE start + 5 >= Sectors
  <2>1. t \in ATree /\ ~t.plain
    <3> HIDE DEF t
    <3> QED BY <1>2, <1>3, LeafIsTree DEF Lost
  <2> QED BY <2>1
<1>4. CASE ~(start + 5 >= Sectors)
  <2>1. start + 4 < Sectors /\ start + 5 < Sectors
    BY <1>1, <1>4
  <2>2. group[g] \in Nat
    <3>1. Images[image].sector[start + 4] \in Views
      BY <1>1, <2>1, ViewIs
    <3> QED BY <3>1, ViewFields, SystemIs
  <2>3. u \in ATree
    <3> DEFINE table == group[g]
    <3>1. table \in Nat
      BY <2>2
    <3> HIDE DEF table
    <3>2. InodeTree(image, start, super, table) \in ATree
      BY <3>1, InodeTreeIs
    <3> QED BY <3>2 DEF table
  <2>4. t = [u EXCEPT !.plain = @ /\ c]
    BY <1>2, <1>4
  <2>5. c \in BOOLEAN
    OBVIOUS
  <2>6. u = InodeTree(image, start, super, group[g]) /\ (c <=> g = 0 /\ NrBlockGroups(super) > 0)
    OBVIOUS
  <2> HIDE DEF t, u, c, group, g
  <2>7. t \in ATree /\ (t.plain => c) /\ (t.plain => t = u)
    BY <2>3, <2>4, <2>5, AlsoIs
  <2>8. t.plain => g = 0 /\ 0 < NrBlockGroups(super)
    BY <1>1, <2>6, <2>7
  <2> QED BY <2>1, <2>6, <2>7, <2>8 DEF t, group, g
<1> QED BY <1>3, <1>4

LEMMA SystemTreeIs ==
  ASSUME NEW image \in DOMAIN Images, NEW start \in Nat
  PROVE  LET super == Images[image].sector[start + 2].super
             t == SystemTree(image, start)
         IN /\ t \in ATree
            /\ t.plain =>
                 /\ start + 3 < Sectors /\ super \in Systems
                 /\ t = IF super.size # 2 \/ NrBlockGroups(super) > MAX_NR_BLOCK_GROUPS THEN Leaf
                         ELSE GroupTree(image, start, super)
<1> DEFINE super == Images[image].sector[start + 2].super
           t == SystemTree(image, start)
           none == start + 3 >= Sectors \/ ~Divisible(super) \/ super.inodes < 2
           some == IF super.size # 2 \/ NrBlockGroups(super) > MAX_NR_BLOCK_GROUPS THEN Leaf
                   ELSE GroupTree(image, start, super)
<1>1. t = IF none THEN Lost ELSE some
  BY DEF SystemTree
<1>2. CASE none
  <2>1. t \in ATree /\ ~t.plain
    <3> HIDE DEF t, none
    <3> QED BY <1>1, <1>2, LeafIsTree DEF Lost
  <2> QED BY <2>1
<1>3. CASE ~none
  <2>1. start + 2 \in Nat /\ start + 2 < Sectors /\ start + 3 < Sectors
    BY <1>3, WordsAre DEF Positive
  <2>2. super \in Systems
    <3>1. Images[image].sector[start + 2] \in Views
      BY <2>1, ViewIs
    <3>2. super \in Superblock /\ Divisible(super)
      BY <1>3, <3>1, ViewFields
    <3> QED BY <3>2 DEF Systems
  <2>3. GroupTree(image, start, super) \in ATree
    <3> HIDE DEF super
    <3> QED BY <2>2, GroupTreeIs
  <2>4. some \in ATree
    BY <2>3, LeafIsTree
  <2>5. t = some
    BY <1>1, <1>3
  <2> QED BY <2>1, <2>2, <2>4, <2>5
<1> QED BY <1>2, <1>3

LEMMA PartitionTreeIs ==
  ASSUME NEW image \in DOMAIN Images, NEW p \in Partition
  PROVE  LET t == PartitionTree(image, p) IN
         /\ t \in ATree
         /\ t.plain => Placed(image, p) /\ p.lba + 3 < Sectors /\ t = SystemTree(image, p.lba)
<1> DEFINE u == SystemTree(image, p.lba)
           c == Placed(image, p)
           t == PartitionTree(image, p)
<1>1. p.lba \in Nat
  BY DEF Partition
<1>2. u \in ATree /\ (u.plain => p.lba + 3 < Sectors)
  <2> DEFINE start == p.lba
  <2> HIDE DEF start
  <2>1. SystemTree(image, start) \in ATree /\ (SystemTree(image, start).plain => start + 3 < Sectors)
    <3>1. start \in Nat
      BY <1>1 DEF start
    <3> QED BY <3>1, SystemTreeIs
  <2> QED BY <2>1 DEF start
<1>3. c \in BOOLEAN
  BY DEF Placed
<1>4. t = [u EXCEPT !.plain = @ /\ c]
  BY DEF PartitionTree
<1> HIDE DEF t, u, c
<1>5. t \in ATree /\ (t.plain => u.plain /\ c /\ t = u)
  BY <1>2, <1>3, <1>4, AlsoIs
<1> QED BY <1>2, <1>5 DEF t, u, c

\* The trees of the partitions of a drive.
TableTrees(image, table) ==
  [i \in DOMAIN table |-> IF table[i].linux THEN PartitionTree(image, table[i]) ELSE Leaf]

LEMMA DriveTreeIs ==
  ASSUME NEW image \in DOMAIN Images
  PROVE  LET table == Images[image].sector[0].table IN
         /\ table \in Seq(Partition)
         /\ DriveTree(image) = Joined(TableTrees(image, table))
         /\ TableTrees(image, table) \in Seq(ATree)
         /\ DriveTree(image) \in ATree
<1> DEFINE table == Images[image].sector[0].table
           R == Partition
           T == TableTrees(image, table)
<1>1. 0 \in Nat /\ 0 < Sectors
  BY DiskAssumption
<1>2. table \in Seq(R)
  BY <1>1, ViewIs, ViewFields
<1>3. DriveTree(image) = Joined(T)
  BY DEF DriveTree, TableTrees
<1> HIDE DEF table
<1>4. \A r \in R : (IF r.linux THEN PartitionTree(image, r) ELSE Leaf) \in ATree
  BY PartitionTreeIs, LeafIsTree
<1> HIDE DEF R
<1>5. DOMAIN table = 1 .. Len(table) /\ Len(table) \in Nat /\ \A i \in 1 .. Len(table) : table[i] \in R
  BY <1>2
<1>6. \A i \in 1 .. Len(table) : (IF table[i].linux THEN PartitionTree(image, table[i]) ELSE Leaf) \in ATree
  BY <1>4, <1>5
<1>7. T \in Seq(ATree)
  BY <1>5, <1>6 DEF TableTrees
<1> HIDE DEF T
<1>8. Joined(T) \in ATree
  BY <1>7, JoinedIsTree
<1> QED BY <1>2, <1>3, <1>7, <1>8 DEF table, R, T

\* What a call has under it: all that it reports, with the calls that it makes.
Under(image, call) ==
  CASE call.do = "table"  -> DriveTree(image)
    [] call.do = "super"  -> SystemTree(image, call.first)
    [] call.do = "groups" -> IF call.super.size # 2 THEN Leaf
                             ELSE GroupTree(image, call.first, call.super)
    [] call.do = "root"   -> IF call.super.size # 2 THEN Leaf
                             ELSE IF RootGroup(call.super) # 0 THEN Lost
                             ELSE InodeTree(image, call.first, call.super, call.table)
    [] call.do = "block"  -> IF call.size # 2 THEN Leaf
                             ELSE BlockTrees(image, call.first)[call.level][call.block]

\* The same for the calls of a stack: each of them, and all together.
UnderEach(image, calls) == [i \in DOMAIN calls |-> Under(image, calls[i])]
Unders(image, calls) == Joined(UnderEach(image, calls))

LEMMA UnderIs ==
  ASSUME NEW image \in DOMAIN Images, NEW call \in Calls
  PROVE  Under(image, call) \in ATree
<1>1. CASE call.do = "table"
  <2>1. DriveTree(image) \in ATree
    BY DriveTreeIs
  <2> QED BY <1>1, <2>1 DEF Under
<1>2. CASE call.do = "super"
  <2>1. call.first \in Nat
    BY <1>2, Kinds
  <2>2. SystemTree(image, call.first) \in ATree
    BY <2>1, SystemTreeIs
  <2> QED BY <1>2, <2>2 DEF Under
<1>3. CASE call.do = "groups"
  <2>1. call.first \in Nat /\ call.super \in Systems
    BY <1>3, Kinds
  <2>2. GroupTree(image, call.first, call.super) \in ATree
    <3> DEFINE super == call.super
               start == call.first
    <3>1. super \in Systems /\ start \in Nat
      BY <2>1
    <3> HIDE DEF super, start
    <3>2. GroupTree(image, start, super) \in ATree
      BY <3>1, GroupTreeIs
    <3> QED BY <3>2 DEF super, start
  <2> QED BY <1>3, <2>2, LeafIsTree DEF Under
<1>4. CASE call.do = "root"
  <2>1. call.first \in Nat /\ call.super \in Systems /\ call.table \in Nat
    BY <1>4, Kinds
  <2>2. InodeTree(image, call.first, call.super, call.table) \in ATree
    <3> DEFINE super == call.super
               start == call.first
               table == call.table
    <3>1. super \in Systems /\ start \in Nat /\ table \in Nat
      BY <2>1
    <3> HIDE DEF super, start, table
    <3>2. InodeTree(image, start, super, table) \in ATree
      BY <3>1, InodeTreeIs
    <3> QED BY <3>2 DEF super, start, table
  <2> QED BY <1>4, <2>2, LeafIsTree DEF Under
<1>5. CASE call.do = "block"
  <2>1. call.first \in Nat /\ call.block \in Nat /\ call.level \in 0 .. 3
    BY <1>5, Kinds DEF Positive
  <2> DEFINE trees == BlockTrees(image, call.first)
  <2>2. trees \in [0 .. 3 -> [Nat -> ATree]]
    BY <2>1, BlockTreesAre
  <2> HIDE DEF trees
  <2>3. trees[call.level] \in [Nat -> ATree]
    BY <2>1, <2>2
  <2>4. trees[call.level][call.block] \in ATree
    BY <2>1, <2>3
  <2> QED BY <1>5, <2>4, LeafIsTree DEF Under, trees
<1> QED BY <1>1, <1>2, <1>3, <1>4, <1>5, Kinds

LEMMA UnderEachIs ==
  ASSUME NEW image \in DOMAIN Images, NEW calls \in Seq(Calls)
  PROVE  /\ UnderEach(image, calls) \in Seq(ATree) /\ Len(UnderEach(image, calls)) = Len(calls)
         /\ UnderEach(image, calls) = [i \in 1 .. Len(calls) |-> Under(image, calls[i])]
         /\ Unders(image, calls) = Joined(UnderEach(image, calls))
         /\ Unders(image, calls) \in ATree
<1>1. DOMAIN calls = 1 .. Len(calls) /\ Len(calls) \in Nat /\ \A i \in 1 .. Len(calls) : calls[i] \in Calls
  OBVIOUS
<1>2. \A i \in 1 .. Len(calls) : Under(image, calls[i]) \in ATree
  BY <1>1, UnderIs
<1>3. UnderEach(image, calls) = [i \in 1 .. Len(calls) |-> Under(image, calls[i])]
  BY <1>1 DEF UnderEach
<1>4. UnderEach(image, calls) \in Seq(ATree) /\ Len(UnderEach(image, calls)) = Len(calls)
  BY <1>1, <1>2, <1>3
<1>5. Unders(image, calls) = Joined(UnderEach(image, calls))
  BY DEF Unders, UnderEach
<1> QED BY <1>3, <1>4, <1>5, JoinedIsTree

LEMMA UndersNone ==
  ASSUME NEW image
  PROVE  Unders(image, <<>>) = Leaf
<1>1. [i \in DOMAIN <<>> |-> Under(image, <<>>[i])] = <<>>
  OBVIOUS
<1> QED BY <1>1, JoinedNone DEF Unders, UnderEach

LEMMA UndersOne ==
  ASSUME NEW image \in DOMAIN Images, NEW call \in Calls
  PROVE  Unders(image, <<call>>) = Under(image, call)
<1>1. [i \in DOMAIN <<call>> |-> Under(image, <<call>>[i])] = <<Under(image, call)>>
  OBVIOUS
<1>2. Joined(<<Under(image, call)>>) = Under(image, call)
  BY UnderIs, JoinedOne
<1> QED BY <1>1, <1>2 DEF Unders, UnderEach

LEMMA UndersBoth ==
  ASSUME NEW image \in DOMAIN Images, NEW c \in Seq(Calls), NEW d \in Seq(Calls)
  PROVE  /\ Unders(image, c \o d).names = Unders(image, c).names \o Unders(image, d).names
         /\ Unders(image, c \o d).plain <=> Unders(image, c).plain /\ Unders(image, d).plain
<1> DEFINE e == c \o d
           s == UnderEach(image, c)
           t == UnderEach(image, d)
           u == UnderEach(image, e)
<1>1. /\ e \in Seq(Calls) /\ Len(e) = Len(c) + Len(d) /\ Len(c) \in Nat /\ Len(d) \in Nat
      /\ e = [i \in 1 .. Len(c) + Len(d) |-> IF i <= Len(c) THEN c[i] ELSE d[i - Len(c)]]
  BY ConcatIs
<1> HIDE DEF e
<1>2. /\ s \in Seq(ATree) /\ Len(s) = Len(c) /\ s = [i \in 1 .. Len(c) |-> Under(image, c[i])]
      /\ t \in Seq(ATree) /\ Len(t) = Len(d) /\ t = [i \in 1 .. Len(d) |-> Under(image, d[i])]
      /\ u \in Seq(ATree) /\ Len(u) = Len(e) /\ u = [i \in 1 .. Len(e) |-> Under(image, e[i])]
      /\ Unders(image, c) = Joined(s) /\ Unders(image, d) = Joined(t) /\ Unders(image, e) = Joined(u)
  BY <1>1, UnderEachIs
<1> HIDE DEF s, t, u
<1>3. u = s \o t
  <2>1. s \o t = [i \in 1 .. Len(c) + Len(d) |-> IF i <= Len(c) THEN s[i] ELSE t[i - Len(c)]]
    BY <1>2, ConcatIs
  <2>2. ASSUME NEW i \in 1 .. Len(c) + Len(d)
        PROVE  Under(image, e[i]) = IF i <= Len(c) THEN s[i] ELSE t[i - Len(c)]
    <3>1. CASE i <= Len(c)
      <4>1. i \in 1 .. Len(c) /\ e[i] = c[i]
        BY <1>1, <3>1
      <4> QED BY <1>2, <3>1, <4>1
    <3>2. CASE ~(i <= Len(c))
      <4>1. i - Len(c) \in 1 .. Len(d) /\ e[i] = d[i - Len(c)]
        BY <1>1, <3>2
      <4> QED BY <1>2, <3>2, <4>1
    <3> QED BY <3>1, <3>2
  <2> QED BY <1>1, <1>2, <2>1, <2>2
<1>4. /\ Joined(s \o t).names = Joined(s).names \o Joined(t).names
      /\ Joined(s \o t).plain <=> Joined(s).plain /\ Joined(t).plain
  BY <1>2, JoinedBoth
<1> QED BY <1>2, <1>3, <1>4 DEF e
-----------------------------------------------------------------------------
(***************************************************************************)
(* What a call has under it is what it reports, and what the calls it      *)
(* makes have under them                                                   *)
(***************************************************************************)
\* A partition that is plain starts where the driver takes it to start.
LEMMA TableUnder ==
  ASSUME NEW image \in DOMAIN Images, DriveTree(image).plain
  PROVE  Unders(image, Partitions(Images[image].geometry, Images[image].sector[0].table)) = DriveTree(image)
<1> DEFINE table == Images[image].sector[0].table
           geo == Images[image].geometry
           N == Len(table)
           T == TableTrees(image, table)
           super(i) == [do |-> "super", first |-> chs2lba(geo, table[i])]
           part(n) == [i \in 1 .. n |-> T[i]]
<1>0. geo \in Geometries
  BY DiskAssumption
<1>1. /\ table \in Seq(Partition) /\ T \in Seq(ATree)
      /\ DriveTree(image) = Joined(T)
  BY DriveTreeIs
<1>2. PICK g : /\ g[0] = <<>>
               /\ \A i \in 1 .. N : g[i] = IF table[i].linux THEN Append(g[i - 1], super(i)) ELSE g[i - 1]
               /\ \A i \in 0 .. N : g[i] \in Seq(Calls)
               /\ \A i \in 1 .. N : super(i) \in Calls
               /\ Partitions(geo, table) = g[N]
  <2> HIDE DEF table, geo
  <2> QED BY <1>0, <1>1, PartitionsGrow
<1>3. /\ N \in Nat /\ Len(T) = N
      /\ \A i \in 1 .. N : /\ table[i] \in Partition
                            /\ T[i] = IF table[i].linux THEN PartitionTree(image, table[i]) ELSE Leaf
  <2> HIDE DEF table
  <2>1. DOMAIN table = 1 .. N /\ N \in Nat
    BY <1>1
  <2>2. T = [i \in 1 .. N |-> IF table[i].linux THEN PartitionTree(image, table[i]) ELSE Leaf]
    BY <2>1 DEF TableTrees
  <2> QED BY <1>1, <2>1, <2>2
<1>4. \A i \in 1 .. N : Under(image, super(i)) = SystemTree(image, chs2lba(geo, table[i]))
  BY DEF Under
<1>5. \A i \in 1 .. N : T[i] \in ATree
  <2> HIDE DEF T, N
  <2> QED BY <1>1, <1>3
<1>11. \A i \in 1 .. N : table[i].linux => T[i] = SystemTree(image, chs2lba(geo, table[i]))
  <2> SUFFICES ASSUME NEW i \in 1 .. N, table[i].linux
               PROVE  T[i] = SystemTree(image, chs2lba(geo, table[i]))
    OBVIOUS
  <2>1. T[i].plain
    <3> HIDE DEF T, N
    <3>1. Joined(T).plain
      BY <1>1
    <3>2. \A k \in DOMAIN T : T[k].plain
      BY <3>1, JoinedFields
    <3>3. DOMAIN T = 1 .. N
      BY <1>1, <1>3
    <3> QED BY <3>2, <3>3
  <2> DEFINE q == table[i]
  <2>2. q \in Partition /\ T[i] = PartitionTree(image, q)
    BY <1>3
  <2> HIDE DEF q, T, table
  <2>3. Placed(image, q) /\ q.lba + 3 < Sectors /\ T[i] = SystemTree(image, q.lba)
    BY <2>1, <2>2, PartitionTreeIs
  <2>4. q.lba < Sectors
    BY <2>2, <2>3, WordsAre DEF Partition, Positive
  <2>5. q.lba + 1 = (q.cylinder * geo.heads + q.head) * geo.sectors + q.sector
    BY <2>3 DEF Placed
  <2> HIDE DEF geo
  <2>6. chs2lba(geo, q) = q.lba
    BY <1>0, <2>2, <2>4, <2>5, PlaceIs
  <2> QED BY <2>3, <2>6 DEF q
<1> HIDE DEF table, N, T, super, geo
<1> DEFINE Q == {n \in Nat : n <= N => Unders(image, g[n]) = Joined(part(n))}
<1>6. 0 \in Q
  <2>1. part(0) = <<>>
    OBVIOUS
  <2>2. Unders(image, g[0]) = Leaf
    BY <1>2, UndersNone
  <2> QED BY <2>1, <2>2, JoinedNone
<1>7. \A n \in Q : n + 1 \in Q
  <2> SUFFICES ASSUME NEW n \in Q PROVE n + 1 \in Q
    OBVIOUS
  <2>0. n \in Nat /\ n + 1 \in Nat
    OBVIOUS
  <2> SUFFICES ASSUME n + 1 <= N PROVE Unders(image, g[n + 1]) = Joined(part(n + 1))
    BY <2>0
  <2> DEFINE m == n + 1
  <2>1. m \in 1 .. N /\ m - 1 = n /\ n \in 0 .. N /\ m \in 0 .. N /\ \A i \in 1 .. n : i \in 1 .. N
    BY <1>3, <2>0
  <2>2. Unders(image, g[n]) = Joined(part(n))
    BY <2>1
  <2>3. part(n) \in Seq(ATree) /\ part(m) \in Seq(ATree) /\ part(m) = part(n) \o <<T[m]>>
    BY <1>5, <2>0, <2>1
  <2> DEFINE few == part(n)
             all == part(m)
             one == <<T[m]>>
  <2>4. one \in Seq(ATree) /\ Joined(one) = T[m]
    BY <1>5, <2>1, JoinedOne
  <2>5. /\ Joined(all).names = Joined(few).names \o T[m].names
        /\ Joined(all).plain <=> Joined(few).plain /\ T[m].plain
        /\ Joined(all) \in ATree
    <3>1. all = few \o one /\ few \in Seq(ATree) /\ all \in Seq(ATree)
      BY <2>3
    <3> HIDE DEF few, all, one
    <3>2. /\ Joined(all).names = Joined(few).names \o Joined(one).names
          /\ Joined(all).plain <=> Joined(few).plain /\ Joined(one).plain
      BY <2>4, <3>1, JoinedBoth
    <3>3. Joined(all) \in ATree
      BY <3>1, JoinedIsTree
    <3> QED BY <2>4, <3>2, <3>3
  <2> HIDE DEF few, all, one, part, m
  <2>6. Joined(few) \in ATree /\ Unders(image, g[n]) = Joined(few)
    BY <2>2, <2>3, JoinedIsTree DEF few
  <2>7. g[n] \in Seq(Calls) /\ g[m] = IF table[m].linux THEN Append(g[n], super(m)) ELSE g[n]
    BY <1>2, <2>1
  <2>8. CASE table[m].linux
    <3>1. super(m) \in Calls /\ Under(image, super(m)) = T[m]
      BY <1>2, <1>4, <1>11, <2>1, <2>8
    <3>2. g[m] = g[n] \o <<super(m)>> /\ <<super(m)>> \in Seq(Calls)
      BY <2>7, <2>8, <3>1
    <3>3. Unders(image, <<super(m)>>) = T[m]
      BY <3>1, UndersOne
    <3>4. /\ Unders(image, g[m]).names = Unders(image, g[n]).names \o T[m].names
          /\ Unders(image, g[m]).plain <=> Unders(image, g[n]).plain /\ T[m].plain
      <4> DEFINE last == <<super(m)>>
      <4>1. last \in Seq(Calls) /\ g[m] = g[n] \o last /\ Unders(image, last) = T[m]
        BY <3>2, <3>3
      <4> HIDE DEF last
      <4>2. /\ Unders(image, g[n] \o last).names = Unders(image, g[n]).names \o Unders(image, last).names
            /\ Unders(image, g[n] \o last).plain <=> Unders(image, g[n]).plain /\ Unders(image, last).plain
        BY <2>7, <4>1, UndersBoth
      <4> QED BY <4>1, <4>2
    <3>5. g[m] \in Seq(Calls)
      BY <1>2, <2>1
    <3>6. Unders(image, g[m]) \in ATree
      BY <3>5, UnderEachIs
    <3>7. Unders(image, g[m]).names = Joined(all).names /\ Unders(image, g[m]).plain = Joined(all).plain
      BY <2>5, <2>6, <3>4, <3>6, TreeFields
    <3>8. Unders(image, g[m]) = Joined(all)
      BY <2>5, <3>6, <3>7, TreeFields
    <3> QED BY <3>8 DEF all, m
  <2>9. CASE ~table[m].linux
    <3>1. T[m] = Leaf /\ Leaf.names = <<>> /\ Leaf.plain = TRUE
      BY <1>3, <2>1, <2>9 DEF Leaf
    <3>2. Joined(few).names \o <<>> = Joined(few).names
      BY <2>6, TreeFields
    <3>3. Joined(all).names = Joined(few).names /\ Joined(all).plain = Joined(few).plain
      BY <2>5, <2>6, <3>1, <3>2, TreeFields
    <3>4. Joined(all) = Joined(few)
      BY <2>5, <2>6, <3>3, TreeFields
    <3> QED BY <2>6, <2>7, <2>9, <3>4 DEF all, m
  <2> QED BY <2>8, <2>9
<1>8. Q = Nat
  <2> HIDE DEF Q
  <2>1. Q \in SUBSET Nat
    BY DEF Q
  <2> QED BY <1>6, <1>7, <2>1, SetInduction
<1>9. Unders(image, g[N]) = Joined(part(N))
  <2>1. N \in Q
    <3> HIDE DEF Q
    <3> QED BY <1>3, <1>8
  <2> QED BY <1>3, <2>1
<1>10. part(N) = T
  BY <1>1, <1>3
<1> HIDE DEF part
<1> QED BY <1>1, <1>2, <1>9, <1>10 DEF table, geo

LEMMA SuperUnder ==
  ASSUME NEW image \in DOMAIN Images, NEW call \in Calls, call.do = "super", Under(image, call).plain
  PROVE  /\ call.first + 3 < Sectors
         /\ Unders(image, Groups(call, Images[image].sector[call.first + 2].super)) = Under(image, call)
<1> DEFINE super == Images[image].sector[call.first + 2].super
           next == [do |-> "groups", first |-> call.first, super |-> super]
<1>1. call.first \in Nat
  BY Kinds
<1>2. Under(image, call) = SystemTree(image, call.first)
  BY DEF Under
<1>3. /\ call.first + 3 < Sectors /\ super \in Systems
      /\ Under(image, call) = IF super.size # 2 \/ NrBlockGroups(super) > MAX_NR_BLOCK_GROUPS THEN Leaf
                              ELSE GroupTree(image, call.first, super)
  <2> DEFINE start == call.first
  <2>1. start \in Nat /\ SystemTree(image, start).plain /\ Under(image, call) = SystemTree(image, start)
    BY <1>1, <1>2
  <2> HIDE DEF start
  <2>2. LET top == Images[image].sector[start + 2].super IN
        /\ start + 3 < Sectors /\ top \in Systems
        /\ SystemTree(image, start) =
             IF top.size # 2 \/ NrBlockGroups(top) > MAX_NR_BLOCK_GROUPS THEN Leaf
             ELSE GroupTree(image, start, top)
    BY <2>1, SystemTreeIs
  <2> QED BY <2>1, <2>2 DEF start
<1> HIDE DEF super
<1>4. next \in Calls
  BY <1>1, <1>3 DEF Calls
<1>5. Under(image, next) = IF super.size # 2 THEN Leaf ELSE GroupTree(image, call.first, super)
  BY DEF Under
<1>6. CASE NrBlockGroups(super) > MAX_NR_BLOCK_GROUPS
  <2>1. Groups(call, super) = <<>>
    BY <1>6 DEF Groups
  <2> QED BY <1>3, <1>6, <2>1, UndersNone DEF super
<1>7. CASE ~(NrBlockGroups(super) > MAX_NR_BLOCK_GROUPS)
  <2>1. Groups(call, super) = <<next>>
    BY <1>7 DEF Groups
  <2> HIDE DEF next
  <2>2. Unders(image, <<next>>) = Under(image, next)
    BY <1>4, UndersOne
  <2> QED BY <1>3, <1>5, <1>7, <2>1, <2>2 DEF super
<1> QED BY <1>6, <1>7

\* The first descriptor, if it is counted.
LEMMA GroupsUnder ==
  ASSUME NEW image \in DOMAIN Images, NEW call \in Calls, call.do = "groups",
         NEW group \in [0 .. MAX_NR_BLOCK_GROUPS - 1 -> Nat], Under(image, call).plain,
         call.super.size = 2 => group = Images[image].sector[call.first + 4].group
  PROVE  Unders(image, Root(call, group)) = Under(image, call)
<1> DEFINE super == call.super
           start == call.first
           g == RootGroup(super)
           table == IF g < NrBlockGroups(super) THEN group[g] ELSE 0
           next == [do |-> "root", first |-> start, super |-> super, table |-> table]
<1>1. start \in Nat /\ super \in Systems
  BY Kinds
<1>2. Under(image, call) = IF super.size # 2 THEN Leaf ELSE GroupTree(image, start, super)
  BY DEF Under
<1>3. Root(call, group) = <<next>>
  BY DEF Root
<1>4. super.size = 2 => group = Images[image].sector[start + 4].group
  OBVIOUS
<1> HIDE DEF super, start
<1>5. table \in Nat
  <2>1. group[g] \in Nat
    BY <1>1, SystemIs
  <2> QED BY <2>1
<1>6. super.size = 2 => g = 0 /\ Under(image, call) = InodeTree(image, start, super, table)
  <2> SUFFICES ASSUME super.size = 2
               PROVE  g = 0 /\ Under(image, call) = InodeTree(image, start, super, table)
    OBVIOUS
  <2>1. Under(image, call) = GroupTree(image, start, super) /\ GroupTree(image, start, super).plain
    BY <1>2
  <2>2. LET one == Images[image].sector[start + 4].group IN
        /\ RootGroup(super) = 0 /\ 0 < NrBlockGroups(super)
        /\ GroupTree(image, start, super) = InodeTree(image, start, super, one[0])
    BY <1>1, <2>1, GroupTreeIs
  <2> QED BY <1>4, <2>1, <2>2
<1> HIDE DEF table
<1>7. next \in Calls
  BY <1>1, <1>5 DEF Calls
<1>8. Under(image, next) = IF super.size # 2 THEN Leaf ELSE IF g # 0 THEN Lost
                           ELSE InodeTree(image, start, super, table)
  BY DEF Under
<1> HIDE DEF next, g
<1>9. Unders(image, <<next>>) = Under(image, next)
  BY <1>7, UndersOne
<1>10. Under(image, next) = Under(image, call)
  BY <1>2, <1>6, <1>8
<1>11. Root(call, group) = <<next>>
  BY <1>3 DEF next, table, g, super, start
<1> QED BY <1>9, <1>10, <1>11

\* The blocks of an inode: nothing if they are not of 1024 bytes.
LEMMA InodeUnder ==
  ASSUME NEW image \in DOMAIN Images, NEW call, call.first \in Nat, BlockSize(call) \in Nat,
         NEW inode, inode.direct \in Seq(Nat), inode.indirect \in [1 .. 3 -> Nat]
  PROVE  Unders(image, DirectoryBlocks(call, inode)) =
           IF BlockSize(call) # 2 THEN Leaf ELSE Joined(InodeTrees(image, call.first, inode))
<1> DEFINE pointers == UpToZero(inode.direct \o inode.indirect)
           trees == BlockTrees(image, call.first)
           calls == DirectoryBlocks(call, inode)
<1>1. /\ pointers \in Seq(Positive) /\ \A i \in DOMAIN pointers : Level(inode, i) \in 0 .. 3
      /\ calls = [i \in DOMAIN pointers |-> Block(call, pointers[i], Level(inode, i))]
  BY DirectoryBlocksAre
<1>2. InodeTrees(image, call.first, inode) =
        [i \in DOMAIN pointers |-> trees[Level(inode, i)][pointers[i]]]
  BY DEF InodeTrees
<1> HIDE DEF pointers
<1>3. \A i \in DOMAIN pointers :
        Under(image, calls[i]) = IF BlockSize(call) # 2 THEN Leaf ELSE trees[Level(inode, i)][pointers[i]]
  <2> TAKE i \in DOMAIN pointers
  <2>1. calls[i] = Block(call, pointers[i], Level(inode, i))
    BY <1>1
  <2> DEFINE next == calls[i]
  <2> HIDE DEF next, calls
  <2>2. /\ next.do = "block" /\ next.first = call.first /\ next.size = BlockSize(call)
        /\ next.block = pointers[i] /\ next.level = Level(inode, i)
    BY <2>1 DEF Block, next
  <2>3. Under(image, next) = IF BlockSize(call) # 2 THEN Leaf ELSE trees[Level(inode, i)][pointers[i]]
    BY <2>2 DEF Under
  <2> QED BY <2>3 DEF next
<1>4. DOMAIN calls = DOMAIN pointers
  BY <1>1
<1>5. Unders(image, calls) = Joined([i \in DOMAIN pointers |-> Under(image, calls[i])])
  BY <1>4 DEF Unders, UnderEach
<1> HIDE DEF calls, trees
<1>6. CASE BlockSize(call) # 2
  <2>1. DOMAIN pointers = 1 .. Len(pointers) /\ Len(pointers) \in Nat
    BY <1>1
  <2>2. [i \in DOMAIN pointers |-> Under(image, calls[i])] = [i \in 1 .. Len(pointers) |-> Leaf]
    BY <1>3, <1>6, <2>1
  <2> QED BY <1>5, <1>6, <2>1, <2>2, JoinedLeaves DEF calls
<1>7. CASE BlockSize(call) = 2
  <2>1. [i \in DOMAIN pointers |-> Under(image, calls[i])] = InodeTrees(image, call.first, inode)
    BY <1>2, <1>3, <1>7
  <2> QED BY <1>5, <1>7, <2>1 DEF calls
<1> QED BY <1>6, <1>7

LEMMA RootUnder ==
  ASSUME NEW image \in DOMAIN Images, NEW call \in Calls, call.do = "root",
         NEW inode, inode.direct \in Seq(Nat), inode.indirect \in [1 .. 3 -> Nat],
         Under(image, call).plain,
         call.super.size = 2 =>
           LET s == call.first + 2 * call.table + RootOffset(call.super) \div SECTOR
           IN inode = Images[image].sector[s].inode[RootOffset(call.super) % SECTOR]
  PROVE  /\ Unders(image, Inode(call, inode)).plain
         /\ Unders(image, Inode(call, inode)).names = Under(image, call).names
<1> DEFINE start == call.first
           super == call.super
           table == call.table
           s == start + 2 * table + RootOffset(super) \div SECTOR
<1>1. start \in Nat /\ super \in Systems /\ table \in Nat /\ super.size \in Nat
  BY Kinds, SystemIs
<1>2. super.size = 2 => /\ Under(image, call) = InodeTree(image, start, super, table)
                        /\ inode = Images[image].sector[s].inode[RootOffset(super) % SECTOR]
  <2> SUFFICES ASSUME super.size = 2
               PROVE  /\ Under(image, call) = InodeTree(image, start, super, table)
                      /\ inode = Images[image].sector[s].inode[RootOffset(super) % SECTOR]
    OBVIOUS
  <2>1. Under(image, call) = IF RootGroup(super) # 0 THEN Lost ELSE InodeTree(image, start, super, table)
    BY DEF Under
  <2>2. ~Lost.plain
    BY DEF Lost
  <2> QED BY <2>1, <2>2
<1>3. super.size # 2 => Under(image, call) = Leaf
  BY DEF Under
<1> DEFINE trees == InodeTrees(image, start, inode)
<1>4. Unders(image, DirectoryBlocks(call, inode)) = IF super.size # 2 THEN Leaf ELSE Joined(trees)
  <2>1. BlockSize(call) = super.size
    BY DEF BlockSize
  <2> QED BY <1>1, <2>1, InodeUnder
<1> HIDE DEF start, super, table
<1>5. super.size = 2 =>
        /\ inode.directory => Joined(trees).plain
        /\ Under(image, call).names = IF inode.directory THEN Joined(trees).names ELSE <<>>
  <2> SUFFICES ASSUME super.size = 2
               PROVE  /\ inode.directory => Joined(trees).plain
                      /\ Under(image, call).names = IF inode.directory THEN Joined(trees).names ELSE <<>>
    OBVIOUS
  <2> DEFINE other == Images[image].sector[s].inode[RootOffset(super) % SECTOR]
             t == InodeTree(image, start, super, table)
  <2>1. other = inode /\ t = Under(image, call) /\ t.plain
    BY <1>2
  <2>2. /\ t.plain => /\ s < Sectors /\ ~((RootOffset(super) % SECTOR) + INODE > SECTOR)
                      /\ other.directory => Joined(InodeTrees(image, start, other)).plain
        /\ s < Sectors /\ ~((RootOffset(super) % SECTOR) + INODE > SECTOR) =>
             t.names = IF other.directory THEN Joined(InodeTrees(image, start, other)).names ELSE <<>>
    BY <1>1, InodeTreeIs
  <2> HIDE DEF s, t, other, trees
  <2> QED BY <2>1, <2>2 DEF trees
<1>6. Leaf.names = <<>> /\ Leaf.plain = TRUE
  BY DEF Leaf
<1> HIDE DEF trees, s
<1>7. CASE ~inode.directory
  <2>1. Inode(call, inode) = <<>>
    BY <1>7 DEF Inode
  <2>2. Under(image, call).names = <<>>
    BY <1>3, <1>5, <1>6, <1>7
  <2> QED BY <1>6, <2>1, <2>2, UndersNone
<1>8. CASE inode.directory
  <2>1. Inode(call, inode) = DirectoryBlocks(call, inode)
    BY <1>8 DEF Inode
  <2> QED BY <1>3, <1>4, <1>5, <1>6, <1>8, <2>1
<1> QED BY <1>7, <1>8

\* A block of pointers: the first half, read twice, ends with its first zero.
LEMMA PointersUnder ==
  ASSUME NEW image \in DOMAIN Images, NEW call \in Calls, call.do = "block", call.size = 2,
         call.level # 0, Under(image, call).plain
  PROVE  LET s == call.first + 2 * call.block
             half == Images[image].sector[s].pointers
             calls == Blocks(call, UpToZero(half \o half), call.level - 1)
         IN /\ Unders(image, calls).plain
            /\ Unders(image, calls).names = Under(image, call).names
<1> DEFINE s == call.first + 2 * call.block
           half(i) == Images[image].sector[s + i].pointers
           trees == BlockTrees(image, call.first)
           below == trees[call.level - 1]
           pointers == UpToZero(half(0) \o half(1))
           twice == UpToZero(half(0) \o half(0))
           calls == Blocks(call, twice, call.level - 1)
           under == Pointed(below, pointers)
<1>1. /\ call.first \in Nat /\ call.block \in Nat /\ call.level \in 1 .. 3 /\ call.level \in 0 .. 3
      /\ call.level - 1 \in 0 .. 3 /\ Sectors \in Nat
  <2>1. call.first \in Nat /\ call.block \in Positive /\ call.level \in 0 .. 3 /\ Sectors \in Nat
    BY Kinds, DiskAssumption
  <2> QED BY <2>1 DEF Positive
<1>2. /\ trees[call.level] = PointerTrees(image, call.first, below)
      /\ below \in [Nat -> ATree]
  <2>1. /\ trees \in [0 .. 3 -> [Nat -> ATree]]
        /\ \A level \in 1 .. 3 : trees[level] = PointerTrees(image, call.first, trees[level - 1])
    BY <1>1, BlockTreesAre
  <2> HIDE DEF trees
  <2> QED BY <1>1, <2>1
<1>3. Under(image, call) = trees[call.level][call.block]
  BY DEF Under
<1>4. s \in Nat /\ s + 0 = s /\ s + 1 \in Nat
  BY <1>1
<1> HIDE DEF trees, below
<1>5. /\ s + 1 < Sectors /\ Zeros(half(0)) # {} /\ Joined(under).plain
      /\ Under(image, call).names = Joined(under).names
  <2> DEFINE start == call.first
             b == call.block
             t == PointerTrees(image, start, below)[b]
             left == Images[image].sector[start + 2 * b + 0].pointers
             right == Images[image].sector[start + 2 * b + 1].pointers
             p == UpToZero(left \o right)
             tree == Joined(Pointed(below, p))
  <2>1. start \in Nat /\ b \in Nat
    BY <1>1
  <2>2. t = Under(image, call)
    BY <1>2, <1>3
  <2>3. left = half(0) /\ right = half(1) /\ p = pointers /\ tree = Joined(under)
    OBVIOUS
  <2> HIDE DEF start, b
  <2>4. /\ t.plain => start + 2 * b + 1 < Sectors /\ Zeros(left) # {} /\ tree.plain
        /\ start + 2 * b + 1 < Sectors => t.names = tree.names
    BY <1>2, <2>1, PointerTree
  <2> HIDE DEF t, left, right, p, tree, half, pointers, under
  <2> QED BY <2>2, <2>3, <2>4 DEF start, b
<1>6. half(0) \in Seq(Nat) /\ half(1) \in Seq(Nat) /\ half(0) = Images[image].sector[s].pointers
  <2> HIDE DEF s
  <2>1. s < Sectors
    BY <1>1, <1>4, <1>5
  <2>2. Images[image].sector[s] \in Views
    BY <1>4, <2>1, ViewIs
  <2>3. Images[image].sector[s + 1] \in Views
    BY <1>4, <1>5, ViewIs
  <2> QED BY <1>4, <2>2, <2>3, ViewFields
<1> HIDE DEF half
<1>7. twice = pointers
  BY <1>5, <1>6, UpToZeroOfBoth
<1>8. pointers \in Seq(Positive)
  <2>1. half(0) \o half(1) \in Seq(Nat)
    BY <1>6
  <2> QED BY <2>1, UpToZeroIs
<1> HIDE DEF pointers, twice
<1>9. calls = [i \in DOMAIN pointers |-> Block(call, pointers[i], call.level - 1)]
  BY <1>7 DEF Blocks
<1>10. \A i \in DOMAIN pointers : Under(image, calls[i]) = below[pointers[i]]
  <2> TAKE i \in DOMAIN pointers
  <2>1. calls[i] = Block(call, pointers[i], call.level - 1)
    BY <1>9
  <2> DEFINE next == calls[i]
  <2> HIDE DEF next, calls
  <2>2. /\ next.do = "block" /\ next.first = call.first /\ next.size = 2
        /\ next.block = pointers[i] /\ next.level = call.level - 1
    BY <2>1 DEF Block, BlockSize, next
  <2>3. Under(image, next) = below[pointers[i]]
    BY <2>2 DEF Under, below, trees
  <2> QED BY <2>3 DEF next
<1>11. DOMAIN calls = DOMAIN pointers
  BY <1>9
<1> HIDE DEF calls
<1>12. UnderEach(image, calls) = under
  BY <1>10, <1>11 DEF UnderEach, Pointed
<1>13. Unders(image, calls) = Joined(under)
  BY <1>12 DEF Unders
<1> HIDE DEF under
<1> QED BY <1>5, <1>6, <1>13 DEF calls, twice
\* What a call has read are the sectors of its drive that it wanted.
LEMMA WantedIsRead ==
  ASSUME DiskInv, pc = "work", NEW i \in DOMAIN got
  PROVE  LET n == Wants(Head(work))[i] IN
         /\ n \in Nat /\ n < Sectors /\ drives[c0] \in DOMAIN Images
         /\ Text(i) = Images[drives[c0]].sector[n]
<1>1. ch \in 1 .. 4 /\ controller[c0] = "ATA"
  BY FourChannels DEF DiskInv, Working, TypeOK
<1>2. c0 \in Channels
  BY <1>1, FourChannels DEF c0
<1>3. drives[c0] \notin Absent
  BY <1>1, <1>2 DEF DiskInv, FindsTheDrives
<1>4. drives \in [Channels -> DOMAIN Images \cup Absent]
  BY DiskAssumption DEF DiskInv, TypeOK
<1>5. drives[c0] \in DOMAIN Images
  BY <1>2, <1>3, <1>4
<1>6. got[i] = <<c0, Wants(Head(work))[i]>>
  BY DEF DiskInv, ReadsWhatItAsked
<1>7. got[i][2] \in 0 .. Sectors - 1
  <2> DEFINE A == 0 .. Sectors - 1
  <2>1. got \in Seq(Channels \X A)
    BY DEF DiskInv, TypeOK
  <2> HIDE DEF A
  <2>2. got[i] \in Channels \X A
    BY <2>1
  <2>3. got[i][2] \in A
    BY <2>2
  <2> QED BY <2>3 DEF A
<1>8. Sectors \in Nat
  BY DiskAssumption
<1>9. Text(i) = Images[drives[c0]].sector[Wants(Head(work))[i]]
  BY <1>6 DEF Text
<1>10. Wants(Head(work))[i] \in 0 .. Sectors - 1
  BY <1>6, <1>7
<1> QED BY <1>5, <1>8, <1>9, <1>10

\* The call at the top does its part of what is under it.
LEMMA CallIsUnder ==
  ASSUME DiskInv, pc = "work", work # <<>>, Len(got) = Len(Wants(Head(work))),
         ~Undefined(Head(work)),
         drives[c0] \in DOMAIN Images, Under(drives[c0], Head(work)).plain
  PROVE  /\ Reports(Head(work)) \in Seq(STRING)
         /\ Unders(drives[c0], Makes(Head(work))).plain
         /\ Under(drives[c0], Head(work)).names =
              Reports(Head(work)) \o Unders(drives[c0], Makes(Head(work))).names
<1> DEFINE call == Head(work)
           image == drives[c0]
           sector(n) == Images[image].sector[n]
<1>1. call \in Calls /\ Makes(call) \in Seq(Calls)
  BY MakesAreCalls DEF DiskInv, TypeOK
<1>2. DOMAIN got = 1 .. Len(Wants(call))
  BY DEF DiskInv, TypeOK
<1>3. \A i \in 1 .. Len(Wants(call)) :
        Wants(call)[i] \in Nat /\ Wants(call)[i] < Sectors /\ Text(i) = sector(Wants(call)[i])
  BY <1>2, WantedIsRead
<1>4. Under(image, call) \in ATree /\ Unders(image, Makes(call)) \in ATree
  BY <1>1, UnderIs, UnderEachIs
<1>5. Under(image, call).plain /\ Under(image, call).plain = TRUE
  BY <1>4, TreeFields
<1> HIDE DEF call, image
\* A call that reports nothing.
<1>6. ASSUME Reports(call) = <<>>, Unders(image, Makes(call)).plain,
             Unders(image, Makes(call)).names = Under(image, call).names
      PROVE  /\ Reports(call) \in Seq(STRING)
             /\ Under(image, call).names = Reports(call) \o Unders(image, Makes(call)).names
  <2>1. Under(image, call).names \in Seq(STRING)
    BY <1>4, TreeFields
  <2>2. <<>> \o Under(image, call).names = Under(image, call).names
    BY <2>1
  <2> QED BY <1>6, <2>2
<1>7. image \in DOMAIN Images
  BY DEF image
<1>8. CASE call.do = "table"
  <2>1. Reports(call) = <<>>
    BY <1>8 DEF Reports
  <2>2. Wants(call) = <<0>>
    BY <1>8 DEF Wants
  <2>3. Text(1) = Images[image].sector[0]
    BY <1>3, <2>2
  <2>4. geometry[c0] = Images[image].geometry
    <3>1. c0 \in Channels /\ controller[c0] = "ATA"
      BY AtChannel DEF DiskInv, Working
    <3> QED BY <3>1 DEF DiskInv, Measured, image
  <2>5. Makes(call) = Partitions(Images[image].geometry, Images[image].sector[0].table)
    BY <1>8, <2>3, <2>4 DEF Makes
  <2>6. Under(image, call) = DriveTree(image)
    BY <1>8 DEF Under
  <2>7. Unders(image, Makes(call)) = Under(image, call)
    BY <1>5, <1>7, <2>5, <2>6, TableUnder
  <2> QED BY <1>5, <1>6, <2>1, <2>7 DEF call, image
<1>9. CASE call.do = "super"
  <2>1. Reports(call) = <<>>
    BY <1>9 DEF Reports
  <2>2. /\ call.first + 3 < Sectors
        /\ Unders(image, Groups(call, Images[image].sector[call.first + 2].super)) = Under(image, call)
    BY <1>1, <1>5, <1>7, <1>9, SuperUnder
  <2>3. Text(1) = Images[image].sector[call.first + 2]
    <3> DEFINE n == call.first + 2
    <3>1. n \in Nat /\ n + 1 < Sectors /\ Wants(call) = Two(n)
      BY <1>1, <1>9, <2>2, Kinds DEF Wants
    <3> HIDE DEF n
    <3>2. Wants(call) = <<n, n + 1>>
      BY <3>1, TwoAre
    <3>3. Text(1) = sector(n)
      BY <1>3, <3>2
    <3> QED BY <3>3 DEF n
  <2>4. Makes(call) = Groups(call, Images[image].sector[call.first + 2].super)
    BY <1>9, <2>3 DEF Makes
  <2>5. Unders(image, Makes(call)) = Under(image, call)
    BY <2>2, <2>4
  <2> QED BY <1>5, <1>6, <2>1, <2>5 DEF call, image
<1>10. CASE call.do = "groups"
  <2>1. Reports(call) = <<>>
    BY <1>10 DEF Reports
  <2> DEFINE group == Text(1).group
  <2>2. call.first \in Nat /\ call.super \in Systems
    BY <1>1, <1>10, Kinds
  <2>3. group \in [0 .. MAX_NR_BLOCK_GROUPS - 1 -> Nat]
    <3> DEFINE n == Wants(call)[1]
    <3>1. Len(Wants(call)) = 2
      BY <1>10 DEF Wants, GroupTable, Two
    <3>2. n \in Nat /\ n < Sectors /\ Text(1) = sector(n)
      BY <1>3, <3>1
    <3> HIDE DEF n
    <3>3. sector(n) \in Views
      BY <1>7, <3>2, ViewIs
    <3> QED BY <3>2, <3>3, ViewFields
  <2>4. call.super.size = 2 => group = Images[image].sector[call.first + 4].group
    <3> SUFFICES ASSUME call.super.size = 2 PROVE Text(1) = sector(call.first + 4)
      OBVIOUS
    <3>1. call.first + 5 < Sectors
      <4> DEFINE super == call.super
                 start == call.first
      <4>1. Under(image, call) = GroupTree(image, start, super)
        BY <1>10 DEF Under
      <4>2. start \in Nat /\ super \in Systems /\ GroupTree(image, start, super).plain
        BY <1>5, <2>2, <4>1
      <4> HIDE DEF start, super
      <4>3. start + 5 < Sectors
        BY <1>7, <4>2, GroupTreeIs
      <4> QED BY <4>3 DEF start
    <3> DEFINE n == call.first + 4
    <3>2. n \in Nat /\ n + 1 < Sectors /\ Wants(call) = Two(n)
      BY <1>10, <2>2, <3>1, WordsAre DEF Wants, GroupTable, Positive
    <3> HIDE DEF n
    <3>3. Wants(call) = <<n, n + 1>>
      BY <3>2, TwoAre
    <3>4. Text(1) = sector(n)
      BY <1>3, <3>3
    <3> QED BY <3>4 DEF n
  <2>5. Makes(call) = Root(call, group)
    BY <1>10 DEF Makes
  <2> HIDE DEF group
  <2>6. Unders(image, Makes(call)) = Under(image, call)
    BY <1>1, <1>5, <1>7, <1>10, <2>3, <2>4, <2>5, GroupsUnder
  <2> QED BY <1>5, <1>6, <2>1, <2>6 DEF call, image
<1>11. CASE call.do = "root"
  <2>1. Reports(call) = <<>>
    BY <1>11 DEF Reports
  <2> DEFINE start == call.first
             super == call.super
             table == call.table
             o == RootOffset(super)
             s == start + 2 * table + o \div SECTOR
             inode == Text(1).inode[o % SECTOR]
             m == Wants(call)[1]
  <2>2. /\ start \in Nat /\ super \in Systems /\ table \in Nat
        /\ o \div SECTOR \in Nat /\ o % SECTOR \in 0 .. SECTOR - 1 /\ super.blocks_per_group \in Nat
    BY <1>1, <1>11, Kinds, SystemIs
  <2>3. Len(Wants(call)) = 1 /\ Wants(call) = <<m>>
    BY <1>11 DEF Wants, RootInode
  <2>4. Text(1) = sector(m) /\ m \in Nat /\ m < Sectors
    <3> HIDE DEF m
    <3> QED BY <1>3, <2>3
  <2>5. inode.direct \in Seq(Nat) /\ inode.indirect \in [1 .. 3 -> Nat]
    <3> HIDE DEF m, o
    <3>1. sector(m) \in Views
      BY <1>7, <2>4, ViewIs
    <3> QED BY <2>2, <2>4, <3>1, ViewFields
  <2>6. super.size = 2 => inode = Images[image].sector[s].inode[o % SECTOR]
    <3> SUFFICES ASSUME super.size = 2 PROVE m = s
      BY <2>4
    <3>1. RootGroup(super) = 0 /\ Under(image, call) = InodeTree(image, start, super, table)
      <4>1. Under(image, call) = IF RootGroup(super) # 0 THEN Lost ELSE InodeTree(image, start, super, table)
        BY <1>11 DEF Under
      <4>2. ~Lost.plain
        BY DEF Lost
      <4> QED BY <1>5, <4>1, <4>2
    <3>2. s < Span
      <4>1. InodeTree(image, start, super, table).plain
        BY <1>5, <3>1
      <4> HIDE DEF start, super, table
      <4> QED BY <1>7, <2>2, <4>1, InodeTreeIs
    <3> DEFINE k == o \div SECTOR
    <3>3. m = (start + (RootGroup(super) * super.blocks_per_group + table) * super.size + k) % Span
      BY <1>11 DEF Wants, RootInode
    <3> DEFINE per == super.blocks_per_group
    <3>4. start + (RootGroup(super) * per + table) * super.size + k = start + 2 * table + k
      <4> HIDE DEF start, table, k, per
      <4>1. RootGroup(super) * per = 0
        BY <2>2, <3>1 DEF per
      <4>2. (RootGroup(super) * per + table) * super.size = 2 * table
        BY <2>2, <4>1
      <4> QED BY <4>2
    <3>5. s \in Nat /\ Span \in Nat \ {0}
      <4>1. start \in Nat /\ table \in Nat /\ k \in Nat /\ s = start + 2 * table + k
        BY <2>2
      <4> HIDE DEF start, table, k, s
      <4> QED BY <4>1, WordsAre DEF Positive
    <3>6. s % Span = s
      <4> HIDE DEF s
      <4> QED BY <3>2, <3>5
    <3> QED BY <3>3, <3>4, <3>6
  <2>7. Makes(call) = Inode(call, inode)
    BY <1>11 DEF Makes
  <2>8. call.super.size = 2 =>
          LET sec == call.first + 2 * call.table + RootOffset(call.super) \div SECTOR
          IN inode = Images[image].sector[sec].inode[RootOffset(call.super) % SECTOR]
    BY <2>6
  <2> HIDE DEF inode
  <2>9. /\ Unders(image, Makes(call)).plain
        /\ Unders(image, Makes(call)).names = Under(image, call).names
    BY <1>1, <1>5, <1>7, <1>11, <2>5, <2>7, <2>8, RootUnder
  <2> QED BY <1>6, <2>1, <2>9 DEF call, image
<1>12. CASE call.do = "block" /\ call.size # 2
  <2>1. Reports(call) = <<>>
    BY <1>12 DEF Reports
  <2>2. Makes(call) = <<>>
    BY <1>12 DEF Makes, Indirect
  <2>3. Under(image, call) = Leaf
    BY <1>12 DEF Under
  <2>4. Unders(image, Makes(call)) = Under(image, call)
    BY <2>2, <2>3, UndersNone
  <2> QED BY <1>5, <1>6, <2>1, <2>4 DEF call, image
<1>13. CASE call.do = "block" /\ call.size = 2
  <2> DEFINE first == call.first
             b == call.block
             s == first + 2 * b
             half == Images[image].sector[s]
             trees == BlockTrees(image, first)
  <2>1. first \in Nat /\ b \in Nat /\ call.level \in 0 .. 3 /\ s \in Nat
    BY <1>1, <1>13, Kinds DEF Positive
  <2>2. Under(image, call) = trees[call.level][b]
    BY <1>13 DEF Under
  <2>3. /\ trees[0] = EntryTrees(image, first)
        /\ call.level # 0 => /\ trees[call.level] = PointerTrees(image, first, trees[call.level - 1])
                             /\ trees[call.level - 1] \in [Nat -> ATree]
    <3> DEFINE level == call.level
    <3>1. /\ trees \in [0 .. 3 -> [Nat -> ATree]] /\ trees[0] = EntryTrees(image, first)
          /\ \A l \in 1 .. 3 : trees[l] = PointerTrees(image, first, trees[l - 1])
      BY <1>7, <2>1, BlockTreesAre
    <3>2. level # 0 => level \in 1 .. 3 /\ level - 1 \in 0 .. 3
      BY <2>1
    <3> HIDE DEF trees, level
    <3>3. level # 0 => /\ trees[level] = PointerTrees(image, first, trees[level - 1])
                       /\ trees[level - 1] \in [Nat -> ATree]
      BY <3>1, <3>2
    <3> QED BY <3>1, <3>3 DEF level
  <2>4. 2 * b < Span
    <3> HIDE DEF trees, first, b
    <3>1. CASE call.level = 0
      BY <1>5, <1>7, <2>1, <2>2, <2>3, <3>1, EntryTree DEF s
    <3>2. CASE call.level # 0
      <4> DEFINE below == trees[call.level - 1]
      <4>1. below \in [Nat -> ATree] /\ PointerTrees(image, first, below)[b].plain
        BY <1>5, <2>2, <2>3, <3>2
      <4> HIDE DEF below
      <4> QED BY <1>7, <2>1, <4>1, PointerTree
    <3> QED BY <3>1, <3>2
  <2>5. Wants(call) = <<s, s>>
    <3>1. (b * call.size) % Span = 2 * b
      <4> DEFINE k == 2 * b
      <4>1. b * call.size = k /\ k \in Nat /\ k < Span /\ Span \in Nat \ {0}
        BY <1>13, <2>1, <2>4, DiskAssumption
      <4> HIDE DEF k
      <4>2. k % Span = k
        BY <4>1
      <4> QED BY <4>1, <4>2 DEF k
    <3>2. Wants(call) = <<s % Words, s % Words>>
      BY <1>13, <3>1 DEF Wants, BlockTwice
    <3>3. s + 1 < Sectors
      <4> HIDE DEF trees, first, b
      <4>1. CASE call.level = 0
        BY <1>5, <1>7, <2>1, <2>2, <2>3, <4>1, EntryTree DEF s
      <4>2. CASE call.level # 0
        <5> DEFINE below == trees[call.level - 1]
        <5>1. below \in [Nat -> ATree] /\ PointerTrees(image, first, below)[b].plain
          BY <1>5, <2>2, <2>3, <4>2
        <5> HIDE DEF below
        <5> QED BY <1>7, <2>1, <5>1, PointerTree
      <4> QED BY <4>1, <4>2
    <3>4. s % Words = s
      <4> HIDE DEF s
      <4>1. s < Sectors
        BY <2>1, <3>3, WordsAre DEF Positive
      <4> QED BY <2>1, <4>1, WordsAre
    <3> QED BY <3>2, <3>4
  <2>6. Text(1) = half /\ Text(2) = half /\ s < Sectors
    <3> HIDE DEF s
    <3>1. Len(Wants(call)) = 2 /\ Wants(call)[1] = s /\ Wants(call)[2] = s
      BY <2>5
    <3>2. 1 \in 1 .. 2 /\ 2 \in 1 .. 2
      OBVIOUS
    <3> QED BY <1>3, <3>1, <3>2
  <2>7. CASE call.level = 0
    <3>1. Reports(call) = Names(half.entries \o half.entries)
      BY <1>13, <2>6, <2>7 DEF Reports, Entries
    <3>2. Makes(call) = <<>>
      BY <1>13, <2>7 DEF Makes, Indirect
    <3> DEFINE left == Images[image].sector[s + 0].entries
               right == Images[image].sector[s + 1].entries
               t == EntryTrees(image, first)[b]
    <3>3. t = Under(image, call)
      BY <2>2, <2>3, <2>7
    <3>4. /\ s + 1 < Sectors /\ PlainSlots(left, right)
          /\ t.names = Names(left \o right)
      <4> HIDE DEF first, b
      <4> QED BY <1>5, <1>7, <2>1, <3>3, EntryTree
    <3>5. left = half.entries /\ s + 1 \in Nat
      BY <2>1
    <3>6. left \in Seq(Slot) /\ right \in Seq(Slot)
      <4> HIDE DEF s
      <4> QED BY <1>7, <2>1, <2>6, <3>4, <3>5, ViewIs
    <3> HIDE DEF left, right, t, half
    <3>7. Names(left \o right) = Names(left \o left)
      BY <3>4, <3>6, PlainNames
    <3>8. Under(image, call).names = Reports(call)
      BY <3>1, <3>3, <3>4, <3>5, <3>7
    <3>9. Reports(call) \in Seq(STRING)
      BY <1>4, <3>8, TreeFields
    <3>10. Reports(call) \o <<>> = Reports(call)
      BY <3>9
    <3>11. Unders(image, Makes(call)).names = <<>> /\ Unders(image, Makes(call)).plain
      BY <3>2, UndersNone DEF Leaf
    <3> QED BY <3>8, <3>9, <3>10, <3>11 DEF call, image
  <2>8. CASE call.level # 0
    <3>1. Reports(call) = <<>>
      BY <2>8 DEF Reports
    <3>2. Makes(call) = Blocks(call, UpToZero(half.pointers \o half.pointers), call.level - 1)
      BY <1>13, <2>6, <2>8 DEF Makes, Indirect, Pointers
    <3>3. /\ Unders(image, Makes(call)).plain
          /\ Unders(image, Makes(call)).names = Under(image, call).names
      BY <1>1, <1>5, <1>7, <1>13, <2>8, <3>2, PointersUnder
    <3> QED BY <1>6, <3>1, <3>3 DEF call, image
  <2> QED BY <2>7, <2>8
<1> QED BY <1>1, <1>8, <1>9, <1>10, <1>11, <1>12, <1>13, Kinds
-----------------------------------------------------------------------------
(***************************************************************************)
(* The walk over the drives                                                *)
(***************************************************************************)
\* What is on the first channels, and the names there.
Trees(n) == [i \in 1 .. n |-> ChannelTree(Order[i])]
Before(n) == Joined(Trees(n)).names

\* identify leaves no drive out that is there.
Found(c) == drives[c] \notin Absent => controller[c] = "ATA"
FindsAll ==
  /\ pc = "claim" => ch = 1
  /\ pc = "identify" => \A i \in 1 .. ch - 1 : Found(Order[i])
  /\ pc \in {"main", "work", "look", "wait"} => \A c \in Channels : Found(c)

\* What was reported, and what is under the calls on the stack, are together the
\* names on the channels up to this one.
Progress ==
  /\ shown \in Seq(STRING)
  /\ pc \in {"claim", "identify"} => shown = <<>>
  /\ pc = "main" => shown = Before(ch - 1)
  /\ pc \in {"work", "look", "wait"} =>
       /\ Unders(drives[c0], work).plain
       /\ shown \o Unders(drives[c0], work).names = Before(ch)
  /\ Finished => shown = Before(Len(Order))

Walk == FindsAll /\ (Roots.plain => Progress)

\* A channel has a drive with an image, or none that counts.
LEMMA ChannelTreeIs ==
  ASSUME TypeOK, NEW c \in Channels
  PROVE  /\ drives[c] \notin Absent => drives[c] \in DOMAIN Images
         /\ ChannelTree(c) \in ATree
<1>1. drives \in [Channels -> DOMAIN Images \cup Absent]
  BY DiskAssumption DEF TypeOK
<1>2. drives[c] \notin Absent => drives[c] \in DOMAIN Images
  BY <1>1
<1>3. drives[c] \notin Absent => DriveTree(drives[c]) \in ATree
  BY <1>2, DriveTreeIs
<1> QED BY <1>2, <1>3, LeafIsTree DEF ChannelTree

\* What is on the first channels are trees.
LEMMA TreesAre ==
  ASSUME TypeOK, NEW n \in 0 .. 4
  PROVE  Trees(n) \in Seq(ATree) /\ Len(Trees(n)) = n /\ Before(n) \in Seq(STRING)
<1>1. \A i \in 1 .. n : i \in 1 .. 4 /\ n \in Nat
  OBVIOUS
<1>2. \A i \in 1 .. n : ChannelTree(Order[i]) \in ATree
  BY <1>1, FourChannels, ChannelTreeIs
<1>3. Trees(n) \in Seq(ATree) /\ Len(Trees(n)) = n
  BY <1>1, <1>2 DEF Trees
<1>4. Joined(Trees(n)) \in ATree
  BY <1>3, JoinedIsTree
<1> QED BY <1>3, <1>4, TreeFields DEF Before

LEMMA BeforeNone == Before(0) = <<>>
<1>1. Trees(0) = <<>>
  BY DEF Trees
<1> QED BY <1>1, JoinedNone DEF Before, Leaf

\* The next channel adds its names.
LEMMA BeforeNext ==
  ASSUME TypeOK, NEW n \in 1 .. 4
  PROVE  Before(n) = Before(n - 1) \o ChannelTree(Order[n]).names
<1> DEFINE t == ChannelTree(Order[n])
           s == Trees(n - 1)
           one == <<t>>
<1>1. n - 1 \in 0 .. 4 /\ n \in 0 .. 4
  OBVIOUS
<1>2. s \in Seq(ATree) /\ Len(s) = n - 1
  BY <1>1, TreesAre
<1>3. t \in ATree
  BY FourChannels, ChannelTreeIs
<1>4. \A i \in 1 .. n - 1 : s[i] = ChannelTree(Order[i])
  BY DEF Trees
<1>5. Trees(n) = [i \in 1 .. n |-> IF i = n THEN t ELSE ChannelTree(Order[i])]
  BY DEF Trees
<1> HIDE DEF s, t
<1>6. one \in Seq(ATree) /\ Joined(one) = t
  BY <1>3, JoinedOne
<1>7. Trees(n) = s \o one
  <2>1. s \o one = [i \in 1 .. n |-> IF i = n THEN t ELSE s[i]]
    BY <1>2, <1>3
  <2>2. \A i \in 1 .. n : i # n => i \in 1 .. n - 1
    OBVIOUS
  <2> QED BY <1>4, <1>5, <2>1, <2>2
<1> HIDE DEF one
<1>8. Joined(s \o one).names = Joined(s).names \o Joined(one).names
  BY <1>2, <1>6, JoinedBoth
<1> QED BY <1>6, <1>7, <1>8 DEF Before, s, t

\* All of the names are those up to the last channel.
LEMMA RootsAre ==
  /\ Roots.names = Before(Len(Order))
  /\ Roots.plain => \A c \in Channels : ChannelTree(c).plain
<1>1. Roots = Joined(Trees(4))
  BY FourChannels DEF Roots, Trees
<1>2. Roots.names = Before(Len(Order))
  BY <1>1, FourChannels DEF Before
<1>3. ASSUME Roots.plain, NEW c \in Channels PROVE ChannelTree(c).plain
  <2>1. PICK n \in 1 .. 4 : c = Order[n]
    BY FourChannels DEF Channels, Range
  <2>2. \A i \in DOMAIN Trees(4) : Trees(4)[i].plain
    <3>1. Joined(Trees(4)).plain
      BY <1>1, <1>3
    <3> QED BY <3>1, JoinedFields
  <2>3. Trees(4)[n].plain
    BY <2>2 DEF Trees
  <2> QED BY <2>1, <2>3 DEF Trees
<1> QED BY <1>2, <1>3

\* Nothing of this depends on what the driver does.
LEMMA DrivesStay ==
  ASSUME UNCHANGED drives
  PROVE  /\ Roots' = Roots
         /\ \A n : Before(n)' = Before(n)
         /\ \A c : ChannelTree(c)' = ChannelTree(c)
BY DEF Roots, Before, Trees, ChannelTree

\* The steps that are not about the walk.
LEMMA WalkStays ==
  ASSUME Walk, UNCHANGED <<drives, controller, ch, work, shown>>,
         \/ UNCHANGED <<pc, err>>
         \/ pc \in {"work", "look", "wait"} /\ pc' \in {"work", "look", "wait"}
         \/ pc' = "end" /\ err' # "OK"
         \/ pc' = "undefined"
  PROVE  Walk'
<1>1. FindsAll'
  BY DEF Walk, FindsAll, Found
<1>2. Roots' = Roots /\ Before(ch)' = Before(ch) /\ Before(ch - 1)' = Before(ch - 1)
      /\ Before(Len(Order))' = Before(Len(Order))
  BY DEF Roots, Before, Trees, ChannelTree
<1>3. Unders(drives[c0], work)' = Unders(drives[c0], work)
  BY DEF c0
<1>4. ASSUME Progress PROVE Progress'
  BY <1>2, <1>3, <1>4 DEF Progress, Finished
<1> QED BY <1>1, <1>2, <1>4 DEF Walk

LEMMA WalkInit == Init => Walk
<1> SUFFICES ASSUME Init PROVE Walk
  OBVIOUS
<1>1. pc = "claim" /\ ch = 1 /\ shown = <<>>
  BY DEF Init
<1> QED BY <1>1 DEF Walk, FindsAll, Progress, Finished

\* The first channel is next when the ports are claimed.
LEMMA WalkClaims ==
  ASSUME Walk, claim_ports
  PROVE  Walk'
<1>1. /\ pc = "claim" /\ pc' = "identify"
      /\ UNCHANGED <<drives, ch, shown>>
  BY DEF claim_ports
<1>2. ch' = 1 /\ FindsAll'
  BY <1>1 DEF Walk, FindsAll
<1>3. Roots' = Roots
  BY <1>1 DEF Roots, ChannelTree
<1>4. ASSUME Progress PROVE Progress'
  BY <1>1, <1>4 DEF Progress, Finished
<1> QED BY <1>2, <1>3, <1>4 DEF Walk

\* identify finds the drive that is on the channel, or ends.
LEMMA WalkIdentifies ==
  ASSUME DiskInv, Walk, identify
  PROVE  Walk'
<1>1. /\ pc = "identify" /\ ch \in 1 .. 4 /\ c0 \in Channels
      /\ UNCHANGED <<drives, work, shown>>
  BY AtChannel DEF identify, DiskInv, Working
<1>2. Roots' = Roots /\ Before(0)' = Before(0)
  BY <1>1 DEF Roots, Before, Trees, ChannelTree
<1>3. CASE BusyDrive(drives[c0])
  <2>1. pc' = "end" /\ err' = "NOPERMS"
    BY <1>3 DEF BusyDrive
  <2> QED BY <1>1, <1>2, <2>1 DEF Walk, FindsAll, Progress, Finished
<1>4. CASE Identified(drives[c0])
  <2>1. Advance /\ (drives[c0] \notin Absent => controller' = [controller EXCEPT ![c0] = "ATA"])
        /\ (controller' = controller \/ \E k : controller' = [controller EXCEPT ![c0] = k])
    BY <1>4 DEF Identified, Absent
  <2>2. controller \in [Channels -> {"UNKNOWN", "NONE", "ATA"}]
    BY DEF DiskInv, TypeOK
  <2>3. ASSUME NEW c \in Channels, c = c0 \/ Found(c) PROVE Found(c)'
    BY <1>1, <2>1, <2>2, <2>3 DEF Found
  <2>4. \A i \in 1 .. ch : Found(Order[i])'
    <3> TAKE i \in 1 .. ch
    <3>1. i \in 1 .. 4 /\ (i = ch \/ i \in 1 .. ch - 1)
      BY <1>1
    <3>2. Order[i] \in Channels
      BY <3>1, FourChannels
    <3>3. Order[i] = c0 \/ Found(Order[i])
      BY <1>1, <3>1 DEF Walk, FindsAll, c0
    <3> QED BY <2>3, <3>2, <3>3
  <2>5. CASE ch = Len(Order)
    <3>1. ch' = 1 /\ pc' = "main" /\ ch = 4
      BY <2>1, <2>5, FourChannels DEF Advance
    <3>2. \A c \in Channels : Found(c)'
      <4> TAKE c \in Channels
      <4>1. PICK i \in 1 .. 4 : c = Order[i]
        BY FourChannels DEF Channels, Range
      <4> QED BY <2>4, <3>1, <4>1
    <3>3. FindsAll'
      BY <3>1, <3>2 DEF FindsAll
    <3>4. ASSUME Progress PROVE Progress'
      <4>1. shown' = <<>>
        BY <1>1, <3>4 DEF Progress
      <4>2. Before(ch - 1)' = <<>>
        <5>1. ch' - 1 = 0
          BY <3>1
        <5> QED BY <1>2, <5>1, BeforeNone DEF Before, Trees
      <4> QED BY <3>1, <4>1, <4>2 DEF Progress, Finished
    <3> QED BY <1>2, <3>3, <3>4 DEF Walk
  <2>6. CASE ch # Len(Order)
    <3>1. ch' = ch + 1 /\ pc' = "identify"
      BY <1>1, <2>1, <2>6 DEF Advance
    <3>2. ch' - 1 = ch
      BY <1>1, <3>1
    <3>3. FindsAll'
      BY <2>4, <3>1, <3>2 DEF FindsAll
    <3>4. ASSUME Progress PROVE Progress'
      BY <1>1, <3>1, <3>4 DEF Progress, Finished
    <3> QED BY <1>2, <3>3, <3>4 DEF Walk
  <2> QED BY <2>5, <2>6
<1> QED BY <1>3, <1>4, UnitAnswers

\* The loop of main: a drive is worked on from its partition table, and a channel
\* without one has no names.
LEMMA WalkGoesOn ==
  ASSUME DiskInv, Walk, NextDrive
  PROVE  Walk'
<1>1. /\ pc = "main" /\ UNCHANGED <<drives, controller, shown, err>>
      /\ ch \in 1 .. 5 /\ Len(Order) = 4
  BY FourChannels DEF NextDrive, DiskInv, TypeOK
<1>2. \A c \in Channels : Found(c) /\ Found(c)'
  BY <1>1 DEF Walk, FindsAll, Found
<1>3. Roots' = Roots /\ \A n : Before(n)' = Before(n)
  BY <1>1, DrivesStay
<1>4. FindsAll'
  <2>1. pc' \in {"main", "work", "end"}
    BY <1>1 DEF NextDrive
  <2> QED BY <1>2, <2>1 DEF FindsAll
<1>5. ASSUME Roots.plain, Progress PROVE Progress'
  <2>1. shown' = Before(ch - 1) /\ shown' \in Seq(STRING)
    BY <1>1, <1>5 DEF Progress
  <2>2. CASE ch > Len(Order)
    <3>1. pc' = "end" /\ ch - 1 = Len(Order)
      BY <1>1, <2>2 DEF NextDrive
    <3>2. shown' = Before(Len(Order))'
      BY <1>3, <2>1, <3>1
    <3> QED BY <2>1, <3>1, <3>2 DEF Progress
  <2>3. CASE ~(ch > Len(Order))
    <3>1. ch \in 1 .. 4 /\ c0 \in Channels
      BY <1>1, <2>3, FourChannels DEF c0
    <3>2. Before(ch) = Before(ch - 1) \o ChannelTree(c0).names /\ Before(ch - 1) \in Seq(STRING)
      <4>1. ch - 1 \in 0 .. 4
        BY <3>1
      <4> QED BY <3>1, <4>1, BeforeNext, TreesAre DEF c0, DiskInv
    <3>3. CASE controller[c0] = "ATA"
      <4> DEFINE table == [do |-> "table"]
      <4>1. pc' = "work" /\ work' = <<table>> /\ ch' = ch
        BY <1>1, <2>3, <3>3 DEF NextDrive
      <4>2. drives[c0] \in DOMAIN Images /\ ChannelTree(c0) = DriveTree(drives[c0])
        BY <3>1, <3>3, ChannelTreeIs DEF DiskInv, FindsTheDrives, ChannelTree
      <4>3. table \in Calls /\ Under(drives[c0], table) = DriveTree(drives[c0])
        BY DEF Calls, Under
      <4> HIDE DEF table
      <4>4. Unders(drives[c0], work)' = ChannelTree(c0)
        BY <1>1, <4>1, <4>2, <4>3, UndersOne DEF c0
      <4>5. ChannelTree(c0).plain
        BY <1>5, <3>1, RootsAre
      <4>6. (shown \o Unders(drives[c0], work).names)' = Before(ch)
        BY <2>1, <3>2, <4>4
      <4>7. Before(ch)' = Before(ch)
        BY <1>1, <4>1 DEF Before, Trees, ChannelTree
      <4> QED BY <2>1, <4>1, <4>4, <4>5, <4>6, <4>7 DEF Progress, Finished
    <3>4. CASE controller[c0] # "ATA"
      <4>1. pc' = "main" /\ ch' = ch + 1
        BY <1>1, <2>3, <3>4 DEF NextDrive
      <4>2. ChannelTree(c0).names = <<>>
        BY <1>2, <3>1, <3>4 DEF Found, ChannelTree, Leaf
      <4>3. Before(ch) = Before(ch - 1)
        BY <3>2, <4>2
      <4>4. ch' - 1 = ch
        BY <3>1, <4>1
      <4>5. shown' = Before(ch - 1)'
        <5>1. Before(ch - 1)' = Before(ch)
          BY <1>1, <4>4 DEF Before, Trees, ChannelTree
        <5> QED BY <2>1, <4>3, <5>1
      <4> QED BY <2>1, <4>1, <4>5 DEF Progress, Finished
    <3> QED BY <3>3, <3>4
  <2> QED BY <2>2, <2>3
<1> QED BY <1>3, <1>4, <1>5 DEF Walk

\* A drive that is done has had all of its names reported.
LEMMA WalkLeavesDrive ==
  ASSUME DiskInv, Walk, DriveDone
  PROVE  Walk'
<1>1. /\ pc = "work" /\ work = <<>> /\ pc' = "main" /\ ch' = ch + 1
      /\ UNCHANGED <<drives, controller, shown, err>>
  BY DEF DriveDone
<1>2. ch \in 1 .. 4
  BY <1>1, AtChannel DEF DiskInv, Working
<1>3. Roots' = Roots
  BY <1>1, DrivesStay
<1>4. FindsAll'
  BY <1>1 DEF Walk, FindsAll, Found
<1>5. ASSUME Progress PROVE Progress'
  <2>1. Unders(drives[c0], work).names = <<>>
    BY <1>1, UndersNone DEF Leaf
  <2>2. Before(ch) = shown
    <3>1. shown \in Seq(STRING) /\ shown \o <<>> = Before(ch)
      BY <1>1, <1>5, <2>1 DEF Progress
    <3>2. shown \o <<>> = shown
      BY <3>1
    <3> QED BY <3>1, <3>2
  <2>3. Before(ch - 1)' = Before(ch)
    <3>1. ch' - 1 = ch
      BY <1>1, <1>2
    <3> QED BY <1>1, <3>1 DEF Before, Trees, ChannelTree
  <2> QED BY <1>1, <1>5, <2>2, <2>3 DEF Progress, Finished
<1> QED BY <1>3, <1>4, <1>5 DEF Walk

\* Three lists of names are joined in either order.
LEMMA ThreeJoin ==
  \A s \in Seq(STRING) : \A t \in Seq(STRING) : \A u \in Seq(STRING) : (s \o t) \o u = s \o (t \o u)
<1> DEFINE S == STRING
<1> HIDE DEF S
<1>1. \A s \in Seq(S) : \A t \in Seq(S) : \A u \in Seq(S) : (s \o t) \o u = s \o (t \o u)
  BY ConcatAssociative
<1> QED BY <1>1 DEF S

\* A call that is done has reported its part, and leaves the rest to its calls.
LEMMA WalkCalls ==
  ASSUME DiskInv, Walk, CallDone
  PROVE  Walk'
<1> DEFINE image == drives[c0]
           call == Head(work)
           rest == Tail(work)
           made == Makes(call)
           one == <<call>>
<1>1. /\ pc = "work" /\ work # <<>> /\ Len(got) = Len(Wants(call)) /\ ~Undefined(call)
      /\ shown' = shown \o Reports(call) /\ work' = made \o rest
      /\ UNCHANGED <<drives, controller, pc, ch, err>>
  BY DEF CallDone
<1>2. c0 \in Channels /\ controller[c0] = "ATA"
  BY <1>1, AtChannel DEF DiskInv, Working
<1>3. image \in DOMAIN Images
  BY <1>2, ChannelTreeIs DEF DiskInv, FindsTheDrives
<1>4. Roots' = Roots /\ Before(ch)' = Before(ch) /\ image' = image
  BY <1>1 DEF Roots, Before, Trees, ChannelTree, c0
<1>5. FindsAll'
  BY <1>1 DEF Walk, FindsAll, Found
<1>6. ASSUME Progress PROVE Progress'
  <2>1. work \in Seq(Calls) /\ made \in Seq(Calls)
    BY <1>1, MakesAreCalls DEF DiskInv, TypeOK
  <2>2. call \in Calls /\ rest \in Seq(Calls) /\ one \in Seq(Calls) /\ work = one \o rest
    BY <1>1, <2>1
  <2>3. /\ shown \in Seq(STRING) /\ Unders(image, work).plain
        /\ shown \o Unders(image, work).names = Before(ch)
    BY <1>1, <1>6 DEF Progress
  <2>4. Under(image, call) \in ATree /\ Unders(image, one) = Under(image, call)
    BY <1>3, <2>2, UnderIs, UndersOne
  <2>5. /\ Unders(image, rest) \in ATree /\ Unders(image, made) \in ATree
        /\ Unders(image, made \o rest) \in ATree
    <3> DEFINE both == made \o rest
    <3>1. both \in Seq(Calls)
      BY <2>1, <2>2
    <3> HIDE DEF both, made, rest
    <3>2. Unders(image, both) \in ATree
      BY <1>3, <3>1, UnderEachIs
    <3> QED BY <1>3, <2>1, <2>2, <3>2, UnderEachIs DEF both
  <2> HIDE DEF one, rest, made
  <2>6. /\ Unders(image, one \o rest).names = Unders(image, one).names \o Unders(image, rest).names
        /\ Unders(image, one \o rest).plain <=> Unders(image, one).plain /\ Unders(image, rest).plain
    BY <1>3, <2>2, UndersBoth
  <2>7. /\ Unders(image, made \o rest).names = Unders(image, made).names \o Unders(image, rest).names
        /\ Unders(image, made \o rest).plain <=> Unders(image, made).plain /\ Unders(image, rest).plain
    BY <1>3, <2>1, <2>2, UndersBoth
  <2>8. Under(image, call).plain /\ Unders(image, rest).plain
    BY <2>2, <2>3, <2>4, <2>6
  <2>9. /\ Reports(call) \in Seq(STRING) /\ Unders(image, made).plain
        /\ Under(image, call).names = Reports(call) \o Unders(image, made).names
    BY <1>1, <1>3, <2>8, CallIsUnder DEF made
  <2>10. Unders(image, made \o rest).plain
    BY <2>7, <2>8, <2>9
  <2>11. /\ Unders(image, made).names \in Seq(STRING) /\ Unders(image, rest).names \in Seq(STRING)
    BY <2>5, TreeFields
  <2>12. (shown \o Reports(call)) \o Unders(image, made \o rest).names = Before(ch)
    <3> DEFINE m == Unders(image, made).names
               r == Unders(image, rest).names
               p == Reports(call)
               q == m \o r
    <3>1. shown \o ((p \o m) \o r) = Before(ch)
      BY <2>2, <2>3, <2>4, <2>6, <2>9
    <3>2. shown \in Seq(STRING) /\ p \in Seq(STRING) /\ m \in Seq(STRING) /\ r \in Seq(STRING)
      BY <2>3, <2>9, <2>11
    <3>3. Unders(image, made \o rest).names = q
      BY <2>7
    <3> HIDE DEF m, r, p
    <3>4. (p \o m) \o r = p \o q
      BY <3>2, ThreeJoin, Zenon
    <3>5. q \in Seq(STRING)
      BY <3>2
    <3> HIDE DEF q
    <3>6. (shown \o p) \o q = shown \o (p \o q)
      BY <3>2, <3>5, ThreeJoin, Zenon
    <3> QED BY <3>1, <3>3, <3>4, <3>6 DEF p
  <2>13. shown' \in Seq(STRING)
    BY <1>1, <2>3, <2>9
  <2>14. Unders(drives[c0], work)' = Unders(image, made \o rest)
    BY <1>1, <1>4
  <2> HIDE DEF image, call
  <2> QED BY <1>1, <1>4, <2>10, <2>12, <2>13, <2>14 DEF Progress, Finished
<1> QED BY <1>4, <1>5, <1>6 DEF Walk
-----------------------------------------------------------------------------
(***************************************************************************)
(* What holds of the driver                                                *)
(***************************************************************************)
\* No step of the driver or of a drive breaks the invariant: identify, the loop
\* of main, and read_sector under every call.
THEOREM DiskInvariance == Spec => []DiskInv
<1>1. DiskInv /\ [Next]_vars => DiskInv'
  <2> SUFFICES ASSUME DiskInv, [Next]_vars PROVE DiskInv'
    OBVIOUS
  <2>1. CASE claim_ports
    BY <2>1, ClaimStep
  <2>2. CASE identify
    BY <2>2, IdentifyStep
  <2>3. CASE NextDrive
    BY <2>3, NextDriveStep
  <2>4. CASE DriveDone
    BY <2>4, DriveDoneStep
  <2>5. CASE CallDone
    BY <2>5, CallDoneStep
  <2>6. CASE Command
    BY <2>6, CommandStep
  <2>7. CASE Transfer
    BY <2>7, TransferStep
  <2>8. CASE MustWait \/ Woken
    BY <2>8, WaitStep
  <2>9. CASE \E b \in Buses : Ready(b)
    BY <2>9, ReadyStep
  <2>10. CASE UNCHANGED vars
    BY <2>10, StutterStep
  <2>11. CASE Stops
    BY <2>11, StopsStep
  <2> QED
    BY <2>1, <2>2, <2>3, <2>4, <2>5, <2>6, <2>7, <2>8, <2>9, <2>10, <2>11 DEF Next, Driver, read_sector
<1> QED BY InitHolds, <1>1, PTL DEF Spec

\* Every call is for sectors that it can name: no zero pointer is followed, no
\* level falls below zero, and no drive is asked for a sector it does not have.
THEOREM DiskTypeCorrect == Spec => []TypeOK
BY DiskInvariance, PTL DEF DiskInv

\* read_sector returns the sector that was asked for, of the drive that was
\* asked, whatever drive its bus was set to before.
THEOREM CallsGetTheirSectors == Spec => []ReadsWhatItAsked
BY DiskInvariance, PTL DEF DiskInv

\* identify takes a channel for a drive, or for empty, only if it is.
THEOREM DrivesAreFound == Spec => []FindsTheDrives
BY DiskInvariance, PTL DEF DiskInv

\* identify leaves no drive out, and at every step what the driver has reported
\* is followed, under the calls that it still has to make, by the rest of the
\* names up to its channel, as long as the directories are plain: partitions where
\* cylinder, head and sector say, the root inode in a first group that is counted.
THEOREM WalkInvariance == Spec => []Walk
<1>1. DiskInv /\ Walk /\ [Next]_vars => Walk'
  <2> SUFFICES ASSUME DiskInv, Walk, [Next]_vars PROVE Walk'
    OBVIOUS
  <2>1. CASE claim_ports
    BY <2>1, WalkClaims
  <2>2. CASE identify
    BY <2>2, WalkIdentifies
  <2>3. CASE NextDrive
    BY <2>3, WalkGoesOn
  <2>4. CASE DriveDone
    BY <2>4, WalkLeavesDrive
  <2>5. CASE CallDone
    BY <2>5, WalkCalls
  <2>6. CASE Command
    <3>1. /\ UNCHANGED <<drives, controller, ch, work, shown>> /\ pc = "work"
          /\ pc' = "look" \/ (pc' = "end" /\ err' # "OK")
      BY <2>6 DEF Command
    <3> QED BY <3>1, WalkStays
  <2>7. CASE Transfer \/ MustWait \/ Woken
    <3>1. /\ UNCHANGED <<drives, controller, ch, work, shown>>
          /\ pc \in {"look", "wait"} /\ pc' \in {"work", "look", "wait"}
      BY <2>7 DEF Transfer, MustWait, Woken
    <3> QED BY <3>1, WalkStays
  <2>8. CASE (\E b \in Buses : Ready(b)) \/ UNCHANGED vars
    <3>1. UNCHANGED <<drives, controller, ch, work, shown, pc, err>>
      BY <2>8 DEF Ready, vars, driver
    <3> QED BY <3>1, WalkStays
  <2>9. CASE Stops
    <3>1. UNCHANGED <<drives, controller, ch, work, shown>> /\ pc' = "undefined"
      BY <2>9 DEF Stops
    <3> QED BY <3>1, WalkStays
  <2> QED
    BY <2>1, <2>2, <2>3, <2>4, <2>5, <2>6, <2>7, <2>8, <2>9 DEF Next, Driver, read_sector
<1> QED BY WalkInit, DiskInvariance, <1>1, PTL DEF Spec

\* When the driver has ended well, it has reported every name of every root
\* directory on its drives, once and in order: those of direct blocks and those
\* under one, two and three pointers, as long as all of them are plain.  Nothing is said
\* of file systems smaller than a group, or of a partition that another geometry
\* placed: those are not plain.
THEOREM PlainDirectoriesAreListed == Spec => []PlainRootsAreListed
<1>1. Walk => PlainRootsAreListed
  BY RootsAre DEF Walk, Progress, PlainRootsAreListed
<1> QED BY <1>1, WalkInvariance, PTL
=============================================================================
