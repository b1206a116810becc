------------------------------- MODULE MCDisk -------------------------------
(* Drives for Disk: images with one Linux partition that starts at sector 2, *)
(* of 1024-byte blocks (two sectors) with two slots or two pointers in each  *)
(* half, and inodes with two direct pointers, of two bytes in sectors of     *)
(* four.                                                                     *)
EXTENDS Disk, TLC

Entry(n, s) == [name |-> n, size |-> s]
Tail1 == Entry("rest of an entry", 1)

\* A superblock of one group, with the second inode at byte 1.
Sound == [size |-> 2, inodes |-> 16, blocks |-> 14, inodes_per_group |-> 16,
          blocks_per_group |-> 14, inode_size |-> 1]

\* A sector that holds no more than a superblock, and what is written on one.
NoInode == [directory |-> FALSE, direct |-> <<>>, indirect |-> <<0, 0, 0>>]
Zero == [table |-> <<>>,
         super |-> Sound, group |-> [g \in 0 .. MAX_NR_BLOCK_GROUPS - 1 |-> 0],
         inode |-> [offset \in 0 .. SECTOR - 1 |-> NoInode],
         pointers |-> <<0, 0>>, entries |-> <<>>]
Table(t) == [Zero EXCEPT !.table = t]
Super(super) == [Zero EXCEPT !.super = super]
Group(g, table) == [Zero EXCEPT !.group[g] = table]
Directory(offset, direct, indirect) ==
  [Zero EXCEPT !.inode[offset] = [directory |-> TRUE, direct |-> direct, indirect |-> indirect]]
Half(entries) == [Zero EXCEPT !.entries = entries]

\* A block whose last entry reaches over the second half, and one that has an
\* entry there.
PlainHalves(n, m) == <<Half(<<Entry(n, 1), Entry(m, 3)>>), Half(<<Tail1, Tail1>>)>>
SplitHalves(n, m, o) == <<Half(<<Entry(n, 1), Entry(m, 1)>>), Half(<<Entry(o, 2), Tail1>>)>>
PointerHalves(p) == <<[Zero EXCEPT !.pointers = <<p, 0>>], Zero>>

\* The two sectors of block b.
Halves(b, halves) == (2 + 2 * b) :> halves[1] @@ (3 + 2 * b) :> halves[2]

On(sectors) == [s \in 0 .. Sectors - 1 |-> IF s \in DOMAIN sectors THEN sectors[s] ELSE Zero]

\* Three geometries, and where sector 2 is in each.
At(c, h, n) == [linux |-> TRUE, cylinder |-> c, head |-> h, sector |-> n, lba |-> 2]
Flat == [heads |-> 1, sectors |-> 1]
Narrow == [heads |-> 1, sectors |-> 2]
Wide == [heads |-> 3, sectors |-> 2]

Image(g, p, super, sectors) ==
  [geometry |-> g,
   sector |-> On(0 :> Table(<<[p EXCEPT !.linux = FALSE], p>>) @@ 4 :> Super(super) @@ sectors)]

ab == Halves(4, PlainHalves("a", "b"))
cd == Halves(5, PlainHalves("c", "d"))
ef == Halves(6, PlainHalves("e", "f"))
gh == Halves(10, PlainHalves("g", "h"))

\* The descriptor of the first group, and a directory of one block.
First == 6 :> Group(0, 3)
OneAt(sector, offset) == First @@ sector :> Directory(offset, <<4, 0>>, <<0, 0, 0>>) @@ ab
One == OneAt(8, 1)

OneBlock == Image(Wide, At(0, 1, 1), Sound, One)
Single == Image(Flat, At(2, 0, 1), Sound,
                First @@ 8 :> Directory(1, <<4, 5>>, <<7, 0, 0>>)
                  @@ ab @@ cd @@ ef @@ Halves(7, PointerHalves(6)))
Triple == Image(Narrow, At(1, 0, 1), Sound,
                First @@ 8 :> Directory(1, <<4, 5>>, <<7, 8, 11>>)
                  @@ ab @@ cd @@ ef @@ gh @@ Halves(7, PointerHalves(6)) @@ Halves(8, PointerHalves(9))
                  @@ Halves(9, PointerHalves(10)) @@ Halves(11, PointerHalves(8)))
Split == Image(Narrow, At(1, 0, 1), Sound, Halves(4, SplitHalves("a", "b", "c")) @@ One)
\* Inodes so large that the second is in the second sector of the table.
Far == Image(Narrow, At(1, 0, 1), [Sound EXCEPT !.inode_size = 5], OneAt(9, 1))
\* Refused with a complaint: three groups, and blocks of 2048 bytes.
Crowded == Image(Narrow, At(1, 0, 1), [Sound EXCEPT !.inodes_per_group = 5, !.blocks_per_group = 4],
                 One)
Large == Image(Narrow, At(1, 0, 1), [Sound EXCEPT !.size = 4],
               First @@ 14 :> Directory(1, <<4, 5>>, <<0, 0, 0>>) @@ ab)
\* A pointer to a block that is not on the drive.
Astray == Image(Wide, At(0, 1, 1), Sound, First @@ 8 :> Directory(1, <<4, 14>>, <<0, 0, 0>>) @@ ab)
\* Less than a group, and two groups with one inode in each.
Small == Image(Wide, At(0, 1, 1), [Sound EXCEPT !.blocks_per_group = 20], One)
Spread == Image(Wide, At(0, 1, 1),
                [Sound EXCEPT !.inodes = 2, !.inodes_per_group = 1, !.blocks_per_group = 7],
                6 :> Group(1, 3) @@ 8 :> Directory(0, <<4, 0>>, <<0, 0, 0>>) @@ ab)
\* No group has an inode, there is no second one, and it is in two sectors.
Undivided == Image(Wide, At(0, 1, 1), [Sound EXCEPT !.inodes_per_group = 0], One)
Rootless == Image(Wide, At(0, 1, 1), [Sound EXCEPT !.inodes = 1], One)
Torn == Image(Wide, At(0, 1, 1), [Sound EXCEPT !.inode_size = 3], OneAt(8, 3))
\* Cylinder, head and sector are those of another geometry.
Shifted == Image(Wide, At(1, 0, 1), Sound, One)

AllImages ==
  [i \in {"one block", "single", "triple", "split", "far", "crowded", "large",
           "astray", "small", "spread", "undivided", "rootless", "torn", "shifted"} |->
     CASE i = "one block" -> OneBlock
       [] i = "single" -> Single
       [] i = "triple" -> Triple
       [] i = "split" -> Split
       [] i = "far" -> Far
       [] i = "crowded" -> Crowded
       [] i = "large" -> Large
       [] i = "astray" -> Astray
       [] i = "small" -> Small
       [] i = "spread" -> Spread
       [] i = "undivided" -> Undivided
       [] i = "rootless" -> Rootless
       [] i = "torn" -> Torn
       [] i = "shifted" -> Shifted]

\* What is on each of them.
Holds(names, plain) == [names |-> names, plain |-> plain]
Expected ==
  "one block" :> Holds(<<"a", "b">>, TRUE)
    @@ "single" :> Holds(<<"a", "b", "c", "d", "e", "f">>, TRUE)
    @@ "triple" :> Holds(<<"a", "b", "c", "d", "e", "f", "g", "h", "g", "h">>, TRUE)
    @@ "split" :> Holds(<<"a", "b", "c">>, FALSE)
    @@ "far" :> Holds(<<"a", "b">>, TRUE)
    @@ "crowded" :> Leaf @@ "large" :> Leaf
    @@ "undivided" :> Lost @@ "rootless" :> Lost @@ "torn" :> Lost
    @@ [i \in {"astray", "small", "spread", "shifted"} |-> Holds(<<"a", "b">>, FALSE)]

ASSUME TreesAreAsExpected == \A i \in DOMAIN AllImages : DriveTree(i) = Expected[i]

Drives(pm, ps, sm, ss) == Order[1] :> pm @@ Order[2] :> ps @@ Order[3] :> sm @@ Order[4] :> ss

AllSetups == {Drives(pm, ps, sm, ss) :
                pm \in DOMAIN AllImages, ps \in {"none", "other", "single"}, sm \in {"none", "one block"},
                ss \in {"none", "one block"}}

\* One drive, with an entry in the second half of a block.
SplitSetups == {Drives("split", "none", "none", "none")}
=============================================================================
