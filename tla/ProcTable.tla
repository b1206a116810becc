------------------------------ MODULE ProcTable ------------------------------
(***************************************************************************)
(* The table of processes and the descriptors of their segments:           *)
(* create_process, the bitmap of descriptors, and what get_limit and       *)
(* get_base read back from a descriptor.  They are functions on a record,  *)
(* the memory of the table, because the kernel calls them one after the    *)
(* other within one entry.                                                 *)
(***************************************************************************)
EXTENDS Naturals, FiniteSetsExt

CONSTANTS
  MAX_NO_PROCS,            \* slots of pproctab
  NO_AVL_DSCRPTS,          \* descriptors the bitmap has room for
  KernelDescriptors,       \* those the kernel marks for itself
  NO_BASE,                 \* no segment wanted
  Half, Octet, Nibble,     \* 2^16, 2^8, 2^4: the fields of a descriptor
  Page,                    \* 2^12
  LowEnd, VideoEnd,        \* 0xa0000 and 0xc0000
  TssAt,                   \* where the task state segment of a slot lies
  TssSize

Word == Half * Octet * Octet     \* 2^32
OneMeg == Half * Nibble          \* 0x100000

ASSUME TableAssumption ==
  /\ {MAX_NO_PROCS, Half, Octet, Nibble, TssSize} \subseteq Nat \ {0}
  /\ Page \in {4 * n : n \in 1 .. Page}
  /\ Word = OneMeg * Page
  /\ NO_AVL_DSCRPTS \in Nat /\ KernelDescriptors \subseteq 0 .. NO_AVL_DSCRPTS - 1
  /\ 0 \in KernelDescriptors
  /\ LowEnd \in Nat /\ VideoEnd \in Nat /\ LowEnd < VideoEnd /\ VideoEnd < OneMeg
  /\ NO_BASE \notin 0 .. Word - 2
  /\ TssAt \in [1 .. MAX_NO_PROCS -> 0 .. Word - 1]

Segments == {"cs", "ds", "es", "fs", "gs", "ss"}
INVALID_GDT_IDX == NO_AVL_DSCRPTS

\* Each definition named Fault... is a defect that the one after it could have
\* had; the properties are checked to tell the two apart.
-----------------------------------------------------------------------------
(***************************************************************************)
(* Descriptors                                                             *)
(***************************************************************************)
\* A base is cut into three fields, a limit into two; the rest of props2 that
\* matters is the bit for limits counted in pages.
Descriptor(limit, base, page) ==
  [limit |-> limit % Half, high |-> (limit \div Half) % Nibble, page |-> page,
   base1 |-> base % Half, base2 |-> (base \div Half) % Octet,
   base3 |-> base \div (Half * Octet)]

\* The limit a segment gets: beyond the field it is counted in pages, and
\* rounded up unless its last ten bits are 0.
SegmentDescriptor(limit, base) ==
  IF limit < OneMeg THEN Descriptor(limit, base, FALSE)
  ELSE Descriptor(limit \div Page + (IF limit % (Page \div 4) = 0 THEN 0 ELSE 1), base, TRUE)

GetBase(d) == d.base1 + Half * (d.base2 + Octet * d.base3)

GetLimit(d) ==
  LET l == d.limit + Half * d.high IN IF d.page THEN l * Page ELSE l
-----------------------------------------------------------------------------
(***************************************************************************)
(* The bitmap.  m.used are the bits that are set, m.low the bytes at the   *)
(* start of the kernel's segment that freeBitInBitfield masks instead of   *)
(* those of the bitmap.                                                    *)
(***************************************************************************)
GetFree(m) == Min(((0 .. NO_AVL_DSCRPTS - 1) \ m.used) \cup {INVALID_GDT_IDX})

FaultWriteUnmarked(m, i, d) == [m EXCEPT !.gdt[i] = d]
Write(m, i, d) == [m EXCEPT !.gdt[i] = d, !.used = @ \cup {i}]

Free(m, descriptors) == [m EXCEPT !.low = @ \cup {i \div 8 : i \in descriptors}]
-----------------------------------------------------------------------------
(***************************************************************************)
(* create_process                                                          *)
(***************************************************************************)
FaultStartOnly(base, limit, video) ==
  LET lowerBound == IF video THEN VideoEnd ELSE LowEnd
  IN base <= lowerBound \/ base >= OneMeg

MemAreaValid(base, limit, video) ==
  LET lowerBound == IF video THEN VideoEnd ELSE LowEnd
  IN /\ base <= lowerBound \/ base >= OneMeg
     /\ base <= lowerBound => (base + limit) % Word <= lowerBound

\* One segment of args: c is the table so far, the selectors so far, and
\* whether every segment was granted.
Grantable(m, args, s) ==
  MemAreaValid(args.base[s], args.limit[s], s = "gs") /\ GetFree(m) # INVALID_GDT_IDX

Grant(c, args, s) ==
  [c EXCEPT !.m = Write(@, GetFree(c.m), SegmentDescriptor(args.limit[s], args.base[s])),
            !.sel[s] = GetFree(c.m)]

AddSegment(c, args, s) ==
  IF ~c.ok \/ args.base[s] = NO_BASE THEN c
  ELSE IF Grantable(c.m, args, s) THEN Grant(c, args, s) ELSE [c EXCEPT !.ok = FALSE]

\* A segment that is not wanted has the selector 0: 65536 in sixteen bits.
NoSelectors == [s \in Segments |-> 0]

\* The six segments, one after the other.
AddSegments(m, args) ==
  LET cs == AddSegment([m |-> m, sel |-> NoSelectors, ok |-> TRUE], args, "cs")
      ds == AddSegment(cs, args, "ds")
      es == AddSegment(ds, args, "es")
      fs == AddSegment(es, args, "fs")
      gs == AddSegment(fs, args, "gs")
  IN AddSegment(gs, args, "ss")

EmptySlots(m) == {i \in 1 .. MAX_NO_PROCS : m.slot[i].empty}

\* The scan for an empty slot compares each with the word behind the table,
\* which it meets only behind the table.  A call that fails takes no slot; what
\* it gives back are the segments it was granted.
Create(m, args) ==
  LET i == Min(EmptySlots(m))
      c == AddSegments(m, args)
      tss == GetFree(c.m)
      granted == {c.sel[s] : s \in Segments} \ {0}
  IN CASE EmptySlots(m) = {} -> [m |-> m, slot |-> 0]
       [] EmptySlots(m) # {} /\ c.ok /\ tss # INVALID_GDT_IDX
            -> [m |-> [Write(c.m, tss, Descriptor(TssSize, TssAt[i], FALSE))
                         EXCEPT !.slot[i] = [empty |-> FALSE, name |-> args.name,
                                             sel |-> c.sel, tss |-> tss]],
                slot |-> i]
       [] OTHER -> [m |-> Free(c.m, granted), slot |-> 0]

\* syscall_exit: the slot is empty, and the six segments are given back, with a
\* pid, which is 0 because nobody assigns one; pids are freed as descriptors are.
Release(m, i) ==
  Free([m EXCEPT !.slot[i].empty = TRUE], {m.slot[i].sel[s] : s \in Segments} \cup {0})

\* The descriptors of a slot.
Descriptors(slot) ==
  [s \in Segments \cup {"tss"} |-> IF s = "tss" THEN slot.tss ELSE slot.sel[s]]

\* The table as start finds it: the descriptors of the kernel are marked, and
\* the first is null.
NullDescriptor == Descriptor(0, 0, FALSE)

EmptyTable(nobody) ==
  [used |-> KernelDescriptors, low |-> {},
   gdt |-> [i \in 0 .. NO_AVL_DSCRPTS - 1 |-> NullDescriptor],
   slot |-> [i \in 1 .. MAX_NO_PROCS |-> [empty |-> TRUE, name |-> nobody,
                                          sel |-> NoSelectors, tss |-> 0]]]
=============================================================================
