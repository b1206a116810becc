---------------------------- MODULE KernelProofs ----------------------------
(***************************************************************************)
(* Proofs about the kernel as a whole, for every value of the constants:   *)
(* first the table of processes (what is read back from a descriptor is    *)
(* what was written into it; create_process gives a process descriptors    *)
(* that nobody else has and takes none from anybody), then who drives a    *)
(* port, whom the programs in memory belong to, and what an entry touches. *)
(***************************************************************************)
EXTENDS Kernel, IpcProofs, Induction

-----------------------------------------------------------------------------
(***************************************************************************)
(* Descriptors                                                             *)
(***************************************************************************)
LEMMA Fields == /\ Half \in Nat \ {0} /\ Octet \in Nat \ {0} /\ Nibble \in Nat \ {0}
                /\ Word \in Nat \ {0} /\ OneMeg \in Nat \ {0}
<1>1. Half \in Nat \ {0} /\ Octet \in Nat \ {0} /\ Nibble \in Nat \ {0}
  BY TableAssumption
<1>2. Half * Octet \in Nat \ {0} /\ Half * Nibble \in Nat \ {0}
  BY <1>1
<1>3. (Half * Octet) * Octet \in Nat \ {0}
  BY <1>1, <1>2
<1> QED BY <1>1, <1>2, <1>3 DEF Word, OneMeg

Descrs == [limit : Nat, high : Nat, page : BOOLEAN, base1 : Nat, base2 : Nat, base3 : Nat]

LEMMA DescriptorIsOne ==
  ASSUME NEW limit \in Nat, NEW base \in Nat, NEW page \in BOOLEAN
  PROVE  Descriptor(limit, base, page) \in Descrs
<1>1. Half * Octet \in Nat \ {0}
  BY Fields
<1>2. /\ limit % Half \in Nat /\ limit \div Half \in Nat /\ base % Half \in Nat
      /\ base \div Half \in Nat /\ base \div (Half * Octet) \in Nat
  BY <1>1, Fields, Division
<1>3. (limit \div Half) % Nibble \in Nat /\ (base \div Half) % Octet \in Nat
  BY <1>2, Fields, Division
<1> QED BY <1>2, <1>3 DEF Descriptor, Descrs

LEMMA SegmentDescriptorIsOne ==
  ASSUME NEW limit \in Nat, NEW base \in Nat
  PROVE  SegmentDescriptor(limit, base) \in Descrs
<1> DEFINE pages == limit \div Page + (IF limit % (Page \div 4) = 0 THEN 0 ELSE 1)
<1>1. Page \in Nat \ {0}
  BY TableAssumption
<1>2. pages \in Nat
  <2>1. limit \div Page \in Nat
    BY <1>1, Division
  <2> QED BY <2>1
<1>3. Descriptor(pages, base, TRUE) \in Descrs /\ Descriptor(limit, base, FALSE) \in Descrs
  BY <1>2, DescriptorIsOne
<1> QED BY <1>3 DEF SegmentDescriptor

\* get_base puts the three fields of a base together again.
LEMMA BaseReadsBack ==
  ASSUME NEW limit \in Nat, NEW base \in Nat, NEW page \in BOOLEAN
  PROVE  GetBase(Descriptor(limit, base, page)) = base
<1> DEFINE q == base \div Half
<1>1. q \in Nat /\ base % Half \in Nat /\ base = Half * q + (base % Half)
  BY Fields, Division
<1>2. q % Octet \in Nat /\ q \div Octet \in Nat /\ q = Octet * (q \div Octet) + (q % Octet)
  BY <1>1, Fields, Division
<1>3. base \div (Half * Octet) = q \div Octet
  BY Fields, DivideTwice
<1>4. GetBase(Descriptor(limit, base, page)) = (base % Half) + Half * ((q % Octet) + Octet * (q \div Octet))
  BY <1>3 DEF GetBase, Descriptor
<1>5. (q % Octet) + Octet * (q \div Octet) = q
  BY <1>2, Fields, ProductIsNat
<1>6. Half * q \in Nat
  BY <1>1, Fields, ProductIsNat
<1> QED BY <1>1, <1>4, <1>5, <1>6

\* get_limit puts the two fields of a limit below a megabyte together again.
LEMMA LimitReadsBack ==
  ASSUME NEW limit \in 0 .. OneMeg - 1, NEW base \in Nat
  PROVE  /\ GetLimit(SegmentDescriptor(limit, base)) = limit
         /\ GetBase(SegmentDescriptor(limit, base)) = base
<1> DEFINE q == limit \div Half
<1>1. limit \in Nat /\ limit < OneMeg
  BY Fields
<1>2. q \in Nat /\ limit % Half \in 0 .. Half - 1 /\ limit = Half * q + (limit % Half)
  BY <1>1, Fields, Division
<1>3. q < Nibble
  <2> SUFFICES ASSUME Nibble <= q PROVE FALSE
    BY <1>2, Fields
  <2>1. Half * Nibble <= Half * q
    BY <1>2, Fields, ProductGrows
  <2>2. Half * Nibble \in Nat /\ Half * q \in Nat
    BY <1>2, Fields, ProductIsNat
  <2> QED BY <1>1, <1>2, <2>1, <2>2, Fields DEF OneMeg
<1>4. q % Nibble = q
  BY <1>2, <1>3, Fields
<1>5. SegmentDescriptor(limit, base) = Descriptor(limit, base, FALSE)
  BY <1>1 DEF SegmentDescriptor
<1>6. GetLimit(Descriptor(limit, base, FALSE)) = (limit % Half) + Half * q
  BY <1>4 DEF GetLimit, Descriptor
<1>7. Half * q \in Nat
  BY <1>2, Fields, ProductIsNat
<1>8. GetBase(Descriptor(limit, base, FALSE)) = base
  BY <1>1, BaseReadsBack
<1>9. (limit % Half) + Half * q = limit
  BY <1>2, <1>7, Fields
<1> QED BY <1>5, <1>6, <1>8, <1>9
-----------------------------------------------------------------------------
(***************************************************************************)
(* The bitmap                                                              *)
(***************************************************************************)
Indices == 0 .. NO_AVL_DSCRPTS - 1
Slots(Names) == [empty : BOOLEAN, name : Names, sel : [Segments -> Nat], tss : Nat]
Tables(Names) == [used : SUBSET Indices, low : SUBSET Nat, gdt : [Indices -> Descrs],
                  slot : [1 .. MAX_NO_PROCS -> Slots(Names)]]

LEMMA LeastIs ==
  ASSUME NEW S \in SUBSET Nat, S # {}
  PROVE  Min(S) \in S /\ \A y \in S : Min(S) <= y
<1>1. \E x \in S : \A y \in S : x <= y
  BY LeastElement
<1> QED BY <1>1 DEF Min

\* The index of a bit that is clear, or the invalid one.
LEMMA FreeIsUnused ==
  ASSUME NEW Names, NEW m \in Tables(Names)
  PROVE  /\ GetFree(m) \in Nat
         /\ GetFree(m) # INVALID_GDT_IDX => GetFree(m) \in Indices \ m.used
<1> DEFINE S == ((0 .. NO_AVL_DSCRPTS - 1) \ m.used) \cup {INVALID_GDT_IDX}
<1>1. S \in SUBSET Nat /\ S # {}
  BY TableAssumption DEF INVALID_GDT_IDX
<1>2. Min(S) \in S
  BY <1>1, LeastIs
<1>3. GetFree(m) = Min(S)
  BY DEF GetFree
<1> HIDE DEF S
<1>4. GetFree(m) \in S
  BY <1>2, <1>3
<1>5. GetFree(m) \in Nat
  BY <1>1, <1>4
<1>6. GetFree(m) = INVALID_GDT_IDX \/ GetFree(m) \in Indices \ m.used
  BY <1>4 DEF S, Indices
<1> QED BY <1>5, <1>6

\* What a write does: one descriptor is set and marked, the others stay.
LEMMA WriteMarks ==
  ASSUME NEW Names, NEW m \in Tables(Names), NEW i \in Indices, NEW d \in Descrs
  PROVE  LET w == Write(m, i, d)
         IN /\ w \in Tables(Names)
            /\ w.used = m.used \cup {i} /\ w.slot = m.slot
            /\ w.gdt[i] = d
            /\ \A k \in Indices \ {i} : w.gdt[k] = m.gdt[k]
<1> DEFINE w == Write(m, i, d)
<1>1. m = [used |-> m.used, low |-> m.low, gdt |-> m.gdt, slot |-> m.slot]
  BY DEF Tables
<1>2. /\ m.used \in SUBSET Indices /\ m.low \in SUBSET Nat /\ m.gdt \in [Indices -> Descrs]
      /\ m.slot \in [1 .. MAX_NO_PROCS -> Slots(Names)]
  BY DEF Tables
<1>3. w.used = m.used \cup {i} /\ w.slot = m.slot /\ w.gdt = [m.gdt EXCEPT ![i] = d]
  BY <1>1, <1>2 DEF Write
<1>4. w \in Tables(Names)
  BY DEF Write, Tables
<1>5. w.gdt[i] = d /\ \A k \in Indices \ {i} : w.gdt[k] = m.gdt[k]
  BY <1>2, <1>3
<1> QED BY <1>3, <1>4, <1>5

LEMMA FreeKeeps ==
  ASSUME NEW Names, NEW m \in Tables(Names), NEW D \in SUBSET Nat
  PROVE  LET w == Free(m, D)
         IN /\ w \in Tables(Names)
            /\ w.used = m.used /\ w.slot = m.slot /\ w.gdt = m.gdt
<1> DEFINE w == Free(m, D)
           bytes == {i \div 8 : i \in D}
<1>1. m = [used |-> m.used, low |-> m.low, gdt |-> m.gdt, slot |-> m.slot]
  BY DEF Tables
<1>2. bytes \in SUBSET Nat
  BY Division
<1>3. w = [used |-> m.used, low |-> m.low \cup bytes, gdt |-> m.gdt, slot |-> m.slot]
  BY <1>1 DEF Free
<1> HIDE DEF bytes
<1>4. w \in Tables(Names)
  <2>1. /\ m.used \in SUBSET Indices /\ m.low \cup bytes \in SUBSET Nat
        /\ m.gdt \in [Indices -> Descrs] /\ m.slot \in [1 .. MAX_NO_PROCS -> Slots(Names)]
    BY <1>2 DEF Tables
  <2> QED BY <1>3, <2>1 DEF Tables
<1> QED BY <1>3, <1>4
-----------------------------------------------------------------------------
(***************************************************************************)
(* create_process                                                          *)
(***************************************************************************)
\* What create_process is asked for.
Wanted(args) ==
  \A s \in Segments : args.base[s] \in Nat /\ args.base[s] # NO_BASE /\ args.limit[s] \in Nat

\* m was the table at the start of the call, c is what the segments done so far
\* have made of it.
Kept(Names, m, n) ==
  /\ n \in Tables(Names) /\ n.slot = m.slot /\ m.used \subseteq n.used
  /\ \A k \in m.used : n.gdt[k] = m.gdt[k]

Own(m, c, args, done) ==
  /\ \A s \in done : /\ c.sel[s] \in c.m.used \ m.used
                     /\ c.m.gdt[c.sel[s]] = SegmentDescriptor(args.limit[s], args.base[s])
                     /\ MemAreaValid(args.base[s], args.limit[s], s = "gs")
  /\ \A r, s \in done : c.sel[r] = c.sel[s] => r = s

Adding(Names, m, c, args, done) ==
  /\ c = [m |-> c.m, sel |-> c.sel, ok |-> c.ok]
  /\ Kept(Names, m, c.m) /\ c.sel \in [Segments -> Nat] /\ c.ok \in BOOLEAN
  /\ c.ok => Own(m, c, args, done)

LEMMA AddSegmentKeeps ==
  ASSUME NEW Names, NEW m \in Tables(Names), NEW args, Wanted(args), NEW c,
         NEW done \in SUBSET Segments, NEW s \in Segments \ done,
         Adding(Names, m, c, args, done)
  PROVE  Adding(Names, m, AddSegment(c, args, s), args, done \cup {s})
<1> DEFINE i == GetFree(c.m)
           d == SegmentDescriptor(args.limit[s], args.base[s])
           e == AddSegment(c, args, s)
<1>1. args.base[s] \in Nat /\ args.base[s] # NO_BASE /\ args.limit[s] \in Nat
  BY DEF Wanted
<1>2. c.m \in Tables(Names) /\ c.m.slot = m.slot /\ m.used \subseteq c.m.used
  BY DEF Adding, Kept
<1>3. CASE ~c.ok
  <2>1. e = c
    BY <1>3 DEF AddSegment
  <2> QED BY <1>3, <2>1 DEF Adding
<1>4. CASE c.ok /\ ~Grantable(c.m, args, s)
  <2>1. e = [c EXCEPT !.ok = FALSE]
    BY <1>1, <1>4 DEF AddSegment
  <2>2. e.m = c.m /\ e.sel = c.sel /\ e.ok = FALSE /\ e = [m |-> e.m, sel |-> e.sel, ok |-> e.ok]
    <3>1. c = [m |-> c.m, sel |-> c.sel, ok |-> c.ok]
      BY DEF Adding
    <3> HIDE DEF e
    <3> QED BY <2>1, <3>1
  <2> HIDE DEF e
  <2>3. Adding(Names, m, e, args, done \cup {s})
    BY <2>2 DEF Adding
  <2> QED BY <2>3 DEF e
<1>5. CASE c.ok /\ Grantable(c.m, args, s)
  <2> DEFINE w == Write(c.m, i, d)
  <2>1. e = Grant(c, args, s)
    BY <1>1, <1>5 DEF AddSegment
  <2>2. /\ e.m = w /\ e.sel = [c.sel EXCEPT ![s] = i] /\ e.ok = TRUE
        /\ e = [m |-> e.m, sel |-> e.sel, ok |-> e.ok]
    <3>1. c = [m |-> c.m, sel |-> c.sel, ok |-> c.ok] /\ c.ok = TRUE /\ c.sel \in [Segments -> Nat]
      BY <1>5 DEF Adding
    <3>2. Grant(c, args, s) = [c EXCEPT !.m = w, !.sel[s] = i]
      BY DEF Grant
    <3> HIDE DEF e, w, i
    <3> QED BY <2>1, <3>1, <3>2
  <2>3. i \in Indices \ c.m.used /\ i \in Nat
    BY <1>2, <1>5, FreeIsUnused DEF Grantable
  <2>4. d \in Descrs
    BY <1>1, SegmentDescriptorIsOne
  <2>5. /\ w \in Tables(Names) /\ w.used = c.m.used \cup {i} /\ w.slot = c.m.slot
        /\ w.gdt[i] = d /\ \A k \in Indices \ {i} : w.gdt[k] = c.m.gdt[k]
    BY <1>2, <2>3, <2>4, WriteMarks
  <2>6. MemAreaValid(args.base[s], args.limit[s], s = "gs")
    BY <1>5 DEF Grantable
  <2> HIDE DEF w, i, d, e
  <2>7. c.m.used \subseteq Indices
    BY <1>2 DEF Tables
  <2>8. Kept(Names, m, w)
    BY <1>2, <2>3, <2>5, <2>7 DEF Adding, Kept
  <2>9. e.m = w /\ e.sel \in [Segments -> Nat] /\ e.ok = TRUE /\ e.sel[s] = i
        /\ \A r \in Segments \ {s} : e.sel[r] = c.sel[r]
    BY <2>2, <2>3 DEF Adding
  <2>10. Own(m, c, args, done)
    BY <1>5 DEF Adding
  <2>11. ASSUME NEW r \in done
         PROVE  /\ e.sel[r] = c.sel[r] /\ e.sel[r] \in c.m.used \ m.used /\ e.sel[r] # i
                /\ e.m.gdt[e.sel[r]] = SegmentDescriptor(args.limit[r], args.base[r])
                /\ MemAreaValid(args.base[r], args.limit[r], r = "gs")
    <3>1. e.sel[r] = c.sel[r]
      BY <2>9
    <3>2. c.sel[r] \in c.m.used \ m.used
      BY <2>10 DEF Own
    <3>3. c.sel[r] \in Indices \ {i}
      BY <2>3, <2>7, <3>2
    <3>4. w.gdt[c.sel[r]] = c.m.gdt[c.sel[r]]
      BY <2>5, <3>3
    <3> QED BY <2>9, <2>10, <3>1, <3>2, <3>3, <3>4 DEF Own
  <2>12. e.sel[s] \in e.m.used \ m.used /\ e.m.gdt[e.sel[s]] = d
    BY <1>2, <2>3, <2>5, <2>9
  <2>13. \A r \in done \cup {s} :
           /\ e.sel[r] \in e.m.used \ m.used
           /\ e.m.gdt[e.sel[r]] = SegmentDescriptor(args.limit[r], args.base[r])
           /\ MemAreaValid(args.base[r], args.limit[r], r = "gs")
    BY <2>5, <2>6, <2>9, <2>11, <2>12 DEF d
  <2>14. \A q, r \in done \cup {s} : e.sel[q] = e.sel[r] => q = r
    BY <2>9, <2>10, <2>11 DEF Own
  <2>15. Own(m, e, args, done \cup {s})
    BY <2>13, <2>14 DEF Own
  <2>16. Adding(Names, m, e, args, done \cup {s})
    BY <2>2, <2>8, <2>9, <2>15 DEF Adding
  <2> QED BY <2>16 DEF e
<1> QED BY <1>3, <1>4, <1>5

LEMMA AddSegmentsKeep ==
  ASSUME NEW Names, NEW m \in Tables(Names), NEW args, Wanted(args)
  PROVE  Adding(Names, m, AddSegments(m, args), args, Segments)
<1> DEFINE none == [m |-> m, sel |-> NoSelectors, ok |-> TRUE]
           cs == AddSegment(none, args, "cs")
           ds == AddSegment(cs, args, "ds")
           es == AddSegment(ds, args, "es")
           fs == AddSegment(es, args, "fs")
           gs == AddSegment(fs, args, "gs")
           ss == AddSegment(gs, args, "ss")
<1>1. Adding(Names, m, none, args, {})
  BY DEF Adding, Kept, Own, NoSelectors
<1>2. "cs" \in Segments \ {} /\ {} \cup {"cs"} = {"cs"}
  BY DEF Segments
<1>3. {"cs"} \in SUBSET Segments /\ "ds" \in Segments \ {"cs"} /\ {"cs"} \cup {"ds"} = {"cs", "ds"}
  BY DEF Segments
<1>4. /\ {"cs", "ds"} \in SUBSET Segments /\ "es" \in Segments \ {"cs", "ds"}
      /\ {"cs", "ds"} \cup {"es"} = {"cs", "ds", "es"}
  BY DEF Segments
<1>5. /\ {"cs", "ds", "es"} \in SUBSET Segments /\ "fs" \in Segments \ {"cs", "ds", "es"}
      /\ {"cs", "ds", "es"} \cup {"fs"} = {"cs", "ds", "es", "fs"}
  BY DEF Segments
<1>6. /\ {"cs", "ds", "es", "fs"} \in SUBSET Segments
      /\ "gs" \in Segments \ {"cs", "ds", "es", "fs"}
      /\ {"cs", "ds", "es", "fs"} \cup {"gs"} = {"cs", "ds", "es", "fs", "gs"}
  BY DEF Segments
<1>7. /\ {"cs", "ds", "es", "fs", "gs"} \in SUBSET Segments
      /\ "ss" \in Segments \ {"cs", "ds", "es", "fs", "gs"}
      /\ {"cs", "ds", "es", "fs", "gs"} \cup {"ss"} = Segments
  BY DEF Segments
<1>8. AddSegments(m, args) = ss
  BY DEF AddSegments
<1> HIDE DEF none, cs, ds, es, fs, gs, ss
<1>9. Adding(Names, m, cs, args, {"cs"})
  <2>1. Adding(Names, m, cs, args, {} \cup {"cs"})
    BY <1>1, <1>2, AddSegmentKeeps DEF cs
  <2> QED BY <2>1, <1>2
<1>10. Adding(Names, m, ds, args, {"cs", "ds"})
  <2>1. Adding(Names, m, ds, args, {"cs"} \cup {"ds"})
    BY <1>9, <1>3, AddSegmentKeeps DEF ds
  <2> QED BY <2>1, <1>3
<1>11. Adding(Names, m, es, args, {"cs", "ds", "es"})
  <2>1. Adding(Names, m, es, args, {"cs", "ds"} \cup {"es"})
    BY <1>10, <1>4, AddSegmentKeeps DEF es
  <2> QED BY <2>1, <1>4
<1>12. Adding(Names, m, fs, args, {"cs", "ds", "es", "fs"})
  <2>1. Adding(Names, m, fs, args, {"cs", "ds", "es"} \cup {"fs"})
    BY <1>11, <1>5, AddSegmentKeeps DEF fs
  <2> QED BY <2>1, <1>5
<1>13. Adding(Names, m, gs, args, {"cs", "ds", "es", "fs", "gs"})
  <2>1. Adding(Names, m, gs, args, {"cs", "ds", "es", "fs"} \cup {"gs"})
    BY <1>12, <1>6, AddSegmentKeeps DEF gs
  <2> QED BY <2>1, <1>6
<1>14. Adding(Names, m, ss, args, Segments)
  <2>1. Adding(Names, m, ss, args, {"cs", "ds", "es", "fs", "gs"} \cup {"ss"})
    BY <1>13, <1>7, AddSegmentKeeps DEF ss
  <2> QED BY <2>1, <1>7
<1> QED BY <1>8, <1>14

\* What a call of create_process makes of the table m: the new process has seven
\* descriptors that were free, and what belongs to others stays as it was.
NewProcess(m, c, args) ==
  LET new == c.m.slot[c.slot]
  IN /\ c.slot \in EmptySlots(m) /\ \A j \in EmptySlots(m) : c.slot <= j
     /\ \A j \in (1 .. MAX_NO_PROCS) \ {c.slot} : c.m.slot[j] = m.slot[j]
     /\ ~new.empty /\ new.name = args.name
     /\ \A s \in Segments : new.sel[s] \in c.m.used \ m.used /\ new.sel[s] # new.tss
     /\ \A r, s \in Segments : new.sel[r] = new.sel[s] => r = s
     /\ new.tss \in c.m.used \ m.used
     /\ c.m.gdt[new.sel["ds"]] = SegmentDescriptor(args.limit["ds"], args.base["ds"])
     /\ MemAreaValid(args.base["ds"], args.limit["ds"], FALSE)

Created(Names, m, c, args) ==
  /\ c.m \in Tables(Names) /\ m.used \subseteq c.m.used
  /\ \A k \in m.used : c.m.gdt[k] = m.gdt[k]
  /\ c.slot = 0 => c.m.slot = m.slot
  /\ c.slot # 0 => NewProcess(m, c, args)

LEMMA CreateKeeps ==
  ASSUME NEW Names, NEW m \in Tables(Names), NEW args, Wanted(args), args.name \in Names
  PROVE  Created(Names, m, Create(m, args), args)
<1> DEFINE E == EmptySlots(m)
           i == Min(E)
           a == AddSegments(m, args)
           tss == GetFree(a.m)
           d == Descriptor(TssSize, TssAt[i], FALSE)
           w == Write(a.m, tss, d)
           new == [empty |-> FALSE, name |-> args.name, sel |-> a.sel, tss |-> tss]
           granted == {a.sel[s] : s \in Segments} \ {0}
           c == Create(m, args)
<1>1. Adding(Names, m, a, args, Segments)
  BY AddSegmentsKeep
<1>2. /\ a.m \in Tables(Names) /\ a.m.slot = m.slot /\ m.used \subseteq a.m.used
      /\ \A k \in m.used : a.m.gdt[k] = m.gdt[k]
      /\ a.sel \in [Segments -> Nat] /\ a.ok \in BOOLEAN
  BY <1>1 DEF Adding, Kept
<1>3. E \in SUBSET (1 .. MAX_NO_PROCS) /\ E \in SUBSET Nat
  BY DEF EmptySlots
<1>4. CASE E = {}
  <2>1. c = [m |-> m, slot |-> 0]
    BY <1>4 DEF Create
  <2> HIDE DEF c
  <2>2. Created(Names, m, c, args)
    BY <2>1 DEF Created
  <2> QED BY <2>2 DEF c
<1>5. CASE E # {} /\ ~(a.ok /\ tss # INVALID_GDT_IDX)
  <2>1. c = [m |-> Free(a.m, granted), slot |-> 0]
    BY <1>2, <1>5 DEF Create
  <2>2. granted \in SUBSET Nat
    BY <1>2
  <2> DEFINE f == Free(a.m, granted)
  <2>3. f \in Tables(Names) /\ f.used = a.m.used /\ f.slot = a.m.slot /\ f.gdt = a.m.gdt
    BY <1>2, <2>2, FreeKeeps
  <2>4. c.m = f /\ c.slot = 0
    BY <2>1
  <2> HIDE DEF c, f
  <2>5. Created(Names, m, c, args)
    BY <1>2, <2>3, <2>4 DEF Created
  <2> QED BY <2>5 DEF c
<1>6. CASE E # {} /\ a.ok /\ tss # INVALID_GDT_IDX
  <2>1. c = [m |-> [w EXCEPT !.slot[i] = new], slot |-> i]
    BY <1>6 DEF Create
  <2>2. i \in E /\ \A j \in E : i <= j
    BY <1>3, <1>6, LeastIs
  <2>3. i \in 1 .. MAX_NO_PROCS /\ i # 0
    BY <1>3, <2>2
  <2>4. tss \in Indices \ a.m.used /\ tss \in Nat
    BY <1>2, <1>6, FreeIsUnused
  <2>5. d \in Descrs
    <3>1. TssSize \in Nat /\ TssAt[i] \in Nat
      BY <2>3, TableAssumption
    <3> QED BY <3>1, DescriptorIsOne
  <2>6. /\ w \in Tables(Names) /\ w.used = a.m.used \cup {tss} /\ w.slot = a.m.slot
        /\ w.gdt[tss] = d /\ \A k \in Indices \ {tss} : w.gdt[k] = a.m.gdt[k]
    <3> HIDE DEF a, tss, d
    <3>1. a.m \in Tables(Names) /\ tss \in Indices /\ d \in Descrs
      BY <1>2, <2>4, <2>5
    <3> QED BY <3>1, WriteMarks
  <2>7. new \in Slots(Names)
    BY <1>2, <2>4 DEF Slots
  <2>8. new.empty = FALSE /\ new.name = args.name /\ new.sel = a.sel /\ new.tss = tss
    OBVIOUS
  <2> HIDE DEF w, new, d, i, E, tss
  <2>9. c.m = [w EXCEPT !.slot[i] = new] /\ c.slot = i
    BY <2>1
  <2> HIDE DEF c
  <2>10. c.m \in Tables(Names)
    BY <2>3, <2>6, <2>7, <2>9 DEF Tables
  <2>11. /\ c.m.used = w.used /\ c.m.gdt = w.gdt
         /\ c.m.slot = [w.slot EXCEPT ![i] = new]
    <3>1. w = [used |-> w.used, low |-> w.low, gdt |-> w.gdt, slot |-> w.slot]
      BY <2>6 DEF Tables
    <3> DEFINE z == [w EXCEPT !.slot[i] = new]
    <3>2. z.used = w.used
      BY <3>1
    <3>3. z.gdt = w.gdt
      BY <3>1
    <3>4. z.slot = [w.slot EXCEPT ![i] = new]
      BY <3>1
    <3> HIDE DEF z
    <3>5. c.m = z
      BY <2>9 DEF z
    <3> QED BY <3>2, <3>3, <3>4, <3>5
  <2>12. w.slot \in [1 .. MAX_NO_PROCS -> Slots(Names)] /\ a.m.used \subseteq Indices
    BY <1>2, <2>6 DEF Tables
  <2>13. c.m.slot[i] = new /\ \A j \in (1 .. MAX_NO_PROCS) \ {i} : c.m.slot[j] = m.slot[j]
    <3> DEFINE u == w.slot
    <3>1. u = m.slot /\ c.m.slot = [u EXCEPT ![i] = new] /\ u \in [1 .. MAX_NO_PROCS -> Slots(Names)]
      BY <1>2, <2>6, <2>11, <2>12
    <3> HIDE DEF u, a
    <3> QED BY <2>3, <3>1
  <2>14. \A k \in a.m.used : c.m.gdt[k] = a.m.gdt[k]
    BY <2>4, <2>6, <2>11, <2>12
  <2>15. m.used \subseteq c.m.used /\ \A k \in m.used : c.m.gdt[k] = m.gdt[k]
    BY <1>2, <2>6, <2>11, <2>14
  <2>16. Own(m, a, args, Segments)
    BY <1>1, <1>6 DEF Adding
  <2>17. \A s \in Segments : a.sel[s] \in a.m.used \ m.used
    BY <2>16 DEF Own
  <2>18. \A s \in Segments : new.sel[s] \in c.m.used \ m.used /\ new.sel[s] # new.tss
    BY <2>4, <2>6, <2>8, <2>11, <2>17
  <2>19. \A r, s \in Segments : new.sel[r] = new.sel[s] => r = s
    BY <2>8, <2>16 DEF Own
  <2>20. new.tss \in c.m.used \ m.used
    BY <1>2, <2>4, <2>6, <2>8, <2>11
  <2>21. "ds" \in Segments /\ ("ds" = "gs") = FALSE
    BY DEF Segments
  <2>22. /\ a.m.gdt[a.sel["ds"]] = SegmentDescriptor(args.limit["ds"], args.base["ds"])
         /\ MemAreaValid(args.base["ds"], args.limit["ds"], FALSE)
    <3>1. MemAreaValid(args.base["ds"], args.limit["ds"], "ds" = "gs")
      BY <2>16, <2>21 DEF Own
    <3> QED BY <2>16, <2>21, <3>1 DEF Own
  <2>23. c.m.gdt[new.sel["ds"]] = SegmentDescriptor(args.limit["ds"], args.base["ds"])
    BY <2>8, <2>14, <2>17, <2>21, <2>22
  <2>24. NewProcess(m, c, args)
    BY <2>2, <2>8, <2>9, <2>13, <2>18, <2>19, <2>20, <2>22, <2>23 DEF NewProcess, E
  <2>25. Created(Names, m, c, args)
    BY <2>3, <2>9, <2>10, <2>15, <2>24 DEF Created
  <2> QED BY <2>25 DEF c
<1> QED BY <1>2, <1>4, <1>5, <1>6

\* syscall_exit empties the slot and leaves the descriptors as they are.
Emptied(Names, m, r) ==
  /\ r \in Tables(Names) /\ r.used = m.used /\ r.gdt = m.gdt
  /\ \A j \in 1 .. MAX_NO_PROCS : /\ r.slot[j].name = m.slot[j].name
                                  /\ r.slot[j].sel = m.slot[j].sel
                                  /\ r.slot[j].tss = m.slot[j].tss

LEMMA ReleaseKeeps ==
  ASSUME NEW Names, NEW m \in Tables(Names), NEW i \in 1 .. MAX_NO_PROCS
  PROVE  Emptied(Names, m, Release(m, i))
<1> DEFINE e == [m EXCEPT !.slot[i].empty = TRUE]
           D == {m.slot[i].sel[s] : s \in Segments} \cup {0}
           r == Free(e, D)
<1>1. m.slot \in [1 .. MAX_NO_PROCS -> Slots(Names)]
  BY DEF Tables
<1>2. /\ e.used = m.used /\ e.gdt = m.gdt
      /\ e.slot = [m.slot EXCEPT ![i].empty = TRUE]
  BY DEF Tables
<1>3. e \in Tables(Names)
  BY DEF Tables, Slots
<1>4. m.slot[i].sel \in [Segments -> Nat]
  BY <1>1 DEF Slots
<1>5. D \in SUBSET Nat
  BY <1>4
<1> HIDE DEF e, D
<1>6. r \in Tables(Names) /\ r.used = e.used /\ r.slot = e.slot /\ r.gdt = e.gdt
  BY <1>3, <1>5, FreeKeeps
<1>7. ASSUME NEW j \in 1 .. MAX_NO_PROCS
      PROVE  /\ e.slot[j].name = m.slot[j].name
             /\ e.slot[j].sel = m.slot[j].sel
             /\ e.slot[j].tss = m.slot[j].tss
  <2>1. m.slot[j] \in Slots(Names) /\ m.slot[i] \in Slots(Names)
    BY <1>1
  <2>2. e.slot[j] = IF j = i THEN [m.slot[i] EXCEPT !.empty = TRUE] ELSE m.slot[j]
    BY <1>1, <1>2
  <2> QED BY <2>1, <2>2 DEF Slots
<1>8. Release(m, i) = r
  BY DEF Release, e, D
<1> HIDE DEF r
<1> QED BY <1>2, <1>6, <1>7, <1>8 DEF Emptied

-----------------------------------------------------------------------------
(***************************************************************************)
(* The kernel: who drives a port.                                          *)
(***************************************************************************)
USE RunQueueAssumption, IpcAssumption

kvars == <<vars, kernelVars>>

\* Only the owner of a port was ever its driver: OneDriverPerPort alone is not
\* inductive, because it does not say who may come next.
Driven(accessers, who) ==
  /\ accessers \in [Ports -> Owners]
  /\ who \in [Ports -> SUBSET Procs]
  /\ \A n \in Ports : who[n] \subseteq {accessers[n]}

DInv == Driven(port_accessers, drivers)

\* The words that programs pass name ports.
LEMMA PortsAreNamed == \A port \in PortArgs : port % NUM_PORTS \in Ports
  BY KernelAssumption DEF Ports

\* A claim that is granted goes to a port without owner, which has no driver, or
\* leaves the owner.
LEMMA ClaimKeeps ==
  ASSUME NEW p \in Procs, NEW n \in Ports, DInv, ClaimPort(p, n), UNCHANGED drivers
  PROVE  DInv'
<1>1. CASE UNCHANGED port_accessers
  BY <1>1 DEF DInv, Driven
<1>2. CASE MayClaim(p, n) /\ port_accessers' = [port_accessers EXCEPT ![n] = p]
  <2>1. port_accessers' \in [Ports -> Owners]
    BY <1>2 DEF DInv, Driven, Owners
  <2>2. ASSUME NEW m \in Ports
        PROVE  drivers[m] \subseteq {port_accessers'[m]}
    <3>1. CASE m = n
      <4>1. drivers[n] \subseteq {port_accessers[n]} /\ drivers[n] \subseteq Procs
        BY DEF DInv, Driven
      <4>2. port_accessers'[n] = p
        BY <1>2 DEF DInv, Driven
      <4>3. port_accessers[n] \in {NULL, p}
        BY <1>2 DEF MayClaim
      <4> QED BY <3>1, <4>1, <4>2, <4>3, RunQueueAssumption
    <3>2. CASE m # n
      BY <1>2, <3>2 DEF DInv, Driven
    <3> QED BY <3>1, <3>2
  <2> QED BY <2>1, <2>2 DEF DInv, Driven
<1> QED BY <1>1, <1>2 DEF ClaimPort

\* Whoever reaches a port is its owner.
LEMMA UseKeeps ==
  ASSUME NEW p \in Procs, NEW n \in Ports, DInv, UsePort(p, n), UNCHANGED port_accessers
  PROVE  DInv'
<1>1. CASE UNCHANGED drivers
  BY <1>1 DEF DInv, Driven
<1>2. CASE port_accessers[n] = p /\ drivers' = [drivers EXCEPT ![n] = @ \cup {p}]
  BY <1>2 DEF DInv, Driven
<1> QED BY <1>1, <1>2 DEF UsePort

\* Every other step leaves both alone.
LEMMA StepKeeps ==
  ASSUME DInv, [KNext]_kvars
  PROVE  DInv'
<1> SUFFICES ASSUME ~UNCHANGED <<port_accessers, drivers>> PROVE DInv'
  BY DEF DInv, Driven
<1>1. PICK p \in Procs : KSyscall(p)
  BY DEF KNext, kvars, kernelVars, CreateProgram, EnableInterrupts, Entry, KInterrupt, Exception
<1>2. PICK port \in PortArgs :
        \/ ClaimPort(p, port % NUM_PORTS) /\ UNCHANGED drivers
        \/ UsePort(p, port % NUM_PORTS) /\ UNCHANGED port_accessers
  BY <1>1 DEF KSyscall
<1>3. port % NUM_PORTS \in Ports
  BY PortsAreNamed
<1> QED BY <1>2, <1>3, ClaimKeeps, UseKeeps

\* claim_port, the four accesses and exit: a device is driven by one process for
\* good, whatever the other calls, the boot and the interrupts do.
THEOREM OneDriver == KSpec => []OneDriverPerPort
<1>1. KInit => DInv
  BY DEF KInit, DInv, Driven, Owners
<1>2. DInv /\ [KNext]_kvars => DInv'
  BY StepKeeps
<1>3. DInv => OneDriverPerPort
  <2> SUFFICES ASSUME DInv, NEW n \in Ports PROVE Cardinality(drivers[n]) <= 1
    BY DEF OneDriverPerPort
  <2>1. drivers[n] \subseteq {port_accessers[n]}
    BY DEF DInv, Driven
  <2>2. drivers[n] = {} \/ drivers[n] = {port_accessers[n]}
    BY <2>1
  <2>3. Cardinality({}) = 0 /\ Cardinality({port_accessers[n]}) = 1
    BY FS_EmptySet, FS_Singleton, Zenon
  <2> QED BY <2>2, <2>3
<1> QED BY <1>1, <1>2, <1>3, PTL DEF KSpec, kvars
-----------------------------------------------------------------------------
(***************************************************************************)
(* Where the programs lie.                                                 *)
(***************************************************************************)
Places(boot, end) ==
  end = [i \in 0 .. Len(boot) |-> IF i = 0 THEN KernelEnd ELSE end[i - 1] + boot[i].size]

LEMMA BootIs ==
  ASSUME NEW boot \in Boots
  PROVE  /\ Len(boot) \in Nat /\ DOMAIN boot = 1 .. Len(boot)
         /\ \A i \in 1 .. Len(boot) : /\ boot[i].name \in Procs
                                      /\ boot[i].size \in 1 .. OneMeg - 1
                                      /\ boot[i].size \in Nat \ {0}
         /\ \A i, j \in 1 .. Len(boot) : boot[i].name = boot[j].name => i = j
<1>1. boot \in Seq([name : Procs, size : 1 .. OneMeg - 1])
  BY KernelAssumption
<1>2. Len(boot) \in Nat /\ DOMAIN boot = 1 .. Len(boot)
  BY <1>1
<1>3. \A i \in 1 .. Len(boot) : boot[i] \in [name : Procs, size : 1 .. OneMeg - 1]
  <2> DEFINE R == [name : Procs, size : 1 .. OneMeg - 1]
  <2> HIDE DEF R
  <2>1. boot \in Seq(R)
    BY <1>1 DEF R
  <2>2. \A i \in 1 .. Len(boot) : boot[i] \in R
    BY <2>1
  <2> QED BY <2>2 DEF R
<1>4. \A i \in 1 .. Len(boot) : boot[i].name \in Procs /\ boot[i].size \in 1 .. OneMeg - 1
  BY <1>3
<1>5. \A i, j \in 1 .. Len(boot) : boot[i].name = boot[j].name => i = j
  BY <1>2, KernelAssumption
<1> QED BY <1>2, <1>4, <1>5, Fields

\* Each program begins where the one before it ends.
LEMMA EndsAre ==
  ASSUME NEW boot \in Boots
  PROVE  /\ Ends(boot) \in [0 .. Len(boot) -> Nat]
         /\ \A i \in 1 .. Len(boot) : Ends(boot)[i] = Ends(boot)[i - 1] + boot[i].size
<1> DEFINE D == [n \in Nat |-> [x \in Nat |-> x + (IF n \in 1 .. Len(boot) THEN boot[n].size ELSE 0)]]
<1>1. Len(boot) \in Nat /\ \A i \in 1 .. Len(boot) : boot[i].size \in Nat
  BY BootIs
<1>2. D \in [Nat -> [Nat -> Nat]]
  BY <1>1
<1>3. PICK f \in [0 .. Len(boot) -> Nat] : Iterates(f, Len(boot), KernelEnd, D)
  <2> HIDE DEF D
  <2> QED BY <1>1, <1>2, IteratesExist, KernelAssumption
<1>4. Places(boot, f)
  <2>1. f = [n \in 0 .. Len(boot) |-> IF n = 0 THEN KernelEnd ELSE D[n][f[n - 1]]]
    BY <1>3 DEF Iterates
  <2>2. ASSUME NEW n \in 0 .. Len(boot), n # 0
        PROVE  D[n][f[n - 1]] = f[n - 1] + boot[n].size
    <3>1. n \in 1 .. Len(boot) /\ n \in Nat /\ n - 1 \in 0 .. Len(boot)
      BY <1>1, <2>2
    <3>2. f[n - 1] \in Nat
      BY <3>1
    <3> QED BY <3>1, <3>2
  <2> HIDE DEF D
  <2> QED BY <2>1, <2>2 DEF Places
<1>5. Ends(boot) = CHOOSE end : Places(boot, end)
  BY DEF Ends, Places
<1>6. Places(boot, Ends(boot))
  BY <1>4, <1>5
<1>7. Ends(boot)[0] = KernelEnd
  BY <1>1, <1>6 DEF Places
<1>8. \A i \in 1 .. Len(boot) : Ends(boot)[i] = Ends(boot)[i - 1] + boot[i].size
  BY <1>1, <1>6 DEF Places
<1> DEFINE S == {n \in Nat : n <= Len(boot) => Ends(boot)[n] \in Nat}
<1>9. 0 \in S
  BY <1>7, KernelAssumption
<1>10. \A n \in S : n + 1 \in S
  <2> SUFFICES ASSUME NEW n \in S PROVE n + 1 \in S
    OBVIOUS
  <2>0. n \in Nat /\ n + 1 \in Nat
    OBVIOUS
  <2> SUFFICES ASSUME n + 1 <= Len(boot) PROVE Ends(boot)[n + 1] \in Nat
    BY <2>0
  <2>1. n + 1 \in 1 .. Len(boot) /\ (n + 1) - 1 = n /\ Ends(boot)[n] \in Nat
    BY <1>1
  <2> QED BY <1>1, <1>8, <2>1
<1>11. S = Nat
  <2> HIDE DEF S
  <2>1. S \in SUBSET Nat
    BY DEF S
  <2> QED BY <1>9, <1>10, <2>1, SetInduction
<1>12. \A n \in 0 .. Len(boot) : Ends(boot)[n] \in Nat
  BY <1>1, <1>11
<1>13. Ends(boot) \in [0 .. Len(boot) -> Nat]
  BY <1>6, <1>12 DEF Places
<1> QED BY <1>8, <1>13

\* They lie one behind the other, and all of them below 2^32.
LEMMA EndsGrow ==
  ASSUME NEW boot \in Boots, NEW i \in 0 .. Len(boot), NEW j \in 0 .. Len(boot), i <= j
  PROVE  Ends(boot)[i] <= Ends(boot)[j]
<1> DEFINE E == Ends(boot)
           S == {n \in Nat : i + n <= Len(boot) => E[i] <= E[i + n]}
<1>1. /\ Len(boot) \in Nat /\ E \in [0 .. Len(boot) -> Nat]
      /\ \A k \in 1 .. Len(boot) : E[k] = E[k - 1] + boot[k].size /\ boot[k].size \in Nat
  BY BootIs, EndsAre
<1> HIDE DEF E
<1>2. 0 \in S
  <2>1. i + 0 = i /\ E[i] \in Nat
    BY <1>1
  <2> QED BY <2>1
<1>3. \A n \in S : n + 1 \in S
  <2> SUFFICES ASSUME NEW n \in S PROVE n + 1 \in S
    OBVIOUS
  <2>0. n \in Nat /\ n + 1 \in Nat
    OBVIOUS
  <2> SUFFICES ASSUME i + (n + 1) <= Len(boot) PROVE E[i] <= E[i + (n + 1)]
    BY <2>0
  <2>1. /\ i + (n + 1) \in 1 .. Len(boot) /\ (i + (n + 1)) - 1 = i + n
        /\ i + n \in 0 .. Len(boot)
    BY <1>1
  <2>2. i + n <= Len(boot)
    BY <1>1, <2>0, <2>1
  <2>3. E[i] <= E[i + n]
    BY <2>2
  <2>4. E[i] \in Nat /\ E[i + n] \in Nat
    BY <1>1, <2>1
  <2>5. E[i + (n + 1)] = E[i + n] + boot[i + (n + 1)].size /\ boot[i + (n + 1)].size \in Nat
    BY <1>1, <2>1
  <2> QED BY <2>3, <2>4, <2>5
<1>4. S = Nat
  <2> HIDE DEF S
  <2>1. S \in SUBSET Nat
    BY DEF S
  <2> QED BY <1>2, <1>3, <2>1, SetInduction
<1>5. j - i \in Nat /\ i + (j - i) = j /\ j <= Len(boot)
  BY <1>1
<1>6. E[i] <= E[i + (j - i)]
  BY <1>4, <1>5
<1> QED BY <1>5, <1>6 DEF E

LEMMA ProgramsFit ==
  ASSUME NEW boot \in Boots, NEW i \in 1 .. Len(boot)
  PROVE  /\ Ends(boot)[i - 1] \in Nat /\ Ends(boot)[i - 1] # NO_BASE
         /\ Ends(boot)[i] = Ends(boot)[i - 1] + boot[i].size
         /\ Ends(boot)[i] < Word
<1>1. Len(boot) \in Nat /\ boot[i].size \in Nat \ {0}
  BY BootIs
<1>2. i \in 0 .. Len(boot) /\ i - 1 \in 0 .. Len(boot) /\ Len(boot) \in 0 .. Len(boot) /\ i <= Len(boot)
  BY <1>1
<1>3. Ends(boot)[i] <= Ends(boot)[Len(boot)] /\ Ends(boot)[Len(boot)] < Word
  BY <1>2, EndsGrow, KernelAssumption
<1>4. /\ Ends(boot)[i] \in Nat /\ Ends(boot)[i - 1] \in Nat /\ Ends(boot)[Len(boot)] \in Nat
      /\ Ends(boot)[i] = Ends(boot)[i - 1] + boot[i].size
  BY <1>2, EndsAre
<1>5. Word \in Nat
  BY Fields
<1>6. Ends(boot)[i] < Word
  BY <1>3, <1>4, <1>5
<1>7. Ends(boot)[i - 1] \in 0 .. Word - 2
  BY <1>1, <1>4, <1>5, <1>6
<1> QED BY <1>4, <1>6, <1>7, TableAssumption

\* Two programs do not overlap.
LEMMA ProgramsApart ==
  ASSUME NEW boot \in Boots, NEW i \in 1 .. Len(boot), NEW j \in 1 .. Len(boot), i # j,
         NEW x \in Ends(boot)[i - 1] .. Ends(boot)[i] - 1
  PROVE  x \notin Ends(boot)[j - 1] .. Ends(boot)[j] - 1
<1>1. Len(boot) \in Nat
  BY BootIs
<1>2. /\ i \in 0 .. Len(boot) /\ i - 1 \in 0 .. Len(boot)
      /\ j \in 0 .. Len(boot) /\ j - 1 \in 0 .. Len(boot)
  BY <1>1
<1>3. /\ Ends(boot)[i] \in Nat /\ Ends(boot)[i - 1] \in Nat
      /\ Ends(boot)[j] \in Nat /\ Ends(boot)[j - 1] \in Nat
  BY <1>2, EndsAre
<1>4. CASE i < j
  <2>1. i <= j - 1
    BY <1>1, <1>4
  <2>2. Ends(boot)[i] <= Ends(boot)[j - 1]
    BY <1>2, <2>1, EndsGrow
  <2> QED BY <1>3, <2>2
<1>5. CASE j < i
  <2>1. j <= i - 1
    BY <1>1, <1>5
  <2>2. Ends(boot)[j] <= Ends(boot)[i - 1]
    BY <1>2, <2>1, EndsGrow
  <2> QED BY <1>3, <2>2
<1> QED BY <1>1, <1>4, <1>5
-----------------------------------------------------------------------------
(***************************************************************************)
(* The table when the first n programs of boot are processes: the process  *)
(* of program i is in slot i.                                              *)
(***************************************************************************)
Named == Segments \cup {"tss"}

Placed(m, boot, i) ==
  /\ m.slot[i].name = boot[i].name
  /\ \A s \in Named : Descriptors(m.slot[i])[s] \in m.used \ KernelDescriptors
  /\ m.gdt[m.slot[i].sel["ds"]] = SegmentDescriptor(boot[i].size, Ends(boot)[i - 1])
  /\ MemAreaValid(Ends(boot)[i - 1], boot[i].size, FALSE)

NotMixed(m, n) ==
  \A i, j \in 1 .. n : \A r, s \in Named :
    Descriptors(m.slot[i])[r] = Descriptors(m.slot[j])[s] => i = j /\ r = s

Table(m, boot, n) ==
  /\ m \in Tables(Owners) /\ KernelDescriptors \subseteq m.used
  /\ n \in 0 .. Len(boot) /\ n <= MAX_NO_PROCS
  /\ \A i \in 1 .. n : Placed(m, boot, i)
  /\ \A i \in 1 .. MAX_NO_PROCS : i > n => m.slot[i].name = NULL
  /\ NotMixed(m, n)

LEMMA DescriptorsAre ==
  ASSUME NEW slot
  PROVE  /\ Descriptors(slot)["tss"] = slot.tss
         /\ \A s \in Segments : Descriptors(slot)[s] = slot.sel[s] /\ s # "tss"
         /\ DOMAIN Descriptors(slot) = Named
BY DEF Descriptors, Named, Segments

\* A table that keeps the names and the descriptors of m, and what m has
\* marked, is as good as m.
LEMMA TableKept ==
  ASSUME NEW m, NEW boot \in Boots, NEW n, Table(m, boot, n),
         NEW r \in Tables(Owners), m.used \subseteq r.used,
         \A k \in m.used : r.gdt[k] = m.gdt[k],
         \A j \in 1 .. MAX_NO_PROCS : /\ r.slot[j].name = m.slot[j].name
                                      /\ r.slot[j].sel = m.slot[j].sel
                                      /\ r.slot[j].tss = m.slot[j].tss
  PROVE  Table(r, boot, n)
<1>1. n \in Nat /\ MAX_NO_PROCS \in Nat /\ n <= MAX_NO_PROCS
  BY TableAssumption, BootIs DEF Table
<1>2. ASSUME NEW i \in 1 .. n
      PROVE  Descriptors(r.slot[i]) = Descriptors(m.slot[i])
  <2>1. i \in 1 .. MAX_NO_PROCS
    BY <1>1
  <2> QED BY <2>1 DEF Descriptors
<1>3. ASSUME NEW i \in 1 .. n
      PROVE  Placed(r, boot, i)
  <2>1. i \in 1 .. MAX_NO_PROCS
    BY <1>1
  <2>2. Placed(m, boot, i)
    BY DEF Table
  <2>3. \A s \in Named : Descriptors(r.slot[i])[s] \in r.used \ KernelDescriptors
    BY <1>2, <2>2 DEF Placed
  <2>4. "ds" \in Segments /\ "ds" \in Named
    BY DEF Segments, Named
  <2>5. m.slot[i].sel["ds"] \in m.used /\ r.slot[i].sel["ds"] = m.slot[i].sel["ds"]
    BY <2>1, <2>2, <2>4, DescriptorsAre DEF Placed
  <2>6. r.gdt[r.slot[i].sel["ds"]] = m.gdt[m.slot[i].sel["ds"]]
    BY <2>5
  <2> QED BY <2>1, <2>2, <2>3, <2>6 DEF Placed
<1>4. NotMixed(r, n)
  BY <1>2 DEF Table, NotMixed
<1>5. \A i \in 1 .. MAX_NO_PROCS : i > n => r.slot[i].name = NULL
  BY DEF Table
<1>6. KernelDescriptors \subseteq r.used
  BY DEF Table
<1> QED BY <1>3, <1>4, <1>5, <1>6 DEF Table

\* Another program has become a process, in the slot behind the others.
LEMMA TableGrows ==
  ASSUME NEW m, NEW boot \in Boots, NEW n, Table(m, boot, n), n < Len(boot),
         EmptySlots(m) = {i \in 1 .. MAX_NO_PROCS : i > n},
         NEW args, args.name = boot[n + 1].name,
         args.base["ds"] = Ends(boot)[n], args.limit["ds"] = boot[n + 1].size,
         NEW c, c.slot # 0, Created(Owners, m, c, args)
  PROVE  /\ Table(c.m, boot, n + 1)
         /\ EmptySlots(c.m) = {i \in 1 .. MAX_NO_PROCS : i > n + 1}
<1> DEFINE new == c.m.slot[c.slot]
<1>1. /\ n \in Nat /\ MAX_NO_PROCS \in Nat /\ n <= MAX_NO_PROCS /\ Len(boot) \in Nat
      /\ n + 1 \in 1 .. Len(boot)
  BY TableAssumption, BootIs DEF Table
<1>2. NewProcess(m, c, args)
  BY DEF Created
<1>3. /\ c.slot \in EmptySlots(m) /\ (\A j \in EmptySlots(m) : c.slot <= j)
      /\ \A j \in (1 .. MAX_NO_PROCS) \ {c.slot} : c.m.slot[j] = m.slot[j]
  BY <1>2 DEF NewProcess
<1>4. c.slot = n + 1 /\ n + 1 <= MAX_NO_PROCS
  <2>1. c.slot \in 1 .. MAX_NO_PROCS /\ c.slot > n
    BY <1>3
  <2>2. n + 1 \in 1 .. MAX_NO_PROCS /\ n + 1 > n
    BY <1>1, <2>1
  <2>3. c.slot <= n + 1
    BY <1>3, <2>2
  <2> QED BY <1>1, <2>1, <2>3
<1>5. \A j \in 1 .. MAX_NO_PROCS : j # n + 1 => c.m.slot[j] = m.slot[j]
  BY <1>3, <1>4
<1>6. /\ c.m \in Tables(Owners) /\ m.used \subseteq c.m.used
      /\ \A k \in m.used : c.m.gdt[k] = m.gdt[k]
  BY DEF Created
<1>7. /\ new.empty # TRUE /\ new.name = args.name
      /\ \A s \in Segments : new.sel[s] \in c.m.used \ m.used /\ new.sel[s] # new.tss
      /\ \A r, s \in Segments : new.sel[r] = new.sel[s] => r = s
      /\ new.tss \in c.m.used \ m.used
      /\ c.m.gdt[new.sel["ds"]] = SegmentDescriptor(args.limit["ds"], args.base["ds"])
      /\ MemAreaValid(args.base["ds"], args.limit["ds"], FALSE)
  BY <1>2 DEF NewProcess
<1> HIDE DEF new
<1>8. KernelDescriptors \subseteq m.used /\ KernelDescriptors \subseteq c.m.used
  BY <1>6 DEF Table
<1>9. \A s \in Named : Descriptors(new)[s] \in c.m.used \ m.used
  BY <1>7, DescriptorsAre DEF Named
<1>10. \A r, s \in Named : Descriptors(new)[r] = Descriptors(new)[s] => r = s
  <2> SUFFICES ASSUME NEW r \in Named, NEW s \in Named, Descriptors(new)[r] = Descriptors(new)[s]
               PROVE  r = s
    OBVIOUS
  <2>1. CASE r \in Segments /\ s \in Segments
    BY <1>7, <2>1, DescriptorsAre
  <2>2. CASE r \in Segments /\ s = "tss"
    BY <1>7, <2>2, DescriptorsAre
  <2>3. CASE r = "tss" /\ s \in Segments
    BY <1>7, <2>3, DescriptorsAre
  <2> QED BY <2>1, <2>2, <2>3 DEF Named
<1>11. c.m.slot[n + 1] = new
  BY <1>4 DEF new
<1>12. Placed(c.m, boot, n + 1)
  <2>1. (n + 1) - 1 = n
    BY <1>1
  <2> QED BY <1>7, <1>8, <1>9, <1>11, <2>1 DEF Placed
<1>13. ASSUME NEW i \in 1 .. n
       PROVE  /\ c.m.slot[i] = m.slot[i] /\ Placed(c.m, boot, i)
              /\ \A s \in Named : Descriptors(c.m.slot[i])[s] \in m.used
  <2>1. i \in 1 .. MAX_NO_PROCS /\ i # n + 1
    BY <1>1
  <2>2. c.m.slot[i] = m.slot[i]
    BY <1>5, <2>1
  <2>3. Placed(m, boot, i)
    BY DEF Table
  <2>4. \A s \in Named : Descriptors(m.slot[i])[s] \in m.used
    BY <2>3 DEF Placed
  <2>5. "ds" \in Segments /\ "ds" \in Named
    BY DEF Segments, Named
  <2>6. m.slot[i].sel["ds"] \in m.used
    BY <2>4, <2>5, DescriptorsAre
  <2>7. c.m.gdt[m.slot[i].sel["ds"]] = m.gdt[m.slot[i].sel["ds"]]
    BY <1>6, <2>6
  <2>8. Placed(c.m, boot, i)
    BY <1>6, <2>2, <2>3, <2>4, <2>7 DEF Placed
  <2> QED BY <2>2, <2>4, <2>8
<1>14. \A i \in 1 .. n + 1 : i \in 1 .. n \/ i = n + 1
  BY <1>1
<1>15. NotMixed(c.m, n + 1)
  <2> SUFFICES ASSUME NEW i \in 1 .. n + 1, NEW j \in 1 .. n + 1, NEW r \in Named, NEW s \in Named,
                      Descriptors(c.m.slot[i])[r] = Descriptors(c.m.slot[j])[s]
               PROVE  i = j /\ r = s
    BY DEF NotMixed
  <2>1. CASE i \in 1 .. n /\ j \in 1 .. n
    BY <1>13, <2>1 DEF Table, NotMixed
  <2>2. CASE i = n + 1 /\ j = n + 1
    BY <1>10, <1>11, <2>2
  <2>3. CASE i = n + 1 /\ j \in 1 .. n
    BY <1>9, <1>11, <1>13, <2>3
  <2>4. CASE i \in 1 .. n /\ j = n + 1
    BY <1>9, <1>11, <1>13, <2>4
  <2> QED BY <1>14, <2>1, <2>2, <2>3, <2>4
<1>16. \A i \in 1 .. MAX_NO_PROCS : i > n + 1 => c.m.slot[i].name = NULL
  BY <1>1, <1>5 DEF Table
<1>17. \A i \in 1 .. n + 1 : Placed(c.m, boot, i)
  BY <1>12, <1>13, <1>14
<1>18. n + 1 \in 0 .. Len(boot)
  BY <1>1
<1>19. Table(c.m, boot, n + 1)
  BY <1>4, <1>6, <1>8, <1>15, <1>16, <1>17, <1>18 DEF Table
<1>20. ASSUME NEW i \in 1 .. MAX_NO_PROCS
       PROVE  c.m.slot[i].empty <=> i > n + 1
  <2>1. c.m.slot[i] \in Slots(Owners)
    BY <1>6 DEF Tables
  <2>2. c.m.slot[i].empty \in BOOLEAN
    BY <2>1 DEF Slots
  <2>3. CASE i = n + 1
    <3>1. ~(i > n + 1)
      BY <1>1, <2>3
    <3>2. c.m.slot[i].empty # TRUE
      BY <1>7, <1>11, <2>3
    <3> QED BY <2>2, <3>1, <3>2, Zenon
  <2>4. CASE i # n + 1
    <3>1. c.m.slot[i] = m.slot[i]
      BY <1>5, <2>4
    <3>2. m.slot[i].empty <=> i > n
      BY DEF EmptySlots
    <3>3. i > n <=> i > n + 1
      BY <1>1, <2>4
    <3> QED BY <3>1, <3>2, <3>3, Zenon
  <2> QED BY <2>3, <2>4
<1>21. EmptySlots(c.m) = {i \in 1 .. MAX_NO_PROCS : i > n + 1}
  BY <1>20 DEF EmptySlots
<1> QED BY <1>19, <1>21
-----------------------------------------------------------------------------
(***************************************************************************)
(* The inductive invariant.  The properties speak of the buffers of        *)
(* processes that wait, so it says what is known of a buffer since it was  *)
(* looked at; and the kernel finds the program of a process through the    *)
(* table, so it says what start has made of the table so far.              *)
(***************************************************************************)
\* Nobody runs before start is done, and the programs take the slots in order.
Booting ==
  phase = STARTING =>
    /\ curptr = NULL /\ touched = {}
    /\ \A h \in Heads : list[h] = <<>>
    /\ EmptySlots(t) = {i \in 1 .. MAX_NO_PROCS : i > created}

OnlyCreatedRun == \A p \in Procs \ Processes : state[p] = {EMPTY}

\* A buffer that was looked at lies in the program, unless the sum of address
\* and length left the word.
Inside(addr, len, size) == addr + len >= Word \/ addr + len <= size

BufferInside(i) ==
  LET p == loaded[i].name
  IN RECEIVING \in state[p] \/ SENDING \in state[p] => Inside(edx[p], ecx[p], loaded[i].size)

KInv ==
  /\ IInv
  /\ loaded \in Boots /\ phase \in {STARTING, RUNNING, STOPPED}
  /\ edx \in [Procs -> 0 .. Word - 1]
  /\ Table(t, loaded, created)
  /\ Booting
  /\ OnlyCreatedRun
  /\ \A i \in 1 .. created : BufferInside(i)

\* What is known of the process of program i.
Known(i) ==
  LET p == loaded[i].name
  IN /\ p \in Procs /\ Program(p) = i /\ SlotOf(p) = i
     /\ GetBase(DataSegment(p)) = AddressOf(i)
     /\ GetLimit(DataSegment(p)) = loaded[i].size

LEMMA ProcessIsKnown ==
  ASSUME KInv, NEW i \in 1 .. created
  PROVE  Known(i)
<1> DEFINE p == loaded[i].name
<1>1. /\ loaded \in Boots /\ created \in Nat /\ created <= Len(loaded) /\ created <= MAX_NO_PROCS
      /\ MAX_NO_PROCS \in Nat /\ Len(loaded) \in Nat /\ Table(t, loaded, created)
  BY BootIs, TableAssumption DEF KInv, Table
<1>2. i \in 1 .. Len(loaded) /\ i \in 1 .. MAX_NO_PROCS
  BY <1>1
<1>3. /\ p \in Procs /\ p # NULL /\ loaded[i].size \in 0 .. OneMeg - 1
      /\ \A j \in 1 .. Len(loaded) : loaded[j].name = p => j = i
  BY <1>1, <1>2, BootIs, Fields
<1>4. Program(p) = i
  <2>1. \A j \in 1 .. created : loaded[j].name = p <=> j = i
    BY <1>1, <1>3
  <2> QED BY <2>1 DEF Program
<1>5. \A j \in 1 .. created : Placed(t, loaded, j)
  BY <1>1 DEF Table
<1>6. SlotOf(p) = i
  <2>1. ASSUME NEW j \in 1 .. MAX_NO_PROCS
        PROVE  t.slot[j].name = p <=> j = i
    <3>1. CASE j > created
      <4>1. t.slot[j].name = NULL
        BY <1>1, <3>1 DEF Table
      <4> QED BY <1>1, <1>3, <3>1, <4>1
    <3>2. CASE j \in 1 .. created
      <4>1. j \in 1 .. Len(loaded)
        BY <1>1, <3>2
      <4>2. Placed(t, loaded, j)
        BY <1>5, <3>2
      <4>3. t.slot[j].name = loaded[j].name
        BY <4>2 DEF Placed
      <4>4. loaded[i].name = p
        OBVIOUS
      <4> HIDE DEF p
      <4> QED BY <1>3, <4>1, <4>3, <4>4
    <3> QED BY <1>1, <3>1, <3>2
  <2> QED BY <1>2, <2>1 DEF SlotOf
<1>7. /\ DataSegment(p) = SegmentDescriptor(loaded[i].size, AddressOf(i))
      /\ AddressOf(i) \in Nat
  <2>1. t.gdt[t.slot[i].sel["ds"]] = SegmentDescriptor(loaded[i].size, Ends(loaded)[i - 1])
    BY <1>5 DEF Placed
  <2>2. Ends(loaded)[i - 1] \in Nat
    BY <1>1, <1>2, ProgramsFit
  <2> QED BY <1>6, <2>1, <2>2 DEF DataSegment, AddressOf
<1>8. /\ GetBase(DataSegment(p)) = AddressOf(i)
      /\ GetLimit(DataSegment(p)) = loaded[i].size
  <2>1. /\ GetLimit(SegmentDescriptor(loaded[i].size, AddressOf(i))) = loaded[i].size
        /\ GetBase(SegmentDescriptor(loaded[i].size, AddressOf(i))) = AddressOf(i)
    BY <1>3, <1>7, LimitReadsBack
  <2> QED BY <1>7, <2>1
<1> QED BY <1>3, <1>4, <1>6, <1>8 DEF Known

LEMMA KInitIsGood == KInit => KInv
<1> SUFFICES ASSUME KInit PROVE KInv
  OBVIOUS
<1>1. \A h \in Heads : list[h] = <<>> /\ DOMAIN list[h] = {}
  BY DEF KInit, Unclaimed
<1>2. \A h \in Heads, q \in Procs : ~Contains(list[h], q)
  BY <1>1 DEF Contains
<1>3. /\ ready = {} /\ curptr = NULL /\ NULL \notin Procs
      /\ \A p \in Procs : /\ state[p] = {EMPTY} /\ state[p] # {} /\ EMPTY \in state[p]
                          /\ RECEIVING \notin state[p] /\ SENDING \notin state[p]
                          /\ ~Listed(p)
  BY <1>2 DEF KInit, Listed, EMPTY, RECEIVING, SENDING
<1>4. IInv
  <2>1. TypeOK
    BY DEF KInit, Unclaimed, TypeOK, Owners, Words, OK
  <2>2. LinksNotShared
    BY <1>1 DEF LinksNotShared, NotShared
  <2>3. NobodyForgotten
    <3>1. \A p \in Procs : p \notin ready
      BY <1>3
    <3> QED BY <1>3, <3>1, Zenon DEF NobodyForgotten
  <2>4. NoMissedRendezvous /\ NoMissedInterrupt
    BY <1>3 DEF NoMissedRendezvous, NoMissedInterrupt
  <2>5. WaitersFollowSupplier
    BY <1>1 DEF WaitersFollowSupplier, Heads
  <2>6. DeadHoldNoLine
    BY <1>3 DEF KInit, Unclaimed, DeadHoldNoLine
  <2>7. RunnerIsReady /\ SuppliesItsOwn
    BY <1>3 DEF KInit, Unclaimed, RunnerIsReady, SuppliesItsOwn
  <2> QED BY <2>1, <2>2, <2>3, <2>4, <2>5, <2>6, <2>7 DEF IInv
<1>5. /\ loaded \in Boots /\ created = 0 /\ phase = STARTING /\ t = EmptyTable(NULL)
      /\ edx = [p \in Procs |-> 0] /\ touched = {} /\ Len(loaded) \in Nat
      /\ MAX_NO_PROCS \in Nat
  BY BootIs, TableAssumption DEF KInit
<1>6. edx \in [Procs -> 0 .. Word - 1]
  <2>1. 0 \in 0 .. Word - 1
    BY Fields
  <2> QED BY <1>5, <2>1
<1>7. /\ t.used = KernelDescriptors /\ t.low = {}
      /\ t.gdt = [i \in Indices |-> NullDescriptor]
      /\ t.slot = [i \in 1 .. MAX_NO_PROCS |->
                     [empty |-> TRUE, name |-> NULL, sel |-> NoSelectors, tss |-> 0]]
      /\ t = [used |-> t.used, low |-> t.low, gdt |-> t.gdt, slot |-> t.slot]
  BY <1>5 DEF EmptyTable, Indices
<1>8. t \in Tables(Owners)
  <2>1. NullDescriptor \in Descrs
    BY DescriptorIsOne DEF NullDescriptor
  <2>2. t.gdt \in [Indices -> Descrs] /\ t.used \in SUBSET Indices /\ t.low \in SUBSET Nat
    BY <1>7, <2>1, TableAssumption DEF Indices
  <2>3. [empty |-> TRUE, name |-> NULL, sel |-> NoSelectors, tss |-> 0] \in Slots(Owners)
    BY DEF Slots, NoSelectors, Owners
  <2>4. t.slot \in [1 .. MAX_NO_PROCS -> Slots(Owners)]
    BY <1>7, <2>3
  <2> HIDE DEF Tables
  <2>5. [used |-> t.used, low |-> t.low, gdt |-> t.gdt, slot |-> t.slot] \in Tables(Owners)
    BY <2>2, <2>4 DEF Tables
  <2> QED BY <1>7, <2>5
<1>9. 1 .. created = {} /\ \A i \in 1 .. MAX_NO_PROCS : i > created
  BY <1>5
<1>10. Table(t, loaded, created)
  BY <1>5, <1>7, <1>8, <1>9 DEF Table, NotMixed
<1>11. EmptySlots(t) = {i \in 1 .. MAX_NO_PROCS : i > created}
  <2>1. \A i \in 1 .. MAX_NO_PROCS : t.slot[i].empty = TRUE
    BY <1>7
  <2> QED BY <1>9, <2>1 DEF EmptySlots
<1>12. Booting
  BY <1>1, <1>3, <1>5, <1>11 DEF Booting
<1>13. OnlyCreatedRun
  <2>1. \A p \in Procs : state[p] = {EMPTY}
    BY <1>3, Zenon
  <2> QED BY <2>1, Zenon DEF OnlyCreatedRun
<1> QED BY <1>4, <1>5, <1>6, <1>9, <1>10, <1>12, <1>13 DEF KInv
-----------------------------------------------------------------------------
(***************************************************************************)
(* The entries.  An entry may block and change the buffer of the process   *)
(* that runs only; the table keeps what matters.                           *)
(***************************************************************************)
\* What an entry leaves of a process that does not run.
Stays(q) == /\ state'[q] \subseteq state[q]
            /\ EMPTY \in state[q] => EMPTY \in state'[q]
            /\ ecx'[q] = ecx[q]

\* Whoever runs, and whoever waits, is the process of a program.
LEMMA OnlyProcessesAct ==
  ASSUME KInv, NEW p \in Procs, state[p] # {EMPTY}
  PROVE  p \in Processes /\ \E i \in 1 .. created : loaded[i].name = p
<1>1. p \in Processes
  BY DEF KInv, OnlyCreatedRun
<1> QED BY <1>1 DEF Processes

LEMMA RunnerIsProcess ==
  ASSUME KInv, NEW p \in Procs, curptr = p
  PROVE  state[p] = {} /\ p \in Processes /\ \E i \in 1 .. created : loaded[i].name = p
<1>1. state[p] = {}
  BY RunnerIsFree DEF KInv
<1> QED BY <1>1, OnlyProcessesAct

\* Names are distinct.
LEMMA NamedOnce ==
  ASSUME KInv, NEW i \in 1 .. created, NEW j \in 1 .. created, loaded[i].name = loaded[j].name
  PROVE  i = j
<1>1. loaded \in Boots /\ Len(loaded) \in Nat /\ created \in 0 .. Len(loaded)
  BY BootIs DEF KInv, Table
<1>2. i \in 1 .. Len(loaded) /\ j \in 1 .. Len(loaded)
  BY <1>1
<1> QED BY <1>1, <1>2, BootIs

LEMMA EntryKeeps ==
  ASSUME KInv, phase = RUNNING, UNCHANGED bootVars, IInv',
         edx' \in [Procs -> 0 .. Word - 1], Table(t', loaded, created),
         \A q \in Procs : q # curptr => Stays(q) /\ edx'[q] = edx[q],
         \A i \in 1 .. created : loaded[i].name = curptr => BufferInside(i)'
  PROVE  KInv'
<1>1. loaded' = loaded /\ created' = created /\ phase' = phase
  BY DEF bootVars
<1>2. Processes' = Processes
  BY <1>1 DEF Processes
<1>3. Booting'
  BY <1>1 DEF Booting, STARTING, RUNNING
<1>4. OnlyCreatedRun'
  <2> SUFFICES ASSUME NEW p \in Procs, p \notin Processes PROVE state'[p] = {EMPTY}
    BY <1>2, Zenon DEF OnlyCreatedRun
  <2>1. state[p] = {EMPTY}
    BY Zenon DEF KInv, OnlyCreatedRun
  <2>2. p # curptr
    <3>1. state[p] # {}
      BY <2>1
    <3> QED BY <3>1, RunnerIsProcess
  <2> QED BY <2>1, <2>2 DEF Stays
<1>5. ASSUME NEW i \in 1 .. created
      PROVE  BufferInside(i)'
  <2> DEFINE p == loaded[i].name
  <2>1. CASE p = curptr
    BY <2>1
  <2>2. CASE p # curptr
    <3>1. p \in Procs
      BY ProcessIsKnown DEF Known
    <3>2. BufferInside(i)
      BY DEF KInv
    <3>3. /\ state'[p] \subseteq state[p] /\ ecx'[p] = ecx[p] /\ edx'[p] = edx[p]
      BY <2>2, <3>1 DEF Stays
    <3>4. loaded'[i].name = p /\ loaded'[i].size = loaded[i].size
      BY <1>1
    <3> QED BY <3>2, <3>3, <3>4 DEF BufferInside
  <2> QED BY <2>1, <2>2
<1>6. /\ loaded' \in Boots /\ phase' \in {STARTING, RUNNING, STOPPED}
      /\ Table(t', loaded', created')
  BY <1>1 DEF KInv
<1>7. \A i \in 1 .. created' : BufferInside(i)'
  BY <1>1, <1>5
<1> QED BY <1>3, <1>4, <1>6, <1>7 DEF KInv

\* The calls that only answer: vir2phys, and the ports.
Quiet ==
  /\ KernelEntry({}, {}) /\ UNCHANGED <<state, list, want, supplier, irqs, interrupts, ecx>>
  /\ esi' \in [Procs -> Words] /\ eax' \in [Procs -> Nat]

LEMMA QuietKeeps ==
  ASSUME IInv, Quiet
  PROVE  IInv'
<1>1. NoMissedInterrupt' /\ DeadHoldNoLine'
  BY DEF IInv, Quiet, NoMissedInterrupt, DeadHoldNoLine
<1>2. /\ irqs' \in [0 .. MaxIrq -> Owners] /\ interrupts' \in [Procs -> SUBSET (1 .. MaxIrq)]
      /\ ecx' \in [Procs -> Nat]
  BY DEF Quiet, IInv, TypeOK
<1> QED BY <1>1, <1>2, QuietEntry DEF Quiet

\* An entry is one of Ipc, or quiet.
LEMMA IpcEntryKeeps ==
  ASSUME IInv, Next \/ Quiet
  PROVE  IInv' /\ \A q \in Procs : q # curptr => Stays(q)
<1>1. CASE Next
  BY <1>1, StepIInv, NextCases, OthersStay DEF Stays
<1>2. CASE Quiet
  BY <1>2, QuietKeeps DEF Quiet, Stays
<1> QED BY <1>1, <1>2

\* What a call does to what Ipc does not know, and how the process that runs
\* may come to have a flag: with a buffer that was looked at.
Unflagged(p) == RECEIVING \notin state'[p] /\ SENDING \notin state'[p]
Offered(p) == \E addr \in Addrs, len \in Lens :
                edx'[p] = addr /\ ecx'[p] = len /\ ValidArea(p, addr, len)

Shaped(p) ==
  /\ Next \/ Quiet
  /\ edx' \in [Procs -> 0 .. Word - 1] /\ \A q \in Procs : q # p => edx'[q] = edx[q]
  /\ t' = t \/ t' = Release(t, SlotOf(p))
  /\ Unflagged(p) \/ Offered(p)

LEMMA OfferKeeps ==
  ASSUME KInv, NEW p \in Procs, NEW addr \in Addrs, Offer(p, addr) \/ UNCHANGED edx
  PROVE  /\ edx' \in [Procs -> 0 .. Word - 1]
         /\ \A q \in Procs : q # p => edx'[q] = edx[q]
         /\ Offer(p, addr) => edx'[p] = addr
<1>1. addr \in 0 .. Word - 1
  BY KernelAssumption
<1> QED BY <1>1 DEF KInv, Offer

LEMMA FreeStaysUnflagged ==
  ASSUME KInv, NEW p \in Procs, curptr = p,
         \/ UNCHANGED state
         \/ \E q \in Procs, flag \in {RECEIVING, SENDING} : flag \in state[q] /\ state' = Unset(q, flag)
  PROVE  Unflagged(p)
<1>1. state[p] = {}
  BY RunnerIsProcess
<1>2. CASE UNCHANGED state
  BY <1>1, <1>2 DEF Unflagged
<1>3. CASE \E q \in Procs, flag \in {RECEIVING, SENDING} : flag \in state[q] /\ state' = Unset(q, flag)
  <2>1. PICK q \in Procs, flag \in {RECEIVING, SENDING} : flag \in state[q] /\ state' = Unset(q, flag)
    BY <1>3
  <2>2. p # q
    BY <1>1, <2>1
  <2>3. state'[p] = state[p]
    BY <2>1, <2>2 DEF Unset, KInv, IInv, TypeOK
  <2> QED BY <1>1, <2>3 DEF Unflagged
<1> QED BY <1>2, <1>3

LEMMA SendShape ==
  ASSUME KInv, NEW p \in Procs, curptr = p, NEW f \in Features \cup {NoFeature},
         NEW addr \in Addrs, NEW len \in Lens, NEW block \in BOOLEAN,
         KSend(p, f, addr, len, block), UNCHANGED t
  PROVE  Shaped(p)
<1> DEFINE valid == ValidArea(p, addr, len)
<1>1. valid \in BOOLEAN
  BY DEF ValidArea
<1> HIDE DEF valid
<1>2. /\ \/ SendRefused(p, f, valid, block) /\ UNCHANGED edx
         \/ f \in Features /\ valid /\ SendDelivers(p, f, len) /\ Offer(p, addr)
         \/ f \in Features /\ valid /\ SendQueues(p, f, len) /\ Offer(p, addr)
         \/ f \in Features /\ block /\ SendAwaits(p, f, len) /\ Offer(p, addr)
  BY DEF KSend, valid
<1>3. SendByFeature(p, block)
  BY <1>1, <1>2 DEF SendByFeature
<1>4. Next
  BY <1>3 DEF Next, Syscall
<1>5. /\ edx' \in [Procs -> 0 .. Word - 1] /\ \A q \in Procs : q # p => edx'[q] = edx[q]
      /\ Offer(p, addr) => edx'[p] = addr
  BY <1>2, OfferKeeps
<1>6. Unflagged(p) \/ Offered(p)
  <2>1. CASE SendRefused(p, f, valid, block) \/ SendAwaits(p, f, len)
    <3>1. UNCHANGED state
      BY <2>1 DEF SendRefused, Return, SendAwaits
    <3> QED BY <3>1, FreeStaysUnflagged
  <2>2. CASE f \in Features /\ SendDelivers(p, f, len)
    <3>1. supplier[f] \in Procs /\ RECEIVING \in state[supplier[f]]
          /\ state' = Unset(supplier[f], RECEIVING)
      BY <2>2 DEF SendDelivers, ReceivingFrom, KInv, IInv, TypeOK, Owners
    <3> QED BY <3>1, FreeStaysUnflagged
  <2>3. CASE f \in Features /\ valid /\ SendQueues(p, f, len) /\ Offer(p, addr)
    <3>1. ecx'[p] = len
      BY <2>3 DEF SendQueues, KInv, IInv, TypeOK
    <3> QED BY <1>5, <2>3, <3>1 DEF Offered, valid
  <2> QED BY <1>2, <2>1, <2>2, <2>3
<1> QED BY <1>4, <1>5, <1>6 DEF Shaped

LEMMA ReceiveShape ==
  ASSUME KInv, NEW p \in Procs, curptr = p, NEW from \in Owners,
         NEW addr \in Addrs, NEW len \in Lens, KReceive(p, from, addr, len), UNCHANGED t
  PROVE  Shaped(p)
<1>1. \/ Return(p, INVALIDBUFFER) /\ UNCHANGED edx
      \/ ReceiveMessage(p, from, len) /\ Offer(p, addr)
      \/ ReceiveInterrupt(p, len) /\ Offer(p, addr)
      \/ ValidArea(p, addr, len) /\ ReceiveBlocks(p, from, len) /\ Offer(p, addr)
  BY DEF KReceive
<1>2. Receive(p)
  BY <1>1 DEF Receive
<1>3. Next
  BY <1>2 DEF Next, Syscall
<1>4. /\ edx' \in [Procs -> 0 .. Word - 1] /\ \A q \in Procs : q # p => edx'[q] = edx[q]
      /\ Offer(p, addr) => edx'[p] = addr
  BY <1>1, OfferKeeps
<1>5. Unflagged(p) \/ Offered(p)
  <2>1. CASE Return(p, INVALIDBUFFER) \/ ReceiveInterrupt(p, len)
    <3>1. UNCHANGED state
      BY <2>1 DEF Return, ReceiveInterrupt
    <3> QED BY <3>1, FreeStaysUnflagged
  <2>2. CASE ReceiveMessage(p, from, len)
    <3>1. PICK i \in DOMAIN list[p] : state' = Unset(list[p][i], SENDING)
      BY <2>2 DEF ReceiveMessage
    <3>2. p \in Heads
      BY DEF Heads
    <3>3. list[p][i] \in Procs
      BY <3>2, WaiterSleeps DEF KInv
    <3>4. list[p][i] # p
      <4>1. list[p][i] \notin ready
        BY <3>2, WaiterSleeps DEF KInv
      <4> QED BY <4>1, RunnerIsFree DEF KInv
    <3>5. state'[p] = state[p] /\ state[p] = {}
      BY <3>1, <3>3, <3>4, RunnerIsProcess DEF Unset, KInv, IInv, TypeOK
    <3> QED BY <3>5 DEF Unflagged
  <2>3. CASE ValidArea(p, addr, len) /\ ReceiveBlocks(p, from, len) /\ Offer(p, addr)
    <3>1. ecx'[p] = len
      BY <2>3 DEF ReceiveBlocks, KInv, IInv, TypeOK
    <3> QED BY <1>4, <2>3, <3>1 DEF Offered
  <2> QED BY <1>1, <2>1, <2>2, <2>3
<1> QED BY <1>3, <1>4, <1>5 DEF Shaped

\* The other calls of Ipc.
LEMMA OtherShape ==
  ASSUME KInv, NEW p \in Procs, curptr = p,
         \/ (SetFeature(p) \/ RequestIrq(p) \/ UnknownSyscall(p)) /\ UNCHANGED t
         \/ KExit(p),
         UNCHANGED edx
  PROVE  Shaped(p)
<1>1. Next
  BY DEF Next, Syscall, KExit
<1>2. edx' \in [Procs -> 0 .. Word - 1]
  BY DEF KInv
<1>3. CASE (SetFeature(p) \/ RequestIrq(p) \/ UnknownSyscall(p)) /\ UNCHANGED t
  <2>1. UNCHANGED state
    <3>1. CASE SetFeature(p)
      BY <3>1 DEF SetFeature, Return, TakeFeature
    <3>2. CASE RequestIrq(p)
      BY <3>2 DEF RequestIrq, Return, TakeIrq
    <3>3. CASE UnknownSyscall(p)
      BY <3>3 DEF UnknownSyscall, Return
    <3> QED BY <1>3, <3>1, <3>2, <3>3
  <2> QED BY <1>1, <1>2, <1>3, <2>1, FreeStaysUnflagged DEF Shaped
<1>4. CASE KExit(p)
  <2>1. t' = Release(t, SlotOf(p)) /\ Exit(p)
    BY <1>4 DEF KExit
  <2>2. state'[p] \subseteq {EMPTY}
    BY <2>1 DEF Exit, KInv, IInv, TypeOK
  <2>3. Unflagged(p)
    BY <2>2 DEF Unflagged, EMPTY, RECEIVING, SENDING
  <2> QED BY <1>1, <1>2, <2>1, <2>3 DEF Shaped
<1> QED BY <1>3, <1>4

LEMMA ReturnIsQuiet ==
  ASSUME IInv, NEW p \in Procs, NEW verdict \in Words, Return(p, verdict)
  PROVE  Quiet /\ UNCHANGED state
BY DEF Quiet, Return, IInv, TypeOK

LEMMA AnswerIsQuiet ==
  ASSUME IInv, NEW p \in Procs, NEW word \in Nat, Answer(p, word), esi' \in [Procs -> Words]
  PROVE  Quiet /\ UNCHANGED state
BY DEF Quiet, Answer, IInv, TypeOK

\* An address of a program is a word.
LEMMA PhysicalIsWord ==
  ASSUME KInv, NEW p \in Procs, curptr = p, NEW addr \in Addrs
  PROVE  Physical(p, addr) \in Nat
<1>1. PICK i \in 1 .. created : loaded[i].name = p
  BY RunnerIsProcess
<1>2. loaded \in Boots /\ i \in 1 .. Len(loaded)
  BY BootIs DEF KInv, Table
<1>3. GetBase(DataSegment(p)) = AddressOf(i)
  BY <1>1, ProcessIsKnown DEF Known
<1>4. AddressOf(i) \in Nat
  BY <1>2, ProgramsFit DEF AddressOf
<1>5. addr \in Nat /\ Word \in Nat \ {0}
  BY KernelAssumption, Fields
<1>6. (AddressOf(i) + addr) % Word \in Nat
  <2>1. AddressOf(i) + addr \in Nat
    BY <1>4, <1>5
  <2> HIDE DEF AddressOf
  <2> QED BY <2>1, <1>5, Division
<1> QED BY <1>3, <1>6 DEF Physical

LEMMA Vir2PhysShape ==
  ASSUME KInv, NEW p \in Procs, curptr = p, NEW virtual \in Addrs, Vir2Phys(p, virtual),
         UNCHANGED <<t, edx>>
  PROVE  Shaped(p)
<1>1. edx' \in [Procs -> 0 .. Word - 1]
  BY DEF KInv
<1>2. INVALIDADDRESS \in Words /\ IInv /\ esi \in [Procs -> Words]
  <2>1. INVALIDADDRESS \in Words
    BY DEF INVALIDADDRESS, Words
  <2> QED BY <2>1 DEF KInv, IInv, TypeOK
<1>3. Quiet /\ UNCHANGED state
  <2>1. CASE Return(p, INVALIDADDRESS)
    BY <1>2, <2>1, ReturnIsQuiet
  <2>2. CASE Answer(p, Physical(p, virtual)) /\ UNCHANGED esi
    BY <1>2, <2>2, PhysicalIsWord, AnswerIsQuiet
  <2> QED BY <2>1, <2>2 DEF Vir2Phys
<1> QED BY <1>1, <1>3, FreeStaysUnflagged DEF Shaped

LEMMA PortShape ==
  ASSUME KInv, NEW p \in Procs, curptr = p, NEW n \in Ports, ClaimPort(p, n) \/ UsePort(p, n),
         UNCHANGED <<t, edx>>
  PROVE  Shaped(p)
<1>1. edx' \in [Procs -> 0 .. Word - 1]
  BY DEF KInv
<1>2. UNAVAILABLE \in Words /\ NOPERMS \in Words /\ OK \in Words /\ IInv
  BY DEF UNAVAILABLE, NOPERMS, OK, Words, KInv
<1>3. Quiet /\ UNCHANGED state
  <2>1. CASE Return(p, UNAVAILABLE) \/ Return(p, NOPERMS) \/ Return(p, OK)
    BY <1>2, <2>1, ReturnIsQuiet
  <2>2. CASE KernelEntry({}, {}) /\ UNCHANGED ipcVars
    BY <1>2, <2>2 DEF Quiet, ipcVars, IInv, TypeOK
  <2>3. CASE \E word \in DeviceWords : Answer(p, word) /\ esi' = [esi EXCEPT ![p] = OK]
    <3>1. PICK word \in DeviceWords : Answer(p, word) /\ esi' = [esi EXCEPT ![p] = OK]
      BY <2>3
    <3>2. word \in Nat
      BY KernelAssumption
    <3>3. esi' \in [Procs -> Words]
      BY <1>2, <3>1 DEF IInv, TypeOK
    <3> QED BY <1>2, <3>1, <3>2, <3>3, AnswerIsQuiet
  <2> QED BY <2>1, <2>2, <2>3 DEF ClaimPort, UsePort
<1> QED BY <1>1, <1>3, FreeStaysUnflagged DEF Shaped

LEMMA CallShape ==
  ASSUME KInv, NEW p \in Procs, curptr = p, KSyscall(p)
  PROVE  Shaped(p)
<1>1. CASE \E f \in Features \cup {NoFeature}, addr \in Addrs, len \in Lens, block \in BOOLEAN :
             KSend(p, f, addr, len, block) /\ UNCHANGED t
  BY <1>1, SendShape
<1>2. CASE \E from \in Owners, addr \in Addrs, len \in Lens :
             KReceive(p, from, addr, len) /\ UNCHANGED t
  BY <1>2, ReceiveShape
<1>3. CASE /\ \/ (SetFeature(p) \/ RequestIrq(p) \/ UnknownSyscall(p)) /\ UNCHANGED t
              \/ KExit(p)
           /\ UNCHANGED edx
  BY <1>3, OtherShape
<1>4. CASE \E virtual \in Addrs : Vir2Phys(p, virtual) /\ UNCHANGED <<t, edx>>
  BY <1>4, Vir2PhysShape
<1>5. CASE \E port \in PortArgs :
             /\ ClaimPort(p, port % NUM_PORTS) \/ UsePort(p, port % NUM_PORTS)
             /\ UNCHANGED <<t, edx>>
  BY <1>5, PortsAreNamed, PortShape
<1> QED BY <1>1, <1>2, <1>3, <1>4, <1>5 DEF KSyscall

\* A buffer that was looked at lies in the program, unless the sum left the word.
LEMMA AreaIsInside ==
  ASSUME KInv, NEW i \in 1 .. created, NEW addr \in Addrs, NEW len \in Nat,
         ValidArea(loaded[i].name, addr, len)
  PROVE  Inside(addr, len, loaded[i].size)
<1>1. addr \in Nat /\ len \in Nat /\ Word \in Nat \ {0}
  BY KernelAssumption, Fields
<1>2. GetLimit(DataSegment(loaded[i].name)) = loaded[i].size
  BY ProcessIsKnown DEF Known
<1>3. loaded[i].size >= (addr + len) % Word
  BY <1>2 DEF ValidArea
<1>4. loaded[i].size \in Nat
  <2>1. loaded \in Boots /\ i \in 1 .. Len(loaded)
    BY BootIs DEF KInv, Table
  <2> QED BY <2>1, BootIs
<1>5. addr + len < Word => (addr + len) % Word = addr + len
  <2> SUFFICES ASSUME addr + len < Word PROVE (addr + len) % Word = addr + len
    OBVIOUS
  <2> DEFINE s == addr + len
             w == Word
  <2>1. s \in 0 .. w - 1 /\ w \in Nat \ {0}
    BY <1>1
  <2> HIDE DEF s, w
  <2>2. s = w * 0 + s
    BY <2>1
  <2>3. s % w = s
    BY <2>1, <2>2, DivisionIsUnique
  <2> QED BY <2>3 DEF s, w
<1> QED BY <1>1, <1>3, <1>4, <1>5 DEF Inside

LEMMA CallKeeps ==
  ASSUME KInv, phase = RUNNING, NEW p \in Procs, curptr = p, KSyscall(p), UNCHANGED bootVars
  PROVE  KInv'
<1>1. Shaped(p)
  BY CallShape
<1>2. IInv' /\ \A q \in Procs : q # curptr => Stays(q)
  BY <1>1, IpcEntryKeeps DEF Shaped, KInv
<1>3. Table(t', loaded, created)
  <2>1. Table(t, loaded, created) /\ t \in Tables(Owners) /\ loaded \in Boots
    BY DEF KInv, Table
  <2>2. CASE t' = Release(t, SlotOf(p))
    <3>1. PICK i \in 1 .. created : loaded[i].name = p
      BY RunnerIsProcess
    <3>2. SlotOf(p) = i /\ i \in 1 .. MAX_NO_PROCS
      BY <2>1, <3>1, ProcessIsKnown, TableAssumption, BootIs DEF Known, Table
    <3>3. Emptied(Owners, t, t')
      BY <2>1, <2>2, <3>2, ReleaseKeeps
    <3> QED BY <2>1, <3>3, TableKept DEF Emptied
  <2> QED BY <1>1, <2>1, <2>2 DEF Shaped
<1>4. ASSUME NEW i \in 1 .. created, loaded[i].name = curptr
      PROVE  BufferInside(i)'
  <2>1. loaded' = loaded
    BY DEF bootVars
  <2>2. CASE Unflagged(p)
    BY <1>4, <2>1, <2>2 DEF Unflagged, BufferInside
  <2>3. CASE Offered(p)
    <3>1. PICK addr \in Addrs, len \in Lens :
            edx'[p] = addr /\ ecx'[p] = len /\ ValidArea(p, addr, len)
      BY <2>3 DEF Offered
    <3>2. Inside(addr, len, loaded[i].size)
      BY <1>4, <3>1, AreaIsInside
    <3> QED BY <1>4, <2>1, <3>1, <3>2 DEF BufferInside
  <2> QED BY <1>1, <2>2, <2>3 DEF Shaped
<1> QED BY <1>1, <1>2, <1>3, <1>4, EntryKeeps DEF Shaped

LEMMA KInterruptKeeps ==
  ASSUME KInv, phase = RUNNING, KInterrupt, UNCHANGED bootVars
  PROVE  KInv'
<1>1. Next /\ UNCHANGED <<t, edx>>
  BY DEF KInterrupt, Next
<1>2. IInv' /\ \A q \in Procs : q # curptr => Stays(q)
  BY <1>1, IpcEntryKeeps DEF KInv
<1>3. Table(t', loaded, created) /\ edx' \in [Procs -> 0 .. Word - 1] /\ edx' = edx
  BY <1>1 DEF KInv
<1>4. ASSUME NEW i \in 1 .. created, loaded[i].name = curptr
      PROVE  BufferInside(i)'
  <2>1. curptr \in Procs /\ loaded' = loaded
    BY <1>4, ProcessIsKnown DEF Known, bootVars
  <2>2. state[curptr] = {}
    BY <2>1, RunnerIsProcess
  <2>3. Unflagged(curptr)
    <3>1. CASE UNCHANGED state
      BY <2>1, <3>1, FreeStaysUnflagged
    <3>2. CASE \E n \in 1 .. MaxIrq : irqs[n] \in Procs /\ NotifyReceiver(irqs[n], n)
      BY <2>1, <3>2, FreeStaysUnflagged DEF NotifyReceiver, InReceive
    <3>3. \/ UNCHANGED state
          \/ \E n \in 1 .. MaxIrq : irqs[n] \in Procs /\ NotifyReceiver(irqs[n], n)
      <4>1. CASE ClockTick
        BY <4>1 DEF ClockTick, ipcVars
      <4>2. ASSUME NEW n \in Wired, HardInt(n)
            PROVE  \/ UNCHANGED state
                   \/ \E m \in 1 .. MaxIrq : irqs[m] \in Procs /\ NotifyReceiver(irqs[m], m)
        <5>1. n \in 1 .. MaxIrq /\ n \in 0 .. MaxIrq
          OBVIOUS
        <5>2. CASE irqs[n] = NULL
          BY <4>2, <5>2 DEF HardInt, ipcVars
        <5>3. CASE irqs[n] # NULL
          <6>1. irqs[n] \in Procs
            BY <5>1, <5>3 DEF KInv, IInv, TypeOK, Owners
          <6> QED BY <4>2, <5>1, <5>3, <6>1 DEF HardInt, NotifyLater
        <5> QED BY <5>2, <5>3
      <4> QED BY <4>1, <4>2 DEF KInterrupt
    <3> QED BY <3>1, <3>2, <3>3
  <2> QED BY <1>4, <2>1, <2>3 DEF Unflagged, BufferInside
<1> QED BY <1>2, <1>3, <1>4, EntryKeeps

\* sti, an exception, and nothing at all.
LEMMA StillKeeps ==
  ASSUME KInv, UNCHANGED <<vars, loaded, created, t, edx>>,
         phase' \in {STARTING, RUNNING, STOPPED},
         phase' = STARTING => phase = STARTING /\ UNCHANGED touched
  PROVE  KInv'
<1>1. IInv'
  BY StepIInv DEF KInv
<1>2. /\ loaded' = loaded /\ created' = created /\ t' = t /\ edx' = edx /\ state' = state
      /\ ecx' = ecx /\ list' = list /\ curptr' = curptr
  BY DEF vars, rqVars, ipcVars
<1>3. Processes' = Processes
  BY <1>2 DEF Processes
<1>4. OnlyCreatedRun'
  BY <1>2, <1>3, Zenon DEF KInv, OnlyCreatedRun
<1>5. Booting'
  BY <1>2 DEF KInv, Booting
<1>6. \A i \in 1 .. created' : BufferInside(i)'
  <2> SUFFICES ASSUME NEW i \in 1 .. created PROVE BufferInside(i)'
    BY <1>2
  <2>1. BufferInside(i)
    BY DEF KInv
  <2> QED BY <1>2, <2>1 DEF BufferInside
<1>7. Table(t', loaded', created') /\ loaded' \in Boots /\ edx' \in [Procs -> 0 .. Word - 1]
  BY <1>2 DEF KInv
<1> QED BY <1>1, <1>4, <1>5, <1>6, <1>7 DEF KInv

\* What start asks for is a place of its own for each segment, or the screen.
LEMMA ArgsAreWanted ==
  ASSUME loaded \in Boots, NEW n \in Nat, n + 1 \in 1 .. Len(loaded)
  PROVE  LET args == SegmentArgs(n + 1)
         IN /\ Wanted(args) /\ args.name = loaded[n + 1].name /\ args.name \in Owners
            /\ args.base["ds"] = Ends(loaded)[n] /\ args.limit["ds"] = loaded[n + 1].size
<1> DEFINE args == SegmentArgs(n + 1)
           size == loaded[n + 1].size
           at == Ends(loaded)[n]
<1>1. (n + 1) - 1 = n
  OBVIOUS
<1>2. at \in Nat /\ at # NO_BASE
  BY <1>1, ProgramsFit
<1>3. size \in Nat /\ loaded[n + 1].name \in Procs
  BY BootIs
<1>4. VideoBase \in Nat /\ VideoBase # NO_BASE /\ VideoLimit \in Nat
  <2>1. VideoBase \in 0 .. Word - 2 /\ VideoLimit \in 0 .. Word - 1
    BY KernelAssumption
  <2>2. NO_BASE \notin 0 .. Word - 2
    BY TableAssumption
  <2> QED BY <2>1, <2>2
<1>5. AddressOf(n + 1) = at
  BY <1>1 DEF AddressOf
<1>6. args.name = loaded[n + 1].name
  BY DEF SegmentArgs
<1>7. ASSUME NEW s \in Segments
      PROVE  /\ args.base[s] = IF loaded[n + 1].name = Tty /\ s = "gs" THEN VideoBase ELSE at
             /\ args.limit[s] = IF loaded[n + 1].name = Tty /\ s = "gs" THEN VideoLimit ELSE size
  BY <1>5 DEF SegmentArgs
<1> HIDE DEF args, at, size
<1>8. Wanted(args)
  BY <1>2, <1>3, <1>4, <1>7 DEF Wanted
<1>9. "ds" \in Segments /\ "ds" # "gs"
  BY DEF Segments
<1>10. args.base["ds"] = at /\ args.limit["ds"] = size
  BY <1>7, <1>9
<1> QED BY <1>3, <1>6, <1>8, <1>10 DEF args, at, size, Owners

\* A new process is free to run; nobody has run before start is done.
LEMMA NewProcessJoins ==
  ASSUME IInv, curptr = NULL, \A h \in Heads : list[h] = <<>>,
         NEW p \in Procs, state[p] = {EMPTY},
         state' = [state EXCEPT ![p] = {}], ready' = ready \cup {p},
         UNCHANGED <<curptr, list, want, supplier, irqs, interrupts, esi, eax, ecx>>
  PROVE  IInv'
<1>1. /\ state' \in [Procs -> {{}, {EMPTY}, {RECEIVING}, {SENDING}}] /\ state'[p] = {}
      /\ \A q \in Procs \ {p} : state'[q] = state[q]
  BY DEF IInv, TypeOK
<1>2. TypeOK'
  BY <1>1 DEF IInv, TypeOK
<1>3. \A q \in Procs : ~Listed(q) /\ ~Listed(q)'
  <2>1. \A h \in Heads, q \in Procs : ~Contains(list[h], q)
    BY DEF Contains
  <2>2. \A q \in Procs : ~Listed(q)
    BY <2>1 DEF Listed
  <2> QED BY <2>2 DEF Listed
<1>4. NobodyForgotten'
  <2> SUFFICES ASSUME NEW q \in Procs
               PROVE  /\ q \in ready' <=> state'[q] = {} /\ ~Listed(q)'
                      /\ SENDING \in state'[q] => Listed(q)'
                      /\ Listed(q)' => state'[q] \subseteq {SENDING}
    BY DEF NobodyForgotten
  <2>1. CASE q = p
    BY <1>1, <1>3, <2>1
  <2>2. CASE q # p
    BY <1>1, <1>3, <2>2 DEF IInv, NobodyForgotten
  <2> QED BY <2>1, <2>2
<1>5. RunnerIsReady' /\ SuppliesItsOwn'
  BY DEF IInv, RunnerIsReady, SuppliesItsOwn
<1>6. LinksNotShared' /\ WaitersFollowSupplier'
  BY DEF IInv, LinksNotShared, WaitersFollowSupplier
<1>7. NoMissedRendezvous' /\ NoMissedInterrupt'
  BY <1>1 DEF IInv, NoMissedRendezvous, NoMissedInterrupt
<1>8. DeadHoldNoLine'
  <2> SUFFICES ASSUME NEW n \in 0 .. MaxIrq - 1, irqs[n] \in Procs
               PROVE  EMPTY \notin state'[irqs[n]]
    BY DEF DeadHoldNoLine
  <2>1. EMPTY \notin state[irqs[n]]
    BY DEF IInv, DeadHoldNoLine
  <2> QED BY <1>1, <2>1
<1> QED BY <1>2, <1>4, <1>5, <1>6, <1>7, <1>8 DEF IInv

LEMMA CreateProgramKeeps ==
  ASSUME KInv, CreateProgram
  PROVE  KInv'
<1> DEFINE n == created
           args == SegmentArgs(n + 1)
           c == Create(t, args)
           p == loaded[n + 1].name
<1>1. /\ loaded \in Boots /\ n \in Nat /\ Len(loaded) \in Nat /\ n < Len(loaded)
      /\ n + 1 \in 1 .. Len(loaded) /\ Table(t, loaded, n) /\ t \in Tables(Owners)
  BY BootIs DEF KInv, Table, CreateProgram
<1>2. /\ Wanted(args) /\ args.name = p /\ args.name \in Owners
      /\ args.base["ds"] = Ends(loaded)[n] /\ args.limit["ds"] = loaded[n + 1].size
  BY <1>1, ArgsAreWanted
<1>3. /\ phase = STARTING /\ t' = c.m /\ loaded' = loaded /\ edx' = edx /\ touched' = touched
      /\ curptr' = curptr /\ list' = list /\ ecx' = ecx
      /\ UNCHANGED <<want, supplier, irqs, interrupts, esi, eax>>
      /\ \/ /\ c.slot # 0 /\ created' = n + 1 /\ state' = [state EXCEPT ![p] = {}]
            /\ ready' = ready \cup {p} /\ phase' = phase
         \/ c.slot = 0 /\ phase' = STOPPED /\ created' = n /\ state' = state /\ ready' = ready
  BY DEF CreateProgram
<1> HIDE DEF args, c
<1>4. Created(Owners, t, c, args)
  BY <1>1, <1>2, CreateKeeps DEF c
<1>5. /\ IInv /\ Booting /\ edx \in [Procs -> 0 .. Word - 1] /\ OnlyCreatedRun
      /\ \A i \in 1 .. n : BufferInside(i)
  BY DEF KInv
<1>6. /\ curptr = NULL /\ touched = {} /\ \A h \in Heads : list[h] = <<>>
      /\ EmptySlots(t) = {i \in 1 .. MAX_NO_PROCS : i > n}
  BY <1>3, <1>5 DEF Booting
<1>7. CASE c.slot = 0
  <2>1. phase' = STOPPED /\ created' = n /\ state' = state /\ ready' = ready
    BY <1>3, <1>7
  <2>2. c.m.slot = t.slot /\ c.m \in Tables(Owners) /\ t.used \subseteq c.m.used
        /\ \A k \in t.used : c.m.gdt[k] = t.gdt[k]
    BY <1>4, <1>7 DEF Created
  <2>3. Table(c.m, loaded, n)
    BY <1>1, <2>2, TableKept
  <2>4. IInv'
    <3>1. UNCHANGED vars
      BY <1>3, <2>1 DEF vars, rqVars, ipcVars
    <3> QED BY <1>5, <3>1, StepIInv
  <2>5. Booting'
    BY <2>1 DEF Booting, STARTING, STOPPED
  <2>6. OnlyCreatedRun'
    <3>1. Processes' = Processes
      BY <1>3, <2>1 DEF Processes
    <3> QED BY <1>5, <2>1, <3>1, Zenon DEF OnlyCreatedRun
  <2>7. ASSUME NEW i \in 1 .. n
        PROVE  BufferInside(i)'
    <3>1. BufferInside(i)
      BY <1>5
    <3> QED BY <1>3, <2>1, <3>1 DEF BufferInside
  <2>8. \A i \in 1 .. created' : BufferInside(i)'
    BY <2>1, <2>7
  <2> QED BY <1>1, <1>3, <1>5, <2>1, <2>3, <2>4, <2>5, <2>6, <2>8 DEF KInv
<1>8. CASE c.slot # 0
  <2>1. created' = n + 1 /\ state' = [state EXCEPT ![p] = {}] /\ ready' = ready \cup {p}
        /\ phase' = phase
    BY <1>3, <1>8
  <2>2. Table(c.m, loaded, n + 1) /\ EmptySlots(c.m) = {i \in 1 .. MAX_NO_PROCS : i > n + 1}
    BY <1>1, <1>2, <1>4, <1>6, <1>8, TableGrows
  <2>3. p \in Procs /\ \A i \in 1 .. n : loaded[i].name # p
    <3>1. \A i \in 1 .. n : i \in 1 .. Len(loaded) /\ i # n + 1
      BY <1>1
    <3> QED BY <1>1, <3>1, BootIs
  <2>4. Processes' = Processes \cup {p}
    <3>1. \A i : i \in 1 .. n + 1 <=> i \in 1 .. n \/ i = n + 1
      BY <1>1
    <3>2. Processes' = {loaded[i].name : i \in 1 .. n + 1}
      BY <1>3, <2>1 DEF Processes
    <3>3. Processes = {loaded[i].name : i \in 1 .. n}
      BY DEF Processes
    <3> HIDE DEF n
    <3>4. {loaded[i].name : i \in 1 .. n + 1} = {loaded[i].name : i \in 1 .. n} \cup {loaded[n + 1].name}
      BY ONLY <3>1, Zenon
    <3> QED BY <3>2, <3>3, <3>4, Zenon
  <2>5. p \notin Processes
    BY <2>3 DEF Processes
  <2>6. state[p] = {EMPTY}
    BY <1>5, <2>3, <2>5, Zenon DEF OnlyCreatedRun
  <2>7. IInv'
    BY <1>3, <1>5, <1>6, <2>1, <2>3, <2>6, NewProcessJoins
  <2>8. state'[p] = {} /\ \A q \in Procs \ {p} : state'[q] = state[q]
    <3>1. state \in [Procs -> {{}, {EMPTY}, {RECEIVING}, {SENDING}}]
      BY <1>5 DEF IInv, TypeOK
    <3> HIDE DEF p
    <3> QED BY <2>1, <2>3, <3>1
  <2>9. OnlyCreatedRun'
    <3> SUFFICES ASSUME NEW q \in Procs, q \notin Processes' PROVE state'[q] = {EMPTY}
      BY Zenon DEF OnlyCreatedRun
    <3>1. q \notin Processes /\ q # p
      BY <2>4
    <3>2. state[q] = {EMPTY}
      BY <1>5, <3>1, Zenon DEF OnlyCreatedRun
    <3> QED BY <2>8, <3>1, <3>2
  <2>10. Booting'
    <3>1. EmptySlots(t)' = EmptySlots(c.m)
      BY <1>3 DEF EmptySlots
    <3> QED BY <1>3, <1>6, <2>1, <2>2, <3>1 DEF Booting
  <2>11. ASSUME NEW i \in 1 .. n + 1
         PROVE  BufferInside(i)'
    <3>1. CASE i = n + 1
      BY <1>3, <2>8, <3>1 DEF BufferInside
    <3>2. CASE i # n + 1
      <4>1. i \in 1 .. n /\ i \in 1 .. Len(loaded)
        BY <1>1, <3>2
      <4>2. loaded[i].name \in Procs \ {p}
        BY <1>1, <2>3, <4>1, BootIs
      <4>3. BufferInside(i)
        BY <1>5, <4>1
      <4> HIDE DEF p
      <4> QED BY <1>3, <2>8, <4>2, <4>3 DEF BufferInside
    <3> QED BY <3>1, <3>2
  <2>12. \A i \in 1 .. created' : BufferInside(i)'
    BY <2>1, <2>11
  <2> QED BY <1>1, <1>3, <1>5, <2>1, <2>2, <2>7, <2>9, <2>10, <2>12 DEF KInv
<1> QED BY <1>7, <1>8

LEMMA KStepKeeps == KInv /\ [KNext]_kvars => KInv'
<1> SUFFICES ASSUME KInv, [KNext]_kvars PROVE KInv'
  OBVIOUS
<1>1. CASE CreateProgram
  BY <1>1, CreateProgramKeeps
<1>2. CASE EnableInterrupts
  <2>1. phase' = RUNNING /\ RUNNING # STARTING
    BY <1>2 DEF EnableInterrupts, RUNNING, STARTING
  <2> QED BY <1>2, <2>1, StillKeeps DEF EnableInterrupts
<1>3. CASE phase = RUNNING /\ UNCHANGED bootVars /\ \E p \in Procs : curptr = p /\ KSyscall(p)
  BY <1>3, CallKeeps
<1>4. CASE phase = RUNNING /\ UNCHANGED bootVars /\ KInterrupt
  BY <1>4, KInterruptKeeps
<1>5. CASE Exception
  <2>1. phase' = STOPPED /\ STOPPED # STARTING
    BY <1>5 DEF Exception, STOPPED, STARTING
  <2> QED BY <1>5, <2>1, StillKeeps DEF Exception
<1>6. CASE UNCHANGED kvars
  <2>1. phase' = phase /\ touched' = touched /\ UNCHANGED <<vars, loaded, created, t, edx>>
    BY <1>6 DEF kvars, kernelVars, bootVars
  <2>2. phase' \in {STARTING, RUNNING, STOPPED}
    BY <2>1 DEF KInv
  <2> QED BY <2>1, <2>2, StillKeeps
<1> QED BY <1>1, <1>2, <1>3, <1>4, <1>5, <1>6 DEF KNext, Entry

\* The kernel keeps its invariant, from the first create_process on.
THEOREM KernelInvariance == KSpec => []KInv
<1>1. KInit => KInv
  BY KInitIsGood
<1>2. KInv /\ [KNext]_kvars => KInv'
  BY KStepKeeps
<1> QED BY <1>1, <1>2, PTL DEF KSpec, kvars

\* The invariant of Ipc is one of the kernel: a call that reaches Ipc through
\* the entry, with the buffers looked up and the processes created one by one,
\* leaves what is proved of the calls alone.
THEOREM KernelKeepsIpc == KSpec => []IInv
<1>1. KInv => IInv
  BY DEF KInv
<1> QED BY <1>1, KernelInvariance, PTL
-----------------------------------------------------------------------------
(***************************************************************************)
(* Everybody has what is his.                                              *)
(***************************************************************************)
\* The place of a program.
LEMMA ImageIs ==
  ASSUME KInv, NEW i \in 1 .. created
  PROVE  /\ AddressOf(i) \in Nat /\ loaded[i].size \in Nat \ {0}
         /\ AddressOf(i) + loaded[i].size < Word /\ Word \in Nat
         /\ Ends(loaded)[i] = AddressOf(i) + loaded[i].size
         /\ Image(loaded[i].name) = AddressOf(i) .. AddressOf(i) + loaded[i].size - 1
         /\ Image(loaded[i].name) = Ends(loaded)[i - 1] .. Ends(loaded)[i] - 1
         /\ i \in 1 .. Len(loaded) /\ loaded \in Boots
<1>1. loaded \in Boots /\ i \in 1 .. Len(loaded)
  BY BootIs DEF KInv, Table
<1>2. /\ AddressOf(i) \in Nat /\ Ends(loaded)[i] = AddressOf(i) + loaded[i].size
      /\ Ends(loaded)[i] < Word
  BY <1>1, ProgramsFit DEF AddressOf
<1>3. loaded[i].size \in Nat \ {0} /\ Word \in Nat
  BY <1>1, BootIs, Fields
<1>4. Program(loaded[i].name) = i
  BY ProcessIsKnown DEF Known
<1> HIDE DEF AddressOf
<1>5. Image(loaded[i].name) = AddressOf(i) .. AddressOf(i) + loaded[i].size - 1
  BY <1>4 DEF Image
<1>6. Image(loaded[i].name) = Ends(loaded)[i - 1] .. Ends(loaded)[i] - 1
  <2> DEFINE end == Ends(loaded)[i]
  <2>1. end = AddressOf(i) + loaded[i].size
    BY <1>2
  <2> HIDE DEF end
  <2>2. Image(loaded[i].name) = AddressOf(i) .. end - 1
    BY <1>2, <1>3, <1>5, <2>1
  <2>3. AddressOf(i) = Ends(loaded)[i - 1]
    BY DEF AddressOf
  <2> QED BY <2>2, <2>3 DEF end
<1> QED BY <1>1, <1>2, <1>3, <1>5, <1>6

LEMMA SmallSum ==
  ASSUME NEW x \in Nat, x < Word
  PROVE  x % Word = x
<1> DEFINE w == Word
<1>1. w \in Nat \ {0}
  BY Fields
<1> HIDE DEF w
<1>2. x < w
  BY DEF w
<1>3. x \in 0 .. w - 1 /\ x = w * 0 + x
  BY <1>1, <1>2
<1>4. x % w = x
  BY <1>1, <1>3, DivisionIsUnique
<1> QED BY <1>4 DEF w

\* create_process lets no program lie where the BIOS and the screen are.
LEMMA ImageAvoids ==
  ASSUME KInv, NEW i \in 1 .. created
  PROVE  Image(loaded[i].name) \cap LowEnd .. OneMeg - 1 = {}
<1> DEFINE a == AddressOf(i)
           size == loaded[i].size
<1>1. /\ a \in Nat /\ size \in Nat \ {0} /\ a + size < Word
      /\ Image(loaded[i].name) = a .. a + size - 1
  BY ImageIs
<1>2. MemAreaValid(a, size, FALSE)
  <2>1. Placed(t, loaded, i)
    BY DEF KInv, Table
  <2> QED BY <2>1 DEF Placed, AddressOf
<1> HIDE DEF a, size
<1>3. (a + size) % Word = a + size
  <2>1. a + size \in Nat
    BY <1>1
  <2> QED BY <1>1, <2>1, SmallSum
<1>4. LowEnd \in Nat /\ OneMeg \in Nat
  BY TableAssumption, Fields
<1>5. (a <= LowEnd \/ a >= OneMeg) /\ (a <= LowEnd => a + size <= LowEnd)
  BY <1>2, <1>3 DEF MemAreaValid
<1>6. \A x \in a .. a + size - 1 : x \notin LowEnd .. OneMeg - 1
  <2> SUFFICES ASSUME NEW x \in a .. a + size - 1, x \in LowEnd .. OneMeg - 1 PROVE FALSE
    OBVIOUS
  <2> HIDE DEF OneMeg
  <2> QED BY <1>1, <1>4, <1>5
<1> QED BY <1>1, <1>6

LEMMA ImagesApart ==
  ASSUME KInv, NEW i \in 1 .. created, NEW j \in 1 .. created, i # j
  PROVE  Image(loaded[i].name) \cap Image(loaded[j].name) = {}
<1>1. /\ i \in 1 .. Len(loaded) /\ j \in 1 .. Len(loaded) /\ loaded \in Boots
  BY ImageIs
<1>2. /\ Image(loaded[i].name) = Ends(loaded)[i - 1] .. Ends(loaded)[i] - 1
      /\ Image(loaded[j].name) = Ends(loaded)[j - 1] .. Ends(loaded)[j] - 1
  BY ImageIs
<1>3. \A x \in Image(loaded[i].name) : x \notin Image(loaded[j].name)
  BY <1>1, <1>2, ProgramsApart
<1> QED BY <1>3

LEMMA OwnDescriptors ==
  ASSUME KInv, NEW i \in 1 .. created
  PROVE  /\ Given(loaded[i].name) = Descriptors(t.slot[i])
         /\ DOMAIN Given(loaded[i].name) = Named
         /\ \A s \in Named : Given(loaded[i].name)[s] \in (1 .. NO_AVL_DSCRPTS - 1) \ KernelDescriptors
<1>1. Given(loaded[i].name) = Descriptors(t.slot[i])
  <2>1. SlotOf(loaded[i].name) = i
    BY ProcessIsKnown DEF Known
  <2> QED BY <2>1 DEF Given
<1>2. Placed(t, loaded, i) /\ t \in Tables(Owners)
  BY DEF KInv, Table
<1>3. t.used \subseteq Indices
  BY <1>2 DEF Tables
<1>4. \A s \in Named : Descriptors(t.slot[i])[s] \in Indices \ KernelDescriptors
  BY <1>2, <1>3 DEF Placed
<1>5. Indices \ KernelDescriptors \subseteq (1 .. NO_AVL_DSCRPTS - 1) \ KernelDescriptors
  <2>1. 0 \in KernelDescriptors /\ NO_AVL_DSCRPTS \in Nat
    BY TableAssumption
  <2> QED BY <2>1 DEF Indices
<1> QED BY <1>1, <1>4, <1>5, DescriptorsAre

LEMMA OwnAll == KInv => EachHasItsOwn
<1> SUFFICES ASSUME KInv PROVE EachHasItsOwn
  OBVIOUS
<1>1. \A p \in Processes : \E i \in 1 .. created : loaded[i].name = p
  BY DEF Processes
<1>2. ASSUME NEW p \in Processes
      PROVE  /\ \A s \in DOMAIN Given(p) :
                  Given(p)[s] \in 1 .. NO_AVL_DSCRPTS - 1 \ KernelDescriptors
             /\ GetBase(DataSegment(p)) = AddressOf(Program(p))
             /\ GetLimit(DataSegment(p)) = loaded[Program(p)].size
             /\ Image(p) \cap LowEnd .. OneMeg - 1 = {}
  <2>1. PICK i \in 1 .. created : loaded[i].name = p
    BY <1>1
  <2>2. /\ GetBase(DataSegment(p)) = AddressOf(Program(p))
        /\ GetLimit(DataSegment(p)) = loaded[Program(p)].size
    BY <2>1, ProcessIsKnown DEF Known
  <2>3. \A s \in DOMAIN Given(p) : Given(p)[s] \in 1 .. NO_AVL_DSCRPTS - 1 \ KernelDescriptors
    BY <2>1, OwnDescriptors
  <2>4. Image(p) \cap LowEnd .. OneMeg - 1 = {}
    BY <2>1, ImageAvoids
  <2> QED BY <2>2, <2>3, <2>4
<1>3. ASSUME NEW p \in Processes, NEW q \in Processes
      PROVE  /\ \A r, s \in DOMAIN Given(p) : Given(p)[r] = Given(q)[s] => p = q /\ r = s
             /\ p # q => Image(p) \cap Image(q) = {}
  <2>1. PICK i \in 1 .. created : loaded[i].name = p
    BY <1>1
  <2>2. PICK j \in 1 .. created : loaded[j].name = q
    BY <1>1
  <2>3. NotMixed(t, created)
    BY DEF KInv, Table
  <2>4. \A r, s \in DOMAIN Given(p) : Given(p)[r] = Given(q)[s] => p = q /\ r = s
    <3>1. Given(p) = Descriptors(t.slot[i]) /\ Given(q) = Descriptors(t.slot[j])
          /\ DOMAIN Given(p) = Named
      BY <2>1, <2>2, OwnDescriptors
    <3> QED BY <2>1, <2>2, <2>3, <3>1 DEF NotMixed
  <2>5. p # q => Image(p) \cap Image(q) = {}
    BY <2>1, <2>2, ImagesApart
  <2> QED BY <2>4, <2>5
<1> QED BY <1>2, <1>3 DEF EachHasItsOwn

\* create_process, the bitmap and exit: whatever the table, the descriptors and
\* the programs are, nobody comes to share a slot, a descriptor or a byte.
THEOREM EverybodyHasHisOwn == KSpec => []EachHasItsOwn
BY OwnAll, KernelInvariance, PTL
-----------------------------------------------------------------------------
(***************************************************************************)
(* What an entry reads and writes.                                         *)
(***************************************************************************)
\* An address that is read, written or told is accounted for.
Fine(touch) ==
  LET p == touch[2]
  IN \/ touch[3] \in Image(p)
     \/ touch[1] = "told" /\ touch[3] - 1 \in Image(p)
     \/ touch[1] # "told" /\ edx'[p] + ecx'[p] >= Word
     \/ touch[1] = "read" /\ p # curptr /\ SENDING \notin state[p]

LEMMA PhysicalIsThere ==
  ASSUME KInv, NEW i \in 1 .. created, NEW x \in Nat, x <= loaded[i].size
  PROVE  /\ Physical(loaded[i].name, x) = AddressOf(i) + x
         /\ x < loaded[i].size => Physical(loaded[i].name, x) \in Image(loaded[i].name)
         /\ x = loaded[i].size => Physical(loaded[i].name, x) - 1 \in Image(loaded[i].name)
<1> DEFINE a == AddressOf(i)
           size == loaded[i].size
<1>1. /\ a \in Nat /\ size \in Nat \ {0} /\ a + size < Word /\ Word \in Nat
      /\ Image(loaded[i].name) = a .. a + size - 1
  BY ImageIs
<1>2. GetBase(DataSegment(loaded[i].name)) = a
  BY ProcessIsKnown DEF Known
<1>3. x <= size
  OBVIOUS
<1> HIDE DEF a, size
<1>4. a + x \in Nat /\ a + x < Word
  BY <1>1, <1>3
<1>5. Physical(loaded[i].name, x) = a + x
  BY <1>2, <1>4, SmallSum DEF Physical
<1>6. x < size => a + x \in a .. a + size - 1
  BY <1>1
<1>7. x = size => (a + x) - 1 \in a .. a + size - 1
  BY <1>1
<1> QED BY <1>1, <1>5, <1>6, <1>7 DEF a, size

\* The bytes of a buffer that was looked at.
LEMMA BytesInside ==
  ASSUME KInv, NEW i \in 1 .. created, NEW addr \in Nat, NEW len \in Nat,
         Inside(addr, len, loaded[i].size), NEW k \in 0 .. len - 1
  PROVE  addr + len >= Word \/ Physical(loaded[i].name, addr + k) \in Image(loaded[i].name)
<1>1. loaded[i].size \in Nat
  BY ImageIs
<1>2. CASE addr + len <= loaded[i].size
  <2>1. addr + k \in Nat /\ addr + k < loaded[i].size
    BY <1>1, <1>2
  <2> QED BY <1>1, <2>1, PhysicalIsThere
<1> QED BY <1>2 DEF Inside

\* An exchange touches bytes of the two buffers only.
LEMMA ExchangeIsFine ==
  ASSUME NEW s, NEW at, NEW r, NEW to, NEW bytes \in Nat,
         \A k \in 0 .. bytes - 1 : /\ Fine(<<"read", s, Physical(s, at + k)>>)
                                   /\ Fine(<<"write", r, Physical(r, to + k)>>)
  PROVE  \A touch \in Exchange(s, at, r, to, bytes) : Fine(touch)
<1> SUFFICES ASSUME NEW touch \in Exchange(s, at, r, to, bytes) PROVE Fine(touch)
  OBVIOUS
<1>1. PICK k \in 0 .. bytes - 1 :
        \/ touch = <<"read", s, Physical(s, at + k)>>
        \/ touch = <<"write", r, Physical(r, to + k)>>
  BY DEF Exchange
<1>2. /\ Fine(<<"read", s, Physical(s, at + k)>>)
      /\ Fine(<<"write", r, Physical(r, to + k)>>)
  OBVIOUS
<1>3. CASE touch = <<"read", s, Physical(s, at + k)>>
  BY <1>2, <1>3, Zenon
<1>4. CASE touch = <<"write", r, Physical(r, to + k)>>
  BY <1>2, <1>4, Zenon
<1> QED BY <1>1, <1>3, <1>4

\* The buffer of the process that runs.
LEMMA RunnersBytes ==
  ASSUME KInv, NEW p \in Procs, curptr = p, NEW addr \in Addrs, NEW len \in Lens,
         ValidArea(p, addr, len), edx'[p] = addr, ecx'[p] = len,
         NEW k \in 0 .. len - 1, NEW way \in {"read", "write"}
  PROVE  Fine(<<way, p, Physical(p, addr + k)>>)
<1>1. PICK i \in 1 .. created : loaded[i].name = p
  BY RunnerIsProcess
<1>2. addr \in Nat /\ len \in Nat
  BY KernelAssumption
<1>3. Inside(addr, len, loaded[i].size)
  BY <1>1, <1>2, AreaIsInside
<1>4. addr + len >= Word \/ Physical(p, addr + k) \in Image(p)
  BY <1>1, <1>2, <1>3, BytesInside
<1>5. way # "told"
  OBVIOUS
<1> QED BY <1>4, <1>5 DEF Fine

\* The buffer of a process that waits with a flag.
LEMMA WaitersBytes ==
  ASSUME KInv, NEW q \in Procs, RECEIVING \in state[q] \/ SENDING \in state[q],
         edx'[q] = edx[q], ecx'[q] = ecx[q],
         NEW k \in 0 .. ecx[q] - 1, NEW way \in {"read", "write"}
  PROVE  Fine(<<way, q, Physical(q, edx[q] + k)>>)
<1>1. state[q] # {EMPTY}
  BY DEF EMPTY, RECEIVING, SENDING
<1>2. PICK i \in 1 .. created : loaded[i].name = q
  BY <1>1, OnlyProcessesAct
<1>3. edx[q] \in Nat /\ ecx[q] \in Nat
  <2>1. edx[q] \in 0 .. Word - 1 /\ ecx[q] \in Nat
    BY DEF KInv, IInv, TypeOK
  <2> QED BY <2>1
<1>4. Inside(edx[q], ecx[q], loaded[i].size)
  <2>1. BufferInside(i)
    BY DEF KInv
  <2> QED BY <1>2, <2>1 DEF BufferInside
<1>5. edx[q] + ecx[q] >= Word \/ Physical(q, edx[q] + k) \in Image(q)
  BY <1>2, <1>3, <1>4, BytesInside
<1>6. way # "told"
  OBVIOUS
<1> QED BY <1>5, <1>6 DEF Fine

LEMMA ShorterIs ==
  ASSUME NEW m \in Nat, NEW n \in Nat
  PROVE  Shorter(m, n) \in Nat /\ Shorter(m, n) <= m /\ Shorter(m, n) <= n
BY DEF Shorter

LEMMA SendIsFine ==
  ASSUME KInv, NEW p \in Procs, curptr = p, NEW f \in Features, NEW addr \in Addrs,
         NEW len \in Lens, ValidArea(p, addr, len), SendDelivers(p, f, len), Offer(p, addr),
         touched' = Exchange(p, addr, supplier[f], edx[supplier[f]], eax'[p])
  PROVE  \A touch \in touched' : Fine(touch)
<1> DEFINE r == supplier[f]
<1>1. r \in Procs /\ r # p /\ RECEIVING \in state[r]
  BY DEF SendDelivers, ReceivingFrom, KInv, IInv, TypeOK, Owners
<1>2. len \in Nat /\ ecx[r] \in Nat
  BY <1>1 DEF KInv, IInv, TypeOK
<1>3. eax'[p] = Shorter(len, ecx[r])
  BY <1>1 DEF SendDelivers, TellBoth, KInv, IInv, TypeOK
<1>4. ecx'[p] = len /\ ecx'[r] = ecx[r]
  BY <1>1 DEF SendDelivers, KInv, IInv, TypeOK
<1>5. edx'[p] = addr /\ edx'[r] = edx[r]
  BY <1>1 DEF Offer, KInv
<1> HIDE DEF r
<1>6. eax'[p] \in Nat /\ eax'[p] <= len /\ eax'[p] <= ecx[r]
  BY <1>2, <1>3, ShorterIs
<1>7. ASSUME NEW k \in 0 .. eax'[p] - 1
      PROVE  /\ Fine(<<"read", p, Physical(p, addr + k)>>)
             /\ Fine(<<"write", r, Physical(r, edx[r] + k)>>)
  <2>1. k \in 0 .. len - 1 /\ k \in 0 .. ecx[r] - 1
    BY <1>2, <1>6
  <2>2. Fine(<<"read", p, Physical(p, addr + k)>>)
    BY <1>4, <1>5, <2>1, RunnersBytes
  <2>3. Fine(<<"write", r, Physical(r, edx[r] + k)>>)
    BY <1>1, <1>4, <1>5, <2>1, WaitersBytes
  <2> QED BY <2>2, <2>3
<1>8. touched' = Exchange(p, addr, r, edx[r], eax'[p])
  BY DEF r
<1> QED BY <1>6, <1>7, <1>8, ExchangeIsFine

LEMMA ReceiveIsFine ==
  ASSUME KInv, NEW p \in Procs, curptr = p, NEW from \in Owners, NEW addr \in Addrs,
         NEW len \in Lens, ValidArea(p, addr, len), ReceiveMessage(p, from, len), Offer(p, addr),
         touched' = Exchange(Taken(p), edx[Taken(p)], p, addr, eax'[p])
  PROVE  \A touch \in touched' : Fine(touch)
<1>1. p \in Heads /\ list \in Lists /\ NotShared(list)
  BY DEF Heads, KInv, IInv, TypeOK, LinksNotShared, Lists
<1>2. PICK i \in DOMAIN list[p] :
        /\ ecx' = [ecx EXCEPT ![p] = len]
        /\ eax' = TellBoth(eax, p, list[p][i], Shorter(ecx[list[p][i]], len))
        /\ list' = [list EXCEPT ![p] = RemoveAt(@, i)]
  BY DEF ReceiveMessage
<1> DEFINE s == list[p][i]
<1>3. s \in Procs /\ s \notin ready /\ Contains(list[p], s)
  BY <1>1, WaiterSleeps DEF KInv
<1>4. s # p
  BY <1>3, RunnerIsFree DEF KInv
<1>5. Taken(p) = s
  <2>1. Gone(list, list', s)
    BY <1>1, <1>2, RemoveFromList
  <2>2. ASSUME NEW q \in ToSet(list[p])
        PROVE  q \in Procs /\ Contains(list[p], q)
    BY <1>1, WaiterSleeps DEF KInv, ToSet
  <2>3. s \in ToSet(list[p])
    BY DEF ToSet
  <2>4. \A q \in ToSet(list[p]) : ~Contains(list'[p], q) <=> q = s
    BY <1>1, <2>1, <2>2 DEF Gone
  <2> HIDE DEF s
  <2> QED BY <2>3, <2>4 DEF Taken
<1>6. len \in Nat /\ ecx[s] \in Nat
  BY <1>3 DEF KInv, IInv, TypeOK
<1>7. /\ eax'[p] = Shorter(ecx[s], len) /\ ecx'[p] = len /\ ecx'[s] = ecx[s]
  BY <1>2, <1>3, <1>4 DEF TellBoth, KInv, IInv, TypeOK
<1>8. edx'[p] = addr /\ edx'[s] = edx[s]
  BY <1>3, <1>4 DEF Offer, KInv
<1> HIDE DEF s
<1>9. eax'[p] \in Nat /\ eax'[p] <= len /\ eax'[p] <= ecx[s]
  BY <1>6, <1>7, ShorterIs
<1>10. ASSUME NEW k \in 0 .. eax'[p] - 1
       PROVE  /\ Fine(<<"read", s, Physical(s, edx[s] + k)>>)
              /\ Fine(<<"write", p, Physical(p, addr + k)>>)
  <2>1. k \in 0 .. len - 1 /\ k \in 0 .. ecx[s] - 1
    BY <1>6, <1>9
  <2>2. Fine(<<"write", p, Physical(p, addr + k)>>)
    BY <1>7, <1>8, <2>1, RunnersBytes
  <2>3. Fine(<<"read", s, Physical(s, edx[s] + k)>>)
    <3>1. CASE SENDING \in state[s]
      BY <1>3, <1>7, <1>8, <2>1, <3>1, WaitersBytes
    <3>2. CASE SENDING \notin state[s]
      BY <1>4, <3>2 DEF Fine
    <3> QED BY <3>1, <3>2
  <2> QED BY <2>2, <2>3
<1>11. touched' = Exchange(s, edx[s], p, addr, eax'[p])
  BY <1>5
<1> QED BY <1>9, <1>10, <1>11, ExchangeIsFine

LEMMA Vir2PhysIsFine ==
  ASSUME KInv, NEW p \in Procs, curptr = p, NEW virtual \in Addrs, Vir2Phys(p, virtual)
  PROVE  \A touch \in touched' : Fine(touch)
<1>1. CASE touched' = {}
  BY <1>1
<1>2. CASE /\ ValidArea(p, virtual, 0) /\ Answer(p, Physical(p, virtual))
           /\ touched' = {<<"told", p, eax'[p]>>}
  <2>1. PICK i \in 1 .. created : loaded[i].name = p
    BY RunnerIsProcess
  <2>2. eax'[p] = Physical(p, virtual)
    BY <1>2 DEF Answer, KInv, IInv, TypeOK
  <2>3. Inside(virtual, 0, loaded[i].size)
    BY <1>2, <2>1, AreaIsInside
  <2>4. virtual \in Nat /\ virtual < Word
    <3>1. virtual \in 0 .. Word - 1 /\ Word \in Nat
      BY KernelAssumption, Fields
    <3> HIDE DEF Word
    <3> QED BY <3>1
  <2>5. loaded[i].size \in Nat /\ Word \in Nat
    BY ImageIs
  <2>6. virtual < loaded[i].size \/ virtual = loaded[i].size
    BY <2>3, <2>4, <2>5 DEF Inside
  <2>7. Physical(p, virtual) \in Image(p) \/ Physical(p, virtual) - 1 \in Image(p)
    BY <2>1, <2>4, <2>5, <2>6, PhysicalIsThere
  <2>8. Fine(<<"told", p, eax'[p]>>)
    BY <2>2, <2>7 DEF Fine
  <2> QED BY <1>2, <2>8
<1> QED BY <1>1, <1>2 DEF Vir2Phys

LEMMA StepIsFine ==
  ASSUME KInv, KNext
  PROVE  \A touch \in touched' : Fine(touch)
<1>1. CASE touched' = {}
  BY <1>1
<1>2. CASE phase = STARTING /\ UNCHANGED touched
  BY <1>1, <1>2 DEF KInv, Booting
<1>3. ASSUME NEW p \in Procs, curptr = p, KSyscall(p)
      PROVE  \A touch \in touched' : Fine(touch)
  <2>1. ASSUME NEW f \in Features \cup {NoFeature}, NEW addr \in Addrs, NEW len \in Lens,
               NEW block \in BOOLEAN, KSend(p, f, addr, len, block)
        PROVE  \A touch \in touched' : Fine(touch)
    BY <1>1, <1>3, <2>1, SendIsFine DEF KSend
  <2>2. ASSUME NEW from \in Owners, NEW addr \in Addrs, NEW len \in Lens,
               KReceive(p, from, addr, len)
        PROVE  \A touch \in touched' : Fine(touch)
    BY <1>1, <1>3, <2>2, ReceiveIsFine DEF KReceive
  <2>3. CASE KExit(p)
    BY <1>1, <2>3 DEF KExit
  <2>4. ASSUME NEW virtual \in Addrs, Vir2Phys(p, virtual)
        PROVE  \A touch \in touched' : Fine(touch)
    BY <1>3, <2>4, Vir2PhysIsFine
  <2> QED BY <1>1, <1>3, <2>1, <2>2, <2>3, <2>4 DEF KSyscall
<1>4. CASE Exception \/ KInterrupt
  BY <1>1, <1>4 DEF Exception, KInterrupt
<1>5. CASE CreateProgram \/ EnableInterrupts
  BY <1>2, <1>5 DEF CreateProgram, EnableInterrupts
<1> QED BY <1>3, <1>4, <1>5 DEF KNext, Entry

\* validate_data_area, exchange_data and vir2phys, across everything that lies
\* between the call that names a buffer and the call that uses it: nothing is
\* read, written or told outside the programs, but through the two buffers that
\* the kernel does not look at.
THEOREM AddressesAreOwn == KSpec => AddressesStayInside
<1>1. KInv /\ [KNext]_kvars => [\A touch \in touched' : Fine(touch)]_kvars
  BY StepIsFine
<1>2. KInv /\ [KNext]_kvars =>
        [\A touch \in touched' :
           LET p == touch[2]
           IN \/ touch[3] \in Image(p)
              \/ touch[1] = "told" /\ touch[3] - 1 \in Image(p)
              \/ touch[1] # "told" /\ edx'[p] + ecx'[p] >= Word
              \/ touch[1] = "read" /\ p # curptr /\ SENDING \notin state[p]]_kvars
  BY <1>1 DEF Fine
<1> QED BY <1>2, KernelInvariance, PTL DEF KSpec, AddressesStayInside, kvars
=============================================================================
