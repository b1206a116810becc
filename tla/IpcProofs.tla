----------------------------- MODULE IpcProofs ------------------------------
(***************************************************************************)
(* Proofs about Ipc: its safety properties; what a kernel entry may never  *)
(* do to a process; and that every entry is one the run queue allows.      *)
(***************************************************************************)
EXTENDS Ipc, SequenceTheorems, TLAPS

-----------------------------------------------------------------------------
(***************************************************************************)
(* What the list operations do to the places of the processes.             *)
(***************************************************************************)
Lists == [Heads -> Seq(Procs)]

\* How the members of the lists m differ from those of l: p has joined list h,
\* q has left its list, the members of f have moved to p, list p was cleared.
Joined(l, m, h, p) ==
  \A g \in Heads, q \in Procs :
    Contains(m[g], q) <=> Contains(l[g], q) \/ (g = h /\ q = p)
Gone(l, m, s) ==
  \A g \in Heads, q \in Procs : Contains(m[g], q) <=> Contains(l[g], q) /\ q # s
Moved(l, m, f, p) ==
  \A g \in Heads, q \in Procs :
    Contains(m[g], q) <=> \/ g = p /\ Contains(l[f], q)
                          \/ g \notin {p, f} /\ Contains(l[g], q)
Cleared(l, m, p) ==
  \A g \in Heads, q \in Procs : Contains(m[g], q) <=> g # p /\ Contains(l[g], q)

\* RemoveAt takes out one element and keeps the order of the others.
LEMMA RemoveAtProperties ==
  ASSUME NEW S, NEW s \in Seq(S), NEW i \in DOMAIN s
  PROVE  /\ RemoveAt(s, i) \in Seq(S)
         /\ Len(RemoveAt(s, i)) = Len(s) - 1
         /\ \A j \in 1 .. Len(s) - 1 :
              RemoveAt(s, i)[j] = IF j < i THEN s[j] ELSE s[j + 1]
<1> DEFINE a == SubSeq(s, 1, i - 1)
           b == SubSeq(s, i + 1, Len(s))
<1>1. i \in 1 .. Len(s)
  OBVIOUS
<1>2. a \in Seq(S) /\ Len(a) = i - 1 /\ \A j \in 1 .. i - 1 : a[j] = s[j]
  BY <1>1
<1>3. b \in Seq(S) /\ Len(b) = Len(s) - i /\ \A j \in 1 .. Len(s) - i : b[j] = s[i + j]
  BY <1>1
<1>4. RemoveAt(s, i) = a \o b
  BY DEF RemoveAt
<1> HIDE DEF a, b
<1>5. a \o b \in Seq(S) /\ Len(a \o b) = Len(a) + Len(b)
  BY <1>2, <1>3, ConcatProperties
<1>6. ASSUME NEW j \in 1 .. Len(s) - 1
      PROVE  (a \o b)[j] = IF j < i THEN s[j] ELSE s[j + 1]
  <2>1. CASE j < i
    BY <1>1, <1>2, <1>3, <2>1, ConcatProperties
  <2>2. CASE ~(j < i)
    <3>1. (a \o b)[j] = b[j - (i - 1)] /\ j - (i - 1) \in 1 .. Len(s) - i
      BY <1>1, <1>2, <1>3, <2>2, ConcatProperties
    <3>2. QED
      BY <3>1, <1>1, <1>3, <2>2
  <2>3. QED
    BY <2>1, <2>2
<1>7. QED
  BY <1>1, <1>2, <1>3, <1>4, <1>5, <1>6

\* Appending a process that stands on no list.
LEMMA AppendToList ==
  ASSUME NEW l \in Lists, NEW h \in Heads, NEW p \in Procs, NotShared(l),
         \A g \in Heads : ~Contains(l[g], p),
         NEW m, m = [l EXCEPT ![h] = Append(@, p)]
  PROVE  m \in Lists /\ NotShared(m) /\ Joined(l, m, h, p)
<1>1. m[h] = Append(l[h], p) /\ \A g \in Heads \ {h} : m[g] = l[g]
  BY DEF Lists
<1>2. /\ Append(l[h], p) \in Seq(Procs) /\ Len(m[h]) = Len(l[h]) + 1
      /\ m[h][Len(l[h]) + 1] = p
      /\ \A j \in 1 .. Len(l[h]) : m[h][j] = l[h][j]
  BY <1>1, AppendProperties DEF Lists
<1>3. m \in Lists
  BY <1>2 DEF Lists
<1>4. ASSUME NEW g \in Heads, NEW q \in Procs
      PROVE  Contains(m[g], q) <=> Contains(l[g], q) \/ (g = h /\ q = p)
  <2>1. Len(l[h]) \in Nat
    BY DEF Lists
  <2>2. QED
    BY <1>1, <1>2, <2>1 DEF Contains
<1>5. NotShared(m)
  <2> SUFFICES ASSUME NEW a \in Heads, NEW b \in Heads,
                      NEW i \in DOMAIN m[a], NEW j \in DOMAIN m[b], m[a][i] = m[b][j]
               PROVE  a = b /\ i = j
    BY DEF NotShared
  <2>1. \A g \in Heads : DOMAIN l[g] = 1 .. Len(l[g]) /\ Len(l[g]) \in Nat
                         /\ DOMAIN m[g] = 1 .. Len(m[g])
    BY <1>3 DEF Lists
  <2>2. \A g \in Heads : \A n \in 1 .. Len(l[g]) : l[g][n] # p
    BY DEF Contains
  <2>3. \A g \in Heads : \A n \in DOMAIN m[g] :
          \/ n \in DOMAIN l[g] /\ m[g][n] = l[g][n]
          \/ g = h /\ n = Len(l[h]) + 1 /\ m[g][n] = p
    BY <1>1, <1>2, <2>1
  <2>4. CASE i \in DOMAIN l[a] /\ m[a][i] = l[a][i]
    <3>1. m[b][j] # p
      BY <2>1, <2>2, <2>4
    <3>2. j \in DOMAIN l[b] /\ m[b][j] = l[b][j]
      BY <2>3, <3>1
    <3>3. QED
      BY <2>4, <3>2 DEF NotShared
  <2>5. CASE a = h /\ i = Len(l[h]) + 1 /\ m[a][i] = p
    <3>1. ~(j \in DOMAIN l[b] /\ m[b][j] = l[b][j])
      BY <2>1, <2>2, <2>5
    <3>2. QED
      BY <2>3, <2>5, <3>1
  <2>6. QED
    BY <2>3, <2>4, <2>5
<1>6. QED
  BY <1>3, <1>4, <1>5 DEF Joined

\* Taking one process out of the list it stands on.
LEMMA RemoveFromList ==
  ASSUME NEW l \in Lists, NEW h \in Heads, NEW i \in DOMAIN l[h], NotShared(l),
         NEW m, m = [l EXCEPT ![h] = RemoveAt(@, i)]
  PROVE  m \in Lists /\ NotShared(m) /\ Gone(l, m, l[h][i])
<1>1. m[h] = RemoveAt(l[h], i) /\ \A g \in Heads \ {h} : m[g] = l[g]
  BY DEF Lists
<1>2. /\ m[h] \in Seq(Procs) /\ Len(m[h]) = Len(l[h]) - 1
      /\ \A j \in 1 .. Len(l[h]) - 1 : m[h][j] = IF j < i THEN l[h][j] ELSE l[h][j + 1]
  BY <1>1, RemoveAtProperties DEF Lists
<1>3. m \in Lists
  BY <1>2 DEF Lists
<1>4. \A g \in Heads : DOMAIN l[g] = 1 .. Len(l[g]) /\ Len(l[g]) \in Nat
                       /\ DOMAIN m[g] = 1 .. Len(m[g]) /\ Len(m[g]) \in Nat
  BY <1>3 DEF Lists
<1>5. \A g \in Heads : \A n \in DOMAIN m[g] :
        \E o \in DOMAIN l[g] : /\ m[g][n] = l[g][o]
                               /\ g # h => o = n
                               /\ g = h => o = (IF n < i THEN n ELSE n + 1)
  BY <1>1, <1>2, <1>4
<1>6. NotShared(m)
  <2> SUFFICES ASSUME NEW a \in Heads, NEW b \in Heads,
                      NEW j \in DOMAIN m[a], NEW k \in DOMAIN m[b], m[a][j] = m[b][k]
               PROVE  a = b /\ j = k
    BY DEF NotShared
  <2>1. PICK o \in DOMAIN l[a] : /\ m[a][j] = l[a][o]
                                 /\ a # h => o = j
                                 /\ a = h => o = (IF j < i THEN j ELSE j + 1)
    BY <1>5
  <2>2. PICK r \in DOMAIN l[b] : /\ m[b][k] = l[b][r]
                                 /\ b # h => r = k
                                 /\ b = h => r = (IF k < i THEN k ELSE k + 1)
    BY <1>5
  <2>3. a = b /\ o = r
    BY <2>1, <2>2 DEF NotShared
  <2>4. j \in Nat /\ k \in Nat /\ i \in Nat
    BY <1>4
  <2>5. QED
    BY <2>1, <2>2, <2>3, <2>4
<1>7. ASSUME NEW g \in Heads, NEW q \in Procs
      PROVE  Contains(m[g], q) <=> Contains(l[g], q) /\ q # l[h][i]
  <2>1. ASSUME Contains(m[g], q)
        PROVE  Contains(l[g], q) /\ q # l[h][i]
    <3>1. PICK n \in DOMAIN m[g] : m[g][n] = q
      BY <2>1, <1>4 DEF Contains
    <3>2. PICK o \in DOMAIN l[g] : /\ m[g][n] = l[g][o]
                                   /\ g = h => o = (IF n < i THEN n ELSE n + 1)
      BY <1>5, <3>1
    <3>3. g = h => o # i
      BY <3>2, <1>4
    <3>4. q # l[h][i]
      BY <3>1, <3>2, <3>3 DEF NotShared
    <3>5. QED
      BY <3>1, <3>2, <3>4, <1>4 DEF Contains
  <2>2. ASSUME Contains(l[g], q), q # l[h][i]
        PROVE  Contains(m[g], q)
    <3>1. PICK o \in DOMAIN l[g] : l[g][o] = q
      BY <2>2, <1>4 DEF Contains
    <3>2. CASE g # h
      BY <3>1, <3>2, <1>1, <1>4 DEF Contains
    <3>3. CASE g = h
      <4>1. o # i /\ o \in 1 .. Len(l[h]) /\ i \in 1 .. Len(l[h])
        BY <3>1, <3>3, <2>2, <1>4
      <4>2. CASE o < i
        <5>1. o \in 1 .. Len(m[h]) /\ m[h][o] = q
          BY <3>1, <3>3, <4>1, <4>2, <1>2, <1>4
        <5>2. QED
          BY <5>1, <3>3 DEF Contains
      <4>3. CASE o > i
        <5>1. o - 1 \in 1 .. Len(m[h]) /\ m[h][o - 1] = q
          BY <3>1, <3>3, <4>1, <4>3, <1>2, <1>4
        <5>2. QED
          BY <5>1, <3>3 DEF Contains
      <4>4. QED
        BY <4>1, <4>2, <4>3, <1>4
    <3>4. QED
      BY <3>2, <3>3
  <2>3. QED
    BY <2>1, <2>2
<1>8. QED
  BY <1>3, <1>6, <1>7 DEF Gone

\* A feature that finds its supplier: its waiters become the senders of p.
LEMMA MoveList ==
  ASSUME NEW l \in Lists, NEW f \in Heads, NEW p \in Heads, f # p,
         NotShared(l), l[p] = <<>>,
         NEW m, m = [l EXCEPT ![p] = l[f], ![f] = <<>>]
  PROVE  m \in Lists /\ NotShared(m) /\ Moved(l, m, f, p)
<1>1. /\ m[p] = l[f] /\ m[f] = <<>>
      /\ \A g \in Heads \ {p, f} : m[g] = l[g]
  BY DEF Lists
<1>2. m \in Lists
  BY DEF Lists
<1>3. \A g \in Heads : \A n \in DOMAIN m[g] :
        \E o \in Heads : /\ g # f /\ o = (IF g = p THEN f ELSE g)
                        /\ n \in DOMAIN l[o] /\ m[g][n] = l[o][n]
  <2>1. DOMAIN m[f] = {}
    BY <1>1
  <2>2. QED
    BY <1>1, <2>1
<1>4. NotShared(m)
  <2> SUFFICES ASSUME NEW a \in Heads, NEW b \in Heads,
                      NEW i \in DOMAIN m[a], NEW j \in DOMAIN m[b], m[a][i] = m[b][j]
               PROVE  a = b /\ i = j
    BY DEF NotShared
  <2>1. PICK o \in Heads : /\ a # f /\ o = (IF a = p THEN f ELSE a)
                          /\ i \in DOMAIN l[o] /\ m[a][i] = l[o][i]
    BY <1>3
  <2>2. PICK r \in Heads : /\ b # f /\ r = (IF b = p THEN f ELSE b)
                          /\ j \in DOMAIN l[r] /\ m[b][j] = l[r][j]
    BY <1>3
  <2>3. o = r /\ i = j
    BY <2>1, <2>2 DEF NotShared
  <2>4. QED
    BY <2>1, <2>2, <2>3
<1>5. \A q \in Procs : ~Contains(<<>>, q)
  BY DEF Contains
<1>6. ASSUME NEW g \in Heads, NEW q \in Procs
      PROVE  Contains(m[g], q) <=> \/ g = p /\ Contains(l[f], q)
                                   \/ g \notin {p, f} /\ Contains(l[g], q)
  <2>1. CASE g = p
    BY <1>1, <2>1
  <2>2. CASE g = f
    BY <1>1, <1>5, <2>2
  <2>3. CASE g \notin {p, f}
    BY <1>1, <2>3
  <2>4. QED
    BY <2>1, <2>2, <2>3
<1>7. QED
  BY <1>2, <1>4, <1>6 DEF Moved

\* The senders of a process that exits are all unlinked.
LEMMA ClearList ==
  ASSUME NEW l \in Lists, NEW p \in Heads, NotShared(l),
         NEW m, m = [l EXCEPT ![p] = <<>>]
  PROVE  m \in Lists /\ NotShared(m) /\ Cleared(l, m, p)
<1>1. m[p] = <<>> /\ \A g \in Heads \ {p} : m[g] = l[g]
  BY DEF Lists
<1>2. m \in Lists
  BY DEF Lists
<1>3. DOMAIN m[p] = {}
  BY <1>1
<1>4. NotShared(m)
  BY <1>1, <1>3 DEF NotShared
<1>5. QED
  BY <1>1, <1>2, <1>4 DEF Contains, Cleared
-----------------------------------------------------------------------------
(***************************************************************************)
(* Facts used by every action.                                             *)
(***************************************************************************)
USE RunQueueAssumption, IpcAssumption

\* The flags of a process exclude each other, so clearing the one a process
\* blocks on puts it back into the run queue.
LEMMA FlagsExclude ==
  ASSUME TypeOK, NEW p \in Procs, NEW flag \in {RECEIVING, SENDING}, flag \in state[p]
  PROVE  /\ state[p] = {flag} /\ state[p] \ {flag} = {}
         /\ Unblocked(p, flag) = {p}
<1>1. state[p] \in {{}, {EMPTY}, {RECEIVING}, {SENDING}}
  BY DEF TypeOK
<1>2. state[p] = {flag}
  BY <1>1 DEF EMPTY, RECEIVING, SENDING
<1>3. QED
  BY <1>2 DEF Unblocked

\* The dispatch at the end of an entry chooses a member of the run queue.
LEMMA EntryProperties ==
  ASSUME NEW woken \in SUBSET Procs, NEW blocked, ready \subseteq Procs,
         KernelEntry(woken, blocked)
  PROVE  /\ ready' = (ready \cup woken) \ blocked
         /\ ready' \subseteq Procs /\ curptr' \in Procs \cup {Idle, NULL}
         /\ RunnerIsReady'
BY DEF KernelEntry, Runnable, RunnerIsReady

THEOREM InitIInv == Init => IInv
<1> SUFFICES ASSUME Init PROVE IInv
  OBVIOUS
<1>1. \A h \in Heads : list[h] = <<>> /\ DOMAIN list[h] = {}
  BY DEF Init, Unclaimed
<1>2. \A h \in Heads, q \in Procs : ~Contains(list[h], q)
  BY <1>1 DEF Contains
<1>3. TypeOK
  BY DEF Init, Unclaimed, TypeOK, Owners, Words, OK
<1>4. LinksNotShared
  BY <1>1 DEF LinksNotShared, NotShared
<1>5. NobodyForgotten
  BY <1>2 DEF Init, Unclaimed, NobodyForgotten, Listed
<1>6. RunnerIsReady /\ SuppliesItsOwn
  BY DEF Init, Unclaimed, RunnerIsReady, SuppliesItsOwn
<1>7. NoMissedRendezvous /\ NoMissedInterrupt
  BY DEF Init, Unclaimed, NoMissedRendezvous, NoMissedInterrupt
<1>8. WaitersFollowSupplier
  BY <1>1 DEF WaitersFollowSupplier, Heads
<1>9. DeadHoldNoLine
  BY DEF Init, Unclaimed, DeadHoldNoLine
<1>10. QED
  BY <1>3, <1>4, <1>5, <1>6, <1>7, <1>8, <1>9 DEF IInv
-----------------------------------------------------------------------------
(***************************************************************************)
(* One lemma per kind of kernel entry.                                     *)
(***************************************************************************)
\* Entries after which everybody is where he was: refused calls, a pending
\* interrupt that is collected, a line that is taken, ticks and interrupts
\* nobody waits for.
LEMMA QuietEntry ==
  ASSUME IInv, KernelEntry({}, {}), UNCHANGED <<state, list, want, supplier>>,
         irqs' \in [0 .. MaxIrq -> Owners], interrupts' \in [Procs -> SUBSET (1 .. MaxIrq)],
         esi' \in [Procs -> Words], eax' \in [Procs -> Nat], ecx' \in [Procs -> Nat],
         NoMissedInterrupt', DeadHoldNoLine'
  PROVE  IInv'
<1>1. ready' = ready /\ ready' \subseteq Procs /\ curptr' \in Procs \cup {Idle, NULL}
      /\ RunnerIsReady'
  <2>1. ready \subseteq Procs
    BY DEF IInv, TypeOK
  <2>2. ready' = (ready \cup {}) \ {} /\ ready' \subseteq Procs
        /\ curptr' \in Procs \cup {Idle, NULL} /\ RunnerIsReady'
    BY <2>1, EntryProperties
  <2>3. QED
    BY <2>2
<1>2. TypeOK'
  BY <1>1 DEF IInv, TypeOK
<1>3. SuppliesItsOwn' /\ LinksNotShared' /\ WaitersFollowSupplier'
  BY DEF IInv, SuppliesItsOwn, LinksNotShared, NotShared, WaitersFollowSupplier
<1>4. NobodyForgotten' /\ NoMissedRendezvous'
  BY <1>1 DEF IInv, NobodyForgotten, Listed, NoMissedRendezvous
<1>5. QED
  BY <1>1, <1>2, <1>3, <1>4 DEF IInv

LEMMA ReturnStep ==
  ASSUME IInv, NEW p \in Procs, NEW verdict \in Words, Return(p, verdict)
  PROVE  IInv'
<1>1. /\ irqs' \in [0 .. MaxIrq -> Owners] /\ interrupts' \in [Procs -> SUBSET (1 .. MaxIrq)]
      /\ esi' \in [Procs -> Words] /\ eax' \in [Procs -> Nat] /\ ecx' \in [Procs -> Nat]
  BY DEF IInv, TypeOK, Return
<1>2. NoMissedInterrupt' /\ DeadHoldNoLine'
  BY DEF IInv, Return, NoMissedInterrupt, DeadHoldNoLine
<1>3. QED
  BY <1>1, <1>2, QuietEntry DEF Return

LEMMA ReceiveInterruptStep ==
  ASSUME IInv, NEW p \in Procs, NEW len \in Lens, ReceiveInterrupt(p, len)
  PROVE  IInv'
<1>1. interrupts[p] \in Words /\ len \in Nat
  BY DEF IInv, TypeOK, Words
<1>2. /\ irqs' \in [0 .. MaxIrq -> Owners] /\ interrupts' \in [Procs -> SUBSET (1 .. MaxIrq)]
      /\ esi' \in [Procs -> Words] /\ eax' \in [Procs -> Nat] /\ ecx' \in [Procs -> Nat]
  BY <1>1 DEF IInv, TypeOK, ReceiveInterrupt
<1>3. NoMissedInterrupt' /\ DeadHoldNoLine'
  BY DEF IInv, TypeOK, ReceiveInterrupt, NoMissedInterrupt, DeadHoldNoLine
<1>4. QED
  BY <1>2, <1>3, QuietEntry DEF ReceiveInterrupt

LEMMA TakeIrqStep ==
  ASSUME IInv, NEW p \in Procs, curptr = p, NEW n \in 0 .. MaxIrq, TakeIrq(p, n)
  PROVE  IInv'
<1>1. /\ irqs' \in [0 .. MaxIrq -> Owners] /\ interrupts' \in [Procs -> SUBSET (1 .. MaxIrq)]
      /\ esi' \in [Procs -> Words] /\ eax' \in [Procs -> Nat] /\ ecx' \in [Procs -> Nat]
  BY DEF IInv, TypeOK, TakeIrq, Owners, Words, OK
<1>2. state[p] = {}
  BY DEF IInv, RunnerIsReady, NobodyForgotten
<1>3. NoMissedInterrupt' /\ DeadHoldNoLine'
  BY <1>2 DEF IInv, TypeOK, TakeIrq, NoMissedInterrupt, DeadHoldNoLine
<1>4. QED
  BY <1>1, <1>3, QuietEntry DEF TakeIrq

LEMMA ClockTickStep ==
  ASSUME IInv, KernelEntry({}, {}), UNCHANGED ipcVars
  PROVE  IInv'
<1>1. NoMissedInterrupt' /\ DeadHoldNoLine'
  BY DEF IInv, ipcVars, NoMissedInterrupt, DeadHoldNoLine
<1>2. QED
  BY <1>1, QuietEntry DEF IInv, TypeOK, ipcVars

LEMMA NotifyLaterStep ==
  ASSUME IInv, NEW p \in Procs, NEW n \in 1 .. MaxIrq, NotifyLater(p, n)
  PROVE  IInv'
<1>1. interrupts' \in [Procs -> SUBSET (1 .. MaxIrq)]
  BY DEF IInv, TypeOK, NotifyLater, Record, InReceive
<1>2. NoMissedInterrupt' /\ DeadHoldNoLine'
  BY DEF IInv, TypeOK, NotifyLater, Record, InReceive, NoMissedInterrupt, DeadHoldNoLine
<1>3. QED
  BY <1>1, <1>2, QuietEntry DEF IInv, TypeOK, NotifyLater, Record, InReceive

\* Entries that end a receive: a message is delivered, or a line fires.
LEMMA ReceiverWakes ==
  ASSUME IInv, NEW r \in Procs, RECEIVING \in state[r],
         state' = [state EXCEPT ![r] = @ \ {RECEIVING}], want' = [want EXCEPT ![r] = NULL],
         KernelEntry(Unblocked(r, RECEIVING), {}),
         UNCHANGED <<list, supplier, irqs, interrupts>>,
         esi' \in [Procs -> Words], eax' \in [Procs -> Nat], ecx' \in [Procs -> Nat]
  PROVE  IInv'
<1>1. state[r] = {RECEIVING} /\ Unblocked(r, RECEIVING) = {r} /\ state[r] \ {RECEIVING} = {}
  BY FlagsExclude DEF IInv
<1>2. state'[r] = {} /\ \A q \in Procs \ {r} : state'[q] = state[q]
  BY <1>1 DEF IInv, TypeOK
<1>3. ready' = ready \cup {r} /\ ready' \subseteq Procs
      /\ curptr' \in Procs \cup {Idle, NULL} /\ RunnerIsReady'
  <2>1. ready \subseteq Procs /\ {r} \in SUBSET Procs /\ KernelEntry({r}, {})
    BY <1>1 DEF IInv, TypeOK
  <2>2. ready' = (ready \cup {r}) \ {} /\ ready' \subseteq Procs
        /\ curptr' \in Procs \cup {Idle, NULL} /\ RunnerIsReady'
    BY <2>1, EntryProperties
  <2>3. QED
    BY <2>2
<1>4. TypeOK'
  BY <1>1, <1>3 DEF IInv, TypeOK, Owners
<1>5. SuppliesItsOwn' /\ LinksNotShared' /\ WaitersFollowSupplier'
  BY DEF IInv, SuppliesItsOwn, LinksNotShared, NotShared, WaitersFollowSupplier
<1>6. ~Listed(r)
  BY <1>1 DEF IInv, NobodyForgotten, RECEIVING, SENDING
<1>7. NobodyForgotten'
  BY <1>2, <1>3, <1>6 DEF IInv, NobodyForgotten, Listed
<1>8. NoMissedRendezvous' /\ NoMissedInterrupt' /\ DeadHoldNoLine'
  BY <1>2 DEF IInv, TypeOK, NoMissedRendezvous, NoMissedInterrupt, DeadHoldNoLine
<1>9. QED
  BY <1>3, <1>4, <1>5, <1>7, <1>8 DEF IInv

\* The process that runs has no flag set and stands on no list.
LEMMA RunnerIsFree ==
  ASSUME IInv, NEW p \in Procs, curptr = p
  PROVE  p \in ready /\ state[p] = {} /\ ~Listed(p)
BY DEF IInv, RunnerIsReady, NobodyForgotten

\* The dispatch when the process that runs blocks.
LEMMA BlockingEntry ==
  ASSUME IInv, NEW p \in Procs, KernelEntry({}, {p})
  PROVE  /\ ready' = ready \ {p} /\ ready' \subseteq Procs
         /\ curptr' \in Procs \cup {Idle, NULL} /\ RunnerIsReady'
<1>1. ready \subseteq Procs /\ {} \in SUBSET Procs
  BY DEF IInv, TypeOK
<1>2. ready' = (ready \cup {}) \ {p} /\ ready' \subseteq Procs
      /\ curptr' \in Procs \cup {Idle, NULL} /\ RunnerIsReady'
  BY <1>1, EntryProperties
<1>3. QED
  BY <1>2

\* Entries that put the caller at the end of a list: of the supplier it sends
\* to, or of the feature nobody supplies yet.
LEMMA SenderBlocks ==
  ASSUME IInv, NEW p \in Procs, curptr = p, NEW h \in Heads,
         list' = [list EXCEPT ![h] = Append(@, p)],
         state' \in [Procs -> {{}, {EMPTY}, {RECEIVING}, {SENDING}}],
         state'[p] \in {{}, {SENDING}}, \A q \in Procs \ {p} : state'[q] = state[q],
         h \in Features => supplier[h] = NULL,
         h \in Procs => (\E f \in Features : supplier[f] = h) /\ ~ReceivingFrom(h, p),
         KernelEntry({}, {p}), UNCHANGED <<want, supplier, irqs, interrupts, esi, eax>>,
         ecx' \in [Procs -> Nat]
  PROVE  IInv'
<1>1. /\ ready' = ready \ {p} /\ ready' \subseteq Procs
      /\ curptr' \in Procs \cup {Idle, NULL} /\ RunnerIsReady'
  BY BlockingEntry
<1>2. p \in ready /\ state[p] = {} /\ \A g \in Heads : ~Contains(list[g], p)
  BY RunnerIsFree DEF Listed
<1>3. /\ list' \in Lists /\ NotShared(list')
      /\ \A g \in Heads, q \in Procs :
           Contains(list'[g], q) <=> Contains(list[g], q) \/ (g = h /\ q = p)
  <2>1. list \in Lists /\ NotShared(list)
    BY DEF IInv, TypeOK, LinksNotShared, Lists
  <2>2. list' \in Lists /\ NotShared(list') /\ Joined(list, list', h, p)
    BY <2>1, <1>2, AppendToList
  <2>3. QED
    BY <2>2 DEF Joined
<1>4. TypeOK'
  BY <1>1, <1>3 DEF IInv, TypeOK, Lists
<1>5. SuppliesItsOwn' /\ DeadHoldNoLine' /\ NoMissedInterrupt'
  <2>1. SuppliesItsOwn'
    BY DEF IInv, SuppliesItsOwn
  <2>2. EMPTY \notin state'[p] /\ RECEIVING \notin state'[p]
    BY DEF EMPTY, RECEIVING, SENDING
  <2>3. DeadHoldNoLine'
    BY <2>2 DEF IInv, DeadHoldNoLine
  <2>4. NoMissedInterrupt'
    BY <2>2 DEF IInv, NoMissedInterrupt
  <2>5. QED
    BY <2>1, <2>3, <2>4
<1>6. \A q \in Procs : Listed(q)' <=> Listed(q) \/ q = p
  BY <1>3 DEF Listed
<1>7. NobodyForgotten'
  <2> SUFFICES ASSUME NEW q \in Procs
               PROVE  /\ q \in ready' <=> state'[q] = {} /\ ~Listed(q)'
                      /\ SENDING \in state'[q] => Listed(q)'
                      /\ Listed(q)' => state'[q] \subseteq {SENDING}
    BY DEF NobodyForgotten
  <2>1. CASE q = p
    BY <1>1, <1>6, <2>1
  <2>2. CASE q # p
    BY <1>1, <1>6, <2>2 DEF IInv, NobodyForgotten
  <2>3. QED
    BY <2>1, <2>2
<1>8. NoMissedRendezvous'
  <2> SUFFICES ASSUME NEW r \in Procs, RECEIVING \in state'[r]
               PROVE  IF want[r] = NULL THEN list'[r] = <<>> ELSE ~Contains(list'[r], want[r])
    BY DEF NoMissedRendezvous
  <2>1. r # p /\ RECEIVING \in state[r] /\ r \in Heads
    BY DEF RECEIVING, SENDING, Heads
  <2>2. IF want[r] = NULL THEN list[r] = <<>> ELSE ~Contains(list[r], want[r])
    BY <2>1 DEF IInv, NoMissedRendezvous
  <2>3. want[r] \in Procs \cup {NULL}
    BY DEF IInv, TypeOK, Owners
  <2>4. CASE r = h
    BY <1>3, <2>1, <2>2, <2>3, <2>4 DEF ReceivingFrom
  <2>5. CASE r # h
    <3>1. list'[r] = list[r]
      BY <2>1, <2>5 DEF IInv, TypeOK
    <3>2. QED
      BY <3>1, <2>2
  <2>6. QED
    BY <2>4, <2>5
<1>9. WaitersFollowSupplier'
  <2>1. \A g \in Heads \ {h} : list'[g] = list[g]
    BY DEF IInv, TypeOK
  <2>2. QED
    BY <2>1 DEF IInv, WaitersFollowSupplier, Heads
<1>10. QED
  BY <1>1, <1>3, <1>4, <1>5, <1>7, <1>8, <1>9 DEF IInv, LinksNotShared

LEMMA SendDeliversStep ==
  ASSUME IInv, NEW p \in Procs, NEW f \in Features, NEW len \in Lens, SendDelivers(p, f, len)
  PROVE  IInv'
<1> DEFINE r == supplier[f]
<1>1. r \in Procs /\ RECEIVING \in state[r] /\ len \in Nat /\ ecx[r] \in Nat
  BY DEF IInv, TypeOK, SendDelivers, Unset, TellBoth, ReceivingFrom, Owners
<1>2. Shorter(len, ecx[r]) \in Nat
  BY <1>1 DEF Shorter
<1>3. esi' \in [Procs -> Words] /\ eax' \in [Procs -> Nat] /\ ecx' \in [Procs -> Nat]
  BY <1>1, <1>2 DEF IInv, TypeOK, SendDelivers, Unset, TellBoth, Words, OK
<1>4. QED
  BY <1>1, <1>3, ReceiverWakes DEF SendDelivers, Unset, TellBoth

LEMMA SendQueuesStep ==
  ASSUME IInv, NEW p \in Procs, curptr = p, NEW f \in Features, NEW len \in Lens,
         SendQueues(p, f, len)
  PROVE  IInv'
<1> DEFINE r == supplier[f]
<1>1. r \in Procs /\ r \in Heads /\ ~ReceivingFrom(r, p) /\ len \in Nat
  BY DEF IInv, TypeOK, SendQueues, Join, Owners, Heads
<1>2. state[p] = {} /\ state \in [Procs -> {{}, {EMPTY}, {RECEIVING}, {SENDING}}]
  BY RunnerIsFree DEF IInv, TypeOK
<1>3. /\ state' \in [Procs -> {{}, {EMPTY}, {RECEIVING}, {SENDING}}]
      /\ state'[p] = {SENDING} /\ \A q \in Procs \ {p} : state'[q] = state[q]
  BY <1>2 DEF SendQueues, Join
<1>4. ecx' \in [Procs -> Nat]
  BY <1>1 DEF IInv, TypeOK, SendQueues, Join
<1>5. r \notin Features /\ \E g \in Features : supplier[g] = r
  BY <1>1
<1>6. QED
  BY <1>1, <1>3, <1>4, <1>5, SenderBlocks DEF SendQueues, Join

LEMMA SendAwaitsStep ==
  ASSUME IInv, NEW p \in Procs, curptr = p, NEW f \in Features, NEW len \in Lens,
         SendAwaits(p, f, len)
  PROVE  IInv'
<1>1. f \in Heads /\ f \notin Procs /\ len \in Nat
  BY DEF Heads
<1>2. state[p] = {} /\ state' = state
      /\ state \in [Procs -> {{}, {EMPTY}, {RECEIVING}, {SENDING}}]
  BY RunnerIsFree DEF IInv, TypeOK, SendAwaits, Join
<1>3. ecx' \in [Procs -> Nat]
  BY <1>1 DEF IInv, TypeOK, SendAwaits, Join
<1>4. QED
  BY <1>1, <1>2, <1>3, SenderBlocks DEF SendAwaits, Join

LEMMA NotifyReceiverStep ==
  ASSUME IInv, NEW p \in Procs, NEW n \in 1 .. MaxIrq, NotifyReceiver(p, n)
  PROVE  IInv'
<1>1. {n} \in Words
  BY DEF Words
<1>2. esi' \in [Procs -> Words] /\ eax' \in [Procs -> Nat] /\ ecx' \in [Procs -> Nat]
  BY <1>1 DEF IInv, TypeOK, NotifyReceiver, Unset, InReceive
<1>3. QED
  BY <1>2, ReceiverWakes DEF NotifyReceiver, Unset, InReceive

\* A receiver that finds neither an interrupt nor its sender leaves the
\* processor: the two guards are what the new sleeper owes to the invariant.
LEMMA ReceiveBlocksStep ==
  ASSUME IInv, NEW p \in Procs, curptr = p, NEW from \in Owners, NEW len \in Lens,
         ReceiveBlocks(p, from, len)
  PROVE  IInv'
<1>1. /\ ready' = ready \ {p} /\ ready' \subseteq Procs
      /\ curptr' \in Procs \cup {Idle, NULL} /\ RunnerIsReady'
  BY BlockingEntry DEF ReceiveBlocks
<1>2. p \in ready /\ state[p] = {} /\ ~Listed(p)
  BY RunnerIsFree
<1>3. state'[p] = {RECEIVING} /\ \A q \in Procs \ {p} : state'[q] = state[q]
  BY <1>2 DEF IInv, TypeOK, ReceiveBlocks
<1>4. len \in Nat /\ state[p] \cup {RECEIVING} = {RECEIVING}
  BY <1>2
<1>5. TypeOK'
  BY <1>1, <1>4 DEF IInv, TypeOK, ReceiveBlocks
<1>6. SuppliesItsOwn' /\ LinksNotShared' /\ WaitersFollowSupplier'
  BY DEF IInv, ReceiveBlocks, SuppliesItsOwn, LinksNotShared, NotShared, WaitersFollowSupplier
<1>7. NobodyForgotten'
  <2>1. \A q \in Procs : Listed(q)' <=> Listed(q)
    BY DEF Listed, ReceiveBlocks
  <2>2. SENDING \notin {RECEIVING}
    BY DEF SENDING, RECEIVING
  <2>3. QED
    BY <1>1, <1>2, <1>3, <2>1, <2>2 DEF IInv, NobodyForgotten
<1>8. NoMissedRendezvous'
  <2>1. want'[p] = from /\ \A q \in Procs \ {p} : want'[q] = want[q]
    BY DEF IInv, TypeOK, ReceiveBlocks
  <2>2. QED
    BY <1>3, <2>1 DEF IInv, ReceiveBlocks, NoMissedRendezvous
<1>9. NoMissedInterrupt'
  BY <1>3 DEF IInv, ReceiveBlocks, NoMissedInterrupt
<1>10. DeadHoldNoLine'
  <2>1. EMPTY \notin state'[p]
    BY <1>3 DEF EMPTY, RECEIVING
  <2>2. QED
    BY <1>3, <2>1 DEF IInv, ReceiveBlocks, DeadHoldNoLine
<1>11. QED
  BY <1>1, <1>5, <1>6, <1>7, <1>8, <1>9, <1>10 DEF IInv

\* A receiver that finds its sender unlinks and unblocks it.
LEMMA ReceiveMessageStep ==
  ASSUME IInv, NEW p \in Procs, curptr = p, NEW from \in Owners, NEW len \in Lens,
         ReceiveMessage(p, from, len)
  PROVE  IInv'
<1>1. p \in Heads /\ list \in Lists /\ NotShared(list)
  BY DEF IInv, TypeOK, LinksNotShared, Lists, Heads
<1>2. PICK i \in DOMAIN list[p] :
        LET s == list[p][i]
            bytes == Shorter(ecx[s], len)
        IN /\ ecx' = [ecx EXCEPT ![p] = len]
           /\ eax' = [eax EXCEPT ![p] = bytes, ![s] = bytes]
           /\ esi' = [esi EXCEPT ![p] = OK, ![s] = OK]
           /\ list' = [list EXCEPT ![p] = RemoveAt(@, i)]
           /\ state' = [state EXCEPT ![s] = @ \ {SENDING}]
           /\ KernelEntry(Unblocked(s, SENDING), {})
           /\ UNCHANGED <<want, supplier, irqs, interrupts>>
  BY DEF ReceiveMessage, Unset, TellBoth
<1> DEFINE s == list[p][i]
<1>3. s \in Procs /\ Contains(list[p], s) /\ list[p] # <<>>
  BY <1>1 DEF Lists, Contains
<1>4. /\ state[s] \subseteq {SENDING} /\ state[s] \ {SENDING} = {}
      /\ Unblocked(s, SENDING) = {s}
  <2>1. state[s] \subseteq {SENDING}
    BY <1>1, <1>3 DEF IInv, NobodyForgotten, Listed
  <2>2. QED
    BY <2>1 DEF Unblocked
<1>5. state'[s] = {} /\ \A q \in Procs \ {s} : state'[q] = state[q]
  BY <1>2, <1>3, <1>4 DEF IInv, TypeOK
<1>6. ready' = ready \cup {s} /\ ready' \subseteq Procs
      /\ curptr' \in Procs \cup {Idle, NULL} /\ RunnerIsReady'
  <2>1. ready \subseteq Procs /\ {s} \in SUBSET Procs /\ KernelEntry({s}, {})
    BY <1>2, <1>3, <1>4 DEF IInv, TypeOK
  <2>2. ready' = (ready \cup {s}) \ {} /\ ready' \subseteq Procs
        /\ curptr' \in Procs \cup {Idle, NULL} /\ RunnerIsReady'
    BY <2>1, EntryProperties
  <2>3. QED
    BY <2>2
<1>7. list' \in Lists /\ NotShared(list') /\ Gone(list, list', s)
  BY <1>1, <1>2, RemoveFromList
<1>8. p \in ready /\ state[p] = {} /\ ~Listed(p) /\ s # p
  BY <1>1, <1>3, RunnerIsFree DEF Listed
<1>9. TypeOK'
  <2>1. len \in Nat /\ ecx[s] \in Nat /\ OK \in Words
    BY <1>3 DEF IInv, TypeOK, OK, Words
  <2>2. Shorter(ecx[s], len) \in Nat
    BY <2>1 DEF Shorter
  <2>3. esi' \in [Procs -> Words] /\ eax' \in [Procs -> Nat] /\ ecx' \in [Procs -> Nat]
    BY <1>2, <2>1, <2>2 DEF IInv, TypeOK
  <2>4. state' \in [Procs -> {{}, {EMPTY}, {RECEIVING}, {SENDING}}]
    BY <1>2, <1>4 DEF IInv, TypeOK
  <2>5. QED
    BY <1>2, <1>6, <1>7, <2>3, <2>4 DEF IInv, TypeOK, Lists
<1>10. SuppliesItsOwn' /\ NoMissedInterrupt' /\ DeadHoldNoLine'
  <2>1. SuppliesItsOwn'
    BY <1>2 DEF IInv, SuppliesItsOwn
  <2>2. NoMissedInterrupt' /\ DeadHoldNoLine'
    BY <1>2, <1>5 DEF IInv, NoMissedInterrupt, DeadHoldNoLine
  <2>3. QED
    BY <2>1, <2>2
<1>11. NobodyForgotten'
  <2>1. \A q \in Procs : Listed(q)' <=> Listed(q) /\ q # s
    BY <1>7 DEF Listed, Gone
  <2>2. QED
    BY <1>5, <1>6, <2>1 DEF IInv, NobodyForgotten
<1>12. \A h \in Heads \ {p} : list'[h] = list[h]
  BY <1>2 DEF IInv, TypeOK
<1>13. NoMissedRendezvous'
  <2> SUFFICES ASSUME NEW r \in Procs, RECEIVING \in state'[r]
               PROVE  IF want'[r] = NULL THEN list'[r] = <<>> ELSE ~Contains(list'[r], want'[r])
    BY DEF NoMissedRendezvous
  <2>1. r # s /\ r # p /\ RECEIVING \in state[r]
    BY <1>5, <1>8
  <2>2. list'[r] = list[r] /\ want'[r] = want[r]
    BY <1>2, <1>12, <2>1 DEF Heads
  <2>3. QED
    BY <2>1, <2>2 DEF IInv, NoMissedRendezvous
<1>14. WaitersFollowSupplier'
  <2>1. \A f \in Features : list'[f] = list[f]
    BY <1>12 DEF Heads
  <2>2. \A q \in Procs \ {p} : list'[q] = list[q]
    BY <1>12 DEF Heads
  <2>3. QED
    BY <1>2, <1>3, <2>1, <2>2 DEF IInv, WaitersFollowSupplier
<1>15. QED
  BY <1>6, <1>7, <1>9, <1>10, <1>11, <1>13, <1>14 DEF IInv, LinksNotShared

\* A process that starts to supply a feature inherits the processes that wait
\* for it.  Its own list is empty: it would have to supply another feature.
LEMMA TakeFeatureStep ==
  ASSUME IInv, NEW p \in Procs, curptr = p, NEW f \in Supplies[p], TakeFeature(p, f)
  PROVE  IInv'
<1>1. /\ p \in Heads /\ f \in Heads /\ f # p /\ f \in Features
      /\ list \in Lists /\ NotShared(list)
  BY DEF IInv, TypeOK, LinksNotShared, Lists, Heads
<1>2. list[p] = <<>>
  <2> SUFFICES ASSUME list[p] # <<>>
               PROVE  FALSE
    OBVIOUS
  <2>1. PICK g \in Features : supplier[g] = p
    BY DEF IInv, WaitersFollowSupplier
  <2>2. g \in Supplies[p]
    BY <2>1 DEF IInv, SuppliesItsOwn
  <2>3. QED
    BY <2>1, <2>2 DEF TakeFeature, Inherit
<1>3. list' \in Lists /\ NotShared(list') /\ Moved(list, list', f, p)
  BY <1>1, <1>2, MoveList DEF TakeFeature, Inherit
<1>4. ready' = ready /\ ready' \subseteq Procs /\ curptr' \in Procs \cup {Idle, NULL}
      /\ RunnerIsReady'
  <2>1. ready \subseteq Procs /\ KernelEntry({}, {})
    BY DEF IInv, TypeOK, TakeFeature, Inherit
  <2>2. ready' = (ready \cup {}) \ {} /\ ready' \subseteq Procs
        /\ curptr' \in Procs \cup {Idle, NULL} /\ RunnerIsReady'
    BY <2>1, EntryProperties
  <2>3. QED
    BY <2>2
<1>5. TypeOK'
  <2>1. supplier' \in [Features -> Owners] /\ esi' \in [Procs -> Words]
    BY DEF IInv, TypeOK, TakeFeature, Inherit, Owners, OK, Words
  <2>2. QED
    BY <1>3, <1>4, <2>1 DEF IInv, TypeOK, TakeFeature, Inherit, Lists
<1>6. supplier'[f] = p /\ \A g \in Features \ {f} : supplier'[g] = supplier[g]
  BY <1>1 DEF IInv, TypeOK, TakeFeature, Inherit
<1>7. SuppliesItsOwn'
  BY <1>6 DEF IInv, SuppliesItsOwn
<1>8. NoMissedInterrupt' /\ DeadHoldNoLine'
  BY DEF IInv, TakeFeature, Inherit, NoMissedInterrupt, DeadHoldNoLine
<1>9. NobodyForgotten'
  <2>1. \A q \in Procs : ~Contains(list[p], q)
    BY <1>2 DEF Contains
  <2>2. \A q \in Procs : Listed(q)' <=> Listed(q)
    BY <1>1, <1>3, <2>1 DEF Listed, Moved
  <2>3. QED
    BY <1>4, <2>2 DEF IInv, NobodyForgotten, TakeFeature, Inherit
<1>10. list'[f] = <<>> /\ \A h \in Heads \ {p, f} : list'[h] = list[h]
  BY <1>1 DEF Lists, TakeFeature, Inherit
<1>11. NoMissedRendezvous'
  <2> SUFFICES ASSUME NEW r \in Procs, RECEIVING \in state'[r]
               PROVE  IF want'[r] = NULL THEN list'[r] = <<>> ELSE ~Contains(list'[r], want'[r])
    BY DEF NoMissedRendezvous
  <2>1. RECEIVING \in state[r] /\ want'[r] = want[r] /\ r # p /\ r # f
    BY RunnerIsFree, <1>1 DEF TakeFeature, Inherit
  <2>2. list'[r] = list[r]
    BY <1>10, <2>1 DEF Heads
  <2>3. QED
    BY <2>1, <2>2 DEF IInv, NoMissedRendezvous
<1>12. WaitersFollowSupplier'
  <2>1. ASSUME NEW g \in Features, list'[g] # <<>>
        PROVE  supplier'[g] = NULL
    <3>1. g # f /\ g # p /\ g \in Heads
      BY <2>1, <1>10 DEF Heads
    <3>2. list'[g] = list[g] /\ supplier'[g] = supplier[g]
      BY <3>1, <1>6, <1>10
    <3>3. QED
      BY <2>1, <3>2 DEF IInv, WaitersFollowSupplier
  <2>2. ASSUME NEW q \in Procs, list'[q] # <<>>
        PROVE  \E g \in Features : supplier'[g] = q
    <3>1. CASE q = p
      BY <3>1, <1>1, <1>6
    <3>2. CASE q # p
      <4>1. list'[q] = list[q]
        BY <3>2, <1>1, <1>10 DEF Heads
      <4>2. PICK g \in Features : supplier[g] = q
        BY <4>1, <2>2 DEF IInv, WaitersFollowSupplier
      <4>3. g # f
        BY <4>2 DEF TakeFeature, Inherit
      <4>4. QED
        BY <4>2, <4>3, <1>6
    <3>3. QED
      BY <3>1, <3>2
  <2>3. QED
    BY <2>1, <2>2 DEF WaitersFollowSupplier
<1>13. QED
  BY <1>3, <1>4, <1>5, <1>7, <1>8, <1>9, <1>11, <1>12 DEF IInv, LinksNotShared

\* A process that exits sends everybody home who waits on its list.
LEMMA ExitStep ==
  ASSUME IInv, NEW p \in Procs, curptr = p, Exit(p)
  PROVE  IInv'
<1> DEFINE waiting == ToSet(list[p])
<1>1. p \in Heads /\ list \in Lists /\ NotShared(list)
  BY DEF IInv, TypeOK, LinksNotShared, Lists, Heads
<1>2. waiting \subseteq Procs /\ \A q \in Procs : q \in waiting <=> Contains(list[p], q)
  BY <1>1 DEF Lists, ToSet, Contains
<1>3. p \in ready /\ state[p] = {} /\ ~Listed(p) /\ p \notin waiting
  BY <1>1, <1>2, RunnerIsFree DEF Listed
<1>4. \A q \in waiting : state[q] \ {SENDING} = {} /\ Unblocked(q, SENDING) = {q} /\ Listed(q)
  <2> TAKE q \in waiting
  <2>1. q \in Procs /\ Listed(q)
    BY <1>1, <1>2 DEF Listed
  <2>2. state[q] \subseteq {SENDING}
    BY <2>1 DEF IInv, NobodyForgotten
  <2>3. QED
    BY <2>1, <2>2 DEF Unblocked
<1> HIDE DEF waiting
<1>5. UNION {Unblocked(q, SENDING) : q \in waiting} = waiting
  BY <1>4
<1>6. ready' = (ready \cup waiting) \ {p} /\ ready' \subseteq Procs
      /\ curptr' \in Procs \cup {Idle, NULL} /\ RunnerIsReady'
  <2>1. KernelEntry(UNION {Unblocked(q, SENDING) : q \in waiting}, {p})
    BY DEF Exit, Released, waiting
  <2>2. ready \subseteq Procs /\ waiting \in SUBSET Procs /\ KernelEntry(waiting, {p})
    BY <1>2, <1>5, <2>1 DEF IInv, TypeOK
  <2>3. QED
    BY <2>2, EntryProperties
<1>7. /\ state' \in [Procs -> {{}, {EMPTY}, {RECEIVING}, {SENDING}}]
      /\ state'[p] = {EMPTY}
      /\ \A q \in waiting : state'[q] = {}
      /\ \A q \in Procs \ (waiting \cup {p}) : state'[q] = state[q]
  <2> DEFINE still == [state EXCEPT ![p] = {EMPTY}]
  <2>1. state' = [q \in Procs |-> IF q \in waiting THEN still[q] \ {SENDING} ELSE still[q]]
    BY DEF Exit, Released, waiting
  <2>2. still[p] = {EMPTY} /\ \A q \in Procs \ {p} : still[q] = state[q]
    BY DEF IInv, TypeOK
  <2> HIDE DEF still
  <2>3. state'[p] = {EMPTY}
    BY <1>3, <2>1, <2>2
  <2>4. \A q \in waiting : state'[q] = {}
    BY <1>2, <1>3, <1>4, <2>1, <2>2
  <2>5. \A q \in Procs \ (waiting \cup {p}) : state'[q] = state[q]
    BY <2>1, <2>2
  <2>6. \A q \in Procs : state'[q] \in {{}, {EMPTY}, {RECEIVING}, {SENDING}}
    BY <2>3, <2>4, <2>5 DEF IInv, TypeOK
  <2>7. QED
    BY <2>1, <2>3, <2>4, <2>5, <2>6
<1>8. list' \in Lists /\ NotShared(list') /\ Cleared(list, list', p)
  BY <1>1, ClearList DEF Exit, Released
<1>9. TypeOK'
  <2>1. irqs' \in [0 .. MaxIrq -> Owners]
    BY DEF IInv, TypeOK, Exit, Released, Owners
  <2>2. PROCESSDIED \in Words
    BY DEF PROCESSDIED, Words
  <2>3. esi' = [q \in Procs |-> IF q \in waiting THEN PROCESSDIED ELSE esi[q]]
    BY DEF Exit, Released, waiting
  <2>4. esi' \in [Procs -> Words]
    BY <2>2, <2>3 DEF IInv, TypeOK
  <2>5. QED
    BY <1>6, <1>7, <1>8, <2>1, <2>4 DEF IInv, TypeOK, Exit, Released, Lists
<1>10. SuppliesItsOwn'
  BY DEF IInv, SuppliesItsOwn, Exit, Released
<1>11. NobodyForgotten'
  <2>1. \A q \in Procs : Listed(q)' <=> Listed(q) /\ q \notin waiting
    <3>1. ASSUME NEW q \in waiting, NEW h \in Heads, Contains(list[h], q)
          PROVE  h = p
      BY <1>1, <1>2, <3>1 DEF NotShared, Contains, Lists
    <3>2. QED
      BY <1>1, <1>2, <1>8, <3>1 DEF Listed, Cleared
  <2>2. SENDING \notin {EMPTY}
    BY DEF SENDING, EMPTY
  <2>3. ASSUME NEW q \in Procs
        PROVE  /\ q \in ready' <=> state'[q] = {} /\ ~Listed(q)'
               /\ SENDING \in state'[q] => Listed(q)'
               /\ Listed(q)' => state'[q] \subseteq {SENDING}
    <3>1. CASE q = p
      BY <3>1, <1>3, <1>6, <1>7, <2>1, <2>2
    <3>2. CASE q \in waiting
      BY <3>2, <1>3, <1>6, <1>7, <2>1
    <3>3. CASE q # p /\ q \notin waiting
      BY <3>3, <1>6, <1>7, <2>1 DEF IInv, NobodyForgotten
    <3>4. QED
      BY <3>1, <3>2, <3>3
  <2>4. QED
    BY <2>3 DEF NobodyForgotten
<1>12. \A q \in Procs : RECEIVING \in state'[q] => RECEIVING \in state[q] /\ q # p
  BY <1>7 DEF RECEIVING, EMPTY
<1>13. list'[p] = <<>> /\ \A h \in Heads \ {p} : list'[h] = list[h]
  BY <1>1 DEF Lists, Exit, Released
<1>14. NoMissedRendezvous'
  <2> SUFFICES ASSUME NEW r \in Procs, RECEIVING \in state'[r]
               PROVE  IF want'[r] = NULL THEN list'[r] = <<>> ELSE ~Contains(list'[r], want'[r])
    BY DEF NoMissedRendezvous
  <2>1. RECEIVING \in state[r] /\ list'[r] = list[r] /\ want'[r] = want[r]
    BY <1>12, <1>13 DEF Heads, Exit, Released
  <2>2. QED
    BY <2>1 DEF IInv, NoMissedRendezvous
<1>15. NoMissedInterrupt'
  BY <1>12 DEF IInv, NoMissedInterrupt, Exit, Released
<1>16. DeadHoldNoLine'
  <2> SUFFICES ASSUME NEW n \in 0 .. MaxIrq - 1, irqs'[n] \in Procs
               PROVE  EMPTY \notin state'[irqs'[n]]
    BY DEF DeadHoldNoLine
  <2>1. n \in 0 .. MaxIrq /\ n < MaxIrq
    OBVIOUS
  <2>2. irqs'[n] = IF irqs[n] = p THEN NULL ELSE irqs[n]
    BY <2>1 DEF Exit, Released
  <2>3. irqs[n] # p /\ irqs'[n] = irqs[n] /\ irqs[n] \in Procs
    BY <2>2
  <2>4. EMPTY \notin state[irqs[n]]
    BY <2>3 DEF IInv, DeadHoldNoLine
  <2>5. CASE irqs[n] \in waiting
    BY <1>7, <2>3, <2>5
  <2>6. CASE irqs[n] \notin waiting
    BY <1>7, <2>3, <2>4, <2>6
  <2>7. QED
    BY <2>5, <2>6
<1>17. WaitersFollowSupplier'
  <2>1. \A f \in Features : f \in Heads /\ f # p
    BY DEF Heads
  <2>2. QED
    BY <1>13, <2>1 DEF IInv, WaitersFollowSupplier, Exit, Released, Heads
<1>18. QED
  BY <1>6, <1>8, <1>9, <1>10, <1>11, <1>14, <1>15, <1>16, <1>17 DEF IInv, LinksNotShared
-----------------------------------------------------------------------------
(***************************************************************************)
(* The invariant.                                                          *)
(***************************************************************************)
LEMMA VerdictsAreWords ==
  /\ UNKNOWNSYSCALL \in Words /\ INVALIDBUFFER \in Words /\ CIRCULARSEND \in Words
  /\ WOULDBLOCK \in Words /\ INVALIDFEATURE \in Words /\ INVALIDIRQ \in Words
  /\ IRQINUSE \in Words /\ PROCESSDIED \in Words /\ FEATUREBUSY \in Words
BY DEF Words, UNKNOWNSYSCALL, INVALIDBUFFER, CIRCULARSEND, WOULDBLOCK, INVALIDFEATURE,
       INVALIDIRQ, IRQINUSE, PROCESSDIED, FEATUREBUSY

LEMMA SendStep ==
  ASSUME IInv, NEW p \in Procs, curptr = p, NEW block \in BOOLEAN, SendByFeature(p, block)
  PROVE  IInv'
<1>1. CASE \E valid \in BOOLEAN : \E f \in Features \cup {NoFeature} :
             SendRefused(p, f, valid, block)
  BY <1>1, ReturnStep, VerdictsAreWords DEF SendRefused
<1>2. CASE \E f \in Features, len \in Lens :
             SendDelivers(p, f, len) \/ SendQueues(p, f, len) \/ SendAwaits(p, f, len)
  BY <1>2, SendDeliversStep, SendQueuesStep, SendAwaitsStep
<1>3. QED
  BY <1>1, <1>2 DEF SendByFeature

LEMMA ReceiveStep ==
  ASSUME IInv, NEW p \in Procs, curptr = p, Receive(p)
  PROVE  IInv'
<1>1. CASE Return(p, INVALIDBUFFER)
  BY <1>1, ReturnStep, VerdictsAreWords
<1>2. CASE \E len \in Lens : ReceiveInterrupt(p, len)
  BY <1>2, ReceiveInterruptStep
<1>3. CASE \E len \in Lens, from \in Owners :
             ReceiveMessage(p, from, len) \/ ReceiveBlocks(p, from, len)
  BY <1>3, ReceiveMessageStep, ReceiveBlocksStep
<1>4. QED
  BY <1>1, <1>2, <1>3 DEF Receive

LEMMA SetFeatureStep ==
  ASSUME IInv, NEW p \in Procs, curptr = p, SetFeature(p)
  PROVE  IInv'
BY ReturnStep, TakeFeatureStep, VerdictsAreWords DEF SetFeature

LEMMA RequestIrqStep ==
  ASSUME IInv, NEW p \in Procs, curptr = p, RequestIrq(p)
  PROVE  IInv'
<1>1. PICK n \in Lines :
        IF n \in {0, 2} \/ n > MaxIrq THEN Return(p, INVALIDIRQ)
        ELSE \/ TakeIrq(p, n)
             \/ irqs[n] \notin {NULL, p} /\ Return(p, IRQINUSE)
  BY DEF RequestIrq
<1>2. CASE Return(p, INVALIDIRQ) \/ Return(p, IRQINUSE)
  BY <1>2, ReturnStep, VerdictsAreWords
<1>3. CASE ~(n \in {0, 2} \/ n > MaxIrq) /\ TakeIrq(p, n)
  <2>1. n \in 0 .. MaxIrq
    BY <1>3
  <2>2. QED
    BY <2>1, <1>3, TakeIrqStep
<1>4. QED
  BY <1>1, <1>2, <1>3

LEMMA HardIntStep ==
  ASSUME IInv, NEW n \in Wired, HardInt(n)
  PROVE  IInv'
<1>1. n \in 1 .. MaxIrq /\ n \in 0 .. MaxIrq
  OBVIOUS
<1>2. CASE irqs[n] = NULL
  BY <1>2, ClockTickStep DEF HardInt
<1>3. CASE irqs[n] # NULL
  <2>1. irqs[n] \in Procs
    BY <1>1, <1>3 DEF IInv, TypeOK, Owners
  <2>2. QED
    BY <1>1, <1>3, <2>1, NotifyReceiverStep, NotifyLaterStep DEF HardInt
<1>4. QED
  BY <1>2, <1>3

\* Every kernel entry preserves the invariant.
THEOREM StepIInv == IInv /\ [Next]_vars => IInv'
<1> SUFFICES ASSUME IInv, [Next]_vars
             PROVE  IInv'
  OBVIOUS
<1>1. ASSUME NEW p \in Procs, Syscall(p)
      PROVE  IInv'
  <2>1. curptr = p
    BY <1>1 DEF Syscall
  <2>2. CASE \E block \in BOOLEAN : SendByFeature(p, block)
    BY <2>1, <2>2, SendStep
  <2>3. CASE Receive(p)
    BY <2>1, <2>3, ReceiveStep
  <2>4. CASE SetFeature(p)
    BY <2>1, <2>4, SetFeatureStep
  <2>5. CASE RequestIrq(p)
    BY <2>1, <2>5, RequestIrqStep
  <2>6. CASE Exit(p)
    BY <2>1, <2>6, ExitStep
  <2>7. CASE UnknownSyscall(p)
    BY <2>7, ReturnStep, VerdictsAreWords DEF UnknownSyscall
  <2>8. QED
    BY <1>1, <2>2, <2>3, <2>4, <2>5, <2>6, <2>7 DEF Syscall
<1>2. CASE ClockTick
  BY <1>2, ClockTickStep DEF ClockTick
<1>3. CASE \E n \in Wired : HardInt(n)
  BY <1>3, HardIntStep
<1>4. CASE UNCHANGED vars
  <2>1. TypeOK' /\ RunnerIsReady' /\ SuppliesItsOwn'
    <3>1. TypeOK'
      BY <1>4 DEF vars, rqVars, ipcVars, IInv, TypeOK
    <3>2. RunnerIsReady' /\ SuppliesItsOwn'
      BY <1>4 DEF vars, rqVars, ipcVars, IInv, RunnerIsReady, SuppliesItsOwn
    <3>3. QED
      BY <3>1, <3>2
  <2>2. LinksNotShared' /\ NobodyForgotten' /\ WaitersFollowSupplier'
    BY <1>4 DEF vars, rqVars, ipcVars, IInv, LinksNotShared, NotShared, NobodyForgotten,
                Listed, WaitersFollowSupplier
  <2>3. NoMissedRendezvous' /\ NoMissedInterrupt' /\ DeadHoldNoLine'
    BY <1>4 DEF vars, rqVars, ipcVars, IInv, NoMissedRendezvous, NoMissedInterrupt,
                DeadHoldNoLine
  <2>4. QED
    BY <2>1, <2>2, <2>3 DEF IInv
<1>5. QED
  BY <1>1, <1>2, <1>3, <1>4 DEF Next

\* The inductive invariant holds for any number of processes, features and
\* interrupt lines.
THEOREM Invariance == Spec => []IInv
<1>1. Init => IInv
  BY InitIInv
<1>2. IInv /\ [Next]_vars => IInv'
  BY StepIInv
<1>3. QED
  BY <1>1, <1>2, PTL DEF Spec

\* Every handler keeps the types of the kernel's tables and registers, and
\* leaves a process with at most one of its three flags.
THEOREM TypeCorrect == Spec => []TypeOK
BY Invariance, PTL DEF IInv

\* The lists threaded through nextSender - the senders of a process, the
\* waiters of a feature - are never spliced together: nobody is on two.
THEOREM NoSplicedLists == Spec => []LinksNotShared
BY Invariance, PTL DEF IInv

\* enqueue and dequeue keep pace with the flags and the lists: whoever is off
\* the run queue has exited, or is inside receive, or can be found on a list.
THEOREM NobodyIsForgotten == Spec => []NobodyForgotten
BY Invariance, PTL DEF IInv

\* syscall_send looks at the receiver and syscall_receive at the list of
\* senders, so a pair that may meet never sleeps on both sides.
THEOREM RendezvousHappens == Spec => []NoMissedRendezvous
BY Invariance, PTL DEF IInv

\* notify_irq looks at the flag RECEIVING and syscall_receive at the word
\* interrupts, so no driver sleeps over an interrupt it should serve.
THEOREM InterruptsAreSeen == Spec => []NoMissedInterrupt
BY Invariance, PTL DEF IInv

\* set_feature moves the waiters of a feature to its supplier and overwrites
\* no list that has members.
THEOREM WaitersAreServed == Spec => []WaitersFollowSupplier
BY Invariance, PTL DEF IInv

\* release_irqs_taken frees the lines below MAX_IRQ of a process that exits.
THEOREM DeadReleaseLines == Spec => []DeadHoldNoLine
BY Invariance, PTL DEF IInv

-----------------------------------------------------------------------------
(***************************************************************************)
(* The entries into the kernel, one by one.                                *)
(***************************************************************************)
Call(p) ==
  \/ \E verdict \in Words : Return(p, verdict)
  \/ \E f \in Features, len \in Lens :
       SendDelivers(p, f, len) \/ SendQueues(p, f, len) \/ SendAwaits(p, f, len)
  \/ \E len \in Lens : ReceiveInterrupt(p, len)
  \/ \E len \in Lens, from \in Owners :
       ReceiveMessage(p, from, len) \/ ReceiveBlocks(p, from, len)
  \/ \E f \in Features : f \in Supplies[p] /\ TakeFeature(p, f)
  \/ \E n \in 0 .. MaxIrq : TakeIrq(p, n)
  \/ Exit(p)

Interrupt ==
  \/ KernelEntry({}, {}) /\ UNCHANGED ipcVars
  \/ \E n \in 1 .. MaxIrq : /\ irqs[n] \in Procs
                            /\ NotifyReceiver(irqs[n], n) \/ NotifyLater(irqs[n], n)

AnyEntry == (curptr \in Procs /\ Call(curptr)) \/ Interrupt

LEMMA SendCases ==
  ASSUME NEW p \in Procs, NEW block \in BOOLEAN, SendByFeature(p, block)
  PROVE  Call(p)
<1>1. CASE \E valid \in BOOLEAN : \E f \in Features \cup {NoFeature} :
             SendRefused(p, f, valid, block)
  <2>1. \E verdict \in Words : Return(p, verdict)
    BY <1>1, VerdictsAreWords DEF SendRefused
  <2>2. QED
    BY <2>1 DEF Call
<1>2. CASE \E f \in Features, len \in Lens :
             SendDelivers(p, f, len) \/ SendQueues(p, f, len) \/ SendAwaits(p, f, len)
  BY <1>2 DEF Call
<1>3. QED
  BY <1>1, <1>2 DEF SendByFeature

LEMMA RequestIrqCases ==
  ASSUME NEW p \in Procs, RequestIrq(p)
  PROVE  Call(p)
<1>1. PICK n \in Lines :
        IF n \in {0, 2} \/ n > MaxIrq THEN Return(p, INVALIDIRQ)
        ELSE \/ TakeIrq(p, n)
             \/ irqs[n] \notin {NULL, p} /\ Return(p, IRQINUSE)
  BY DEF RequestIrq
<1>2. CASE Return(p, INVALIDIRQ) \/ Return(p, IRQINUSE)
  BY <1>2, VerdictsAreWords DEF Call
<1>3. CASE ~(n \in {0, 2} \/ n > MaxIrq) /\ TakeIrq(p, n)
  <2>1. n \in 0 .. MaxIrq
    BY <1>3
  <2>2. QED
    BY <2>1, <1>3 DEF Call
<1>4. QED
  BY <1>1, <1>2, <1>3

LEMMA NextCases ==
  ASSUME IInv, Next
  PROVE  AnyEntry
<1>1. ASSUME NEW p \in Procs, Syscall(p)
      PROVE  curptr \in Procs /\ Call(curptr)
  <2>1. curptr = p
    BY <1>1 DEF Syscall
  <2>2. CASE \E block \in BOOLEAN : SendByFeature(p, block)
    BY <2>1, <2>2, SendCases
  <2>3. CASE Receive(p)
    <3>1. CASE Return(p, INVALIDBUFFER)
      BY <2>1, <3>1, VerdictsAreWords DEF Call
    <3>2. CASE \E len \in Lens :
                 \/ ReceiveInterrupt(p, len)
                 \/ \E from \in Owners : ReceiveMessage(p, from, len) \/ ReceiveBlocks(p, from, len)
      BY <2>1, <3>2 DEF Call
    <3>3. QED
      BY <2>3, <3>1, <3>2 DEF Receive
  <2>4. CASE SetFeature(p)
    <3>1. Supplies[p] \subseteq Features
      OBVIOUS
    <3>2. QED
      BY <2>1, <2>4, <3>1, VerdictsAreWords DEF Call, SetFeature
  <2>5. CASE RequestIrq(p)
    BY <2>1, <2>5, RequestIrqCases
  <2>6. CASE Exit(p)
    BY <2>1, <2>6 DEF Call
  <2>7. CASE UnknownSyscall(p)
    BY <2>1, <2>7, VerdictsAreWords DEF UnknownSyscall, Call
  <2>8. QED
    BY <1>1, <2>2, <2>3, <2>4, <2>5, <2>6, <2>7 DEF Syscall
<1>2. CASE ClockTick
  BY <1>2 DEF ClockTick, Interrupt, AnyEntry
<1>3. ASSUME NEW n \in Wired, HardInt(n)
      PROVE  Interrupt
  <2>1. n \in 1 .. MaxIrq /\ irqs[n] \in Procs \cup {NULL}
    BY DEF IInv, TypeOK, Owners
  <2>2. QED
    BY <1>3, <2>1 DEF HardInt, Interrupt
<1>4. QED
  BY <1>1, <1>2, <1>3 DEF Next, AnyEntry
-----------------------------------------------------------------------------
(***************************************************************************)
(* Who is written to, and who is woken.                                    *)
(***************************************************************************)
\* Nobody in the run queue waits for the exchange that completes.
LEMMA ReceiverSleeps ==
  ASSUME IInv, NEW r \in Procs, RECEIVING \in state[r]
  PROVE  r \notin ready /\ Unblocked(r, RECEIVING) = {r}
<1>1. Unblocked(r, RECEIVING) = {r}
  BY FlagsExclude DEF IInv
<1>2. QED
  BY <1>1 DEF IInv, NobodyForgotten

LEMMA WaiterSleeps ==
  ASSUME IInv, NEW h \in Heads, NEW i \in DOMAIN list[h]
  PROVE  /\ list[h][i] \in Procs \ ready
         /\ Contains(list[h], list[h][i]) /\ Listed(list[h][i])
         /\ Unblocked(list[h][i], SENDING) = {list[h][i]}
<1>1. list[h] \in Seq(Procs) /\ list[h][i] \in Procs
  BY DEF IInv, TypeOK
<1>2. Contains(list[h], list[h][i])
  BY <1>1 DEF Contains
<1>3. Listed(list[h][i])
  BY <1>2 DEF Listed
<1>4. list[h][i] \notin ready /\ state[list[h][i]] \subseteq {SENDING}
  BY <1>1, <1>3 DEF IInv, NobodyForgotten
<1>5. QED
  BY <1>1, <1>2, <1>3, <1>4 DEF Unblocked

\* The registers of a process in the run queue belong to it alone.
LEMMA EntryKeepsVerdicts ==
  ASSUME IInv, AnyEntry, NEW q \in Procs, q \in ready, q # curptr
  PROVE  esi'[q] = esi[q] /\ eax'[q] = eax[q]
<1>1. ASSUME NEW f \in Features, NEW len \in Lens, curptr \in Procs, SendDelivers(curptr, f, len)
      PROVE  esi'[q] = esi[q] /\ eax'[q] = eax[q]
  <2>1. supplier[f] \in Procs /\ RECEIVING \in state[supplier[f]]
    BY <1>1 DEF IInv, TypeOK, Owners, SendDelivers, ReceivingFrom
  <2>2. q # supplier[f]
    BY <2>1, ReceiverSleeps
  <2>3. QED
    BY <1>1, <2>1, <2>2 DEF SendDelivers, TellBoth, IInv, TypeOK
<1>2. ASSUME NEW from \in Owners, NEW len \in Lens, curptr \in Procs,
             ReceiveMessage(curptr, from, len)
      PROVE  esi'[q] = esi[q] /\ eax'[q] = eax[q]
  <2>1. PICK i \in DOMAIN list[curptr] :
          LET s == list[curptr][i]
              bytes == Shorter(ecx[s], len)
          IN /\ eax' = TellBoth(eax, curptr, s, bytes)
             /\ esi' = TellBoth(esi, curptr, s, OK)
    BY <1>2 DEF ReceiveMessage
  <2>2. list[curptr][i] \in Procs \ ready
    BY <1>2, WaiterSleeps DEF Heads
  <2>3. QED
    BY <1>2, <2>1, <2>2 DEF TellBoth, IInv, TypeOK
<1>3. ASSUME curptr \in Procs, Exit(curptr)
      PROVE  esi'[q] = esi[q] /\ eax'[q] = eax[q]
  <2>1. q \notin ToSet(list[curptr])
    BY <1>3, WaiterSleeps DEF Heads, ToSet
  <2>2. QED
    BY <1>3, <2>1 DEF Exit, IInv, TypeOK
<1>4. ASSUME curptr \in Procs, Call(curptr)
      PROVE  esi'[q] = esi[q] /\ eax'[q] = eax[q]
  <2>1. CASE \E verdict \in Words : Return(curptr, verdict)
    BY <1>4, <2>1 DEF Return, IInv, TypeOK
  <2>2. CASE \E f \in Features, len \in Lens :
               SendQueues(curptr, f, len) \/ SendAwaits(curptr, f, len)
    BY <2>2 DEF SendQueues, SendAwaits
  <2>3. CASE \E len \in Lens : ReceiveInterrupt(curptr, len)
    BY <1>4, <2>3 DEF ReceiveInterrupt, IInv, TypeOK
  <2>4. CASE \E len \in Lens, from \in Owners : ReceiveBlocks(curptr, from, len)
    BY <2>4 DEF ReceiveBlocks
  <2>5. CASE \E f \in Features : TakeFeature(curptr, f)
    BY <1>4, <2>5 DEF TakeFeature, IInv, TypeOK
  <2>6. CASE \E n \in 0 .. MaxIrq : TakeIrq(curptr, n)
    BY <1>4, <2>6 DEF TakeIrq, IInv, TypeOK
  <2>7. QED
    BY <1>1, <1>2, <1>3, <1>4, <2>1, <2>2, <2>3, <2>4, <2>5, <2>6 DEF Call
<1>5. ASSUME NEW n \in 1 .. MaxIrq, irqs[n] \in Procs, NotifyReceiver(irqs[n], n)
      PROVE  esi'[q] = esi[q] /\ eax'[q] = eax[q]
  <2>1. q # irqs[n]
    BY <1>5, ReceiverSleeps DEF NotifyReceiver, InReceive
  <2>2. QED
    BY <1>5, <2>1 DEF NotifyReceiver, IInv, TypeOK
<1>6. ASSUME Interrupt
      PROVE  esi'[q] = esi[q] /\ eax'[q] = eax[q]
  BY <1>5, <1>6 DEF Interrupt, NotifyLater, ipcVars
<1>7. QED
  BY <1>4, <1>6 DEF AnyEntry

\* No entry gives a flag to, or changes the length of, a process other than the
\* one that runs, and who exited, or was never created, stays so.
LEMMA OthersStay ==
  ASSUME IInv, AnyEntry, NEW q \in Procs, q # curptr
  PROVE  /\ state'[q] \subseteq state[q]
         /\ EMPTY \in state[q] => EMPTY \in state'[q]
         /\ ecx'[q] = ecx[q]
<1> DEFINE Goal == /\ state'[q] \subseteq state[q]
                   /\ EMPTY \in state[q] => EMPTY \in state'[q]
                   /\ ecx'[q] = ecx[q]
<1>0. /\ state \in [Procs -> {{}, {EMPTY}, {RECEIVING}, {SENDING}}]
      /\ ecx \in [Procs -> Nat]
  BY DEF IInv, TypeOK
<1>1. ASSUME NEW r \in Procs, NEW flag \in {RECEIVING, SENDING}, state' = Unset(r, flag)
      PROVE  /\ state'[q] \subseteq state[q]
             /\ EMPTY \in state[q] => EMPTY \in state'[q]
  <2>1. state'[q] = IF q = r THEN state[r] \ {flag} ELSE state[q]
    BY <1>0, <1>1 DEF Unset
  <2>2. EMPTY # flag
    BY DEF EMPTY, RECEIVING, SENDING
  <2> QED BY <2>1, <2>2
<1>2. ASSUME NEW p \in Procs, p # q, NEW X, state' = [state EXCEPT ![p] = X]
      PROVE  state'[q] = state[q]
  BY <1>0, <1>2
<1>3. ASSUME NEW p \in Procs, p # q, NEW len, ecx' = [ecx EXCEPT ![p] = len]
      PROVE  ecx'[q] = ecx[q]
  BY <1>0, <1>3
<1>4. CASE UNCHANGED <<state, ecx>>
  BY <1>4
<1>5. ASSUME NEW n \in 1 .. MaxIrq, irqs[n] \in Procs, NotifyReceiver(irqs[n], n)
      PROVE  Goal
  <2>1. state' = Unset(irqs[n], RECEIVING) /\ ecx' = ecx
    BY <1>5 DEF NotifyReceiver
  <2> QED BY <1>1, <1>5, <2>1
<1>6. ASSUME curptr \in Procs, NEW f \in Features, NEW len \in Lens, SendDelivers(curptr, f, len)
      PROVE  Goal
  <2>1. supplier[f] \in Procs
    BY <1>6 DEF IInv, TypeOK, Owners, SendDelivers
  <2>2. state' = Unset(supplier[f], RECEIVING) /\ ecx' = [ecx EXCEPT ![curptr] = len]
    BY <1>6 DEF SendDelivers
  <2> QED BY <1>1, <1>3, <1>6, <2>1, <2>2
<1>7. ASSUME curptr \in Procs, NEW f \in Features, NEW len \in Lens,
             SendQueues(curptr, f, len) \/ SendAwaits(curptr, f, len)
      PROVE  Goal
  <2>1. ecx' = [ecx EXCEPT ![curptr] = len]
    BY <1>7 DEF SendQueues, SendAwaits
  <2>2. UNCHANGED state \/ state' = [state EXCEPT ![curptr] = state[curptr] \cup {SENDING}]
    BY <1>7 DEF SendQueues, SendAwaits
  <2> QED BY <1>2, <1>3, <1>7, <2>1, <2>2
<1>8. ASSUME curptr \in Procs, NEW len \in Lens, NEW from \in Owners,
             ReceiveBlocks(curptr, from, len)
      PROVE  Goal
  <2>1. /\ ecx' = [ecx EXCEPT ![curptr] = len]
        /\ state' = [state EXCEPT ![curptr] = state[curptr] \cup {RECEIVING}]
    BY <1>8 DEF ReceiveBlocks
  <2> QED BY <1>2, <1>3, <1>8, <2>1
<1>9. ASSUME curptr \in Procs, NEW len \in Lens, ReceiveInterrupt(curptr, len)
      PROVE  Goal
  <2>1. ecx' = [ecx EXCEPT ![curptr] = len] /\ state' = state
    BY <1>9 DEF ReceiveInterrupt
  <2> QED BY <1>3, <1>9, <2>1
<1>10. ASSUME curptr \in Procs, NEW len \in Lens, NEW from \in Owners,
              ReceiveMessage(curptr, from, len)
       PROVE  Goal
  <2>1. PICK i \in DOMAIN list[curptr] : /\ ecx' = [ecx EXCEPT ![curptr] = len]
                                         /\ state' = Unset(list[curptr][i], SENDING)
    BY <1>10 DEF ReceiveMessage
  <2>2. list[curptr][i] \in Procs
    BY <1>10, WaiterSleeps DEF Heads
  <2> QED BY <1>1, <1>3, <1>10, <2>1, <2>2
<1>11. ASSUME curptr \in Procs, Exit(curptr)
       PROVE  Goal
  <2>1. ecx' = ecx
    BY <1>11 DEF Exit
  <2>2. state'[q] = state[q] \/ state'[q] = state[q] \ {SENDING}
    BY <1>0, <1>11 DEF Exit
  <2>3. EMPTY # SENDING
    BY DEF EMPTY, SENDING
  <2> QED BY <2>1, <2>2, <2>3
<1>12. ASSUME curptr \in Procs, Call(curptr)
       PROVE  Goal
  <2>1. CASE \E verdict \in Words : Return(curptr, verdict)
    BY <1>4, <2>1 DEF Return
  <2>2. CASE \E f \in Features : TakeFeature(curptr, f)
    BY <1>4, <2>2 DEF TakeFeature
  <2>3. CASE \E n \in 0 .. MaxIrq : TakeIrq(curptr, n)
    BY <1>4, <2>3 DEF TakeIrq
  <2> HIDE DEF Goal
  <2> QED BY <1>6, <1>7, <1>8, <1>9, <1>10, <1>11, <1>12, <2>1, <2>2, <2>3 DEF Call
<1>13. ASSUME Interrupt
       PROVE  Goal
  <2>1. CASE UNCHANGED ipcVars
    BY <1>4, <2>1 DEF ipcVars
  <2>2. CASE \E n \in 1 .. MaxIrq : irqs[n] \in Procs /\ NotifyLater(irqs[n], n)
    BY <1>4, <2>2 DEF NotifyLater
  <2> HIDE DEF Goal
  <2> QED BY <1>5, <1>13, <2>1, <2>2 DEF Interrupt
<1> HIDE DEF Goal
<1>14. Goal
  BY <1>12, <1>13 DEF AnyEntry
<1> QED BY <1>14 DEF Goal

\* The verdict and the count of a process that was unblocked stay in its
\* registers until it runs: no handler writes to a process of the run queue
\* but the one that called (kernel/utilities_C.c, returns of syscallIsr).
THEOREM VerdictsStay == Spec => VerdictKept
<1>1. IInv /\ [Next]_vars =>
        [\A p \in ready : p # curptr => esi'[p] = esi[p] /\ eax'[p] = eax[p]]_vars
  <2> SUFFICES ASSUME IInv, Next, NEW p \in ready, p # curptr
               PROVE  esi'[p] = esi[p] /\ eax'[p] = eax[p]
    OBVIOUS
  <2>1. p \in Procs
    BY DEF IInv, TypeOK
  <2>2. QED
    BY <2>1, NextCases, EntryKeepsVerdicts
<1>2. QED
  BY <1>1, Invariance, PTL DEF Spec, VerdictKept

\* Whoever joins the run queue does so for one of three reasons, and who
\* leaves it is the process that runs.
Served(q) == esi'[q] = OK /\ esi'[curptr] = OK /\ eax'[q] = eax'[curptr]
Orphaned(q) == /\ esi'[q] = PROCESSDIED /\ Contains(list[curptr], q)
               /\ EMPTY \in state'[curptr]
Called(q) == \E n \in DOMAIN irqs : irqs[n] = q /\ esi'[q] = {n} /\ eax'[q] = 0

Woken(q) == \/ curptr \in Procs /\ Served(q)
            \/ curptr \in Procs /\ Orphaned(q)
            \/ Called(q)

\* What an entry that wakes the processes of woken, and blocks those of
\* blocked, shows of the run queue.
Queue(woken, blocked) ==
  /\ woken \subseteq Procs \ ready /\ blocked \subseteq {curptr} \cap Procs
  /\ KernelEntry(woken, blocked)
  /\ \A q \in woken : Woken(q)

LEMMA DeliveryWakes ==
  ASSUME IInv, curptr \in Procs, NEW f \in Features, NEW len \in Lens,
         SendDelivers(curptr, f, len)
  PROVE  Queue({supplier[f]}, {})
<1> DEFINE r == supplier[f]
<1>1. r \in Procs /\ RECEIVING \in state[r]
  BY DEF IInv, TypeOK, Owners, SendDelivers, ReceivingFrom
<1>2. r \notin ready /\ Unblocked(r, RECEIVING) = {r}
  BY <1>1, ReceiverSleeps
<1>3. Served(r)
  BY <1>1 DEF SendDelivers, TellBoth, Served, IInv, TypeOK
<1>4. QED
  BY <1>1, <1>2, <1>3 DEF Queue, Woken, SendDelivers

LEMMA ReceptionWakes ==
  ASSUME IInv, curptr \in Procs, NEW from \in Owners, NEW len \in Lens,
         ReceiveMessage(curptr, from, len)
  PROVE  \E q \in Procs : Queue({q}, {})
<1>1. PICK i \in DOMAIN list[curptr] :
        LET s == list[curptr][i]
            bytes == Shorter(ecx[s], len)
        IN /\ eax' = TellBoth(eax, curptr, s, bytes)
           /\ esi' = TellBoth(esi, curptr, s, OK)
           /\ KernelEntry(Unblocked(s, SENDING), {})
  BY DEF ReceiveMessage
<1> DEFINE s == list[curptr][i]
<1>2. s \in Procs \ ready /\ Unblocked(s, SENDING) = {s}
  BY WaiterSleeps DEF Heads
<1>3. Served(s)
  BY <1>1, <1>2 DEF TellBoth, Served, IInv, TypeOK
<1>4. Queue({s}, {})
  BY <1>1, <1>2, <1>3 DEF Queue, Woken
<1>5. QED
  BY <1>2, <1>4

LEMMA ExitWakes ==
  ASSUME IInv, curptr \in Procs, Exit(curptr)
  PROVE  Queue(ToSet(list[curptr]), {curptr})
<1> DEFINE waiting == ToSet(list[curptr])
<1>1. \A q \in waiting : /\ q \in Procs \ ready /\ Unblocked(q, SENDING) = {q}
                         /\ Contains(list[curptr], q)
  BY WaiterSleeps DEF Heads, ToSet
<1>2. /\ esi' = [q \in Procs |-> IF q \in waiting THEN PROCESSDIED ELSE esi[q]]
      /\ KernelEntry(UNION {Unblocked(q, SENDING) : q \in waiting}, {curptr})
  BY DEF Exit
<1>3. EMPTY \in state'[curptr]
  <2>1. curptr \notin waiting
    BY <1>1, RunnerIsFree
  <2>2. QED
    BY <2>1 DEF Exit, IInv, TypeOK
<1> HIDE DEF waiting
<1>4. UNION {Unblocked(q, SENDING) : q \in waiting} = waiting
  BY <1>1
<1>5. \A q \in waiting : Orphaned(q)
  BY <1>1, <1>2, <1>3 DEF Orphaned
<1>6. QED
  BY <1>1, <1>2, <1>4, <1>5 DEF Queue, Woken, waiting

LEMMA InterruptWakes ==
  ASSUME IInv, NEW n \in 1 .. MaxIrq, irqs[n] \in Procs, NotifyReceiver(irqs[n], n)
  PROVE  Queue({irqs[n]}, {})
<1> DEFINE r == irqs[n]
<1>1. r \notin ready /\ Unblocked(r, RECEIVING) = {r}
  BY ReceiverSleeps DEF NotifyReceiver, InReceive
<1>2. n \in DOMAIN irqs
  BY DEF IInv, TypeOK
<1>3. Called(r)
  BY <1>2 DEF NotifyReceiver, Called, IInv, TypeOK
<1>4. QED
  BY <1>1, <1>3 DEF Queue, Woken, NotifyReceiver

LEMMA EntryWakes ==
  ASSUME IInv, AnyEntry
  PROVE  \E woken, blocked \in SUBSET Procs : Queue(woken, blocked)
<1>1. ASSUME curptr \in Procs, Call(curptr)
      PROVE  \E woken, blocked \in SUBSET Procs : Queue(woken, blocked)
  <2>1. CASE \E f \in Features, len \in Lens : SendDelivers(curptr, f, len)
    <3>1. PICK f \in Features, len \in Lens : SendDelivers(curptr, f, len)
      BY <2>1
    <3>2. Queue({supplier[f]}, {})
      BY <1>1, <3>1, DeliveryWakes
    <3>3. QED
      BY <3>2 DEF Queue
  <2>2. CASE \E len \in Lens, from \in Owners : ReceiveMessage(curptr, from, len)
    <3>1. PICK q \in Procs : Queue({q}, {})
      BY <1>1, <2>2, ReceptionWakes
    <3>2. QED
      BY <3>1
  <2>3. CASE Exit(curptr)
    <3>1. Queue(ToSet(list[curptr]), {curptr})
      BY <1>1, <2>3, ExitWakes
    <3>2. QED
      BY <3>1, <1>1 DEF Queue
  <2>4. CASE KernelEntry({}, {}) \/ KernelEntry({}, {curptr})
    BY <1>1, <2>4 DEF Queue
  <2>5. QED
    BY <1>1, <2>1, <2>2, <2>3, <2>4
    DEF Call, Return, SendQueues, SendAwaits, ReceiveInterrupt, ReceiveBlocks, TakeFeature, TakeIrq
<1>2. ASSUME Interrupt
      PROVE  \E woken, blocked \in SUBSET Procs : Queue(woken, blocked)
  <2>1. CASE \E n \in 1 .. MaxIrq : irqs[n] \in Procs /\ NotifyReceiver(irqs[n], n)
    <3>1. PICK n \in 1 .. MaxIrq : irqs[n] \in Procs /\ NotifyReceiver(irqs[n], n)
      BY <2>1
    <3>2. Queue({irqs[n]}, {})
      BY <3>1, InterruptWakes
    <3>3. QED
      BY <3>1, <3>2
  <2>2. CASE KernelEntry({}, {})
    BY <2>2 DEF Queue
  <2>3. QED
    BY <1>2, <2>1, <2>2 DEF Interrupt, NotifyLater
<1>3. QED
  BY <1>1, <1>2 DEF AnyEntry

\* Whoever is unblocked learns why from esi and eax: its exchange completed,
\* the process it sent to died, or a line it took fired (syscall_send,
\* syscall_receive, exit, notify_irq).
THEOREM UnblockedKnowWhy == Spec => UnblockedForAReason
<1>1. IInv /\ [Next]_vars =>
        [\A p \in ready' \ ready :
           \/ curptr \in Procs /\ esi'[p] = OK /\ esi'[curptr] = OK /\ eax'[p] = eax'[curptr]
           \/ curptr \in Procs /\ esi'[p] = PROCESSDIED /\ Contains(list[curptr], p)
                /\ EMPTY \in state'[curptr]
           \/ \E n \in DOMAIN irqs : irqs[n] = p /\ esi'[p] = {n} /\ eax'[p] = 0]_vars
  <2> SUFFICES ASSUME IInv, Next, NEW p \in ready' \ ready
               PROVE  Woken(p)
    BY DEF Woken, Served, Orphaned, Called
  <2>1. PICK woken, blocked \in SUBSET Procs : Queue(woken, blocked)
    BY NextCases, EntryWakes
  <2>2. p \in woken
    BY <2>1 DEF Queue, KernelEntry
  <2>3. QED
    BY <2>1, <2>2 DEF Queue
<1>2. QED
  BY <1>1, Invariance, PTL DEF Spec, UnblockedForAReason

\* Seen from the run queue, messages, interrupts and exits are entries that
\* the scheduler promises to serve: only processes outside of the queue are
\* put into it, and only the process that runs is taken out.
THEOREM RunQueueServes == Spec => RQSpec
<1>1. Init => RQInit
  BY DEF Init, RQInit
<1>2. IInv /\ [Next]_vars => [Step]_rqVars
  <2>1. ASSUME IInv, Next
        PROVE  Step
    <3>1. PICK woken, blocked \in SUBSET Procs : Queue(woken, blocked)
      BY <2>1, NextCases, EntryWakes
    <3>2. QED
      BY <3>1 DEF Queue, Step
  <2>2. QED
    BY <2>1 DEF vars
<1>3. QED
  BY <1>1, <1>2, Invariance, PTL DEF Spec, RQSpec

\* A recorded interrupt is only forgotten by the receive that reports it
\* (syscall_receive), and never overwritten by another line (notify_irq).
THEOREM InterruptsStay == Spec => InterruptsKept
<1>1. IInv /\ [Next]_vars =>
        [\A p \in Procs : \A n \in interrupts[p] \ interrupts'[p] :
           p = curptr /\ n \in esi'[p]]_vars
  <2> SUFFICES ASSUME IInv, AnyEntry, NEW p \in Procs, NEW n \in interrupts[p] \ interrupts'[p]
               PROVE  p = curptr /\ n \in esi'[p]
    BY NextCases
  <2>1. CASE \E len \in Lens : curptr \in Procs /\ ReceiveInterrupt(curptr, len)
    BY <2>1 DEF ReceiveInterrupt, IInv, TypeOK
  <2>2. CASE \E q \in Procs, m \in 1 .. MaxIrq : NotifyLater(q, m)
    BY <2>2 DEF NotifyLater, Record, IInv, TypeOK
  <2>3. CASE UNCHANGED interrupts
    BY <2>3
  <2>4. QED
    BY <2>1, <2>2, <2>3
    DEF AnyEntry, Call, Interrupt, ipcVars, Return, SendDelivers, SendQueues, SendAwaits,
        ReceiveMessage, ReceiveBlocks, TakeFeature, TakeIrq, Exit, NotifyReceiver
<1>2. QED
  BY <1>1, Invariance, PTL DEF Spec, InterruptsKept
-----------------------------------------------------------------------------
(***************************************************************************)
(* The order of those who wait.                                            *)
(***************************************************************************)
\* How the order in the lists m differs from that in l: p has come to stand
\* behind others, s has left the place i, or nothing has changed.
Behind(l, m, p) ==
  \A a, b \in Procs : /\ InFront(l, a, b) => InFront(m, a, b)
                      /\ InFront(m, a, b) => InFront(l, a, b) \/ b = p
Left(l, m, s, i) ==
  \A a, b \in Procs : /\ InFront(l, a, b) => InFront(m, a, b) \/ a = s \/ (b = s /\ i # 1)
                      /\ InFront(m, a, b) => InFront(l, a, b)
SameOrder(l, m) == \A a, b \in Procs : InFront(m, a, b) <=> InFront(l, a, b)

\* Appending puts nobody behind another one but the process that joins.
LEMMA AppendOrder ==
  ASSUME NEW l \in Lists, NEW h \in Heads, NEW p \in Procs,
         NEW m, m = [l EXCEPT ![h] = Append(@, p)]
  PROVE  Behind(l, m, p)
<1> SUFFICES ASSUME NEW a \in Procs, NEW b \in Procs
             PROVE  /\ InFront(l, a, b) => InFront(m, a, b)
                    /\ InFront(m, a, b) => InFront(l, a, b) \/ b = p
  BY DEF Behind
<1>1. m[h] = Append(l[h], p) /\ \A g \in Heads \ {h} : m[g] = l[g]
  BY DEF Lists
<1>2. \A g \in Heads : DOMAIN l[g] = 1 .. Len(l[g]) /\ Len(l[g]) \in Nat
  BY DEF Lists
<1>3. /\ DOMAIN m[h] = 1 .. Len(l[h]) + 1
      /\ m[h][Len(l[h]) + 1] = p
      /\ \A j \in 1 .. Len(l[h]) : m[h][j] = l[h][j]
  BY <1>1, AppendProperties DEF Lists
<1>4. ASSUME NEW g \in Heads, NEW i \in DOMAIN l[g], NEW j \in DOMAIN l[g],
             l[g][i] = a, l[g][j] = b, i < j
      PROVE  InFront(m, a, b)
  <2>1. i \in DOMAIN m[g] /\ j \in DOMAIN m[g] /\ m[g][i] = a /\ m[g][j] = b
    BY <1>1, <1>2, <1>3, <1>4
  <2>2. QED
    BY <1>4, <2>1 DEF InFront
<1>5. ASSUME NEW g \in Heads, NEW i \in DOMAIN m[g], NEW j \in DOMAIN m[g],
             m[g][i] = a, m[g][j] = b, i < j, b # p
      PROVE  InFront(l, a, b)
  <2>1. i \in DOMAIN l[g] /\ j \in DOMAIN l[g] /\ l[g][i] = a /\ l[g][j] = b
    BY <1>1, <1>2, <1>3, <1>5
  <2>2. QED
    BY <1>5, <2>1 DEF InFront
<1>6. QED
  BY <1>4, <1>5 DEF InFront

\* Taking out one process leaves the others in their order.
LEMMA RemoveOrder ==
  ASSUME NEW l \in Lists, NEW h \in Heads, NEW i \in DOMAIN l[h], NotShared(l),
         NEW m, m = [l EXCEPT ![h] = RemoveAt(@, i)]
  PROVE  Left(l, m, l[h][i], i)
<1> SUFFICES ASSUME NEW a \in Procs, NEW b \in Procs
             PROVE  /\ InFront(l, a, b) => \/ InFront(m, a, b)
                                           \/ a = l[h][i]
                                           \/ b = l[h][i] /\ i # 1
                    /\ InFront(m, a, b) => InFront(l, a, b)
  BY DEF Left
<1>1. m[h] = RemoveAt(l[h], i) /\ \A g \in Heads \ {h} : m[g] = l[g]
  BY DEF Lists
<1>2. \A g \in Heads : DOMAIN l[g] = 1 .. Len(l[g]) /\ Len(l[g]) \in Nat
  BY DEF Lists
<1>3. /\ DOMAIN m[h] = 1 .. Len(l[h]) - 1
      /\ \A j \in 1 .. Len(l[h]) - 1 : m[h][j] = IF j < i THEN l[h][j] ELSE l[h][j + 1]
  BY <1>1, RemoveAtProperties DEF Lists
<1>4. ASSUME NEW g \in Heads, NEW j \in DOMAIN l[g], NEW k \in DOMAIN l[g],
             l[g][j] = a, l[g][k] = b, j < k, a # l[h][i], ~(b = l[h][i] /\ i # 1)
      PROVE  InFront(m, a, b)
  <2>1. CASE g # h
    <3>1. m[g] = l[g]
      BY <1>1, <2>1
    <3>2. QED
      BY <1>4, <3>1 DEF InFront
  <2>2. CASE g = h
    <3>1. j # i /\ k # i
      <4>1. j # i
        BY <1>4, <2>2
      <4>2. ASSUME k = i
            PROVE  FALSE
        <5>1. k = 1
          BY <1>4, <2>2, <4>2
        <5>2. QED
          BY <5>1, <1>2, <1>4
      <4>3. QED
        BY <4>1, <4>2
    <3> DEFINE At(o) == IF o < i THEN o ELSE o - 1
    <3>2. ASSUME NEW o \in DOMAIN l[h], o # i
          PROVE  At(o) \in DOMAIN m[h] /\ m[h][At(o)] = l[h][o]
      <4>1. o \in Nat /\ i \in Nat /\ o >= 1 /\ o <= Len(l[h]) /\ i <= Len(l[h]) /\ i >= 1
        BY <1>2
      <4>2. CASE o < i
        BY <1>2, <1>3, <3>2, <4>1, <4>2
      <4>3. CASE o > i
        <5>1. o - 1 \in 1 .. Len(l[h]) - 1 /\ ~(o - 1 < i)
          BY <1>2, <4>1, <4>3
        <5>2. m[h][o - 1] = l[h][o - 1 + 1] /\ o - 1 + 1 = o
          BY <1>3, <4>1, <5>1
        <5>3. QED
          BY <1>3, <4>1, <4>3, <5>1, <5>2
      <4>4. QED
        BY <3>2, <4>1, <4>2, <4>3
    <3>3. At(j) < At(k)
      BY <1>2, <1>4, <2>2, <3>1
    <3> HIDE DEF At
    <3>4. At(j) \in DOMAIN m[h] /\ m[h][At(j)] = a /\ At(k) \in DOMAIN m[h] /\ m[h][At(k)] = b
      BY <1>4, <2>2, <3>1, <3>2
    <3>5. QED
      BY <3>3, <3>4 DEF InFront
  <2>3. QED
    BY <2>1, <2>2
<1>5. ASSUME NEW g \in Heads, NEW j \in DOMAIN m[g], NEW k \in DOMAIN m[g],
             m[g][j] = a, m[g][k] = b, j < k
      PROVE  InFront(l, a, b)
  <2>1. CASE g # h
    BY <1>1, <1>5, <2>1 DEF InFront
  <2>2. CASE g = h
    <3> DEFINE At(o) == IF o < i THEN o ELSE o + 1
    <3>1. /\ At(j) \in DOMAIN l[h] /\ l[h][At(j)] = a
          /\ At(k) \in DOMAIN l[h] /\ l[h][At(k)] = b
      BY <1>2, <1>3, <1>5, <2>2
    <3>2. At(j) < At(k)
      BY <1>2, <1>3, <1>5, <2>2
    <3> HIDE DEF At
    <3>3. QED
      BY <3>1, <3>2 DEF InFront
  <2>3. QED
    BY <2>1, <2>2
<1>6. QED
  BY <1>4, <1>5 DEF InFront

\* A list that moves as a whole to a head that had none keeps its order.
LEMMA MoveOrder ==
  ASSUME NEW l \in Lists, NEW f \in Heads, NEW p \in Heads, f # p, l[p] = <<>>,
         NEW m, m = [l EXCEPT ![p] = l[f], ![f] = <<>>]
  PROVE  SameOrder(l, m)
<1> SUFFICES ASSUME NEW a \in Procs, NEW b \in Procs
             PROVE  InFront(m, a, b) <=> InFront(l, a, b)
  BY DEF SameOrder
<1>1. /\ m[p] = l[f] /\ m[f] = <<>>
      /\ \A g \in Heads \ {p, f} : m[g] = l[g]
  BY DEF Lists
<1>2. DOMAIN m[f] = {} /\ DOMAIN l[p] = {}
  BY <1>1
<1>3. ASSUME InFront(m, a, b)
      PROVE  InFront(l, a, b)
  <2>1. PICK g \in Heads : \E i, j \in DOMAIN m[g] : m[g][i] = a /\ m[g][j] = b /\ i < j
    BY <1>3, Zenon DEF InFront
  <2>2. g # f
    BY <1>2, <2>1
  <2>3. m[g] = l[g] \/ m[g] = l[f]
    BY <1>1, <2>2
  <2>4. QED
    BY <2>1, <2>3, Zenon DEF InFront
<1>4. ASSUME InFront(l, a, b)
      PROVE  InFront(m, a, b)
  <2>1. PICK g \in Heads : \E i, j \in DOMAIN l[g] : l[g][i] = a /\ l[g][j] = b /\ i < j
    BY <1>4, Zenon DEF InFront
  <2>2. g # p
    BY <1>2, <2>1
  <2>3. l[g] = m[g] \/ l[g] = m[p]
    BY <1>1, <2>2
  <2>4. QED
    BY <2>1, <2>3, Zenon DEF InFront
<1>5. QED
  BY <1>3, <1>4

\* A list that is cleared takes nobody's place on the others.
LEMMA ClearOrder ==
  ASSUME NEW l \in Lists, NEW p \in Heads, NEW m, m = [l EXCEPT ![p] = <<>>],
         NEW a \in Procs, NEW b \in Procs
  PROVE  /\ InFront(l, a, b) => InFront(m, a, b) \/ a \in ToSet(l[p])
         /\ InFront(m, a, b) => InFront(l, a, b)
<1>1. m[p] = <<>> /\ \A g \in Heads \ {p} : m[g] = l[g]
  BY DEF Lists
<1>2. DOMAIN m[p] = {}
  BY <1>1
<1>3. ASSUME InFront(m, a, b)
      PROVE  InFront(l, a, b)
  <2>1. PICK g \in Heads : \E i, j \in DOMAIN m[g] : m[g][i] = a /\ m[g][j] = b /\ i < j
    BY <1>3, Zenon DEF InFront
  <2>2. m[g] = l[g]
    BY <1>1, <1>2, <2>1
  <2>3. QED
    BY <2>1, <2>2, Zenon DEF InFront
<1>4. ASSUME InFront(l, a, b), a \notin ToSet(l[p])
      PROVE  InFront(m, a, b)
  <2>1. PICK g \in Heads : \E i, j \in DOMAIN l[g] : l[g][i] = a /\ l[g][j] = b /\ i < j
    BY <1>4, Zenon DEF InFront
  <2>2. g # p
    BY <1>4, <2>1, Zenon DEF ToSet
  <2>3. l[g] = m[g]
    BY <1>1, <2>2
  <2>4. QED
    BY <2>1, <2>3, Zenon DEF InFront
<1>5. QED
  BY <1>3, <1>4

\* What NoOvertaking asks of one step and two processes.
InTurn(p, q) ==
  /\ InFront(list, p, q) =>
       \/ InFront(list', p, q)
       \/ p \in ready'
       \/ \E len \in Lens : ReceiveMessage(curptr, q, len)
  /\ InFront(list', p, q) => InFront(list, p, q) \/ ~Listed(q)

LEMMA JoinInTurn ==
  ASSUME IInv, curptr \in Procs, NEW h \in Heads, list' = Join(h, curptr),
         NEW p \in Procs, NEW q \in Procs
  PROVE  InTurn(p, q)
<1>1. list \in Lists /\ ~Listed(curptr)
  BY RunnerIsFree DEF IInv, TypeOK, Lists
<1>2. Behind(list, list', curptr)
  BY <1>1, AppendOrder DEF Join
<1>3. /\ InFront(list, p, q) => InFront(list', p, q)
      /\ InFront(list', p, q) => InFront(list, p, q) \/ q = curptr
  BY <1>2 DEF Behind
<1>4. QED
  BY <1>1, <1>3 DEF InTurn

LEMMA ReceptionInTurn ==
  ASSUME IInv, curptr \in Procs, NEW from \in Owners, NEW len \in Lens,
         ReceiveMessage(curptr, from, len), NEW p \in Procs, NEW q \in Procs
  PROVE  InTurn(p, q)
<1>1. curptr \in Heads /\ list \in Lists /\ NotShared(list)
  BY DEF IInv, TypeOK, LinksNotShared, Lists, Heads
<1>2. PICK i \in DOMAIN list[curptr] :
        /\ IF from = NULL THEN i = 1 ELSE list[curptr][i] = from
        /\ list' = [list EXCEPT ![curptr] = RemoveAt(@, i)]
        /\ KernelEntry(Unblocked(list[curptr][i], SENDING), {})
  BY DEF ReceiveMessage
<1> DEFINE s == list[curptr][i]
<1>3. s \in ready'
  <2>1. Unblocked(s, SENDING) = {s}
    BY <1>1, WaiterSleeps
  <2>2. QED
    BY <1>2, <2>1 DEF KernelEntry
<1>4. Left(list, list', s, i)
  BY <1>1, <1>2, RemoveOrder
<1>5. ASSUME q = s, i # 1
      PROVE  ReceiveMessage(curptr, q, len)
  BY <1>2, <1>5
<1>6. /\ InFront(list, p, q) => InFront(list', p, q) \/ p = s \/ (q = s /\ i # 1)
      /\ InFront(list', p, q) => InFront(list, p, q)
  BY <1>4 DEF Left
<1>7. QED
  BY <1>3, <1>5, <1>6 DEF InTurn

LEMMA MoveInTurn ==
  ASSUME IInv, curptr \in Procs, NEW f \in Features, f \in Supplies[curptr],
         TakeFeature(curptr, f), NEW p \in Procs, NEW q \in Procs
  PROVE  InTurn(p, q)
<1>1. curptr \in Heads /\ f \in Heads /\ f # curptr /\ list \in Lists
  BY DEF IInv, TypeOK, Lists, Heads
<1>2. list[curptr] = <<>>
  <2>1. \A g \in Features : supplier[g] # curptr
    BY DEF IInv, SuppliesItsOwn, TakeFeature
  <2>2. QED
    BY <2>1 DEF IInv, WaitersFollowSupplier
<1>3. list' = [list EXCEPT ![curptr] = list[f], ![f] = <<>>]
  BY DEF TakeFeature, Inherit
<1>4. SameOrder(list, list')
  BY <1>1, <1>2, <1>3, MoveOrder
<1>5. QED
  BY <1>4 DEF InTurn, SameOrder

LEMMA ExitInTurn ==
  ASSUME IInv, curptr \in Procs, Exit(curptr), NEW p \in Procs, NEW q \in Procs
  PROVE  InTurn(p, q)
<1>1. curptr \in Heads /\ list \in Lists
  BY DEF IInv, TypeOK, Lists, Heads
<1>2. list' = [list EXCEPT ![curptr] = <<>>]
  BY DEF Exit
<1>3. /\ InFront(list, p, q) => InFront(list', p, q) \/ p \in ToSet(list[curptr])
      /\ InFront(list', p, q) => InFront(list, p, q)
  BY <1>1, <1>2, ClearOrder
<1>4. ASSUME p \in ToSet(list[curptr])
      PROVE  p \in ready'
  <2>1. /\ ToSet(list[curptr]) \subseteq Procs \ ready
        /\ KernelEntry(ToSet(list[curptr]), {curptr})
    BY ExitWakes DEF Queue
  <2>2. p # curptr
    BY <1>4, <2>1, RunnerIsFree
  <2>3. QED
    BY <1>4, <2>1, <2>2 DEF KernelEntry
<1>5. QED
  BY <1>3, <1>4 DEF InTurn

\* The lists are queues: who waits longer is served first, also across the
\* move of set_feature, unless the receiver asks for somebody by name
\* (get_sender, remove_from_senders_list).
THEOREM WaitersKeepTheirTurn == Spec => NoOvertaking
<1>1. IInv /\ [Next]_vars =>
        [\A p, q \in Procs :
           /\ InFront(list, p, q) =>
                \/ InFront(list', p, q)
                \/ p \in ready'
                \/ \E len \in Lens : ReceiveMessage(curptr, q, len)
           /\ InFront(list', p, q) => InFront(list, p, q) \/ ~Listed(q)]_vars
  <2> SUFFICES ASSUME IInv, AnyEntry, NEW p \in Procs, NEW q \in Procs
               PROVE  InTurn(p, q)
    BY NextCases DEF InTurn
  <2>1. CASE \E f \in Features, len \in Lens :
               curptr \in Procs /\ (SendQueues(curptr, f, len) \/ SendAwaits(curptr, f, len))
    <3>1. PICK f \in Features : \/ list' = Join(supplier[f], curptr) /\ supplier[f] # NULL
                                \/ list' = Join(f, curptr)
      BY <2>1 DEF SendQueues, SendAwaits
    <3>2. supplier[f] \in Procs \cup {NULL}
      BY DEF IInv, TypeOK, Owners
    <3>3. QED
      BY <2>1, <3>1, <3>2, JoinInTurn DEF Heads
  <2>2. CASE \E len \in Lens, from \in Owners :
               curptr \in Procs /\ ReceiveMessage(curptr, from, len)
    BY <2>2, ReceptionInTurn
  <2>3. CASE \E f \in Features :
               curptr \in Procs /\ f \in Supplies[curptr] /\ TakeFeature(curptr, f)
    BY <2>3, MoveInTurn
  <2>4. CASE curptr \in Procs /\ Exit(curptr)
    BY <2>4, ExitInTurn
  <2>5. CASE UNCHANGED list
    BY <2>5 DEF InTurn, InFront
  <2>6. QED
    BY <2>1, <2>2, <2>3, <2>4, <2>5
    DEF AnyEntry, Call, Interrupt, ipcVars, Return, SendDelivers, ReceiveInterrupt,
        ReceiveBlocks, TakeIrq, NotifyReceiver, NotifyLater
<1>2. QED
  BY <1>1, Invariance, PTL DEF Spec, NoOvertaking
=============================================================================
