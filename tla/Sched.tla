------------------------------- MODULE Sched --------------------------------
(***************************************************************************)
(* The run queue as the code keeps it: a doubly linked list threaded       *)
(* through the task state segments, sorted by weight (schedticks), with    *)
(* tick counters per process and for the whole queue.  A process that      *)
(* leaves the queue keeps its two link fields; when it comes back, enqueue *)
(* uses them as a hint where to relink it.                                 *)
(***************************************************************************)
EXTENDS Integers, Sequences, FiniteSets, FiniteSetsExt

CONSTANTS Procs, Idle, NULL,
          Boots,   \* what start may create: processes and weights, in order
          Word     \* unsigned counters are taken modulo Word (2^32)

\* The weights a boot gives; 0 stands for a process that is not created.
Weights(boot) ==
  [p \in Procs |-> IF \E i \in DOMAIN boot : boot[i][1] = p
                   THEN boot[CHOOSE i \in DOMAIN boot : boot[i][1] = p][2] ELSE 0]

ASSUME SchedAssumption ==
  /\ Idle \notin Procs /\ NULL \notin Procs /\ Idle # NULL
  /\ IsFiniteSet(Procs)
  /\ Word \in Nat
  /\ \A b \in Boots :
       /\ b \in Seq(Procs \X (Nat \ {0}))
       /\ \A i, j \in DOMAIN b : b[i][1] = b[j][1] => i = j
       /\ Word > MapThenSumSet(LAMBDA p : Weights(b)[p], Procs)

\* The memory of the scheduler: struct _schedqueue, curptr and nextptr, and
\* from each task state segment the fields schedticks (w), next, previous,
\* ticksleft and the ENQUEUED bit of misc.  The handlers are functions on this record, so
\* that one kernel entry can call several of them in the code's order.
VARIABLE k

Memory == [w : [Procs -> 0 .. Word - 1],
           head : Procs \cup {NULL}, weight : 0 .. Word - 1, left : 0 .. Word - 1,
           cur : Procs \cup {Idle, NULL}, nxt : Procs \cup {Idle, NULL},
           next : [Procs -> Procs \cup {NULL}], prev : [Procs -> Procs \cup {NULL}],
           ticks : [Procs -> 0 .. Word - 1], enq : SUBSET Procs]

\* Each definition named Fault... is a defect that the one after it could have
\* had; the properties are checked to tell the two apart.
FaultSigned(a, b) == a - b
Sub(a, b) == (a - b) % Word
Add(a, b) == (a + b) % Word
Mul(a, b) == (a * b) % Word
Least(a, b) == IF a < b THEN a ELSE b
-----------------------------------------------------------------------------
(***************************************************************************)
(* enqueue                                                                 *)
(***************************************************************************)
PreviousValid(m, p) ==
  LET q == m.prev[p] IN
  IF q = NULL
  THEN m.head # NULL /\ m.w[m.head] <= m.w[p]
  ELSE q \in m.enq /\ m.next[q] = m.next[p] /\ m.w[q] >= m.w[p]

FaultNextOnlyQueued(m, p) == m.next[p] # NULL => m.next[p] \in m.enq

NextValid(m, p) ==
  LET q == m.next[p] IN
  IF q = NULL
  THEN m.prev[p] # NULL /\ m.prev[p] \in m.enq /\ m.next[m.prev[p]] = NULL
  ELSE q \in m.enq /\ m.prev[q] = m.prev[p] /\ m.w[q] <= m.w[p]

LastNeighboursValid(m, p) ==
  /\ m.prev[p] # NULL \/ m.next[p] # NULL
  /\ PreviousValid(m, p)
  /\ NextValid(m, p)

\* Assigning through a link field; a store through NULL is not made.
SetIn(f, q, v) == IF q = NULL THEN f ELSE [f EXCEPT ![q] = v]

\* Put p between a and b, either of which may be NULL.
LinkBetween(m, p, a, b) ==
  [m EXCEPT !.next = SetIn([@ EXCEPT ![p] = b], a, p),
            !.prev = SetIn([@ EXCEPT ![p] = a], b, p),
            !.head = IF a = NULL THEN p ELSE @]

FaultStepOverUnequal(m, q, p) == m.w[q] # m.w[p]
StepOver(m, q, p) == m.w[q] > m.w[p]

\* The scan from the head: the last process heavier than p before the first
\* that is not.  The list has at most Cardinality(Procs) links.
ScanFor(m, p) ==
  LET step[n \in 0 .. Cardinality(Procs)] ==
        IF n = 0 THEN [prev |-> NULL, cur |-> m.head]
        ELSE LET s == step[n - 1] IN
             IF s.cur # NULL /\ StepOver(m, s.cur, p)
             THEN [prev |-> s.cur, cur |-> m.next[s.cur]]
             ELSE s
  IN step[Cardinality(Procs)]

\* The ticks granted to p when it joins the queue.
Grant(m, p) ==
  IF m.weight = 0 THEN m.w[p]
  ELSE Least(Sub(m.w[p], Mul(Sub(m.weight, m.left), m.w[p]) \div m.weight),
             m.ticks[p])

Relinked(m, p) ==
  IF LastNeighboursValid(m, p)
  THEN LinkBetween(m, p, m.prev[p], m.next[p])
  ELSE LET s == ScanFor(m, p) IN LinkBetween(m, p, s.prev, s.cur)

Enqueue(m, p) ==
  IF p \in m.enq THEN m
  ELSE LET g == Grant(m, p) IN
       [Relinked(m, p) EXCEPT !.enq = @ \cup {p},
                              !.ticks[p] = g,
                              !.weight = Add(@, m.w[p]),
                              !.left = Add(@, g)]

EnqueueAll(m, ws) ==
  LET after[n \in 0 .. Len(ws)] ==
        IF n = 0 THEN m ELSE Enqueue(after[n - 1], ws[n])
  IN after[Len(ws)]
-----------------------------------------------------------------------------
(***************************************************************************)
(* charge_process and pick_next_proc                                       *)
(***************************************************************************)
\* At the first interrupt curptr is NULL: the store goes to address 20 of
\* the kernel's data segment, where no field of this model lives.
ChargeProcess(m) ==
  CASE m.cur = Idle -> m
    [] m.cur = NULL -> [m EXCEPT !.left = Sub(@, 1)]
    [] OTHER        -> [m EXCEPT !.left = Sub(@, 1), !.ticks[m.cur] = Sub(@, 1)]

\* The virtual finishing time test, in unsigned arithmetic.
VtrrEligible(m, p, q) ==
  LET numerator(w, t) == Add(Sub(w, t), 1) IN
  \/ m.ticks[q] > m.ticks[p]
  \/ Sub(Mul(numerator(m.w[q], m.ticks[q]), m.weight),
         Mul(numerator(m.weight, m.left), m.w[q])) < m.weight

FaultNoRefill(m, p) == m
Refill(m, p) == [m EXCEPT !.ticks[p] = m.w[p]]

PickHead(m) ==
  LET n == [m EXCEPT !.nxt = m.head] IN
  IF m.ticks[m.head] = 0 THEN Refill(n, m.head) ELSE n

FaultPickFirst(m) == [m EXCEPT !.nxt = IF m.head = NULL THEN Idle ELSE m.head]

PickNextProc(m) ==
  LET last == IF m.nxt = NULL THEN m.cur ELSE m.nxt IN
  CASE m.head = NULL          -> [m EXCEPT !.nxt = Idle]
    [] m.head # NULL /\ last \in {NULL, Idle} -> [m EXCEPT !.nxt = m.head]
    [] OTHER ->
       LET q == m.next[last] IN
       CASE q = NULL -> PickHead(m)
         [] q # NULL /\ m.ticks[last] = Sub(m.w[last], 1)
              -> Refill([m EXCEPT !.nxt = q], q)
         [] q # NULL /\ m.ticks[last] # Sub(m.w[last], 1) /\ VtrrEligible(m, last, q)
              -> [m EXCEPT !.nxt = q]
         [] OTHER -> PickHead(m)

ChargeAndPick(m) == PickNextProc(ChargeProcess(m))
-----------------------------------------------------------------------------
(***************************************************************************)
(* dequeue                                                                 *)
(***************************************************************************)
\* The do-while of dequeue: charge, pick and make the choice the current
\* process, until the choice is another process than p.  LoopBound bounds
\* the turns after the first; a loop that needs more leaves p current although
\* it is no longer in the queue, which ImplementsRunQueue does not allow.
LoopBound == Word

FaultLeaveOnce(m, p) == LET c == ChargeAndPick(m) IN [c EXCEPT !.cur = c.nxt]

LeaveProcessor(m, p) ==
  LET turn(n) == LET c == ChargeAndPick(n) IN [c EXCEPT !.cur = c.nxt]
      after[i \in 0 .. LoopBound] ==
        IF i = 0 THEN turn(m)
        ELSE LET done == after[i - 1] IN IF done.nxt # p THEN done ELSE turn(done)
  IN after[LoopBound]

FaultUnlinkForward(m, p) ==
  [m EXCEPT !.next = SetIn(@, m.prev[p], m.next[p]),
            !.head = IF @ = p THEN m.next[p] ELSE @]

Unlink(m, p) ==
  [m EXCEPT !.next = SetIn(@, m.prev[p], m.next[p]),
            !.prev = SetIn(@, m.next[p], m.prev[p]),
            !.head = IF @ = p THEN m.next[p] ELSE @]

FaultSoleIfFirst(m, p) == m.head = p
\* The queue has no other member.
Sole(m, p) == m.weight = m.w[p]

Dequeue(m, p) ==
  IF p \notin m.enq THEN m
  ELSE IF Sole(m, p)
  THEN [m EXCEPT !.enq = @ \ {p}, !.weight = 0, !.left = 0, !.head = NULL]
  ELSE LET l == IF m.cur = p THEN LeaveProcessor(m, p) ELSE m
           u == Unlink(l, p)
       IN [u EXCEPT !.enq = @ \ {p},
                    !.weight = Sub(@, m.w[p]),
                    !.left = Sub(@, u.ticks[p])]
-----------------------------------------------------------------------------
(***************************************************************************)
(* Kernel entries                                                          *)
(***************************************************************************)
\* The end of do_hard_int and the macro schedule.
Schedule(m) ==
  LET n == IF m.nxt = NULL THEN ChargeAndPick(m) ELSE m
  IN [n EXCEPT !.cur = n.nxt, !.nxt = NULL]

Created == {p \in Procs : k.w[p] > 0}

\* An entry that changes nobody's state: a clock tick, an interrupt nobody
\* waits for, a system call that returns at once.
Preempt == k' = Schedule(k)

\* An entry that unblocks p: a device interrupt, or a system call of another
\* process that completes a rendezvous with p.
Wake(p) == p \in Created \ k.enq /\ k' = Schedule(Enqueue(k, p))

\* A system call that blocks its caller.
Block == k.cur \in Procs /\ k' = Schedule(Dequeue(k, k.cur))

\* syscall_exit: the waiting senders ws are unblocked, then the caller leaves.
Exit(ws) ==
  /\ k.cur \in Procs
  /\ k' = Schedule(Dequeue(EnqueueAll(k, ws), k.cur))

\* The processes that wait to send, any number of them, each once.
SenderLists ==
  {ws \in UNION {[1 .. n -> Created \ k.enq] : n \in 0 .. Cardinality(Procs)} :
     \A i, j \in DOMAIN ws : ws[i] = ws[j] => i = j}

Next ==
  \/ Preempt
  \/ \E p \in Procs : Wake(p)
  \/ Block
  \/ \E ws \in SenderLists : Exit(ws)

\* start: an empty queue, fresh task state segments (create_process), then
\* one enqueue per process; interrupts are enabled after that.
Fresh(boot) ==
  [w |-> Weights(boot), head |-> NULL, weight |-> 0, left |-> 0, cur |-> NULL, nxt |-> NULL,
   next |-> [p \in Procs |-> NULL], prev |-> [p \in Procs |-> NULL],
   ticks |-> Weights(boot), enq |-> {}]

Init == \E boot \in Boots :
          k = EnqueueAll(Fresh(boot), [i \in DOMAIN boot |-> boot[i][1]])

Spec == Init /\ [][Next]_k

\* The clock never stops, so a process that keeps the processor is
\* interrupted again and again.
FairSpec == Spec /\ WF_k(Preempt)
-----------------------------------------------------------------------------
(***************************************************************************)
(* Properties                                                              *)
(***************************************************************************)
\* The record keeps its type.
TypeOK == k \in Memory

\* The n-th process of the list, following next from head and counting from 0;
\* NULL past its end.
Nth == LET at[n \in 0 .. Cardinality(Procs)] ==
             IF n = 0 THEN k.head
             ELSE LET q == at[n - 1] IN IF q = NULL THEN NULL ELSE k.next[q]
       IN at

\* Following next from schedqueue.head meets every process whose ENQUEUED
\* bit is set, exactly once, and nobody else: the links an absent process
\* kept never lead enqueue to lose a process, to enter one twice or to build
\* a cycle, however often processes come and go.
ListIsTheQueue ==
  LET n == Cardinality(k.enq) IN
  /\ {Nth[i] : i \in 0 .. n - 1} = k.enq
  /\ Nth[n] = NULL

\* previous is the inverse of next on the queue, and the head has none.
LinksAgree ==
  \A p \in k.enq : /\ k.next[p] # NULL => k.prev[k.next[p]] = p
                   /\ k.prev[p] # NULL => k.next[k.prev[p]] = p
                   /\ (k.prev[p] = NULL) <=> (k.head = p)

\* The list is sorted by weight, heaviest first, also when a process was put
\* back by its kept links instead of by the scan.
HeaviestFirst ==
  \A p \in k.enq : k.next[p] # NULL => k.w[p] >= k.w[k.next[p]]

\* schedqueue.schedticks is the total weight of the queue, which is what lets
\* dequeue recognise its last member by comparing weights.
WeightIsTotal == k.weight = MapThenSumSet(LAMBDA p : k.w[p], k.enq)

\* The process that runs has ticks to spend: charge_process never takes a
\* counter below zero, where the unsigned field would wrap.  It is so for the
\* weight 1 that start gives to every process; equal weights of 2 are enough
\* to bring a process back with no ticks and run it.
RunsOnCredit ==
  (\A p \in Created : k.w[p] = 1) /\ k.cur \in Procs => k.ticks[k.cur] = 1

\* Every process in the queue gets the processor, whatever the others do.
\* Also where weights differ and counters wrap.
NoStarvation == \A p \in Procs : p \in k.enq ~> k.cur = p

\* The list implements the abstract run queue: in particular the task that
\* runs is always in the queue, and the idle task runs only when it is empty.
RQ == INSTANCE RunQueue WITH ready <- k.enq, curptr <- k.cur
ImplementsRunQueue == RQ!RQSpec
=============================================================================
