------------------------------ MODULE RunQueue ------------------------------
(***************************************************************************)
(* What the scheduler of the kernel promises to the rest of it.            *)
(*                                                                         *)
(* Every interrupt vector of the machine is a task gate whose handler runs *)
(* with interrupts off (kernel/interrupt.hla), so one entry into the       *)
(* kernel - a system call, a clock tick or a device interrupt - is one     *)
(* atomic step.  During an entry processes join the run queue (enqueue) or *)
(* leave it (dequeue), and the entry ends by handing the processor to one  *)
(* process of the queue, or to the idle task when the queue is empty.      *)
(*                                                                         *)
(* Sched.tla is the linked list that implements this module; Ipc.tla is    *)
(* built on it.                                                            *)
(***************************************************************************)
CONSTANTS Procs,   \* the user processes
          Idle,    \* the idle task (idlestate)
          NULL     \* no process: curptr before the first dispatch

ASSUME RunQueueAssumption == /\ Idle \notin Procs
                             /\ NULL \notin Procs
                             /\ Idle # NULL

VARIABLES ready,   \* the processes whose ENQUEUED bit is set
          curptr   \* the task that runs outside the kernel

rqVars == <<ready, curptr>>

Runnable == IF ready = {} THEN {Idle} ELSE ready

\* One entry into the kernel: woken joins the queue, blocked leaves it, and
\* the macro schedule dispatches one of the processes that remain.
KernelEntry(woken, blocked) ==
  /\ ready' = (ready \cup woken) \ blocked
  /\ curptr' \in Runnable'

\* Only the process that runs can leave the queue.
Step == \E woken \in SUBSET (Procs \ ready), blocked \in SUBSET ({curptr} \cap Procs) :
          KernelEntry(woken, blocked)

RQInit == ready \subseteq Procs /\ curptr = NULL

RQSpec == RQInit /\ [][Step]_rqVars

=============================================================================
