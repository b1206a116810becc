------------------------------- MODULE System -------------------------------
(***************************************************************************)
(* The running system: the kernel of module Ipc under the three programs   *)
(* of the repository, the terminal driver (tty/main.c), the shell          *)
(* (shell/main.c) and the disk driver (hd/main.c), and a user at the       *)
(* keyboard.  Programs are followed from one system call to the next.      *)
(*                                                                         *)
(* Calls that touch ports only (the cursor of the screen, the disk) change *)
(* nothing but who runs next, as the clock does at any time: only the one  *)
(* that reads the keyboard is a step.  The line being typed is empty or    *)
(* not (module Tty has the rest); of the disk driver only the lines it     *)
(* takes, its reports and its end are kept.                                *)
(***************************************************************************)
EXTENDS Ipc

CONSTANTS tty, shell, hd, TTY, CMD,
          Reports,   \* how many messages the disk driver sends
          Full       \* the length of a receive buffer; a message has length 1

ASSUME SystemAssumption ==
  /\ Procs = {tty, shell, hd} /\ Cardinality(Procs) = 3
  /\ Features = {TTY, CMD} /\ TTY # CMD
  /\ Supplies[tty] = {TTY} /\ Supplies[shell] = {CMD}
  /\ Reports \in Nat /\ Full \in Nat \ {0} /\ {0, 1, Full} = Lens
  /\ 1 \in Wired \cap Lines /\ {14, 15} \subseteq Lines \cap 1 .. MaxIrq

VARIABLES
  pc,        \* what a program does with the next call it makes
  typing,    \* screen_idx # 0: the line being edited is not empty
  said,      \* whose text the last message brought the terminal, tty if it
             \* was not copied and an old text is shown in its place
  left,      \* the reports the disk driver has yet to send
  key,       \* the scancode the keyboard controller holds, "none" if it was read
  asked,     \* the user pressed Enter and has not seen the shell's answer
  hasty      \* whether the user types without waiting for anything

sysVars == <<vars, pc, typing, said, left, key, asked, hasty>>

Keys == {"letter", "enter", "other"}
DiskLines == {14, 15}
-----------------------------------------------------------------------------
SysInit ==
  /\ Init
  /\ pc = [p \in Procs |-> "start"]
  /\ typing = FALSE /\ said = tty /\ left = Reports
  /\ key = "none" /\ asked = FALSE /\ hasty \in BOOLEAN

Goto(p, from, to) == pc[p] = from /\ pc' = [pc EXCEPT ![p] = to]

CallReceive(p, len) ==
  ReceiveInterrupt(p, len) \/ ReceiveMessage(p, NULL, len) \/ ReceiveBlocks(p, NULL, len)

CallSend(p, f, block) ==
  \/ SendRefused(p, f, TRUE, block)
  \/ SendDelivers(p, f, 1)
  \/ SendQueues(p, f, 1)
  \/ block /\ SendAwaits(p, f, 1)

\* A call failed: the program leaves its loop and exits.  There is no action
\* for that, because DriversLive says that it never happens.
Failed(p) == \E n \in esi[p] : n < 0
-----------------------------------------------------------------------------
(***************************************************************************)
(* The terminal driver                                                     *)
(***************************************************************************)
TtyStart ==
  /\ \/ Goto(tty, "start", "feature") /\ TakeIrq(tty, 1)
     \/ Goto(tty, "feature", "loop") /\ TakeFeature(tty, TTY)
  /\ UNCHANGED <<typing, said, left, key, asked>>

\* The receive of main_loop: with length 0 while a line is being typed.
FaultOtherWayRound(line) == IF line THEN Full ELSE 0
Room(line) == IF line THEN 0 ELSE Full

Author(p, room) == IF room = 0 THEN tty ELSE p

TtyReceive(line) ==
  /\ typing' = line
  /\ CallReceive(tty, Room(line))
  /\ said' = IF interrupts[tty] = {} /\ list[tty] # <<>>
             THEN Author(Head(list[tty]), Room(line)) ELSE said
  /\ UNCHANGED <<left, key>>

TtyLoop == Goto(tty, "loop", "received") /\ TtyReceive(typing) /\ UNCHANGED asked

\* The call returned with the bit of the keyboard: inb(0x60).
FaultAnyVerdict == ~Failed(tty)
KeyBit == 1 \in esi[tty]

TtyReadsKey ==
  /\ Goto(tty, "received", key)
  /\ KeyBit
  /\ key' = "none"
  /\ ClockTick
  /\ UNCHANGED <<typing, said, left, asked>>

\* It returned with a message: process_message shows the text, and the driver
\* receives again.
TtyShows ==
  /\ Goto(tty, "received", "received")
  /\ esi[tty] = OK
  /\ asked' = (asked /\ said # shell)
  /\ TtyReceive(typing)

\* process_scancode, and the next receive; backspace may empty the line.
TtyEdits ==
  /\ \/ Goto(tty, "letter", "received") /\ TtyReceive(TRUE)
     \/ Goto(tty, "other", "received") /\ TtyReceive(typing)
     \/ Goto(tty, "other", "received") /\ TtyReceive(FALSE)
  /\ UNCHANGED asked

\* enter_pressed sends the line and flushes it when the call returns.
TtyEnter ==
  \/ /\ Goto(tty, "enter", "flush")
     /\ CallSend(tty, CMD, FALSE)
     /\ UNCHANGED <<typing, said, left, key, asked>>
  \/ Goto(tty, "flush", "received") /\ TtyReceive(FALSE) /\ UNCHANGED asked

TtyStep ==
  TtyStart \/ TtyLoop \/ TtyReadsKey \/ TtyShows \/ TtyEdits \/ TtyEnter
-----------------------------------------------------------------------------
(***************************************************************************)
(* The shell and the disk driver                                           *)
(***************************************************************************)
\* outf: a message for the terminal, sent with block = TRUE.
Says(p) ==
  /\ CallSend(p, TTY, TRUE)
  /\ said' = IF supplier[TTY] = tty /\ ReceivingFrom(tty, p) THEN Author(p, ecx[tty]) ELSE said
  /\ UNCHANGED <<typing, key, asked>>

FaultCopiedFeature == TTY
ShellFeature == CMD

ShellStep ==
  \/ /\ Goto(shell, "start", "loop") /\ TakeFeature(shell, ShellFeature)
     /\ UNCHANGED <<typing, said, left, key, asked>>
  \/ /\ Goto(shell, "loop", "received") /\ ~Failed(shell) /\ CallReceive(shell, Full)
     /\ UNCHANGED <<typing, said, left, key, asked>>
  \/ Goto(shell, "received", "loop") /\ ~Failed(shell) /\ Says(shell) /\ UNCHANGED left

\* identify asks for the line of a bus when it found a drive there, between the
\* reports on drives; to ask again for the other drive of the bus changes
\* nothing.  Every report is an outf, the last one too; errors are not looked at.
HdStep ==
  /\ UNCHANGED pc
  /\ \/ /\ left > 0 /\ \E n \in DiskLines : irqs[n] = NULL /\ TakeIrq(hd, n)
        /\ UNCHANGED <<typing, said, left, key, asked>>
     \/ left > 0 /\ left' = left - 1 /\ Says(hd)
     \/ left = 0 /\ Exit(hd) /\ UNCHANGED <<typing, said, left, key, asked>>
-----------------------------------------------------------------------------
\* The keyboard interrupts once for a scancode, and has the next one when this
\* one was read.  A user who waits types when the programs are ready and the
\* answer to the last line is there.
Types(k) ==
  /\ key = "none" /\ key' = k
  /\ hasty \/ (~asked /\ supplier[CMD] = shell /\ irqs[1] = tty /\ supplier[TTY] = tty)
  /\ asked' = (asked \/ k = "enter")
  /\ HardInt(1)
  /\ UNCHANGED <<pc, typing, said, left>>

Program(p) ==
  /\ curptr = p
  /\ CASE p = tty -> TtyStep [] p = shell -> ShellStep [] p = hd -> HdStep

Tick == ClockTick /\ UNCHANGED <<pc, typing, said, left, key, asked>>

SysNext ==
  /\ (\E p \in Procs : Program(p)) \/ Tick \/ \E k \in Keys : Types(k)
  /\ UNCHANGED hasty

\* The scheduler lets nobody starve (Sched, NoStarvation): a process that is in
\* the run queue again and again is dispatched again and again, and one that is
\* dispatched again and again gets to its next call.
Fairness ==
  \A p \in Procs : /\ SF_sysVars(SysNext /\ curptr' = p)
                   /\ SF_sysVars(Program(p) /\ UNCHANGED hasty)

SysSpec == SysInit /\ [][SysNext]_sysVars /\ Fairness
-----------------------------------------------------------------------------
(***************************************************************************)
(* Properties                                                              *)
(***************************************************************************)
\* Every variable keeps its type.
SysTypeOK ==
  /\ TypeOK
  /\ pc \in [Procs -> Keys \cup {"start", "feature", "loop", "received", "flush", "none"}]
  /\ typing \in BOOLEAN /\ said \in Procs /\ left \in 0 .. Reports
  /\ key \in Keys \cup {"none"} /\ asked \in BOOLEAN /\ hasty \in BOOLEAN

\* The programs make only calls that the kernel of module Ipc answers: every
\* property shown for any programs holds of these.
ImplementsIpc == Spec

\* The driver finds a scancode whenever it is told of the keyboard, and reads
\* it once: no interrupt is seen twice or made up.
ReadsRealKeys == pc[tty] # "none"

\* No call of the terminal and the shell whose verdict they look at ever fails,
\* so these two never exit, whatever the user does and whoever else exits.
DriversLive ==
  curptr \in {tty, shell} /\ pc[curptr] \in {"loop", "received"} => ~Failed(curptr)

\* Every line is answered on the screen, if the user waits for the answers.
LinesAreAnswered == asked /\ ~hasty ~> ~asked

\* Every key that is pressed is read, while messages come in, if the user waits.
KeysAreRead == key # "none" /\ ~hasty ~> key = "none"

\* The disk driver, once it has read its drives (module Disk), gets all its
\* reports out and ends (README.md:132), if the user waits.
HdEnds == ~hasty => <>[](state[hd] = {EMPTY})

\* The terminal, which sends a line, and the shell, which sends its answer to
\* the one before, do not wait for each other (README.md:137).
NoEmbrace == ~(Contains(list[shell], tty) /\ Contains(list[tty], shell))
=============================================================================
