------------------------------ MODULE MCKernel ------------------------------
(* An instance of Kernel for TLC.  A word has 2^9 values, a page 16, and a *)
(* megabyte 32; the kernel ends at 6.                                      *)
EXTENDS Kernel

CONSTANTS tty, shell, hd, TTY, CMD

AllProcs == {tty, shell, hd}
AllFeatures == {TTY, CMD}
WhoSupplies == tty :> {TTY} @@ shell :> {CMD} @@ hd :> {}
TssPlaces == 1 :> 1 @@ 2 :> 2 @@ 3 :> 3

\* Two programs; two of which the second would reach into the BIOS area; and
\* three, for the last of which the descriptors run out in the middle.
SomeBoots ==
  {<<[name |-> tty, size |-> 3], [name |-> shell, size |-> 2]>>,
   <<[name |-> tty, size |-> 3], [name |-> shell, size |-> 12]>>,
   <<[name |-> tty, size |-> 3], [name |-> shell, size |-> 2], [name |-> hd, size |-> 4]>>}

\* Registers that are set anew before anything looks at them are left out:
\* esi and eax, and the buffer of a process that is not waiting.
Waiting(p) == p \notin ready /\ EMPTY \notin state[p]
Future == <<rqVars, state, list, want, supplier, irqs, interrupts, bootVars, t,
            port_accessers, drivers,
            [p \in Procs |-> IF Waiting(p) THEN <<edx[p], ecx[p]>> ELSE <<>>]>>

\* The descriptor of a segment, read back: a limit below a megabyte is the one
\* that was asked for; a greater one is that or up to a page more, except that
\* it is less when its last ten bits are 0 and the two above them are not.
ASSUME LimitsReadBack ==
  \A limit \in 0 .. Word - Page :
    LET d == SegmentDescriptor(limit, limit)
        rest == limit % Page
    IN /\ GetBase(d) = limit
       /\ GetLimit(d) = IF limit < OneMeg \/ rest = 0 THEN limit
                        ELSE IF limit % (Page \div 4) = 0 THEN limit - rest
                        ELSE limit - rest + Page
=============================================================================
