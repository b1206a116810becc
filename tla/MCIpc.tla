------------------------------- MODULE MCIpc --------------------------------
(* Instances of Ipc for TLC. *)
EXTENDS Ipc

CONSTANTS tty, shell, hd, TTY, CMD

TwoProcs == {tty, shell}
ThreeProcs == {tty, shell, hd}
BothFeatures == {TTY, CMD}

\* tty/main.c:471 and shell/main.c:24; hd supplies nothing.
TwoSupplies == tty :> {TTY} @@ shell :> {CMD}
\* hd supplies nothing in this repository; here it rivals with the shell.
ThreeSupplies == tty :> {TTY} @@ shell :> {CMD} @@ hd :> {CMD}

\* The registers esi, eax and ecx are written by the handlers and steer none of
\* them, so states that differ in them only have the same future.
Control == <<rqVars, state, list, want, supplier, irqs, interrupts>>
=============================================================================
