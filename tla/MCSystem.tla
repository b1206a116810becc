------------------------------ MODULE MCSystem ------------------------------
(* Instances of System for TLC. *)
EXTENDS System

AllProcs == {tty, shell, hd}
AllFeatures == {TTY, CMD}
AllSupplies == tty :> {TTY} @@ shell :> {CMD} @@ hd :> {}
=============================================================================
