------------------------------- MODULE MCSched -------------------------------
(* Instances of Sched for TLC. *)
EXTENDS Sched, TLC

CONSTANTS tty, shell, hd,  \* the three processes the kernel starts
          other            \* a fourth one

FourProcs == {tty, shell, hd, other}

\* start creates every process with schedticks 1; here there is one more.
\* create_process takes any weight: three different ones.
EqualAndMixed == {<< <<tty, 1>>, <<shell, 1>>, <<hd, 1>>, <<other, 1>> >>,
                  << <<tty, 3>>, <<shell, 2>>, <<hd, 1>> >>}
=============================================================================
