------------------------------- MODULE MCTty --------------------------------
(* Instances of Tty for TLC: two lines, of three columns. *)
EXTENDS Tty

CONSTANTS a, b, pin, one, m

\* The last fills the screen and, with its 0, the buffer.
SomeTexts == {<<>>, <<m>>, <<m, m, m, m, m, m>>}
=============================================================================
