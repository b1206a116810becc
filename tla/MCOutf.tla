-------------------------------- MODULE MCOutf --------------------------------
(* Every word in every conversion, and all short texts in which numbers of one *)
(* to four characters meet the end of a buffer of six.                         *)
EXTENDS Outf

a == [kind |-> "char", char |-> "a"]
As(kind, n) == [kind |-> kind, arg |-> n]

AllNumbers == {<<As(k, n)>> : k \in Conversions, n \in 0 .. 255}
Items == {a, As("u", 0), As("u", 42), As("d", 128), As("x", 31)}
Texts == UNION {[1 .. n -> Items] : n \in 0 .. 5}
LongTexts == {[i \in 1 .. n |-> a] : n \in 6 .. 18} \cup {<<As("d", 200)>> \o [i \in 1 .. n |-> a] : n \in 6 .. 14}
MCFormats == AllNumbers \cup Texts \cup LongTexts

MCDividers == <<100, 10, 1>>
MCNibbles == <<16, 1>>
=============================================================================
