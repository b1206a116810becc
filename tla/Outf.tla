-------------------------------- MODULE Outf --------------------------------
(***************************************************************************)
(* outf (usrlib/utilities.c): programs print by sending text to the        *)
(* terminal, in pieces that fit the buffer msg, with numbers spelled out.  *)
(*                                                                         *)
(* A format is a sequence of items: a character, or a conversion with the  *)
(* word that va_arg yields for it.  Words have Word values, for 2^32.      *)
(***************************************************************************)
EXTENDS Naturals, SequencesExt

CONSTANTS
  Formats,        \* the calls that are made
  MAX_MSG_SIZE,
  Word,
  Dividers,       \* powers of ten from the highest in a word, 1000000000
  Nibbles         \* powers of 16 from the highest in a word, 2^28

Chars == {"0", "1", "2", "3", "4", "5", "6", "7", "8", "9", "A", "B", "C", "D", "E", "F",
          "-", "x", "a"}
Digit == <<"0", "1", "2", "3", "4", "5", "6", "7", "8", "9", "A", "B", "C", "D", "E", "F">>

Conversions == {"d", "u", "x"}

\* The powers of base, from the one for the highest digit of a word down to 1.
Powers(dividers, base) ==
  /\ dividers \in Seq(Nat \ {0}) /\ dividers # <<>>
  /\ Word <= base * dividers[1] /\ dividers[Len(dividers)] = 1
  /\ \A i \in 1 .. Len(dividers) - 1 : dividers[i] = base * dividers[i + 1]

\* Half of the words are negative, and the spelling of any number fits an empty
\* buffer.
ASSUME OutfAssumption ==
  /\ Word \in Nat \ {0, 1} /\ Word % 2 = 0 /\ MAX_MSG_SIZE \in Nat
  /\ Powers(Dividers, 10) /\ Powers(Nibbles, 16)
  /\ Len(Dividers) + 1 < MAX_MSG_SIZE /\ Len(Nibbles) + 2 < MAX_MSG_SIZE
  /\ Formats \subseteq Seq([kind : {"char"}, char : Chars] \cup [kind : Conversions, arg : 0 .. Word - 1])

VARIABLES
  fmt,      \* the format; never changes
  cur,      \* the item it has reached
  msg,      \* the buffer up to idx
  sent,     \* the messages sent, without the 0 at their end
  pc

vars == <<fmt, cur, msg, sent, pc>>

Init ==
  /\ fmt \in Formats
  /\ cur = 1 /\ msg = <<>> /\ sent = <<>> /\ pc = "loop"
-----------------------------------------------------------------------------
(***************************************************************************)
(* Numbers                                                                 *)
(***************************************************************************)
\* Zeros are passed over while there is no text yet (first), but for the digit of
\* the divider 1.
FaultSkipAll(d) == TRUE
MaySkip(d) == d # 1

Spell(what, dividers) ==
  LET step[i \in 0 .. Len(dividers)] ==
        IF i = 0 THEN [rest |-> what, text |-> <<>>]
        ELSE LET s == step[i - 1]
                 val == s.rest \div dividers[i]
             IN [rest |-> s.rest - val * dividers[i],
                 text |-> IF val = 0 /\ s.text = <<>> /\ MaySkip(dividers[i]) THEN <<>>
                          ELSE Append(s.text, Digit[val + 1])]
  IN step[Len(dividers)].text

uint2String(what) == Spell(what, Dividers)
hex2String(what) == <<"0", "x">> \o Spell(what, Nibbles)

\* Negative words are the upper half; the lowest is its own opposite.
int2String(what) ==
  IF what >= Word \div 2 THEN <<"-">> \o uint2String(Word - what) ELSE uint2String(what)

String(item) ==
  CASE item.kind = "d" -> int2String(item.arg)
    [] item.kind = "u" -> uint2String(item.arg)
    [] item.kind = "x" -> hex2String(item.arg)
-----------------------------------------------------------------------------
(***************************************************************************)
(* The loop                                                                *)
(***************************************************************************)
AtEnd(c) == c > Len(fmt)

\* The text is sent, and the buffer starts over with what follows; a send that
\* fails ends the call.
Send(text, follows) ==
  \/ sent' = Append(sent, text) /\ msg' = follows /\ UNCHANGED pc
  \/ pc' = "failed" /\ UNCHANGED <<sent, msg>>

\* A byte at an index of MAX_MSG_SIZE or more lies behind the buffer; what
\* happens then is undefined.
Overrun == pc' = "overrun" /\ UNCHANGED <<sent, msg>>

FaultNotFull(idx) == FALSE
FaultFullLate(idx) == idx >= MAX_MSG_SIZE
Full(idx) == idx >= MAX_MSG_SIZE - 1

Character ==
  /\ pc = "loop" /\ ~AtEnd(cur) /\ fmt[cur].kind = "char"
  /\ cur' = cur + 1
  /\ LET text == Append(msg, fmt[cur].char) IN
     IF Full(Len(text)) /\ ~AtEnd(cur + 1)
     THEN IF Len(text) >= MAX_MSG_SIZE THEN Overrun ELSE Send(text, <<>>)
     ELSE msg' = text /\ UNCHANGED <<sent, pc>>
  /\ UNCHANGED fmt

FaultAlwaysRoom(len, idx) == FALSE
NoRoom(len, idx) == len >= MAX_MSG_SIZE - idx

Number ==
  /\ pc = "loop" /\ ~AtEnd(cur) /\ fmt[cur].kind \in Conversions
  /\ cur' = cur + 1
  /\ LET buf == String(fmt[cur]) IN
     IF NoRoom(Len(buf), Len(msg)) THEN Send(msg, buf)
     ELSE msg' = msg \o buf /\ UNCHANGED <<sent, pc>>
  /\ UNCHANGED fmt

End ==
  /\ pc = "loop" /\ AtEnd(cur)
  /\ IF Len(msg) >= MAX_MSG_SIZE THEN Overrun
     ELSE \/ sent' = Append(sent, msg) /\ msg' = <<>> /\ pc' = "done"
          \/ pc' = "failed" /\ UNCHANGED <<sent, msg>>
  /\ UNCHANGED <<fmt, cur>>

Next == Character \/ Number \/ End

\* What the terminal shows of a message that is sent with its 0 while nobody types a
\* line (module Tty has the rest).  Its buffer is as large as msg, it goes on with
\* fewer bytes than that, and makes the last of them 0.
Shown(text) == IF Len(text) + 1 < MAX_MSG_SIZE THEN text ELSE SubSeq(text, 1, MAX_MSG_SIZE - 2)

Spec == Init /\ [][Next]_vars /\ WF_vars(Next)
-----------------------------------------------------------------------------
(***************************************************************************)
(* Properties                                                              *)
(***************************************************************************)
\* The text that an item stands for: digit by digit from the value of the word,
\* as many as it takes.
Power(base, i) == LET p[j \in 0 .. i] == IF j = 0 THEN 1 ELSE base * p[j - 1] IN p[i]
Length(n, base) == CHOOSE k \in 1 .. Word : /\ n < Power(base, k)
                                            /\ k > 1 => n >= Power(base, k - 1)
Numeral(n, base) ==
  LET k == Length(n, base)
  IN [i \in 1 .. k |-> Digit[((n \div Power(base, k - i)) % base) + 1]]

Meaning(item) ==
  CASE item.kind = "char" -> <<item.char>>
    [] item.kind = "u" -> Numeral(item.arg, 10)
    [] item.kind = "x" -> <<"0", "x">> \o Numeral(item.arg, 16)
    [] item.kind = "d" -> IF item.arg * 2 < Word THEN Numeral(item.arg, 10)
                          ELSE <<"-">> \o Numeral(Word - item.arg, 10)

Meant(items) == FlattenSeq([i \in DOMAIN items |-> Meaning(items[i])])

\* Every variable keeps its type, and the buffer is not used beyond its end.
TypeOK ==
  /\ fmt \in Formats /\ cur \in 1 .. Len(fmt) + 1
  /\ msg \in Seq(Chars) /\ Len(msg) <= MAX_MSG_SIZE
  /\ sent \in Seq(Seq(Chars))
  /\ pc \in {"loop", "done", "failed", "overrun"}

\* What was sent and what is in the buffer are together the text of the format so
\* far, with every number spelled out: nothing is lost, repeated or swapped
\* where one message ends and the next begins.
NothingLost == pc \in {"loop", "done"} => FlattenSeq(sent) \o msg = Meant(SubSeq(fmt, 1, cur - 1))

\* The terminal can show every message as it was sent, but for the last character of
\* one that fills the buffer with its 0: a piece of a long text, or a text that ends
\* just there.  It never takes more than that one.
OnlyTheLastIsCut ==
  \A i \in DOMAIN sent :
    Shown(sent[i]) # sent[i] => /\ Len(sent[i]) = MAX_MSG_SIZE - 1
                               /\ Shown(sent[i]) = Front(sent[i])

\* The spelling of the i-th item fills the buffer but for its last cell.
NumberFills(i) ==
  /\ fmt[i].kind \in Conversions
  /\ LET text == Meaning(fmt[i])
     IN \A j \in 1 .. Len(text) : msg[(MAX_MSG_SIZE - 1 - Len(text)) + j] = text[j]

\* The buffer is overrun only by a character right behind a number that filled it
\* but for its last cell, or by the 0 behind that character: any other text is
\* cut in time, also where numbers stand earlier in the format.
OverrunOnlyBehindNumber ==
  pc = "overrun" =>
    /\ cur > 2 /\ fmt[cur - 1].kind = "char"
    /\ Len(msg) = IF AtEnd(cur) THEN MAX_MSG_SIZE ELSE MAX_MSG_SIZE - 1
    /\ NumberFills(cur - 2)
=============================================================================
