-------------------------------- MODULE Tty ---------------------------------
(***************************************************************************)
(* The line editor of the terminal driver (tty/main.c) and the screen it   *)
(* writes to (tty/utilities.hla): the keys that edit the line, and the     *)
(* messages of other processes that arrive in the middle of it.            *)
(*                                                                         *)
(* One action is one round of main_loop: a key is processed, or a message  *)
(* is shown.  The driver's own status line, below the others, is left out. *)
(***************************************************************************)
EXTENDS Naturals, SequencesExt

CONSTANTS
  Letters,     \* keys that are typed while echo is on
  Secrets,     \* keys that are typed while echo is off
  Digits,      \* the keys that call read_unsint
  Texts,       \* what other processes have to say
  Others,      \* the characters they say it with
  Blank,       \* a space, or a cell never written to
  NO_LINES, NO_COLUMNS,
  Offsets,     \* cell offsets a 16-bit cursor can name, 2^15
  Word         \* the width of shiftCount: it counts modulo Word

Cells == NO_LINES * NO_COLUMNS
BUFFER_SIZE == Cells - 1
MAX_MSG_SIZE == Cells + 1

ASSUME TtyAssumption ==
  /\ NO_LINES \in Nat \ {0} /\ NO_COLUMNS \in Nat \ {0}
  /\ Word \in Nat /\ Word > 1 /\ Offsets \in Nat /\ Cells < Offsets
  /\ Texts \subseteq Seq(Others)
  /\ Secrets \cap (Letters \cup Digits \cup Others \cup {Blank}) = {}

VARIABLES
  screen,         \* the cells of the video memory, and cursor
  snd_buffer,     \* the line typed so far; its length is screen_idx
  screen_echoed,  \* which characters of it are on the screen
  rcv_buffer,     \* the text in it, up to its 0
  echo, input_dirty, shiftCount,
  astray          \* history: a digit was printed since the line began

vars == <<screen, snd_buffer, screen_echoed, rcv_buffer, echo, input_dirty, shiftCount, astray>>
-----------------------------------------------------------------------------
(***************************************************************************)
(* The screen.  Every definition named Fault... is a defect the one after  *)
(* it could have had.                                                      *)
(***************************************************************************)
\* scrollscreen: every line moves up by one, the last one is cleared.
Scrolled(cells) ==
  [i \in 0 .. Cells - 1 |->
     IF i + NO_COLUMNS < Cells THEN cells[i + NO_COLUMNS] ELSE Blank]

\* A screen whose cursor was put at offset i.
Settled(cells, i) ==
  IF i >= Cells THEN [cells |-> Scrolled(cells), cursor |-> i - NO_COLUMNS]
  ELSE [cells |-> cells, cursor |-> i]

Put(s, c) == Settled([s.cells EXCEPT ![s.cursor] = c], s.cursor + 1)
PutAll(s, text) ==
  LET put[i \in 0 .. Len(text)] == IF i = 0 THEN s ELSE Put(put[i - 1], text[i])
  IN put[Len(text)]

\* putcharacter(LF): spaces, at least one, up to the beginning of a line.
NewLine(s) ==
  PutAll(s, [i \in 1 .. NO_COLUMNS - (s.cursor % NO_COLUMNS) |-> Blank])

\* backspace.  In front of the first cell the cursor wraps, and the write to
\* that offset is beyond the video segment.
Left(s) == [s EXCEPT !.cursor = (@ + Offsets - 1) % Offsets]
Erase(s) == IF s.cursor = 0 THEN Left(s) ELSE Left(Put(Left(s), Blank))
-----------------------------------------------------------------------------
Init ==
  /\ screen = [cells |-> [i \in 0 .. Cells - 1 |-> Blank], cursor |-> 0]
  /\ snd_buffer = <<>> /\ rcv_buffer = <<>>
  /\ screen_echoed = [i \in 1 .. BUFFER_SIZE |-> FALSE]
  /\ echo = TRUE /\ input_dirty = FALSE /\ shiftCount = 0 /\ astray = FALSE

\* restore_input: a line that a message pushed away is shown again, without the
\* characters that were typed in secret.
Visible(line, echoed) ==
  LET shown[i \in 0 .. Len(line)] ==
        IF i = 0 THEN <<>>
        ELSE IF echoed[i] THEN Append(shown[i - 1], line[i]) ELSE shown[i - 1]
  IN shown[Len(line)]

Restored ==
  IF input_dirty THEN PutAll(screen, Visible(snd_buffer, screen_echoed)) ELSE screen

\* read_char
FaultOneTooMany == Len(snd_buffer) <= BUFFER_SIZE
Room == Len(snd_buffer) < BUFFER_SIZE

FaultKeepMark(i) == IF echo THEN [screen_echoed EXCEPT ![i] = TRUE] ELSE screen_echoed
Marked(i) == [screen_echoed EXCEPT ![i] = echo]

Letter(c) ==
  /\ c \in IF echo THEN Letters ELSE Secrets
  /\ IF Room
     THEN /\ screen' = IF echo THEN Put(Restored, c) ELSE Restored
          /\ screen_echoed' = Marked(Len(snd_buffer) + 1)
          /\ snd_buffer' = Append(snd_buffer, c)
     ELSE screen' = Restored /\ UNCHANGED <<screen_echoed, snd_buffer>>
  /\ UNCHANGED <<echo, shiftCount>>

\* read_unsint, without shift: the digit is shown, and that is all.
Digit(d) ==
  /\ shiftCount = 0
  /\ screen' = Put(Restored, d)
  /\ UNCHANGED <<snd_buffer, screen_echoed, echo, shiftCount>>

\* backspace_pressed: one character that is on the screen, or all those in
\* secret at the end of the line.
Backspace ==
  /\ IF snd_buffer = <<>> THEN screen' = Restored /\ UNCHANGED snd_buffer
     ELSE IF screen_echoed[Len(snd_buffer)]
     THEN screen' = Erase(Restored) /\ snd_buffer' = Front(snd_buffer)
     ELSE /\ screen' = Restored
          /\ snd_buffer' = SubSeq(snd_buffer, 1, Max({0} \cup {i \in DOMAIN snd_buffer : screen_echoed[i]}))
  /\ UNCHANGED <<screen_echoed, echo, shiftCount>>

\* enter_pressed: the line goes to the shell (module System) and is flushed.
Enter ==
  /\ screen' = NewLine(Restored)
  /\ snd_buffer' = <<>>
  /\ UNCHANGED <<screen_echoed, echo, shiftCount>>

\* escape_pressed, without shift
Escape ==
  /\ shiftCount = 0
  /\ screen' = Restored /\ echo' = ~echo
  /\ UNCHANGED <<snd_buffer, screen_echoed, shiftCount>>

\* shift_pressed and shift_released
Shift ==
  /\ screen' = Restored
  /\ shiftCount' \in {(shiftCount + 1) % Word, (shiftCount + Word - 1) % Word}
  /\ UNCHANGED <<snd_buffer, screen_echoed, echo>>

\* A scancode with no function: a complaint on the status line.
OtherKey ==
  /\ screen' = Restored
  /\ UNCHANGED <<snd_buffer, screen_echoed, echo, shiftCount>>

\* The text of a process_message, on a screen s: on a line of its own.
Shown(s, text) == NewLine(PutAll(IF snd_buffer = <<>> THEN s ELSE NewLine(s), text))

FaultForgetLine(dirty) == dirty
Pushed(dirty) == dirty \/ snd_buffer # <<>>

\* alt_pressed, without shift: a text as if another process had sent it.
Alt(text) ==
  /\ shiftCount = 0
  /\ screen' = Shown(Restored, text)
  /\ input_dirty' = Pushed(FALSE) /\ astray' = FALSE
  /\ UNCHANGED <<snd_buffer, screen_echoed, rcv_buffer, echo, shiftCount>>

process_scancode ==
  \/ /\ \/ \E c \in Letters \cup Secrets : Letter(c)
        \/ Backspace \/ Escape \/ Shift \/ OtherKey
     /\ input_dirty' = FALSE /\ astray' = (astray /\ ~input_dirty)
     /\ UNCHANGED rcv_buffer
  \/ /\ \E d \in Digits : Digit(d)
     /\ input_dirty' = FALSE /\ astray' = TRUE
     /\ UNCHANGED rcv_buffer
  \/ Enter /\ input_dirty' = FALSE /\ astray' = FALSE /\ UNCHANGED rcv_buffer
  \/ \E text \in Texts : Alt(text)

\* The length of the receive in main_loop: 0 while a line is being typed.
Limit == IF snd_buffer = <<>> THEN MAX_MSG_SIZE ELSE 0

\* The bytes that main_loop goes on with, of a text that was sent with its 0: what
\* receive copied, but always less than the buffer holds.
FaultUncapped(text) == Min({Len(text) + 1, Limit})
Bytes(text) ==
  LET copied == Min({Len(text) + 1, Limit})
  IN IF copied < MAX_MSG_SIZE THEN copied ELSE MAX_MSG_SIZE - 1

\* buffer[bytes - 1] = 0.  The last byte that was copied is the 0 of the text, or
\* the last character of a text that filled the buffer.  With no bytes the write
\* is in front of the buffer, where cc puts the last cell of snd_buffer: it would
\* end a line that was longer than BUFFER_SIZE.
process_message(text) ==
  /\ IF Bytes(text) > 0
     THEN rcv_buffer' = SubSeq(text, 1, Bytes(text) - 1) /\ UNCHANGED snd_buffer
     ELSE /\ snd_buffer' = SubSeq(snd_buffer, 1, Min({Len(snd_buffer), BUFFER_SIZE}))
          /\ UNCHANGED rcv_buffer
  /\ screen' = Shown(screen, rcv_buffer')
  /\ input_dirty' = Pushed(input_dirty) /\ astray' = FALSE
  /\ UNCHANGED <<screen_echoed, echo, shiftCount>>

\* The exception that such a write raises stops the machine.
Next ==
  /\ screen.cursor < Cells
  /\ process_scancode \/ \E text \in Texts : process_message(text)

Spec == Init /\ [][Next]_vars
-----------------------------------------------------------------------------
(***************************************************************************)
(* Properties                                                              *)
(***************************************************************************)
Characters == Letters \cup Secrets \cup Digits \cup Others \cup {Blank}

\* Every variable keeps its type.  The line and a text that was received leave room
\* for the 0 at their end, which for a text is the last byte main_loop goes on with.
TypeOK ==
  /\ screen \in [cells : [0 .. Cells - 1 -> Characters], cursor : 0 .. Offsets - 1]
  /\ snd_buffer \in Seq(Letters \cup Secrets) /\ Len(snd_buffer) <= BUFFER_SIZE
  /\ screen_echoed \in [1 .. BUFFER_SIZE -> BOOLEAN]
  /\ rcv_buffer \in Seq(Others) /\ Len(rcv_buffer) <= MAX_MSG_SIZE - 2
  /\ echo \in BOOLEAN /\ input_dirty \in BOOLEAN /\ astray \in BOOLEAN /\ shiftCount \in 0 .. Word - 1

\* The text in front of the cursor is the line that Enter would send, as far as
\* it was typed with echo on: after any mixture of letters, backspaces, changes
\* of the echo, messages in between and scrolling.  Digits are not part of the
\* line, so it does not hold of a line that was begun with one.
ScreenShowsLine ==
  LET line == Visible(snd_buffer, screen_echoed)
  IN ~input_dirty /\ ~astray =>
       /\ Len(line) <= screen.cursor
       /\ \A i \in DOMAIN line : screen.cells[screen.cursor - Len(line) + i - 1] = line[i]

\* What is typed with echo off never shows, not even when the line is restored
\* after a message or the buffer holds marks of an earlier line.
SecretsStayHidden == \A i \in 0 .. Cells - 1 : screen.cells[i] \notin Secrets
=============================================================================
