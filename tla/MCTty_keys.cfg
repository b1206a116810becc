\* All keys, and messages in between, up to one that fills the buffer.  A digit on the line lets the cursor leave
\* the screen, which stops the machine.
CONSTANTS
  a = a
  b = b
  pin = pin
  one = one
  m = m
  Blank = Blank
  Letters = {a, b}
  Secrets = {pin}
  Digits = {one}
  Texts <- SomeTexts
  Others = {m}
  NO_LINES = 2
  NO_COLUMNS = 3
  Offsets = 64
  Word = 2
SPECIFICATION Spec
INVARIANTS TypeOK ScreenShowsLine SecretsStayHidden
CHECK_DEADLOCK FALSE
