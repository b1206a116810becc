----------------------------- MODULE OutfProofs -----------------------------
(***************************************************************************)
(* Theorems about Outf: what a number is spelled with, and what the buffer *)
(* holds, for every format, every buffer and every width of a word that    *)
(* OutfAssumption allows.                                                  *)
(***************************************************************************)
EXTENDS Outf, Induction
-----------------------------------------------------------------------------
(***************************************************************************)
(* The spelling of a number                                                *)
(***************************************************************************)
\* What the conversion has left of the number and has written, after i dividers.
Steps(step, what, dividers) ==
  step = [i \in 0 .. Len(dividers) |->
            IF i = 0 THEN [rest |-> what, text |-> <<>>]
            ELSE LET s == step[i - 1]
                     val == s.rest \div dividers[i]
                 IN [rest |-> s.rest - val * dividers[i],
                     text |-> IF val = 0 /\ s.text = <<>> /\ MaySkip(dividers[i]) THEN <<>>
                              ELSE Append(s.text, Digit[val + 1])]]

\* One divider takes from a number what it is a multiple of, and no more.
LEMMA Rest ==
  ASSUME NEW n \in Nat, NEW d \in Nat \ {0}
  PROVE  n \div d \in Nat /\ (n \div d) * d \in Nat /\ n - (n \div d) * d \in 0 .. d - 1
<1>1. n % d = n - d * (n \div d)
  OBVIOUS
<1>2. n % d \in 0 .. d - 1 /\ n \div d \in Nat
  OBVIOUS
<1>3. d * (n \div d) = (n \div d) * d /\ (n \div d) * d \in Nat
  BY <1>2
<1> QED BY <1>1, <1>2, <1>3

LEMMA Quotient ==
  ASSUME NEW n \in Nat, NEW d \in Nat \ {0}, NEW b \in Nat \ {0}, n < b * d
  PROVE  n \div d \in 0 .. b - 1
<1> DEFINE q == n \div d
<1>1. q \in Nat /\ q * d <= n
  BY Rest
<1> HIDE DEF q
<1>2. q * d < b * d
  <2>1. q * d \in Nat /\ b * d \in Nat
    BY <1>1
  <2> QED BY <1>1, <2>1
<1>3. q < b
  <2> SUFFICES ASSUME q >= b PROVE FALSE
    BY <1>1
  <2>1. PICK k \in Nat : q = b + k
    <3>1. q - b \in Nat /\ q = b + (q - b)
      BY <1>1
    <3> QED BY <3>1
  <2>2. (b + k) * d = b * d + k * d
    OBVIOUS
  <2>3. k * d \in Nat /\ b * d \in Nat
    OBVIOUS
  <2>4. b * d + k * d < b * d
    BY <1>2, <2>1, <2>2
  <2> QED BY <2>3, <2>4
<1> QED BY <1>1, <1>3 DEF q

LEMMA DigitIsChar ==
  \A k \in 1 .. 16 : Digit[k] \in Chars
<1> TAKE k \in 1 .. 16
<1>1. CASE k <= 8
  BY <1>1 DEF Digit, Chars
<1>2. CASE k > 8
  BY <1>2 DEF Digit, Chars
<1> QED BY <1>1, <1>2

\* There is such a function, whatever the dividers are.
LEMMA StepsExist ==
  ASSUME NEW what \in Nat, NEW dividers \in Seq(Nat \ {0})
  PROVE  /\ Steps(CHOOSE step : Steps(step, what, dividers), what, dividers)
         /\ Spell(what, dividers) = (CHOOSE step : Steps(step, what, dividers))[Len(dividers)].text
<1> DEFINE Written == {Digit[v] : v \in Nat}
           S == [rest : Nat, text : Seq(Written)]
           Go(s, d) == [rest |-> s.rest - (s.rest \div d) * d,
                        text |-> IF s.rest \div d = 0 /\ s.text = <<>> /\ MaySkip(d) THEN <<>>
                                 ELSE Append(s.text, Digit[(s.rest \div d) + 1])]
           D == [n \in Nat |-> [s \in S |-> IF n \in 1 .. Len(dividers) THEN Go(s, dividers[n]) ELSE s]]
           c == [rest |-> what, text |-> <<>>]
<1>1. Len(dividers) \in Nat /\ \A n \in 1 .. Len(dividers) : dividers[n] \in Nat \ {0}
  OBVIOUS
<1>2. \A s \in S : \A d \in Nat \ {0} : Go(s, d) \in S
  <2> TAKE s \in S, d \in Nat \ {0}
  <2>1. s.rest \in Nat /\ s.text \in Seq(Written)
    OBVIOUS
  <2>2. s.rest \div d \in Nat /\ s.rest - (s.rest \div d) * d \in Nat
    <3> DEFINE r == s.rest
    <3>1. r \in Nat
      BY <2>1
    <3> HIDE DEF r
    <3>2. r \div d \in Nat /\ r - (r \div d) * d \in 0 .. d - 1
      BY <3>1, Rest
    <3>3. \A k \in 0 .. d - 1 : k \in Nat
      OBVIOUS
    <3> QED BY <3>2, <3>3 DEF r
  <2>3. (s.rest \div d) + 1 \in Nat
    BY <2>2
  <2>4. Digit[(s.rest \div d) + 1] \in Written
    BY <2>3
  <2> HIDE DEF Written
  <2>5. Append(s.text, Digit[(s.rest \div d) + 1]) \in Seq(Written) /\ <<>> \in Seq(Written)
    BY <2>1, <2>4
  <2> QED BY <2>2, <2>5
<1>3. c \in S
  <2> HIDE DEF Written
  <2> QED OBVIOUS
<1>4. D \in [Nat -> [S -> S]]
  <2> HIDE DEF S, Go
  <2> QED BY <1>1, <1>2
<1>5. PICK f \in [0 .. Len(dividers) -> S] : Iterates(f, Len(dividers), c, D)
  <2> HIDE DEF S, D, c
  <2> QED BY <1>1, <1>3, <1>4, IteratesExist
<1>6. Steps(f, what, dividers)
  <2>1. f = [n \in 0 .. Len(dividers) |-> IF n = 0 THEN c ELSE D[n][f[n - 1]]]
    BY <1>5 DEF Iterates
  <2>2. ASSUME NEW n \in 0 .. Len(dividers), n # 0
        PROVE  D[n][f[n - 1]] = Go(f[n - 1], dividers[n])
    <3>1. n \in 1 .. Len(dividers) /\ n \in Nat /\ n - 1 \in 0 .. Len(dividers)
      BY <1>1, <2>2
    <3>2. f[n - 1] \in S
      BY <3>1
    <3> HIDE DEF S, Go
    <3> QED BY <3>1, <3>2
  <2>3. \A n \in 0 .. Len(dividers) : n # 0 => D[n][f[n - 1]] = Go(f[n - 1], dividers[n])
    BY <2>2
  <2>4. f = [n \in 0 .. Len(dividers) |-> IF n = 0 THEN c ELSE Go(f[n - 1], dividers[n])]
    <3> HIDE DEF D, Go, c
    <3> QED BY <2>1, <2>3
  <2> QED BY <2>4 DEF Steps
<1>7. Spell(what, dividers) = (CHOOSE step : Steps(step, what, dividers))[Len(dividers)].text
  BY DEF Spell, Steps
<1> QED BY <1>6, <1>7

\* Every digit is one of the base, and there are at most as many as dividers.
LEMMA Spelled ==
  ASSUME NEW dividers, NEW base \in 2 .. 16, Powers(dividers, base), NEW what \in 0 .. Word,
         what < base * dividers[1]
  PROVE  Spell(what, dividers) \in Seq(Chars) /\ Len(Spell(what, dividers)) <= Len(dividers)
<1> DEFINE N == Len(dividers)
           step == CHOOSE step : Steps(step, what, dividers)
<1>1. dividers \in Seq(Nat \ {0}) /\ what \in Nat /\ N \in Nat \ {0}
      /\ \A i \in 1 .. N : dividers[i] \in Nat \ {0}
  BY DEF Powers
<1>2. Steps(step, what, dividers) /\ Spell(what, dividers) = step[N].text
  BY <1>1, StepsExist
<1> HIDE DEF step
<1> DEFINE Q(i) == /\ step[i].rest \in Nat /\ step[i].text \in Seq(Chars)
                   /\ Len(step[i].text) <= i
                   /\ i < N => step[i].rest < base * dividers[i + 1]
           S == {i \in Nat : i <= N => Q(i)}
<1>3. 0 \in S
  <2>1. step[0] = [rest |-> what, text |-> <<>>]
    BY <1>1, <1>2 DEF Steps
  <2>2. <<>> \in Seq(Chars) /\ Len(<<>>) <= 0
    OBVIOUS
  <2>3. step[0].rest = what /\ step[0].text = <<>>
    BY <2>1
  <2>4. 0 < N => step[0].rest < base * dividers[0 + 1]
    BY <2>3
  <2>5. Q(0)
    BY <1>1, <2>2, <2>3, <2>4
  <2> QED BY <2>5
<1>4. \A i \in S : i + 1 \in S
  <2> SUFFICES ASSUME NEW i \in S PROVE i + 1 \in S
    OBVIOUS
  <2>0. i \in Nat /\ i + 1 \in Nat
    OBVIOUS
  <2> SUFFICES ASSUME i + 1 <= N PROVE Q(i + 1)
    BY <2>0
  <2> DEFINE s == step[i]
             d == dividers[i + 1]
             val == s.rest \div d
  <2>1. i < N /\ i <= N /\ i + 1 \in 0 .. N /\ i + 1 # 0 /\ (i + 1) - 1 = i /\ i + 1 \in 1 .. N
    BY <1>1, <2>0
  <2>2. s.rest \in Nat /\ s.text \in Seq(Chars) /\ Len(s.text) <= i /\ s.rest < base * d
    BY <2>1
  <2>3. d \in Nat \ {0} /\ base \in Nat \ {0}
    BY <1>1, <2>1
  <2>4. step[i + 1] = [rest |-> s.rest - val * d,
                       text |-> IF val = 0 /\ s.text = <<>> /\ MaySkip(d) THEN <<>>
                                ELSE Append(s.text, Digit[val + 1])]
    BY <1>2, <2>1 DEF Steps
  <2> HIDE DEF s, d
  <2>5. val \in 0 .. base - 1 /\ s.rest - val * d \in 0 .. d - 1
    BY <2>2, <2>3, Rest, Quotient
  <2> HIDE DEF val
  <2>6. Digit[val + 1] \in Chars
    <3>1. val + 1 \in 1 .. 16
      BY <2>5
    <3> QED BY <3>1, DigitIsChar
  <2>7. /\ Append(s.text, Digit[val + 1]) \in Seq(Chars) /\ <<>> \in Seq(Chars)
        /\ Len(Append(s.text, Digit[val + 1])) <= i + 1 /\ Len(<<>>) <= i + 1
    BY <2>0, <2>2, <2>6
  <2>8. step[i + 1].text \in Seq(Chars) /\ Len(step[i + 1].text) <= i + 1
    BY <2>4, <2>7
  <2>9. step[i + 1].rest \in Nat /\ step[i + 1].rest < d
    BY <2>3, <2>4, <2>5
  <2>10. i + 1 < N => d = base * dividers[(i + 1) + 1]
    <3>1. i + 1 < N => i + 1 \in 1 .. N - 1
      BY <1>1, <2>1
    <3> QED BY <3>1 DEF d, Powers
  <2> QED BY <2>8, <2>9, <2>10
<1>5. S = Nat
  <2> HIDE DEF S
  <2>1. S \in SUBSET Nat
    BY DEF S
  <2> QED BY <1>3, <1>4, <2>1, SetInduction
<1>6. Q(N)
  BY <1>1, <1>5
<1> QED BY <1>2, <1>6
-----------------------------------------------------------------------------
\* What a conversion writes is text, and it fits an empty buffer.
LEMMA UnsignedFits ==
  ASSUME NEW n \in 0 .. Word, n < Word \/ n < 10 * Dividers[1]
  PROVE  uint2String(n) \in Seq(Chars) /\ Len(uint2String(n)) <= Len(Dividers)
<1>1. Powers(Dividers, 10) /\ 10 \in 2 .. 16 /\ Word \in Nat
  BY OutfAssumption
<1>2. n < 10 * Dividers[1]
  <2>1. Word <= 10 * Dividers[1] /\ Dividers[1] \in Nat
    BY <1>1 DEF Powers
  <2> QED BY <1>1, <2>1
<1> QED BY <1>1, <1>2, Spelled DEF uint2String

LEMMA StringFits ==
  ASSUME NEW item, item.kind \in Conversions, item.arg \in 0 .. Word - 1
  PROVE  /\ String(item) \in Seq(Chars) /\ Len(String(item)) \in Nat
         /\ Len(String(item)) < MAX_MSG_SIZE
<1> DEFINE n == item.arg
<1>1. Word \in Nat \ {0, 1} /\ MAX_MSG_SIZE \in Nat
  BY OutfAssumption
<1>2. Len(Dividers) \in Nat /\ Len(Dividers) + 1 < MAX_MSG_SIZE
  BY OutfAssumption DEF Powers
<1>3. Len(Nibbles) \in Nat /\ Len(Nibbles) + 2 < MAX_MSG_SIZE
  BY OutfAssumption DEF Powers
<1> HIDE DEF n
<1>4. n \in 0 .. Word /\ n < Word
  BY <1>1 DEF n
<1>5. uint2String(n) \in Seq(Chars) /\ Len(uint2String(n)) <= Len(Dividers)
  BY <1>4, UnsignedFits
<1>6. CASE item.kind = "u"
  <2>1. String(item) = uint2String(n)
    BY <1>6 DEF String, n
  <2> QED BY <1>1, <1>2, <1>5, <2>1
<1>7. CASE item.kind = "x"
  <2>1. String(item) = <<"0", "x">> \o Spell(n, Nibbles)
    BY <1>7 DEF String, hex2String, n
  <2>2. Powers(Nibbles, 16) /\ 16 \in 2 .. 16
    BY OutfAssumption
  <2>3. n < 16 * Nibbles[1]
    <3>1. Word <= 16 * Nibbles[1] /\ Nibbles[1] \in Nat
      BY <2>2 DEF Powers
    <3> QED BY <1>1, <1>4, <3>1
  <2>4. Spell(n, Nibbles) \in Seq(Chars) /\ Len(Spell(n, Nibbles)) <= Len(Nibbles)
    BY <1>4, <2>2, <2>3, Spelled
  <2>5. <<"0", "x">> \in Seq(Chars) /\ Len(<<"0", "x">>) = 2
    BY DEF Chars
  <2> QED BY <1>1, <1>3, <2>1, <2>4, <2>5
<1>8. CASE item.kind = "d"
  <2>1. String(item) = int2String(n)
    BY <1>8 DEF String, n
  <2>2. CASE n >= Word \div 2
    <3>1. int2String(n) = <<"-">> \o uint2String(Word - n)
      BY <2>2 DEF int2String
    <3>2. Word - n \in 0 .. Word /\ Word - n < Word
      <4>1. Word \div 2 >= 1
        BY <1>1
      <4> QED BY <1>1, <1>4, <2>2, <4>1
    <3>3. /\ uint2String(Word - n) \in Seq(Chars)
          /\ Len(uint2String(Word - n)) <= Len(Dividers)
      BY <3>2, UnsignedFits
    <3>4. <<"-">> \in Seq(Chars) /\ Len(<<"-">>) = 1
      BY DEF Chars
    <3> QED BY <1>1, <1>2, <2>1, <3>1, <3>3, <3>4
  <2>3. CASE ~(n >= Word \div 2)
    <3>1. int2String(n) = uint2String(n)
      BY <2>3 DEF int2String
    <3> QED BY <1>1, <1>2, <1>5, <2>1, <3>1
  <2> QED BY <2>2, <2>3
<1> QED BY <1>6, <1>7, <1>8 DEF Conversions
-----------------------------------------------------------------------------
(***************************************************************************)
(* The buffer                                                              *)
(***************************************************************************)
\* A message with the 0 at its end fits the buffer in which the terminal receives it.
MessagesFit == \A i \in DOMAIN sent : Len(sent[i]) < MAX_MSG_SIZE

\* In the text m, what outf spelled for the i-th item of f ends at the last cell but
\* one of the buffer.
Fills(f, i, m) ==
  /\ f[i].kind \in Conversions
  /\ \A j \in 1 .. Len(String(f[i])) :
       m[(MAX_MSG_SIZE - 1 - Len(String(f[i]))) + j] = String(f[i])[j]

\* Only right behind such a number are there fewer than two cells left while there
\* is more to write, and only one character behind it does the text reach beyond
\* the last cell for its 0.
BehindNumber == cur > 1 /\ Fills(fmt, cur - 1, msg)
BehindCharacter == cur > 2 /\ fmt[cur - 1].kind = "char" /\ Fills(fmt, cur - 2, msg)

CellsLeft ==
  pc = "loop" =>
    /\ Len(msg) = MAX_MSG_SIZE - 1 /\ ~AtEnd(cur) => BehindNumber
    /\ Len(msg) = MAX_MSG_SIZE => AtEnd(cur) /\ BehindCharacter

Overruns ==
  pc = "overrun" =>
    /\ BehindCharacter
    /\ Len(msg) = IF AtEnd(cur) THEN MAX_MSG_SIZE ELSE MAX_MSG_SIZE - 1

OInv == TypeOK /\ MessagesFit /\ Overruns /\ CellsLeft
Items == [kind : {"char"}, char : Chars] \cup [kind : Conversions, arg : 0 .. Word - 1]

LEMMA FormatIs ==
  ASSUME NEW f \in Formats
  PROVE  /\ Len(f) \in Nat
         /\ \A i \in 1 .. Len(f) : \/ f[i].kind = "char" /\ f[i].char \in Chars
                                   \/ f[i].kind \in Conversions /\ f[i].arg \in 0 .. Word - 1
<1>1. f \in Seq(Items)
  BY OutfAssumption DEF Items
<1>2. Len(f) \in Nat /\ \A i \in 1 .. Len(f) : f[i] \in Items
  BY <1>1
<1> QED BY <1>2 DEF Items

LEMMA Sizes ==
  MAX_MSG_SIZE \in Nat \ {0, 1}
<1>1. Len(Dividers) \in Nat /\ Len(Dividers) + 1 < MAX_MSG_SIZE /\ MAX_MSG_SIZE \in Nat
  BY OutfAssumption DEF Powers
<1> QED BY <1>1

\* The next item.
LEMMA ItemRead ==
  ASSUME TypeOK, ~AtEnd(cur), cur' = cur + 1, UNCHANGED fmt
  PROVE  /\ cur \in 1 .. Len(fmt) /\ fmt' \in Formats /\ cur' \in 1 .. Len(fmt') + 1
         /\ cur \in Nat \ {0} /\ cur' - 1 = cur /\ cur' - 2 = cur - 1 /\ cur' > 1
         /\ cur > 1 => cur' > 2
         /\ \/ fmt[cur].kind = "char" /\ fmt[cur].char \in Chars
            \/ fmt[cur].kind \in Conversions /\ fmt[cur].arg \in 0 .. Word - 1
<1>1. fmt \in Formats /\ cur \in 1 .. Len(fmt) + 1
  BY DEF TypeOK
<1>2. Len(fmt) \in Nat
  BY <1>1, FormatIs
<1>3. cur \in 1 .. Len(fmt) /\ cur' \in 1 .. Len(fmt') + 1
  BY <1>1, <1>2 DEF AtEnd
<1>4. /\ cur \in Nat \ {0} /\ cur' - 1 = cur /\ cur' - 2 = cur - 1 /\ cur' > 1
      /\ cur > 1 => cur' > 2
  BY <1>2, <1>3
<1> QED BY <1>1, <1>3, <1>4, FormatIs

\* What follows leaves the number where it is.
LEMMA FillsStays ==
  ASSUME NEW f, NEW i, NEW m \in Seq(Chars), NEW c \in Chars,
         Fills(f, i, m), Len(m) = MAX_MSG_SIZE - 1, Len(String(f[i])) \in 0 .. MAX_MSG_SIZE - 1
  PROVE  Fills(f, i, Append(m, c))
<1> DEFINE n == Len(String(f[i]))
           b == MAX_MSG_SIZE - 1 - n
<1>1. \A j \in 1 .. n : b + j \in 1 .. Len(m)
  <2>1. n \in 0 .. MAX_MSG_SIZE - 1 /\ Len(m) = MAX_MSG_SIZE - 1
    OBVIOUS
  <2> HIDE DEF n
  <2> QED BY <2>1, Sizes
<1>2. \A k \in 1 .. Len(m) : Append(m, c)[k] = m[k]
  OBVIOUS
<1>3. \A j \in 1 .. n : m[b + j] = String(f[i])[j]
  BY DEF Fills
<1>4. \A j \in 1 .. n : Append(m, c)[b + j] = String(f[i])[j]
  <2> HIDE DEF n, b
  <2> QED BY <1>1, <1>2, <1>3
<1> QED BY <1>4 DEF Fills

\* A number that has just been written fills the buffer it ends.
LEMMA FillsNow ==
  ASSUME NEW f, NEW i, NEW m \in Seq(Chars), f[i].kind \in Conversions,
         String(f[i]) \in Seq(Chars), Len(m) + Len(String(f[i])) = MAX_MSG_SIZE - 1
  PROVE  Fills(f, i, m \o String(f[i]))
<1> DEFINE buf == String(f[i])
           n == Len(buf)
           b == MAX_MSG_SIZE - 1 - n
<1>1. buf \in Seq(Chars) /\ n \in Nat /\ Len(m) \in Nat /\ MAX_MSG_SIZE \in Nat /\ Len(m) + n = MAX_MSG_SIZE - 1
  BY Sizes
<1> HIDE DEF buf
<1>2. b = Len(m)
  <2> HIDE DEF n
  <2> QED BY <1>1
<1>3. \A j \in 1 .. n : (m \o buf)[Len(m) + j] = buf[j]
  BY <1>1
<1>4. \A j \in 1 .. n : (m \o buf)[b + j] = buf[j]
  <2> HIDE DEF n, b
  <2> QED BY <1>2, <1>3
<1> QED BY <1>4 DEF Fills, buf

\* The spelling of an item that is a conversion.
LEMMA NumberIs ==
  ASSUME TypeOK, NEW i \in 1 .. Len(fmt), fmt[i].kind \in Conversions
  PROVE  String(fmt[i]) \in Seq(Chars) /\ Len(String(fmt[i])) \in 0 .. MAX_MSG_SIZE - 1
<1>1. fmt[i].arg \in 0 .. Word - 1
  <2>1. "char" \notin Conversions
    BY DEF Conversions
  <2> QED BY <2>1, FormatIs DEF TypeOK
<1>2. /\ String(fmt[i]) \in Seq(Chars) /\ Len(String(fmt[i])) \in Nat
      /\ Len(String(fmt[i])) < MAX_MSG_SIZE
  BY <1>1, StringFits
<1> QED BY <1>2, Sizes

\* What a send leaves of the messages.
LEMMA SendKeeps ==
  ASSUME NEW text \in Seq(Chars), NEW follows, Send(text, follows), MessagesFit,
         Len(text) < MAX_MSG_SIZE, sent \in Seq(Seq(Chars))
  PROVE  sent' \in Seq(Seq(Chars)) /\ MessagesFit'
<1>1. CASE sent' = Append(sent, text)
  <2>1. sent' \in Seq(Seq(Chars)) /\ Len(sent') = Len(sent) + 1 /\ Len(sent) \in Nat
    BY <1>1
  <2>2. \A i \in 1 .. Len(sent) : sent'[i] = sent[i]
    BY <1>1
  <2>3. sent'[Len(sent) + 1] = text
    BY <1>1
  <2>4. \A i \in DOMAIN sent' : i \in 1 .. Len(sent) \/ i = Len(sent) + 1
    BY <2>1
  <2>5. \A i \in 1 .. Len(sent) : Len(sent[i]) < MAX_MSG_SIZE
    BY DEF MessagesFit
  <2> QED BY <2>1, <2>2, <2>3, <2>4, <2>5 DEF MessagesFit
<1>2. CASE sent' = sent
  BY <1>2 DEF MessagesFit
<1> QED BY <1>1, <1>2 DEF Send

LEMMA CharacterKeeps ==
  ASSUME OInv, Character
  PROVE  OInv'
<1> DEFINE text == Append(msg, fmt[cur].char)
           L == Len(msg)
           Most == MAX_MSG_SIZE
<1>1. TypeOK /\ MessagesFit /\ CellsLeft
  BY DEF OInv
<1>2. pc = "loop" /\ ~AtEnd(cur) /\ fmt[cur].kind = "char" /\ cur' = cur + 1 /\ UNCHANGED fmt
  BY DEF Character
<1>3. /\ fmt' \in Formats /\ cur' \in 1 .. Len(fmt') + 1 /\ fmt[cur].char \in Chars
      /\ cur \in 1 .. Len(fmt) /\ cur' - 1 = cur /\ cur' - 2 = cur - 1 /\ (cur > 1 => cur' > 2)
  <2>1. "char" \notin Conversions
    BY DEF Conversions
  <2> QED BY <1>1, <1>2, <2>1, ItemRead
<1>4. msg \in Seq(Chars) /\ L \in Nat /\ L <= Most /\ sent \in Seq(Seq(Chars))
  BY <1>1 DEF TypeOK
<1>5. text \in Seq(Chars) /\ Len(text) = L + 1 /\ Len(text) \in Nat
  BY <1>3, <1>4
<1>6. L <= Most - 1 /\ (L = Most - 1 => BehindNumber)
  BY <1>1, <1>2, <1>4, Sizes DEF CellsLeft
<1>6a. /\ L = Most - 1 => cur' > 2 /\ fmt'[cur' - 1].kind = "char" /\ Fills(fmt', cur' - 2, msg)
       /\ L = Most - 1 => Fills(fmt', cur' - 2, text)
  <2> SUFFICES ASSUME L = Most - 1
               PROVE  /\ cur' > 2 /\ fmt'[cur' - 1].kind = "char"
                      /\ Fills(fmt', cur' - 2, msg) /\ Fills(fmt', cur' - 2, text)
    OBVIOUS
  <2>1. cur > 1 /\ Fills(fmt, cur - 1, msg)
    BY <1>6 DEF BehindNumber
  <2>2. cur - 1 \in 1 .. Len(fmt)
    BY <1>1, <1>3, <2>1, FormatIs DEF TypeOK
  <2>3. fmt[cur - 1].kind \in Conversions
    BY <2>1 DEF Fills
  <2>4. Len(String(fmt[cur - 1])) \in 0 .. Most - 1
    BY <1>1, <2>2, <2>3, NumberIs
  <2>5. Fills(fmt, cur - 1, text)
    BY <1>3, <1>4, <2>1, <2>4, FillsStays
  <2> HIDE DEF text
  <2> QED BY <1>2, <1>3, <2>1, <2>5
<1>7. AtEnd(cur)' <=> AtEnd(cur + 1)
  BY <1>2 DEF AtEnd
<1> HIDE DEF text, L
<1>8. CASE Full(Len(text)) /\ ~AtEnd(cur + 1) /\ Len(text) >= Most
  <2>1. pc' = "overrun" /\ sent' = sent /\ msg' = msg
    BY <1>8 DEF Character, Overrun, text
  <2>2. L = Most - 1 /\ ~AtEnd(cur)'
    BY <1>4, <1>5, <1>6, <1>7, <1>8, Sizes
  <2>3. TypeOK'
    BY <1>3, <1>4, <2>1 DEF TypeOK, L
  <2>4. MessagesFit'
    BY <1>1, <2>1 DEF MessagesFit
  <2>5. Overruns'
    <3>1. BehindCharacter'
      BY <1>6a, <2>1, <2>2 DEF BehindCharacter
    <3> QED BY <2>1, <2>2, <3>1 DEF Overruns, L
  <2>6. CellsLeft'
    BY <2>1 DEF CellsLeft
  <2> QED BY <2>3, <2>4, <2>5, <2>6 DEF OInv
<1>9. CASE Full(Len(text)) /\ ~AtEnd(cur + 1) /\ ~(Len(text) >= Most)
  <2>1. Send(text, <<>>)
    BY <1>9 DEF Character, text
  <2>2. sent' \in Seq(Seq(Chars)) /\ MessagesFit'
    BY <1>1, <1>4, <1>5, <1>9, <2>1, Sizes, SendKeeps
  <2>3. \/ msg' = <<>> /\ pc' = pc
        \/ msg' = msg /\ pc' = "failed"
    BY <2>1 DEF Send
  <2>4. Len(<<>>) = 0 /\ <<>> \in Seq(Chars)
    OBVIOUS
  <2>5. TypeOK'
    <3>1. 0 <= Most
      BY Sizes
    <3>2. msg' \in Seq(Chars) /\ Len(msg') <= Most
      BY <1>4, <2>3, <2>4, <3>1 DEF L
    <3>3. pc' \in {"loop", "done", "failed", "overrun"}
      BY <1>2, <2>3
    <3> QED BY <1>3, <2>2, <3>2, <3>3 DEF TypeOK
  <2>6. CellsLeft'
    BY <1>2, <2>3, <2>4, Sizes DEF CellsLeft
  <2>7. Overruns'
    BY <1>2, <2>3 DEF Overruns
  <2> QED BY <2>2, <2>5, <2>6, <2>7 DEF OInv
<1>10. CASE ~(Full(Len(text)) /\ ~AtEnd(cur + 1))
  <2>1. msg' = text /\ sent' = sent /\ pc' = pc
    BY <1>10 DEF Character, text
  <2>2. AtEnd(cur)' \/ L + 1 < Most - 1
    BY <1>4, <1>5, <1>7, <1>10, Sizes DEF Full
  <2>3. TypeOK'
    <3>1. Len(text) <= Most
      BY <1>4, <1>5, <1>6, Sizes
    <3> QED BY <1>2, <1>3, <1>4, <1>5, <2>1, <3>1 DEF TypeOK
  <2>4. MessagesFit'
    BY <1>1, <2>1 DEF MessagesFit
  <2>5. Overruns'
    BY <1>2, <2>1 DEF Overruns
  <2>6. CellsLeft'
    <3>1. Len(msg') = L + 1
      BY <1>5, <2>1
    <3>2. Len(msg') = Most => L = Most - 1 /\ AtEnd(cur)'
      BY <1>4, <1>6, <2>2, <3>1, Sizes
    <3>2a. L = Most - 1 => BehindCharacter'
      BY <1>6a, <2>1 DEF BehindCharacter
    <3>3. ~(Len(msg') = Most - 1 /\ ~AtEnd(cur)')
      BY <1>4, <2>2, <3>1, Sizes
    <3> QED BY <3>2, <3>2a, <3>3 DEF CellsLeft
  <2> QED BY <2>3, <2>4, <2>5, <2>6 DEF OInv
<1> QED BY <1>8, <1>9, <1>10

LEMMA NumberKeeps ==
  ASSUME OInv, Number
  PROVE  OInv'
<1> DEFINE buf == String(fmt[cur])
           L == Len(msg)
           Most == MAX_MSG_SIZE
<1>1. TypeOK /\ MessagesFit /\ CellsLeft
  BY DEF OInv
<1>2. pc = "loop" /\ ~AtEnd(cur) /\ fmt[cur].kind \in Conversions /\ cur' = cur + 1 /\ UNCHANGED fmt
  BY DEF Number
<1>3. fmt' \in Formats /\ cur' \in 1 .. Len(fmt') + 1 /\ fmt[cur].arg \in 0 .. Word - 1
      /\ cur' - 1 = cur /\ cur' > 1
  <2>1. "char" \notin Conversions
    BY DEF Conversions
  <2> QED BY <1>1, <1>2, <2>1, ItemRead
<1>4. buf \in Seq(Chars) /\ Len(buf) \in Nat /\ Len(buf) < Most
  BY <1>2, <1>3, StringFits
<1>5. msg \in Seq(Chars) /\ L \in Nat /\ L <= Most /\ sent \in Seq(Seq(Chars))
  BY <1>1 DEF TypeOK
<1>6. L < Most
  BY <1>1, <1>2, <1>5, Sizes DEF CellsLeft
<1> HIDE DEF buf, L
<1>7. /\ sent' \in Seq(Seq(Chars)) /\ MessagesFit'
      /\ msg' \in Seq(Chars) /\ Len(msg') \in Nat
      /\ \/ /\ pc' = "loop" /\ Len(msg') < Most
            /\ Len(msg') = Most - 1 => Fills(fmt, cur, msg')
         \/ pc' = "failed" /\ Len(msg') <= Most
  <2>1. CASE NoRoom(Len(buf), Len(msg))
    <3>1. Send(msg, buf)
      BY <2>1 DEF Number, buf
    <3>2. sent' \in Seq(Seq(Chars)) /\ MessagesFit'
      BY <1>1, <1>5, <1>6, <3>1, SendKeeps DEF L
    <3>3. \/ msg' = buf /\ pc' = pc
          \/ msg' = msg /\ pc' = "failed"
      BY <3>1 DEF Send
    <3>4. Len(buf) = Most - 1 => Fills(fmt, cur, buf)
      <4>1. <<>> \in Seq(Chars) /\ Len(<<>>) = 0 /\ <<>> \o buf = buf
        BY <1>4
      <4>2. Len(<<>>) + Len(buf) = Len(buf)
        BY <1>4, <4>1
      <4> QED BY <1>2, <1>4, <4>1, <4>2, FillsNow DEF buf
    <3> QED BY <1>2, <1>4, <1>5, <3>2, <3>3, <3>4 DEF L
  <2>2. CASE ~NoRoom(Len(buf), Len(msg))
    <3>1. msg' = msg \o buf /\ sent' = sent /\ pc' = pc
      BY <2>2 DEF Number, buf
    <3>2. msg \o buf \in Seq(Chars) /\ Len(msg \o buf) = L + Len(buf)
      BY <1>4, <1>5 DEF L
    <3>3. L + Len(buf) < Most
      <4>1. ~(Len(buf) >= Most - L)
        BY <2>2 DEF NoRoom, L
      <4> QED BY <1>4, <1>5, <1>6, <4>1, Sizes
    <3>4. MessagesFit'
      BY <1>1, <3>1 DEF MessagesFit
    <3>5. Len(msg') = Most - 1 => Fills(fmt, cur, msg')
      BY <1>2, <1>4, <1>5, <3>1, <3>2, FillsNow DEF buf, L
    <3> QED BY <1>2, <1>4, <1>5, <3>1, <3>2, <3>3, <3>4, <3>5
  <2> QED BY <2>1, <2>2
<1>8. TypeOK'
  <2>1. Len(msg') <= Most
    BY <1>7, Sizes
  <2> QED BY <1>3, <1>7, <2>1 DEF TypeOK
<1>9. Overruns'
  BY <1>7 DEF Overruns
<1>10. CellsLeft'
  <2>1. pc' = "loop" => Len(msg') # Most
    BY <1>7, Sizes
  <2>2. pc' = "loop" /\ Len(msg') = Most - 1 => BehindNumber'
    BY <1>2, <1>3, <1>7 DEF BehindNumber
  <2> QED BY <2>1, <2>2 DEF CellsLeft
<1> QED BY <1>7, <1>8, <1>9, <1>10 DEF OInv

LEMMA EndKeeps ==
  ASSUME OInv, End
  PROVE  OInv'
<1>1. TypeOK /\ MessagesFit /\ CellsLeft
  BY DEF OInv
<1>2. pc = "loop" /\ fmt' = fmt /\ cur' = cur
  BY DEF End
<1>3. msg \in Seq(Chars) /\ Len(msg) \in Nat /\ Len(msg) <= MAX_MSG_SIZE /\ sent \in Seq(Seq(Chars))
  BY <1>1 DEF TypeOK
<1>4. CASE Len(msg) >= MAX_MSG_SIZE
  <2>1. pc' = "overrun" /\ sent' = sent /\ msg' = msg
    BY <1>4 DEF End, Overrun
  <2>2. Len(msg) = MAX_MSG_SIZE /\ AtEnd(cur) /\ BehindCharacter
    BY <1>1, <1>2, <1>3, <1>4, Sizes DEF CellsLeft
  <2>3. Overruns'
    BY <1>2, <2>1, <2>2 DEF Overruns, BehindCharacter, AtEnd
  <2>4. TypeOK' /\ MessagesFit' /\ CellsLeft'
    BY <1>1, <1>2, <2>1 DEF TypeOK, MessagesFit, CellsLeft
  <2> QED BY <2>3, <2>4 DEF OInv
<1>5. CASE ~(Len(msg) >= MAX_MSG_SIZE)
  <2>1. \/ sent' = Append(sent, msg) /\ msg' = <<>> /\ pc' = "done"
        \/ pc' = "failed" /\ UNCHANGED <<sent, msg>>
    BY <1>5 DEF End
  <2>2. sent' \in Seq(Seq(Chars)) /\ MessagesFit'
    <3>1. CASE sent' = sent
      BY <1>1, <1>3, <3>1 DEF MessagesFit
    <3>2. CASE sent' = Append(sent, msg)
      <4>1. Len(msg) < MAX_MSG_SIZE
        BY <1>3, <1>5, Sizes
      <4>2. sent' \in Seq(Seq(Chars)) /\ Len(sent') = Len(sent) + 1 /\ Len(sent) \in Nat
        BY <1>3, <3>2
      <4>3. \A i \in 1 .. Len(sent) : sent'[i] = sent[i] /\ Len(sent[i]) < MAX_MSG_SIZE
        BY <1>1, <1>3, <3>2 DEF MessagesFit
      <4>4. sent'[Len(sent) + 1] = msg
        BY <1>3, <3>2
      <4>5. \A i \in DOMAIN sent' : i \in 1 .. Len(sent) \/ i = Len(sent) + 1
        BY <4>2
      <4> QED BY <4>1, <4>2, <4>3, <4>4, <4>5 DEF MessagesFit
    <3> QED BY <2>1, <3>1, <3>2
  <2>3. msg' \in Seq(Chars) /\ Len(msg') <= MAX_MSG_SIZE
    <3>1. Len(<<>>) = 0 /\ <<>> \in Seq(Chars) /\ 0 <= MAX_MSG_SIZE
      BY Sizes
    <3> QED BY <1>3, <2>1, <3>1
  <2>4. TypeOK'
    BY <1>1, <1>2, <2>1, <2>2, <2>3 DEF TypeOK
  <2>5. Overruns' /\ CellsLeft'
    BY <2>1 DEF Overruns, CellsLeft
  <2> QED BY <2>2, <2>4, <2>5 DEF OInv
<1> QED BY <1>4, <1>5
-----------------------------------------------------------------------------
\* The invariant holds in every state: OInv.
THEOREM OutfInvariance == Spec => []OInv
<1>1. Init => OInv
  <2> SUFFICES ASSUME Init PROVE OInv
    OBVIOUS
  <2>1. Len(fmt) \in Nat /\ fmt \in Formats
    BY FormatIs DEF Init
  <2>2. Len(<<>>) = 0 /\ <<>> \in Seq(Chars) /\ <<>> \in Seq(Seq(Chars)) /\ DOMAIN <<>> = {}
    OBVIOUS
  <2>3. TypeOK
    BY <2>1, <2>2, Sizes DEF Init, TypeOK
  <2>4. MessagesFit /\ Overruns
    BY <2>2 DEF Init, MessagesFit, Overruns
  <2>5. CellsLeft
    BY <2>2, Sizes DEF Init, CellsLeft
  <2> QED BY <2>3, <2>4, <2>5 DEF OInv
<1>2. OInv /\ [Next]_vars => OInv'
  <2> SUFFICES ASSUME OInv, [Next]_vars PROVE OInv'
    OBVIOUS
  <2>1. CASE Next
    BY <2>1, CharacterKeeps, NumberKeeps, EndKeeps DEF Next
  <2>2. CASE UNCHANGED vars
    BY <2>2 DEF vars, OInv, TypeOK, MessagesFit, Overruns, CellsLeft,
                BehindNumber, BehindCharacter, AtEnd
  <2> QED BY <2>1, <2>2
<1> QED BY <1>1, <1>2, PTL DEF Spec

\* What outf keeps has its types, and no byte is kept behind the buffer: TypeOK.
THEOREM OutfTypeCorrect == Spec => []TypeOK
<1>1. OInv => TypeOK
  BY DEF OInv
<1> QED BY <1>1, OutfInvariance, PTL

\* The terminal can show every message of outf whole, but for the last character of
\* one that fills the buffer: OnlyTheLastIsCut.
THEOREM OneCharacterIsCut == Spec => []OnlyTheLastIsCut
<1>1. OInv => OnlyTheLastIsCut
  <2> SUFFICES ASSUME OInv, NEW i \in DOMAIN sent, Shown(sent[i]) # sent[i]
               PROVE  Len(sent[i]) = MAX_MSG_SIZE - 1 /\ Shown(sent[i]) = Front(sent[i])
    BY DEF OnlyTheLastIsCut
  <2> DEFINE text == sent[i]
  <2>1. text \in Seq(Chars) /\ Len(text) \in Nat /\ Len(text) < MAX_MSG_SIZE
    <3>1. sent \in Seq(Seq(Chars)) /\ MessagesFit
      BY DEF OInv, TypeOK
    <3>2. text \in Seq(Chars) /\ Len(text) < MAX_MSG_SIZE
      BY <3>1 DEF MessagesFit
    <3> HIDE DEF text
    <3> QED BY <3>2
  <2>2. ~(Len(text) + 1 < MAX_MSG_SIZE) /\ Shown(text) = SubSeq(text, 1, MAX_MSG_SIZE - 2)
    BY DEF Shown
  <2> HIDE DEF text
  <2>3. Len(text) = MAX_MSG_SIZE - 1 /\ MAX_MSG_SIZE - 2 = Len(text) - 1
    BY <2>1, <2>2, Sizes
  <2>4. Shown(text) = Front(text)
    BY <2>2, <2>3 DEF Front
  <2> QED BY <2>3, <2>4 DEF text
<1> QED BY <1>1, OutfInvariance, PTL
-----------------------------------------------------------------------------
(***************************************************************************)
(* What is sent is what was meant.  A number first: the digits that Spell  *)
(* finds one divider after the other are those of Numeral.                 *)
(***************************************************************************)
\* What the recursive function of Power is.
PowersUpTo(f, base, i) == f = [j \in 0 .. i |-> IF j = 0 THEN 1 ELSE base * f[j - 1]]

LEMMA PowerIs ==
  ASSUME NEW base \in Nat \ {0}
  PROVE  /\ Power(base, 0) = 1
         /\ \A i \in Nat : Power(base, i) \in Nat \ {0} /\ Power(base, i + 1) = base * Power(base, i)
<1> DEFINE S == Nat \ {0}
           D == [n \in Nat |-> [x \in S |-> base * x]]
           p(i) == CHOOSE f : PowersUpTo(f, base, i)
<1>1. ASSUME NEW i \in Nat PROVE p(i) \in [0 .. i -> S] /\ Iterates(p(i), i, 1, D)
  <2>1. D \in [Nat -> [S -> S]] /\ 1 \in S
    <3>1. \A x \in S : base * x \in S
      OBVIOUS
    <3> HIDE DEF S
    <3>2. 1 \in S
      BY DEF S
    <3> QED BY <3>1, <3>2
  <2>2. PICK f \in [0 .. i -> S] : Iterates(f, i, 1, D)
    <3> HIDE DEF S, D
    <3> QED BY <2>1, IteratesExist
  <2>3. PowersUpTo(f, base, i)
    <3>1. f = [j \in 0 .. i |-> IF j = 0 THEN 1 ELSE D[j][f[j - 1]]]
      BY <2>2 DEF Iterates
    <3>2. \A j \in 0 .. i : j # 0 => D[j][f[j - 1]] = base * f[j - 1]
      <4> SUFFICES ASSUME NEW j \in 0 .. i, j # 0 PROVE D[j][f[j - 1]] = base * f[j - 1]
        OBVIOUS
      <4>1. j \in Nat /\ j - 1 \in 0 .. i
        OBVIOUS
      <4>2. f[j - 1] \in S
        BY <2>2, <4>1
      <4> HIDE DEF S
      <4> QED BY <4>1, <4>2
    <3> HIDE DEF D
    <3>3. f = [j \in 0 .. i |-> IF j = 0 THEN 1 ELSE base * f[j - 1]]
      BY <3>1, <3>2
    <3> QED BY <3>3 DEF PowersUpTo
  <2>4. PowersUpTo(p(i), base, i)
    BY <2>3
  <2> DEFINE g == p(i)
  <2>5. PowersUpTo(g, base, i)
    BY <2>4
  <2> HIDE DEF g
  <2>6. \A j \in 0 .. i : g[j] = f[j]
    <3> DEFINE Q == {j \in Nat : j <= i => g[j] = f[j]}
    <3>1. 0 \in Q
      BY <2>3, <2>5 DEF PowersUpTo
    <3>2. \A j \in Q : j + 1 \in Q
      <4> SUFFICES ASSUME NEW j \in Q, j + 1 <= i PROVE g[j + 1] = f[j + 1]
        OBVIOUS
      <4>1. j \in Nat /\ g[j] = f[j]
        OBVIOUS
      <4>2. j + 1 \in 0 .. i /\ j + 1 # 0 /\ (j + 1) - 1 = j
        BY <4>1
      <4>3. g[j + 1] = base * g[j] /\ f[j + 1] = base * f[j]
        BY <2>3, <2>5, <4>2 DEF PowersUpTo
      <4> QED BY <4>1, <4>3
    <3>3. Q = Nat
      <4> HIDE DEF Q
      <4>1. Q \in SUBSET Nat
        BY DEF Q
      <4> QED BY <3>1, <3>2, <4>1, SetInduction
    <3> QED BY <3>3
  <2>7. g = f
    <3>1. g = [j \in 0 .. i |-> g[j]] /\ f = [j \in 0 .. i |-> f[j]]
      BY <2>3, <2>5 DEF PowersUpTo
    <3> QED BY <2>6, <3>1
  <2> QED BY <2>2, <2>7 DEF g
<1>2. \A i \in Nat : Power(base, i) = p(i)[i]
  BY DEF Power, PowersUpTo
<1> HIDE DEF p
<1>3. Power(base, 0) = 1
  <2>1. Iterates(p(0), 0, 1, D)
    BY <1>1
  <2>2. p(0)[0] = 1
    BY <2>1 DEF Iterates
  <2> QED BY <1>2, <2>2
<1>4. ASSUME NEW i \in Nat
      PROVE  Power(base, i) \in Nat \ {0} /\ Power(base, i + 1) = base * Power(base, i)
  <2> DEFINE m == i + 1
  <2>1. m \in Nat /\ i \in 0 .. i /\ m \in 0 .. m /\ m # 0 /\ m - 1 = i /\ i \in 0 .. m /\ i <= m
    OBVIOUS
  <2> HIDE DEF m
  <2>2. p(i)[i] \in S
    BY <1>1, <2>1
  <2>3. p(m)[i] = p(i)[i]
    <3>1. Iterates(p(i), i, 1, D) /\ Iterates(p(m), m, 1, D)
      BY <1>1, <2>1
    <3> HIDE DEF D
    <3>2. \A j \in 0 .. i : j <= m => p(i)[j] = p(m)[j]
      BY <2>1, <3>1, IteratesAgree
    <3> QED BY <2>1, <3>2
  <2>4. p(m)[m] = D[m][p(m)[i]]
    <3>1. Iterates(p(m), m, 1, D)
      BY <1>1, <2>1
    <3> HIDE DEF D
    <3> QED BY <2>1, <3>1 DEF Iterates
  <2>5. D[m][p(m)[i]] = base * p(m)[i]
    <3>1. p(m)[i] \in S
      BY <2>2, <2>3
    <3> HIDE DEF S
    <3> QED BY <2>1, <3>1
  <2>6. Power(base, i) = p(i)[i] /\ Power(base, m) = p(m)[m]
    BY <1>2, <2>1
  <2>7. Power(base, m) = base * Power(base, i)
    BY <2>3, <2>4, <2>5, <2>6
  <2> QED BY <2>2, <2>6, <2>7 DEF m
<1> QED BY <1>3, <1>4

\* Powers grow, faster than their exponents.
LEMMA PowerGrows ==
  ASSUME NEW base \in Nat \ {0, 1}
  PROVE  /\ \A i \in Nat : i < Power(base, i)
         /\ \A i, j \in Nat : i <= j => Power(base, i) <= Power(base, j)
<1>0. base \in Nat \ {0}
  OBVIOUS
<1>1. Power(base, 0) = 1
  BY <1>0, PowerIs
<1>2. ASSUME NEW i \in Nat
      PROVE  /\ Power(base, i) \in Nat \ {0} /\ Power(base, i + 1) \in Nat
             /\ Power(base, i) < Power(base, i + 1)
  <2> DEFINE x == Power(base, i)
  <2>1. x \in Nat \ {0} /\ Power(base, i + 1) = base * x
    BY <1>0, PowerIs
  <2> HIDE DEF x
  <2>2. base * x \in Nat
    BY <2>1, ProductIsNat
  <2>3. x * 2 <= x * base /\ x * base = base * x
    BY <2>1, ProductGrows
  <2>4. x < base * x
    BY <2>1, <2>2, <2>3
  <2> QED BY <2>1, <2>2, <2>4 DEF x
<1>3. \A i \in Nat : i < Power(base, i)
  <2> DEFINE Q == {i \in Nat : i < Power(base, i)}
  <2>1. 0 \in Q
    BY <1>1
  <2>2. \A i \in Q : i + 1 \in Q
    <3> TAKE i \in Q
    <3>1. i \in Nat /\ i < Power(base, i)
      OBVIOUS
    <3>2. Power(base, i) \in Nat /\ Power(base, i + 1) \in Nat /\ Power(base, i) < Power(base, i + 1)
      BY <1>2, <3>1
    <3>3. i + 1 < Power(base, i + 1)
      BY <3>1, <3>2
    <3> QED BY <3>1, <3>3
  <2>3. Q = Nat
    <3> HIDE DEF Q
    <3>1. Q \in SUBSET Nat
      BY DEF Q
    <3> QED BY <2>1, <2>2, <3>1, SetInduction
  <2> QED BY <2>3
<1>4. ASSUME NEW i \in Nat, NEW j \in Nat, i <= j PROVE Power(base, i) <= Power(base, j)
  <2> DEFINE Q == {k \in Nat : Power(base, i) <= Power(base, i + k)}
  <2>1. 0 \in Q
    <3>1. i + 0 = i
      OBVIOUS
    <3>2. Power(base, i) \in Nat
      BY <1>2
    <3> QED BY <3>1, <3>2
  <2>2. \A k \in Q : k + 1 \in Q
    <3> TAKE k \in Q
    <3>1. k \in Nat /\ i + k \in Nat /\ i + (k + 1) = (i + k) + 1 /\ Power(base, i) <= Power(base, i + k)
      OBVIOUS
    <3>2. Power(base, i + k) \in Nat /\ Power(base, (i + k) + 1) \in Nat
          /\ Power(base, i + k) < Power(base, (i + k) + 1) /\ Power(base, i) \in Nat
      BY <1>2, <3>1
    <3>3. Power(base, i) <= Power(base, i + (k + 1))
      BY <3>1, <3>2
    <3> QED BY <3>1, <3>3
  <2>3. Q = Nat
    <3> HIDE DEF Q
    <3>1. Q \in SUBSET Nat
      BY DEF Q
    <3> QED BY <2>1, <2>2, <3>1, SetInduction
  <2>4. j - i \in Nat /\ i + (j - i) = j
    BY <1>4
  <2>5. Power(base, i) <= Power(base, i + (j - i))
    BY <2>3, <2>4
  <2> QED BY <2>4, <2>5
<1> QED BY <1>3, <1>4

\* The dividers are the powers below their number.
LEMMA DividersArePowers ==
  ASSUME NEW dividers, NEW base \in 2 .. 16, Powers(dividers, base)
  PROVE  \A i \in 1 .. Len(dividers) : dividers[i] = Power(base, Len(dividers) - i)
<1> DEFINE L == Len(dividers)
           Q == {k \in Nat : k < L => dividers[L - k] = Power(base, k)}
<1>1. L \in Nat \ {0} /\ base \in Nat \ {0}
  BY DEF Powers
<1>2. 0 \in Q
  <2>1. Power(base, 0) = 1 /\ dividers[L] = 1 /\ L - 0 = L
    BY <1>1, PowerIs DEF Powers
  <2> QED BY <2>1
<1>3. \A k \in Q : k + 1 \in Q
  <2> SUFFICES ASSUME NEW k \in Q, k + 1 < L
               PROVE  dividers[L - (k + 1)] = Power(base, k + 1)
    OBVIOUS
  <2>0. k \in Nat /\ dividers[L - k] = Power(base, k)
    BY <1>1
  <2> DEFINE i == L - (k + 1)
  <2>1. i \in 1 .. L - 1 /\ i + 1 = L - k
    BY <1>1, <2>0
  <2>2. dividers[i] = base * dividers[i + 1]
    BY <2>1 DEF Powers
  <2>3. Power(base, k + 1) = base * Power(base, k)
    BY <1>1, <2>0, PowerIs
  <2> HIDE DEF i
  <2>4. dividers[i] = Power(base, k + 1)
    BY <2>0, <2>1, <2>2, <2>3
  <2> QED BY <2>4 DEF i
<1>4. Q = Nat
  <2> HIDE DEF Q
  <2>1. Q \in SUBSET Nat
    BY DEF Q
  <2> QED BY <1>2, <1>3, <2>1, SetInduction
<1>5. ASSUME NEW i \in 1 .. L PROVE dividers[i] = Power(base, L - i)
  <2>1. L - i \in Nat /\ L - i < L /\ L - (L - i) = i
    BY <1>1
  <2>2. L - i \in Q
    BY <1>4, <2>1
  <2> QED BY <2>1, <2>2
<1> QED BY <1>5

\* The number of digits of a number, which is the length of its spelling.
LEMMA LengthIs ==
  ASSUME NEW base \in 2 .. 16, NEW n \in 0 .. Word - 1
  PROVE  LET k == Length(n, base)
         IN k \in Nat \ {0} /\ n < Power(base, k) /\ (k > 1 => n >= Power(base, k - 1))
<1> DEFINE T == {k \in Nat \ {0} : n < Power(base, k)}
           Is(k) == n < Power(base, k) /\ (k > 1 => n >= Power(base, k - 1))
<1>1. Word \in Nat /\ n \in Nat /\ n < Word /\ base \in Nat \ {0, 1} /\ base \in Nat \ {0}
  BY OutfAssumption
<1>2. n + 1 \in T
  <2>1. n + 1 \in Nat \ {0} /\ n + 1 < Power(base, n + 1) /\ Power(base, n + 1) \in Nat
    BY <1>1, PowerGrows, PowerIs
  <2>2. n < Power(base, n + 1)
    BY <1>1, <2>1
  <2> QED BY <2>1, <2>2
<1>3. PICK k \in T : \A j \in T : k <= j
  <2> HIDE DEF T
  <2>1. T \in SUBSET Nat
    BY DEF T
  <2> QED BY <1>2, <2>1, LeastElement
<1>4. k \in 1 .. Word
  <2>1. k <= n + 1 /\ k \in Nat \ {0}
    BY <1>2, <1>3
  <2> QED BY <1>1, <2>1
<1>5. k > 1 => n >= Power(base, k - 1)
  <2> SUFFICES ASSUME k > 1 PROVE n >= Power(base, k - 1)
    OBVIOUS
  <2>1. k - 1 \in Nat \ {0} /\ ~(k <= k - 1)
    BY <1>4
  <2>2. k - 1 \notin T
    BY <1>3, <2>1
  <2>3. ~(n < Power(base, k - 1)) /\ Power(base, k - 1) \in Nat
    BY <1>1, <2>1, <2>2, PowerIs
  <2> QED BY <1>1, <2>3
<1>6. \E j \in 1 .. Word : Is(j)
  BY <1>3, <1>4, <1>5
<1>7. Length(n, base) = CHOOSE j \in 1 .. Word : Is(j)
  BY DEF Length
<1> HIDE DEF Is
<1>8. Length(n, base) \in 1 .. Word /\ Is(Length(n, base))
  BY <1>6, <1>7
<1>9. Length(n, base) \in Nat \ {0}
  BY <1>1, <1>8
<1> QED BY <1>8, <1>9 DEF Is

\* What is left of the number before divider i + 1, and what is written by then:
\* the digits of the dividers from the one that belongs to the first digit on.
LEMMA SpellsNumeral ==
  ASSUME NEW dividers, NEW base \in 2 .. 16, Powers(dividers, base), NEW n \in 0 .. Word - 1
  PROVE  Spell(n, dividers) = Numeral(n, base)
<1> DEFINE L == Len(dividers)
           k == Length(n, base)
           step == CHOOSE step : Steps(step, n, dividers)
           dig(j) == Digit[((n \div Power(base, k - j)) % base) + 1]
<1>1. /\ dividers \in Seq(Nat \ {0}) /\ L \in Nat \ {0} /\ n \in Nat /\ n < Word /\ Word \in Nat
      /\ base \in Nat \ {0} /\ base \in Nat \ {0, 1} /\ base \in Nat /\ base >= 2
      /\ \A i \in 1 .. L : dividers[i] \in Nat \ {0}
  <2>1. dividers \in Seq(Nat \ {0}) /\ dividers # <<>>
    BY DEF Powers
  <2>2. Word \in Nat
    BY OutfAssumption
  <2>3. n \in Nat /\ n < Word
    BY <2>2
  <2> QED BY <2>1, <2>2, <2>3
<1>2. Steps(step, n, dividers) /\ Spell(n, dividers) = step[L].text
  BY <1>1, StepsExist
<1>3. k \in Nat \ {0} /\ n < Power(base, k) /\ (k > 1 => n >= Power(base, k - 1))
  BY LengthIs
<1>4. Numeral(n, base) = [j \in 1 .. k |-> dig(j)]
  BY DEF Numeral
<1> HIDE DEF step, k
<1>5. \A i \in Nat : Power(base, i) \in Nat \ {0} /\ Power(base, i + 1) = base * Power(base, i)
  BY <1>1, PowerIs
<1>6. n < Power(base, L)
  <2>1. Word <= base * dividers[1]
    BY DEF Powers
  <2>2. dividers[1] = Power(base, L - 1) /\ L - 1 \in Nat /\ (L - 1) + 1 = L
    BY <1>1, DividersArePowers
  <2>3. Power(base, L) = base * dividers[1] /\ Power(base, L) \in Nat
    BY <1>1, <1>5, <2>2
  <2> QED BY <1>1, <2>1, <2>3
<1>7. k <= L
  <2> SUFFICES ASSUME k > L PROVE FALSE
    BY <1>1, <1>3
  <2>1. k > 1 /\ k - 1 \in Nat /\ L <= k - 1
    BY <1>1, <1>3
  <2>2. n >= Power(base, k - 1) /\ Power(base, L) <= Power(base, k - 1)
    BY <1>1, <1>3, <2>1, PowerGrows
  <2>3. Power(base, L) \in Nat /\ Power(base, k - 1) \in Nat
    BY <1>1, <1>5, <2>1
  <2> QED BY <1>1, <1>6, <2>2, <2>3
<1> DEFINE Written(i) == IF i <= L - k THEN 0 ELSE i - (L - k)
           Q(i) == /\ step[i].rest = n % Power(base, L - i)
                   /\ step[i].text \in Seq(Chars) /\ Len(step[i].text) = Written(i)
                   /\ \A j \in 1 .. Written(i) : step[i].text[j] = dig(j)
           S == {i \in Nat : i <= L => Q(i)}
<1>8. 0 \in S
  <2>1. step[0] = [rest |-> n, text |-> <<>>]
    BY <1>1, <1>2 DEF Steps
  <2>2. Written(0) = 0
    BY <1>1, <1>3, <1>7
  <2>3. n % Power(base, L - 0) = n
    <3>1. L - 0 = L /\ Power(base, L) \in Nat \ {0}
      BY <1>1, <1>5
    <3> DEFINE x == Power(base, L)
    <3>2. x \in Nat \ {0} /\ n < x
      BY <1>6, <3>1
    <3> HIDE DEF x
    <3>3. n % x = n
      BY <1>1, <3>2
    <3> QED BY <3>1, <3>3 DEF x
  <2>4. <<>> \in Seq(Chars) /\ Len(<<>>) = 0 /\ 1 .. 0 = {}
    OBVIOUS
  <2>5. Q(0)
    <3> HIDE DEF dig, Written
    <3> QED BY <2>1, <2>2, <2>3, <2>4
  <2> QED BY <2>5
<1>9. \A i \in S : i + 1 \in S
  <2> SUFFICES ASSUME NEW i \in Nat, i <= L => Q(i), i + 1 <= L PROVE Q(i + 1)
    <3> HIDE DEF Q
    <3> QED OBVIOUS
  <2> DEFINE m == i + 1
             s == step[i]
             d == dividers[m]
             val == s.rest \div d
  <2>0. L \in Nat
    BY <1>1
  <2>1. i <= L /\ m \in 0 .. L /\ m # 0 /\ m - 1 = i /\ m \in 1 .. L /\ m \in Nat
        /\ L - m \in Nat /\ L - i = (L - m) + 1
    <3> HIDE DEF L, Q
    <3> QED BY <2>0
  <2>2. /\ s.rest = n % Power(base, L - i)
        /\ s.text \in Seq(Chars) /\ Len(s.text) = Written(i)
        /\ \A j \in 1 .. Written(i) : s.text[j] = dig(j)
    BY <2>1
  <2>3. d = Power(base, L - m) /\ d \in Nat \ {0} /\ Power(base, L - i) = base * d
    <3>1. d = Power(base, L - m)
      BY <2>1, DividersArePowers
    <3>2. Power(base, (L - m) + 1) = base * Power(base, L - m) /\ Power(base, L - m) \in Nat \ {0}
      BY <1>5, <2>1
    <3> QED BY <2>1, <3>1, <3>2
  <2>4. step[m] = [rest |-> s.rest - val * d,
                   text |-> IF val = 0 /\ s.text = <<>> /\ MaySkip(d) THEN <<>>
                            ELSE Append(s.text, Digit[val + 1])]
    BY <1>2, <2>1 DEF Steps
  <2> HIDE DEF m, s, d, Q, Written
  <2>5. val = (n \div d) % base /\ s.rest - val * d = n % d
    <3> DEFINE r == s.rest
    <3>1. r = n % (base * d)
      BY <2>2, <2>3
    <3> HIDE DEF r
    <3>2. base * d \in Nat \ {0}
      BY <1>1, <2>3
    <3>3. r \in Nat
      <4> DEFINE x == base * d
      <4>1. x \in Nat \ {0} /\ r = n % x
        BY <3>1, <3>2
      <4> HIDE DEF x
      <4> QED BY <1>1, <4>1, Division
    <3>4. r \div d = (n \div d) % base /\ r % d = n % d
      <4>1. n \in Nat /\ d \in Nat \ {0} /\ base \in Nat \ {0}
        BY <1>1, <2>3
      <4>2. (n % (base * d)) \div d = (n \div d) % base /\ (n % (base * d)) % d = n % d
        BY <4>1, DigitOf
      <4> QED BY <3>1, <4>2
    <3>5. r - (r \div d) * d = r % d
      <4> DEFINE q == r \div d
                 o == r % d
      <4>1. q \in Nat /\ o \in 0 .. d - 1 /\ r = d * q + o /\ d \in Nat
        BY <2>3, <3>3, Division
      <4> HIDE DEF q, o
      <4>2. d * q = q * d /\ d * q \in Nat
        BY <4>1
      <4>3. o \in Nat
        BY <4>1
      <4>4. r - q * d = o
        BY <3>3, <4>1, <4>2, <4>3
      <4> QED BY <4>4 DEF q, o
    <3> QED BY <3>4, <3>5 DEF r, val
  <2>6. n \div d \in Nat /\ val \in 0 .. base - 1
    <3>1. n \div d \in Nat
      BY <1>1, <2>3, Division
    <3> DEFINE q == n \div d
    <3> HIDE DEF q
    <3>2. q \in Nat => q % base \in 0 .. base - 1
      BY <1>1, Division
    <3> QED BY <2>5, <3>1, <3>2 DEF q
  <2> HIDE DEF val
  <2>7. Digit[val + 1] \in Chars
    <3>1. val + 1 \in 1 .. 16
      BY <1>1, <2>6
    <3> QED BY <3>1, DigitIsChar
  <2>10. /\ L \in Nat /\ k \in Nat /\ k <= L /\ i \in Nat /\ m \in Nat /\ m = i + 1 /\ m <= L
    BY <1>3, <1>7, <2>0, <2>1 DEF m
  <2>8. CASE m <= L - k
    <3>1. Written(i) = 0 /\ Written(m) = 0
      BY <2>10, <2>8 DEF Written
    <3>2. s.text = <<>>
      BY <2>2, <3>1
    <3>3. k <= L - m /\ L - m \in Nat /\ k \in Nat /\ L - m >= 1
      BY <1>1, <1>3, <2>1, <2>8
    <3>4. n < d /\ 1 < d
      <4>1. Power(base, k) <= d /\ L - m < d /\ Power(base, k) \in Nat
        BY <1>1, <1>5, <2>3, <3>3, PowerGrows
      <4>2. n < d
        BY <1>1, <1>3, <2>3, <4>1
      <4>3. 1 < d
        <5>1. L - m \in Nat /\ L - m >= 1 /\ L - m < d /\ d \in Nat
          BY <2>3, <3>3, <4>1
        <5> DEFINE e == L - m
        <5> HIDE DEF e
        <5>2. e \in Nat /\ e >= 1 /\ e < d /\ d \in Nat => 1 < d
          OBVIOUS
        <5> QED BY <5>1, <5>2 DEF e
      <4> QED BY <4>2, <4>3
    <3>5. val = 0
      <4>1. n \div d = 0
        <5>1. 0 \in Nat /\ n \in 0 .. d - 1 /\ n = d * 0 + n
          BY <1>1, <2>3, <3>4
        <5> QED BY <1>1, <2>3, <5>1, DivisionIsUnique
      <4>2. 0 % base = 0
        BY <1>1
      <4> QED BY <2>5, <4>1, <4>2
    <3>6. MaySkip(d)
      BY <2>3, <3>4 DEF MaySkip
    <3>7. step[m].text = <<>> /\ step[m].rest = n % d
      BY <2>4, <2>5, <3>2, <3>5, <3>6
    <3>8. <<>> \in Seq(Chars) /\ Len(<<>>) = 0 /\ 1 .. 0 = {}
      OBVIOUS
    <3>9. Q(m)
      <4> HIDE DEF dig
      <4> QED BY <2>3, <3>1, <3>7, <3>8 DEF Q
    <3> QED BY <3>9 DEF m
  <2>9. CASE ~(m <= L - k)
    <3>1. Written(m) = Written(i) + 1 /\ Written(i) \in Nat /\ k - Written(m) = L - m
      BY <2>10, <2>9 DEF Written
    <3>2. ~(val = 0 /\ s.text = <<>> /\ MaySkip(d))
      <4> SUFFICES ASSUME val = 0, s.text = <<>>, d # 1 PROVE FALSE
        BY DEF MaySkip
      <4>1. Written(i) = 0
        <5>1. Len(<<>>) = 0
          OBVIOUS
        <5> QED BY <2>2, <5>1
      <4>2. k = (L - m) + 1 /\ k - 1 = L - m
        <5> HIDE DEF L
        <5> QED BY <2>10, <3>1, <4>1
      <4>3. L - m # 0
        <5>1. Power(base, 0) = 1
          BY <1>1, PowerIs
        <5> QED BY <2>3, <5>1
      <4>4. n >= d /\ n < base * d
        <5>1. k > 1
          <6> HIDE DEF L
          <6> QED BY <2>10, <4>2, <4>3
        <5>2. Power(base, k) = base * d /\ Power(base, k - 1) = d
          BY <2>1, <2>3, <4>2
        <5> QED BY <1>3, <5>1, <5>2
      <4>5. n \div d \in 0 .. base - 1
        BY <1>1, <2>3, <4>4, Quotient
      <4> DEFINE q == n \div d
      <4>6. q \in 0 .. base - 1 /\ val = q % base /\ n = d * q + (n % d) /\ n % d \in 0 .. d - 1
        BY <1>1, <2>3, <2>5, <4>5, Division
      <4> HIDE DEF q
      <4>7. q % base = q
        <5>1. base \in Nat \ {0} /\ q \in Nat /\ 0 \in Nat /\ q \in 0 .. base - 1
          BY <1>1, <4>6
        <5>2. q = base * 0 + q
          BY <5>1
        <5> QED BY <5>1, <5>2, DivisionIsUnique
      <4>8. q = 0
        BY <4>6, <4>7
      <4>9. n = n % d
        <5>1. d * 0 = 0
          BY <2>3
        <5> QED BY <1>1, <4>6, <4>8, <5>1
      <4> DEFINE r == n % d
      <4>10. n = r /\ r \in 0 .. d - 1
        BY <4>6, <4>9
      <4> HIDE DEF r
      <4> QED BY <1>1, <2>3, <4>4, <4>10
    <3>3. step[m].text = Append(s.text, Digit[val + 1]) /\ step[m].rest = n % d
      BY <2>4, <2>5, <3>2
    <3>4. dig(Written(m)) = Digit[val + 1]
      BY <2>3, <2>5, <3>1
    <3> HIDE DEF dig
    <3>5. /\ Append(s.text, Digit[val + 1]) \in Seq(Chars)
          /\ Len(Append(s.text, Digit[val + 1])) = Written(i) + 1
          /\ \A j \in 1 .. Written(i) : Append(s.text, Digit[val + 1])[j] = s.text[j]
          /\ Append(s.text, Digit[val + 1])[Written(i) + 1] = Digit[val + 1]
      BY <2>2, <2>7, <3>1
    <3>6. \A j \in 1 .. Written(m) : step[m].text[j] = dig(j)
      <4> TAKE j \in 1 .. Written(m)
      <4>1. j \in 1 .. Written(i) \/ j = Written(i) + 1
        BY <3>1
      <4>2. CASE j \in 1 .. Written(i)
        BY <2>2, <3>3, <3>5, <4>2
      <4>3. CASE j = Written(i) + 1
        BY <3>1, <3>3, <3>4, <3>5, <4>3
      <4> QED BY <4>1, <4>2, <4>3
    <3>7. Q(m)
      BY <2>3, <3>1, <3>3, <3>5, <3>6 DEF Q
    <3> QED BY <3>7 DEF m
  <2> QED BY <2>8, <2>9
<1>10. S = Nat
  <2> HIDE DEF S
  <2>1. S \in SUBSET Nat
    BY DEF S
  <2> QED BY <1>8, <1>9, <2>1, SetInduction
<1>11. Q(L)
  BY <1>1, <1>10
<1>12. Written(L) = k
  BY <1>1, <1>3, <1>7
<1> DEFINE text == step[L].text
<1>13. text \in Seq(Chars) /\ Len(text) = k /\ \A j \in 1 .. k : text[j] = dig(j)
  <2> HIDE DEF Written, dig
  <2> QED BY <1>11, <1>12
<1> HIDE DEF text, dig, Q, S
<1>14. text = [j \in 1 .. k |-> text[j]]
  BY <1>3, <1>13
<1>15. text = [j \in 1 .. k |-> dig(j)]
  BY <1>13, <1>14
<1> QED BY <1>2, <1>4, <1>15 DEF text

\* Every conversion spells the number that is meant.
LEMMA StringMeans ==
  ASSUME NEW item, item.kind \in Conversions, item.arg \in 0 .. Word - 1
  PROVE  String(item) = Meaning(item)
<1> DEFINE n == item.arg
<1>1. Word \in Nat \ {0, 1} /\ Word % 2 = 0 /\ Powers(Dividers, 10) /\ Powers(Nibbles, 16)
  BY OutfAssumption
<1>2. 10 \in 2 .. 16 /\ 16 \in 2 .. 16
  OBVIOUS
<1>3. n \in 0 .. Word - 1
  OBVIOUS
<1> HIDE DEF n
<1>4. \A m \in 0 .. Word - 1 : uint2String(m) = Numeral(m, 10)
  BY <1>1, <1>2, SpellsNumeral DEF uint2String
<1>5. CASE item.kind = "u"
  <2>1. String(item) = uint2String(n) /\ Meaning(item) = Numeral(n, 10)
    BY <1>5 DEF String, Meaning, n
  <2> QED BY <1>3, <1>4, <2>1
<1>6. CASE item.kind = "x"
  <2>1. /\ String(item) = <<"0", "x">> \o Spell(n, Nibbles)
        /\ Meaning(item) = <<"0", "x">> \o Numeral(n, 16)
    BY <1>6 DEF String, hex2String, Meaning, n
  <2>2. Spell(n, Nibbles) = Numeral(n, 16)
    BY <1>1, <1>2, <1>3, SpellsNumeral
  <2> QED BY <2>1, <2>2
<1>7. CASE item.kind = "d"
  <2>1. /\ String(item) = int2String(n)
        /\ Meaning(item) = IF n * 2 < Word THEN Numeral(n, 10) ELSE <<"-">> \o Numeral(Word - n, 10)
    BY <1>7 DEF String, Meaning, n
  <2>2. n >= Word \div 2 <=> ~(n * 2 < Word)
    BY <1>1, <1>3
  <2>3. n >= Word \div 2 => Word - n \in 0 .. Word - 1
    BY <1>1, <1>3
  <2> QED BY <1>3, <1>4, <2>1, <2>2, <2>3 DEF int2String
<1> QED BY <1>5, <1>6, <1>7 DEF Conversions

\* outf writes behind its buffer only right behind a number that filled it but for
\* the last cell: OverrunOnlyBehindNumber.
THEOREM OneWayToOverrun == Spec => []OverrunOnlyBehindNumber
<1>1. OInv => OverrunOnlyBehindNumber
  <2> SUFFICES ASSUME OInv, pc = "overrun" PROVE NumberFills(cur - 2)
    BY DEF OInv, Overruns, BehindCharacter, OverrunOnlyBehindNumber
  <2>1. TypeOK /\ cur > 2 /\ Fills(fmt, cur - 2, msg)
    BY DEF OInv, Overruns, BehindCharacter
  <2> DEFINE i == cur - 2
  <2>2. i \in 1 .. Len(fmt)
    <3>1. cur \in 1 .. Len(fmt) + 1 /\ Len(fmt) \in Nat
      BY <2>1, FormatIs DEF TypeOK
    <3> QED BY <2>1, <3>1
  <2> HIDE DEF i
  <2>3. fmt[i].kind \in Conversions /\ Fills(fmt, i, msg)
    BY <2>1 DEF Fills, i
  <2>4. fmt[i].arg \in 0 .. Word - 1
    <3>1. "char" \notin Conversions
      BY DEF Conversions
    <3> QED BY <2>1, <2>2, <2>3, <3>1, FormatIs DEF TypeOK
  <2>5. String(fmt[i]) = Meaning(fmt[i])
    BY <2>3, <2>4, StringMeans
  <2> QED BY <2>3, <2>5 DEF NumberFills, Fills, i
<1> QED BY <1>1, OutfInvariance, PTL
-----------------------------------------------------------------------------
(***************************************************************************)
(* The text of several messages, and of a format                           *)
(***************************************************************************)
\* What the format up to an item means, and that item after it.
LEMMA MeantOneMore ==
  ASSUME TypeOK, ~AtEnd(cur)
  PROVE  /\ Meaning(fmt[cur]) \in Seq(Chars)
         /\ Meant(SubSeq(fmt, 1, cur)) = Meant(SubSeq(fmt, 1, cur - 1)) \o Meaning(fmt[cur])
<1> DEFINE before == SubSeq(fmt, 1, cur - 1)
           after == SubSeq(fmt, 1, cur)
           Texts(items) == [i \in DOMAIN items |-> Meaning(items[i])]
<1>1. fmt \in Formats /\ fmt \in Seq(Items) /\ Len(fmt) \in Nat /\ cur \in 1 .. Len(fmt)
  <2>1. fmt \in Formats /\ cur \in 1 .. Len(fmt) + 1
    BY DEF TypeOK
  <2>2. fmt \in Seq(Items) /\ Len(fmt) \in Nat
    BY <2>1, OutfAssumption DEF Items
  <2> QED BY <2>1, <2>2 DEF AtEnd
<1>2. \A i \in 1 .. Len(fmt) : Meaning(fmt[i]) \in Seq(Chars)
  <2> TAKE i \in 1 .. Len(fmt)
  <2>1. \/ fmt[i].kind = "char" /\ fmt[i].char \in Chars
        \/ fmt[i].kind \in Conversions /\ fmt[i].arg \in 0 .. Word - 1
    BY <1>1, FormatIs
  <2>2. CASE fmt[i].kind = "char" /\ fmt[i].char \in Chars
    <3>1. Meaning(fmt[i]) = <<fmt[i].char>>
      BY <2>2 DEF Meaning
    <3> DEFINE c == fmt[i].char
    <3> HIDE DEF c
    <3>2. c \in Chars => <<c>> \in Seq(Chars)
      OBVIOUS
    <3> QED BY <2>2, <3>1, <3>2 DEF c
  <2>3. CASE fmt[i].kind \in Conversions /\ fmt[i].arg \in 0 .. Word - 1
    BY <2>3, StringFits, StringMeans
  <2> QED BY <2>1, <2>2, <2>3
<1>3. /\ Len(before) = cur - 1 /\ DOMAIN before = 1 .. cur - 1
      /\ Len(after) = cur /\ DOMAIN after = 1 .. cur
      /\ \A i \in 1 .. cur - 1 : before[i] = fmt[i]
      /\ \A i \in 1 .. cur : after[i] = fmt[i]
  BY <1>1
<1> HIDE DEF before, after
<1>4. /\ Texts(before) = [i \in 1 .. cur - 1 |-> Meaning(fmt[i])]
      /\ Texts(after) = [i \in 1 .. cur |-> Meaning(fmt[i])]
  BY <1>3
<1>5. \A i \in 1 .. cur : i \in 1 .. Len(fmt)
  BY <1>1
<1> DEFINE M == [i \in 1 .. Len(fmt) |-> Meaning(fmt[i])]
           T == Seq(Chars)
<1>6. M \in [1 .. Len(fmt) -> T]
  BY <1>2
<1>7. /\ Texts(before) = [i \in 1 .. cur - 1 |-> M[i]]
      /\ Texts(after) = [i \in 1 .. cur |-> M[i]] /\ M[cur] = Meaning(fmt[cur])
  <2>1. \A i \in 1 .. cur : M[i] = Meaning(fmt[i])
    BY <1>5
  <2>2. \A i \in 1 .. cur - 1 : i \in 1 .. cur /\ cur \in 1 .. cur
    BY <1>1
  <2>3. cur \in 1 .. cur
    BY <1>1
  <2> HIDE DEF M, Texts
  <2> QED BY <1>4, <2>1, <2>2, <2>3
<1> HIDE DEF M, Texts, T
<1>8. Texts(before) \in Seq(T) /\ M[cur] \in T
  <2>1. cur - 1 \in Nat /\ \A i \in 1 .. cur - 1 : i \in 1 .. Len(fmt)
    BY <1>1
  <2> DEFINE n == cur - 1
  <2> HIDE DEF n
  <2>2. n \in Nat /\ \A i \in 1 .. n : M[i] \in T
    BY <1>6, <2>1 DEF n
  <2>3. [i \in 1 .. n |-> M[i]] \in Seq(T)
    BY <2>2
  <2> QED BY <1>1, <1>6, <1>7, <2>3 DEF n
<1>9. Texts(after) = Append(Texts(before), M[cur])
  <2> DEFINE n == cur - 1
             t == [i \in 1 .. n |-> M[i]]
             u == [i \in 1 .. n + 1 |-> M[i]]
  <2>1. n \in Nat /\ n + 1 = cur /\ t \in Seq(T) /\ M[n + 1] \in T
    BY <1>1, <1>7, <1>8
  <2>2. \A i \in 1 .. n + 1 : M[i] \in T
    BY <1>1, <1>6
  <2> HIDE DEF n
  <2>3. u \in Seq(T) /\ Len(u) = n + 1 /\ Len(t) = n
    BY <2>1, <2>2
  <2>4. /\ Append(t, M[n + 1]) \in Seq(T) /\ Len(Append(t, M[n + 1])) = n + 1
        /\ \A i \in 1 .. n : Append(t, M[n + 1])[i] = t[i]
        /\ Append(t, M[n + 1])[n + 1] = M[n + 1]
    <3> HIDE DEF t
    <3> QED BY <2>1, <2>3
  <2>5. \A i \in 1 .. n : t[i] = M[i]
    OBVIOUS
  <2>6. \A i \in 1 .. n + 1 : u[i] = M[i]
    OBVIOUS
  <2> DEFINE v == Append(t, M[n + 1])
  <2>7. v \in Seq(T) /\ Len(v) = n + 1 /\ \A i \in 1 .. n + 1 : v[i] = u[i]
    <3>1. \A i \in 1 .. n + 1 : i \in 1 .. n \/ i = n + 1
      BY <2>1
    <3> HIDE DEF t, u
    <3> QED BY <2>4, <2>5, <2>6, <3>1
  <2>8. u = v
    <3> HIDE DEF u, v
    <3> QED BY <2>3, <2>7, SeqEqual
  <2> QED BY <1>7, <2>1, <2>8
<1>10. FlattenSeq(Texts(after)) = FlattenSeq(Texts(before)) \o M[cur]
  BY <1>8, <1>9, FlattenOneMore DEF T
<1>11. Meant(before) = FlattenSeq(Texts(before)) /\ Meant(after) = FlattenSeq(Texts(after))
  BY DEF Meant, Texts
<1> QED BY <1>1, <1>2, <1>7, <1>10, <1>11 DEF before, after

LEMMA Concatenated ==
  \A s, t, u \in Seq(Chars) : (s \o t) \o u = s \o (t \o u) /\ s \o <<>> = s
<1> TAKE s, t, u \in Seq(Chars)
<1>1. (s \o t) \o u = s \o (t \o u)
  BY ConcatAssociative
<1>2. s \o <<>> = s
  BY ConcatEmptySeq
<1> QED BY <1>1, <1>2

\* The text so far, after an item that went to the buffer, or to the terminal
\* with what the buffer held, or to the buffer after that was sent.
LEMMA TextGrows ==
  ASSUME OInv, NothingLost, pc = "loop", ~AtEnd(cur), cur' = cur + 1, UNCHANGED fmt,
         NEW x \in Seq(Chars), x = Meaning(fmt[cur]),
         \/ sent' = sent /\ msg' = msg \o x
         \/ sent' = Append(sent, msg \o x) /\ msg' = <<>>
         \/ sent' = Append(sent, msg) /\ msg' = x
  PROVE  NothingLost'
<1> DEFINE T == Seq(Chars)
           flat == FlattenSeq(sent)
           text == Meant(SubSeq(fmt, 1, cur - 1))
<1>1. TypeOK
  BY DEF OInv
<1>2. msg \in T /\ x \in T /\ sent \in Seq(T) /\ cur \in Nat
  <2>1. fmt \in Formats /\ cur \in 1 .. Len(fmt) + 1
    BY <1>1 DEF TypeOK
  <2>2. cur \in Nat
    BY <2>1, FormatIs
  <2> QED BY <1>1, <2>2 DEF TypeOK
<1>3. msg \o x \in T
  BY <1>2
<1>4. flat \in T
  BY <1>2, FlattenOneMore
<1>4a. FlattenSeq(Append(sent, msg \o x)) = flat \o (msg \o x)
  BY <1>2, <1>3, FlattenOneMore
<1>4b. FlattenSeq(Append(sent, msg)) = flat \o msg
  BY <1>2, FlattenOneMore
<1>5. flat \o msg = text
  BY DEF NothingLost
<1>6. Meant(SubSeq(fmt, 1, cur)) = text \o x
  BY <1>1, MeantOneMore
<1>7. FlattenSeq(sent') \o msg' = text \o x
  <2> HIDE DEF flat, text
  <2>0. flat \in Seq(Chars) /\ msg \in Seq(Chars) /\ x \in Seq(Chars)
    <3>1. flat \in Seq(Chars)
      BY <1>4
    <3>2. msg \in Seq(Chars)
      BY <1>2
    <3> QED BY <3>1, <3>2
  <2>1. (flat \o msg) \o x = flat \o (msg \o x)
    BY <2>0, Concatenated
  <2>2. (flat \o (msg \o x)) \o <<>> = flat \o (msg \o x)
    <3>1. flat \o (msg \o x) \in Seq(Chars)
      BY <2>0
    <3> QED BY <3>1, Concatenated
  <2>3. CASE sent' = sent /\ msg' = msg \o x
    <3>1. FlattenSeq(sent') = flat
      BY <2>3 DEF flat
    <3> QED BY <1>5, <2>1, <2>3, <3>1
  <2>4. CASE sent' = Append(sent, msg \o x) /\ msg' = <<>>
    <3>1. FlattenSeq(sent') = flat \o (msg \o x)
      BY <1>4a, <2>4
    <3> QED BY <1>5, <2>1, <2>2, <2>4, <3>1
  <2>5. CASE sent' = Append(sent, msg) /\ msg' = x
    <3>1. FlattenSeq(sent') = flat \o msg
      BY <1>4b, <2>5
    <3> QED BY <1>5, <2>5, <3>1
  <2> QED BY <2>3, <2>4, <2>5
<1>8. cur' - 1 = cur
  BY <1>2
<1> HIDE DEF flat, text
<1>9. FlattenSeq(sent') \o msg' = Meant(SubSeq(fmt', 1, cur' - 1))
  BY <1>6, <1>7, <1>8
<1> QED BY <1>9 DEF NothingLost

\* No step loses text: what a send takes from the buffer is in the messages.
LEMMA StepLosesNothing ==
  ASSUME OInv, NothingLost, [Next]_vars
  PROVE  NothingLost'
<1>1. TypeOK
  BY DEF OInv
<1>2. msg \in Seq(Chars) /\ sent \in Seq(Seq(Chars))
  BY <1>1 DEF TypeOK
<1>3. CASE Character
  <2> DEFINE c == fmt[cur].char
             x == <<c>>
             text == Append(msg, c)
  <2>1. pc = "loop" /\ ~AtEnd(cur) /\ fmt[cur].kind = "char" /\ cur' = cur + 1 /\ UNCHANGED fmt
    BY <1>3 DEF Character
  <2>2. x = Meaning(fmt[cur]) /\ x \in Seq(Chars)
    <3>1. x = Meaning(fmt[cur])
      BY <2>1 DEF Meaning
    <3> QED BY <1>1, <2>1, <3>1, MeantOneMore
  <2>3. text = msg \o x
    <3>1. c \in Chars
      <4>1. Len(x) = 1 /\ x[1] = c
        OBVIOUS
      <4> HIDE DEF x, c
      <4> QED BY <2>2, <4>1
    <3> HIDE DEF c
    <3> QED BY <1>2, <3>1, AppendIsConcat
  <2>4. \/ pc' \in {"overrun", "failed"}
        \/ sent' = Append(sent, text) /\ msg' = <<>>
        \/ sent' = sent /\ msg' = text
    <3> HIDE DEF text
    <3>1. \/ Overrun
          \/ Send(text, <<>>)
          \/ msg' = text /\ UNCHANGED <<sent, pc>>
      BY <1>3 DEF Character, text
    <3> QED BY <3>1 DEF Overrun, Send
  <2>5. CASE pc' \in {"overrun", "failed"}
    BY <2>5 DEF NothingLost
  <2>6. CASE \/ sent' = Append(sent, text) /\ msg' = <<>>
             \/ sent' = sent /\ msg' = text
    <3> HIDE DEF x, text
    <3>1. \/ sent' = sent /\ msg' = msg \o x
          \/ sent' = Append(sent, msg \o x) /\ msg' = <<>>
          \/ sent' = Append(sent, msg) /\ msg' = x
      BY <2>3, <2>6
    <3> QED BY <2>1, <2>2, <3>1, TextGrows
  <2> QED BY <2>4, <2>5, <2>6
<1>4. CASE Number
  <2> DEFINE x == String(fmt[cur])
  <2>1. pc = "loop" /\ ~AtEnd(cur) /\ fmt[cur].kind \in Conversions /\ cur' = cur + 1 /\ UNCHANGED fmt
    BY <1>4 DEF Number
  <2>2. x = Meaning(fmt[cur]) /\ x \in Seq(Chars)
    <3>1. fmt[cur].arg \in 0 .. Word - 1
      <4>1. "char" \notin Conversions
        BY DEF Conversions
      <4> QED BY <1>1, <2>1, <4>1, ItemRead
    <3> QED BY <2>1, <3>1, StringMeans, StringFits
  <2>3. \/ pc' = "failed"
        \/ sent' = sent /\ msg' = msg \o x
        \/ sent' = Append(sent, msg) /\ msg' = x
    <3>1. \/ Send(msg, x)
          \/ msg' = msg \o x /\ UNCHANGED <<sent, pc>>
      BY <1>4 DEF Number
    <3> HIDE DEF x
    <3> QED BY <3>1 DEF Send
  <2> HIDE DEF x
  <2>4. CASE pc' = "failed"
    BY <2>4 DEF NothingLost
  <2>5. CASE \/ sent' = sent /\ msg' = msg \o x
             \/ sent' = Append(sent, msg) /\ msg' = x
    BY <2>1, <2>2, <2>5, TextGrows
  <2> QED BY <2>3, <2>4, <2>5
<1>5. CASE End
  <2>1. pc = "loop" /\ UNCHANGED <<fmt, cur>>
    BY <1>5 DEF End
  <2>2. \/ pc' \in {"overrun", "failed"}
        \/ sent' = Append(sent, msg) /\ msg' = <<>>
    BY <1>5 DEF End, Overrun
  <2>3. CASE pc' \in {"overrun", "failed"}
    BY <2>3 DEF NothingLost
  <2>4. CASE sent' = Append(sent, msg) /\ msg' = <<>>
    <3> DEFINE flat == FlattenSeq(sent)
    <3>1. flat \in Seq(Chars) /\ FlattenSeq(Append(sent, msg)) = flat \o msg
      BY <1>2, FlattenOneMore
    <3>2. (flat \o msg) \o <<>> = flat \o msg
      <4> HIDE DEF flat
      <4>1. flat \o msg \in Seq(Chars)
        BY <1>2, <3>1
      <4> QED BY <4>1, Concatenated
    <3>3. flat \o msg = Meant(SubSeq(fmt, 1, cur - 1))
      BY <2>1 DEF NothingLost
    <3>4. FlattenSeq(sent') \o msg' = Meant(SubSeq(fmt', 1, cur' - 1))
      <4> HIDE DEF flat
      <4> QED BY <2>1, <2>4, <3>1, <3>2, <3>3
    <3> QED BY <3>4 DEF NothingLost
  <2> QED BY <2>2, <2>3, <2>4
<1>6. CASE UNCHANGED vars
  BY <1>6 DEF vars, NothingLost
<1> QED BY <1>3, <1>4, <1>5, <1>6 DEF Next

\* The messages and the buffer are together the text of the format so far, with
\* every number spelled as it is meant: NothingLost.
THEOREM TextIsWhole == Spec => []NothingLost
<1>1. Init => NothingLost
  <2> SUFFICES ASSUME Init PROVE NothingLost
    OBVIOUS
  <2>1. sent = <<>> /\ msg = <<>> /\ cur = 1
    BY DEF Init
  <2>2. fmt \in Seq(Items)
    BY OutfAssumption DEF Init, Items
  <2>3. SubSeq(fmt, 1, cur - 1) = <<>>
    <3>1. cur - 1 = 0
      BY <2>1
    <3> QED BY <2>2, <3>1
  <2>4. FlattenSeq(<<>>) = <<>> /\ DOMAIN <<>> = {}
    BY DEF FlattenSeq
  <2>5. Meant(<<>>) = <<>>
    <3>1. [i \in DOMAIN <<>> |-> Meaning(<<>>[i])] = <<>>
      BY <2>4
    <3> QED BY <2>4, <3>1 DEF Meant
  <2>6. <<>> \o <<>> = <<>>
    OBVIOUS
  <2> QED BY <2>1, <2>3, <2>4, <2>5, <2>6 DEF NothingLost
<1>2. OInv /\ NothingLost /\ [Next]_vars => NothingLost'
  BY StepLosesNothing
<1> QED BY <1>1, <1>2, OutfInvariance, PTL DEF Spec
=============================================================================
