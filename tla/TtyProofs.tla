----------------------------- MODULE TtyProofs ------------------------------
(***************************************************************************)
(* Theorems about Tty: for a screen of any size, any keys and any texts,   *)
(* what is in front of the cursor is the line that Enter would send, and   *)
(* no secret is on the screen.                                             *)
(***************************************************************************)
EXTENDS Tty, Induction
-----------------------------------------------------------------------------
(***************************************************************************)
(* Lines of the screen                                                     *)
(***************************************************************************)
\* The offsets at which a line begins.
Starts == {r * NO_COLUMNS : r \in Nat}

LEMMA Sizes ==
  /\ NO_COLUMNS \in Nat \ {0} /\ Cells \in Nat \ {0} /\ NO_COLUMNS <= Cells /\ Cells \in Starts
  /\ BUFFER_SIZE = Cells - 1 /\ Offsets > Cells
<1>1. NO_COLUMNS \in Nat \ {0} /\ NO_LINES \in Nat \ {0} /\ Cells < Offsets
  BY TtyAssumption
<1>2. PICK r \in Nat : NO_LINES = r + 1
  <2>1. NO_LINES - 1 \in Nat /\ NO_LINES = (NO_LINES - 1) + 1
    BY <1>1
  <2> QED BY <2>1
<1>3. (r + 1) * NO_COLUMNS = r * NO_COLUMNS + NO_COLUMNS /\ r * NO_COLUMNS \in Nat
  BY <1>1
<1>4. Cells = r * NO_COLUMNS + NO_COLUMNS
  BY <1>2, <1>3 DEF Cells
<1>5. Cells \in Starts
  BY <1>1 DEF Cells, Starts
<1> QED BY <1>1, <1>3, <1>4, <1>5 DEF BUFFER_SIZE

LEMMA StartsAre ==
  /\ 0 \in Starts /\ Starts \subseteq Nat
  /\ \A x \in Starts : /\ x + NO_COLUMNS \in Starts
                       /\ x > 0 => x >= NO_COLUMNS /\ x - NO_COLUMNS \in Starts
<1>1. NO_COLUMNS \in Nat \ {0}
  BY Sizes
<1>2. 0 \in Starts
  <2>1. 0 * NO_COLUMNS = 0
    BY <1>1
  <2> QED BY <2>1 DEF Starts
<1>3. ASSUME NEW x \in Starts
      PROVE  /\ x \in Nat /\ x + NO_COLUMNS \in Starts
             /\ x > 0 => x >= NO_COLUMNS /\ x - NO_COLUMNS \in Starts
  <2>1. PICK r \in Nat : x = r * NO_COLUMNS
    BY DEF Starts
  <2>2. x \in Nat
    BY <1>1, <2>1
  <2>3. (r + 1) * NO_COLUMNS = r * NO_COLUMNS + NO_COLUMNS /\ r + 1 \in Nat
    BY <1>1
  <2>4. x + NO_COLUMNS \in Starts
    BY <2>1, <2>3 DEF Starts
  <2>5. ASSUME x > 0 PROVE x >= NO_COLUMNS /\ x - NO_COLUMNS \in Starts
    <3>1. r # 0
      <4>1. 0 * NO_COLUMNS = 0
        BY <1>1
      <4> QED BY <2>1, <2>5, <4>1
    <3>2. PICK q \in Nat : r = q + 1
      <4>1. r - 1 \in Nat /\ r = (r - 1) + 1
        BY <3>1
      <4> QED BY <4>1
    <3>3. (q + 1) * NO_COLUMNS = q * NO_COLUMNS + NO_COLUMNS /\ q * NO_COLUMNS \in Nat
      BY <1>1
    <3>4. x = q * NO_COLUMNS + NO_COLUMNS
      BY <2>1, <3>2, <3>3
    <3>5. x - NO_COLUMNS = q * NO_COLUMNS /\ x >= NO_COLUMNS
      BY <1>1, <3>3, <3>4
    <3> QED BY <3>5 DEF Starts
  <2> QED BY <2>2, <2>4, <2>5
<1> QED BY <1>2, <1>3

\* Where the line of an offset begins.
LEMMA LineOf ==
  ASSUME NEW x \in Nat
  PROVE  x % NO_COLUMNS \in 0 .. NO_COLUMNS - 1 /\ x - (x % NO_COLUMNS) \in Starts
<1> DEFINE d == NO_COLUMNS
<1>1. d \in Nat \ {0}
  BY Sizes
<1> HIDE DEF d
<1>2. x % d = x - d * (x \div d) /\ x % d \in 0 .. d - 1 /\ x \div d \in Nat
  BY <1>1
<1>3. d * (x \div d) = (x \div d) * d /\ d * (x \div d) \in Nat
  BY <1>1, <1>2
<1>4. x - (x % d) = (x \div d) * d
  BY <1>1, <1>2, <1>3
<1> QED BY <1>2, <1>4 DEF Starts, d
-----------------------------------------------------------------------------
(***************************************************************************)
(* Characters                                                              *)
(***************************************************************************)
\* Screens of the characters in V, with the cursor on them.
On(V) == [cells : [0 .. Cells - 1 -> V], cursor : 0 .. Cells - 1]

\* A character goes where the cursor is; at the last cell, everything then
\* moves up.
LEMMA PutIs ==
  ASSUME NEW V, Blank \in V, NEW s \in On(V), NEW c \in V
  PROVE  /\ Put(s, c) \in On(V)
         /\ s.cursor + 1 < Cells =>
              /\ Put(s, c).cursor = s.cursor + 1
              /\ \A j \in 0 .. Cells - 1 :
                   Put(s, c).cells[j] = IF j = s.cursor THEN c ELSE s.cells[j]
         /\ s.cursor + 1 >= Cells =>
              /\ s.cursor + 1 = Cells /\ Put(s, c).cursor = Cells - NO_COLUMNS
              /\ \A j \in 0 .. (Cells - NO_COLUMNS) - 1 :
                   Put(s, c).cells[j] = IF j + NO_COLUMNS = s.cursor THEN c
                                        ELSE s.cells[j + NO_COLUMNS]
<1> DEFINE C == Cells
           N == NO_COLUMNS
           x == s.cursor
           old == s.cells
           new == [old EXCEPT ![x] = c]
<1>1. C \in Nat \ {0} /\ N \in Nat \ {0} /\ N <= C
  BY Sizes
<1>2. x \in 0 .. C - 1 /\ old \in [0 .. C - 1 -> V]
  BY DEF On
<1>3. Put(s, c) = Settled(new, x + 1)
  BY DEF Put
<1> HIDE DEF C, N, x, old
<1>4. /\ new \in [0 .. C - 1 -> V]
      /\ \A j \in 0 .. C - 1 : new[j] = IF j = x THEN c ELSE old[j]
  BY <1>2
<1> HIDE DEF new
<1>5. CASE x + 1 < C
  <2>1. Put(s, c) = [cells |-> new, cursor |-> x + 1]
    BY <1>1, <1>2, <1>3, <1>5 DEF Settled, C
  <2>2. x + 1 \in 0 .. C - 1
    BY <1>1, <1>2, <1>5
  <2>3. Put(s, c) \in On(V)
    BY <1>4, <2>1, <2>2 DEF On, C
  <2>4. ~(x + 1 >= C)
    BY <1>1, <1>2, <1>5
  <2> QED BY <1>4, <2>1, <2>3, <2>4 DEF C, x, old
<1>6. CASE x + 1 >= C
  <2> DEFINE up == [i \in 0 .. C - 1 |-> IF i + N < C THEN new[i + N] ELSE Blank]
  <2>1. Put(s, c) = [cells |-> up, cursor |-> (x + 1) - N]
    BY <1>3, <1>6 DEF Settled, Scrolled, C, N
  <2>2. x + 1 = C /\ C - N \in 0 .. C - 1
    BY <1>1, <1>2, <1>6
  <2>3. up \in [0 .. C - 1 -> V]
    <3> SUFFICES ASSUME NEW i \in 0 .. C - 1, i + N < C PROVE new[i + N] \in V
      OBVIOUS
    <3>1. i + N \in 0 .. C - 1
      BY <1>1
    <3> QED BY <1>4, <3>1
  <2>4. \A j \in 0 .. (C - N) - 1 : up[j] = IF j + N = x THEN c ELSE old[j + N]
    <3> TAKE j \in 0 .. (C - N) - 1
    <3>1. j \in 0 .. C - 1 /\ j + N \in 0 .. C - 1 /\ j + N < C
      BY <1>1
    <3> QED BY <1>4, <3>1
  <2> HIDE DEF up
  <2>5. Put(s, c) \in On(V)
    BY <2>1, <2>2, <2>3 DEF On, C
  <2>6. ~(x + 1 < C)
    BY <1>1, <1>2, <1>6
  <2> QED BY <2>1, <2>2, <2>4, <2>5, <2>6 DEF C, N, x, old
<1>7. x + 1 < C \/ x + 1 >= C
  BY <1>1, <1>2
<1> QED BY <1>5, <1>6, <1>7

\* What a text leaves, character by character.
Puts(put, s, text) ==
  put = [i \in 0 .. Len(text) |-> IF i = 0 THEN s ELSE Put(put[i - 1], text[i])]

LEMMA PutAllIs ==
  ASSUME NEW V, Blank \in V, NEW s \in On(V), NEW text \in Seq(V)
  PROVE  \E put \in [0 .. Len(text) -> On(V)] :
           Puts(put, s, text) /\ PutAll(s, text) = put[Len(text)]
<1> DEFINE N == Len(text)
           S == On(V)
           D == [n \in Nat |-> [r \in S |-> IF n \in 1 .. N THEN Put(r, text[n]) ELSE r]]
<1>1. N \in Nat /\ \A n \in 1 .. N : text[n] \in V
  OBVIOUS
<1> HIDE DEF N
<1>2. \A r \in S : \A n \in 1 .. N : Put(r, text[n]) \in S
  BY <1>1, PutIs
<1> HIDE DEF S
<1>3. D \in [Nat -> [S -> S]]
  BY <1>2
<1>4. s \in S
  BY DEF S
<1>5. PICK f \in [0 .. N -> S] : Iterates(f, N, s, D)
  <2> HIDE DEF D
  <2> QED BY <1>1, <1>3, <1>4, IteratesExist
<1>6. \A n \in 0 .. N : n # 0 => D[n][f[n - 1]] = Put(f[n - 1], text[n])
  <2> TAKE n \in 0 .. N
  <2> HAVE n # 0
  <2>1. n \in 1 .. N /\ n \in Nat /\ n - 1 \in 0 .. N
    BY <1>1
  <2>2. f[n - 1] \in S
    BY <2>1
  <2> QED BY <2>1, <2>2
<1> HIDE DEF D
<1>7. Puts(f, s, text)
  <2>1. f = [n \in 0 .. N |-> IF n = 0 THEN s ELSE D[n][f[n - 1]]]
    BY <1>5 DEF Iterates
  <2>2. f = [n \in 0 .. N |-> IF n = 0 THEN s ELSE Put(f[n - 1], text[n])]
    BY <1>6, <2>1
  <2> QED BY <2>2 DEF Puts, N
<1> DEFINE g == CHOOSE g : Puts(g, s, text)
<1>8. Puts(g, s, text)
  BY <1>7
<1>9. PutAll(s, text) = g[N]
  BY DEF PutAll, Puts, N
<1> HIDE DEF g
<1>10. \A n \in 0 .. N : g[n] = f[n]
  <2> DEFINE Q == {n \in Nat : n <= N => g[n] = f[n]}
  <2>1. 0 \in Q
    BY <1>1, <1>7, <1>8 DEF Puts, N
  <2>2. \A n \in Q : n + 1 \in Q
    <3> SUFFICES ASSUME NEW n \in Q PROVE n + 1 \in Q
      OBVIOUS
    <3>0. n \in Nat /\ n + 1 \in Nat
      OBVIOUS
    <3> SUFFICES ASSUME n + 1 <= N PROVE g[n + 1] = f[n + 1]
      BY <3>0
    <3>1. n + 1 \in 0 .. N /\ n + 1 # 0 /\ (n + 1) - 1 = n /\ g[n] = f[n]
      BY <1>1, <3>0
    <3>2. g[n + 1] = Put(g[n], text[n + 1]) /\ f[n + 1] = Put(f[n], text[n + 1])
      BY <1>7, <1>8, <3>1 DEF Puts, N
    <3> QED BY <3>1, <3>2
  <2>3. Q = Nat
    <3> HIDE DEF Q
    <3>1. Q \in SUBSET Nat
      BY DEF Q
    <3> QED BY <2>1, <2>2, <3>1, SetInduction
  <2> QED BY <1>1, <2>3
<1>11. PutAll(s, text) = f[N]
  BY <1>1, <1>9, <1>10
<1> QED BY <1>7, <1>11 DEF N, S

\* Characters on the screen stay characters on the screen.
LEMMA PutAllStays ==
  ASSUME NEW V, Blank \in V, NEW s \in On(V), NEW text \in Seq(V)
  PROVE  PutAll(s, text) \in On(V)
<1>1. PICK put \in [0 .. Len(text) -> On(V)] : PutAll(s, text) = put[Len(text)]
  BY PutAllIs
<1>2. Len(text) \in 0 .. Len(text)
  OBVIOUS
<1> QED BY <1>1, <1>2

\* A new line begins where lines begin.
LEMMA NewLineIs ==
  ASSUME NEW V, Blank \in V, NEW s \in On(V)
  PROVE  NewLine(s) \in On(V) /\ NewLine(s).cursor \in Starts
<1> DEFINE n == NO_COLUMNS - (s.cursor % NO_COLUMNS)
           blanks == [i \in 1 .. n |-> Blank]
<1>1. s.cursor \in Nat
  BY Sizes DEF On
<1>2. n \in Nat /\ s.cursor + n \in Starts
  <2> DEFINE x == s.cursor
             m == x % NO_COLUMNS
  <2>1. x \in Nat
    BY <1>1
  <2> HIDE DEF x
  <2>2. m \in 0 .. NO_COLUMNS - 1 /\ x - m \in Starts
    BY <2>1, LineOf
  <2> HIDE DEF m
  <2>3. NO_COLUMNS \in Nat
    BY Sizes
  <2>4. (x - m) + NO_COLUMNS \in Starts
    BY <2>2, StartsAre
  <2>5. (x - m) + NO_COLUMNS = x + (NO_COLUMNS - m) /\ NO_COLUMNS - m \in Nat
    BY <2>1, <2>2, <2>3
  <2>6. x + (NO_COLUMNS - m) \in Starts /\ NO_COLUMNS - m \in Nat
    BY <2>4, <2>5
  <2> QED BY <2>6 DEF m, x
<1> HIDE DEF n
<1>3. blanks \in Seq(V) /\ Len(blanks) = n
  BY <1>2
<1>4. \A i \in 1 .. n : blanks[i] = Blank
  OBVIOUS
<1>5. NewLine(s) = PutAll(s, blanks)
  BY DEF NewLine, n
<1> HIDE DEF blanks
<1>6. PICK put \in [0 .. n -> On(V)] : Puts(put, s, blanks) /\ PutAll(s, blanks) = put[n]
  BY <1>3, PutAllIs
<1> DEFINE Q == {i \in Nat : i <= n => put[i].cursor + (n - i) \in Starts}
<1>7. 0 \in Q
  <2>1. put[0] = s
    BY <1>2, <1>3, <1>6 DEF Puts
  <2>2. s.cursor + (n - 0) = s.cursor + n
    BY <1>1, <1>2
  <2> QED BY <1>2, <2>1, <2>2
<1>8. \A i \in Q : i + 1 \in Q
  <2> SUFFICES ASSUME NEW i \in Q PROVE i + 1 \in Q
    OBVIOUS
  <2>0. i \in Nat /\ i + 1 \in Nat
    OBVIOUS
  <2> SUFFICES ASSUME i + 1 <= n PROVE put[i + 1].cursor + (n - (i + 1)) \in Starts
    BY <2>0
  <2>1. i + 1 \in 0 .. n /\ i + 1 # 0 /\ (i + 1) - 1 = i /\ i \in 0 .. n /\ i + 1 \in 1 .. n /\ i <= n
    BY <1>2, <2>0
  <2>2. put[i + 1] = Put(put[i], Blank)
    BY <1>3, <1>4, <1>6, <2>1 DEF Puts
  <2>3. put[i] \in On(V)
    BY <2>1
  <2> DEFINE x == put[i].cursor
             y == put[i + 1].cursor
  <2>4. x \in 0 .. Cells - 1
    BY <2>3 DEF On
  <2>5. x + (n - i) \in Starts
    BY <2>1
  <2>6. \/ y = x + 1
        \/ x + 1 = Cells /\ y = Cells - NO_COLUMNS
    <3>1. x + 1 < Cells \/ x + 1 >= Cells
      BY <2>4, Sizes
    <3> QED BY <2>2, <2>3, <3>1, PutIs
  <2> HIDE DEF x, y
  <2>7. CASE y = x + 1
    <3>1. y + (n - (i + 1)) = x + (n - i)
      BY <1>2, <2>0, <2>4, <2>7, Sizes
    <3> QED BY <2>5, <3>1 DEF y
  <2>8. CASE x + 1 = Cells /\ y = Cells - NO_COLUMNS
    <3>1. y + (n - (i + 1)) = (x + (n - i)) - NO_COLUMNS /\ x + (n - i) > 0
      BY <1>2, <2>0, <2>1, <2>4, <2>8, Sizes
    <3> QED BY <2>5, <3>1, StartsAre DEF y
  <2> QED BY <2>6, <2>7, <2>8
<1>9. Q = Nat
  <2> HIDE DEF Q
  <2>1. Q \in SUBSET Nat
    BY DEF Q
  <2> QED BY <1>7, <1>8, <2>1, SetInduction
<1>10. put[n].cursor + (n - n) \in Starts /\ put[n] \in On(V)
  <2>1. n <= n /\ n \in 0 .. n
    BY <1>2
  <2> QED BY <1>2, <1>9, <2>1
<1>11. put[n].cursor + (n - n) = put[n].cursor
  <2>1. put[n].cursor \in Nat
    BY <1>10, Sizes DEF On
  <2> QED BY <1>2, <2>1
<1> QED BY <1>5, <1>6, <1>10, <1>11
-----------------------------------------------------------------------------
(***************************************************************************)
(* The line in front of the cursor                                         *)
(***************************************************************************)
\* A text begins at the start of a line of the screen and ends at the cursor.
Shows(s, line) ==
  /\ Len(line) <= s.cursor /\ s.cursor - Len(line) \in Starts
  /\ \A i \in 1 .. Len(line) : s.cells[(s.cursor - Len(line)) + i - 1] = line[i]

\* One more character, as long as the text is not longer than the screen.
LEMMA PutShows ==
  ASSUME NEW V, Blank \in V, NEW s \in On(V), NEW line \in Seq(V), NEW c \in V,
         Shows(s, line), Len(line) + 1 < Cells
  PROVE  Shows(Put(s, c), Append(line, c))
<1> DEFINE n == Len(line)
           x == s.cursor
           b == x - n
           new == Put(s, c)
           more == Append(line, c)
<1>1. /\ n \in Nat /\ more \in Seq(V) /\ Len(more) = n + 1
      /\ more[n + 1] = c /\ \A i \in 1 .. n : more[i] = line[i]
  OBVIOUS
<1>2. x \in 0 .. Cells - 1 /\ Cells \in Nat /\ NO_COLUMNS \in Nat \ {0} /\ NO_COLUMNS <= Cells
  BY Sizes DEF On
<1>3. n <= x /\ b \in Starts /\ \A i \in 1 .. n : s.cells[b + i - 1] = line[i]
  BY DEF Shows
<1>4. n + 1 < Cells
  OBVIOUS
<1> HIDE DEF n, x, more
<1>5. b \in Nat /\ b + n = x
  BY <1>1, <1>2, <1>3
<1>6. CASE x + 1 < Cells
  <2>1. /\ new.cursor = x + 1
        /\ \A j \in 0 .. Cells - 1 : new.cells[j] = IF j = x THEN c ELSE s.cells[j]
    BY <1>6, PutIs DEF x
  <2> HIDE DEF new, b
  <2>2. new.cursor - (n + 1) = b /\ n + 1 <= new.cursor
    BY <1>1, <1>2, <1>5, <2>1
  <2>3. ASSUME NEW i \in 1 .. n + 1
        PROVE  new.cells[b + i - 1] = more[i]
    <3>1. b + i - 1 \in 0 .. Cells - 1
      BY <1>1, <1>2, <1>5
    <3>2. CASE i = n + 1
      <4>1. b + i - 1 = x
        BY <1>1, <1>2, <1>5, <3>2
      <4> QED BY <1>1, <2>1, <3>1, <3>2, <4>1
    <3>3. CASE i # n + 1
      <4>1. i \in 1 .. n /\ b + i - 1 # x
        BY <1>1, <1>2, <1>5, <3>3
      <4> QED BY <1>1, <1>3, <2>1, <3>1, <4>1
    <3> QED BY <3>2, <3>3
  <2>4. Shows(new, more)
    BY <1>1, <1>3, <2>2, <2>3 DEF Shows
  <2> QED BY <2>4 DEF new, more
<1>7. CASE x + 1 >= Cells
  <2>1. /\ x + 1 = Cells /\ new.cursor = Cells - NO_COLUMNS
        /\ \A j \in 0 .. (Cells - NO_COLUMNS) - 1 :
             new.cells[j] = IF j + NO_COLUMNS = x THEN c ELSE s.cells[j + NO_COLUMNS]
    BY <1>7, PutIs DEF x
  <2> HIDE DEF new, b
  <2>2. b > 0
    BY <1>1, <1>2, <1>4, <1>5, <2>1
  <2> DEFINE d == b - NO_COLUMNS
  <2>3. d \in Starts /\ d \in Nat
    BY <1>3, <2>2, StartsAre
  <2>4. d + NO_COLUMNS = b
    BY <1>2, <1>5
  <2> HIDE DEF d
  <2>5. new.cursor - (n + 1) = d /\ n + 1 <= new.cursor
    BY <1>1, <1>2, <1>5, <2>1, <2>3, <2>4
  <2>6. ASSUME NEW i \in 1 .. n + 1
        PROVE  new.cells[d + i - 1] = more[i]
    <3>1. d + i - 1 \in 0 .. (Cells - NO_COLUMNS) - 1
      BY <1>1, <1>2, <1>5, <2>1, <2>3, <2>4
    <3>2. (d + i - 1) + NO_COLUMNS = b + i - 1
      BY <1>1, <1>2, <1>5, <2>3, <2>4
    <3>3. CASE i = n + 1
      <4>1. b + i - 1 = x
        BY <1>1, <1>2, <1>5, <3>3
      <4> QED BY <1>1, <2>1, <3>1, <3>2, <3>3, <4>1
    <3>4. CASE i # n + 1
      <4>1. i \in 1 .. n /\ b + i - 1 # x
        BY <1>1, <1>2, <1>5, <3>4
      <4> QED BY <1>1, <1>3, <2>1, <3>1, <3>2, <4>1
    <3> QED BY <3>3, <3>4
  <2>7. Shows(new, more)
    BY <1>1, <2>3, <2>5, <2>6 DEF Shows
  <2> QED BY <2>7 DEF new, more
<1>8. x + 1 < Cells \/ x + 1 >= Cells
  BY <1>2
<1> QED BY <1>6, <1>7, <1>8

\* At the start of a line, a text shorter than the screen.
LEMMA PutAllShows ==
  ASSUME NEW V, Blank \in V, NEW s \in On(V), NEW text \in Seq(V), s.cursor \in Starts,
         Len(text) < Cells
  PROVE  Shows(PutAll(s, text), text)
<1> DEFINE N == Len(text)
           part(i) == SubSeq(text, 1, i)
<1>1. PICK put \in [0 .. N -> On(V)] : Puts(put, s, text) /\ PutAll(s, text) = put[N]
  BY PutAllIs
<1>2. N \in Nat
  OBVIOUS
<1> DEFINE Q == {i \in Nat : i <= N => Shows(put[i], part(i))}
<1>3. 0 \in Q
  <2>1. put[0] = s
    BY <1>1, <1>2 DEF Puts
  <2>2. s.cursor \in Nat
    BY Sizes DEF On
  <2>3. part(0) = <<>> /\ Len(part(0)) = 0
    OBVIOUS
  <2>4. s.cursor - 0 = s.cursor /\ 0 <= s.cursor
    BY <2>2
  <2>5. Shows(s, part(0))
    BY <2>3, <2>4 DEF Shows
  <2> QED BY <2>1, <2>5
<1>4. \A i \in Q : i + 1 \in Q
  <2> SUFFICES ASSUME NEW i \in Q PROVE i + 1 \in Q
    OBVIOUS
  <2>0. i \in Nat /\ i + 1 \in Nat
    OBVIOUS
  <2> SUFFICES ASSUME i + 1 <= N PROVE Shows(put[i + 1], part(i + 1))
    BY <2>0
  <2>1. i + 1 \in 0 .. N /\ i + 1 # 0 /\ (i + 1) - 1 = i /\ i \in 0 .. N /\ i + 1 \in 1 .. N /\ i <= N
    BY <1>2, <2>0
  <2>2. put[i + 1] = Put(put[i], text[i + 1])
    BY <1>1, <2>1 DEF Puts
  <2>3. put[i] \in On(V) /\ text[i + 1] \in V
    BY <2>1
  <2>4. part(i) \in Seq(V) /\ Len(part(i)) = i
    BY <2>1
  <2>5. part(i + 1) = Append(part(i), text[i + 1])
    BY <2>1
  <2>6. i + 1 < Cells
    BY <1>2, <2>0, Sizes
  <2>7. Shows(put[i], part(i))
    BY <2>1
  <2> HIDE DEF part
  <2> QED BY <2>2, <2>3, <2>4, <2>5, <2>6, <2>7, PutShows
<1>5. Q = Nat
  <2> HIDE DEF Q
  <2>1. Q \in SUBSET Nat
    BY DEF Q
  <2> QED BY <1>3, <1>4, <2>1, SetInduction
<1>6. Shows(put[N], part(N))
  BY <1>2, <1>5
<1>7. part(N) = text
  OBVIOUS
<1> QED BY <1>1, <1>6, <1>7
-----------------------------------------------------------------------------
(***************************************************************************)
(* What of a line is shown again                                           *)
(***************************************************************************)
Chosen(shown, line, echoed) ==
  shown = [i \in 0 .. Len(line) |->
             IF i = 0 THEN <<>>
             ELSE IF echoed[i] THEN Append(shown[i - 1], line[i]) ELSE shown[i - 1]]

LEMMA ChosenExist ==
  ASSUME NEW V, NEW line \in Seq(V), NEW echoed
  PROVE  \E shown \in [0 .. Len(line) -> Seq(V)] : Chosen(shown, line, echoed)
<1> DEFINE N == Len(line)
           S == Seq(V)
           Longer(r, n) == IF echoed[n] THEN Append(r, line[n]) ELSE r
           D == [n \in Nat |-> [r \in S |-> IF n \in 1 .. N THEN Longer(r, n) ELSE r]]
<1>1. N \in Nat /\ \A n \in 1 .. N : line[n] \in V
  OBVIOUS
<1> HIDE DEF N
<1>2. \A r \in S : \A n \in 1 .. N : Longer(r, n) \in S
  BY <1>1
<1> HIDE DEF Longer
<1>3. <<>> \in S
  OBVIOUS
<1> HIDE DEF S
<1>4. D \in [Nat -> [S -> S]]
  BY <1>2
<1>5. PICK f \in [0 .. N -> S] : Iterates(f, N, <<>>, D)
  <2> HIDE DEF D
  <2> QED BY <1>1, <1>3, <1>4, IteratesExist
<1>6. \A n \in 0 .. N : n # 0 => D[n][f[n - 1]] = Longer(f[n - 1], n)
  <2> TAKE n \in 0 .. N
  <2> HAVE n # 0
  <2>1. n \in 1 .. N /\ n \in Nat /\ n - 1 \in 0 .. N
    BY <1>1
  <2>2. f[n - 1] \in S
    BY <2>1
  <2> QED BY <2>1, <2>2
<1> HIDE DEF D
<1>7. Chosen(f, line, echoed)
  <2>1. f = [n \in 0 .. N |-> IF n = 0 THEN <<>> ELSE D[n][f[n - 1]]]
    BY <1>5 DEF Iterates
  <2>2. f = [n \in 0 .. N |-> IF n = 0 THEN <<>> ELSE Longer(f[n - 1], n)]
    BY <1>6, <2>1
  <2> QED BY <2>2 DEF Chosen, N, Longer
<1> QED BY <1>7 DEF N, S

\* The characters that are shown, and how many: for every part of the line.
LEMMA ChosenAre ==
  ASSUME NEW V, NEW line \in Seq(V), NEW echoed,
         NEW shown, Chosen(shown, line, echoed),
         NEW W, \A i \in 1 .. Len(line) : echoed[i] => line[i] \in W
  PROVE  \A i \in 0 .. Len(line) : shown[i] \in Seq(W) /\ Len(shown[i]) <= i
<1> DEFINE N == Len(line)
           Q == {i \in Nat : i <= N => shown[i] \in Seq(W) /\ Len(shown[i]) <= i}
<1>1. N \in Nat
  OBVIOUS
<1>2. 0 \in Q
  <2>1. shown[0] = <<>>
    BY <1>1 DEF Chosen
  <2>2. <<>> \in Seq(W) /\ Len(<<>>) <= 0
    OBVIOUS
  <2> QED BY <2>1, <2>2
<1>3. \A i \in Q : i + 1 \in Q
  <2> SUFFICES ASSUME NEW i \in Q PROVE i + 1 \in Q
    OBVIOUS
  <2>0. i \in Nat /\ i + 1 \in Nat
    OBVIOUS
  <2> SUFFICES ASSUME i + 1 <= N PROVE shown[i + 1] \in Seq(W) /\ Len(shown[i + 1]) <= i + 1
    BY <2>0
  <2>1. i + 1 \in 0 .. N /\ i + 1 # 0 /\ (i + 1) - 1 = i /\ i + 1 \in 1 .. N /\ i <= N
    BY <1>1, <2>0
  <2>2. shown[i] \in Seq(W) /\ Len(shown[i]) <= i /\ Len(shown[i]) \in Nat
    BY <2>1
  <2>3. shown[i + 1] = IF echoed[i + 1] THEN Append(shown[i], line[i + 1]) ELSE shown[i]
    BY <2>1 DEF Chosen
  <2>4. CASE echoed[i + 1]
    <3>1. line[i + 1] \in W
      BY <2>1, <2>4
    <3>2. Append(shown[i], line[i + 1]) \in Seq(W) /\ Len(Append(shown[i], line[i + 1])) = Len(shown[i]) + 1
      BY <2>2, <3>1
    <3> QED BY <2>0, <2>2, <2>3, <2>4, <3>2
  <2>5. CASE ~echoed[i + 1]
    <3>1. shown[i + 1] = shown[i]
      BY <2>3, <2>5
    <3> QED BY <2>0, <2>2, <3>1
  <2> QED BY <2>4, <2>5
<1>4. Q = Nat
  <2> HIDE DEF Q
  <2>1. Q \in SUBSET Nat
    BY DEF Q
  <2> QED BY <1>2, <1>3, <2>1, SetInduction
<1> QED BY <1>1, <1>4

\* What is shown of the first n characters depends on those alone.
LEMMA ChosenAgree ==
  ASSUME NEW V, NEW line \in Seq(V), NEW echoed, NEW a, Chosen(a, line, echoed),
         NEW line2 \in Seq(V), NEW echoed2, NEW b, Chosen(b, line2, echoed2),
         NEW n \in Nat, n <= Len(line), n <= Len(line2),
         \A i \in 1 .. n : line[i] = line2[i] /\ (echoed[i] <=> echoed2[i])
  PROVE  a[n] = b[n]
<1> DEFINE Q == {i \in Nat : i <= n => a[i] = b[i]}
<1>1. 0 \in Q
  <2>1. a[0] = <<>> /\ b[0] = <<>>
    BY DEF Chosen
  <2> QED BY <2>1
<1>2. \A i \in Q : i + 1 \in Q
  <2> SUFFICES ASSUME NEW i \in Q PROVE i + 1 \in Q
    OBVIOUS
  <2>0. i \in Nat /\ i + 1 \in Nat
    OBVIOUS
  <2> SUFFICES ASSUME i + 1 <= n PROVE a[i + 1] = b[i + 1]
    BY <2>0
  <2>1. /\ i + 1 \in 0 .. Len(line) /\ i + 1 \in 0 .. Len(line2) /\ i + 1 # 0 /\ (i + 1) - 1 = i
        /\ i + 1 \in 1 .. n /\ i <= n
    BY <2>0
  <2>2. a[i] = b[i]
    BY <2>1
  <2>3. line[i + 1] = line2[i + 1] /\ (echoed[i + 1] <=> echoed2[i + 1])
    BY <2>1
  <2>4. a[i + 1] = IF echoed[i + 1] THEN Append(a[i], line[i + 1]) ELSE a[i]
    BY <2>1 DEF Chosen
  <2>5. b[i + 1] = IF echoed2[i + 1] THEN Append(b[i], line2[i + 1]) ELSE b[i]
    BY <2>1 DEF Chosen
  <2> QED BY <2>2, <2>3, <2>4, <2>5
<1>3. Q = Nat
  <2> HIDE DEF Q
  <2>1. Q \in SUBSET Nat
    BY DEF Q
  <2> QED BY <1>1, <1>2, <2>1, SetInduction
<1> QED BY <1>3

LEMMA VisibleIs ==
  ASSUME NEW V, NEW line \in Seq(V), NEW echoed
  PROVE  \E shown \in [0 .. Len(line) -> Seq(V)] :
           Chosen(shown, line, echoed) /\ Visible(line, echoed) = shown[Len(line)]
<1> DEFINE shown == CHOOSE shown : Chosen(shown, line, echoed)
<1>1. Chosen(shown, line, echoed)
  BY ChosenExist
<1>2. Visible(line, echoed) = shown[Len(line)]
  BY DEF Visible, Chosen
<1> HIDE DEF shown
<1>3. \A i \in 1 .. Len(line) : echoed[i] => line[i] \in V
  OBVIOUS
<1>4. \A i \in 0 .. Len(line) : shown[i] \in Seq(V)
  BY <1>1, <1>3, ChosenAre
<1>5. shown \in [0 .. Len(line) -> Seq(V)]
  BY <1>1, <1>4 DEF Chosen
<1> QED BY <1>1, <1>2, <1>5

\* No more is shown than was typed, and only what is marked.
LEMMA VisibleType ==
  ASSUME NEW V, NEW line \in Seq(V), NEW echoed,
         NEW W, \A i \in 1 .. Len(line) : echoed[i] => line[i] \in W
  PROVE  Visible(line, echoed) \in Seq(W) /\ Len(Visible(line, echoed)) <= Len(line)
<1>1. PICK shown : Chosen(shown, line, echoed) /\ Visible(line, echoed) = shown[Len(line)]
  BY VisibleIs
<1>2. Len(line) \in 0 .. Len(line)
  OBVIOUS
<1> QED BY <1>1, <1>2, ChosenAre

LEMMA VisibleEmpty ==
  ASSUME NEW echoed
  PROVE  Visible(<<>>, echoed) = <<>>
<1>1. <<>> \in Seq({}) /\ Len(<<>>) = 0
  OBVIOUS
<1>2. PICK shown : Chosen(shown, <<>>, echoed) /\ Visible(<<>>, echoed) = shown[Len(<<>>)]
  BY <1>1, VisibleIs
<1>3. 0 \in 0 .. Len(<<>>)
  BY <1>1
<1> QED BY <1>1, <1>2, <1>3 DEF Chosen

\* One character more.
LEMMA VisibleAppend ==
  ASSUME NEW V, NEW line \in Seq(V), NEW c \in V, NEW echoed, NEW echoed2,
         \A i \in 1 .. Len(line) : echoed[i] <=> echoed2[i]
  PROVE  Visible(Append(line, c), echoed2) =
           IF echoed2[Len(line) + 1] THEN Append(Visible(line, echoed), c) ELSE Visible(line, echoed)
<1> DEFINE more == Append(line, c)
           n == Len(line)
<1>1. /\ more \in Seq(V) /\ Len(more) = n + 1 /\ n \in Nat /\ more[n + 1] = c
      /\ \A i \in 1 .. n : more[i] = line[i]
  OBVIOUS
<1>2. PICK a : Chosen(a, line, echoed) /\ Visible(line, echoed) = a[n]
  BY VisibleIs
<1> HIDE DEF more
<1>3. PICK b : Chosen(b, more, echoed2) /\ Visible(more, echoed2) = b[Len(more)]
  BY <1>1, VisibleIs
<1>4. a[n] = b[n]
  <2>1. n <= Len(more) /\ n <= Len(line)
    BY <1>1
  <2>2. \A i \in 1 .. n : line[i] = more[i] /\ (echoed[i] <=> echoed2[i])
    BY <1>1
  <2> HIDE DEF n
  <2> QED BY <1>1, <1>2, <1>3, <2>1, <2>2, ChosenAgree
<1> HIDE DEF n
<1>5. n + 1 \in 0 .. Len(more) /\ n + 1 # 0 /\ (n + 1) - 1 = n
  BY <1>1
<1>6. b[n + 1] = IF echoed2[n + 1] THEN Append(b[n], c) ELSE b[n]
  BY <1>1, <1>3, <1>5 DEF Chosen
<1> QED BY <1>1, <1>2, <1>3, <1>4, <1>6 DEF more, n

\* A part of the line behind which nothing is marked.
LEMMA VisiblePart ==
  ASSUME NEW V, NEW line \in Seq(V), NEW echoed, NEW n \in 0 .. Len(line),
         \A i \in n + 1 .. Len(line) : ~echoed[i]
  PROVE  Visible(SubSeq(line, 1, n), echoed) = Visible(line, echoed)
<1> DEFINE part == SubSeq(line, 1, n)
           N == Len(line)
<1>1. /\ part \in Seq(V) /\ Len(part) = n /\ n \in Nat /\ N \in Nat /\ n <= N
      /\ \A i \in 1 .. n : part[i] = line[i]
  OBVIOUS
<1>2. PICK a : Chosen(a, line, echoed) /\ Visible(line, echoed) = a[N]
  BY VisibleIs
<1> HIDE DEF part
<1>3. PICK b : Chosen(b, part, echoed) /\ Visible(part, echoed) = b[n]
  BY <1>1, VisibleIs
<1>4. a[n] = b[n]
  BY <1>1, <1>2, <1>3, ChosenAgree
<1> DEFINE Q == {k \in Nat : n + k <= N => a[n + k] = a[n]}
<1>5. 0 \in Q
  <2>1. n + 0 = n
    BY <1>1
  <2> QED BY <2>1
<1>6. \A k \in Q : k + 1 \in Q
  <2> SUFFICES ASSUME NEW k \in Q PROVE k + 1 \in Q
    OBVIOUS
  <2>0. k \in Nat /\ k + 1 \in Nat
    OBVIOUS
  <2> SUFFICES ASSUME n + (k + 1) <= N PROVE a[n + (k + 1)] = a[n]
    BY <2>0
  <2>1. /\ n + (k + 1) \in 0 .. N /\ n + (k + 1) # 0 /\ (n + (k + 1)) - 1 = n + k
        /\ n + (k + 1) \in n + 1 .. N /\ n + k <= N
    BY <1>1, <2>0
  <2>2. a[n + k] = a[n]
    BY <2>1
  <2>3. ~echoed[n + (k + 1)]
    BY <2>1
  <2>4. a[n + (k + 1)] = a[n + k]
    BY <1>2, <2>1, <2>3 DEF Chosen
  <2> QED BY <2>2, <2>4
<1>7. Q = Nat
  <2> HIDE DEF Q
  <2>1. Q \in SUBSET Nat
    BY DEF Q
  <2> QED BY <1>5, <1>6, <2>1, SetInduction
<1>8. N - n \in Nat /\ n + (N - n) = N /\ n + (N - n) <= N
  BY <1>1
<1> HIDE DEF N
<1>9. a[n + (N - n)] = a[n]
  <2>1. N - n \in Q
    BY <1>7, <1>8
  <2> QED BY <1>8, <2>1
<1> QED BY <1>2, <1>3, <1>4, <1>8, <1>9 DEF part, N
-----------------------------------------------------------------------------
(***************************************************************************)
(* The invariant                                                           *)
(***************************************************************************)
\* What may be seen.
Plain == Letters \cup Digits \cup Others \cup {Blank}

\* A mark within the line is the mark of a letter; those behind it are left over
\* from earlier lines.
MarkedAreLetters == \A i \in 1 .. Len(snd_buffer) : screen_echoed[i] => snd_buffer[i] \in Letters

\* A line that was pushed away is restored from the start of a line of the screen.
InFront ==
  ~astray => /\ screen.cursor < Cells
             /\ IF input_dirty THEN screen.cursor \in Starts
                ELSE Shows(screen, Visible(snd_buffer, screen_echoed))

TtyInv ==
  /\ TypeOK /\ screen.cells \in [0 .. Cells - 1 -> Plain]
  /\ MarkedAreLetters /\ InFront /\ (input_dirty => ~astray)

LEMMA PlainIs ==
  /\ Blank \in Plain /\ Letters \subseteq Plain /\ Digits \subseteq Plain /\ Others \subseteq Plain
  /\ Plain \subseteq Characters /\ Plain \cap Secrets = {} /\ Letters \cap Secrets = {}
BY TtyAssumption DEF Plain, Characters

\* Screens without a secret, the cursor wherever a word can put it.
Screens == [cells : [0 .. Cells - 1 -> Plain], cursor : 0 .. Offsets - 1]

LEMMA OnIsScreen ==
  ASSUME NEW s \in On(Plain)
  PROVE  s \in Screens /\ s.cursor < Cells /\ s.cursor \in 0 .. Cells - 1
<1>1. Cells \in Nat \ {0} /\ Cells < Offsets /\ Offsets \in Int
  BY Sizes, TtyAssumption
<1>2. s.cursor \in 0 .. Cells - 1 /\ s \in [cells : [0 .. Cells - 1 -> Plain], cursor : 0 .. Cells - 1]
  BY DEF On
<1>3. \A x \in 0 .. Cells - 1 : x \in 0 .. Offsets - 1 /\ x < Cells
  BY <1>1
<1> QED BY <1>2, <1>3 DEF Screens

\* What the invariant says of a screen whose cursor is on it.
LEMMA OnScreen ==
  ASSUME TtyInv, screen.cursor < Cells
  PROVE  screen \in On(Plain)
<1>1. /\ screen \in [cells : [0 .. Cells - 1 -> Characters], cursor : 0 .. Offsets - 1]
      /\ screen.cells \in [0 .. Cells - 1 -> Plain]
  BY DEF TtyInv, TypeOK
<1>2. screen.cursor \in 0 .. Cells - 1
  <2>1. screen.cursor \in 0 .. Offsets - 1
    BY <1>1
  <2> QED BY <2>1, Sizes
<1> QED BY <1>1, <1>2 DEF On

LEMMA LineIs ==
  ASSUME TtyInv
  PROVE  /\ snd_buffer \in Seq(Letters \cup Secrets) /\ Len(snd_buffer) \in 0 .. Cells - 1
         /\ Visible(snd_buffer, screen_echoed) \in Seq(Letters)
         /\ Visible(snd_buffer, screen_echoed) \in Seq(Plain)
         /\ Len(Visible(snd_buffer, screen_echoed)) \in Nat
         /\ Len(Visible(snd_buffer, screen_echoed)) <= Len(snd_buffer)
         /\ Len(Visible(snd_buffer, screen_echoed)) < Cells
<1>1. snd_buffer \in Seq(Letters \cup Secrets) /\ Len(snd_buffer) <= Cells - 1
  BY Sizes DEF TtyInv, TypeOK
<1>2. \A i \in 1 .. Len(snd_buffer) : screen_echoed[i] => snd_buffer[i] \in Letters
  BY DEF TtyInv, MarkedAreLetters
<1>3. \A i \in 1 .. Len(snd_buffer) : screen_echoed[i] => snd_buffer[i] \in Plain
  BY <1>2, PlainIs
<1>4. /\ Visible(snd_buffer, screen_echoed) \in Seq(Letters)
      /\ Len(Visible(snd_buffer, screen_echoed)) <= Len(snd_buffer)
  BY <1>1, <1>2, VisibleType
<1>5. Visible(snd_buffer, screen_echoed) \in Seq(Plain)
  BY <1>1, <1>3, VisibleType
<1>6. Len(Visible(snd_buffer, screen_echoed)) \in Nat /\ Len(snd_buffer) \in Nat
  BY <1>1, <1>4
<1> QED BY <1>1, <1>4, <1>5, <1>6, Sizes

\* The screen that a key finds.
LEMMA RestoredIs ==
  ASSUME TtyInv, screen.cursor < Cells
  PROVE  /\ Restored \in On(Plain)
         /\ ~astray => Shows(Restored, Visible(snd_buffer, screen_echoed))
<1>1. screen \in On(Plain) /\ Blank \in Plain
  BY OnScreen, PlainIs
<1> DEFINE line == Visible(snd_buffer, screen_echoed)
<1>2. line \in Seq(Plain) /\ Len(line) < Cells
  BY LineIs
<1> HIDE DEF line
<1>3. CASE input_dirty
  <2>1. Restored = PutAll(screen, line)
    BY <1>3 DEF Restored, line
  <2>2. Restored \in On(Plain)
    BY <1>1, <1>2, <2>1, PutAllStays
  <2>3. ~astray => screen.cursor \in Starts
    BY <1>3 DEF TtyInv, InFront
  <2>4. ~astray => Shows(Restored, line)
    BY <1>1, <1>2, <2>1, <2>3, PutAllShows
  <2> QED BY <2>2, <2>4 DEF line
<1>4. CASE ~input_dirty
  <2>1. Restored = screen
    BY <1>4 DEF Restored
  <2>2. ~astray => Shows(screen, line)
    BY <1>4 DEF TtyInv, InFront, line
  <2> QED BY <1>1, <2>1, <2>2 DEF line
<1> QED BY <1>3, <1>4

\* backspace takes the last character away, or leaves the screen.
LEMMA EraseIs ==
  ASSUME NEW s \in On(Plain)
  PROVE  /\ Erase(s) \in Screens
         /\ s.cursor > 0 =>
              /\ Erase(s).cursor = s.cursor - 1
              /\ \A j \in 0 .. Cells - 1 : j # s.cursor - 1 => Erase(s).cells[j] = s.cells[j]
<1> DEFINE x == s.cursor
           l == Left(s)
           p == Put(l, Blank)
<1>1. /\ x \in 0 .. Cells - 1 /\ s.cells \in [0 .. Cells - 1 -> Plain]
      /\ s = [cells |-> s.cells, cursor |-> x]
  BY DEF On
<1>2. Cells \in Nat \ {0} /\ Cells < Offsets /\ Offsets \in Nat
  BY Sizes, TtyAssumption
<1> HIDE DEF x
<1>3. \A r \in On(Plain) : Left(r) = [cells |-> r.cells, cursor |-> (r.cursor + Offsets - 1) % Offsets]
  BY DEF Left, On
<1>4. \A y \in 0 .. Cells - 1 : /\ (y + Offsets - 1) % Offsets \in 0 .. Offsets - 1
                                /\ y > 0 => (y + Offsets - 1) % Offsets = y - 1
  <2> TAKE y \in 0 .. Cells - 1
  <2>1. (y + Offsets - 1) % Offsets \in 0 .. Offsets - 1
    BY <1>2
  <2>2. ASSUME y > 0 PROVE (y + Offsets - 1) % Offsets = y - 1
    <3>1. y - 1 \in 0 .. Offsets - 1 /\ y + Offsets - 1 = (y - 1) + Offsets
      BY <1>2, <2>2
    <3>2. ((y - 1) + Offsets) % Offsets = y - 1
      BY <1>2, <3>1
    <3> QED BY <3>1, <3>2
  <2> QED BY <2>1, <2>2
<1>5. CASE x = 0
  <2>1. Erase(s) = l
    BY <1>5 DEF Erase, x
  <2>2. l = [cells |-> s.cells, cursor |-> (x + Offsets - 1) % Offsets]
    BY <1>3 DEF x
  <2>3. Erase(s) \in Screens
    BY <1>1, <1>4, <2>1, <2>2 DEF Screens
  <2> QED BY <1>5, <2>3 DEF x
<1>6. CASE x > 0
  <2>1. Erase(s) = Left(p)
    BY <1>1, <1>6 DEF Erase, x
  <2>2. l = [cells |-> s.cells, cursor |-> x - 1]
    BY <1>1, <1>3, <1>4, <1>6 DEF x
  <2>3. x - 1 \in 0 .. Cells - 1 /\ (x - 1) + 1 = x /\ x < Cells
    BY <1>1, <1>2, <1>6
  <2>4. l \in On(Plain) /\ l.cursor + 1 < Cells /\ l.cursor = x - 1 /\ l.cells = s.cells
    BY <1>1, <2>2, <2>3 DEF On
  <2> HIDE DEF l
  <2>5. /\ p \in On(Plain) /\ p.cursor = x
        /\ \A j \in 0 .. Cells - 1 : p.cells[j] = IF j = x - 1 THEN Blank ELSE s.cells[j]
    BY <2>3, <2>4, PlainIs, PutIs
  <2> HIDE DEF p
  <2>6. Left(p) = [cells |-> p.cells, cursor |-> x - 1]
    BY <1>1, <1>3, <1>4, <1>6, <2>5
  <2>7. p.cells \in [0 .. Cells - 1 -> Plain] /\ x - 1 \in 0 .. Offsets - 1
    <3>1. p.cells \in [0 .. Cells - 1 -> Plain]
      BY <2>5 DEF On
    <3> QED BY <1>2, <2>3, <3>1
  <2>8. Erase(s) \in Screens
    BY <2>1, <2>6, <2>7 DEF Screens
  <2> QED BY <2>1, <2>5, <2>6, <2>8 DEF x
<1>7. x = 0 \/ x > 0
  BY <1>1
<1> QED BY <1>5, <1>6, <1>7

LEMMA EraseShows ==
  ASSUME NEW s \in On(Plain), NEW line \in Seq(Plain), NEW c, Shows(s, Append(line, c))
  PROVE  Shows(Erase(s), line) /\ Erase(s).cursor < Cells
<1> DEFINE n == Len(line)
           x == s.cursor
           more == Append(line, c)
<1>1. /\ n \in Nat /\ Len(more) = n + 1
      /\ \A i \in 1 .. n : more[i] = line[i]
  OBVIOUS
<1>2. x \in 0 .. Cells - 1 /\ Cells \in Nat
  BY Sizes DEF On
<1>3. n + 1 <= x /\ x - (n + 1) \in Starts
      /\ \A i \in 1 .. n + 1 : s.cells[(x - (n + 1)) + i - 1] = more[i]
  BY <1>1 DEF Shows
<1>4. x > 0 => /\ Erase(s).cursor = x - 1
               /\ \A j \in 0 .. Cells - 1 : j # x - 1 => Erase(s).cells[j] = s.cells[j]
  BY EraseIs
<1> HIDE DEF n, x, more
<1>5. x > 0
  BY <1>1, <1>2, <1>3
<1> DEFINE b == x - (n + 1)
<1>6. (x - 1) - n = b /\ n <= x - 1 /\ x - 1 < Cells /\ b \in Nat
  BY <1>1, <1>2, <1>3
<1>7. \A i \in 1 .. n : Erase(s).cells[b + i - 1] = line[i]
  <2> TAKE i \in 1 .. n
  <2>1. b + i - 1 \in 0 .. Cells - 1 /\ b + i - 1 # x - 1 /\ i \in 1 .. n + 1
    BY <1>1, <1>2, <1>6
  <2> HIDE DEF b
  <2>2. s.cells[b + i - 1] = more[i]
    BY <1>3, <2>1 DEF b
  <2> QED BY <1>1, <1>4, <1>5, <2>1, <2>2
<1> QED BY <1>3, <1>4, <1>5, <1>6, <1>7 DEF Shows, n
-----------------------------------------------------------------------------
(***************************************************************************)
(* Steps                                                                   *)
(***************************************************************************)
\* The texts that a receive leaves in the buffer.
Held == {text \in Seq(Others) : Len(text) <= MAX_MSG_SIZE - 2}

\* What a step has to leave; the rest of TypeOK is about single assignments.
Simple ==
  /\ rcv_buffer \in Held
  /\ echo \in BOOLEAN /\ input_dirty \in BOOLEAN /\ astray \in BOOLEAN
  /\ shiftCount \in 0 .. Word - 1

Line ==
  /\ snd_buffer \in Seq(Letters \cup Secrets) /\ Len(snd_buffer) <= BUFFER_SIZE
  /\ screen_echoed \in [1 .. BUFFER_SIZE -> BOOLEAN] /\ MarkedAreLetters

LEMMA InvIs == TtyInv <=> screen \in Screens /\ Simple /\ Line /\ InFront /\ (input_dirty => ~astray)
<1>1. TtyInv => screen \in Screens
  BY DEF TtyInv, TypeOK, Screens
<1>2. ASSUME screen \in Screens
      PROVE  /\ screen \in [cells : [0 .. Cells - 1 -> Characters], cursor : 0 .. Offsets - 1]
             /\ screen.cells \in [0 .. Cells - 1 -> Plain]
  <2>1. [0 .. Cells - 1 -> Plain] \subseteq [0 .. Cells - 1 -> Characters]
    BY PlainIs
  <2> QED BY <1>2, <2>1 DEF Screens
<1> QED BY <1>1, <1>2 DEF TtyInv, TypeOK, Simple, Line, Held

LEMMA InvIsNext ==
  ASSUME screen' \in Screens, Simple', Line', InFront', input_dirty' => ~astray'
  PROVE  TtyInv'
<1>1. ASSUME screen' \in Screens
      PROVE  /\ screen' \in [cells : [0 .. Cells - 1 -> Characters], cursor : 0 .. Offsets - 1]
             /\ screen'.cells \in [0 .. Cells - 1 -> Plain]
  <2>1. [0 .. Cells - 1 -> Plain] \subseteq [0 .. Cells - 1 -> Characters]
    BY PlainIs
  <2> QED BY <1>1, <2>1 DEF Screens
<1> QED BY <1>1 DEF TtyInv, TypeOK, Simple, Line, Held

\* A key that edits no line and shows no text.
LEMMA PlainKeyKeeps ==
  ASSUME TtyInv, screen.cursor < Cells,
         screen' = Restored, UNCHANGED <<snd_buffer, screen_echoed>>,
         echo' \in BOOLEAN, shiftCount' \in 0 .. Word - 1,
         input_dirty' = FALSE, astray' = (astray /\ ~input_dirty), UNCHANGED rcv_buffer
  PROVE  TtyInv'
<1>1. Simple /\ Line /\ (input_dirty => ~astray)
  BY InvIs
<1>2. screen' \in Screens /\ screen'.cursor < Cells
  BY RestoredIs, OnIsScreen
<1>3. Simple'
  BY <1>1 DEF Simple
<1>4. Line'
  BY <1>1 DEF Line, MarkedAreLetters
<1>5. ~astray' => ~astray
  BY <1>1
<1>6. InFront'
  BY <1>2, <1>5, RestoredIs DEF InFront, Shows
<1> QED BY <1>2, <1>3, <1>4, <1>6, InvIsNext

LEMMA LetterKeeps ==
  ASSUME TtyInv, screen.cursor < Cells, NEW c \in Letters \cup Secrets, Letter(c),
         input_dirty' = FALSE, astray' = (astray /\ ~input_dirty), UNCHANGED rcv_buffer
  PROVE  TtyInv'
<1> DEFINE n == Len(snd_buffer)
           line == Visible(snd_buffer, screen_echoed)
<1>1. Simple /\ Line /\ (input_dirty => ~astray)
  BY InvIs
<1>2. ~astray' => ~astray
  BY <1>1
<1>3. /\ snd_buffer \in Seq(Letters \cup Secrets) /\ n \in 0 .. Cells - 1
      /\ line \in Seq(Plain) /\ Len(line) <= n /\ Len(line) \in Nat
  BY LineIs
<1>4. Restored \in On(Plain) /\ (~astray => Shows(Restored, line))
  BY RestoredIs
<1>5. /\ c \in (IF echo THEN Letters ELSE Secrets)
      /\ UNCHANGED <<echo, shiftCount>>
  BY DEF Letter
<1>6. Simple'
  BY <1>1, <1>5 DEF Simple
<1>7. CASE ~Room
  <2>1. screen' = Restored /\ UNCHANGED <<screen_echoed, snd_buffer>>
    BY <1>7 DEF Letter
  <2> QED BY <1>1, <1>5, <1>6, <2>1, PlainKeyKeeps DEF Simple
<1>8. CASE Room
  <2>1. /\ screen' = IF echo THEN Put(Restored, c) ELSE Restored
        /\ screen_echoed' = [screen_echoed EXCEPT ![n + 1] = echo]
        /\ snd_buffer' = Append(snd_buffer, c)
    BY <1>8 DEF Letter, Marked
  <2>2. n + 1 \in 1 .. BUFFER_SIZE /\ n + 1 < Cells
    <3>1. n < BUFFER_SIZE
      BY <1>8 DEF Room
    <3> QED BY <1>3, <3>1, Sizes
  <2>3. /\ snd_buffer' \in Seq(Letters \cup Secrets) /\ Len(snd_buffer') = n + 1
        /\ snd_buffer'[n + 1] = c /\ \A i \in 1 .. n : snd_buffer'[i] = snd_buffer[i]
    BY <1>3, <2>1
  <2>4. /\ screen_echoed' \in [1 .. BUFFER_SIZE -> BOOLEAN]
        /\ screen_echoed'[n + 1] = echo
        /\ \A i \in 1 .. n : screen_echoed'[i] = screen_echoed[i]
    <3>1. screen_echoed \in [1 .. BUFFER_SIZE -> BOOLEAN] /\ echo \in BOOLEAN
      BY <1>1 DEF Line, Simple
    <3> HIDE DEF n
    <3>2. \A i \in 1 .. n : i \in 1 .. BUFFER_SIZE /\ i # n + 1
      BY <1>3, <2>2, Sizes
    <3> QED BY <2>1, <2>2, <3>1, <3>2
  <2> HIDE DEF n
  <2>5. MarkedAreLetters'
    <3> SUFFICES ASSUME NEW i \in 1 .. n + 1, screen_echoed'[i]
                 PROVE  snd_buffer'[i] \in Letters
      BY <2>3 DEF MarkedAreLetters
    <3>1. CASE i = n + 1
      BY <1>5, <2>3, <2>4, <3>1
    <3>2. CASE i # n + 1
      <4>1. i \in 1 .. n
        BY <1>3, <3>2
      <4> QED BY <1>1, <2>3, <2>4, <4>1 DEF Line, MarkedAreLetters, n
    <3> QED BY <3>1, <3>2
  <2>6. Line'
    <3>1. n + 1 <= BUFFER_SIZE
      BY <2>2
    <3> QED BY <2>3, <2>4, <2>5, <3>1 DEF Line
  <2>7. Visible(snd_buffer, screen_echoed)' = IF echo THEN Append(line, c) ELSE line
    <3>1. \A i \in 1 .. Len(snd_buffer) : screen_echoed[i] <=> screen_echoed'[i]
      BY <2>4 DEF n
    <3>2. Visible(Append(snd_buffer, c), screen_echoed') =
            IF screen_echoed'[Len(snd_buffer) + 1] THEN Append(line, c) ELSE line
      BY <1>3, <3>1, VisibleAppend
    <3> QED BY <2>1, <2>4, <3>2 DEF n
  <2> HIDE DEF line
  <2>8. screen' \in On(Plain) /\ (~astray => Shows(screen', IF echo THEN Append(line, c) ELSE line))
    <3>1. CASE ~echo
      BY <1>4, <2>1, <3>1
    <3>2. CASE echo
      <4>1. c \in Plain /\ Blank \in Plain
        BY <1>5, <3>2, PlainIs
      <4>2. Len(line) + 1 < Cells
        BY <1>3, <2>2, Sizes
      <4>3. Put(Restored, c) \in On(Plain)
        BY <1>4, <4>1, PutIs
      <4>4. ASSUME ~astray PROVE Shows(Put(Restored, c), Append(line, c))
        <5>1. Shows(Restored, line)
          BY <1>4, <4>4
        <5> QED BY <1>3, <1>4, <4>1, <4>2, <5>1, PutShows
      <4> QED BY <2>1, <3>2, <4>3, <4>4
    <3> QED BY <3>1, <3>2
  <2>9. screen' \in Screens /\ screen'.cursor < Cells
    BY <2>8, OnIsScreen
  <2>10. InFront'
    <3>1. ~astray' => Shows(screen', Visible(snd_buffer, screen_echoed)')
      BY <1>2, <2>7, <2>8
    <3> QED BY <2>9, <3>1 DEF InFront, Shows
  <2> QED BY <1>6, <2>6, <2>9, <2>10, InvIsNext
<1> QED BY <1>7, <1>8

LEMMA DigitKeeps ==
  ASSUME TtyInv, screen.cursor < Cells, NEW d \in Digits, Digit(d),
         input_dirty' = FALSE, astray' = TRUE, UNCHANGED rcv_buffer
  PROVE  TtyInv'
<1>1. Simple /\ Line
  BY InvIs
<1>2. /\ screen' = Put(Restored, d)
      /\ UNCHANGED <<snd_buffer, screen_echoed, echo, shiftCount>>
  BY DEF Digit
<1>3. screen' \in On(Plain)
  BY <1>2, RestoredIs, PlainIs, PutIs
<1>4. screen' \in Screens
  BY <1>3, OnIsScreen
<1>5. Simple' /\ Line' /\ InFront'
  BY <1>1, <1>2 DEF Simple, Line, MarkedAreLetters, InFront
<1> QED BY <1>4, <1>5, InvIsNext

LEMMA EnterKeeps ==
  ASSUME TtyInv, screen.cursor < Cells, Enter,
         input_dirty' = FALSE, astray' = FALSE, UNCHANGED rcv_buffer
  PROVE  TtyInv'
<1>1. Simple /\ Line
  BY InvIs
<1>2. /\ screen' = NewLine(Restored) /\ snd_buffer' = <<>>
      /\ UNCHANGED <<screen_echoed, echo, shiftCount>>
  BY DEF Enter
<1>3. screen' \in On(Plain) /\ screen'.cursor \in Starts
  BY <1>2, RestoredIs, PlainIs, NewLineIs
<1>4. screen' \in Screens /\ screen'.cursor < Cells /\ screen'.cursor \in Nat
  <2>1. screen'.cursor \in Nat
    BY <1>3, StartsAre
  <2> QED BY <1>3, <2>1, OnIsScreen
<1>5. Len(<<>>) = 0 /\ <<>> \in Seq(Letters \cup Secrets) /\ 0 <= BUFFER_SIZE
  BY Sizes
<1>6. Simple' /\ Line'
  <2>1. Simple'
    BY <1>1, <1>2 DEF Simple
  <2>2. MarkedAreLetters'
    BY <1>2, <1>5 DEF MarkedAreLetters
  <2> QED BY <1>1, <1>2, <1>5, <2>1, <2>2 DEF Line
<1>7. InFront'
  <2>1. Visible(snd_buffer, screen_echoed)' = <<>>
    BY <1>2, VisibleEmpty
  <2>2. screen'.cursor - 0 = screen'.cursor /\ 0 <= screen'.cursor
    BY <1>4
  <2> QED BY <1>3, <1>4, <1>5, <2>1, <2>2 DEF InFront, Shows
<1> QED BY <1>4, <1>6, <1>7, InvIsNext

\* A text on lines of its own.
LEMMA ShownKeeps ==
  ASSUME TtyInv, NEW s \in On(Plain), NEW text \in Seq(Others),
         screen' = Shown(s, text), rcv_buffer' \in Held,
         NEW dirty \in BOOLEAN, input_dirty' = Pushed(dirty), astray' = FALSE,
         UNCHANGED <<snd_buffer, screen_echoed, echo, shiftCount>>
  PROVE  TtyInv'
<1>1. Simple /\ Line
  BY InvIs
<1>2. text \in Seq(Plain)
  <2>1. Others \subseteq Plain
    BY PlainIs
  <2>2. Len(text) \in Nat /\ DOMAIN text = 1 .. Len(text)
    OBVIOUS
  <2>3. text \in [1 .. Len(text) -> Plain]
    BY <2>1
  <2> QED BY <2>2, <2>3
<1>3. Blank \in Plain
  BY PlainIs
<1> DEFINE r == IF snd_buffer = <<>> THEN s ELSE NewLine(s)
<1>4. r \in On(Plain)
  BY <1>3, NewLineIs
<1> HIDE DEF r
<1>5. PutAll(r, text) \in On(Plain)
  BY <1>2, <1>3, <1>4, PutAllStays
<1>6. screen' = NewLine(PutAll(r, text))
  BY DEF Shown, r
<1>7. screen' \in On(Plain) /\ screen'.cursor \in Starts
  BY <1>3, <1>5, <1>6, NewLineIs
<1>8. screen' \in Screens /\ screen'.cursor < Cells /\ screen'.cursor \in Nat
  <2>1. screen'.cursor \in Nat
    BY <1>7, StartsAre
  <2> QED BY <1>7, <2>1, OnIsScreen
<1>9. Simple'
  BY <1>1 DEF Simple, Pushed
<1>10. Line'
  BY <1>1 DEF Line, MarkedAreLetters
<1>11. InFront'
  <2>1. CASE input_dirty'
    BY <1>7, <1>8, <2>1 DEF InFront
  <2>2. CASE ~input_dirty'
    <3>1. snd_buffer' = <<>>
      BY <2>2 DEF Pushed
    <3>2. Visible(snd_buffer, screen_echoed)' = <<>>
      BY <3>1, VisibleEmpty
    <3>3. screen'.cursor - 0 = screen'.cursor /\ 0 <= screen'.cursor /\ Len(<<>>) = 0
      BY <1>8
    <3> QED BY <1>7, <1>8, <2>2, <3>2, <3>3 DEF InFront, Shows
  <2> QED BY <2>1, <2>2
<1> QED BY <1>8, <1>9, <1>10, <1>11, InvIsNext

LEMMA SmallerIs ==
  ASSUME NEW m \in Nat, NEW n \in Nat
  PROVE  Min({m, n}) \in {m, n} /\ Min({m, n}) <= m /\ Min({m, n}) <= n
<1>1. Min({m, n}) = CHOOSE x \in {m, n} : \A y \in {m, n} : x <= y
  BY DEF Min
<1>2. \E x \in {m, n} : \A y \in {m, n} : x <= y
  <2>1. m <= n \/ n <= m
    OBVIOUS
  <2> QED BY <2>1
<1> QED BY <1>1, <1>2

\* The last mark of a line.
LEMMA LastIs ==
  ASSUME NEW n \in Nat, NEW S \in SUBSET (0 .. n), S # {}
  PROVE  Max(S) \in S /\ \A y \in S : Max(S) >= y
<1> DEFINE T == {n - x : x \in S}
<1>1. T \in SUBSET Nat /\ T # {}
  <2>1. \A x \in S : x \in 0 .. n /\ n - x \in Nat
    OBVIOUS
  <2>2. \A k \in T : k \in Nat
    BY <2>1
  <2>3. PICK x \in S : TRUE
    OBVIOUS
  <2>4. n - x \in T
    BY <2>3
  <2> QED BY <2>2, <2>4
<1>2. PICK m \in T : \A k \in T : m <= k
  BY <1>1, LeastElement
<1>3. PICK x \in S : m = n - x
  BY <1>2
<1>4. \A y \in S : x >= y
  <2> TAKE y \in S
  <2>1. n - y \in T
    OBVIOUS
  <2>2. m <= n - y
    BY <1>2, <2>1
  <2> HIDE DEF T
  <2> QED BY <1>3, <2>2
<1> QED BY <1>4 DEF Max

LEMMA BackspaceKeeps ==
  ASSUME TtyInv, screen.cursor < Cells, Backspace,
         input_dirty' = FALSE, astray' = (astray /\ ~input_dirty), UNCHANGED rcv_buffer
  PROVE  TtyInv'
<1> DEFINE n == Len(snd_buffer)
           line == Visible(snd_buffer, screen_echoed)
<1>1. Simple /\ Line /\ (input_dirty => ~astray)
  BY InvIs
<1>2. ~astray' => ~astray
  BY <1>1
<1>3. /\ snd_buffer \in Seq(Letters \cup Secrets) /\ n \in 0 .. Cells - 1 /\ n \in Nat
      /\ line \in Seq(Plain)
  BY LineIs, Sizes
<1>4. Restored \in On(Plain) /\ (~astray => Shows(Restored, line))
  BY RestoredIs
<1>5. UNCHANGED <<screen_echoed, echo, shiftCount>>
  BY DEF Backspace
<1>6. Simple'
  BY <1>1, <1>5 DEF Simple
<1>7. CASE snd_buffer = <<>>
  <2>1. screen' = Restored /\ UNCHANGED snd_buffer
    BY <1>7 DEF Backspace
  <2> QED BY <1>1, <1>5, <2>1, PlainKeyKeeps DEF Simple
<1>8. ASSUME NEW k \in 0 .. n, snd_buffer' = SubSeq(snd_buffer, 1, k)
      PROVE  Line'
  <2>1. /\ snd_buffer' \in Seq(Letters \cup Secrets) /\ Len(snd_buffer') = k
        /\ \A i \in 1 .. k : snd_buffer'[i] = snd_buffer[i]
    BY <1>3, <1>8
  <2>2. Len(snd_buffer) <= BUFFER_SIZE /\ BUFFER_SIZE \in Int
    BY <1>1, Sizes DEF Line
  <2>3. k <= BUFFER_SIZE
    BY <1>3, <2>2
  <2>4. \A i \in 1 .. k : i \in 1 .. n
    BY <1>3
  <2>5. MarkedAreLetters'
    BY <1>1, <1>5, <2>1, <2>4 DEF Line, MarkedAreLetters
  <2> QED BY <1>1, <1>5, <2>1, <2>3, <2>5 DEF Line
<1>9. CASE snd_buffer # <<>> /\ screen_echoed[n]
  <2>1. screen' = Erase(Restored) /\ snd_buffer' = Front(snd_buffer)
    BY <1>9 DEF Backspace
  <2>2. n # 0
    BY <1>3, <1>9
  <2> DEFINE front == SubSeq(snd_buffer, 1, n - 1)
             last == snd_buffer[n]
  <2>3. snd_buffer' = front
    BY <2>1 DEF Front
  <2>4. /\ front \in Seq(Letters \cup Secrets) /\ Len(front) = n - 1
        /\ last \in Letters \cup Secrets /\ snd_buffer = Append(front, last)
        /\ \A i \in 1 .. n - 1 : front[i] = snd_buffer[i]
    <3> DEFINE L == Letters \cup Secrets
    <3>1. snd_buffer \in Seq(L) /\ Len(snd_buffer) # 0
      BY <1>3, <2>2
    <3> HIDE DEF L
    <3>2. /\ front \in Seq(L) /\ Len(front) = Len(snd_buffer) - 1
          /\ \A i \in 1 .. Len(snd_buffer) - 1 : front[i] = snd_buffer[i]
      <4>1. 1 \in 1 .. Len(snd_buffer) + 1 /\ n - 1 \in 0 .. Len(snd_buffer)
        BY <3>1
      <4>2. \A i \in 1 .. n - 1 : snd_buffer[i] \in L
        BY <3>1
      <4>3. front = [i \in 1 .. n - 1 |-> snd_buffer[i]] /\ Len(front) = n - 1
        BY <3>1, <4>1
      <4>4. front \in Seq(L)
        BY <4>1, <4>2, <4>3
      <4> QED BY <4>3, <4>4
    <3>3. last \in L
      BY <3>1
    <3>4. snd_buffer = Append(front, last)
      <4> DEFINE m == Len(snd_buffer)
                 more == Append(front, last)
      <4>1. m \in Nat \ {0} /\ snd_buffer = [i \in 1 .. m |-> snd_buffer[i]]
        BY <3>1
      <4>2. /\ more \in Seq(L) /\ Len(more) = (m - 1) + 1 /\ more[(m - 1) + 1] = last
            /\ \A i \in 1 .. m - 1 : more[i] = front[i]
        BY <3>2, <3>3
      <4> HIDE DEF more
      <4>3. more = [i \in 1 .. Len(more) |-> more[i]]
        BY <4>2
      <4> HIDE DEF m
      <4>4. Len(more) = m /\ more[m] = last
        BY <4>1, <4>2
      <4>5. \A i \in 1 .. m : more[i] = snd_buffer[i]
        <5> TAKE i \in 1 .. m
        <5>1. CASE i = m
          BY <4>4, <5>1 DEF last, m
        <5>2. CASE i # m
          <6>1. i \in 1 .. m - 1
            BY <4>1, <5>2
          <6> QED BY <3>2, <4>2, <6>1 DEF m
        <5> QED BY <5>1, <5>2
      <4> QED BY <4>1, <4>3, <4>4, <4>5 DEF more
    <3> QED BY <3>2, <3>3, <3>4 DEF L
  <2>5. Line'
    <3>1. n - 1 \in 0 .. n
      BY <1>3, <2>2
    <3> QED BY <1>8, <2>3, <3>1
  <2>6. screen' \in Screens
    BY <1>4, <2>1, EraseIs
  <2> HIDE DEF front, last
  <2>7. line = Append(Visible(front, screen_echoed), last)
    <3>1. Visible(Append(front, last), screen_echoed) =
            IF screen_echoed[Len(front) + 1] THEN Append(Visible(front, screen_echoed), last)
            ELSE Visible(front, screen_echoed)
      BY <2>4, VisibleAppend
    <3>2. Len(front) + 1 = n
      BY <1>3, <2>4
    <3> QED BY <1>9, <2>4, <3>1, <3>2
  <2>8. Visible(front, screen_echoed) \in Seq(Plain)
    <3>1. \A i \in 1 .. Len(front) : screen_echoed[i] => front[i] \in Plain
      <4> TAKE i \in 1 .. Len(front)
      <4>1. i \in 1 .. n - 1 /\ i \in 1 .. n
        BY <1>3, <2>4
      <4>2. screen_echoed[i] => snd_buffer[i] \in Letters
        BY <1>1, <4>1 DEF Line, MarkedAreLetters
      <4> QED BY <2>4, <4>1, <4>2, PlainIs
    <3> QED BY <2>4, <3>1, VisibleType
  <2> HIDE DEF line
  <2>9. ASSUME ~astray
        PROVE  Shows(screen', Visible(front, screen_echoed)) /\ screen'.cursor < Cells
    <3>1. Shows(Restored, Append(Visible(front, screen_echoed), last))
      BY <1>4, <2>7, <2>9
    <3> QED BY <1>4, <2>1, <2>8, <3>1, EraseShows
  <2>10. InFront'
    BY <1>2, <1>5, <2>3, <2>9 DEF InFront, Shows
  <2> QED BY <1>6, <2>5, <2>6, <2>10, InvIsNext
<1>10. CASE snd_buffer # <<>> /\ ~screen_echoed[n]
  <2> DEFINE S == {0} \cup {i \in DOMAIN snd_buffer : screen_echoed[i]}
             k == Max(S)
  <2>1. screen' = Restored /\ snd_buffer' = SubSeq(snd_buffer, 1, k)
    BY <1>10 DEF Backspace
  <2>2. DOMAIN snd_buffer = 1 .. n
    BY <1>3
  <2>3. S \in SUBSET (0 .. n) /\ S # {}
    BY <1>3, <2>2
  <2>4. k \in S /\ \A y \in S : k >= y
    <3> HIDE DEF S, n
    <3> QED BY <1>3, <2>3, LastIs
  <2> HIDE DEF k
  <2>5. k \in 0 .. n
    BY <2>3, <2>4
  <2>6. \A i \in k + 1 .. n : ~screen_echoed[i]
    <3> SUFFICES ASSUME NEW i \in k + 1 .. n, screen_echoed[i] PROVE FALSE
      OBVIOUS
    <3>1. i \in 1 .. n /\ ~(k >= i)
      BY <1>3, <2>5
    <3>2. i \in S
      BY <2>2, <3>1
    <3> QED BY <2>4, <3>1, <3>2
  <2> HIDE DEF S
  <2>7. Line'
    BY <1>8, <2>1, <2>5
  <2>8. Visible(SubSeq(snd_buffer, 1, k), screen_echoed) = line
    BY <1>3, <2>5, <2>6, VisiblePart
  <2>9. screen' \in Screens /\ screen'.cursor < Cells
    BY <1>4, <2>1, OnIsScreen
  <2>10. InFront'
    <3>1. Visible(snd_buffer, screen_echoed)' = line
      BY <1>5, <2>1, <2>8
    <3> HIDE DEF line
    <3> QED BY <1>2, <1>4, <2>1, <2>9, <3>1 DEF InFront, Shows
  <2> QED BY <1>6, <2>7, <2>9, <2>10, InvIsNext
<1> QED BY <1>7, <1>9, <1>10

LEMMA KeyKeeps ==
  ASSUME TtyInv, screen.cursor < Cells, process_scancode
  PROVE  TtyInv'
<1>1. echo \in BOOLEAN /\ shiftCount \in 0 .. Word - 1 /\ Word \in Nat /\ Word > 1
  BY TtyAssumption DEF TtyInv, TypeOK
<1>2. CASE /\ \/ \E c \in Letters \cup Secrets : Letter(c)
              \/ Backspace \/ Escape \/ Shift \/ OtherKey
           /\ input_dirty' = FALSE /\ astray' = (astray /\ ~input_dirty)
           /\ UNCHANGED rcv_buffer
  <2>1. CASE \E c \in Letters \cup Secrets : Letter(c)
    BY <1>2, <2>1, LetterKeeps
  <2>2. CASE Backspace
    BY <1>2, <2>2, BackspaceKeeps
  <2>3. CASE Escape
    BY <1>1, <1>2, <2>3, PlainKeyKeeps DEF Escape
  <2>4. CASE Shift
    <3>1. (shiftCount + 1) % Word \in 0 .. Word - 1 /\ (shiftCount + Word - 1) % Word \in 0 .. Word - 1
      BY <1>1
    <3>2. shiftCount' \in 0 .. Word - 1
      BY <2>4, <3>1 DEF Shift
    <3> QED BY <1>1, <1>2, <2>4, <3>2, PlainKeyKeeps DEF Shift
  <2>5. CASE OtherKey
    BY <1>1, <1>2, <2>5, PlainKeyKeeps DEF OtherKey
  <2> QED BY <1>2, <2>1, <2>2, <2>3, <2>4, <2>5
<1>3. CASE /\ \E d \in Digits : Digit(d)
           /\ input_dirty' = FALSE /\ astray' = TRUE
           /\ UNCHANGED rcv_buffer
  BY <1>3, DigitKeeps
<1>4. CASE Enter /\ input_dirty' = FALSE /\ astray' = FALSE /\ UNCHANGED rcv_buffer
  BY <1>4, EnterKeeps
<1>5. CASE \E text \in Texts : Alt(text)
  <2>1. PICK text \in Texts : Alt(text)
    BY <1>5
  <2>2. Restored \in On(Plain) /\ rcv_buffer \in Held /\ text \in Seq(Others)
    BY RestoredIs, TtyAssumption DEF TtyInv, TypeOK, Held
  <2>3. /\ screen' = Shown(Restored, text) /\ input_dirty' = Pushed(FALSE) /\ astray' = FALSE
        /\ rcv_buffer' \in Held
        /\ UNCHANGED <<snd_buffer, screen_echoed, echo, shiftCount>>
    BY <2>1, <2>2 DEF Alt
  <2> QED BY <2>2, <2>3, ShownKeeps
<1> QED BY <1>2, <1>3, <1>4, <1>5 DEF process_scancode

\* Fewer bytes than the buffer holds.
LEMMA BytesFit ==
  ASSUME NEW text \in Seq(Others)
  PROVE  Bytes(text) \in 0 .. Len(text) + 1 /\ Bytes(text) <= MAX_MSG_SIZE - 1
<1> DEFINE n == Len(text) + 1
           copied == Min({n, Limit})
<1>1. n \in Nat /\ MAX_MSG_SIZE \in Nat \ {0} /\ Limit \in {0, MAX_MSG_SIZE}
  BY Sizes DEF MAX_MSG_SIZE, Limit
<1> HIDE DEF n
<1>2. copied \in {n, Limit} /\ copied <= n
  BY <1>1, SmallerIs
<1> HIDE DEF copied
<1>3. Bytes(text) = IF copied < MAX_MSG_SIZE THEN copied ELSE MAX_MSG_SIZE - 1
  BY DEF Bytes, copied, n
<1> QED BY <1>1, <1>2, <1>3 DEF n

\* The byte in front of the buffer ends no line: the line is shorter.
LEMMA LineIsWhole ==
  ASSUME TtyInv
  PROVE  SubSeq(snd_buffer, 1, Min({Len(snd_buffer), BUFFER_SIZE})) = snd_buffer
<1>1. snd_buffer \in Seq(Letters \cup Secrets) /\ Len(snd_buffer) <= BUFFER_SIZE
  BY DEF TtyInv, TypeOK
<1>2. Len(snd_buffer) \in Nat /\ BUFFER_SIZE \in Nat
  BY <1>1, Sizes
<1>3. Min({Len(snd_buffer), BUFFER_SIZE}) = Len(snd_buffer)
  BY <1>1, <1>2, SmallerIs
<1>4. SubSeq(snd_buffer, 1, Len(snd_buffer)) = snd_buffer
  BY <1>1
<1> QED BY <1>3, <1>4

LEMMA MessageKeeps ==
  ASSUME TtyInv, screen.cursor < Cells, NEW text \in Texts, process_message(text)
  PROVE  TtyInv'
<1>1. screen \in On(Plain) /\ rcv_buffer \in Held /\ input_dirty \in BOOLEAN
  BY OnScreen DEF TtyInv, TypeOK, Held
<1>2. text \in Seq(Others)
  BY TtyAssumption
<1>3. rcv_buffer' \in Held /\ UNCHANGED snd_buffer
  <2>1. Bytes(text) \in 0 .. Len(text) + 1 /\ Bytes(text) <= MAX_MSG_SIZE - 1
    BY <1>2, BytesFit
  <2>2. CASE Bytes(text) > 0
    <3> DEFINE n == Bytes(text) - 1
    <3>1. n \in 0 .. Len(text) /\ n <= MAX_MSG_SIZE - 2
      BY <1>2, <2>1, <2>2, Sizes DEF MAX_MSG_SIZE
    <3>2. rcv_buffer' = SubSeq(text, 1, n) /\ UNCHANGED snd_buffer
      BY <2>2 DEF process_message
    <3> HIDE DEF n
    <3>3. SubSeq(text, 1, n) \in Seq(Others) /\ Len(SubSeq(text, 1, n)) = n
      BY <1>2, <3>1
    <3> QED BY <3>1, <3>2, <3>3 DEF Held
  <2>3. CASE ~(Bytes(text) > 0)
    BY <1>1, <2>3, LineIsWhole DEF process_message
  <2> QED BY <2>2, <2>3
<1>4. /\ screen' = Shown(screen, rcv_buffer') /\ input_dirty' = Pushed(input_dirty) /\ astray' = FALSE
      /\ UNCHANGED <<snd_buffer, screen_echoed, echo, shiftCount>>
  BY <1>3 DEF process_message
<1>5. rcv_buffer' \in Seq(Others)
  BY <1>3 DEF Held
<1> QED BY <1>1, <1>3, <1>4, <1>5, ShownKeeps
-----------------------------------------------------------------------------
\* The invariant of the line editor holds in every state: TtyInv.
THEOREM TtyInvariance == Spec => []TtyInv
<1>1. Init => TtyInv
  <2> SUFFICES ASSUME Init PROVE TtyInv
    OBVIOUS
  <2> DEFINE blank == [i \in 0 .. Cells - 1 |-> Blank]
  <2>1. /\ screen = [cells |-> blank, cursor |-> 0] /\ snd_buffer = <<>> /\ rcv_buffer = <<>>
        /\ screen_echoed = [i \in 1 .. BUFFER_SIZE |-> FALSE]
        /\ echo = TRUE /\ input_dirty = FALSE /\ shiftCount = 0 /\ astray = FALSE
    BY DEF Init
  <2>2. blank \in [0 .. Cells - 1 -> Plain] /\ 0 \in 0 .. Offsets - 1 /\ 0 < Cells
    <3>1. blank \in [0 .. Cells - 1 -> Plain]
      BY PlainIs
    <3>2. Offsets \in Nat
      BY TtyAssumption
    <3> QED BY <3>1, <3>2, Sizes
  <2> HIDE DEF blank
  <2>3. screen \in Screens /\ screen.cursor = 0
    BY <2>1, <2>2 DEF Screens
  <2>4. Simple
    <3>1. 0 \in 0 .. Word - 1
      BY TtyAssumption
    <3>2. <<>> \in Held
      BY Sizes DEF Held, MAX_MSG_SIZE
    <3> QED BY <2>1, <3>1, <3>2 DEF Simple
  <2>5. Line
    <3>1. <<>> \in Seq(Letters \cup Secrets) /\ Len(<<>>) = 0 /\ 0 <= BUFFER_SIZE
      BY Sizes
    <3>2. MarkedAreLetters
      BY <2>1, <3>1 DEF MarkedAreLetters
    <3>3. screen_echoed \in [1 .. BUFFER_SIZE -> BOOLEAN]
      BY <2>1
    <3> QED BY <2>1, <3>1, <3>2, <3>3 DEF Line
  <2>6. InFront
    <3>1. Visible(snd_buffer, screen_echoed) = <<>> /\ Len(<<>>) = 0
      BY <2>1, VisibleEmpty
    <3>2. 0 \in Starts /\ 0 - 0 = 0 /\ 0 <= 0
      BY StartsAre
    <3>3. Shows(screen, <<>>)
      BY <2>3, <3>1, <3>2 DEF Shows
    <3> QED BY <2>1, <2>2, <2>3, <3>1, <3>3 DEF InFront
  <2> QED BY <2>1, <2>3, <2>4, <2>5, <2>6, InvIs
<1>2. TtyInv /\ [Next]_vars => TtyInv'
  <2> SUFFICES ASSUME TtyInv, [Next]_vars PROVE TtyInv'
    OBVIOUS
  <2>1. CASE Next
    BY <2>1, KeyKeeps, MessageKeeps DEF Next
  <2>2. CASE UNCHANGED vars
    BY <2>2 DEF vars, TtyInv, TypeOK, MarkedAreLetters, InFront, Shows
  <2> QED BY <2>1, <2>2
<1> QED BY <1>1, <1>2, PTL DEF Spec

\* What the terminal keeps has its types, and the line and the text that was
\* received leave room in their buffers for the 0 at their end: TypeOK.
THEOREM TtyTypeCorrect == Spec => []TypeOK
<1>1. TtyInv => TypeOK
  BY DEF TtyInv
<1> QED BY <1>1, TtyInvariance, PTL

\* The text in front of the cursor is the line that Enter would send, as far as
\* it was typed with echo on: ScreenShowsLine.
THEOREM LineIsShown == Spec => []ScreenShowsLine
<1>1. TtyInv => ScreenShowsLine
  <2> SUFFICES ASSUME TtyInv, ~input_dirty, ~astray
               PROVE  LET line == Visible(snd_buffer, screen_echoed)
                      IN /\ Len(line) <= screen.cursor
                         /\ \A i \in DOMAIN line :
                              screen.cells[screen.cursor - Len(line) + i - 1] = line[i]
    BY DEF ScreenShowsLine
  <2> DEFINE line == Visible(snd_buffer, screen_echoed)
  <2>1. Shows(screen, line)
    BY DEF TtyInv, InFront
  <2>2. DOMAIN line = 1 .. Len(line)
    BY LineIs
  <2> HIDE DEF line
  <2>3. Len(line) <= screen.cursor
    BY <2>1 DEF Shows
  <2>4. \A i \in DOMAIN line : screen.cells[screen.cursor - Len(line) + i - 1] = line[i]
    BY <2>1, <2>2 DEF Shows
  <2> QED BY <2>3, <2>4 DEF line
<1> QED BY <1>1, TtyInvariance, PTL

\* Nothing typed with echo off is ever on the screen: SecretsStayHidden.
THEOREM SecretsAreKept == Spec => []SecretsStayHidden
<1>1. TtyInv => SecretsStayHidden
  BY PlainIs DEF TtyInv, SecretsStayHidden
<1> QED BY <1>1, TtyInvariance, PTL
=============================================================================
