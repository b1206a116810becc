----------------------------- MODULE Induction ------------------------------
(***************************************************************************)
(* Induction over numbers and finite sets, stated about sets instead of    *)
(* predicates so that a theorem of the library with an operator parameter  *)
(* is never needed, and what follows from it about recursive functions and *)
(* sums.  Nothing here speaks of the kernel.                               *)
(***************************************************************************)
EXTENDS Integers, FiniteSets, FiniteSetsExt, SequencesExt, FiniteSetTheorems, SequenceTheorems,
        WellFoundedInduction, TLAPS

\* Every set of natural numbers with a member has a least one.
LEMMA LeastElement ==
  ASSUME NEW T \in SUBSET Nat, T # {}
  PROVE  \E x \in T : \A y \in T : x <= y
<1>1. IsWellFoundedOn(OpToRel(<, Nat), Nat)
  BY NatLessThanWellFounded
<1>2. PICK x \in T : \A y \in T : ~(<<y, x>> \in OpToRel(<, Nat))
  BY <1>1, WFMin
<1>3. \A a, b \in Nat : <<b, a>> \in OpToRel(<, Nat) <=> b < a
  BY DEF OpToRel
<1>4. \A y \in T : x <= y
  <2> TAKE y \in T
  <2>1. x \in Nat /\ y \in Nat
    OBVIOUS
  <2>2. ~(y < x)
    BY <2>1, <1>2, <1>3
  <2>3. QED
    BY <2>1, <2>2
<1>5. QED
  BY <1>4

\* A set of natural numbers that holds 0 and, with each number, the next one
\* holds them all.
LEMMA SetInduction ==
  ASSUME NEW S \in SUBSET Nat, 0 \in S, \A n \in S : n + 1 \in S
  PROVE  S = Nat
<1> SUFFICES ASSUME S # Nat PROVE FALSE
  OBVIOUS
<1> DEFINE T == Nat \ S
<1>1. PICK x \in T : \A y \in T : x <= y
  BY LeastElement
<1>2. x - 1 \in Nat /\ x - 1 \notin T
  BY <1>1
<1>3. x - 1 \in S
  BY <1>2
<1>4. QED
  BY <1>3, <1>1

\* A family of subsets of a finite set S that holds the empty set and stays
\* closed when one member of S joins holds S itself, and all its subsets.
LEMMA SubsetInduction ==
  ASSUME NEW S, IsFiniteSet(S), NEW C, {} \in C,
         \A T \in SUBSET S : \A x \in S : T \in C /\ x \notin T => T \cup {x} \in C
  PROVE  SUBSET S \subseteq C
<1> DEFINE N == {n \in Nat : \A T \in SUBSET S : Cardinality(T) = n => T \in C}
<1>1. \A T \in SUBSET S : IsFiniteSet(T) /\ Cardinality(T) \in Nat
  BY FS_Subset, FS_CardinalityType
<1>2. 0 \in N
  BY <1>1, FS_EmptySet
<1>3. \A n \in N : n + 1 \in N
  <2> SUFFICES ASSUME NEW n \in N, NEW T \in SUBSET S, Cardinality(T) = n + 1
               PROVE  T \in C
    OBVIOUS
  <2>1. T # {}
    BY FS_EmptySet, n \in Nat
  <2>2. PICK x \in T : TRUE
    BY <2>1
  <2>3. Cardinality(T \ {x}) = n
    <3>1. Cardinality(T \ {x}) = Cardinality(T) - 1
      BY <1>1, <2>2, FS_RemoveElement
    <3>2. QED
      BY <3>1, n \in Nat
  <2>4. T \ {x} \in SUBSET S /\ T \ {x} \in C
    BY <2>3
  <2>5. (T \ {x}) \cup {x} = T /\ x \in S
    OBVIOUS
  <2>6. QED
    BY <2>4, <2>5
<1>4. N = Nat
  <2> HIDE DEF N
  <2>1. N \in SUBSET Nat
    BY DEF N
  <2>2. QED
    BY <2>1, <1>2, <1>3, SetInduction
<1>5. QED
  BY <1>1, <1>4
-----------------------------------------------------------------------------
(***************************************************************************)
(* Functions defined by recursion on a counter                             *)
(***************************************************************************)
\* What a recursive function over 0 .. N with the steps D is.
Iterates(f, N, c, D) == f = [n \in 0 .. N |-> IF n = 0 THEN c ELSE D[n][f[n - 1]]]

\* Such a function exists, and its values stay where the steps stay.
LEMMA IteratesExist ==
  ASSUME NEW S, NEW c \in S, NEW D \in [Nat -> [S -> S]], NEW N \in Nat
  PROVE  \E f \in [0 .. N -> S] : Iterates(f, N, c, D)
<1> DEFINE Q == {n \in Nat : \E f \in [0 .. n -> S] : Iterates(f, n, c, D)}
<1>1. 0 \in Q
  <2> DEFINE f == [i \in 0 .. 0 |-> c]
  <2>1. f \in [0 .. 0 -> S] /\ f = [i \in 0 .. 0 |-> IF i = 0 THEN c ELSE D[i][f[i - 1]]]
    OBVIOUS
  <2>2. QED
    BY <2>1 DEF Iterates
<1>2. \A n \in Q : n + 1 \in Q
  <2> SUFFICES ASSUME NEW n \in Nat, NEW f \in [0 .. n -> S], Iterates(f, n, c, D)
               PROVE  n + 1 \in Q
    OBVIOUS
  <2> DEFINE g == [i \in 0 .. n + 1 |-> IF i = n + 1 THEN D[n + 1][f[n]] ELSE f[i]]
  <2>1. f[n] \in S /\ D[n + 1][f[n]] \in S
    OBVIOUS
  <2>2. g \in [0 .. n + 1 -> S]
    BY <2>1
  <2>3. \A i \in 0 .. n + 1 : g[i] = IF i = 0 THEN c ELSE D[i][g[i - 1]]
    <3> TAKE i \in 0 .. n + 1
    <3>1. CASE i = n + 1
      BY <3>1
    <3>2. CASE i # n + 1
      <4>1. i \in 0 .. n /\ g[i] = f[i] /\ (i # 0 => i - 1 \in 0 .. n /\ g[i - 1] = f[i - 1])
        BY <3>2
      <4>2. f[i] = IF i = 0 THEN c ELSE D[i][f[i - 1]]
        BY <4>1 DEF Iterates
      <4>3. QED
        BY <4>1, <4>2
    <3>3. QED
      BY <3>1, <3>2
  <2>4. Iterates(g, n + 1, c, D)
    BY <2>2, <2>3 DEF Iterates
  <2>5. QED
    BY <2>2, <2>4
<1>3. Q = Nat
  <2> HIDE DEF Q
  <2>1. Q \in SUBSET Nat
    BY DEF Q
  <2>2. QED
    BY <2>1, <1>1, <1>2, SetInduction
<1>4. QED
  BY <1>3

\* It is the only one: two of them agree as far as both go.
LEMMA IteratesAgree ==
  ASSUME NEW N \in Nat, NEW M \in Nat, NEW c, NEW D, NEW f, NEW g,
         Iterates(f, N, c, D), Iterates(g, M, c, D)
  PROVE  \A i \in 0 .. N : i <= M => f[i] = g[i]
<1> DEFINE Q == {i \in Nat : i <= N /\ i <= M => f[i] = g[i]}
<1>1. 0 \in Q
  BY DEF Iterates
<1>2. \A i \in Q : i + 1 \in Q
  <2> SUFFICES ASSUME NEW i \in Q, i + 1 <= N, i + 1 <= M PROVE f[i + 1] = g[i + 1]
    OBVIOUS
  <2>1. f[i] = g[i] /\ i \in Nat
    OBVIOUS
  <2>2. i + 1 \in 0 .. N /\ i + 1 \in 0 .. M /\ i + 1 # 0 /\ (i + 1) - 1 = i
    BY <2>1
  <2>3. f[i + 1] = D[i + 1][f[i]] /\ g[i + 1] = D[i + 1][g[i]]
    BY <2>2 DEF Iterates
  <2> QED BY <2>1, <2>3
<1>3. Q = Nat
  <2> HIDE DEF Q
  <2>1. Q \in SUBSET Nat
    BY DEF Q
  <2> QED BY <2>1, <1>1, <1>2, SetInduction
<1> QED BY <1>3
-----------------------------------------------------------------------------
(***************************************************************************)
(* Division                                                                *)
(***************************************************************************)
LEMMA Division ==
  ASSUME NEW n \in Nat, NEW d \in Nat \ {0}
  PROVE  n \div d \in Nat /\ n % d \in 0 .. d - 1 /\ n = d * (n \div d) + (n % d)
<1>1. n \div d \in Nat /\ n % d \in 0 .. d - 1
  OBVIOUS
<1>2. n % d = n - d * (n \div d)
  OBVIOUS
<1>3. d * (n \div d) \in Nat
  BY <1>1
<1> QED BY <1>1, <1>2, <1>3

LEMMA ProductIsNat ==
  ASSUME NEW x \in Nat, NEW y \in Nat
  PROVE  x * y \in Nat
  OBVIOUS

LEMMA ProductGrows ==
  ASSUME NEW d \in Nat, NEW x \in Nat, NEW y \in Nat, x <= y
  PROVE  d * x <= d * y
  OBVIOUS

\* Quotient and remainder are the only such pair.
LEMMA DivisionIsUnique ==
  ASSUME NEW d \in Nat \ {0}, NEW n \in Nat, NEW q \in Nat, NEW r \in 0 .. d - 1,
         n = d * q + r
  PROVE  n \div d = q /\ n % d = r
  OBVIOUS

\* Two divisions, one after the other.
LEMMA DivideTwice ==
  ASSUME NEW n \in Nat, NEW c \in Nat \ {0}, NEW d \in Nat \ {0}
  PROVE  n \div (c * d) = (n \div c) \div d
<1> DEFINE q == n \div c
           r == n % c
           p == q \div d
           o == q % d
<1>1. q \in Nat /\ r \in 0 .. c - 1 /\ n = c * q + r
  BY Division
<1>2. p \in Nat /\ o \in 0 .. d - 1 /\ q = d * p + o
  BY <1>1, Division
<1> HIDE DEF q, r, p, o
<1>3. n = (c * d) * p + (c * o + r)
  <2>1. c * q = c * (d * p) + c * o
    BY <1>1, <1>2, ProductIsNat
  <2>2. c * (d * p) = (c * d) * p
    BY <1>2
  <2>3. c * q \in Nat /\ c * o \in Nat /\ (c * d) * p \in Nat
    BY <1>1, <1>2, ProductIsNat
  <2> QED BY <1>1, <2>1, <2>2, <2>3
<1>4. c * d \in Nat \ {0}
  OBVIOUS
<1>5. c * o + r \in 0 .. c * d - 1
  <2>1. c * o <= c * (d - 1)
    BY <1>2, ProductGrows
  <2>2. c * (d - 1) = c * d - c
    OBVIOUS
  <2>3. c * o \in Nat /\ c * d \in Nat
    BY <1>2, ProductIsNat
  <2> QED BY <1>1, <2>1, <2>2, <2>3
<1>6. n \div (c * d) = p
  <2>1. c * d \in Nat \ {0} /\ c * o + r \in 0 .. c * d - 1
    BY <1>4, <1>5
  <2> QED BY <2>1, <1>2, <1>3, DivisionIsUnique
<1> QED BY <1>6 DEF p, q

\* One digit of a number, in a base b, with d the power of b that belongs to it.
LEMMA DigitOf ==
  ASSUME NEW n \in Nat, NEW d \in Nat \ {0}, NEW b \in Nat \ {0}
  PROVE  /\ (n % (b * d)) \div d = (n \div d) % b
         /\ (n % (b * d)) % d = n % d
<1> DEFINE q == n \div d
           r == n % d
           p == q \div b
           o == q % b
<1>1. q \in Nat /\ r \in 0 .. d - 1 /\ n = d * q + r
  BY Division
<1>2. p \in Nat /\ o \in 0 .. b - 1 /\ q = b * p + o
  BY <1>1, Division
<1> HIDE DEF q, r, p, o
<1>3. n = (b * d) * p + (d * o + r)
  <2>1. d * q = d * (b * p) + d * o
    BY <1>1, <1>2, ProductIsNat
  <2>2. d * (b * p) = (b * d) * p
    BY <1>2
  <2>3. d * q \in Nat /\ d * o \in Nat /\ (b * d) * p \in Nat
    BY <1>1, <1>2, ProductIsNat
  <2> QED BY <1>1, <2>1, <2>2, <2>3
<1>4. b * d \in Nat \ {0}
  OBVIOUS
<1>5. d * o + r \in 0 .. b * d - 1
  <2>1. d * o <= d * (b - 1)
    BY <1>2, ProductGrows
  <2>2. d * (b - 1) = b * d - d
    OBVIOUS
  <2>3. d * o \in Nat /\ b * d \in Nat
    BY <1>2, ProductIsNat
  <2> QED BY <1>1, <2>1, <2>2, <2>3
<1>6. n % (b * d) = d * o + r
  <2>1. b * d \in Nat \ {0} /\ d * o + r \in 0 .. b * d - 1
    BY <1>4, <1>5
  <2> QED BY <2>1, <1>2, <1>3, DivisionIsUnique
<1>7. (d * o + r) \div d = o /\ (d * o + r) % d = r
  <2>1. d * o + r \in Nat /\ o \in Nat
    BY <1>1, <1>2, <1>5
  <2> QED BY <2>1, <1>1, DivisionIsUnique
<1> QED BY <1>6, <1>7 DEF o, r, q
-----------------------------------------------------------------------------
(***************************************************************************)
(* Sums over finite sets                                                   *)
(***************************************************************************)
\* Induction by taking one element away.
LEMMA RemovalInduction ==
  ASSUME NEW S, IsFiniteSet(S), NEW C,
         \A T \in SUBSET S : (\A x \in T : T \ {x} \in C) => T \in C
  PROVE  SUBSET S \subseteq C
<1> DEFINE N == {n \in Nat : \A T \in SUBSET S : Cardinality(T) = n => T \in C}
<1>1. \A T \in SUBSET S : IsFiniteSet(T) /\ Cardinality(T) \in Nat
  BY FS_Subset, FS_CardinalityType
<1>2. 0 \in N
  BY <1>1, FS_EmptySet
<1>3. \A n \in N : n + 1 \in N
  <2> SUFFICES ASSUME NEW n \in N, NEW T \in SUBSET S, Cardinality(T) = n + 1,
                      NEW x \in T
               PROVE  T \ {x} \in C
    OBVIOUS
  <2>1. Cardinality(T \ {x}) = Cardinality(T) - 1
    BY <1>1, FS_RemoveElement
  <2>2. Cardinality(T \ {x}) = n /\ T \ {x} \in SUBSET S
    BY <2>1, n \in Nat
  <2>3. QED
    BY <2>2
<1>4. N = Nat
  <2> HIDE DEF N
  <2>1. N \in SUBSET Nat
    BY DEF N
  <2>2. QED
    BY <2>1, <1>2, <1>3, SetInduction
<1>5. QED
  BY <1>1, <1>4

\* The sum of the numbers f gives to the members of S, and what the function
\* is by which the community module computes it.
Sum(f, S) == MapThenSumSet(LAMBDA p : f[p], S)
Sums(g, f, S) == g = [s \in SUBSET S |->
                        IF s = {} THEN 0
                        ELSE LET x == CHOOSE x \in s : TRUE IN f[x] + g[s \ {x}]]

LEMMA SumsExist ==
  ASSUME NEW S, IsFiniteSet(S), NEW f, \A x \in S : f[x] \in Nat
  PROVE  \E g \in [SUBSET S -> Nat] : Sums(g, f, S)
<1> DEFINE ch(s) == CHOOSE x \in s : TRUE
           Good(g, s) == g[s] = IF s = {} THEN 0 ELSE f[ch(s)] + g[s \ {ch(s)}]
           N == {n \in Nat : \E g \in [SUBSET S -> Nat] :
                               \A s \in SUBSET S : Cardinality(s) <= n => Good(g, s)}
<1>1. \A T \in SUBSET S : IsFiniteSet(T) /\ Cardinality(T) \in Nat
  BY FS_Subset, FS_CardinalityType
<1>2. 0 \in N
  <2> DEFINE g == [s \in SUBSET S |-> 0]
  <2>1. \A s \in SUBSET S : Cardinality(s) <= 0 => s = {}
    BY <1>1, FS_EmptySet
  <2>2. g \in [SUBSET S -> Nat]
    OBVIOUS
  <2>3. QED
    BY <2>1, <2>2
<1>3. \A n \in N : n + 1 \in N
  <2> SUFFICES ASSUME NEW n \in Nat, NEW g \in [SUBSET S -> Nat],
                      \A s \in SUBSET S : Cardinality(s) <= n => Good(g, s)
               PROVE  n + 1 \in N
    OBVIOUS
  <2> DEFINE h == [s \in SUBSET S |-> IF Cardinality(s) = n + 1
                                      THEN f[ch(s)] + g[s \ {ch(s)}] ELSE g[s]]
  <2>1. \A s \in SUBSET S : s # {} => /\ ch(s) \in s
                                      /\ s \ {ch(s)} \in SUBSET S
                                      /\ Cardinality(s \ {ch(s)}) = Cardinality(s) - 1
    BY <1>1, FS_RemoveElement
  <2>2. h \in [SUBSET S -> Nat]
    <3> SUFFICES ASSUME NEW s \in SUBSET S, Cardinality(s) = n + 1
                 PROVE  f[ch(s)] + g[s \ {ch(s)}] \in Nat
      OBVIOUS
    <3>1. s # {}
      <4>1. n + 1 # 0
        OBVIOUS
      <4>2. QED
        BY <4>1, FS_EmptySet, Zenon
    <3>2. f[ch(s)] \in Nat /\ g[s \ {ch(s)}] \in Nat
      BY <3>1, <2>1
    <3>3. QED
      BY <3>2
  <2>3. \A s \in SUBSET S : Cardinality(s) <= n + 1 => Good(h, s)
    <3> SUFFICES ASSUME NEW s \in SUBSET S, Cardinality(s) <= n + 1
                 PROVE  Good(h, s)
      OBVIOUS
    <3>1. CASE s = {}
      <4>1. Cardinality(s) = 0
        BY <3>1, FS_EmptySet
      <4>2. h[s] = g[s] /\ Good(g, s)
        BY <4>1
      <4>3. QED
        BY <4>2, <3>1
    <3>2. CASE s # {}
      <4> DEFINE r == s \ {ch(s)}
      <4>1. r \in SUBSET S /\ Cardinality(r) = Cardinality(s) - 1
        BY <3>2, <2>1
      <4>2. h[r] = g[r]
        BY <4>1, <1>1
      <4>3. CASE Cardinality(s) = n + 1
        BY <4>2, <4>3, <3>2
      <4>4. CASE Cardinality(s) # n + 1
        <5>1. Cardinality(s) <= n
          BY <4>4, <1>1
        <5>2. h[s] = g[s] /\ Good(g, s)
          BY <5>1, <4>4
        <5>3. QED
          BY <5>2, <4>2, <3>2
      <4>5. QED
        BY <4>3, <4>4
    <3>3. QED
      BY <3>1, <3>2
  <2>4. \E i \in [SUBSET S -> Nat] : \A s \in SUBSET S : Cardinality(s) <= n + 1 => Good(i, s)
    <3> HIDE DEF h, Good
    <3> QED
      BY <2>2, <2>3
  <2>5. QED
    <3> HIDE DEF Good
    <3> QED
      BY <2>4
<1>4. N = Nat
  <2> HIDE DEF N
  <2>1. N \in SUBSET Nat
    BY DEF N
  <2>2. QED
    BY <2>1, <1>2, <1>3, SetInduction
<1>5. Cardinality(S) \in N
  BY <1>1, <1>4
<1>6. PICK g \in [SUBSET S -> Nat] :
             \A s \in SUBSET S : Cardinality(s) <= Cardinality(S) => Good(g, s)
  BY <1>5
<1>7. \A s \in SUBSET S : Good(g, s)
  BY <1>6, FS_Subset
<1>8. Sums(g, f, S)
  BY <1>7 DEF Sums
<1>9. QED
  BY <1>8

\* The order of the summands does not matter.
AnyOrder(g, f, S) == \A T \in SUBSET S : \A x \in T : g[T] = f[x] + g[T \ {x}]

LEMMA SumsAnyOrder ==
  ASSUME NEW S, IsFiniteSet(S), NEW f, \A x \in S : f[x] \in Nat,
         NEW g \in [SUBSET S -> Nat], Sums(g, f, S)
  PROVE  AnyOrder(g, f, S)
<1> DEFINE C == {T \in SUBSET S : \A x \in T : g[T] = f[x] + g[T \ {x}]}
<1>1. \A T \in SUBSET S : (\A x \in T : T \ {x} \in C) => T \in C
  <2> SUFFICES ASSUME NEW T \in SUBSET S, \A x \in T : T \ {x} \in C, NEW x \in T
               PROVE  g[T] = f[x] + g[T \ {x}]
    OBVIOUS
  <2> DEFINE c == CHOOSE y \in T : TRUE
             r == (T \ {c}) \ {x}
  <2>1. c \in T /\ g[T] = f[c] + g[T \ {c}]
    BY DEF Sums
  <2>2. CASE x = c
    BY <2>1, <2>2
  <2>3. CASE x # c
    <3>1. g[T \ {c}] = f[x] + g[r]
      BY <2>1, <2>3
    <3>2. (T \ {x}) \ {c} = r
      OBVIOUS
    <3>3. g[T \ {x}] = f[c] + g[r]
      BY <2>1, <2>3, <3>2
    <3>4. f[x] \in Nat /\ f[c] \in Nat /\ g[r] \in Nat
      BY <2>1
    <3>5. QED
      BY <3>1, <3>3, <3>4, <2>1
  <2>4. QED
    BY <2>2, <2>3
<1>2. SUBSET S \subseteq C
  BY <1>1, RemovalInduction
<1>3. QED
  BY <1>2 DEF AnyOrder

\* Sums over a set and over a subset of it agree.
LEMMA SumsAgree ==
  ASSUME NEW S, IsFiniteSet(S), NEW f, NEW T \in SUBSET S,
         NEW g, Sums(g, f, S), NEW h, Sums(h, f, T)
  PROVE  \A U \in SUBSET T : g[U] = h[U]
<1> DEFINE C == {U \in SUBSET T : g[U] = h[U]}
<1>1. \A U \in SUBSET T : (\A x \in U : U \ {x} \in C) => U \in C
  <2> SUFFICES ASSUME NEW U \in SUBSET T, \A x \in U : U \ {x} \in C
               PROVE  g[U] = h[U]
    OBVIOUS
  <2>1. CASE U = {}
    BY <2>1 DEF Sums
  <2>2. CASE U # {}
    <3> DEFINE c == CHOOSE y \in U : TRUE
    <3>1. c \in U
      BY <2>2
    <3>2. g[U \ {c}] = h[U \ {c}]
      BY <3>1
    <3>3. g[U] = f[c] + g[U \ {c}] /\ h[U] = f[c] + h[U \ {c}]
      BY <2>2 DEF Sums
    <3>4. QED
      BY <3>2, <3>3
  <2>3. QED
    BY <2>1, <2>2
<1>2. IsFiniteSet(T)
  BY FS_Subset
<1>3. SUBSET T \subseteq C
  <2>1. \A U \in SUBSET T : (\A x \in U : U \ {x} \in C) => U \in C
    BY <1>1
  <2> HIDE DEF C
  <2>2. QED
    BY <2>1, <1>2, RemovalInduction
<1>4. QED
  BY <1>3

LEMMA SumIs ==
  ASSUME NEW S, IsFiniteSet(S), NEW f, NEW g, Sums(g, f, S)
  PROVE  \A T \in SUBSET S : Sum(f, T) = g[T]
<1> TAKE T \in SUBSET S
<1> DEFINE h == [U \in SUBSET T |-> g[U]]
<1>1. Sums(h, f, T)
  <2>1. \A U \in SUBSET T : h[U] = IF U = {} THEN 0
                                   ELSE LET x == CHOOSE x \in U : TRUE IN f[x] + h[U \ {x}]
    BY DEF Sums
  <2>2. QED
    BY <2>1 DEF Sums
<1>2. Sum(f, T) = (CHOOSE i : Sums(i, f, T))[T]
  BY DEF Sum, MapThenSumSet, MapThenFoldSet, Sums
<1> DEFINE i == CHOOSE i : Sums(i, f, T)
<1>3. Sums(i, f, T)
  BY <1>1
<1>4. g[T] = i[T]
  <2> HIDE DEF i
  <2>1. \A U \in SUBSET T : g[U] = i[U]
    BY <1>3, SumsAgree
  <2>2. QED
    BY <2>1
<1>5. QED
  BY <1>2, <1>4

\* The sum of no numbers, of one number more, and of fewer numbers.
LEMMA SumEmpty ==
  ASSUME NEW f
  PROVE  Sum(f, {}) = 0
<1>1. IsFiniteSet({}) /\ \A x \in {} : f[x] \in Nat
  BY FS_EmptySet
<1>2. PICK g \in [SUBSET {} -> Nat] : Sums(g, f, {})
  BY <1>1, SumsExist
<1>3. Sum(f, {}) = g[{}]
  BY <1>1, <1>2, SumIs
<1>4. QED
  BY <1>2, <1>3 DEF Sums

LEMMA SumAdd ==
  ASSUME NEW S, IsFiniteSet(S), NEW f, \A x \in S : f[x] \in Nat,
         NEW T \in SUBSET S, NEW x \in S, x \notin T
  PROVE  Sum(f, T) \in Nat /\ Sum(f, T \cup {x}) = f[x] + Sum(f, T)
<1>1. PICK g \in [SUBSET S -> Nat] : Sums(g, f, S)
  BY SumsExist
<1>2. Sum(f, T) = g[T] /\ Sum(f, T \cup {x}) = g[T \cup {x}]
  BY <1>1, SumIs
<1>3. (T \cup {x}) \ {x} = T
  OBVIOUS
<1>4. g[T \cup {x}] = f[x] + g[(T \cup {x}) \ {x}]
  <2>1. T \cup {x} \in SUBSET S /\ x \in T \cup {x}
    OBVIOUS
  <2>2. AnyOrder(g, f, S)
    BY <1>1, SumsAnyOrder
  <2>3. QED
    BY <2>1, <2>2 DEF AnyOrder
<1>5. QED
  BY <1>2, <1>3, <1>4

LEMMA SumMonotone ==
  ASSUME NEW S, IsFiniteSet(S), NEW f, \A x \in S : f[x] \in Nat, NEW T \in SUBSET S
  PROVE  Sum(f, T) \in Nat /\ Sum(f, S) \in Nat /\ Sum(f, T) <= Sum(f, S)
<1> DEFINE R == S \ T
           C == {U \in SUBSET R : /\ Sum(f, T) \in Nat /\ Sum(f, T \cup U) \in Nat
                                  /\ Sum(f, T) <= Sum(f, T \cup U)}
<1>1. IsFiniteSet(R)
  BY FS_Subset
<1>2. {} \in C
  <2>1. PICK g \in [SUBSET S -> Nat] : Sums(g, f, S)
    BY SumsExist
  <2>2. Sum(f, T) = g[T]
    BY <2>1, SumIs
  <2>3. T \cup {} = T
    OBVIOUS
  <2>4. QED
    BY <2>2, <2>3
<1>3. \A U \in SUBSET R : \A x \in R : U \in C /\ x \notin U => U \cup {x} \in C
  <2> SUFFICES ASSUME NEW U \in SUBSET R, NEW x \in R, U \in C, x \notin U
               PROVE  U \cup {x} \in C
    OBVIOUS
  <2>1. T \cup U \in SUBSET S /\ x \in S /\ x \notin T \cup U
    OBVIOUS
  <2>2. Sum(f, (T \cup U) \cup {x}) = f[x] + Sum(f, T \cup U)
    BY <2>1, SumAdd
  <2>3. (T \cup U) \cup {x} = T \cup (U \cup {x})
    OBVIOUS
  <2>4. f[x] \in Nat
    BY <2>1
  <2> DEFINE k == Sum(f, T)
             m == Sum(f, T \cup U)
             n == Sum(f, T \cup (U \cup {x}))
  <2>5. k \in Nat /\ m \in Nat /\ k <= m
    OBVIOUS
  <2>6. n = f[x] + m
    BY <2>2, <2>3
  <2>7. n \in Nat /\ k <= n
    <3> HIDE DEF k, m, n
    <3> QED BY <2>4, <2>5, <2>6
  <2> QED BY <2>5, <2>7
<1>4. SUBSET R \subseteq C
  <2> HIDE DEF C, R
  <2>1. QED
    BY <1>1, <1>2, <1>3, SubsetInduction
<1>5. T \cup R = S /\ R \in C
  BY <1>4
<1>6. QED
  BY <1>5
-----------------------------------------------------------------------------
(***************************************************************************)
(* Sequences of sequences, joined                                          *)
(***************************************************************************)
\* What the recursive function of FlattenSeq is.
Flattens(f, seqs) ==
  f = [i \in 1 .. Len(seqs) |-> IF i = 1 THEN seqs[i] ELSE f[i - 1] \o seqs[i]]

LEMMA FlattenExists ==
  ASSUME NEW S, NEW seqs \in Seq(Seq(S)), seqs # <<>>
  PROVE  \E f \in [1 .. Len(seqs) -> Seq(S)] : /\ Flattens(f, seqs)
                                               /\ FlattenSeq(seqs) = f[Len(seqs)]
<1> DEFINE N == Len(seqs)
           T == Seq(S)
           D == [n \in Nat |-> [t \in T |-> IF n \in 1 .. N THEN t \o seqs[n] ELSE t]]
<1>1. N \in Nat \ {0} /\ \A i \in 1 .. N : seqs[i] \in T
  OBVIOUS
<1>2. <<>> \in T /\ \A t, u \in T : t \o u \in T
  OBVIOUS
<1>3. D \in [Nat -> [T -> T]]
  <2> HIDE DEF T, N
  <2> QED BY <1>1, <1>2
<1>4. PICK g \in [0 .. N -> T] : Iterates(g, N, <<>>, D)
  <2> HIDE DEF T, N, D
  <2> QED BY <1>1, <1>2, <1>3, IteratesExist
<1>5. /\ g[0] = <<>>
      /\ \A i \in 1 .. N : i - 1 \in 0 .. N /\ g[i - 1] \in T /\ g[i] = g[i - 1] \o seqs[i]
  <2>1. g[0] = <<>>
    BY <1>1, <1>4 DEF Iterates
  <2>2. ASSUME NEW i \in 1 .. N
        PROVE  i - 1 \in 0 .. N /\ g[i - 1] \in T /\ g[i] = g[i - 1] \o seqs[i]
    <3>1. i \in 0 .. N /\ i # 0 /\ i \in Nat /\ i - 1 \in 0 .. N
      BY <1>1
    <3>2. g[i - 1] \in T
      BY <1>4, <3>1
    <3>3. g[i] = D[i][g[i - 1]]
      <4> HIDE DEF D, T, N
      <4> QED BY <1>4, <3>1 DEF Iterates
    <3>4. D[i][g[i - 1]] = g[i - 1] \o seqs[i]
      <4> HIDE DEF T, N
      <4> QED BY <3>1, <3>2
    <3> QED BY <3>1, <3>2, <3>3, <3>4
  <2> QED BY <2>1, <2>2
<1> DEFINE h == [i \in 1 .. N |-> g[i]]
           f == CHOOSE f : Flattens(f, seqs)
<1>6. h \in [1 .. N -> T] /\ Flattens(h, seqs)
  <2>1. h \in [1 .. N -> T]
    <3>1. \A i \in 1 .. N : i \in 0 .. N
      BY <1>1
    <3> HIDE DEF T, N
    <3> QED BY <1>4, <3>1
  <2>2. ASSUME NEW i \in 1 .. N
        PROVE  h[i] = IF i = 1 THEN seqs[i] ELSE h[i - 1] \o seqs[i]
    <3>1. h[i] = g[i - 1] \o seqs[i] /\ seqs[i] \in T
      BY <1>1, <1>5
    <3>2. CASE i = 1
      <4>1. g[i - 1] = <<>>
        BY <1>5, <3>2
      <4>2. <<>> \o seqs[i] = seqs[i]
        BY <3>1
      <4> QED BY <3>1, <3>2, <4>1, <4>2
    <3>3. CASE i # 1
      <4>1. i - 1 \in 1 .. N
        BY <1>1, <3>3
      <4> HIDE DEF N
      <4>2. h[i - 1] = g[i - 1]
        BY <4>1
      <4> QED BY <3>1, <3>3, <4>2
    <3> QED BY <3>2, <3>3
  <2>3. h = [i \in 1 .. N |-> IF i = 1 THEN seqs[i] ELSE h[i - 1] \o seqs[i]]
    <3>1. h = [i \in 1 .. N |-> h[i]]
      OBVIOUS
    <3> HIDE DEF h, N
    <3> QED BY <2>2, <3>1
  <2> HIDE DEF h
  <2> QED BY <2>1, <2>3 DEF Flattens
<1>7. Flattens(f, seqs)
  BY <1>6
<1> HIDE DEF f, h
<1>8. \A i \in 1 .. N : f[i] = h[i]
  <2> DEFINE Q == {i \in Nat : i + 1 <= N => f[i + 1] = h[i + 1]}
  <2>1. 0 \in Q
    <3>1. f[1] = seqs[1] /\ h[1] = seqs[1]
      BY <1>1, <1>6, <1>7 DEF Flattens
    <3> QED BY <3>1
  <2>2. \A i \in Q : i + 1 \in Q
    <3> SUFFICES ASSUME NEW i \in Q, (i + 1) + 1 <= N PROVE f[(i + 1) + 1] = h[(i + 1) + 1]
      OBVIOUS
    <3> DEFINE m == i + 1
    <3>1. m + 1 \in 1 .. N /\ m + 1 # 1 /\ (m + 1) - 1 = m /\ m <= N
      BY <1>1
    <3>2. f[m] = h[m]
      BY <1>1, <3>1
    <3> HIDE DEF m
    <3>3. f[m + 1] = f[m] \o seqs[m + 1] /\ h[m + 1] = h[m] \o seqs[m + 1]
      BY <1>6, <1>7, <3>1 DEF Flattens
    <3>4. f[m + 1] = h[m + 1]
      BY <3>2, <3>3
    <3> QED BY <3>4 DEF m
  <2>3. Q = Nat
    <3> HIDE DEF Q
    <3>1. Q \in SUBSET Nat
      BY DEF Q
    <3> QED BY <2>1, <2>2, <3>1, SetInduction
  <2>4. ASSUME NEW i \in 1 .. N PROVE f[i] = h[i]
    <3>1. i - 1 \in Nat /\ (i - 1) + 1 = i /\ i <= N
      BY <1>1
    <3>2. i - 1 \in Q
      BY <2>3, <3>1
    <3> QED BY <3>1, <3>2
  <2> QED BY <2>4
<1>9. f = h
  <2>1. f = [i \in 1 .. N |-> f[i]] /\ h = [i \in 1 .. N |-> h[i]]
    BY <1>6, <1>7 DEF Flattens
  <2> QED BY <1>8, <2>1
<1>10. FlattenSeq(seqs) = f[N]
  <2>1. Len(seqs) # 0
    BY <1>1
  <2> QED BY <2>1 DEF FlattenSeq, Flattens, f
<1> QED BY <1>6, <1>7, <1>9, <1>10

\* One more text comes behind the others.
LEMMA FlattenOneMore ==
  ASSUME NEW S, NEW seqs \in Seq(Seq(S)), NEW x \in Seq(S)
  PROVE  /\ FlattenSeq(seqs) \in Seq(S)
         /\ FlattenSeq(Append(seqs, x)) = FlattenSeq(seqs) \o x
<1> DEFINE N == Len(seqs)
           more == Append(seqs, x)
<1>1. /\ N \in Nat /\ more \in Seq(Seq(S)) /\ Len(more) = N + 1 /\ more # <<>>
      /\ more[N + 1] = x /\ \A i \in 1 .. N : more[i] = seqs[i]
  <2> DEFINE T == Seq(S)
  <2> HIDE DEF T
  <2>1. seqs \in Seq(T) /\ x \in T
    BY DEF T
  <2>2. N \in Nat /\ more \in Seq(T) /\ Len(more) = N + 1
    BY <2>1
  <2>3. more[N + 1] = x /\ \A i \in 1 .. N : more[i] = seqs[i]
    BY <2>1
  <2>4. more # <<>>
    <3> HIDE DEF more, N
    <3>1. Len(<<>>) = 0
      OBVIOUS
    <3> QED BY <2>2, <3>1
  <2> QED BY <2>2, <2>3, <2>4 DEF T
<1> HIDE DEF more
<1>2. PICK g \in [1 .. N + 1 -> Seq(S)] : Flattens(g, more) /\ FlattenSeq(more) = g[N + 1]
  BY <1>1, FlattenExists
<1>3. CASE seqs = <<>>
  <2>1. N = 0 /\ FlattenSeq(seqs) = <<>>
    BY <1>3 DEF FlattenSeq
  <2>2. g[1] = x
    BY <1>1, <1>2, <2>1 DEF Flattens
  <2>3. <<>> \o x = x /\ <<>> \in Seq(S)
    OBVIOUS
  <2> QED BY <1>2, <2>1, <2>2, <2>3 DEF more
<1>4. CASE seqs # <<>>
  <2>1. PICK f \in [1 .. N -> Seq(S)] : Flattens(f, seqs) /\ FlattenSeq(seqs) = f[N]
    BY <1>4, FlattenExists
  <2>2. N \in Nat \ {0}
    BY <1>4
  <2> HIDE DEF N
  <2> DEFINE Q == {i \in Nat : i + 1 <= N => f[i + 1] = g[i + 1]}
  <2>3. 0 \in Q
    <3>1. f[1] = seqs[1] /\ g[1] = more[1] /\ more[1] = seqs[1]
      BY <1>1, <1>2, <2>1, <2>2 DEF Flattens, N
    <3> QED BY <3>1
  <2>4. \A i \in Q : i + 1 \in Q
    <3> SUFFICES ASSUME NEW i \in Q, (i + 1) + 1 <= N PROVE f[(i + 1) + 1] = g[(i + 1) + 1]
      OBVIOUS
    <3> DEFINE m == i + 1
    <3>1. m + 1 \in 1 .. N /\ m + 1 \in 1 .. N + 1 /\ m + 1 # 1 /\ (m + 1) - 1 = m /\ m <= N
      BY <2>2
    <3>2. f[m] = g[m]
      BY <2>2, <3>1
    <3> HIDE DEF m, Q
    <3>3. f[m + 1] = f[m] \o seqs[m + 1] /\ g[m + 1] = g[m] \o more[m + 1]
      BY <1>1, <1>2, <2>1, <3>1 DEF Flattens, N
    <3>4. f[m + 1] = g[m + 1]
      BY <1>1, <3>1, <3>2, <3>3
    <3> QED BY <3>4 DEF m
  <2>5. Q = Nat
    <3> HIDE DEF Q
    <3>1. Q \in SUBSET Nat
      BY DEF Q
    <3> QED BY <2>3, <2>4, <3>1, SetInduction
  <2>6. f[N] = g[N]
    <3>1. N - 1 \in Nat /\ (N - 1) + 1 = N /\ N <= N
      BY <2>2
    <3>2. N - 1 \in Q
      BY <2>5, <3>1
    <3> QED BY <3>1, <3>2
  <2>7. g[N + 1] = g[N] \o more[N + 1]
    <3>1. N + 1 \in 1 .. Len(more) /\ N + 1 # 1 /\ (N + 1) - 1 = N
      BY <1>1, <2>2
    <3> QED BY <1>2, <3>1 DEF Flattens
  <2>8. f[N] \in Seq(S)
    BY <2>1, <2>2
  <2> QED BY <1>1, <1>2, <2>1, <2>6, <2>7, <2>8 DEF more
<1> QED BY <1>3, <1>4

\* What two of them have, one after the other.
LEMMA FlattenBoth ==
  ASSUME NEW S, NEW ss \in Seq(Seq(S)), NEW tt \in Seq(Seq(S))
  PROVE  FlattenSeq(ss \o tt) = FlattenSeq(ss) \o FlattenSeq(tt)
<1> DEFINE T == Seq(S)
           part(n) == [i \in 1 .. n |-> tt[i]]
           Q == {n \in Nat : n <= Len(tt) =>
                   FlattenSeq(ss \o part(n)) = FlattenSeq(ss) \o FlattenSeq(part(n))}
<1>1. Len(tt) \in Nat /\ \A i \in 1 .. Len(tt) : tt[i] \in T
  OBVIOUS
<1>2. FlattenSeq(ss) \in T
  BY FlattenOneMore, <<>> \in Seq(S)
<1>3. 0 \in Q
  <2>1. part(0) = <<>>
    OBVIOUS
  <2>2. FlattenSeq(<<>>) = <<>>
    BY DEF FlattenSeq
  <2>3. ss \o <<>> = ss
    OBVIOUS
  <2>4. FlattenSeq(ss) \o <<>> = FlattenSeq(ss)
    BY <1>2
  <2> QED BY <2>1, <2>2, <2>3, <2>4
<1>4. \A n \in Q : n + 1 \in Q
  <2> SUFFICES ASSUME NEW n \in Q PROVE n + 1 \in Q
    OBVIOUS
  <2>0. n \in Nat /\ n + 1 \in Nat
    OBVIOUS
  <2> SUFFICES ASSUME n + 1 <= Len(tt)
               PROVE  FlattenSeq(ss \o part(n + 1)) = FlattenSeq(ss) \o FlattenSeq(part(n + 1))
    BY <2>0
  <2>1. n \in Nat /\ n <= Len(tt) /\ n + 1 \in 1 .. Len(tt)
    BY <1>1
  <2> DEFINE p == part(n)
             x == tt[n + 1]
  <2>2. x \in T
    BY <1>1, <2>1
  <2>3. p \in Seq(T)
    BY <1>1, <2>1
  <2>4. part(n + 1) = Append(p, x)
    <3>1. Len(p) = n
      BY <2>1
    <3>2. Append(p, x) = [i \in 1 .. n + 1 |-> IF i \in 1 .. n THEN p[i] ELSE x]
      BY <2>1, <2>3, <3>1
    <3>3. \A i \in 1 .. n + 1 : tt[i] = IF i \in 1 .. n THEN p[i] ELSE x
      BY <2>1
    <3> QED BY <3>2, <3>3
  <2>5. FlattenSeq(ss \o p) = FlattenSeq(ss) \o FlattenSeq(p)
    BY <2>1
  <2> HIDE DEF p, x
  <2>6. ss \o Append(p, x) = Append(ss \o p, x) /\ ss \o p \in Seq(T)
    BY <2>2, <2>3
  <2>7. FlattenSeq(p) \in T /\ FlattenSeq(Append(p, x)) = FlattenSeq(p) \o x
    BY <2>2, <2>3, FlattenOneMore
  <2>8. FlattenSeq(Append(ss \o p, x)) = FlattenSeq(ss \o p) \o x
    BY <2>2, <2>6, FlattenOneMore
  <2>9. (FlattenSeq(ss) \o FlattenSeq(p)) \o x = FlattenSeq(ss) \o (FlattenSeq(p) \o x)
    <3> DEFINE u == FlattenSeq(ss)
               v == FlattenSeq(p)
    <3>1. u \in T /\ v \in T /\ x \in T
      BY <1>2, <2>2, <2>7
    <3> HIDE DEF u, v
    <3>2. (u \o v) \o x = u \o (v \o x)
      BY <3>1, ConcatAssociative, SMTT(60)
    <3> QED BY <3>2 DEF u, v
  <2> QED BY <2>4, <2>5, <2>6, <2>7, <2>8, <2>9
<1>5. Q = Nat
  <2> HIDE DEF Q
  <2>1. Q \in SUBSET Nat
    BY DEF Q
  <2> QED BY <1>3, <1>4, <2>1, SetInduction
<1>6. part(Len(tt)) = tt
  OBVIOUS
<1>7. Len(tt) \in Q
  BY <1>1, <1>5
<1> HIDE DEF part
<1> QED BY <1>6, <1>7
=============================================================================
