---------------------------- MODULE SchedProofs -----------------------------
(***************************************************************************)
(* Proofs about Sched: that the linked list stays one sorted list of the   *)
(* processes with the ENQUEUED bit, whatever links absent processes kept;  *)
(* that the total of the weights is right; that dequeue's loop ends; and   *)
(* that the list implements RunQueue.                                      *)
(***************************************************************************)
EXTENDS Sched, Induction

\* What the proofs need of the constants.
LEMMA Constants ==
  /\ Idle \notin Procs /\ NULL \notin Procs /\ Idle # NULL
  /\ IsFiniteSet(Procs)
  /\ Word \in Nat
BY SchedAssumption

Link == Procs \cup {NULL}
-----------------------------------------------------------------------------
(***************************************************************************)
(* Linked lists                                                            *)
(***************************************************************************)
\* The i-th of n members listed by s, and NULL at both ends.
At(s, n, i) == IF i \in 1 .. n THEN s[i] ELSE NULL

\* From hd, following nx forwards and pv backwards, the members of E are met
\* in the order s, each once.
Chain(hd, nx, pv, E, s, n) ==
  /\ n \in Nat
  /\ s \in [1 .. n -> Procs]
  /\ \A i, j \in 1 .. n : s[i] = s[j] => i = j
  /\ E = {s[i] : i \in 1 .. n}
  /\ hd = At(s, n, 1)
  /\ \A i \in 1 .. n : nx[s[i]] = At(s, n, i + 1) /\ pv[s[i]] = At(s, n, i - 1)

\* The order s with p put behind its j-th member, and without its j-th member.
Ins(s, n, j, p) == [i \in 1 .. n + 1 |-> IF i <= j THEN s[i] ELSE IF i = j + 1 THEN p ELSE s[i - 1]]
Del(s, n, j) == [i \in 1 .. n - 1 |-> IF i < j THEN s[i] ELSE s[i + 1]]

\* Linking p between two neighbours keeps a chain.
LEMMA InsertChain ==
  ASSUME NEW hd, NEW nx \in [Procs -> Link], NEW pv \in [Procs -> Link], NEW E, NEW s, NEW n,
         Chain(hd, nx, pv, E, s, n),
         NEW p \in Procs, p \notin E, NEW j \in 0 .. n,
         NEW a, a = At(s, n, j), NEW b, b = At(s, n, j + 1)
  PROVE  Chain(IF a = NULL THEN p ELSE hd, SetIn([nx EXCEPT ![p] = b], a, p),
               SetIn([pv EXCEPT ![p] = a], b, p), E \cup {p}, Ins(s, n, j, p), n + 1)
<1> DEFINE t == Ins(s, n, j, p)
           x == SetIn([nx EXCEPT ![p] = b], a, p)
           y == SetIn([pv EXCEPT ![p] = a], b, p)
<1> USE Constants
<1>1. /\ n \in Nat /\ n + 1 \in Nat /\ j \in Nat /\ j <= n
      /\ s \in [1 .. n -> Procs]
      /\ \A i, l \in 1 .. n : s[i] = s[l] => i = l
      /\ E = {s[i] : i \in 1 .. n}
      /\ hd = At(s, n, 1)
      /\ \A i \in 1 .. n : nx[s[i]] = At(s, n, i + 1) /\ pv[s[i]] = At(s, n, i - 1)
  BY DEF Chain
<1>2. /\ \A i \in 1 .. j : t[i] = s[i]
      /\ t[j + 1] = p
      /\ \A i \in j + 2 .. n + 1 : t[i] = s[i - 1] /\ i - 1 \in 1 .. n
  BY <1>1 DEF Ins
<1>3. \A i \in 1 .. n : s[i] \in Procs /\ s[i] # p
  BY <1>1
<1>4. t \in [1 .. n + 1 -> Procs]
  <2>1. \A i \in 1 .. n + 1 : t[i] \in Procs
    BY <1>1, <1>2, <1>3
  <2>2. QED
    BY <2>1 DEF Ins
<1>5. \A i, l \in 1 .. n + 1 : t[i] = t[l] => i = l
  <2> SUFFICES ASSUME NEW i \in 1 .. n + 1, NEW l \in 1 .. n + 1, t[i] = t[l], i < l
               PROVE  FALSE
    BY <1>1
  <2>1. CASE l <= j
    BY <2>1, <1>1, <1>2
  <2>2. CASE i = j + 1
    BY <2>2, <1>1, <1>2, <1>3
  <2>3. CASE l = j + 1
    BY <2>3, <1>1, <1>2, <1>3
  <2>4. CASE i <= j /\ l > j + 1
    BY <2>4, <1>1, <1>2
  <2>5. CASE i > j + 1
    <3>1. t[i] = s[i - 1] /\ t[l] = s[l - 1] /\ i - 1 \in 1 .. n /\ l - 1 \in 1 .. n
      BY <2>5, <1>1, <1>2
    <3>2. i - 1 = l - 1
      BY <3>1, <1>1
    <3>3. QED
      BY <3>2
  <2>6. QED
    BY <2>1, <2>2, <2>3, <2>4, <2>5, <1>1
<1>6. E \cup {p} = {t[i] : i \in 1 .. n + 1}
  <2>1. ASSUME NEW q \in E PROVE \E i \in 1 .. n + 1 : q = t[i]
    <3>1. PICK i \in 1 .. n : q = s[i]
      BY <1>1
    <3>2. CASE i <= j
      BY <3>1, <3>2, <1>1, <1>2
    <3>3. CASE i > j
      <4>1. i + 1 \in j + 2 .. n + 1 /\ (i + 1) - 1 = i
        BY <3>3, <1>1
      <4>2. t[i + 1] = s[i]
        BY <4>1, <1>2
      <4>3. QED
        BY <4>1, <4>2, <3>1
    <3>4. QED
      BY <3>2, <3>3, <1>1
  <2>2. j + 1 \in 1 .. n + 1 /\ t[j + 1] = p
    BY <1>1, <1>2
  <2>3. ASSUME NEW i \in 1 .. n + 1 PROVE t[i] \in E \cup {p}
    <3>1. CASE i <= j
      BY <3>1, <1>1, <1>2
    <3>2. CASE i = j + 1
      BY <3>2, <1>2
    <3>3. CASE i > j + 1
      BY <3>3, <1>1, <1>2
    <3>4. QED
      BY <3>1, <3>2, <3>3, <1>1
  <2> HIDE DEF t
  <2>4. QED
    BY <2>1, <2>2, <2>3
<1>7. (IF a = NULL THEN p ELSE hd) = At(t, n + 1, 1)
  BY <1>1, <1>2, <1>3 DEF At
\* The new forward links.
<1>8. \A i \in 1 .. n + 1 : x[t[i]] = At(t, n + 1, i + 1)
  <2> TAKE i \in 1 .. n + 1
  <2>1. CASE i < j
    <3>1. t[i] = s[i] /\ t[i + 1] = s[i + 1] /\ i \in 1 .. n /\ i + 1 \in 1 .. n /\ j \in 1 .. n
      BY <2>1, <1>1, <1>2
    <3>2. s[i] # s[j] /\ a = s[j] /\ s[i] # p
      BY <3>1, <2>1, <1>1, <1>3 DEF At
    <3>3. x[s[i]] = nx[s[i]]
      BY <3>2, <3>1, <1>3 DEF SetIn
    <3>4. QED
      BY <3>1, <3>3, <1>1 DEF At
  <2>2. CASE i = j
    <3>1. a = s[j] /\ a \in Procs /\ a # p /\ t[i] = a /\ t[i + 1] = p
      BY <2>2, <1>1, <1>2, <1>3 DEF At
    <3>2. x[a] = p
      BY <3>1 DEF SetIn
    <3>3. QED
      BY <3>1, <3>2, <2>2, <1>1 DEF At
  <2>3. CASE i = j + 1
    <3>1. t[i] = p /\ a # p
      BY <2>3, <1>1, <1>2, <1>3 DEF At
    <3>2. x[p] = b
      BY <3>1, <1>1, <1>3 DEF SetIn, At
    <3>3. b = At(t, n + 1, i + 1)
      <4>1. CASE j < n
        <5>1. j + 2 \in j + 2 .. n + 1 /\ (j + 2) - 1 = j + 1 /\ j + 1 \in 1 .. n
          BY <4>1, <1>1
        <5>2. t[j + 2] = s[j + 1]
          BY <5>1, <1>2
        <5>3. QED
          BY <5>1, <5>2, <2>3, <1>1 DEF At
      <4>2. CASE j = n
        BY <4>2, <2>3, <1>1 DEF At
      <4>3. QED
        BY <4>1, <4>2, <1>1
    <3>4. QED
      BY <3>1, <3>2, <3>3
  <2>4. CASE i > j + 1
    <3>1. t[i] = s[i - 1] /\ i - 1 \in 1 .. n /\ i - 1 # j
      BY <2>4, <1>1, <1>2
    <3>2. s[i - 1] # p /\ s[i - 1] # a
      BY <3>1, <1>1, <1>3 DEF At
    <3>3. x[t[i]] = nx[s[i - 1]]
      BY <3>1, <3>2, <1>3 DEF SetIn
    <3>4. nx[s[i - 1]] = At(s, n, i)
      BY <3>1, <1>1
    <3>5. At(t, n + 1, i + 1) = At(s, n, i)
      <4>1. i \in Nat /\ j \in Nat /\ n \in Nat /\ i > j + 1 /\ i <= n + 1
        BY <2>4, <1>1
      <4>2. CASE i <= n
        <5>1. i + 1 \in j + 2 .. n + 1 /\ i + 1 \in 1 .. n + 1 /\ (i + 1) - 1 = i /\ i \in 1 .. n
          BY <4>1, <4>2
        <5>2. t[i + 1] = s[(i + 1) - 1]
          BY <5>1, <1>2
        <5>3. QED
          BY <5>1, <5>2 DEF At
      <4>3. CASE i = n + 1
        <5>1. i + 1 \notin 1 .. n + 1 /\ i \notin 1 .. n
          BY <4>1, <4>3
        <5>2. QED
          BY <5>1 DEF At
      <4>4. QED
        BY <4>1, <4>2, <4>3
    <3>6. QED
      BY <3>3, <3>4, <3>5
  <2>5. QED
    BY <2>1, <2>2, <2>3, <2>4, <1>1
\* The new backward links.
<1>9. \A i \in 1 .. n + 1 : y[t[i]] = At(t, n + 1, i - 1)
  <2> TAKE i \in 1 .. n + 1
  <2>1. CASE i <= j
    <3>1. t[i] = s[i] /\ i \in 1 .. n
      BY <2>1, <1>1, <1>2
    <3>2. s[i] # b /\ s[i] # p
      BY <3>1, <2>1, <1>1, <1>3 DEF At
    <3>3. y[s[i]] = pv[s[i]]
      BY <3>2, <3>1, <1>3 DEF SetIn
    <3>4. At(s, n, i - 1) = At(t, n + 1, i - 1)
      <4>1. CASE i = 1
        <5>1. i - 1 \notin 1 .. n + 1 /\ i - 1 \notin 1 .. n
          BY <4>1
        <5>2. QED
          BY <5>1 DEF At
      <4>2. CASE i # 1
        <5>1. i - 1 \in 1 .. j /\ i - 1 \in 1 .. n /\ i - 1 \in 1 .. n + 1
          BY <4>2, <2>1, <1>1
        <5>2. t[i - 1] = s[i - 1]
          BY <5>1, <1>2
        <5>3. QED
          BY <5>1, <5>2 DEF At
      <4>3. QED
        BY <4>1, <4>2
    <3>5. QED
      BY <3>1, <3>3, <3>4, <1>1
  <2>2. CASE i = j + 1
    <3>1. t[i] = p /\ b # p
      BY <2>2, <1>1, <1>2, <1>3 DEF At
    <3>2. y[p] = a
      BY <3>1, <1>1, <1>3 DEF SetIn, At
    <3>3. a = At(t, n + 1, i - 1)
      BY <2>2, <1>1, <1>2 DEF At
    <3>4. QED
      BY <3>1, <3>2, <3>3
  <2>3. CASE i = j + 2
    <3>1. b = s[j + 1] /\ b \in Procs /\ b # p /\ t[i] = b /\ t[i - 1] = p
      BY <2>3, <1>1, <1>2, <1>3 DEF At
    <3>2. y[b] = p
      BY <3>1 DEF SetIn
    <3>3. QED
      BY <3>1, <3>2, <2>3, <1>1 DEF At
  <2>4. CASE i > j + 2
    <3>1. /\ t[i] = s[i - 1] /\ t[i - 1] = s[i - 2] /\ i - 1 \in 1 .. n /\ i - 2 \in 1 .. n
          /\ i - 1 # j + 1 /\ j + 1 \in 1 .. n
      <4>1. /\ i \in j + 2 .. n + 1 /\ i - 1 \in j + 2 .. n + 1 /\ (i - 1) - 1 = i - 2
            /\ i - 1 # j + 1 /\ j + 1 \in 1 .. n /\ i - 1 \in 1 .. n /\ i - 2 \in 1 .. n
        <5>1. n \in Nat /\ j \in Nat
          BY <1>1
        <5>2. QED
          BY <5>1, <2>4
      <4>2. t[i] = s[i - 1] /\ t[i - 1] = s[(i - 1) - 1]
        BY <4>1, <1>2
      <4>3. QED
        BY <4>1, <4>2
    <3>2. s[i - 1] # p /\ s[i - 1] # s[j + 1] /\ b = s[j + 1]
      BY <3>1, <1>1, <1>3 DEF At
    <3>3. y[t[i]] = pv[s[i - 1]]
      BY <3>1, <3>2, <1>3 DEF SetIn
    <3>4. pv[s[i - 1]] = At(s, n, i - 2)
      BY <3>1, <1>1
    <3>5. QED
      BY <3>1, <3>3, <3>4, <2>4, <1>1 DEF At
  <2>5. QED
    BY <2>1, <2>2, <2>3, <2>4, <1>1
<1>10. QED
  <2> HIDE DEF t, x, y
  <2>1. Chain(IF a = NULL THEN p ELSE hd, x, y, E \cup {p}, t, n + 1)
    BY <1>1, <1>4, <1>5, <1>6, <1>7, <1>8, <1>9 DEF Chain
  <2>2. QED
    BY <2>1 DEF t, x, y

\* Taking the j-th member p out, between a and b, keeps a chain.
Unlinked(hd, nx, pv, E, s, n, j, p, a, b) ==
  Chain(IF hd = p THEN b ELSE hd, SetIn(nx, a, b), SetIn(pv, b, a), E \ {p}, Del(s, n, j), n - 1)

LEMMA DeleteChain ==
  ASSUME NEW hd, NEW nx \in [Procs -> Link], NEW pv \in [Procs -> Link], NEW E, NEW s, NEW n,
         Chain(hd, nx, pv, E, s, n),
         NEW j \in 1 .. n, NEW p, p = s[j],
         NEW a, a = At(s, n, j - 1), NEW b, b = At(s, n, j + 1)
  PROVE  Unlinked(hd, nx, pv, E, s, n, j, p, a, b)
<1> DEFINE t == Del(s, n, j)
           x == SetIn(nx, a, b)
           y == SetIn(pv, b, a)
<1> USE Constants
<1>1. /\ n \in Nat /\ n - 1 \in Nat /\ j \in Nat /\ j <= n /\ j >= 1
      /\ s \in [1 .. n -> Procs]
      /\ \A i, l \in 1 .. n : s[i] = s[l] => i = l
      /\ E = {s[i] : i \in 1 .. n}
      /\ hd = At(s, n, 1)
      /\ \A i \in 1 .. n : nx[s[i]] = At(s, n, i + 1) /\ pv[s[i]] = At(s, n, i - 1)
  BY DEF Chain
<1>2. /\ \A i \in 1 .. j - 1 : t[i] = s[i] /\ i \in 1 .. n /\ i # j
      /\ \A i \in j .. n - 1 : t[i] = s[i + 1] /\ i + 1 \in 1 .. n /\ i + 1 # j
  BY <1>1 DEF Del
<1>3. \A i \in 1 .. n : s[i] \in Procs
  BY <1>1
<1>4. t \in [1 .. n - 1 -> Procs]
  <2>1. \A i \in 1 .. n - 1 : t[i] \in Procs
    BY <1>1, <1>2, <1>3
  <2>2. QED
    BY <2>1 DEF Del
<1>5. \A i, l \in 1 .. n - 1 : t[i] = t[l] => i = l
  <2> SUFFICES ASSUME NEW i \in 1 .. n - 1, NEW l \in 1 .. n - 1, t[i] = t[l], i < l
               PROVE  FALSE
    BY <1>1
  <2>1. CASE l < j
    BY <2>1, <1>1, <1>2
  <2>2. CASE i < j /\ l >= j
    <3>1. t[i] = s[i] /\ t[l] = s[l + 1] /\ i \in 1 .. n /\ l + 1 \in 1 .. n
      BY <2>2, <1>1, <1>2
    <3>2. i = l + 1
      BY <3>1, <1>1
    <3>3. QED
      BY <3>2
  <2>3. CASE i >= j
    <3>1. t[i] = s[i + 1] /\ t[l] = s[l + 1] /\ i + 1 \in 1 .. n /\ l + 1 \in 1 .. n
      <4>1. n \in Nat /\ j \in Nat
        BY <1>1
      <4>2. i \in j .. n - 1 /\ l \in j .. n - 1
        BY <4>1, <2>3
      <4>3. QED
        BY <4>2, <1>2
    <3>2. i + 1 = l + 1
      BY <3>1, <1>1
    <3>3. QED
      BY <3>2
  <2>4. QED
    BY <2>1, <2>2, <2>3, <1>1
<1>6. E \ {p} = {t[i] : i \in 1 .. n - 1}
  <2>1. ASSUME NEW q \in E, q # p PROVE \E i \in 1 .. n - 1 : q = t[i]
    <3>1. PICK i \in 1 .. n : q = s[i]
      BY <1>1
    <3>2. i # j
      BY <3>1, <2>1
    <3>3. CASE i < j
      BY <3>1, <3>3, <1>1, <1>2
    <3>4. CASE i > j
      <4>1. i - 1 \in j .. n - 1 /\ i - 1 \in 1 .. n - 1 /\ (i - 1) + 1 = i
        BY <3>4, <1>1
      <4>2. t[i - 1] = s[i]
        BY <4>1, <1>2
      <4>3. QED
        BY <4>1, <4>2, <3>1
    <3>5. QED
      BY <3>2, <3>3, <3>4, <1>1
  <2>2. ASSUME NEW i \in 1 .. n - 1 PROVE t[i] \in E /\ t[i] # p
    <3>1. CASE i < j
      BY <3>1, <1>1, <1>2
    <3>2. CASE i >= j
      BY <3>2, <1>1, <1>2
    <3>3. QED
      BY <3>1, <3>2, <1>1
  <2> HIDE DEF t
  <2>3. QED
    BY <2>1, <2>2
\* Neighbours of what is taken out.
<1>7. /\ j > 1 => a = s[j - 1] /\ j - 1 \in 1 .. n
      /\ j = 1 => a = NULL
      /\ j < n => b = s[j + 1] /\ j + 1 \in 1 .. n
      /\ j = n => b = NULL
  BY <1>1 DEF At
<1>8. (IF hd = p THEN b ELSE hd) = At(t, n - 1, 1)
  <2>1. CASE j = 1
    <3>1. hd = p
      BY <2>1, <1>1 DEF At
    <3>2. CASE n = 1
      BY <3>1, <3>2, <2>1, <1>7 DEF At
    <3>3. CASE n > 1
      <4>1. 1 \in j .. n - 1 /\ 1 \in 1 .. n - 1 /\ 1 + 1 = j + 1
        BY <3>3, <2>1, <1>1
      <4>2. t[1] = b
        BY <4>1, <1>2, <1>7, <2>1, <3>3
      <4>3. QED
        BY <4>1, <4>2, <3>1 DEF At
    <3>4. QED
      BY <3>2, <3>3, <1>1
  <2>2. CASE j > 1
    <3>1. hd = s[1] /\ 1 \in 1 .. n /\ hd # p
      BY <2>2, <1>1 DEF At
    <3>2. 1 \in 1 .. j - 1 /\ 1 \in 1 .. n - 1
      BY <2>2, <1>1
    <3>3. t[1] = s[1]
      BY <3>2, <1>2
    <3>4. QED
      BY <3>1, <3>2, <3>3 DEF At
  <2>3. QED
    BY <2>1, <2>2, <1>1
<1>9. \A i \in 1 .. n - 1 : x[t[i]] = At(t, n - 1, i + 1)
  <2> TAKE i \in 1 .. n - 1
  <2>1. CASE i < j - 1
    <3>1. i \in 1 .. j - 1 /\ i + 1 \in 1 .. j - 1 /\ i + 1 \in 1 .. n - 1 /\ i \in 1 .. n
          /\ i # j - 1 /\ j > 1
      BY <2>1, <1>1
    <3>2. t[i] = s[i] /\ t[i + 1] = s[i + 1]
      BY <3>1, <1>2
    <3>3. s[i] # a
      BY <3>1, <1>7, <1>1
    <3>4. x[s[i]] = nx[s[i]]
      BY <3>3, <3>1, <1>3 DEF SetIn
    <3>5. nx[s[i]] = s[i + 1]
      BY <3>1, <1>1 DEF At
    <3>6. QED
      BY <3>1, <3>2, <3>4, <3>5 DEF At
  <2>2. CASE i = j - 1
    <3>1. j > 1 /\ i \in 1 .. j - 1
      BY <2>2, <1>1
    <3>2. t[i] = a /\ a \in Procs
      BY <3>1, <2>2, <1>2, <1>3, <1>7
    <3>3. x[a] = b
      BY <3>2 DEF SetIn
    <3>4. b = At(t, n - 1, i + 1)
      <4>1. CASE j < n
        <5>1. j \in j .. n - 1 /\ j \in 1 .. n - 1 /\ i + 1 = j
          BY <4>1, <2>2, <1>1
        <5>2. t[j] = b
          BY <4>1, <5>1, <1>2, <1>7
        <5>3. QED
          BY <5>1, <5>2 DEF At
      <4>2. CASE j = n
        BY <4>2, <2>2, <1>1, <1>7 DEF At
      <4>3. QED
        BY <4>1, <4>2, <1>1
    <3>5. QED
      BY <3>2, <3>3, <3>4
  <2>3. CASE i >= j
    <3>1. i \in j .. n - 1 /\ i + 1 \in 1 .. n /\ (j > 1 => i + 1 # j - 1)
      BY <2>3, <1>1
    <3>2. t[i] = s[i + 1]
      BY <3>1, <1>2
    <3>3. s[i + 1] # a
      BY <3>1, <1>1, <1>3, <1>7
    <3>4. x[s[i + 1]] = nx[s[i + 1]]
      BY <3>3, <3>1, <1>3 DEF SetIn
    <3>5. nx[s[i + 1]] = At(s, n, (i + 1) + 1)
      BY <3>1, <1>1
    <3>6. At(t, n - 1, i + 1) = At(s, n, (i + 1) + 1)
      <4>1. CASE i + 1 <= n - 1
        <5>1. i + 1 \in j .. n - 1 /\ i + 1 \in 1 .. n - 1 /\ (i + 1) + 1 \in 1 .. n
          BY <4>1, <3>1, <1>1
        <5>2. t[i + 1] = s[(i + 1) + 1]
          BY <5>1, <1>2
        <5>3. QED
          BY <5>1, <5>2 DEF At
      <4>2. CASE i + 1 > n - 1
        BY <4>2, <3>1, <1>1 DEF At
      <4>3. QED
        BY <4>1, <4>2, <3>1, <1>1
    <3>7. QED
      BY <3>2, <3>4, <3>5, <3>6
  <2>4. QED
    BY <2>1, <2>2, <2>3, <1>1
<1>10. \A i \in 1 .. n - 1 : y[t[i]] = At(t, n - 1, i - 1)
  <2> TAKE i \in 1 .. n - 1
  <2>1. CASE i < j
    <3>1. i \in 1 .. j - 1 /\ i \in 1 .. n /\ (j < n => i # j + 1)
      BY <2>1, <1>1
    <3>2. t[i] = s[i]
      BY <3>1, <1>2
    <3>3. s[i] # b
      BY <3>1, <1>1, <1>3, <1>7
    <3>4. y[s[i]] = pv[s[i]]
      BY <3>3, <3>1, <1>3 DEF SetIn
    <3>5. pv[s[i]] = At(s, n, i - 1)
      BY <3>1, <1>1
    <3>6. At(s, n, i - 1) = At(t, n - 1, i - 1)
      <4>1. CASE i = 1
        BY <4>1 DEF At
      <4>2. CASE i > 1
        <5>1. i - 1 \in 1 .. j - 1 /\ i - 1 \in 1 .. n - 1 /\ i - 1 \in 1 .. n
          BY <4>2, <3>1, <1>1
        <5>2. t[i - 1] = s[i - 1]
          BY <5>1, <1>2
        <5>3. QED
          BY <5>1, <5>2 DEF At
      <4>3. QED
        BY <4>1, <4>2, <3>1
    <3>7. QED
      BY <3>2, <3>4, <3>5, <3>6
  <2>2. CASE i = j
    <3>1. j < n /\ j \in j .. n - 1
      BY <2>2, <1>1
    <3>2. t[j] = b /\ b \in Procs
      BY <3>1, <1>2, <1>3, <1>7
    <3>3. y[b] = a
      BY <3>2 DEF SetIn
    <3>4. a = At(t, n - 1, i - 1)
      <4>1. CASE j = 1
        BY <4>1, <2>2, <1>7 DEF At
      <4>2. CASE j > 1
        <5>1. j - 1 \in 1 .. j - 1 /\ j - 1 \in 1 .. n - 1
          BY <4>2, <1>1
        <5>2. t[j - 1] = a
          BY <4>2, <5>1, <1>2, <1>7
        <5>3. QED
          BY <5>1, <5>2, <2>2 DEF At
      <4>3. QED
        BY <4>1, <4>2, <1>1
    <3>5. QED
      BY <2>2, <3>2, <3>3, <3>4
  <2>3. CASE i > j
    <3>1. /\ i \in j .. n - 1 /\ i - 1 \in j .. n - 1 /\ i - 1 \in 1 .. n - 1
          /\ i + 1 \in 1 .. n /\ i \in 1 .. n /\ i + 1 # j + 1 /\ (i - 1) + 1 = i
          /\ j < n
      BY <2>3, <1>1
    <3>2. t[i] = s[i + 1] /\ t[i - 1] = s[i]
      <4>1. t[i] = s[i + 1] /\ t[i - 1] = s[(i - 1) + 1]
        BY <3>1, <1>2
      <4>2. QED
        BY <4>1, <3>1
    <3>3. s[i + 1] # b
      BY <3>1, <1>1, <1>7
    <3>4. y[s[i + 1]] = pv[s[i + 1]]
      BY <3>3, <3>1, <1>3 DEF SetIn
    <3>5. pv[s[i + 1]] = s[i]
      <4>1. (i + 1) - 1 = i
        BY <3>1
      <4>2. QED
        BY <4>1, <3>1, <1>1 DEF At
    <3>6. QED
      BY <3>1, <3>2, <3>4, <3>5 DEF At
  <2>4. QED
    BY <2>1, <2>2, <2>3, <1>1
<1>11. QED
  <2> HIDE DEF t, x, y
  <2>1. Chain(IF hd = p THEN b ELSE hd, x, y, E \ {p}, t, n - 1)
    BY <1>1, <1>4, <1>5, <1>6, <1>8, <1>9, <1>10 DEF Chain
  <2>2. QED
    BY <2>1 DEF t, x, y, Unlinked
-----------------------------------------------------------------------------
(***************************************************************************)
(* The invariant                                                           *)
(***************************************************************************)
\* The weights of a boot, whose sum fits in the counter of the queue.
Sound(w) == w \in [Procs -> Nat] /\ Sum(w, Procs) < Word

Sorted(w, s, n) == \A i, l \in 1 .. n : i <= l => w[s[i]] >= w[s[l]]

\* The links, the head and the ENQUEUED bits are one list, sorted by weight.
Listed(m) == \E n \in Nat : \E s \in [1 .. n -> Procs] :
               Chain(m.head, m.next, m.prev, m.enq, s, n) /\ Sorted(m.w, s, n)

\* What every handler keeps of the scheduler's memory.
Good(m) ==
  /\ m \in Memory
  /\ Sound(m.w)
  /\ Listed(m)
  /\ \A p \in m.enq : m.w[p] > 0
  /\ m.weight = Sum(m.w, m.enq)

\* What holds between two entries: who runs is in the queue.
Inv == Good(k) /\ k.nxt = NULL /\ (k.cur \in Procs => k.cur \in k.enq)

LEMMA Words ==
  ASSUME Word > 0
  PROVE  /\ \A x \in Int : x % Word \in 0 .. Word - 1
         /\ \A x \in 0 .. Word - 1 : x % Word = x
BY Constants

LEMMA Sums32 ==
  ASSUME NEW w, Sound(w), NEW T \in SUBSET Procs
  PROVE  /\ Word > 0
         /\ Sum(w, T) \in 0 .. Word - 1
         /\ \A p \in Procs \ T : Sum(w, T \cup {p}) = Sum(w, T) + w[p]
<1>1. IsFiniteSet(Procs) /\ Word \in Nat /\ \A p \in Procs : w[p] \in Nat
  BY Constants DEF Sound
<1>2. Sum(w, T) \in Nat /\ Sum(w, Procs) \in Nat /\ Sum(w, T) <= Sum(w, Procs)
  BY <1>1, SumMonotone
<1>3. Sum(w, Procs) < Word
  BY DEF Sound
<1>4. \A p \in Procs \ T : Sum(w, T \cup {p}) = Sum(w, T) + w[p]
  <2> TAKE p \in Procs \ T
  <2>1. Sum(w, T \cup {p}) = w[p] + Sum(w, T)
    BY <1>1, SumAdd
  <2>2. w[p] \in Nat
    BY <1>1
  <2>3. QED
    BY <2>1, <2>2, <1>2
<1>5. QED
  BY <1>1, <1>2, <1>3, <1>4

\* A weight is a word, and so is what a queue weighs without one member.
LEMMA OneWeight ==
  ASSUME NEW w, Sound(w), NEW p \in Procs
  PROVE  w[p] \in 0 .. Word - 1
<1>1. Sum(w, {}) = 0 /\ {} \in SUBSET Procs
  BY SumEmpty
<1>2. Sum(w, {} \cup {p}) = 0 + w[p]
  BY <1>1, Sums32
<1>3. {} \cup {p} \in SUBSET Procs
  OBVIOUS
<1>4. Sum(w, {} \cup {p}) \in 0 .. Word - 1
  BY <1>3, Sums32
<1>5. w[p] \in Nat
  BY DEF Sound
<1>6. QED
  BY <1>2, <1>4, <1>5

LEMMA LessOne ==
  ASSUME NEW w, Sound(w), NEW T \in SUBSET Procs, NEW p \in T
  PROVE  Sum(w, T \ {p}) = Sum(w, T) - w[p] /\ Sum(w, T \ {p}) \in Nat
<1> DEFINE R == T \ {p}
<1>1. R \in SUBSET Procs /\ p \in Procs \ R /\ R \cup {p} = T
  OBVIOUS
<1> HIDE DEF R
<1>2. Sum(w, R \cup {p}) = Sum(w, R) + w[p]
  BY <1>1, Sums32
<1>3. Sum(w, R) \in 0 .. Word - 1 /\ w[p] \in 0 .. Word - 1 /\ Word \in Nat
  BY <1>1, Sums32, OneWeight, Constants
<1>4. Sum(w, R \cup {p}) = Sum(w, T)
  BY <1>1, Zenon
<1>5. Sum(w, R) = Sum(w, T) - w[p] /\ Sum(w, R) \in Nat
  BY <1>2, <1>3, <1>4
<1>6. QED
  BY <1>5 DEF R
-----------------------------------------------------------------------------
(***************************************************************************)
(* enqueue                                                                 *)
(***************************************************************************)
\* p may stand between a and b: they are neighbours of a sorted list and no
\* weight speaks against it.
Place(m, p, a, b) ==
  \E n \in Nat : \E s \in [1 .. n -> Procs] : \E j \in 0 .. n :
    /\ Chain(m.head, m.next, m.prev, m.enq, s, n) /\ Sorted(m.w, s, n)
    /\ a = At(s, n, j) /\ b = At(s, n, j + 1)
    /\ j > 0 => m.w[s[j]] >= m.w[p]
    /\ j < n => m.w[p] >= m.w[s[j + 1]]

\* Where a member of a chain stands.
Threads(hd, nx, pv, E, s, n) ==
  /\ E \subseteq Procs
  /\ \A q \in E : \E i \in 1 .. n : /\ q = s[i]
                                   /\ nx[q] = At(s, n, i + 1)
                                   /\ pv[q] = At(s, n, i - 1)
  /\ \A i \in 1 .. n : s[i] \in E
  /\ hd = At(s, n, 1)

LEMMA ChainThreads ==
  ASSUME NEW hd, NEW nx, NEW pv, NEW E, NEW s, NEW n, Chain(hd, nx, pv, E, s, n)
  PROVE  Threads(hd, nx, pv, E, s, n)
BY DEF Chain, Threads

\* Links that pass the test of last_neighbours_valid are a place.
LEMMA KeptLinksFit ==
  ASSUME NEW m, Good(m), NEW p \in Procs, p \notin m.enq, LastNeighboursValid(m, p)
  PROVE  Place(m, p, m.prev[p], m.next[p])
<1> USE Constants
<1>0. PICK n \in Nat : \E s \in [1 .. n -> Procs] :
             Chain(m.head, m.next, m.prev, m.enq, s, n) /\ Sorted(m.w, s, n)
  BY DEF Good, Listed
<1>1. PICK s \in [1 .. n -> Procs] :
             Chain(m.head, m.next, m.prev, m.enq, s, n) /\ Sorted(m.w, s, n)
  BY <1>0
<1>2. /\ m.enq \subseteq Procs
      /\ \A q \in m.enq : \E i \in 1 .. n : /\ q = s[i]
                                            /\ m.next[q] = At(s, n, i + 1)
                                            /\ m.prev[q] = At(s, n, i - 1)
      /\ \A i \in 1 .. n : s[i] \in m.enq
      /\ m.head = At(s, n, 1)
  <2>1. Threads(m.head, m.next, m.prev, m.enq, s, n)
    BY <1>1, ChainThreads
  <2>2. QED
    BY <2>1 DEF Threads
<1> DEFINE a == m.prev[p]
           b == m.next[p]
<1>3. CASE a = NULL
  <2>1. /\ b # NULL /\ m.head # NULL /\ m.w[m.head] <= m.w[p]
        /\ b \in m.enq /\ m.prev[b] = NULL
    BY <1>3 DEF LastNeighboursValid, PreviousValid, NextValid
  <2>2. PICK i \in 1 .. n : b = s[i] /\ m.prev[b] = At(s, n, i - 1)
    BY <2>1, <1>2
  <2>3. i = 1
    <3> SUFFICES ASSUME i # 1 PROVE FALSE
      OBVIOUS
    <3>1. i - 1 \in 1 .. n
      OBVIOUS
    <3>2. At(s, n, i - 1) \in Procs
      BY <3>1 DEF At
    <3>3. QED
      BY <3>2, <2>1, <2>2
  <2>4. 0 \in 0 .. n /\ a = At(s, n, 0) /\ b = At(s, n, 0 + 1) /\ m.head = b
    BY <1>2, <1>3, <2>2, <2>3 DEF At
  <2>5. 0 < n => m.w[p] >= m.w[s[0 + 1]]
    <3>1. m.w[p] \in Nat /\ m.w[b] \in Nat /\ b = s[0 + 1]
      BY <2>1, <2>2, <2>3, <1>2 DEF Good, Sound
    <3>2. QED
      BY <3>1, <2>1, <2>4
  <2>6. QED
    BY <1>1, <2>4, <2>5 DEF Place
<1>4. CASE a # NULL
  <2>1. a \in m.enq /\ m.next[a] = b /\ m.w[a] >= m.w[p]
    BY <1>4 DEF LastNeighboursValid, PreviousValid
  <2>2. PICK j \in 1 .. n : a = s[j] /\ m.next[a] = At(s, n, j + 1)
    BY <2>1, <1>2
  <2>3. j \in 0 .. n /\ a = At(s, n, j) /\ b = At(s, n, j + 1) /\ m.w[s[j]] >= m.w[p]
    BY <2>1, <2>2 DEF At
  <2>4. j < n => m.w[p] >= m.w[s[j + 1]]
    <3> SUFFICES ASSUME j < n PROVE m.w[p] >= m.w[s[j + 1]]
      OBVIOUS
    <3>1. j + 1 \in 1 .. n
      OBVIOUS
    <3>2. b = s[j + 1] /\ b \in Procs
      BY <3>1, <2>3 DEF At
    <3>3. m.w[b] <= m.w[p]
      BY <3>2 DEF LastNeighboursValid, NextValid
    <3>4. m.w[b] \in Nat /\ m.w[p] \in Nat
      BY <3>2 DEF Good, Sound
    <3>5. QED
      BY <3>2, <3>3, <3>4
  <2>5. QED
    BY <1>1, <2>3, <2>4 DEF Place
<1>5. QED
  BY <1>3, <1>4

\* One turn of the scan, and what the scan computes turn by turn.
ScanTurn(m, p, s) ==
  IF s.cur # NULL /\ StepOver(m, s.cur, p)
  THEN [prev |-> s.cur, cur |-> m.next[s.cur]]
  ELSE s

Scans(f, m, p) ==
  f = [n \in 0 .. Cardinality(Procs) |->
         IF n = 0 THEN [prev |-> NULL, cur |-> m.head] ELSE ScanTurn(m, p, f[n - 1])]

\* The list is no longer than there are processes.
LEMMA ChainLength ==
  ASSUME NEW hd, NEW nx, NEW pv, NEW E, NEW s, NEW n, Chain(hd, nx, pv, E, s, n)
  PROVE  /\ Cardinality(E) = n /\ n <= Cardinality(Procs)
         /\ Cardinality(Procs) \in Nat /\ IsFiniteSet(E)
<1>1. n \in Nat /\ s \in [1 .. n -> Procs] /\ E \subseteq Procs
  BY DEF Chain
<1>2. s \in Bijection(1 .. n, E)
  BY DEF Chain, Bijection, Injection, Surjection, IsInjective
<1>3. Cardinality(E) = n
  BY <1>1, <1>2, FS_CountingElements DEF ExistsBijection
<1>4. IsFiniteSet(E) /\ Cardinality(E) <= Cardinality(Procs) /\ Cardinality(Procs) \in Nat
  BY <1>1, Constants, FS_Subset, FS_CardinalityType
<1>5. QED
  BY <1>3, <1>4

\* Two runs of the scan are the same run.
LEMMA ScansOnce ==
  ASSUME NEW f, NEW g, NEW m, NEW p, Scans(f, m, p), Scans(g, m, p)
  PROVE  f[Cardinality(Procs)] = g[Cardinality(Procs)]
<1> DEFINE C == Cardinality(Procs)
           S == {i \in Nat : i <= C => f[i] = g[i]}
<1>1. C \in Nat
  BY Constants, FS_CardinalityType
<1>2. 0 \in S
  BY <1>1 DEF Scans
<1>3. \A i \in S : i + 1 \in S
  <2> SUFFICES ASSUME NEW i \in S, i + 1 <= C PROVE f[i + 1] = g[i + 1]
    OBVIOUS
  <2>1. /\ i + 1 \in 0 .. C /\ i + 1 # 0 /\ (i + 1) - 1 = i /\ f[i] = g[i]
    BY <1>1
  <2>2. f[i + 1] = ScanTurn(m, p, f[i]) /\ g[i + 1] = ScanTurn(m, p, g[i])
    BY <2>1 DEF Scans
  <2>3. QED
    BY <2>1, <2>2
<1>4. S = Nat
  <2> HIDE DEF S
  <2>1. S \in SUBSET Nat
    BY DEF S
  <2>2. QED
    BY <2>1, <1>2, <1>3, SetInduction
<1>5. QED
  BY <1>1, <1>4

\* The scan ends between the last heavier process and the first other one.
LEMMA ScanFits ==
  ASSUME NEW m, Good(m), NEW p \in Procs, p \notin m.enq
  PROVE  Place(m, p, ScanFor(m, p).prev, ScanFor(m, p).cur)
<1> USE Constants
<1>0. PICK n \in Nat : \E s \in [1 .. n -> Procs] :
             Chain(m.head, m.next, m.prev, m.enq, s, n) /\ Sorted(m.w, s, n)
  BY DEF Good, Listed
<1>1. PICK s \in [1 .. n -> Procs] :
             Chain(m.head, m.next, m.prev, m.enq, s, n) /\ Sorted(m.w, s, n)
  BY <1>0
<1> DEFINE C == Cardinality(Procs)
           heavier(i) == m.w[s[i]] > m.w[p]
           T == {i \in 1 .. n + 1 : i <= n => ~heavier(i)}
<1>2. n <= C /\ C \in Nat
  BY <1>1, ChainLength
<1>3. \A q \in Procs : m.w[q] \in Nat
  BY DEF Good, Sound
<1>4. T \in SUBSET Nat /\ n + 1 \in T
  OBVIOUS
<1>5. PICK x \in T : \A y \in T : x <= y
  <2> HIDE DEF T
  <2> QED
    BY <1>4, LeastElement
<1> DEFINE h == x - 1
<1>6. h \in 0 .. n /\ \A i \in 1 .. h : heavier(i)
  BY <1>5
<1>7. h < n => ~heavier(h + 1)
  BY <1>5
<1> DEFINE upTo(i) == IF i <= h THEN i ELSE h
           f == [i \in 0 .. C |-> [prev |-> At(s, n, upTo(i)), cur |-> At(s, n, upTo(i) + 1)]]
<1> HIDE DEF h
<1>8. \A i \in 1 .. n : s[i] \in Procs /\ m.next[s[i]] = At(s, n, i + 1)
  BY <1>1 DEF Chain
<1>9. \A i \in 0 .. C : f[i] = IF i = 0 THEN [prev |-> NULL, cur |-> m.head]
                               ELSE ScanTurn(m, p, f[i - 1])
  <2> TAKE i \in 0 .. C
  <2>1. CASE i = 0
    <3>1. upTo(0) = 0 /\ m.head = At(s, n, 1)
      BY <1>1, <1>6 DEF Chain
    <3>2. QED
      BY <2>1, <3>1 DEF At
  <2>2. CASE i # 0 /\ i <= h
    <3>1. upTo(i) = i /\ upTo(i - 1) = i - 1 /\ i \in 1 .. n /\ i - 1 \in 0 .. C /\ (i - 1) + 1 = i
      BY <2>2, <1>2, <1>6
    <3>2. f[i - 1].cur = s[i] /\ s[i] \in Procs
      BY <3>1, <1>8 DEF At
    <3>3. heavier(i)
      BY <2>2, <1>6
    <3>4. StepOver(m, f[i - 1].cur, p) /\ f[i - 1].cur # NULL
      BY <3>2, <3>3 DEF StepOver
    <3>5. f[i] = [prev |-> s[i], cur |-> At(s, n, i + 1)]
      BY <3>1 DEF At
    <3>6. m.next[f[i - 1].cur] = At(s, n, i + 1)
      BY <3>1, <3>2, <1>8
    <3>7. QED
      BY <2>2, <3>2, <3>4, <3>5, <3>6 DEF ScanTurn
  <2>3. CASE i # 0 /\ i > h
    <3>1. upTo(i) = h /\ upTo(i - 1) = h /\ i - 1 \in 0 .. C
      BY <2>3, <1>2, <1>6
    <3>2. f[i - 1] = [prev |-> At(s, n, h), cur |-> At(s, n, h + 1)] /\ f[i] = f[i - 1]
      BY <3>1
    <3>3. ~(f[i - 1].cur # NULL /\ StepOver(m, f[i - 1].cur, p))
      <4>1. CASE h < n
        <5>1. f[i - 1].cur = s[h + 1] /\ ~heavier(h + 1)
          BY <3>2, <4>1, <1>6, <1>7 DEF At
        <5>2. QED
          BY <5>1 DEF StepOver
      <4>2. CASE h >= n
        BY <4>2, <3>2, <1>6 DEF At
      <4>3. QED
        BY <4>1, <4>2, <1>6
    <3>4. QED
      BY <2>3, <3>2, <3>3 DEF ScanTurn
  <2>4. QED
    BY <2>1, <2>2, <2>3, <1>6
<1>10. Scans(f, m, p)
  <2> HIDE DEF upTo
  <2>1. f = [i \in 0 .. C |-> f[i]]
    OBVIOUS
  <2> HIDE DEF f
  <2>2. QED
    BY <2>1, <1>9 DEF Scans
<1>11. ScanFor(m, p) = (CHOOSE g : Scans(g, m, p))[C]
  BY DEF ScanFor, Scans, ScanTurn
<1>12. Scans(CHOOSE g : Scans(g, m, p), m, p)
  BY <1>10
<1>13. ScanFor(m, p) = f[C]
  BY <1>10, <1>11, <1>12, ScansOnce
<1>14. f[C] = [prev |-> At(s, n, h), cur |-> At(s, n, h + 1)]
  <2>1. upTo(C) = h /\ C \in 0 .. C
    BY <1>2, <1>6
  <2>2. QED
    BY <2>1
<1>15. h > 0 => m.w[s[h]] >= m.w[p]
  <2> SUFFICES ASSUME h > 0 PROVE m.w[s[h]] >= m.w[p]
    OBVIOUS
  <2>1. h \in 1 .. h /\ s[h] \in Procs
    BY <1>6, <1>8
  <2>2. QED
    BY <2>1, <1>3, <1>6
<1>16. h < n => m.w[p] >= m.w[s[h + 1]]
  <2> SUFFICES ASSUME h < n PROVE m.w[p] >= m.w[s[h + 1]]
    OBVIOUS
  <2>1. s[h + 1] \in Procs /\ ~heavier(h + 1)
    BY <1>6, <1>7, <1>8
  <2>2. QED
    BY <2>1, <1>3
<1>17. ScanFor(m, p).prev = At(s, n, h) /\ ScanFor(m, p).cur = At(s, n, h + 1)
  BY <1>13, <1>14
<1>18. QED
  BY <1>1, <1>6, <1>15, <1>16, <1>17 DEF Place

\* Where p goes, the list is sorted with it.
LEMMA InsertSorted ==
  ASSUME NEW w, \A q \in Procs : w[q] \in Nat, NEW p \in Procs,
         NEW n \in Nat, NEW s \in [1 .. n -> Procs], Sorted(w, s, n), NEW j \in 0 .. n,
         j > 0 => w[s[j]] >= w[p], j < n => w[p] >= w[s[j + 1]]
  PROVE  Sorted(w, Ins(s, n, j, p), n + 1)
<1> DEFINE t == Ins(s, n, j, p)
<1>1. /\ \A i \in 1 .. j : t[i] = s[i] /\ i \in 1 .. n
      /\ t[j + 1] = p
      /\ \A i \in j + 2 .. n + 1 : t[i] = s[i - 1] /\ i - 1 \in 1 .. n
  BY DEF Ins
<1>2. \A i, l \in 1 .. n : i <= l => w[s[i]] >= w[s[l]]
  BY DEF Sorted
<1>3. \A i \in 1 .. n : w[s[i]] \in Nat
  OBVIOUS
<1>4. \A i \in 1 .. j : w[t[i]] >= w[p]
  <2> TAKE i \in 1 .. j
  <2>1. i \in 1 .. n /\ j \in 1 .. n /\ i <= j /\ j > 0
    OBVIOUS
  <2>2. w[s[i]] >= w[s[j]] /\ w[s[j]] >= w[p]
    BY <2>1, <1>2
  <2>3. w[s[i]] \in Nat /\ w[s[j]] \in Nat /\ w[p] \in Nat
    BY <2>1
  <2>4. QED
    BY <2>1, <2>2, <2>3, <1>1
<1>5. \A i \in j + 2 .. n + 1 : w[p] >= w[t[i]]
  <2> TAKE i \in j + 2 .. n + 1
  <2>1. i - 1 \in 1 .. n /\ j + 1 \in 1 .. n /\ j + 1 <= i - 1 /\ j < n
    OBVIOUS
  <2>2. w[s[j + 1]] >= w[s[i - 1]] /\ w[p] >= w[s[j + 1]]
    BY <2>1, <1>2
  <2>3. w[s[i - 1]] \in Nat /\ w[s[j + 1]] \in Nat /\ w[p] \in Nat
    BY <2>1
  <2>4. QED
    BY <2>2, <2>3, <1>1
<1>6. ASSUME NEW i \in 1 .. n + 1, NEW l \in 1 .. n + 1, i <= l
      PROVE  w[t[i]] >= w[t[l]]
  <2>1. CASE l <= j
    <3>1. i \in 1 .. j /\ l \in 1 .. j
      BY <2>1, <1>6
    <3>2. QED
      BY <3>1, <1>1, <1>2, <1>6
  <2>2. CASE i <= j /\ l = j + 1
    BY <2>2, <1>1, <1>4
  <2>3. CASE i <= j /\ l > j + 1
    <3>1. i \in 1 .. j /\ l \in j + 2 .. n + 1
      BY <2>3
    <3>2. w[t[i]] >= w[p] /\ w[p] >= w[t[l]]
      BY <3>1, <1>4, <1>5
    <3>3. w[t[i]] \in Nat /\ w[p] \in Nat /\ w[t[l]] \in Nat
      BY <3>1, <1>1, <1>3
    <3>4. QED
      BY <3>2, <3>3
  <2>4. CASE i = j + 1 /\ l = j + 1
    BY <2>4, <1>1
  <2>5. CASE i = j + 1 /\ l > j + 1
    BY <2>5, <1>1, <1>5
  <2>6. CASE i > j + 1
    <3>1. i \in j + 2 .. n + 1 /\ l \in j + 2 .. n + 1 /\ i - 1 <= l - 1
      BY <2>6, <1>6
    <3>2. QED
      BY <3>1, <1>1, <1>2
  <2>7. QED
    BY <2>1, <2>2, <2>3, <2>4, <2>5, <2>6, <1>6
<1>7. QED
  BY <1>6 DEF Sorted

\* Fields of the memory.
LEMMA MemoryHas ==
  ASSUME NEW m \in Memory
  PROVE  /\ m.next \in [Procs -> Link] /\ m.prev \in [Procs -> Link]
         /\ m.ticks \in [Procs -> 0 .. Word - 1] /\ m.w \in [Procs -> 0 .. Word - 1]
         /\ m.head \in Link /\ m.enq \subseteq Procs
         /\ m.weight \in 0 .. Word - 1 /\ m.left \in 0 .. Word - 1
         /\ m.cur \in Procs \cup {Idle, NULL} /\ m.nxt \in Procs \cup {Idle, NULL}
BY DEF Memory, Link

\* The ticks granted are a word.
LEMMA GrantIsWord ==
  ASSUME NEW m \in Memory, NEW p \in Procs, Word > 0
  PROVE  Grant(m, p) \in 0 .. Word - 1
<1>1. /\ m.weight \in 0 .. Word - 1 /\ m.left \in 0 .. Word - 1
      /\ m.w[p] \in 0 .. Word - 1 /\ m.ticks[p] \in 0 .. Word - 1
  BY MemoryHas
<1>2. CASE m.weight = 0
  BY <1>1, <1>2 DEF Grant
<1>3. CASE m.weight # 0
  <2> DEFINE x == Sub(m.w[p], Mul(Sub(m.weight, m.left), m.w[p]) \div m.weight)
  <2>0. Word \in Nat /\ m.weight \in Nat \ {0}
    BY Constants, <1>1, <1>3
  <2>1. Sub(m.weight, m.left) \in 0 .. Word - 1
    BY <2>0, <1>1, Words DEF Sub
  <2>2. Mul(Sub(m.weight, m.left), m.w[p]) \in 0 .. Word - 1
    <3>1. Sub(m.weight, m.left) * m.w[p] \in Int
      BY <2>0, <2>1, <1>1
    <3>2. QED
      BY <3>1, Words DEF Mul
  <2>3. Mul(Sub(m.weight, m.left), m.w[p]) \div m.weight \in Int
    <3> DEFINE y == Mul(Sub(m.weight, m.left), m.w[p])
    <3>1. y \in Nat
      BY <2>0, <2>2
    <3> HIDE DEF y
    <3>2. y \div m.weight \in Int
      BY <3>1, <2>0
    <3>3. QED
      BY <3>2 DEF y
  <2>4. x \in 0 .. Word - 1
    <3> DEFINE z == Mul(Sub(m.weight, m.left), m.w[p]) \div m.weight
    <3> HIDE DEF z
    <3>1. z \in Int
      BY <2>3 DEF z
    <3>2. m.w[p] - z \in Int
      BY <3>1, <2>0, <1>1
    <3>3. Sub(m.w[p], z) \in 0 .. Word - 1
      BY <3>2, Words DEF Sub
    <3>4. QED
      BY <3>3 DEF z
  <2> HIDE DEF x
  <2>5. Least(x, m.ticks[p]) \in 0 .. Word - 1
    BY <2>4, <1>1 DEF Least
  <2>6. QED
    BY <2>5, <1>3 DEF Grant, x
<1>4. QED
  BY <1>2, <1>3

\* enqueue brings p in, between its neighbours.
LEMMA EnqueueKeeps ==
  ASSUME NEW m, Good(m), NEW p \in Procs, m.w[p] > 0
  PROVE  LET r == Enqueue(m, p) IN
         Good(r) /\ r.enq = m.enq \cup {p} /\ r.w = m.w /\ r.cur = m.cur /\ r.nxt = m.nxt
<1> DEFINE r == Enqueue(m, p)
<1>1. CASE p \in m.enq
  <2>1. r = m /\ m.enq \cup {p} = m.enq
    BY <1>1 DEF Enqueue
  <2>2. QED
    BY <2>1
<1>2. CASE p \notin m.enq
  <2>1. PICK a, b : Relinked(m, p) = LinkBetween(m, p, a, b) /\ Place(m, p, a, b)
    <3>1. CASE LastNeighboursValid(m, p)
      BY <3>1, <1>2, KeptLinksFit DEF Relinked
    <3>2. CASE ~LastNeighboursValid(m, p)
      BY <3>2, <1>2, ScanFits DEF Relinked
    <3>3. QED
      BY <3>1, <3>2
  <2>2. PICK n \in Nat : \E s \in [1 .. n -> Procs] : \E j \in 0 .. n :
               /\ Chain(m.head, m.next, m.prev, m.enq, s, n) /\ Sorted(m.w, s, n)
               /\ a = At(s, n, j) /\ b = At(s, n, j + 1)
               /\ j > 0 => m.w[s[j]] >= m.w[p]
               /\ j < n => m.w[p] >= m.w[s[j + 1]]
    BY <2>1 DEF Place
  <2>3. PICK s \in [1 .. n -> Procs], j \in 0 .. n :
               /\ Chain(m.head, m.next, m.prev, m.enq, s, n) /\ Sorted(m.w, s, n)
               /\ a = At(s, n, j) /\ b = At(s, n, j + 1)
               /\ j > 0 => m.w[s[j]] >= m.w[p]
               /\ j < n => m.w[p] >= m.w[s[j + 1]]
    BY <2>2
  <2>4. /\ m \in Memory /\ Sound(m.w) /\ Word > 0 /\ Word \in Nat
        /\ m.next \in [Procs -> Link] /\ m.prev \in [Procs -> Link]
        /\ m.enq \in SUBSET Procs /\ m.head \in Link
    BY MemoryHas, Sums32, Constants DEF Good
  <2> DEFINE g == Grant(m, p)
             x == SetIn([m.next EXCEPT ![p] = b], a, p)
             y == SetIn([m.prev EXCEPT ![p] = a], b, p)
             hd == IF a = NULL THEN p ELSE m.head
  <2>5. r = [w |-> m.w, head |-> hd, weight |-> Add(m.weight, m.w[p]), left |-> Add(m.left, g),
             cur |-> m.cur, nxt |-> m.nxt, next |-> x, prev |-> y,
             ticks |-> [m.ticks EXCEPT ![p] = g], enq |-> m.enq \cup {p}]
    BY <1>2, <2>1, <2>4 DEF Enqueue, LinkBetween, Memory
  <2>6. Chain(hd, x, y, m.enq \cup {p}, Ins(s, n, j, p), n + 1)
    BY <2>3, <2>4, <1>2, InsertChain
  <2>7. Sorted(m.w, Ins(s, n, j, p), n + 1)
    <3>1. \A q \in Procs : m.w[q] \in Nat
      BY <2>4 DEF Sound
    <3>2. QED
      BY <3>1, <2>3, InsertSorted
  <2>8. Listed(r)
    <3> HIDE DEF x, y, hd, g, r
    <3>1. n + 1 \in Nat /\ Ins(s, n, j, p) \in [1 .. n + 1 -> Procs]
      BY <2>6 DEF Chain
    <3>2. r.head = hd /\ r.next = x /\ r.prev = y /\ r.enq = m.enq \cup {p} /\ r.w = m.w
      BY <2>5
    <3>3. QED
      BY <3>1, <3>2, <2>6, <2>7 DEF Listed
  <2>9. r.weight = Sum(r.w, r.enq)
    <3>1. Sum(m.w, m.enq \cup {p}) = Sum(m.w, m.enq) + m.w[p]
      BY <2>4, <1>2, Sums32
    <3>2. Sum(m.w, m.enq \cup {p}) \in 0 .. Word - 1
      BY <2>4, Sums32
    <3>3. Add(m.weight, m.w[p]) = Sum(m.w, m.enq \cup {p})
      BY <3>1, <3>2, <2>4, Words DEF Add, Good
    <3>4. QED
      BY <3>3, <2>5
  <2>10. r \in Memory
    <3>1. g \in 0 .. Word - 1
      BY <2>4, GrantIsWord
    <3>2. x \in [Procs -> Link] /\ y \in [Procs -> Link] /\ hd \in Link
      <4>1. a \in Link /\ b \in Link
        BY <2>3, <2>4 DEF At, Link
      <4>2. QED
        BY <4>1, <2>4 DEF SetIn, Link
    <3>3. /\ m.ticks \in [Procs -> 0 .. Word - 1] /\ m.w \in [Procs -> 0 .. Word - 1]
          /\ m.weight \in 0 .. Word - 1 /\ m.left \in 0 .. Word - 1
          /\ m.cur \in Procs \cup {Idle, NULL} /\ m.nxt \in Procs \cup {Idle, NULL}
      BY <2>4, MemoryHas
    <3>4. Add(m.weight, m.w[p]) \in 0 .. Word - 1 /\ Add(m.left, g) \in 0 .. Word - 1
      <4> HIDE DEF g
      <4>1. m.weight + m.w[p] \in Int /\ m.left + g \in Int
        BY <3>1, <3>3, <2>4
      <4>2. QED
        BY <4>1, <2>4, Words DEF Add
    <3> HIDE DEF g, x, y, hd, r
    <3>5. QED
      BY <2>5, <3>1, <3>2, <3>3, <3>4, <2>4 DEF Memory, Link
  <2>11. \A q \in r.enq : r.w[q] > 0
    BY <2>5 DEF Good
  <2> HIDE DEF r
  <2>12. r.enq = m.enq \cup {p} /\ r.w = m.w /\ r.cur = m.cur /\ r.nxt = m.nxt
    BY <2>5
  <2>13. Good(r)
    BY <2>4, <2>8, <2>9, <2>10, <2>11, <2>12 DEF Good
  <2>14. QED
    BY <2>12, <2>13 DEF r
<1>3. QED
  BY <1>1, <1>2

\* What EnqueueAll computes, one process after the other.
Enqueues(f, m, ws) ==
  f = [n \in 0 .. Len(ws) |-> IF n = 0 THEN m ELSE Enqueue(f[n - 1], ws[n])]

\* That recursion is well defined.
LEMMA EnqueueAllRuns ==
  ASSUME NEW m, Good(m), NEW ws \in Seq(Procs), \A i \in 1 .. Len(ws) : m.w[ws[i]] > 0
  PROVE  \E c : Enqueues(c, m, ws) /\ EnqueueAll(m, ws) = c[Len(ws)]
<1> DEFINE N == Len(ws)
           S == {x \in Memory : Good(x) /\ x.w = m.w}
           D == [n \in Nat |-> [x \in S |-> IF n \in 1 .. N THEN Enqueue(x, ws[n]) ELSE x]]
<1>1. N \in Nat /\ \A i \in 1 .. N : ws[i] \in Procs /\ m.w[ws[i]] > 0
  OBVIOUS
<1>2. \A i \in 1 .. N : \A x \in S : Enqueue(x, ws[i]) \in S
  <2> SUFFICES ASSUME NEW i \in 1 .. N, NEW x \in S PROVE Enqueue(x, ws[i]) \in S
    OBVIOUS
  <2>1. Good(x) /\ ws[i] \in Procs /\ x.w[ws[i]] > 0
    BY <1>1
  <2>2. Good(Enqueue(x, ws[i])) /\ Enqueue(x, ws[i]).w = x.w
    BY <2>1, EnqueueKeeps
  <2>3. QED
    BY <2>2 DEF Good
<1>3. PICK f \in [0 .. N -> S] : Iterates(f, N, m, D)
  <2>1. m \in S
    BY DEF Good
  <2>2. D \in [Nat -> [S -> S]]
    <3> HIDE DEF S
    <3>1. QED
      BY <1>2
  <2> HIDE DEF D, S, N
  <2>3. QED
    BY <2>1, <2>2, <1>1, IteratesExist
<1>4. Enqueues(f, m, ws)
  <2> HIDE DEF S
  <2>1. \A n \in 0 .. N : f[n] = IF n = 0 THEN m ELSE Enqueue(f[n - 1], ws[n])
    <3> TAKE n \in 0 .. N
    <3>1. CASE n = 0
      BY <3>1, <1>3, <1>1 DEF Iterates
    <3>2. CASE n # 0
      <4>1. n \in 1 .. N /\ n - 1 \in 0 .. N /\ n \in Nat
        BY <3>2, <1>1
      <4>2. f[n] = D[n][f[n - 1]] /\ f[n - 1] \in S
        BY <1>3, <3>2, <4>1 DEF Iterates
      <4>3. QED
        BY <3>2, <4>1, <4>2
    <3>3. QED
      BY <3>1, <3>2
  <2>2. QED
    BY <2>1 DEF Enqueues
<1> DEFINE c == CHOOSE g : Enqueues(g, m, ws)
<1>5. Enqueues(c, m, ws)
  BY <1>4
<1>6. EnqueueAll(m, ws) = c[N]
  BY DEF EnqueueAll, Enqueues
<1>7. QED
  BY <1>5, <1>6

\* A list of processes that are woken joins the queue.
LEMMA EnqueueAllKeeps ==
  ASSUME NEW m, Good(m), NEW ws \in Seq(Procs), \A i \in 1 .. Len(ws) : m.w[ws[i]] > 0
  PROVE  LET r == EnqueueAll(m, ws) IN
         /\ Good(r) /\ r.enq = m.enq \cup {ws[i] : i \in 1 .. Len(ws)}
         /\ r.w = m.w /\ r.cur = m.cur /\ r.nxt = m.nxt
<1> DEFINE N == Len(ws)
<1>1. N \in Nat /\ \A i \in 1 .. N : ws[i] \in Procs /\ m.w[ws[i]] > 0
  OBVIOUS
<1>2. PICK c : Enqueues(c, m, ws) /\ EnqueueAll(m, ws) = c[N]
  BY EnqueueAllRuns
<1> DEFINE Q(n) == /\ Good(c[n]) /\ c[n].enq = m.enq \cup {ws[i] : i \in 1 .. n}
                   /\ c[n].w = m.w /\ c[n].cur = m.cur /\ c[n].nxt = m.nxt
           T == {n \in Nat : n <= N => Q(n)}
<1>7. 0 \in T
  <2>1. c[0] = m
    BY <1>1, <1>2 DEF Enqueues
  <2>2. {ws[i] : i \in 1 .. 0} = {}
    OBVIOUS
  <2>3. QED
    BY <2>1, <2>2
<1>8. \A n \in T : n + 1 \in T
  <2> SUFFICES ASSUME NEW n \in T PROVE n + 1 \in T
    OBVIOUS
  <2> SUFFICES ASSUME n + 1 <= N PROVE Q(n + 1)
    OBVIOUS
  <2>1. n \in Nat /\ Q(n) /\ n + 1 \in 1 .. N
    BY <1>1
  <2>2. c[n + 1] = Enqueue(c[n], ws[n + 1])
    <3>1. n + 1 \in 0 .. N /\ n + 1 # 0 /\ (n + 1) - 1 = n
      BY <2>1, <1>1
    <3>2. QED
      BY <3>1, <1>2 DEF Enqueues
  <2>3. ws[n + 1] \in Procs /\ c[n].w[ws[n + 1]] > 0
    BY <2>1, <1>1
  <2>4. LET r == Enqueue(c[n], ws[n + 1]) IN
        /\ Good(r) /\ r.enq = c[n].enq \cup {ws[n + 1]}
        /\ r.w = c[n].w /\ r.cur = c[n].cur /\ r.nxt = c[n].nxt
    BY <2>1, <2>3, EnqueueKeeps
  <2>5. {ws[i] : i \in 1 .. n} \cup {ws[n + 1]} = {ws[i] : i \in 1 .. n + 1}
    <3>1. 1 .. n + 1 = (1 .. n) \cup {n + 1}
      BY <2>1
    <3>2. QED
      BY <3>1
  <2> HIDE DEF N
  <2>6. QED
    BY <2>1, <2>2, <2>4, <2>5
<1>9. T = Nat
  <2> HIDE DEF T
  <2>1. T \in SUBSET Nat
    BY DEF T
  <2>2. QED
    BY <2>1, <1>7, <1>8, SetInduction
<1>10. Q(N)
  BY <1>1, <1>9
<1>11. QED
  BY <1>2, <1>10

\* What each enqueue of the list keeps, the whole list keeps.
LEMMA EnqueueAllIn ==
  ASSUME NEW m, Good(m), NEW ws \in Seq(Procs), \A i \in 1 .. Len(ws) : m.w[ws[i]] > 0,
         NEW S, m \in S,
         \A x \in S : \A i \in 1 .. Len(ws) :
           Good(x) /\ x.w = m.w => Enqueue(x, ws[i]) \in S
  PROVE  EnqueueAll(m, ws) \in S
<1> DEFINE N == Len(ws)
<1>1. N \in Nat /\ \A i \in 1 .. N : ws[i] \in Procs /\ m.w[ws[i]] > 0
  OBVIOUS
<1>2. PICK c : Enqueues(c, m, ws) /\ EnqueueAll(m, ws) = c[N]
  BY EnqueueAllRuns
<1> DEFINE Q(n) == Good(c[n]) /\ c[n].w = m.w /\ c[n] \in S
           T == {n \in Nat : n <= N => Q(n)}
<1>3. 0 \in T
  <2>1. c[0] = m
    BY <1>1, <1>2 DEF Enqueues
  <2>2. QED
    BY <2>1
<1>4. \A n \in T : n + 1 \in T
  <2> SUFFICES ASSUME NEW n \in T PROVE n + 1 \in T
    OBVIOUS
  <2> SUFFICES ASSUME n + 1 <= N PROVE Q(n + 1)
    OBVIOUS
  <2>1. n \in Nat /\ Q(n) /\ n + 1 \in 1 .. N
    BY <1>1
  <2>2. c[n + 1] = Enqueue(c[n], ws[n + 1])
    <3>1. n + 1 \in 0 .. N /\ n + 1 # 0 /\ (n + 1) - 1 = n
      BY <2>1, <1>1
    <3>2. QED
      BY <3>1, <1>2 DEF Enqueues
  <2>3. ws[n + 1] \in Procs /\ c[n].w[ws[n + 1]] > 0
    BY <2>1, <1>1
  <2>4. Good(Enqueue(c[n], ws[n + 1])) /\ Enqueue(c[n], ws[n + 1]).w = c[n].w
    BY <2>1, <2>3, EnqueueKeeps
  <2>5. Enqueue(c[n], ws[n + 1]) \in S
    BY <2>1
  <2> HIDE DEF N
  <2>6. QED
    BY <2>1, <2>2, <2>4, <2>5
<1>5. T = Nat
  <2> HIDE DEF T
  <2>1. T \in SUBSET Nat
    BY DEF T
  <2>2. QED
    BY <2>1, <1>3, <1>4, SetInduction
<1>6. Q(N)
  BY <1>1, <1>5
<1>7. QED
  BY <1>2, <1>6
-----------------------------------------------------------------------------
(***************************************************************************)
(* charge_process and pick_next_proc                                       *)
(***************************************************************************)
\* The part of the memory that charging and picking leave alone.
SameQueue(m, r) ==
  /\ r.w = m.w /\ r.head = m.head /\ r.weight = m.weight
  /\ r.next = m.next /\ r.prev = m.prev /\ r.enq = m.enq

LEMMA SameQueueGood ==
  ASSUME NEW m, Good(m), NEW r \in Memory, SameQueue(m, r)
  PROVE  Good(r)
BY DEF Good, Listed, SameQueue

\* Taking one from a word.
LEMMA SubOne ==
  ASSUME Word > 0
  PROVE  /\ \A x \in 1 .. Word - 1 : Sub(x, 1) = x - 1
         /\ Sub(0, 1) = Word - 1
         /\ \A x \in 0 .. Word - 1 : Sub(x, 1) \in 0 .. Word - 1
<1>1. Word \in Nat
  BY Constants
<1>2. \A x \in 1 .. Word - 1 : x - 1 \in 0 .. Word - 1 /\ x - 1 \in Int
  BY <1>1
<1>3. (0 - 1) % Word = Word - 1
  BY <1>1
<1>4. QED
  BY <1>1, <1>2, <1>3, Words DEF Sub

\* What a list of exactly the members of enq says about its ends.
Ends(m) ==
  /\ m.head = NULL <=> m.enq = {}
  /\ m.head # NULL => m.head \in m.enq
  /\ \A q \in m.enq : /\ m.next[q] \in m.enq \cup {NULL} /\ m.next[q] # q
                      /\ m.head = q /\ m.next[q] = NULL => m.enq = {q}

LEMMA ListHasEnds ==
  ASSUME NEW m, Good(m)
  PROVE  Ends(m)
<1> USE Constants
<1>0. PICK n \in Nat : \E s \in [1 .. n -> Procs] :
             Chain(m.head, m.next, m.prev, m.enq, s, n) /\ Sorted(m.w, s, n)
  BY DEF Good, Listed
<1>1. PICK s \in [1 .. n -> Procs] :
             Chain(m.head, m.next, m.prev, m.enq, s, n) /\ Sorted(m.w, s, n)
  BY <1>0
<1>2. /\ m.enq = {s[i] : i \in 1 .. n} /\ m.head = At(s, n, 1)
      /\ \A i, j \in 1 .. n : s[i] = s[j] => i = j
      /\ \A i \in 1 .. n : m.next[s[i]] = At(s, n, i + 1)
      /\ \A i \in 1 .. n : s[i] \in Procs /\ s[i] \in m.enq
  BY <1>1 DEF Chain
<1>3. CASE n = 0
  BY <1>2, <1>3 DEF At, Ends
<1>4. CASE n > 0
  <2>1. 1 \in 1 .. n /\ m.head = s[1] /\ m.head \in Procs /\ m.head \in m.enq
    BY <1>2, <1>4 DEF At
  <2>2. ASSUME NEW q \in m.enq
        PROVE  /\ m.next[q] \in m.enq \cup {NULL} /\ m.next[q] # q
               /\ m.head = q /\ m.next[q] = NULL => m.enq = {q}
    <3>1. PICK i \in 1 .. n : q = s[i] /\ m.next[q] = At(s, n, i + 1)
      BY <1>2
    <3>2. CASE i = n
      <4>1. m.next[q] = NULL /\ q \in Procs
        BY <3>1, <3>2, <1>2 DEF At
      <4>2. m.head = q => m.enq = {q}
        <5>1. SUFFICES ASSUME m.head = q PROVE m.enq = {q}
          OBVIOUS
        <5>2. i = 1
          BY <5>1, <2>1, <3>1, <1>2
        <5>3. 1 .. n = {1}
          BY <5>2, <3>2
        <5>4. QED
          BY <5>2, <5>3, <3>1, <1>2
      <4>3. QED
        BY <4>1, <4>2
    <3>3. CASE i < n
      <4>1. i + 1 \in 1 .. n /\ i + 1 # i
        BY <3>3
      <4>2. m.next[q] = s[i + 1] /\ s[i + 1] \in Procs /\ s[i + 1] \in m.enq
        BY <4>1, <3>1, <1>2 DEF At
      <4>3. s[i + 1] # s[i]
        BY <4>1, <1>2
      <4>4. QED
        BY <4>2, <4>3, <3>1
    <3>4. QED
      BY <3>2, <3>3
  <2>3. QED
    BY <2>1, <2>2 DEF Ends
<1>5. QED
  BY <1>3, <1>4

\* charge_process touches counters only.
LEMMA ChargeKeeps ==
  ASSUME NEW m, Good(m)
  PROVE  LET r == ChargeProcess(m) IN
         /\ r \in Memory /\ SameQueue(m, r) /\ r.cur = m.cur /\ r.nxt = m.nxt
         /\ m.cur \in Procs => r.ticks = [m.ticks EXCEPT ![m.cur] = Sub(@, 1)]
         /\ m.cur \notin Procs => r.ticks = m.ticks
<1>1. m \in Memory /\ Word > 0
  BY Sums32 DEF Good
<1>2. /\ m.cur \in Procs \cup {Idle, NULL} /\ m.ticks \in [Procs -> 0 .. Word - 1]
      /\ m.left \in 0 .. Word - 1
  BY <1>1, MemoryHas
<1>3. Sub(m.left, 1) \in 0 .. Word - 1
  BY <1>1, <1>2, SubOne
<1>4. CASE m.cur = Idle
  BY <1>1, <1>4, Constants DEF ChargeProcess, SameQueue
<1>5. CASE m.cur = NULL
  <2> DEFINE r == [m EXCEPT !.left = Sub(@, 1)]
  <2>1. ChargeProcess(m) = r
    BY <1>5, Constants DEF ChargeProcess
  <2>2. r \in Memory /\ SameQueue(m, r) /\ r.cur = m.cur /\ r.nxt = m.nxt /\ r.ticks = m.ticks
    BY <1>1, <1>3 DEF Memory, SameQueue
  <2>3. QED
    BY <2>1, <2>2, <1>5, Constants
<1>6. CASE m.cur \in Procs
  <2> DEFINE t == [m.ticks EXCEPT ![m.cur] = Sub(@, 1)]
             r == [m EXCEPT !.left = Sub(@, 1), !.ticks = t]
  <2>1. ChargeProcess(m) = r
    BY <1>6, <1>1, Constants DEF ChargeProcess, Memory
  <2>2. t \in [Procs -> 0 .. Word - 1]
    BY <1>1, <1>2, <1>6, SubOne
  <2> HIDE DEF t
  <2>3. r \in Memory /\ SameQueue(m, r) /\ r.cur = m.cur /\ r.nxt = m.nxt /\ r.ticks = t
    BY <1>1, <1>3, <2>2 DEF Memory, SameQueue
  <2>4. QED
    BY <2>1, <2>3, <1>6 DEF t
<1>7. QED
  BY <1>2, <1>4, <1>5, <1>6

\* Whom pick_next_proc looks at first.
LastPicked(m) == IF m.nxt = NULL THEN m.cur ELSE m.nxt

\* The choice is in the queue, or idle when the queue is empty, and only the
\* one chosen may be given new ticks.
Picked(m, r) ==
  /\ r \in Memory /\ SameQueue(m, r) /\ r.cur = m.cur
  /\ m.enq = {} => r.nxt = Idle
  /\ m.enq # {} => r.nxt \in m.enq
  /\ \/ r.ticks = m.ticks
     \/ r.nxt \in m.enq /\ r.ticks = [m.ticks EXCEPT ![r.nxt] = m.w[r.nxt]]

LEMMA PickQueued ==
  ASSUME NEW m, Good(m), NEW q \in m.enq
  PROVE  /\ Picked(m, [m EXCEPT !.nxt = q])
         /\ Picked(m, Refill([m EXCEPT !.nxt = q], q))
         /\ Refill([m EXCEPT !.nxt = q], q).ticks = [m.ticks EXCEPT ![q] = m.w[q]]
<1>1. m \in Memory /\ q \in Procs /\ m.enq # {} /\ m.w[q] \in 0 .. Word - 1
      /\ m.ticks \in [Procs -> 0 .. Word - 1]
  BY MemoryHas DEF Good
<1> DEFINE t == [m.ticks EXCEPT ![q] = m.w[q]]
<1>2. t \in [Procs -> 0 .. Word - 1]
  BY <1>1
<1>3. Refill([m EXCEPT !.nxt = q], q) = [m EXCEPT !.nxt = q, !.ticks = t]
  BY <1>1 DEF Refill, Memory
<1> HIDE DEF t
<1>4. [m EXCEPT !.nxt = q] \in Memory /\ [m EXCEPT !.nxt = q, !.ticks = t] \in Memory
  BY <1>1, <1>2 DEF Memory
<1>5. Picked(m, [m EXCEPT !.nxt = q])
  BY <1>1, <1>4 DEF Picked, SameQueue, Memory
<1> DEFINE r == [m EXCEPT !.nxt = q, !.ticks = t]
<1>6. SameQueue(m, r) /\ r.cur = m.cur /\ r.nxt = q /\ r.ticks = t
  BY <1>1 DEF SameQueue, Memory
<1>7. Picked(m, r)
  <2> HIDE DEF r
  <2>1. r \in Memory
    BY <1>4 DEF r
  <2>2. QED
    BY <2>1, <1>1, <1>6 DEF Picked, t
<1>8. QED
  BY <1>3, <1>5, <1>6, <1>7 DEF t

LEMMA PickKeeps ==
  ASSUME NEW m, Good(m), LastPicked(m) \in Procs /\ m.enq # {} => LastPicked(m) \in m.enq
  PROVE  Picked(m, PickNextProc(m))
<1> DEFINE last == LastPicked(m)
           r == PickNextProc(m)
<1> USE Constants
<1>1. m \in Memory /\ Ends(m) /\ m.enq \subseteq Procs
  BY ListHasEnds, MemoryHas DEF Good
<1>2. last \in Procs \cup {Idle, NULL}
  BY <1>1, MemoryHas DEF LastPicked
<1>3. CASE m.head = NULL
  <2>1. r = [m EXCEPT !.nxt = Idle] /\ m.enq = {}
    BY <1>1, <1>3 DEF PickNextProc, Ends
  <2>2. [m EXCEPT !.nxt = Idle] \in Memory
    BY <1>1 DEF Memory
  <2>3. QED
    BY <1>1, <2>1, <2>2 DEF Picked, SameQueue, Memory
<1>4. CASE m.head # NULL /\ last \in {NULL, Idle}
  <2>1. r = [m EXCEPT !.nxt = m.head] /\ m.head \in m.enq
    BY <1>1, <1>4 DEF PickNextProc, Ends, LastPicked
  <2>2. Picked(m, [m EXCEPT !.nxt = m.head])
    BY <2>1, PickQueued
  <2>3. QED
    BY <2>1, <2>2
<1>5. CASE m.head # NULL /\ last \notin {NULL, Idle}
  <2> DEFINE q == m.next[last]
  <2>1. m.head \in m.enq /\ last \in m.enq /\ q \in m.enq \cup {NULL}
    BY <1>1, <1>2, <1>5 DEF Ends
  <2>2. Picked(m, PickHead(m))
    <3>1. \/ PickHead(m) = [m EXCEPT !.nxt = m.head]
          \/ PickHead(m) = Refill([m EXCEPT !.nxt = m.head], m.head)
      BY DEF PickHead
    <3>2. /\ Picked(m, [m EXCEPT !.nxt = m.head])
          /\ Picked(m, Refill([m EXCEPT !.nxt = m.head], m.head))
      BY <2>1, PickQueued
    <3>3. QED
      BY <3>1, <3>2
  <2>3. \/ r = PickHead(m)
        \/ q # NULL /\ r = Refill([m EXCEPT !.nxt = q], q)
        \/ q # NULL /\ r = [m EXCEPT !.nxt = q]
    BY <1>5 DEF PickNextProc, LastPicked
  <2>4. CASE r = PickHead(m)
    BY <2>2, <2>4
  <2>5. CASE q # NULL /\ (r = Refill([m EXCEPT !.nxt = q], q) \/ r = [m EXCEPT !.nxt = q])
    <3>1. q \in m.enq
      BY <2>1, <2>5
    <3>2. Picked(m, [m EXCEPT !.nxt = q]) /\ Picked(m, Refill([m EXCEPT !.nxt = q], q))
      BY <3>1, PickQueued
    <3>3. QED
      BY <3>2, <2>5
  <2>6. QED
    BY <2>3, <2>4, <2>5
<1>6. QED
  BY <1>3, <1>4, <1>5

\* If the process that ran is chosen again although it is not alone, it is
\* the head, and its ticks are not yet down to one less than its weight.
LEMMA PickedAgain ==
  ASSUME NEW m, Good(m), NEW p \in m.enq, LastPicked(m) = p, m.enq # {p},
         PickNextProc(m).nxt = p
  PROVE  /\ m.ticks[p] # Sub(m.w[p], 1)
         /\ PickNextProc(m).ticks[p] = IF m.ticks[p] = 0 THEN m.w[p] ELSE m.ticks[p]
<1> DEFINE q == m.next[p]
           r == PickNextProc(m)
<1> USE Constants
<1>1. m \in Memory /\ Ends(m) /\ p \in Procs /\ m.enq \subseteq Procs
      /\ m.ticks \in [Procs -> 0 .. Word - 1]
  BY ListHasEnds, MemoryHas DEF Good
<1>2. m.head # NULL /\ m.head \in m.enq /\ p \notin {NULL, Idle}
  BY <1>1 DEF Ends
<1>3. \/ q = NULL /\ r = PickHead(m)
      \/ q # NULL /\ m.ticks[p] # Sub(m.w[p], 1) /\ r = PickHead(m)
      \/ q # NULL /\ r = Refill([m EXCEPT !.nxt = q], q)
      \/ q # NULL /\ r = [m EXCEPT !.nxt = q]
  BY <1>2 DEF PickNextProc, LastPicked
<1>4. PickHead(m).nxt = m.head
  BY <1>1 DEF PickHead, Refill, Memory
<1>5. q # NULL => [m EXCEPT !.nxt = q].nxt = q /\ Refill([m EXCEPT !.nxt = q], q).nxt = q
  BY <1>1 DEF Refill, Memory
<1>6. q # p /\ (m.head = p => q # NULL)
  BY <1>1 DEF Ends
<1>7. m.ticks[p] # Sub(m.w[p], 1) /\ r = PickHead(m) /\ m.head = p
  BY <1>3, <1>4, <1>5, <1>6
<1>8. PickHead(m).ticks[p] = IF m.ticks[p] = 0 THEN m.w[p] ELSE m.ticks[p]
  BY <1>1, <1>7 DEF PickHead, Refill, Memory
<1>9. QED
  BY <1>7, <1>8

LEMMA ChargeAndPickKeeps ==
  ASSUME NEW m, Good(m), LastPicked(m) \in Procs /\ m.enq # {} => LastPicked(m) \in m.enq
  PROVE  LET r == ChargeAndPick(m) IN
         /\ Good(r) /\ r \in Memory /\ SameQueue(m, r) /\ r.cur = m.cur
         /\ m.enq = {} => r.nxt = Idle
         /\ m.enq # {} => r.nxt \in m.enq
<1> DEFINE c == ChargeProcess(m)
           r == PickNextProc(c)
<1>1. c \in Memory /\ SameQueue(m, c) /\ c.cur = m.cur /\ c.nxt = m.nxt
  BY ChargeKeeps
<1>2. Good(c) /\ c.enq = m.enq /\ LastPicked(c) = LastPicked(m)
  BY <1>1, SameQueueGood DEF SameQueue, LastPicked
<1> HIDE DEF c
<1>3. Picked(c, PickNextProc(c))
  BY <1>2, PickKeeps
<1>4. /\ r \in Memory /\ SameQueue(m, r) /\ r.cur = m.cur
      /\ m.enq = {} => r.nxt = Idle
      /\ m.enq # {} => r.nxt \in m.enq
  BY <1>1, <1>2, <1>3 DEF Picked, SameQueue
<1>5. Good(r)
  <2> HIDE DEF r
  <2>1. QED
    BY <1>4, SameQueueGood
<1>6. ChargeAndPick(m) = r
  BY DEF ChargeAndPick, c
<1>7. QED
  BY <1>4, <1>5, <1>6
-----------------------------------------------------------------------------
(***************************************************************************)
(* dequeue                                                                 *)
(***************************************************************************)
\* One turn of dequeue's loop.
Turn(m) == LET c == ChargeAndPick(m) IN [c EXCEPT !.cur = c.nxt]

\* A turn of the loop that a process p of the queue makes while it runs.
LEMMA TurnKeeps ==
  ASSUME NEW m, Good(m), NEW p \in m.enq, m.cur = p, m.nxt \in {NULL, p}
  PROVE  LET r == Turn(m) IN
         Good(r) /\ SameQueue(m, r) /\ r.cur = r.nxt /\ r.nxt \in m.enq
<1> DEFINE c == ChargeAndPick(m)
           r == [c EXCEPT !.cur = c.nxt]
<1>1. LastPicked(m) = p
  BY DEF LastPicked
<1>2. Good(c) /\ c \in Memory /\ SameQueue(m, c) /\ c.nxt \in m.enq
  BY <1>1, ChargeAndPickKeeps
<1> HIDE DEF c
<1>3. r \in Memory /\ SameQueue(m, r) /\ r.cur = r.nxt /\ r.nxt \in m.enq
  BY <1>2 DEF Memory, SameQueue
<1>4. Good(r)
  <2> HIDE DEF r
  <2>1. QED
    BY <1>3, SameQueueGood
<1>5. Turn(m) = r
  BY DEF Turn, c
<1>6. QED
  BY <1>3, <1>4, <1>5

\* If the turn ends with p again although p is not alone, p's ticks went down
\* by one, or at 0 back to its weight; they were not at the full weight.
LEMMA TurnedBack ==
  ASSUME NEW m, Good(m), NEW p \in m.enq, m.cur = p, m.nxt \in {NULL, p}, m.enq # {p},
         Turn(m).nxt = p
  PROVE  LET t == Sub(m.ticks[p], 1) IN
         t # m.w[p] - 1 /\ Turn(m).ticks[p] = IF t = 0 THEN m.w[p] ELSE t
<1> DEFINE c == ChargeProcess(m)
           r == PickNextProc(c)
<1>1. m \in Memory /\ Word > 0 /\ p \in Procs /\ m.w[p] > 0 /\ Word \in Nat
      /\ m.w \in [Procs -> 0 .. Word - 1] /\ m.ticks \in [Procs -> 0 .. Word - 1]
  BY Sums32, MemoryHas, Constants DEF Good
<1>2. /\ c \in Memory /\ SameQueue(m, c) /\ c.cur = m.cur /\ c.nxt = m.nxt
      /\ c.ticks = [m.ticks EXCEPT ![p] = Sub(@, 1)]
  BY <1>1, ChargeKeeps
<1>3. Good(c) /\ p \in c.enq /\ c.enq # {p} /\ c.w = m.w
  BY <1>2, SameQueueGood DEF SameQueue
<1>4. LastPicked(c) = p
  BY <1>2 DEF LastPicked
<1> HIDE DEF c
<1>5. Picked(c, r)
  BY <1>3, <1>4, PickKeeps
<1>6. Turn(m).nxt = r.nxt /\ Turn(m).ticks = r.ticks
  <2>1. ChargeAndPick(m) = r
    BY DEF ChargeAndPick, c
  <2>2. r \in Memory
    BY <1>5 DEF Picked
  <2> HIDE DEF r
  <2>3. [r EXCEPT !.cur = r.nxt].nxt = r.nxt /\ [r EXCEPT !.cur = r.nxt].ticks = r.ticks
    BY <2>2 DEF Memory
  <2>4. QED
    BY <2>1, <2>3 DEF Turn
<1>7. c.ticks[p] # Sub(c.w[p], 1) /\ r.ticks[p] = IF c.ticks[p] = 0 THEN c.w[p] ELSE c.ticks[p]
  BY <1>3, <1>4, <1>6, PickedAgain
<1>8. c.ticks[p] = Sub(m.ticks[p], 1)
  BY <1>1, <1>2
<1>9. Sub(m.w[p], 1) = m.w[p] - 1
  BY <1>1, SubOne
<1>10. QED
  BY <1>3, <1>6, <1>7, <1>8, <1>9

\* What LeaveProcessor computes, turn by turn.
Turns(f, m, p) ==
  f = [i \in 0 .. LoopBound |->
         IF i = 0 THEN Turn(m) ELSE IF f[i - 1].nxt # p THEN f[i - 1] ELSE Turn(f[i - 1])]

\* The loop of dequeue ends: a process that leaves the processor and is not
\* alone in the queue is followed by another one.
LEMMA LoopEnds ==
  ASSUME NEW m, Good(m), NEW p \in m.enq, m.cur = p, m.nxt = NULL, m.enq # {p}
  PROVE  LET r == LeaveProcessor(m, p) IN
         /\ Good(r) /\ SameQueue(m, r) /\ r.cur = r.nxt /\ r.nxt \in m.enq \ {p}
         /\ Turn(m).nxt # p => r = Turn(m)
<1>1. /\ m \in Memory /\ p \in Procs /\ m.w[p] > 0 /\ Word \in Nat /\ Word > 0
      /\ m.w \in [Procs -> 0 .. Word - 1] /\ m.ticks \in [Procs -> 0 .. Word - 1]
      /\ LoopBound = Word
  BY Sums32, MemoryHas, Constants DEF Good, LoopBound
<1> DEFINE Stays(x) == Good(x) /\ SameQueue(m, x) /\ x.cur = x.nxt /\ x.nxt \in m.enq
           S == {x \in Memory : Stays(x)}
           D == [n \in Nat |-> [x \in S |-> IF x.nxt # p THEN x ELSE Turn(x)]]
<1>2. \A x \in S : x.nxt = p => Turn(x) \in S
  <2> SUFFICES ASSUME NEW x \in S, x.nxt = p PROVE Turn(x) \in S
    OBVIOUS
  <2>1. Good(x) /\ p \in x.enq /\ x.cur = p /\ x.nxt \in {NULL, p}
    BY DEF SameQueue
  <2>2. Good(Turn(x)) /\ SameQueue(x, Turn(x)) /\ Turn(x).cur = Turn(x).nxt /\ Turn(x).nxt \in x.enq
    BY <2>1, TurnKeeps
  <2>3. QED
    BY <2>2 DEF SameQueue, Good
<1>3. Turn(m) \in S
  BY TurnKeeps DEF Good
<1>4. PICK g \in [0 .. Word -> S] : Iterates(g, Word, Turn(m), D)
  <2>1. D \in [Nat -> [S -> S]]
    <3> HIDE DEF S
    <3>1. QED
      BY <1>2
  <2> HIDE DEF D, S
  <2>2. QED
    BY <2>1, <1>1, <1>3, IteratesExist
<1>5. Turns(g, m, p)
  <2> HIDE DEF S
  <2>1. \A i \in 0 .. Word : g[i] = IF i = 0 THEN Turn(m)
                                    ELSE IF g[i - 1].nxt # p THEN g[i - 1] ELSE Turn(g[i - 1])
    <3> TAKE i \in 0 .. Word
    <3>1. CASE i = 0
      BY <3>1, <1>1, <1>4 DEF Iterates
    <3>2. CASE i # 0
      <4>1. i \in Nat /\ i - 1 \in 0 .. Word
        BY <3>2, <1>1
      <4>2. g[i] = D[i][g[i - 1]] /\ g[i - 1] \in S
        BY <3>2, <4>1, <1>4 DEF Iterates
      <4>3. QED
        BY <3>2, <4>1, <4>2
    <3>3. QED
      BY <3>1, <3>2
  <2>2. QED
    BY <2>1, <1>1 DEF Turns
<1> DEFINE f == CHOOSE h : Turns(h, m, p)
<1>6. Turns(f, m, p)
  BY <1>5
<1>7. LeaveProcessor(m, p) = f[Word]
  BY <1>1 DEF LeaveProcessor, Turns, Turn
<1> HIDE DEF f, D
<1>8. /\ f[0] = Turn(m)
      /\ \A i \in 0 .. Word - 1 :
           f[i + 1] = IF f[i].nxt # p THEN f[i] ELSE Turn(f[i])
  <2>1. 0 \in 0 .. Word /\ \A i \in 0 .. Word - 1 : i + 1 \in 0 .. Word /\ i + 1 # 0 /\ (i + 1) - 1 = i
    BY <1>1
  <2>2. QED
    BY <2>1, <1>1, <1>6 DEF Turns
\* The number of turns after which p's ticks are full again.
<1> DEFINE full == IF m.ticks[p] = 0 THEN Word ELSE m.ticks[p]
           Q(i) == /\ f[i] \in S
                   /\ Turn(m).nxt # p => f[i] = Turn(m)
                   /\ f[i].nxt = p =>
                        i < full /\ f[i].ticks[p] = IF i + 1 < full THEN full - (i + 1) ELSE m.w[p]
           T == {i \in Nat : i <= Word => Q(i)}
<1>9. full \in 1 .. Word /\ Sub(m.ticks[p], 1) = full - 1
  <2>1. m.ticks[p] \in 0 .. Word - 1
    BY <1>1
  <2>2. CASE m.ticks[p] = 0
    <3>1. Sub(m.ticks[p], 1) = Word - 1
      BY <2>2, <1>1, SubOne
    <3>2. QED
      BY <3>1, <2>2, <1>1
  <2>3. CASE m.ticks[p] # 0
    <3>1. m.ticks[p] \in 1 .. Word - 1
      BY <2>1, <2>3, <1>1
    <3>2. Sub(m.ticks[p], 1) = m.ticks[p] - 1
      BY <3>1, <1>1, SubOne
    <3>3. QED
      BY <3>1, <3>2, <2>3, <1>1
  <2>4. QED
    BY <2>2, <2>3
<1>10. 0 \in T
  <2>1. SUFFICES ASSUME f[0].nxt = p
                 PROVE  0 < full /\ f[0].ticks[p] = IF 0 + 1 < full THEN full - (0 + 1) ELSE m.w[p]
    BY <1>3, <1>8
  <2>2. f[0].ticks[p] = IF Sub(m.ticks[p], 1) = 0 THEN m.w[p] ELSE Sub(m.ticks[p], 1)
    BY <2>1, <1>8, TurnedBack
  <2> HIDE DEF full
  <2>3. QED
    BY <2>2, <1>1, <1>9
<1>11. \A i \in T : i + 1 \in T
  <2> SUFFICES ASSUME NEW i \in T PROVE i + 1 \in T
    OBVIOUS
  <2> SUFFICES ASSUME i + 1 <= Word PROVE Q(i + 1)
    OBVIOUS
  <2>1. i \in Nat /\ i \in 0 .. Word - 1 /\ Q(i)
    BY <1>1
  <2>2. CASE f[i].nxt # p
    BY <2>1, <2>2, <1>8
  <2>3. CASE f[i].nxt = p
    <3> DEFINE x == f[i]
    <3>1. f[i + 1] = Turn(x) /\ Turn(x) \in S
      BY <2>1, <2>3, <1>2, <1>8
    <3>2. Good(x) /\ x.enq = m.enq /\ x.w = m.w /\ x.cur = p /\ x.nxt = p
      BY <2>1, <2>3 DEF SameQueue
    <3>3. i < full /\ x.ticks[p] = IF i + 1 < full THEN full - (i + 1) ELSE m.w[p]
      BY <2>1, <2>3
    <3>6. Turn(m).nxt = p
      BY <2>1, <2>3
    <3> HIDE DEF x, full, S
    <3>4. ASSUME Turn(x).nxt = p
          PROVE  i + 1 < full /\ Turn(x).ticks[p] = IF (i + 1) + 1 < full
                                                    THEN full - ((i + 1) + 1) ELSE m.w[p]
      <4>1. /\ Sub(x.ticks[p], 1) # m.w[p] - 1
            /\ Turn(x).ticks[p] = IF Sub(x.ticks[p], 1) = 0 THEN m.w[p] ELSE Sub(x.ticks[p], 1)
        BY <3>2, <3>4, TurnedBack
      <4>2. i + 1 < full
        <5>1. SUFFICES ASSUME ~(i + 1 < full) PROVE FALSE
          OBVIOUS
        <5>2. x.ticks[p] = m.w[p] /\ m.w[p] \in 1 .. Word - 1
          BY <5>1, <3>3, <1>1
        <5>3. Sub(x.ticks[p], 1) = m.w[p] - 1
          BY <5>2, <1>1, SubOne
        <5>4. QED
          BY <5>3, <4>1
      <4>3. x.ticks[p] = full - (i + 1) /\ full - (i + 1) \in 1 .. Word - 1
        BY <4>2, <3>3, <2>1, <1>9, <1>1
      <4>4. Sub(x.ticks[p], 1) = full - (i + 1) - 1
        BY <4>3, <1>1, SubOne
      <4>5. QED
        BY <4>1, <4>2, <4>3, <4>4, <2>1, <1>9, <1>1
    <3>5. QED
      BY <3>1, <3>4, <3>6
  <2>4. QED
    BY <2>2, <2>3
<1>12. T = Nat
  <2> HIDE DEF T
  <2>1. T \in SUBSET Nat
    BY DEF T
  <2>2. QED
    BY <2>1, <1>10, <1>11, SetInduction
<1>13. Q(Word)
  <2>1. \A i \in Nat : i \in T /\ i <= Word => Q(i)
    BY DEF T
  <2> HIDE DEF T, Q
  <2>2. QED
    BY <2>1, <1>1, <1>12
<1>14. f[Word].nxt # p
  BY <1>1, <1>9, <1>13
<1>15. QED
  BY <1>7, <1>13, <1>14

\* The queue has no other member exactly when its weight is that of p.
LEMMA SoleIsAlone ==
  ASSUME NEW m, Good(m), NEW p \in m.enq
  PROVE  Sole(m, p) <=> m.enq = {p}
<1>1. Sound(m.w) /\ m.weight = Sum(m.w, m.enq) /\ m.enq \in SUBSET Procs
      /\ \A q \in m.enq : m.w[q] > 0
  BY MemoryHas DEF Good
<1>2. \A q \in Procs : m.w[q] \in Nat
  BY <1>1 DEF Sound
<1> DEFINE R == m.enq \ {p}
<1>3. Sum(m.w, R) = m.weight - m.w[p] /\ Sum(m.w, R) \in Nat
  BY <1>1, LessOne
<1>4. m.weight \in Nat
  BY <1>1, Sums32, Constants
<1>5. CASE R = {}
  <2>1. m.enq = {p} /\ Sum(m.w, R) = 0
    BY <1>5, SumEmpty
  <2>2. QED
    BY <2>1, <1>1, <1>2, <1>3, <1>4 DEF Sole
<1>6. CASE R # {}
  <2>1. PICK q \in R : TRUE
    BY <1>6
  <2>2. q \in m.enq /\ q \in Procs /\ m.w[q] > 0 /\ R \in SUBSET Procs
    BY <2>1, <1>1
  <2>3. Sum(m.w, R \ {q}) = Sum(m.w, R) - m.w[q] /\ Sum(m.w, R \ {q}) \in Nat
    <3> HIDE DEF R
    <3>1. QED
      BY <2>1, <2>2, <1>1, LessOne
  <2>4. m.weight # m.w[p]
    BY <2>2, <2>3, <1>1, <1>2, <1>3, <1>4
  <2>5. QED
    BY <2>1, <2>4 DEF Sole
<1>7. QED
  BY <1>5, <1>6

\* Without its j-th member the list stays sorted.
LEMMA DeleteSorted ==
  ASSUME NEW w, NEW n \in Nat, NEW s \in [1 .. n -> Procs], Sorted(w, s, n), NEW j \in 1 .. n
  PROVE  Sorted(w, Del(s, n, j), n - 1)
<1> DEFINE t == Del(s, n, j)
           at(i) == IF i < j THEN i ELSE i + 1
<1>1. \A i \in 1 .. n - 1 : t[i] = s[at(i)] /\ at(i) \in 1 .. n
  BY DEF Del
<1>2. \A i, l \in 1 .. n - 1 : i <= l => at(i) <= at(l)
  OBVIOUS
<1> HIDE DEF at, t
<1>3. Sorted(w, t, n - 1)
  BY <1>1, <1>2 DEF Sorted
<1>4. QED
  BY <1>3 DEF t

\* dequeue takes the running process out and leaves the processor to another.
LEMMA DequeueKeeps ==
  ASSUME NEW m, Good(m), NEW p \in m.enq, m.cur = p, m.nxt = NULL
  PROVE  LET r == Dequeue(m, p) IN
         /\ Good(r) /\ r.enq = m.enq \ {p} /\ r.w = m.w
         /\ r.enq = {} => r.cur = p /\ r.nxt = NULL
         /\ r.enq # {} => r.cur = r.nxt /\ r.nxt \in r.enq
<1>1. m \in Memory /\ p \in Procs /\ Sound(m.w) /\ Word > 0 /\ Word \in Nat
      /\ m.enq \in SUBSET Procs
  BY Sums32, MemoryHas, Constants DEF Good
<1>2. CASE m.enq = {p}
  <2> DEFINE r == [m EXCEPT !.enq = @ \ {p}, !.weight = 0, !.left = 0, !.head = NULL]
  <2>1. Dequeue(m, p) = r
    BY <1>2, SoleIsAlone DEF Dequeue
  <2>2. r \in Memory
    <3>1. 0 \in 0 .. Word - 1 /\ NULL \in Procs \cup {NULL} /\ m.enq \ {p} \in SUBSET Procs
      BY <1>1
    <3>2. QED
      BY <3>1, <1>1 DEF Memory
  <2>3. r.enq = {} /\ r.w = m.w /\ r.cur = p /\ r.nxt = NULL /\ r.weight = 0 /\ r.head = NULL
    BY <1>1, <1>2 DEF Memory
  <2> HIDE DEF r
  <2>4. Listed(r)
    <3> DEFINE s == [i \in 1 .. 0 |-> p]
    <3>1. s \in [1 .. 0 -> Procs] /\ 0 \in Nat
      BY <1>1
    <3>2. Chain(r.head, r.next, r.prev, r.enq, s, 0) /\ Sorted(r.w, s, 0)
      BY <3>1, <2>3 DEF Chain, Sorted, At
    <3> HIDE DEF s
    <3>3. QED
      BY <3>1, <3>2 DEF Listed
  <2>5. r.weight = Sum(r.w, r.enq)
    BY <2>3, SumEmpty
  <2>6. Good(r)
    BY <2>2, <2>3, <2>4, <2>5, <1>1 DEF Good
  <2>7. QED
    BY <2>1, <2>3, <2>6, <1>2
<1>3. CASE m.enq # {p}
  <2> DEFINE l == LeaveProcessor(m, p)
             u == Unlink(l, p)
             r == [u EXCEPT !.enq = @ \ {p}, !.weight = Sub(@, m.w[p]), !.left = Sub(@, u.ticks[p])]
  <2>1. Dequeue(m, p) = r
    BY <1>3, SoleIsAlone DEF Dequeue
  <2>2. Good(l) /\ SameQueue(m, l) /\ l.cur = l.nxt /\ l.nxt \in m.enq \ {p}
    BY <1>3, LoopEnds
  <2> HIDE DEF l
  <2>3. l \in Memory /\ l.enq = m.enq /\ l.w = m.w /\ l.weight = m.weight
    BY <2>2 DEF Good, SameQueue
  <2>4. /\ l.next \in [Procs -> Link] /\ l.prev \in [Procs -> Link] /\ l.head \in Link
        /\ l.ticks \in [Procs -> 0 .. Word - 1] /\ l.left \in 0 .. Word - 1
        /\ l.weight \in 0 .. Word - 1 /\ l.w \in [Procs -> 0 .. Word - 1]
    BY <2>3, MemoryHas
  <2> DEFINE a == l.prev[p]
             b == l.next[p]
             x == SetIn(l.next, a, b)
             y == SetIn(l.prev, b, a)
             hd == IF l.head = p THEN b ELSE l.head
  <2>5. /\ u \in Memory /\ r.w = l.w /\ r.head = hd /\ r.weight = Sub(l.weight, m.w[p])
        /\ u.left = l.left /\ u.weight = l.weight /\ u.ticks = l.ticks /\ u.enq = l.enq
        /\ r.cur = l.cur /\ r.nxt = l.nxt /\ r.next = x /\ r.prev = y /\ r.enq = l.enq \ {p}
    <3>1. u = [l EXCEPT !.next = x, !.prev = y, !.head = hd]
      BY <2>3 DEF Unlink, Memory
    <3>2. x \in [Procs -> Link] /\ y \in [Procs -> Link] /\ hd \in Link
      BY <1>1, <2>4 DEF SetIn, Link
    <3> HIDE DEF u, x, y, hd
    <3>3. /\ u \in Memory /\ u.next = x /\ u.prev = y /\ u.head = hd /\ u.w = l.w
          /\ u.weight = l.weight /\ u.left = l.left /\ u.cur = l.cur /\ u.nxt = l.nxt
          /\ u.ticks = l.ticks /\ u.enq = l.enq
      BY <3>1, <3>2, <2>3 DEF Memory, Link
    <3>4. QED
      BY <3>3 DEF Memory
  <2>6. PICK n \in Nat : \E s \in [1 .. n -> Procs] :
               Chain(l.head, l.next, l.prev, l.enq, s, n) /\ Sorted(l.w, s, n)
    BY <2>2 DEF Good, Listed
  <2>7. PICK s \in [1 .. n -> Procs] :
               Chain(l.head, l.next, l.prev, l.enq, s, n) /\ Sorted(l.w, s, n)
    BY <2>6
  <2>8. PICK j \in 1 .. n : p = s[j] /\ b = At(s, n, j + 1) /\ a = At(s, n, j - 1)
    <3>1. Threads(l.head, l.next, l.prev, l.enq, s, n)
      BY <2>7, ChainThreads
    <3>2. QED
      BY <3>1, <2>3 DEF Threads
  <2>9. Chain(hd, x, y, l.enq \ {p}, Del(s, n, j), n - 1)
    <3> HIDE DEF a, b
    <3>1. /\ l.next \in [Procs -> Link] /\ l.prev \in [Procs -> Link]
          /\ Chain(l.head, l.next, l.prev, l.enq, s, n)
          /\ p = s[j] /\ b = At(s, n, j + 1) /\ a = At(s, n, j - 1)
      BY <2>4, <2>7, <2>8
    <3>2. Unlinked(l.head, l.next, l.prev, l.enq, s, n, j, p, a, b)
      BY <3>1, DeleteChain
    <3>3. QED
      BY <3>2 DEF Unlinked
  <2>10. Sorted(l.w, Del(s, n, j), n - 1)
    BY <2>7, DeleteSorted
  <2>11. Listed(r)
    <3> HIDE DEF x, y, hd, r
    <3>1. n - 1 \in Nat /\ Del(s, n, j) \in [1 .. n - 1 -> Procs]
      BY <2>9 DEF Chain
    <3>2. r.head = hd /\ r.next = x /\ r.prev = y /\ r.enq = l.enq \ {p} /\ r.w = l.w
      BY <2>5
    <3>3. QED
      BY <3>1, <3>2, <2>9, <2>10 DEF Listed
  <2>12. Sub(l.weight, m.w[p]) = Sum(m.w, m.enq \ {p})
    <3>1. Sum(m.w, m.enq \ {p}) = m.weight - m.w[p]
      BY <1>1, LessOne DEF Good
    <3>2. Sum(m.w, m.enq \ {p}) \in 0 .. Word - 1
      <4>1. m.enq \ {p} \in SUBSET Procs
        BY <1>1
      <4>2. QED
        BY <4>1, <1>1, Sums32
    <3>3. QED
      BY <3>1, <3>2, <2>3, <1>1, Words DEF Sub
  <2>13. r \in Memory
    <3>1. x \in [Procs -> Link] /\ y \in [Procs -> Link] /\ hd \in Link
      <4>1. a \in Link /\ b \in Link
        BY <1>1, <2>4
      <4>2. QED
        BY <4>1, <2>4 DEF SetIn, Link
    <3>2. Sub(l.weight, m.w[p]) \in 0 .. Word - 1
      <4>1. l.weight - m.w[p] \in Int
        BY <1>1, <2>3, <2>4
      <4>2. QED
        BY <4>1, <1>1, Words DEF Sub
    <3>3. Sub(l.left, l.ticks[p]) \in 0 .. Word - 1
      <4>1. l.left - l.ticks[p] \in Int
        BY <1>1, <2>4
      <4>2. QED
        BY <4>1, <1>1, Words DEF Sub
    <3> HIDE DEF u
    <3>4. u.enq \ {p} \in SUBSET Procs
      BY <1>1, <2>3, <2>5
    <3>5. QED
      BY <2>5, <3>2, <3>3, <3>4 DEF Memory
  <2> HIDE DEF r, x, y, hd, a, b
  <2>14. r.enq = m.enq \ {p} /\ r.w = m.w /\ r.cur = r.nxt /\ r.nxt \in r.enq
         /\ r.weight = Sum(m.w, m.enq \ {p})
    BY <2>2, <2>3, <2>5, <2>12
  <2>15. Good(r)
    <3>1. \A q \in r.enq : r.w[q] > 0
      BY <2>14 DEF Good
    <3>2. QED
      BY <3>1, <1>1, <2>11, <2>13, <2>14 DEF Good
  <2>16. QED
    BY <2>1, <2>14, <2>15
<1>4. QED
  BY <1>2, <1>3
-----------------------------------------------------------------------------
(***************************************************************************)
(* Kernel entries                                                          *)
(***************************************************************************)
\* The end of an entry: somebody of the queue runs, or idle if it is empty.
LEMMA ScheduleKeeps ==
  ASSUME NEW m, Good(m),
         \/ m.nxt = NULL /\ (m.cur \in Procs /\ m.enq # {} => m.cur \in m.enq)
         \/ m.nxt \in m.enq
  PROVE  LET r == Schedule(m) IN
         /\ Good(r) /\ r.enq = m.enq /\ r.w = m.w /\ r.nxt = NULL
         /\ m.enq = {} => r.cur = Idle
         /\ m.enq # {} => r.cur \in m.enq
<1> DEFINE n == IF m.nxt = NULL THEN ChargeAndPick(m) ELSE m
           r == [n EXCEPT !.cur = n.nxt, !.nxt = NULL]
<1>1. m \in Memory /\ m.enq \subseteq Procs
  BY MemoryHas DEF Good
<1>2. /\ Good(n) /\ SameQueue(m, n)
      /\ m.enq = {} => n.nxt = Idle
      /\ m.enq # {} => n.nxt \in m.enq
  <2>1. CASE m.nxt = NULL /\ (m.cur \in Procs /\ m.enq # {} => m.cur \in m.enq)
    <3>1. LastPicked(m) = m.cur /\ n = ChargeAndPick(m)
      BY <2>1 DEF LastPicked
    <3>2. QED
      BY <2>1, <3>1, ChargeAndPickKeeps
  <2>2. CASE m.nxt \in m.enq
    <3>1. n = m
      BY <2>2, <1>1, Constants
    <3>2. QED
      BY <2>2, <3>1 DEF SameQueue
  <2>3. QED
    BY <2>1, <2>2
<1> HIDE DEF n
<1>3. n \in Memory
  BY <1>2 DEF Good
<1>4. r \in Memory /\ SameQueue(n, r) /\ r.cur = n.nxt /\ r.nxt = NULL
  BY <1>3 DEF Memory, SameQueue
<1>5. Good(r)
  <2> HIDE DEF r
  <2>1. QED
    BY <1>2, <1>4, SameQueueGood
<1>6. Schedule(m) = r
  BY DEF Schedule, n
<1>7. QED
  BY <1>2, <1>4, <1>5, <1>6 DEF SameQueue

\* An entry wakes ready processes and may take the caller out.
EntryStep(woken, blocked) ==
  /\ woken \subseteq Procs \ k.enq
  /\ blocked \subseteq {k.cur} \cap Procs
  /\ k'.enq = (k.enq \cup woken) \ blocked
  /\ k'.enq = {} => k'.cur = Idle
  /\ k'.enq # {} => k'.cur \in k'.enq
  /\ k'.w = k.w
  /\ Inv'

LEMMA AfterSchedule ==
  ASSUME NEW m, Good(m),
         \/ m.nxt = NULL /\ (m.cur \in Procs /\ m.enq # {} => m.cur \in m.enq)
         \/ m.nxt \in m.enq,
         k' = Schedule(m)
  PROVE  /\ k'.enq = m.enq /\ k'.w = m.w /\ Inv'
         /\ m.enq = {} => k'.cur = Idle
         /\ m.enq # {} => k'.cur \in m.enq
<1>1. /\ Good(k') /\ k'.enq = m.enq /\ k'.w = m.w /\ k'.nxt = NULL
      /\ m.enq = {} => k'.cur = Idle
      /\ m.enq # {} => k'.cur \in m.enq
  BY ScheduleKeeps
<1>2. k'.cur \in Procs => k'.cur \in k'.enq
  BY <1>1, Constants
<1>3. QED
  BY <1>1, <1>2 DEF Inv

LEMMA PreemptStep ==
  ASSUME Inv, Preempt
  PROVE  EntryStep({}, {})
<1>1. /\ k'.enq = k.enq /\ k'.w = k.w /\ Inv'
      /\ k.enq = {} => k'.cur = Idle
      /\ k.enq # {} => k'.cur \in k.enq
  BY AfterSchedule DEF Inv, Preempt
<1>2. QED
  BY <1>1 DEF EntryStep

LEMMA WakeStep ==
  ASSUME Inv, NEW p \in Procs, Wake(p)
  PROVE  EntryStep({p}, {})
<1> DEFINE m == Enqueue(k, p)
<1>1. p \in Procs \ k.enq /\ k.w[p] > 0 /\ k' = Schedule(m)
  BY DEF Wake, Created
<1>2. Good(m) /\ m.enq = k.enq \cup {p} /\ m.w = k.w /\ m.cur = k.cur /\ m.nxt = NULL
  BY <1>1, EnqueueKeeps DEF Inv
<1>3. m.cur \in Procs /\ m.enq # {} => m.cur \in m.enq
  BY <1>2 DEF Inv
<1> HIDE DEF m
<1>4. /\ k'.enq = m.enq /\ k'.w = m.w /\ Inv'
      /\ m.enq = {} => k'.cur = Idle
      /\ m.enq # {} => k'.cur \in m.enq
  BY <1>1, <1>2, <1>3, AfterSchedule
<1>5. QED
  BY <1>1, <1>2, <1>4 DEF EntryStep

\* The caller of a list that took m's place leaves the queue.
LEMMA LeaveStep ==
  ASSUME NEW m, Good(m), m.nxt = NULL, m.cur \in m.enq, k' = Schedule(Dequeue(m, m.cur))
  PROVE  /\ k'.enq = m.enq \ {m.cur} /\ k'.w = m.w /\ Inv'
         /\ k'.enq = {} => k'.cur = Idle
         /\ k'.enq # {} => k'.cur \in k'.enq
<1> DEFINE d == Dequeue(m, m.cur)
<1>1. /\ Good(d) /\ d.enq = m.enq \ {m.cur} /\ d.w = m.w
      /\ d.enq = {} => d.cur = m.cur /\ d.nxt = NULL
      /\ d.enq # {} => d.cur = d.nxt /\ d.nxt \in d.enq
  BY DequeueKeeps
<1> HIDE DEF d
<1>2. \/ d.nxt = NULL /\ (d.cur \in Procs /\ d.enq # {} => d.cur \in d.enq)
      \/ d.nxt \in d.enq
  BY <1>1
<1>3. k' = Schedule(d)
  BY DEF d
<1>4. /\ k'.enq = d.enq /\ k'.w = d.w /\ Inv'
      /\ d.enq = {} => k'.cur = Idle
      /\ d.enq # {} => k'.cur \in d.enq
  BY <1>1, <1>2, <1>3, AfterSchedule
<1>5. QED
  BY <1>1, <1>4

LEMMA BlockStep ==
  ASSUME Inv, Block
  PROVE  EntryStep({}, {k.cur})
<1>1. k.cur \in Procs /\ k.cur \in k.enq /\ Good(k) /\ k.nxt = NULL
      /\ k' = Schedule(Dequeue(k, k.cur))
  BY DEF Inv, Block
<1>2. /\ k'.enq = k.enq \ {k.cur} /\ k'.w = k.w /\ Inv'
      /\ k'.enq = {} => k'.cur = Idle
      /\ k'.enq # {} => k'.cur \in k'.enq
  BY <1>1, LeaveStep
<1>3. QED
  BY <1>1, <1>2 DEF EntryStep

\* The senders that wait are created processes that are not in the queue.
LEMMA SenderListIs ==
  ASSUME NEW ws \in SenderLists
  PROVE  /\ ws \in Seq(Procs)
         /\ \A i \in 1 .. Len(ws) : ws[i] \in Procs \ k.enq /\ k.w[ws[i]] > 0
<1>1. PICK n \in 0 .. Cardinality(Procs) : ws \in [1 .. n -> Created \ k.enq]
  BY DEF SenderLists
<1>2. \A p \in Created : p \in Procs /\ k.w[p] > 0
  BY DEF Created
<1>3. Cardinality(Procs) \in Nat
  BY SchedAssumption, FS_CardinalityType
<1>4. n \in Nat
  BY <1>3
<1>5. Created \ k.enq \subseteq Procs
  BY <1>2
<1>6. ws \in [1 .. n -> Procs]
  BY <1>1, <1>5
<1>7. ws \in Seq(Procs) /\ Len(ws) = n
  BY <1>4, <1>6
<1>8. QED
  BY <1>1, <1>2, <1>7

LEMMA ExitStep ==
  ASSUME Inv, NEW ws \in SenderLists, Exit(ws)
  PROVE  EntryStep({ws[i] : i \in 1 .. Len(ws)}, {k.cur})
<1> DEFINE m == EnqueueAll(k, ws)
           woken == {ws[i] : i \in 1 .. Len(ws)}
<1>1. /\ k.cur \in Procs /\ k.cur \in k.enq /\ Good(k) /\ k.nxt = NULL
      /\ k' = Schedule(Dequeue(m, k.cur))
  BY DEF Inv, Exit
<1>2. /\ ws \in Seq(Procs)
      /\ \A i \in 1 .. Len(ws) : ws[i] \in Procs \ k.enq /\ k.w[ws[i]] > 0
  BY SenderListIs
<1>3. /\ Good(m) /\ m.enq = k.enq \cup woken
      /\ m.w = k.w /\ m.cur = k.cur /\ m.nxt = NULL
  BY <1>1, <1>2, EnqueueAllKeeps
<1>4. \A p \in woken : p \in Procs \ k.enq /\ k.w[p] > 0
  BY <1>2
<1> HIDE DEF m, woken
<1>5. /\ k'.enq = m.enq \ {k.cur} /\ k'.w = k.w /\ Inv'
      /\ k'.enq = {} => k'.cur = Idle
      /\ k'.enq # {} => k'.cur \in k'.enq
  BY <1>1, <1>3, LeaveStep
<1>6. EntryStep(woken, {k.cur})
  BY <1>1, <1>3, <1>4, <1>5 DEF EntryStep
<1>7. QED
  BY <1>6 DEF woken

\* Every step is an entry that wakes some processes and blocks at most one.
LEMMA NextIsEntry ==
  ASSUME Inv, Next
  PROVE  \E woken \in SUBSET (Procs \ k.enq), blocked \in SUBSET ({k.cur} \cap Procs) :
           EntryStep(woken, blocked)
<1> DEFINE W == SUBSET (Procs \ k.enq)
           B == SUBSET ({k.cur} \cap Procs)
<1>1. ASSUME NEW x, NEW y, EntryStep(x, y)
      PROVE  x \in W /\ y \in B
  BY <1>1 DEF EntryStep
<1>2. ASSUME Preempt
      PROVE  \E x \in W, y \in B : EntryStep(x, y)
  <2>1. EntryStep({}, {})
    BY <1>2, PreemptStep
  <2>2. {} \in W /\ {} \in B
    BY <2>1, <1>1
  <2> HIDE DEF W, B
  <2>3. QED
    BY <2>1, <2>2
<1>3. ASSUME NEW p \in Procs, Wake(p)
      PROVE  \E x \in W, y \in B : EntryStep(x, y)
  <2>1. EntryStep({p}, {})
    BY <1>3, WakeStep
  <2>2. {p} \in W /\ {} \in B
    BY <2>1, <1>1
  <2> HIDE DEF W, B
  <2>3. QED
    BY <2>1, <2>2
<1>4. ASSUME Block
      PROVE  \E x \in W, y \in B : EntryStep(x, y)
  <2>1. EntryStep({}, {k.cur})
    BY <1>4, BlockStep
  <2>2. {} \in W /\ {k.cur} \in B
    BY <2>1, <1>1
  <2> HIDE DEF W, B
  <2>3. QED
    BY <2>1, <2>2
<1>5. ASSUME NEW ws \in SenderLists, Exit(ws)
      PROVE  \E x \in W, y \in B : EntryStep(x, y)
  <2> DEFINE woken == {ws[i] : i \in 1 .. Len(ws)}
  <2>1. EntryStep(woken, {k.cur})
    BY <1>5, ExitStep
  <2> HIDE DEF woken
  <2>2. woken \in W /\ {k.cur} \in B
    BY <2>1, <1>1
  <2> HIDE DEF W, B
  <2>3. QED
    BY <2>1, <2>2
<1>6. QED
  BY <1>2, <1>3, <1>4, <1>5 DEF Next

\* The memory that start leaves before it enqueues anybody.
LEMMA FreshIsGood ==
  ASSUME NEW boot \in Boots
  PROVE  LET m == Fresh(boot) IN
         /\ Good(m) /\ m.enq = {} /\ m.nxt = NULL /\ m.cur = NULL /\ m.w = Weights(boot)
         /\ \A i \in DOMAIN boot : boot[i][1] \in Procs /\ m.w[boot[i][1]] > 0
<1> DEFINE m == Fresh(boot)
           w == Weights(boot)
<1>1. boot \in Seq(Procs \X (Nat \ {0})) /\ Word > MapThenSumSet(LAMBDA p : Weights(boot)[p], Procs)
  BY SchedAssumption
<1>2. \A i \in DOMAIN boot : boot[i][1] \in Procs /\ boot[i][2] \in Nat /\ boot[i][2] > 0
  BY <1>1
<1>3. \A p \in Procs : \A i \in DOMAIN boot : boot[i][1] = p => w[p] \in Nat /\ w[p] > 0
  <2> TAKE p \in Procs
  <2> TAKE i \in DOMAIN boot
  <2> SUFFICES ASSUME boot[i][1] = p PROVE w[p] \in Nat /\ w[p] > 0
    OBVIOUS
  <2> DEFINE c == CHOOSE j \in DOMAIN boot : boot[j][1] = p
  <2>1. c \in DOMAIN boot
    OBVIOUS
  <2>2. w[p] = boot[c][2]
    BY DEF Weights
  <2>3. QED
    BY <2>1, <2>2, <1>2
<1>4. w \in [Procs -> Nat]
  <2>1. \A p \in Procs : w[p] \in Nat
    <3> TAKE p \in Procs
    <3>1. CASE \E i \in DOMAIN boot : boot[i][1] = p
      BY <3>1, <1>3
    <3>2. CASE ~(\E i \in DOMAIN boot : boot[i][1] = p)
      BY <3>2 DEF Weights
    <3>3. QED
      BY <3>1, <3>2
  <2>2. QED
    BY <2>1 DEF Weights
<1>5. Sound(w)
  <2>1. Sum(w, Procs) = MapThenSumSet(LAMBDA p : Weights(boot)[p], Procs)
    BY DEF Sum
  <2>2. Sum(w, Procs) \in Nat
    <3>1. \A p \in Procs : w[p] \in Nat
      BY <1>4
    <3> HIDE DEF w
    <3>2. QED
      BY <3>1, Constants, SumMonotone
  <2>3. QED
    BY <1>1, <1>4, <2>1, <2>2, Constants DEF Sound
<1>6. w \in [Procs -> 0 .. Word - 1] /\ Word > 0 /\ Word \in Nat
  <2> HIDE DEF w
  <2>1. \A p \in Procs : w[p] \in 0 .. Word - 1
    BY <1>5, OneWeight
  <2>2. {} \in SUBSET Procs
    OBVIOUS
  <2>3. QED
    BY <1>4, <1>5, <2>1, <2>2, Sums32, Constants
<1>7. m = [w |-> w, head |-> NULL, weight |-> 0, left |-> 0, cur |-> NULL, nxt |-> NULL,
           next |-> [p \in Procs |-> NULL], prev |-> [p \in Procs |-> NULL],
           ticks |-> w, enq |-> {}]
  BY DEF Fresh
<1>8. \A i \in DOMAIN boot : boot[i][1] \in Procs /\ w[boot[i][1]] > 0
  BY <1>2, <1>3
<1> HIDE DEF m, w
<1>9. m \in Memory
  BY <1>6, <1>7 DEF Memory
<1>10. Listed(m)
  <2> DEFINE s == [i \in 1 .. 0 |-> NULL]
  <2>1. s \in [1 .. 0 -> Procs] /\ 0 \in Nat
    OBVIOUS
  <2>2. Chain(m.head, m.next, m.prev, m.enq, s, 0) /\ Sorted(m.w, s, 0)
    BY <2>1, <1>7 DEF Chain, Sorted, At
  <2> HIDE DEF s
  <2>3. QED
    BY <2>1, <2>2 DEF Listed
<1>11. m.weight = Sum(m.w, m.enq)
  BY <1>7, SumEmpty
<1>12. Good(m)
  BY <1>5, <1>7, <1>9, <1>10, <1>11 DEF Good
<1>13. QED
  BY <1>7, <1>8, <1>12 DEF m, w

LEMMA InitInv == Init => Inv /\ k.cur = NULL
<1> SUFFICES ASSUME NEW boot \in Boots,
                    k = EnqueueAll(Fresh(boot), [i \in DOMAIN boot |-> boot[i][1]])
             PROVE  Inv /\ k.cur = NULL
  BY DEF Init
<1> DEFINE m == Fresh(boot)
           ws == [i \in DOMAIN boot |-> boot[i][1]]
<1>1. /\ Good(m) /\ m.nxt = NULL /\ m.cur = NULL
      /\ \A i \in DOMAIN boot : boot[i][1] \in Procs /\ m.w[boot[i][1]] > 0
  BY FreshIsGood
<1>2. DOMAIN boot = 1 .. Len(boot) /\ Len(boot) \in Nat
  BY SchedAssumption
<1>3. ws \in Seq(Procs) /\ Len(ws) = Len(boot)
  <2>1. ws \in [1 .. Len(boot) -> Procs]
    BY <1>1, <1>2
  <2> HIDE DEF ws
  <2>2. QED
    BY <2>1, <1>2
<1>4. \A i \in 1 .. Len(ws) : m.w[ws[i]] > 0
  BY <1>1, <1>2, <1>3
<1> HIDE DEF m
<1>5. Good(EnqueueAll(m, ws)) /\ EnqueueAll(m, ws).cur = m.cur /\ EnqueueAll(m, ws).nxt = m.nxt
  <2> HIDE DEF ws
  <2>1. QED
    BY <1>1, <1>3, <1>4, EnqueueAllKeeps
<1>6. k = EnqueueAll(m, ws)
  BY DEF m
<1>7. QED
  BY <1>1, <1>5, <1>6, Constants DEF Inv

LEMMA StepInv == Inv /\ [Next]_k => Inv'
<1>1. ASSUME Inv, Next PROVE Inv'
  BY <1>1, NextIsEntry DEF EntryStep
<1>2. ASSUME Inv, UNCHANGED k PROVE Inv'
  BY <1>2 DEF Inv
<1>3. QED
  BY <1>1, <1>2

\* The scheduler's memory is always one sorted list with the right total.
THEOREM Invariance == Spec => []Inv
<1>1. Init => Inv
  BY InitInv
<1>2. QED
  BY <1>1, StepInv, PTL DEF Spec
-----------------------------------------------------------------------------
(***************************************************************************)
(* The properties the runs check                                           *)
(***************************************************************************)
\* The record keeps its type: no unsigned field leaves 0 .. 2^32 - 1, no link
\* points outside the task state segments (enqueue, dequeue, schedule).
THEOREM TypeCorrect == Spec => []TypeOK
<1>1. Inv => TypeOK
  BY DEF Inv, Good, TypeOK
<1>2. QED
  BY <1>1, Invariance, PTL

LEMMA InvOrder ==
  ASSUME Inv
  PROVE  \E n \in Nat : \E s \in [1 .. n -> Procs] :
           Chain(k.head, k.next, k.prev, k.enq, s, n) /\ Sorted(k.w, s, n)
BY DEF Inv, Good, Listed

LEMMA InvLinksAgree == Inv => LinksAgree
<1> SUFFICES ASSUME Inv, NEW p \in k.enq
             PROVE  /\ k.next[p] # NULL => k.prev[k.next[p]] = p
                    /\ k.prev[p] # NULL => k.next[k.prev[p]] = p
                    /\ (k.prev[p] = NULL) <=> (k.head = p)
  BY DEF LinksAgree
<1> USE Constants
<1>1. PICK n \in Nat : \E s \in [1 .. n -> Procs] :
             Chain(k.head, k.next, k.prev, k.enq, s, n) /\ Sorted(k.w, s, n)
  BY InvOrder
<1>2. PICK s \in [1 .. n -> Procs] : Chain(k.head, k.next, k.prev, k.enq, s, n)
  BY <1>1
<1>3. PICK i \in 1 .. n : p = s[i]
  BY <1>2 DEF Chain
<1>4. /\ k.next[p] = At(s, n, i + 1) /\ k.prev[p] = At(s, n, i - 1)
      /\ k.head = At(s, n, 1)
      /\ \A j \in 1 .. n : k.next[s[j]] = At(s, n, j + 1) /\ k.prev[s[j]] = At(s, n, j - 1)
      /\ \A j, l \in 1 .. n : s[j] = s[l] => j = l
  BY <1>2, <1>3 DEF Chain
<1>5. k.next[p] # NULL => k.prev[k.next[p]] = p
  <2>1. CASE i = n
    BY <2>1, <1>4 DEF At
  <2>2. CASE i # n
    <3>1. i + 1 \in 1 .. n /\ (i + 1) - 1 = i
      BY <2>2
    <3>2. k.next[p] = s[i + 1]
      BY <3>1, <1>4 DEF At
    <3>3. k.prev[s[i + 1]] = At(s, n, i)
      BY <3>1, <1>4
    <3>4. QED
      BY <3>2, <3>3, <1>3 DEF At
  <2>3. QED
    BY <2>1, <2>2
<1>6. /\ k.prev[p] # NULL => k.next[k.prev[p]] = p
      /\ (k.prev[p] = NULL) <=> (k.head = p)
  <2>1. CASE i = 1
    BY <2>1, <1>3, <1>4 DEF At
  <2>2. CASE i # 1
    <3>1. i - 1 \in 1 .. n /\ (i - 1) + 1 = i /\ 1 \in 1 .. n
      BY <2>2
    <3>2. k.prev[p] = s[i - 1] /\ k.head = s[1]
      BY <3>1, <1>4 DEF At
    <3>3. k.next[s[i - 1]] = At(s, n, i)
      BY <3>1, <1>4
    <3>4. s[1] # s[i] /\ s[i - 1] # NULL
      BY <3>1, <2>2, <1>4
    <3>5. QED
      BY <3>2, <3>3, <3>4, <1>3 DEF At
  <2>3. QED
    BY <2>1, <2>2
<1>7. QED
  BY <1>5, <1>6

\* The two link fields of the processes in the queue are inverse to each
\* other, as dequeue relies on when it unlinks.
THEOREM LinksStayInverse == Spec => []LinksAgree
BY InvLinksAgree, Invariance, PTL

LEMMA InvHeaviestFirst == Inv => HeaviestFirst
<1> SUFFICES ASSUME Inv, NEW p \in k.enq, k.next[p] # NULL
             PROVE  k.w[p] >= k.w[k.next[p]]
  BY DEF HeaviestFirst
<1>1. PICK n \in Nat : \E s \in [1 .. n -> Procs] :
             Chain(k.head, k.next, k.prev, k.enq, s, n) /\ Sorted(k.w, s, n)
  BY InvOrder
<1>2. PICK s \in [1 .. n -> Procs] :
             Chain(k.head, k.next, k.prev, k.enq, s, n) /\ Sorted(k.w, s, n)
  BY <1>1
<1>3. PICK i \in 1 .. n : p = s[i]
  BY <1>2 DEF Chain
<1>4. k.next[p] = At(s, n, i + 1)
  BY <1>2, <1>3 DEF Chain
<1>5. i + 1 \in 1 .. n /\ k.next[p] = s[i + 1] /\ i <= i + 1
  BY <1>4 DEF At
<1>6. QED
  BY <1>2, <1>3, <1>5 DEF Sorted

\* The queue stays sorted by weight although enqueue trusts the links that a
\* process kept from its last stay whenever last_neighbours_valid accepts them.
THEOREM QueueStaysSorted == Spec => []HeaviestFirst
BY InvHeaviestFirst, Invariance, PTL

\* schedqueue.schedticks stays the sum of the weights in the queue, so the
\* comparison in dequeue recognises the last member and nobody else.
THEOREM WeightStaysTotal == Spec => []WeightIsTotal
<1>1. Inv => WeightIsTotal
  BY DEF Inv, Good, WeightIsTotal, Sum
<1>2. QED
  BY <1>1, Invariance, PTL

\* What the recursive function of Nth is, when there is one.
Visits(f) == f = [n \in 0 .. Cardinality(Procs) |->
                    IF n = 0 THEN k.head
                    ELSE LET q == f[n - 1] IN IF q = NULL THEN NULL ELSE k.next[q]]

\* Walking from the head lists the order and then stays at NULL.
LEMMA NthIsOrder ==
  ASSUME NEW n, NEW s, Chain(k.head, k.next, k.prev, k.enq, s, n)
  PROVE  \A i \in 0 .. Cardinality(Procs) : Nth[i] = At(s, n, i + 1)
<1> DEFINE C == Cardinality(Procs)
           g == [i \in 0 .. C |-> At(s, n, i + 1)]
<1> USE Constants
<1>1. /\ n \in Nat /\ s \in [1 .. n -> Procs]
      /\ k.head = At(s, n, 1)
      /\ \A i \in 1 .. n : k.next[s[i]] = At(s, n, i + 1)
  BY DEF Chain
<1>2. C \in Nat
  BY ChainLength
<1> HIDE DEF C
<1>3. \A i \in 0 .. C : i # 0 =>
        At(s, n, i + 1) = IF At(s, n, i) = NULL THEN NULL ELSE k.next[At(s, n, i)]
  <2> SUFFICES ASSUME NEW i \in 0 .. C, i # 0
               PROVE  At(s, n, i + 1) = IF At(s, n, i) = NULL THEN NULL ELSE k.next[At(s, n, i)]
    OBVIOUS
  <2>1. i \in Nat /\ i >= 1 /\ n \in Nat
    BY <1>1, <1>2
  <2>2. CASE i <= n
    <3>1. i \in 1 .. n /\ At(s, n, i) = s[i]
      BY <2>1, <2>2 DEF At
    <3>2. s[i] \in Procs /\ k.next[s[i]] = At(s, n, i + 1)
      BY <3>1, <1>1
    <3>3. QED
      BY <3>1, <3>2
  <2>3. CASE i > n
    BY <2>1, <2>3 DEF At
  <2>4. QED
    BY <2>1, <2>2, <2>3
<1>4. Visits(g)
  <2>1. \A i \in 0 .. C : g[i] = IF i = 0 THEN k.head
                                 ELSE IF g[i - 1] = NULL THEN NULL ELSE k.next[g[i - 1]]
    <3> TAKE i \in 0 .. C
    <3>1. CASE i = 0
      BY <3>1, <1>1
    <3>2. CASE i # 0
      <4>1. i - 1 \in 0 .. C /\ (i - 1) + 1 = i
        BY <3>2, <1>2
      <4>2. g[i - 1] = At(s, n, i)
        BY <4>1
      <4>3. QED
        BY <4>2, <3>2, <1>3
    <3>3. QED
      BY <3>1, <3>2
  <2>2. QED
    BY <2>1 DEF Visits, C
<1>5. Nth = CHOOSE f : Visits(f)
  BY DEF Nth, Visits
<1>6. Visits(Nth)
  <2> HIDE DEF g
  <2>1. QED
    BY <1>4, <1>5
<1>7. \A i \in 0 .. C : Nth[i] = IF i = 0 THEN k.head
                                 ELSE IF Nth[i - 1] = NULL THEN NULL ELSE k.next[Nth[i - 1]]
  <2> HIDE DEF Nth
  <2>1. QED
    BY <1>6 DEF Visits, C
<1> DEFINE S == {i \in Nat : i \in 0 .. C => Nth[i] = At(s, n, i + 1)}
<1> HIDE DEF Nth, g
<1>8. 0 \in S
  BY <1>1, <1>2, <1>7
<1>9. \A i \in S : i + 1 \in S
  <2> SUFFICES ASSUME NEW i \in S, i + 1 \in 0 .. C
               PROVE  Nth[i + 1] = At(s, n, (i + 1) + 1)
    OBVIOUS
  <2>1. i \in Nat /\ i \in 0 .. C /\ i + 1 # 0 /\ (i + 1) - 1 = i
    BY <1>2
  <2>2. Nth[i] = At(s, n, i + 1)
    BY <2>1
  <2>3. Nth[i + 1] = IF Nth[i] = NULL THEN NULL ELSE k.next[Nth[i]]
    BY <2>1, <1>7
  <2>4. QED
    BY <2>1, <2>2, <2>3, <1>3
<1>10. S = Nat
  <2>1. S \in SUBSET Nat
    OBVIOUS
  <2> HIDE DEF S
  <2>2. QED
    BY <2>1, <1>8, <1>9, SetInduction
<1>11. \A i \in 0 .. C : Nth[i] = At(s, n, i + 1)
  BY <1>2, <1>10
<1>12. QED
  BY <1>11 DEF C

LEMMA InvListIsTheQueue == Inv => ListIsTheQueue
<1> SUFFICES ASSUME Inv PROVE ListIsTheQueue
  OBVIOUS
<1> DEFINE C == Cardinality(Procs)
<1>1. PICK n \in Nat : \E s \in [1 .. n -> Procs] :
             Chain(k.head, k.next, k.prev, k.enq, s, n) /\ Sorted(k.w, s, n)
  BY InvOrder
<1>2. PICK s \in [1 .. n -> Procs] : Chain(k.head, k.next, k.prev, k.enq, s, n)
  BY <1>1
<1>3. Cardinality(k.enq) = n /\ n <= C /\ C \in Nat
  BY <1>2, ChainLength
<1>4. \A i \in 0 .. C : Nth[i] = At(s, n, i + 1)
  BY <1>2, NthIsOrder
<1>5. k.enq = {s[i] : i \in 1 .. n}
  BY <1>2 DEF Chain
<1> HIDE DEF C
<1>6. Nth[n] = NULL
  BY <1>3, <1>4 DEF At
<1>7. \A i \in 0 .. n - 1 : i + 1 \in 1 .. n /\ Nth[i] = s[i + 1]
  <2> TAKE i \in 0 .. n - 1
  <2>1. i \in 0 .. C /\ i + 1 \in 1 .. n
    BY <1>3
  <2>2. QED
    BY <2>1, <1>4 DEF At
<1>8. \A i \in 1 .. n : i - 1 \in 0 .. n - 1 /\ Nth[i - 1] = s[i]
  <2> TAKE i \in 1 .. n
  <2>1. i - 1 \in 0 .. n - 1 /\ (i - 1) + 1 = i
    OBVIOUS
  <2>2. QED
    BY <2>1, <1>7
<1> HIDE DEF Nth
<1>9. {Nth[i] : i \in 0 .. n - 1} = k.enq
  BY <1>5, <1>7, <1>8
<1>10. QED
  BY <1>3, <1>6, <1>9 DEF ListIsTheQueue

\* The chain of next fields from schedqueue.head is exactly the set of
\* processes whose ENQUEUED bit is set, for any number of processes, any
\* weights and any sequence of enqueue and dequeue.
THEOREM QueueIsOneList == Spec => []ListIsTheQueue
BY InvListIsTheQueue, Invariance, PTL

LEMMA InitIsRQ == Init => RQ!RQInit
<1> SUFFICES ASSUME Init PROVE k.enq \subseteq Procs /\ k.cur = NULL
  BY DEF RQ!RQInit
<1>1. Inv /\ k.cur = NULL
  BY InitInv
<1>2. QED
  BY <1>1 DEF Inv, Good, Memory

LEMMA NextIsRQ ==
  ASSUME Inv, Next
  PROVE  RQ!Step
<1>1. PICK woken \in SUBSET (Procs \ k.enq), blocked \in SUBSET ({k.cur} \cap Procs) :
        EntryStep(woken, blocked)
  BY NextIsEntry
<1>2. /\ k'.enq = (k.enq \cup woken) \ blocked
      /\ k'.cur \in IF k'.enq = {} THEN {Idle} ELSE k'.enq
  BY <1>1 DEF EntryStep
<1>3. RQ!KernelEntry(woken, blocked)
  BY <1>2 DEF RQ!KernelEntry, RQ!Runnable
<1>4. QED
  BY <1>1, <1>3 DEF RQ!Step

\* Each kernel entry on the list is one entry on the abstract run queue: only
\* the caller leaves, and the processor goes to a member of the queue, or to
\* the idle task when there is none (schedule, pick_next_proc, and the loop of
\* dequeue, which ends for every counter the unsigned fields can hold).
THEOREM ListImplementsRunQueue == Spec => ImplementsRunQueue
<1>1. ASSUME Inv, [Next]_k
      PROVE  [RQ!Step]_(RQ!rqVars)
  <2>1. CASE Next
    BY <2>1, <1>1, NextIsRQ
  <2>2. CASE UNCHANGED k
    BY <2>2 DEF RQ!rqVars
  <2>3. QED
    BY <1>1, <2>1, <2>2
<1>2. QED
  BY <1>1, InitIsRQ, Invariance, PTL DEF Spec, ImplementsRunQueue, RQ!RQSpec
-----------------------------------------------------------------------------
(***************************************************************************)
(* Weight 1: whoever runs has one tick                                     *)
(***************************************************************************)
\* No weight and no tick counter is above 1.
Light(m) == \A p \in Procs : m.w[p] <= 1
Small(m) == \A p \in Procs : m.ticks[p] <= 1

\* Whoever is to be charged has the tick; if nobody is, all the queue has.
Payable(m) ==
  /\ m.nxt \in {NULL, m.cur}
  /\ m.cur \in Procs => m.ticks[m.cur] = 1 /\ (m.enq # {} => m.cur \in m.enq)
  /\ m.cur \notin Procs => \A q \in m.enq : m.ticks[q] = 1

LEMMA LightWeights ==
  ASSUME NEW m, Good(m), Light(m)
  PROVE  /\ \A q \in m.enq : m.w[q] = 1
         /\ \A q \in Procs : m.w[q] \in Nat
<1>1. \A q \in Procs : m.w[q] \in Nat
  BY DEF Good, Sound
<1>2. m.enq \subseteq Procs /\ \A q \in m.enq : m.w[q] > 0
  BY MemoryHas DEF Good
<1>3. QED
  BY <1>1, <1>2 DEF Light

\* The process that pick_next_proc chooses has a tick.
LEMMA PickPays ==
  ASSUME NEW c, Good(c), Light(c), Small(c),
         \/ LastPicked(c) \in c.enq /\ c.ticks[LastPicked(c)] = 0
         \/ LastPicked(c) \notin Procs /\ \A q \in c.enq : c.ticks[q] = 1
         \/ c.enq = {}
  PROVE  LET r == PickNextProc(c) IN
         Small(r) /\ (r.nxt \in Procs => r.ticks[r.nxt] = 1)
<1> DEFINE r == PickNextProc(c)
           last == LastPicked(c)
<1> USE Constants
<1>1. /\ c \in Memory /\ Ends(c) /\ c.enq \subseteq Procs /\ Word > 0
      /\ c.ticks \in [Procs -> 0 .. Word - 1] /\ c.w \in [Procs -> 0 .. Word - 1]
      /\ last \in Procs \cup {Idle, NULL}
  BY ListHasEnds, MemoryHas, Sums32 DEF Good, LastPicked
<1>2. \A q \in c.enq : c.w[q] = 1
  BY LightWeights
<1>3. ASSUME NEW q \in c.enq, r = Refill([c EXCEPT !.nxt = q], q)
      PROVE  Small(r) /\ r.ticks[r.nxt] = 1
  <2>1. r.nxt = q /\ r.ticks = [c.ticks EXCEPT ![q] = 1]
    BY <1>1, <1>2, <1>3 DEF Refill, Memory
  <2> HIDE DEF r
  <2>2. r.ticks[q] = 1 /\ \A p \in Procs : p # q => r.ticks[p] = c.ticks[p]
    BY <2>1, <1>1
  <2>3. QED
    BY <2>1, <2>2 DEF Small
<1>4. ASSUME NEW q \in c.enq, r = [c EXCEPT !.nxt = q], c.ticks[q] = 1
      PROVE  Small(r) /\ r.ticks[r.nxt] = 1
  <2>1. r.nxt = q /\ r.ticks = c.ticks
    BY <1>1, <1>4 DEF Memory
  <2> HIDE DEF r
  <2>2. QED
    BY <2>1, <1>4 DEF Small
<1>5. CASE c.head = NULL
  <2>1. r = [c EXCEPT !.nxt = Idle]
    BY <1>5 DEF PickNextProc
  <2>2. r.nxt = Idle /\ r.ticks = c.ticks
    BY <2>1, <1>1 DEF Memory
  <2> HIDE DEF r
  <2>3. QED
    BY <2>2 DEF Small, r
<1>6. CASE c.head # NULL /\ last \in {NULL, Idle}
  <2>1. r = [c EXCEPT !.nxt = c.head] /\ c.head \in c.enq
    BY <1>1, <1>6 DEF PickNextProc, LastPicked, Ends
  <2>2. c.ticks[c.head] = 1
    BY <2>1, <1>1, <1>6
  <2> HIDE DEF r
  <2>3. QED
    BY <2>1, <2>2, <1>4 DEF r
<1>7. CASE c.head # NULL /\ last \notin {NULL, Idle}
  <2> DEFINE q == c.next[last]
  <2>1. c.head \in c.enq /\ last \in c.enq /\ c.ticks[last] = 0 /\ q \in c.enq \cup {NULL}
    BY <1>1, <1>7 DEF Ends
  <2>2. c.ticks[last] = Sub(c.w[last], 1)
    <3>1. c.w[last] = 1 /\ c.w[last] \in 1 .. Word - 1
      BY <2>1, <1>1, <1>2
    <3>2. Sub(c.w[last], 1) = c.w[last] - 1
      BY <3>1, <1>1, SubOne
    <3>3. QED
      BY <2>1, <3>1, <3>2
  <2>3. \/ q = NULL /\ r = PickHead(c)
        \/ q # NULL /\ r = Refill([c EXCEPT !.nxt = q], q)
    BY <2>2, <1>7 DEF PickNextProc, LastPicked
  <2>4. \/ r = Refill([c EXCEPT !.nxt = c.head], c.head)
        \/ r = [c EXCEPT !.nxt = c.head] /\ c.ticks[c.head] # 0
        \/ q \in c.enq /\ r = Refill([c EXCEPT !.nxt = q], q)
    BY <2>1, <2>3 DEF PickHead
  <2>5. c.ticks[c.head] # 0 => c.ticks[c.head] = 1
    <3>1. c.ticks[c.head] \in 0 .. Word - 1 /\ c.ticks[c.head] <= 1
      BY <2>1, <1>1 DEF Small
    <3>2. QED
      BY <3>1
  <2> HIDE DEF r, q
  <2>6. QED
    BY <2>1, <2>4, <2>5, <1>3, <1>4 DEF r
<1>8. QED
  BY <1>1, <1>5, <1>6, <1>7

LEMMA ChargeAndPickPays ==
  ASSUME NEW m, Good(m), Light(m), Small(m), Payable(m)
  PROVE  LET r == ChargeAndPick(m) IN
         Small(r) /\ (r.nxt \in Procs => r.ticks[r.nxt] = 1)
<1> DEFINE c == ChargeProcess(m)
<1>1. /\ c \in Memory /\ SameQueue(m, c) /\ c.cur = m.cur /\ c.nxt = m.nxt
      /\ m.cur \in Procs => c.ticks = [m.ticks EXCEPT ![m.cur] = Sub(@, 1)]
      /\ m.cur \notin Procs => c.ticks = m.ticks
  BY ChargeKeeps
<1>2. Good(c) /\ Light(c) /\ c.enq = m.enq /\ m \in Memory /\ Word > 0
  BY <1>1, SameQueueGood, Sums32 DEF SameQueue, Light, Good
<1>3. LastPicked(c) = m.cur
  BY <1>1 DEF LastPicked, Payable
<1> HIDE DEF c
<1>4. CASE m.cur \in Procs
  <2>1. m.ticks \in [Procs -> 0 .. Word - 1] /\ m.ticks[m.cur] = 1
    BY <1>2, <1>4, MemoryHas DEF Payable
  <2>2. Sub(m.ticks[m.cur], 1) = 0
    <3>1. m.ticks[m.cur] \in 1 .. Word - 1
      BY <2>1, <1>4
    <3>2. QED
      BY <3>1, <2>1, <1>2, SubOne
  <2>3. c.ticks[m.cur] = 0 /\ \A p \in Procs : p # m.cur => c.ticks[p] = m.ticks[p]
    BY <1>1, <1>4, <2>1, <2>2
  <2>4. Small(c)
    BY <2>3 DEF Small
  <2>5. c.enq # {} => m.cur \in c.enq
    BY <1>2, <1>4 DEF Payable
  <2>6. QED
    BY <1>2, <1>3, <2>3, <2>4, <2>5, PickPays DEF ChargeAndPick, c
<1>5. CASE m.cur \notin Procs
  <2>1. Small(c) /\ \A q \in c.enq : c.ticks[q] = 1
    BY <1>1, <1>2, <1>5 DEF Small, Payable
  <2>2. QED
    BY <1>2, <1>3, <1>5, <2>1, PickPays DEF ChargeAndPick, c
<1>6. QED
  BY <1>4, <1>5

\* What enqueue grants and counts.
LEMMA EnqueueTicks ==
  ASSUME NEW m \in Memory, NEW p \in Procs \ m.enq
  PROVE  LET r == Enqueue(m, p) IN
         /\ r.ticks = [m.ticks EXCEPT ![p] = Grant(m, p)]
         /\ r.left = Add(m.left, Grant(m, p))
         /\ r.weight = Add(m.weight, m.w[p])
<1> DEFINE g == Grant(m, p)
<1>1. PICK a, b : Relinked(m, p) = LinkBetween(m, p, a, b)
  BY DEF Relinked
<1>2. Enqueue(m, p) = [LinkBetween(m, p, a, b) EXCEPT !.enq = @ \cup {p}, !.ticks[p] = g,
                                                      !.weight = Add(@, m.w[p]),
                                                      !.left = Add(@, g)]
  BY <1>1 DEF Enqueue
<1> HIDE DEF g
<1>3. QED
  BY <1>2 DEF LinkBetween, Memory, g

LEMMA EnqueueSmall ==
  ASSUME NEW m, Good(m), Light(m), Small(m), NEW p \in Procs, m.w[p] > 0
  PROVE  LET r == Enqueue(m, p) IN
         /\ Small(r)
         /\ \A q \in m.enq : r.ticks[q] = m.ticks[q]
         /\ m.enq = {} => r.ticks[p] = 1
<1> DEFINE r == Enqueue(m, p)
           g == Grant(m, p)
<1>1. CASE p \in m.enq
  BY <1>1 DEF Enqueue
<1>2. CASE p \notin m.enq
  <2>1. /\ m \in Memory /\ Word > 0 /\ m.ticks \in [Procs -> 0 .. Word - 1]
        /\ m.enq \subseteq Procs /\ m.w[p] = 1
    <3>1. m.w[p] \in Nat /\ m.w[p] <= 1
      BY LightWeights DEF Light
    <3>2. QED
      BY <3>1, MemoryHas, Sums32 DEF Good
  <2>2. g \in 0 .. Word - 1 /\ g <= 1
    <3>1. g \in 0 .. Word - 1
      BY <2>1, GrantIsWord
    <3>2. m.ticks[p] \in Nat /\ m.ticks[p] <= 1
      BY <2>1 DEF Small
    <3>3. g \in {m.w[p], m.ticks[p]} \/ g < m.ticks[p]
      BY DEF Grant, Least
    <3> HIDE DEF g
    <3>4. QED
      BY <2>1, <3>1, <3>2, <3>3
  <2>3. r.ticks = [m.ticks EXCEPT ![p] = g]
    BY <2>1, <1>2, EnqueueTicks
  <2>4. m.enq = {} => g = 1
    <3>1. m.weight = Sum(m.w, m.enq)
      BY DEF Good
    <3>2. m.enq = {} => m.weight = 0
      BY <3>1, SumEmpty
    <3>3. QED
      BY <3>2, <2>1 DEF Grant
  <2> HIDE DEF r, g
  <2>5. r.ticks[p] = g /\ \A q \in Procs : q # p => r.ticks[q] = m.ticks[q]
    BY <2>1, <2>3
  <2>6. Small(r)
    BY <2>2, <2>5 DEF Small
  <2>7. QED
    BY <2>1, <2>4, <2>5, <2>6, <1>2 DEF r
<1>3. QED
  BY <1>1, <1>2

\* A caller with a tick leaves the processor to a process with a tick.
LEMMA DequeuePays ==
  ASSUME NEW m, Good(m), Light(m), Small(m), NEW p \in m.enq,
         m.cur = p, m.nxt = NULL, m.ticks[p] = 1
  PROVE  LET r == Dequeue(m, p) IN
         /\ Small(r)
         /\ r.enq = {} => r.ticks[p] = 1
         /\ r.enq # {} => r.ticks[r.nxt] = 1
<1> DEFINE r == Dequeue(m, p)
<1>1. m \in Memory /\ p \in Procs /\ Word > 0 /\ r.enq = m.enq \ {p}
  BY Sums32, MemoryHas, DequeueKeeps DEF Good
<1>2. CASE m.enq = {p}
  <2>1. r.ticks = m.ticks
    <3>1. r = [m EXCEPT !.enq = @ \ {p}, !.weight = 0, !.left = 0, !.head = NULL]
      BY <1>2, SoleIsAlone DEF Dequeue
    <3>2. QED
      BY <3>1, <1>1 DEF Memory
  <2>2. r.enq = {}
    BY <1>1, <1>2
  <2> HIDE DEF r
  <2>3. QED
    BY <2>1, <2>2 DEF Small, r
<1>3. CASE m.enq # {p}
  <2> DEFINE c == ChargeAndPick(m)
             l == Turn(m)
             u == Unlink(l, p)
  <2>1. Payable(m) /\ LastPicked(m) = p
    BY <1>1 DEF Payable, LastPicked
  <2>2. /\ Small(c) /\ (c.nxt \in Procs => c.ticks[c.nxt] = 1)
        /\ c \in Memory
    BY <2>1, ChargeAndPickPays, ChargeAndPickKeeps
  <2> HIDE DEF c
  <2>3. l = [c EXCEPT !.cur = c.nxt]
    BY DEF Turn, c
  <2>4. l \in Memory /\ l.nxt = c.nxt /\ l.ticks = c.ticks
    BY <2>2, <2>3 DEF Memory
  <2> HIDE DEF l
  <2>5. Turn(m).nxt # p
    <3>1. SUFFICES ASSUME Turn(m).nxt = p PROVE FALSE
      OBVIOUS
    <3>2. Sub(m.ticks[p], 1) # m.w[p] - 1
      BY <3>1, <1>3, TurnedBack
    <3>3. m.w[p] = 1 /\ m.ticks[p] \in 1 .. Word - 1
      BY <1>1, LightWeights, MemoryHas
    <3>4. Sub(m.ticks[p], 1) = m.ticks[p] - 1
      BY <3>3, <1>1, SubOne
    <3>5. QED
      BY <3>2, <3>3, <3>4
  <2>6. LeaveProcessor(m, p) = l /\ l.nxt \in m.enq
    BY <2>5, <1>3, LoopEnds DEF l
  <2>7. r = [u EXCEPT !.enq = @ \ {p}, !.weight = Sub(@, m.w[p]), !.left = Sub(@, u.ticks[p])]
    BY <2>6, <1>3, SoleIsAlone DEF Dequeue
  <2>8. r.ticks = l.ticks /\ r.nxt = l.nxt
    BY <2>4, <2>7 DEF Unlink, Memory
  <2>9. l.nxt \in Procs
    BY <2>6, <1>1, MemoryHas
  <2>10. r.enq # {}
    BY <1>1, <1>3
  <2> HIDE DEF r, u
  <2>11. QED
    BY <2>2, <2>4, <2>8, <2>9, <2>10 DEF Small, r
<1>4. QED
  BY <1>2, <1>3

\* The entry ends with a process that has a tick.
LEMMA SchedulePays ==
  ASSUME NEW m, Good(m), Light(m), Small(m),
         \/ m.nxt = NULL /\ Payable(m)
         \/ m.nxt \in m.enq /\ m.ticks[m.nxt] = 1
  PROVE  LET r == Schedule(m) IN
         Small(r) /\ (r.cur \in Procs => r.ticks[r.cur] = 1)
<1> DEFINE n == IF m.nxt = NULL THEN ChargeAndPick(m) ELSE m
<1>1. m \in Memory /\ m.enq \subseteq Procs
  BY MemoryHas DEF Good
<1>2. n \in Memory /\ Small(n) /\ (n.nxt \in Procs => n.ticks[n.nxt] = 1)
  <2>1. CASE m.nxt = NULL /\ Payable(m)
    <3>1. LastPicked(m) = m.cur
      BY <2>1 DEF LastPicked
    <3>2. LastPicked(m) \in Procs /\ m.enq # {} => LastPicked(m) \in m.enq
      BY <2>1, <3>1 DEF Payable
    <3>3. QED
      BY <2>1, <3>2, ChargeAndPickPays, ChargeAndPickKeeps
  <2>2. CASE m.nxt \in m.enq /\ m.ticks[m.nxt] = 1
    BY <2>2, <1>1, Constants
  <2>3. QED
    BY <2>1, <2>2
<1>3. Schedule(m) = [n EXCEPT !.cur = n.nxt, !.nxt = NULL]
  BY DEF Schedule
<1> HIDE DEF n
<1>4. Schedule(m).ticks = n.ticks /\ Schedule(m).cur = n.nxt
  BY <1>2, <1>3 DEF Memory
<1>5. QED
  BY <1>2, <1>4 DEF Small

\* The inductive form of RunsOnCredit: no counter is above 1, everybody has
\* the tick before the first interrupt, and idle runs only when nobody can.
Credit ==
  (\A p \in Created : k.w[p] = 1) =>
    /\ Small(k)
    /\ k.cur \in Procs => k.ticks[k.cur] = 1
    /\ k.cur = NULL => Created \subseteq k.enq /\ \A p \in k.enq : k.ticks[p] = 1
    /\ k.cur = Idle => k.enq = {}

LEMMA InitCredit == Init => Credit
<1> SUFFICES ASSUME NEW boot \in Boots,
                    k = EnqueueAll(Fresh(boot), [i \in DOMAIN boot |-> boot[i][1]]),
                    \A p \in Created : k.w[p] = 1
             PROVE  /\ Small(k) /\ k.cur = NULL
                    /\ Created \subseteq k.enq /\ \A p \in k.enq : k.ticks[p] = 1
  BY Constants DEF Init, Credit
<1> DEFINE m == Fresh(boot)
           ws == [i \in DOMAIN boot |-> boot[i][1]]
           S == {x \in Memory : x.left = x.weight /\ x.ticks = x.w}
<1>1. /\ Good(m) /\ m.nxt = NULL /\ m.cur = NULL /\ m.w = Weights(boot)
      /\ \A i \in DOMAIN boot : boot[i][1] \in Procs /\ m.w[boot[i][1]] > 0
  BY FreshIsGood
<1>2. m \in S
  BY <1>1 DEF Fresh, Good
<1>3. DOMAIN boot = 1 .. Len(boot) /\ Len(boot) \in Nat
  BY SchedAssumption
<1>4. ws \in Seq(Procs) /\ Len(ws) = Len(boot)
  <2>1. ws \in [1 .. Len(boot) -> Procs]
    BY <1>1, <1>3
  <2> HIDE DEF ws
  <2>2. QED
    BY <2>1, <1>3
<1>5. \A i \in 1 .. Len(ws) : ws[i] \in Procs /\ m.w[ws[i]] > 0
  BY <1>1, <1>3, <1>4
<1>6. \A p \in Procs : m.w[p] > 0 => \E i \in 1 .. Len(ws) : ws[i] = p
  BY <1>1, <1>3, <1>4 DEF Weights
<1> HIDE DEF m, ws
<1>7. \A x \in S : \A i \in 1 .. Len(ws) :
        Good(x) /\ x.w = m.w => Enqueue(x, ws[i]) \in S
  <2> SUFFICES ASSUME NEW x \in S, NEW i \in 1 .. Len(ws), Good(x), x.w = m.w
               PROVE  Enqueue(x, ws[i]) \in S
    OBVIOUS
  <2> DEFINE p == ws[i]
             r == Enqueue(x, p)
             g == Grant(x, p)
  <2>1. x \in Memory /\ x.left = x.weight /\ x.ticks = x.w /\ p \in Procs /\ x.w[p] > 0
    BY <1>5
  <2>2. r \in Memory /\ r.w = x.w
    BY <2>1, EnqueueKeeps DEF Good
  <2>3. CASE p \in x.enq
    BY <2>1, <2>3 DEF Enqueue
  <2>4. CASE p \notin x.enq
    <3>1. /\ r.ticks = [x.ticks EXCEPT ![p] = g] /\ r.left = Add(x.left, g)
          /\ r.weight = Add(x.weight, x.w[p])
      BY <2>1, <2>4, EnqueueTicks
    <3>2. /\ x.w \in [Procs -> 0 .. Word - 1] /\ x.weight \in 0 .. Word - 1
          /\ Word \in Nat /\ Word > 0
      BY <2>1, MemoryHas, Sums32, Constants DEF Good
    <3>3. g = x.w[p]
      <4>1. CASE x.weight = 0
        BY <4>1 DEF Grant
      <4>2. CASE x.weight # 0
        <5> DEFINE v == x.w[p]
        <5>1. v \in 0 .. Word - 1 /\ v \in Nat /\ x.weight \in Nat \ {0}
          BY <2>1, <3>2, <4>2
        <5> HIDE DEF v
        <5>2. Sub(x.weight, x.left) = 0
          BY <2>1, <3>2, <5>1, Words DEF Sub
        <5>3. Mul(0, v) = 0
          BY <3>2, <5>1, Words DEF Mul
        <5>4. 0 \div x.weight = 0
          BY <5>1
        <5>5. Sub(v, 0) = v
          BY <3>2, <5>1, Words DEF Sub
        <5>6. Least(v, x.ticks[p]) = v
          BY <2>1 DEF Least, v
        <5>7. QED
          BY <4>2, <5>2, <5>3, <5>4, <5>5, <5>6 DEF Grant, v
      <4>3. QED
        BY <4>1, <4>2
    <3> HIDE DEF g
    <3>4. [x.ticks EXCEPT ![p] = x.w[p]] = x.w
      BY <2>1, <3>2
    <3> HIDE DEF r, p
    <3>5. r.ticks = r.w /\ r.left = r.weight
      BY <2>1, <2>2, <3>1, <3>3, <3>4
    <3>6. QED
      BY <2>2, <3>5 DEF r, p
  <2>5. QED
    BY <2>3, <2>4
<1> HIDE DEF S
<1>8. EnqueueAll(m, ws) \in S
  BY <1>1, <1>2, <1>4, <1>5, <1>7, EnqueueAllIn
<1>9. /\ EnqueueAll(m, ws).enq = m.enq \cup {ws[i] : i \in 1 .. Len(ws)}
      /\ EnqueueAll(m, ws).w = m.w /\ EnqueueAll(m, ws).cur = m.cur
      /\ Good(EnqueueAll(m, ws))
  BY <1>1, <1>4, <1>5, EnqueueAllKeeps
<1>10. k = EnqueueAll(m, ws)
  BY DEF m, ws
<1>11. k.ticks = k.w /\ k.cur = NULL /\ Good(k)
  BY <1>1, <1>8, <1>9, <1>10 DEF S
<1>12. Created \subseteq k.enq
  BY <1>6, <1>9, <1>10 DEF Created
<1>13. \A p \in Procs : k.w[p] \in Nat /\ (p \notin Created => k.w[p] = 0)
  BY <1>11 DEF Created, Good, Sound
<1>14. Small(k)
  <2>1. \A p \in Procs : k.w[p] <= 1
    BY <1>13
  <2>2. QED
    BY <2>1, <1>11 DEF Small
<1>15. k.enq \subseteq Created
  BY <1>11, MemoryHas DEF Good, Created
<1>16. QED
  BY <1>11, <1>12, <1>14, <1>15

LEMMA StepCredit ==
  ASSUME Inv, Credit, Next
  PROVE  Credit'
<1>1. PICK woken \in SUBSET (Procs \ k.enq), blocked \in SUBSET ({k.cur} \cap Procs) :
        EntryStep(woken, blocked)
  BY NextIsEntry
<1>2. k'.w = k.w /\ Inv' /\ (k'.enq = {} => k'.cur = Idle) /\ (k'.enq # {} => k'.cur \in k'.enq)
  BY <1>1 DEF EntryStep
<1>3. k'.cur # NULL /\ (k'.cur = Idle => k'.enq = {})
  <2>1. k'.enq \subseteq Procs
    BY <1>2 DEF Inv, Good, Memory
  <2>2. QED
    BY <1>2, <2>1, Constants
<1> SUFFICES ASSUME \A p \in Created : k.w[p] = 1
             PROVE  Small(k') /\ (k'.cur \in Procs => k'.ticks[k'.cur] = 1)
  <2>1. Created' = Created
    BY <1>2 DEF Created
  <2>2. QED
    BY <1>2, <1>3, <2>1 DEF Credit, Small
<1>4. /\ Good(k) /\ k.nxt = NULL /\ (k.cur \in Procs => k.cur \in k.enq)
      /\ k.enq \subseteq Procs /\ k.cur \in Procs \cup {Idle, NULL}
  BY MemoryHas DEF Inv, Good
<1>5. Light(k)
  <2>1. \A p \in Procs : k.w[p] \in Nat /\ (p \notin Created => k.w[p] = 0)
    BY <1>4 DEF Created, Good, Sound
  <2>2. QED
    BY <2>1 DEF Light
<1>6. /\ Small(k)
      /\ k.cur \in Procs => k.ticks[k.cur] = 1
      /\ k.cur = NULL => Created \subseteq k.enq /\ \A p \in k.enq : k.ticks[p] = 1
      /\ k.cur = Idle => k.enq = {}
  BY DEF Credit
<1>7. CASE Preempt
  <2>1. Payable(k)
    BY <1>4, <1>6 DEF Payable
  <2>2. QED
    BY <1>4, <1>5, <1>6, <1>7, <2>1, SchedulePays DEF Preempt
<1>8. CASE \E p \in Procs : Wake(p)
  <2>1. PICK p \in Procs : Wake(p)
    BY <1>8
  <2> DEFINE m == Enqueue(k, p)
  <2>2. p \in Created \ k.enq /\ k.w[p] > 0 /\ k' = Schedule(m)
    BY <2>1 DEF Wake, Created
  <2>3. Good(m) /\ m.enq = k.enq \cup {p} /\ m.w = k.w /\ m.cur = k.cur /\ m.nxt = NULL
    BY <1>4, <2>2, EnqueueKeeps
  <2>4. /\ Small(m)
        /\ \A q \in k.enq : m.ticks[q] = k.ticks[q]
        /\ k.enq = {} => m.ticks[p] = 1
    BY <1>4, <1>5, <1>6, <2>2, EnqueueSmall
  <2> HIDE DEF m
  <2>5. Light(m)
    BY <1>5, <2>3 DEF Light
  <2>6. Payable(m)
    <3>1. k.cur # NULL
      BY <1>6, <2>2
    <3>2. k.cur = Idle => m.enq = {p} /\ m.ticks[p] = 1
      BY <1>6, <2>3, <2>4
    <3>3. QED
      BY <1>4, <1>6, <2>3, <2>4, <3>1, <3>2 DEF Payable
  <2>7. QED
    BY <2>2, <2>3, <2>4, <2>5, <2>6, SchedulePays
<1>9. ASSUME NEW m, Good(m), Light(m), Small(m), k.cur \in m.enq,
             m.cur = k.cur, m.nxt = NULL, m.ticks[k.cur] = 1,
             k' = Schedule(Dequeue(m, k.cur))
      PROVE  Small(k') /\ (k'.cur \in Procs => k'.ticks[k'.cur] = 1)
  <2> DEFINE p == k.cur
             r == Dequeue(m, p)
  <2>1. /\ Good(r) /\ r.enq = m.enq \ {p} /\ r.w = m.w
        /\ r.enq = {} => r.cur = p /\ r.nxt = NULL
        /\ r.enq # {} => r.cur = r.nxt /\ r.nxt \in r.enq
    BY <1>9, DequeueKeeps
  <2>2. /\ Small(r)
        /\ r.enq = {} => r.ticks[p] = 1
        /\ r.enq # {} => r.ticks[r.nxt] = 1
    BY <1>9, DequeuePays
  <2>3. Light(r)
    BY <1>9, <2>1 DEF Light
  <2> HIDE DEF r
  <2>4. CASE r.enq = {}
    <3>1. Payable(r)
      BY <2>1, <2>2, <2>4 DEF Payable
    <3>2. QED
      BY <1>9, <2>1, <2>2, <2>3, <2>4, <3>1, SchedulePays DEF r
  <2>5. CASE r.enq # {}
    BY <1>9, <2>1, <2>2, <2>3, <2>5, SchedulePays DEF r
  <2>6. QED
    BY <2>4, <2>5
<1>10. CASE Block
  BY <1>4, <1>5, <1>6, <1>9, <1>10 DEF Block
<1>11. CASE \E ws \in SenderLists : Exit(ws)
  <2>1. PICK ws \in SenderLists : Exit(ws)
    BY <1>11
  <2> DEFINE m == EnqueueAll(k, ws)
             S == {x \in Memory : Small(x) /\ k.cur \in x.enq /\ x.ticks[k.cur] = 1}
  <2>2. k.cur \in Procs /\ k' = Schedule(Dequeue(m, k.cur))
    BY <2>1 DEF Exit
  <2>3. /\ ws \in Seq(Procs)
        /\ \A i \in 1 .. Len(ws) : ws[i] \in Procs /\ k.w[ws[i]] > 0
    BY SenderListIs
  <2>4. k \in S
    BY <1>4, <1>6, <2>2 DEF Good
  <2>5. \A x \in S : \A i \in 1 .. Len(ws) :
          Good(x) /\ x.w = k.w => Enqueue(x, ws[i]) \in S
    <3> SUFFICES ASSUME NEW x \in S, NEW i \in 1 .. Len(ws), Good(x), x.w = k.w
                 PROVE  Enqueue(x, ws[i]) \in S
      OBVIOUS
    <3> DEFINE p == ws[i]
               r == Enqueue(x, p)
    <3>1. p \in Procs /\ x.w[p] > 0 /\ Small(x) /\ k.cur \in x.enq /\ x.ticks[k.cur] = 1 /\ Light(x)
      BY <1>5, <2>3 DEF Light
    <3> HIDE DEF p
    <3>2. Good(r) /\ r.enq = x.enq \cup {p}
      BY <3>1, EnqueueKeeps
    <3>3. Small(r) /\ \A q \in x.enq : r.ticks[q] = x.ticks[q]
      BY <3>1, EnqueueSmall
    <3> HIDE DEF r
    <3>4. r \in S
      BY <3>1, <3>2, <3>3 DEF Good
    <3>5. QED
      BY <3>4 DEF r, p
  <2>6. m \in S
    <3> HIDE DEF S
    <3>1. QED
      BY <1>4, <2>3, <2>4, <2>5, EnqueueAllIn
  <2>7. Good(m) /\ m.w = k.w /\ m.cur = k.cur /\ m.nxt = NULL
    BY <1>4, <2>3, EnqueueAllKeeps
  <2>8. Light(m)
    BY <1>5, <2>7 DEF Light
  <2> HIDE DEF m
  <2>9. QED
    BY <1>9, <2>2, <2>6, <2>7, <2>8
<1>12. QED
  BY <1>7, <1>8, <1>10, <1>11 DEF Next

\* With the weights start gives, charge_process never takes the counter of
\* the process that ran below zero: the unsigned field never wraps.
THEOREM CountersNeverWrap == Spec => []RunsOnCredit
<1>1. Inv /\ Credit /\ [Next]_k => Credit'
  <2>1. ASSUME Inv, Credit, Next PROVE Credit'
    BY <2>1, StepCredit
  <2>2. ASSUME Credit, UNCHANGED k PROVE Credit'
    BY <2>2 DEF Credit, Created, Small
  <2>3. QED
    BY <2>1, <2>2
<1>2. Credit => RunsOnCredit
  BY DEF Credit, RunsOnCredit
<1>3. QED
  BY <1>1, <1>2, InitCredit, Invariance, PTL DEF Spec
=============================================================================
