----------------------------- MODULE StdioProofs -----------------------------
(***************************************************************************)
(* Delivery and reporting of the streams, for every size of the buffer,    *)
(* every string and number written and everything that write(2) may do.    *)
(* What a call has yet to hand on follows what its streams have taken; a   *)
(* step moves the border between the two, and a write that is not          *)
(* completed drops a part in between.                                      *)
(***************************************************************************)
EXTENDS Stdio, ConversionsProofs

\* No write for stream s was left undone.
Clean(s) == \A f \in faults : f[1] # s

\* What the call in progress has yet to hand to stream s.
Pending(s) ==
  IF io.out # s THEN <<>>
  ELSE IF io.op = "bytes" THEN io.str
  ELSE IF io.op = "int" THEN Stands(io.v, 10, TRUE) ELSE <<>>

Whole(s) == taken(s) \o Pending(s)

\* A call in progress: the word of fputi is one that itoa understands.
Call(c) ==
  /\ c \in [op: {"none", "bytes", "int"}, out: Streams,
            str: Seq(Chars), v: INT_MIN .. INT_MAX]
  /\ c.op = "none" => c = no_call
  /\ c.op = "int" => Meaningful(c.v, 10, TRUE)

\* q is t without some elements of t.
Within(q, t) ==
  \E f \in [1 .. Len(q) -> 1 .. Len(t)] :
    /\ \A k, l \in 1 .. Len(q) : k < l => f[k] < f[l]
    /\ \A k \in 1 .. Len(q) : q[k] = t[f[k]]

\* Delivers and NeverRepeats, with what is still to come; that no write has
\* failed while a call goes on, since the first failure ends it.
StreamsInv ==
  /\ TypeOK /\ Call(io)
  /\ ~idle => ~failed
  /\ \A s \in Streams : Within(Whole(s), sent[s])
  /\ \A s \in Streams : Clean(s) => sent[s] = Whole(s)

-----------------------------------------------------------------------------
(* Sequences                                                               *)

LEMMA Joins ==
  /\ <<>> \in Seq(Chars)
  /\ \A q \in Seq(Chars) : q \o <<>> = q /\ <<>> \o q = q /\ Len(q) \in Nat
  /\ \A q, t \in Seq(Chars) : q \o t \in Seq(Chars) /\ Len(q \o t) = Len(q) + Len(t)
  /\ \A q, t, u \in Seq(Chars) : (q \o t) \o u = q \o (t \o u)
BY EmptySeq, ConcatEmptySeq, LenProperties, ConcatProperties, ConcatAssociative

\* The elements of a concatenation.
LEMMA JoinAt ==
  ASSUME NEW q \in Seq(Chars), NEW t \in Seq(Chars)
  PROVE  \A k \in 1 .. Len(q) + Len(t) :
           (q \o t)[k] = IF k <= Len(q) THEN q[k] ELSE t[k - Len(q)]
BY ConcatProperties

LEMMA Associative ==
  ASSUME NEW q \in Seq(Chars), NEW t \in Seq(Chars), NEW u \in Seq(Chars)
  PROVE  (q \o t) \o u = q \o (t \o u)
BY ConcatAssociative

\* A sequence is its first k elements and the rest.
LEMMA FrontAndRest ==
  ASSUME NEW q \in Seq(Chars), NEW k \in 0 .. Len(q)
  PROVE  /\ SubSeq(q, 1, k) \in Seq(Chars) /\ Len(SubSeq(q, 1, k)) = k
         /\ SubSeq(q, k + 1, Len(q)) \in Seq(Chars)
         /\ q = SubSeq(q, 1, k) \o SubSeq(q, k + 1, Len(q))
<1>0. Len(q) \in Nat
  BY LenProperties
<1>1. Len(q) \in Nat /\ \A i \in 1 .. Len(q) : q[i] \in Chars
  BY <1>0, ElementOfSeq
<1>2. SubSeq(q, 1, k) \in Seq(Chars) /\ Len(SubSeq(q, 1, k)) = k
  BY <1>1, SubSeqProperties
<1>3. SubSeq(q, k + 1, Len(q)) \in Seq(Chars)
  BY <1>1, SubSeqProperties
<1>4. SubSeq(q, 1, k) \o SubSeq(q, k + 1, Len(q)) = SubSeq(q, 1, Len(q))
  <2>1. 1 \in 1 .. Len(q) + 1 /\ k \in 1 - 1 .. Len(q) /\ Len(q) \in k .. Len(q)
    BY <1>1
  <2> QED BY <2>1, ConcatAdjacentSubSeq
<1>5. SubSeq(q, 1, Len(q)) = q
  BY SubSeqFull
<1> QED BY <1>2, <1>3, <1>4, <1>5

\* A sequence is a prefix of any that continues it.
LEMMA PrefixOfConcat ==
  ASSUME NEW q \in Seq(Chars), NEW t \in Seq(Chars)
  PROVE  IsPrefix(q, q \o t)
<1>1. Len(q) \in Nat /\ Len(t) \in Nat /\ Len(q \o t) = Len(q) + Len(t)
  BY LenProperties, ConcatProperties
<1>2. SubSeq(q, 1, Len(q)) = SubSeq(q \o t, 1, Len(q))
  <2>1. CASE Len(q) = 0
    BY <2>1, SubSeqEmpty
  <2>2. CASE Len(q) # 0
    <3>1. 1 \in 1 .. Len(q) /\ Len(q) \in 1 .. Len(q) BY <2>2, <1>1
    <3> QED BY <3>1, SubSeqOfConcat1
  <2> QED BY <2>1, <2>2
<1> QED BY <1>1, <1>2 DEF IsPrefix

\* The first n elements of an array of characters.
LEMMA FirstElements ==
  ASSUME NEW a, NEW n \in Nat, \A k \in 1 .. n : a[k] \in Chars
  PROVE  /\ SubSeq(a, 1, n) \in Seq(Chars) /\ Len(SubSeq(a, 1, n)) = n
         /\ \A k \in 1 .. n : SubSeq(a, 1, n)[k] = a[k]
<1>1. /\ SubSeq(a, 1, n) \in Seq(Chars)
      /\ Len(SubSeq(a, 1, n)) = IF 1 <= n THEN n - 1 + 1 ELSE 0
      /\ \A k \in 1 .. n - 1 + 1 : SubSeq(a, 1, n)[k] = a[1 + k - 1]
  BY SubSeqProperties
<1> QED BY <1>1

\* Digits and the sign are characters.
LEMMA DigitsAreChars == Seq(Alphabet(10)) \subseteq Seq(Chars)
<1>1. Alphabet(10) \subseteq Chars BY DEF Alphabet, Chars
<1>2. ASSUME NEW q \in Seq(Alphabet(10)) PROVE q \in Seq(Chars)
  <2>1. Len(q) \in Nat /\ q \in [1 .. Len(q) -> Alphabet(10)] BY LenProperties
  <2>2. q \in [1 .. Len(q) -> Chars] BY <2>1, <1>1
  <2> QED BY <2>1, <2>2, SeqDef
<1> QED BY <1>2

-----------------------------------------------------------------------------
(* Sequences in which some elements are missing                            *)

LEMMA WithinSame ==
  ASSUME NEW q \in Seq(Chars)
  PROVE  Within(q, q)
<1>1. Len(q) \in Nat BY Joins
<1> DEFINE f == [k \in 1 .. Len(q) |-> k]
<1>2. f \in [1 .. Len(q) -> 1 .. Len(q)] /\ \A k \in 1 .. Len(q) : f[k] = k OBVIOUS
<1> HIDE DEF f
<1>3. \A k, l \in 1 .. Len(q) : k < l => f[k] < f[l] BY <1>2
<1>4. \A k \in 1 .. Len(q) : q[k] = q[f[k]] BY <1>2
<1> QED BY <1>2, <1>3, <1>4 DEF Within

\* The middle may be missing too.
LEMMA WithinDrops ==
  ASSUME NEW a \in Seq(Chars), NEW m \in Seq(Chars), NEW b \in Seq(Chars),
         NEW t \in Seq(Chars), Within(a \o (m \o b), t)
  PROVE  Within(a \o b, t)
<1> DEFINE A == Len(a)
           M == Len(m)
           B == Len(b)
           q == a \o (m \o b)
           p == a \o b
<1>1. A \in Nat /\ M \in Nat /\ B \in Nat /\ Len(t) \in Nat BY Joins
<1>2. m \o b \in Seq(Chars) /\ Len(m \o b) = M + B BY Joins
<1>3. Len(q) = A + (M + B) /\ Len(p) = A + B BY <1>2, Joins
<1>4. \A k \in 1 .. A + (M + B) : q[k] = IF k <= A THEN a[k] ELSE (m \o b)[k - A]
  <2>1. \A k \in 1 .. A + Len(m \o b) : q[k] = IF k <= A THEN a[k] ELSE (m \o b)[k - A]
    BY <1>2, JoinAt
  <2> QED BY <2>1, <1>2
<1>5. \A k \in 1 .. M + B : (m \o b)[k] = IF k <= M THEN m[k] ELSE b[k - M] BY JoinAt
<1>6. \A k \in 1 .. A + B : p[k] = IF k <= A THEN a[k] ELSE b[k - A] BY JoinAt
<1> HIDE DEF A, M, B, q, p
<1>7. PICK f \in [1 .. A + (M + B) -> 1 .. Len(t)] :
        /\ \A k, l \in 1 .. A + (M + B) : k < l => f[k] < f[l]
        /\ \A k \in 1 .. A + (M + B) : q[k] = t[f[k]]
  BY <1>3 DEF Within, q
<1> DEFINE g == [k \in 1 .. A + B |-> IF k <= A THEN f[k] ELSE f[k + M]]
<1>8. ASSUME NEW k \in 1 .. A + B
      PROVE  /\ k \in 1 .. A + (M + B) /\ (k > A => k + M \in 1 .. A + (M + B))
             /\ g[k] = IF k <= A THEN f[k] ELSE f[k + M]
             /\ g[k] \in 1 .. Len(t)
  <2>1. k \in 1 .. A + (M + B) /\ (k > A => k + M \in 1 .. A + (M + B)) BY <1>1
  <2>2. k <= A \/ k > A BY <1>1
  <2> QED BY <2>1, <2>2, <1>7
<1>9. g \in [1 .. A + B -> 1 .. Len(t)] BY <1>8
<1> HIDE DEF g
<1>10. ASSUME NEW k \in 1 .. A + B, NEW l \in 1 .. A + B, k < l PROVE g[k] < g[l]
  <2>1. CASE k <= A /\ l <= A BY <2>1, <1>7, <1>8, <1>10
  <2>2. CASE k <= A /\ l > A
    <3>1. l + M \in 1 .. A + (M + B) /\ k < l + M /\ k \in 1 .. A + (M + B)
      BY <2>2, <1>1, <1>8, <1>10
    <3>2. f[k] < f[l + M] BY <3>1, <1>7
    <3>3. g[k] = f[k] /\ g[l] = f[l + M]
      <4>1. ~(l <= A) BY <2>2, <1>1
      <4> QED BY <4>1, <2>2, <1>8
    <3> QED BY <3>2, <3>3
  <2>3. CASE k > A /\ l > A
    <3>1. k + M \in 1 .. A + (M + B) /\ l + M \in 1 .. A + (M + B) /\ k + M < l + M
      BY <2>3, <1>1, <1>8, <1>10
    <3>2. f[k + M] < f[l + M] BY <3>1, <1>7
    <3>3. ~(k <= A) /\ ~(l <= A) BY <2>3, <1>1
    <3> QED BY <3>2, <3>3, <1>8
  <2> QED BY <2>1, <2>2, <2>3, <1>1, <1>10
<1>11. ASSUME NEW k \in 1 .. A + B PROVE p[k] = t[g[k]]
  <2>1. CASE k <= A
    <3>1. p[k] = a[k] /\ q[k] = a[k] /\ g[k] = f[k] BY <2>1, <1>4, <1>6, <1>8
    <3>2. q[k] = t[f[k]] BY <1>7, <1>8
    <3> QED BY <3>1, <3>2
  <2>2. CASE ~(k <= A)
    <3>1. /\ k + M \in 1 .. A + (M + B) /\ ~(k + M <= A)
          /\ (k + M) - A \in 1 .. M + B /\ ~((k + M) - A <= M)
          /\ ((k + M) - A) - M = k - A
      BY <2>2, <1>1
    <3>2. q[k + M] = (m \o b)[(k + M) - A] BY <3>1, <1>4
    <3>3. (m \o b)[(k + M) - A] = b[((k + M) - A) - M] BY <3>1, <1>5
    <3>4. p[k] = b[k - A] /\ g[k] = f[k + M] BY <2>2, <1>6, <1>8
    <3>5. q[k + M] = t[f[k + M]] BY <3>1, <1>7
    <3> QED BY <3>1, <3>2, <3>3, <3>4, <3>5
  <2> QED BY <2>1, <2>2
<1> QED BY <1>3, <1>9, <1>10, <1>11 DEF Within, p

\* What is put behind both is missing in neither.
LEMMA WithinExtended ==
  ASSUME NEW q \in Seq(Chars), NEW t \in Seq(Chars), NEW p \in Seq(Chars), Within(q, t)
  PROVE  Within(q \o p, t \o p)
<1> DEFINE Q == Len(q)
           T == Len(t)
           P == Len(p)
           x == q \o p
           y == t \o p
<1>1. Q \in Nat /\ T \in Nat /\ P \in Nat /\ Len(x) = Q + P /\ Len(y) = T + P BY Joins
<1>2. \A k \in 1 .. Q + P : x[k] = IF k <= Q THEN q[k] ELSE p[k - Q] BY JoinAt
<1>3. \A k \in 1 .. T + P : y[k] = IF k <= T THEN t[k] ELSE p[k - T] BY JoinAt
<1>4. PICK f \in [1 .. Q -> 1 .. T] :
        /\ \A k, l \in 1 .. Q : k < l => f[k] < f[l]
        /\ \A k \in 1 .. Q : q[k] = t[f[k]]
  BY DEF Within
<1> HIDE DEF Q, T, P, x, y
<1> DEFINE g == [k \in 1 .. Q + P |-> IF k <= Q THEN f[k] ELSE (k - Q) + T]
<1>5. ASSUME NEW k \in 1 .. Q + P
      PROVE  /\ g[k] = IF k <= Q THEN f[k] ELSE (k - Q) + T
             /\ g[k] \in 1 .. T + P
             /\ IF k <= Q THEN k \in 1 .. Q /\ g[k] \in 1 .. T ELSE g[k] > T
  <2>1. CASE k <= Q
    <3>1. k \in 1 .. Q /\ f[k] \in 1 .. T BY <2>1, <1>1, <1>4
    <3> QED BY <3>1, <2>1, <1>1
  <2>2. CASE ~(k <= Q) BY <2>2, <1>1
  <2> QED BY <2>1, <2>2
<1>6. g \in [1 .. Q + P -> 1 .. T + P] BY <1>5
<1> HIDE DEF g
<1>7. ASSUME NEW k \in 1 .. Q + P, NEW l \in 1 .. Q + P, k < l PROVE g[k] < g[l]
  <2>1. CASE l <= Q
    <3>1. k \in 1 .. Q /\ l \in 1 .. Q BY <2>1, <1>1, <1>7
    <3>2. f[k] < f[l] /\ g[k] = f[k] /\ g[l] = f[l] BY <3>1, <1>4, <1>5, <1>7, SMTT(40)
    <3> QED BY <3>2
  <2>2. CASE k <= Q /\ ~(l <= Q)
    <3>1. g[k] \in 1 .. T /\ g[l] > T /\ g[l] \in Nat BY <2>2, <1>1, <1>5
    <3> QED BY <3>1, <1>1
  <2>3. CASE ~(k <= Q)
    <3>1. ~(l <= Q) BY <2>3, <1>1, <1>7
    <3>2. g[k] = (k - Q) + T /\ g[l] = (l - Q) + T BY <2>3, <3>1, <1>5
    <3> QED BY <3>2, <1>1, <1>7
  <2> QED BY <2>1, <2>2, <2>3
<1>8. ASSUME NEW k \in 1 .. Q + P PROVE x[k] = y[g[k]]
  <2>1. CASE k <= Q
    <3>1. k \in 1 .. Q /\ g[k] = f[k] /\ f[k] \in 1 .. T BY <2>1, <1>4, <1>5
    <3>2. f[k] \in 1 .. T + P /\ f[k] <= T BY <3>1, <1>1
    <3>3. y[f[k]] = t[f[k]] BY <3>2, <1>3
    <3>4. x[k] = q[k] BY <2>1, <1>2
    <3> QED BY <3>1, <3>3, <3>4, <1>4
  <2>2. CASE ~(k <= Q)
    <3>1. g[k] = (k - Q) + T /\ g[k] \in 1 .. T + P /\ ~(g[k] <= T) /\ g[k] - T = k - Q
      BY <2>2, <1>1, <1>5
    <3>2. y[g[k]] = p[g[k] - T] BY <3>1, <1>3
    <3>3. x[k] = p[k - Q] BY <2>2, <1>2
    <3> QED BY <3>1, <3>2, <3>3
  <2> QED BY <2>1, <2>2
<1> QED BY <1>1, <1>6, <1>7, <1>8 DEF Within, x, y

\* The function behind IsSubsequence: f[k] elements of s are found, in order,
\* among the first k of t.
Matches(f, s, t) ==
  f = [k \in 0 .. Len(t) |->
         IF k = 0 THEN 0
         ELSE LET m == f[k - 1]
              IN  IF m < Len(s) /\ s[m + 1] = t[k] THEN m + 1 ELSE m]

LEMMA SomeMatches ==
  ASSUME NEW s, NEW t, Len(s) \in Nat, Len(t) \in Nat
  PROVE  \E f : Matches(f, s, t)
<1> DEFINE n == Len(t)
           S == 0 .. Len(s)
           move == [k \in 1 .. n |->
                      [m \in S |-> IF m < Len(s) /\ s[m + 1] = t[k] THEN m + 1 ELSE m]]
<1>1. n \in Nat /\ 0 \in S OBVIOUS
<1>2. move \in [1 .. n -> [S -> S]] OBVIOUS
<1>3. \A k \in 1 .. n : \A m \in S :
        move[k][m] = IF m < Len(s) /\ s[m + 1] = t[k] THEN m + 1 ELSE m
  OBVIOUS
<1> HIDE DEF move
<1>4. PICK g \in [0 .. n -> S] : Iterated(g, 0, move, n)
  <2> HIDE DEF S, n
  <2> QED BY <1>1, <1>2, Iterates
<1>5. ASSUME NEW k \in 0 .. n
      PROVE  g[k] = IF k = 0 THEN 0
                    ELSE LET m == g[k - 1]
                         IN  IF m < Len(s) /\ s[m + 1] = t[k] THEN m + 1 ELSE m
  <2>1. g[k] = IF k = 0 THEN 0 ELSE move[k][g[k - 1]] BY <1>4 DEF Iterated
  <2>2. CASE k = 0 BY <2>1, <2>2
  <2>3. CASE k # 0
    <3>1. k \in 1 .. n /\ k - 1 \in 0 .. n BY <2>3, <1>1
    <3>2. g[k - 1] \in S BY <3>1
    <3> QED BY <3>1, <3>2, <2>1, <2>3, <1>3
  <2> QED BY <2>2, <2>3
<1>6. g = [k \in 0 .. n |->
             IF k = 0 THEN 0
             ELSE LET m == g[k - 1]
                  IN  IF m < Len(s) /\ s[m + 1] = t[k] THEN m + 1 ELSE m]
  BY <1>5
<1> QED BY <1>6 DEF Matches

\* Elements found in order are found by taking each at its first occasion.
LEMMA WithinIsSubsequence ==
  ASSUME NEW s \in Seq(Chars), NEW t \in Seq(Chars), Within(s, t)
  PROVE  IsSubsequence(s, t)
<1>1. Len(s) \in Nat /\ Len(t) \in Nat BY Joins
<1>2. PICK n, l : n = Len(t) /\ l = Len(s) OBVIOUS
<1>3. PICK g : g = CHOOSE f : Matches(f, s, t) OBVIOUS
<1>4. Matches(g, s, t) BY <1>1, <1>3, SomeMatches
<1>5. n \in Nat /\ l \in Nat BY <1>1, <1>2
<1>6. ASSUME NEW k \in 0 .. n
      PROVE  g[k] = IF k = 0 THEN 0
                    ELSE IF g[k - 1] < l /\ s[g[k - 1] + 1] = t[k] THEN g[k - 1] + 1
                         ELSE g[k - 1]
  BY <1>2, <1>4 DEF Matches
<1>7. PICK f \in [1 .. l -> 1 .. n] :
        /\ \A x, y \in 1 .. l : x < y => f[x] < f[y]
        /\ \A x \in 1 .. l : s[x] = t[f[x]]
  BY <1>2 DEF Within
<1> DEFINE Found(k) == /\ g[k] \in 0 .. l
                       /\ \A x \in 1 .. l : f[x] <= k => x <= g[k]
           R == {k \in 0 .. n : Found(k)}
<1>8. 0 \in R
  <2>1. 0 \in 0 .. n /\ 0 \in 0 .. l /\ g[0] = 0 BY <1>5, <1>6
  <2>2. \A x \in 1 .. l : ~(f[x] <= 0)
    <3> SUFFICES ASSUME NEW x \in 1 .. l PROVE ~(f[x] <= 0) OBVIOUS
    <3>1. f[x] \in 1 .. n BY <1>7
    <3> QED BY <3>1, <1>5
  <2> QED BY <2>1, <2>2
<1>9. ASSUME NEW k \in 0 .. n - 1, k \in R PROVE k + 1 \in R
  <2>1. Found(k) /\ k + 1 \in 0 .. n /\ (k + 1) - 1 = k /\ k + 1 # 0 BY <1>5, <1>9
  <2>2. PICK m : m = g[k] OBVIOUS
  <2>3. m \in 0 .. l /\ \A x \in 1 .. l : f[x] <= k => x <= m BY <2>1, <2>2
  <2>4. g[k + 1] = IF m < l /\ s[m + 1] = t[k + 1] THEN m + 1 ELSE m
    BY <2>1, <2>2, <1>6
  <2>5. g[k + 1] \in 0 .. l /\ m <= g[k + 1] BY <2>3, <2>4, <1>5
  <2>6. ASSUME NEW x \in 1 .. l, f[x] <= k + 1 PROVE x <= g[k + 1]
    <3>1. f[x] \in 1 .. n BY <1>7
    <3>2. CASE f[x] <= k
      <4>1. x <= m BY <3>2, <2>3
      <4> QED BY <4>1, <2>3, <2>5, <1>5
    <3>3. CASE ~(f[x] <= k)
      <4>1. f[x] = k + 1 BY <3>1, <3>3, <2>6, <1>5, <1>9
      <4>2. s[x] = t[k + 1] BY <4>1, <1>7
      <4>3. x - 1 <= m
        <5>1. CASE x = 1 BY <5>1, <2>3, <1>5
        <5>2. CASE x # 1
          <6>1. x - 1 \in 1 .. l /\ x - 1 < x BY <5>2, <1>5
          <6>2. f[x - 1] < f[x] /\ f[x - 1] \in 1 .. n BY <6>1, <1>7
          <6>3. f[x - 1] <= k BY <6>2, <4>1, <1>5, <1>9
          <6> QED BY <6>1, <6>3, <2>3
        <5> QED BY <5>1, <5>2
      <4>4. CASE x <= m BY <4>4, <2>3, <2>5, <1>5
      <4>5. CASE ~(x <= m)
        <5>1. x = m + 1 /\ m < l BY <4>3, <4>5, <2>3, <1>5
        <5>2. g[k + 1] = m + 1 BY <5>1, <4>2, <2>4
        <5> QED BY <5>1, <5>2, <1>5
      <4> QED BY <4>4, <4>5
    <3> QED BY <3>2, <3>3
  <2>7. Found(k + 1) BY <2>5, <2>6
  <2> QED BY <2>1, <2>7
<1>10. 0 .. n \subseteq R
  <2> HIDE DEF R
  <2> QED BY <1>5, <1>8, <1>9, InductTo
<1>11. n \in 0 .. n BY <1>5
<1>12. Found(n) BY <1>10, <1>11
<1>13. g[n] = l
  <2>1. CASE l = 0 BY <2>1, <1>12, <1>5
  <2>2. CASE l # 0
    <3>1. l \in 1 .. l BY <2>2, <1>5
    <3>2. f[l] \in 1 .. n BY <3>1, <1>7
    <3>3. f[l] <= n BY <3>2, <1>5
    <3> QED BY <3>1, <3>3, <1>12, <1>5
  <2> QED BY <2>1, <2>2
<1>14. g[Len(t)] = Len(s) BY <1>2, <1>13
<1> QED BY <1>3, <1>14 DEF IsSubsequence, Matches

-----------------------------------------------------------------------------
(* What the streams have taken and what is to come                         *)

\* t is q, or q without a part of it when a write was left undone.
Drops(q, t, clean) ==
  \E a, m, b \in Seq(Chars) : q = a \o (m \o b) /\ t = a \o b /\ (clean => m = <<>>)

LEMMA NothingDropped ==
  ASSUME NEW q \in Seq(Chars), NEW clean
  PROVE  Drops(q, q, clean)
<1>1. q = q \o (<<>> \o <<>>) /\ q = q \o <<>> /\ <<>> \in Seq(Chars) BY Joins
<1> QED BY <1>1 DEF Drops

LEMMA Intact ==
  ASSUME NEW q, NEW t, Drops(q, t, TRUE)
  PROVE  t = q
<1>1. PICK a, m, b \in Seq(Chars) : q = a \o (m \o b) /\ t = a \o b /\ m = <<>> BY DEF Drops
<1>2. <<>> \o b = b BY Joins
<1> QED BY <1>1, <1>2

LEMMA StillWithin ==
  ASSUME NEW q, NEW t, NEW clean, NEW u \in Seq(Chars), Within(q, u), Drops(q, t, clean)
  PROVE  Within(t, u)
<1>1. PICK a, m, b \in Seq(Chars) : q = a \o (m \o b) /\ t = a \o b BY DEF Drops
<1> QED BY <1>1, WithinDrops

\* The bytes of the buffer that are in use.
LEMMA BufferedSeq ==
  ASSUME TypeOK
  PROVE  /\ buffered \in Seq(Chars) /\ Len(buffered) = buffer_index_
         /\ \A k \in 1 .. buffer_index_ : buffered[k] = buffer_[k]
<1>1. buffer_index_ \in Nat /\ \A k \in 1 .. buffer_index_ : buffer_[k] \in Chars
  BY StdioConstants DEF TypeOK
<1> QED BY <1>1, FirstElements DEF buffered

\* What itoa has yet to write are characters.
LEMMA StandsChars ==
  ASSUME NEW v, Meaningful(v, 10, TRUE)
  PROVE  Stands(v, 10, TRUE) \in Seq(Chars) /\ Stands(v, 10, TRUE) # <<>>
<1>1. 10 \in Nat /\ 10 > 1 /\ TRUE \in BOOLEAN OBVIOUS
<1> QED BY <1>1, StandsSeq, StandsSome, DigitsAreChars

\* stderr has no buffer, stdout has one.
LEMMA StreamKinds ==
  /\ "stdout" \in Streams /\ "stderr" \in Streams
  /\ \A s \in Streams : s = "stdout" \/ s = "stderr"
  /\ unbuffered("stderr") /\ ~unbuffered("stdout")
BY DEF Streams, unbuffered

\* What a stream has taken is a sequence.
LEMMA TakenSeq ==
  ASSUME TypeOK, Call(io), NEW s \in Streams
  PROVE  /\ taken(s) \in Seq(Chars) /\ Pending(s) \in Seq(Chars)
         /\ Whole(s) \in Seq(Chars)
<1>1. file[s] \in Seq(Chars) BY DEF TypeOK
<1>2. (IF unbuffered(s) THEN <<>> ELSE buffered) \in Seq(Chars)
  BY BufferedSeq, EmptySeq
<1>3. taken(s) \in Seq(Chars) BY <1>1, <1>2, Joins DEF taken
<1>4. Pending(s) \in Seq(Chars)
  <2>1. io.str \in Seq(Chars) BY DEF Call
  <2>2. io.op = "int" => Stands(io.v, 10, TRUE) \in Seq(Chars) BY StandsChars DEF Call
  <2> QED BY <2>1, <2>2, Joins DEF Pending
<1>5. Whole(s) \in Seq(Chars) BY <1>3, <1>4, Joins DEF Whole
<1> QED BY <1>3, <1>4, <1>5

\* stdout has taken its buffer too, stderr has none.
LEMMA TakenIs ==
  ASSUME TypeOK
  PROVE  /\ taken("stdout") = file["stdout"] \o buffered
         /\ taken("stderr") = file["stderr"]
         /\ file["stdout"] \in Seq(Chars) /\ file["stderr"] \in Seq(Chars)
<1>1. file["stdout"] \in Seq(Chars) /\ file["stderr"] \in Seq(Chars)
  BY StreamKinds DEF TypeOK
<1>2. file["stderr"] \o <<>> = file["stderr"] BY <1>1, Joins
<1> QED BY <1>1, <1>2, StreamKinds DEF taken

\* Between calls nothing is pending.
LEMMA NoCall ==
  /\ Call(no_call) /\ no_call.op = "none"
  /\ idle => \A s \in Streams : Pending(s) = <<>>
<1>1. <<>> \in Seq(Chars) BY EmptySeq
<1>2. 0 \in INT_MIN .. INT_MAX
  <2>1. /\ enc_span \in Nat /\ enc_span > 1
        /\ INT_MIN = -(4 * enc_span) /\ INT_MAX = 4 * enc_span - 1
    BY WordSizes
  <2> QED BY <2>1
<1>3. no_call = [op |-> "none", out |-> "stdout", str |-> <<>>, v |-> 0] BY DEF no_call
<1>4. Call(no_call)
  BY <1>1, <1>2, <1>3, StreamKinds DEF Call
<1>5. idle => \A s \in Streams : Pending(s) = <<>> BY <1>3 DEF idle, Pending
<1> QED BY <1>3, <1>4, <1>5

\* The same of the state after a step.
LEMMA NoCallNext ==
  idle' => \A s \in Streams : Pending(s)' = <<>>
<1>1. no_call.op = "none" BY NoCall
<1> QED BY <1>1 DEF idle, Pending

\* A stream whose writes were all completed was such a stream before.
LEMMA CleanBefore ==
  ASSUME faults \subseteq faults', NEW s, Clean(s)'
  PROVE  Clean(s)
BY DEF Clean

\* A step that at most moves the border or drops something keeps the invariant.
LEMMA BorderMoves ==
  ASSUME StreamsInv, TypeOK', Call(io'), sent' = sent, faults \subseteq faults',
         ~idle' => ~failed',
         \A s \in Streams : Drops(Whole(s), Whole(s)', Clean(s)')
  PROVE  StreamsInv'
<1>1. ASSUME NEW s \in Streams PROVE Within(Whole(s)', sent'[s])
  <2>1. Within(Whole(s), sent[s]) /\ sent[s] \in Seq(Chars) BY DEF StreamsInv, TypeOK
  <2>2. PICK q, t, c : q = Whole(s) /\ t = Whole(s)' /\ c = Clean(s)' OBVIOUS
  <2>3. Drops(q, t, c) BY <2>2
  <2>4. Within(t, sent[s]) BY <2>1, <2>2, <2>3, StillWithin
  <2> QED BY <2>2, <2>4
<1>2. ASSUME NEW s \in Streams, Clean(s)' PROVE sent'[s] = Whole(s)'
  <2>1. sent[s] = Whole(s) BY <1>2, CleanBefore DEF StreamsInv
  <2>2. Drops(Whole(s), Whole(s)', TRUE) BY <1>2 DEF Drops
  <2>3. PICK q, t : q = Whole(s) /\ t = Whole(s)' OBVIOUS
  <2>4. t = q BY <2>2, <2>3, Intact
  <2> QED BY <2>1, <2>3, <2>4
<1> QED BY <1>1, <1>2 DEF StreamsInv

-----------------------------------------------------------------------------
(* What write and the buffer do                                            *)

\* What write does to a stream s that is given front and rest, when it takes
\* no more than the front.
Written(s, front, rest, w, retried) ==
  /\ front \in Seq(Chars) /\ rest \in Seq(Chars)
  /\ file' \in [Streams -> Seq(Chars)] /\ file'[s] = file[s] \o front
  /\ \A t \in Streams \ {s} : file'[t] = file[t]
  /\ failed' = (failed \/ w < 0) /\ failed' \in BOOLEAN
  /\ faults \subseteq faults' /\ faults' \subseteq Streams \X {"short", "error"}
  /\ w < 0 => ~Clean(s)'
  /\ ~retried /\ Clean(s)' => rest = <<>>

\* write takes the front of what it is given, and tells it of the rest.
LEMMA WriteEffect ==
  ASSUME TypeOK, NEW s \in Streams, NEW bytes \in Seq(Chars),
         NEW w \in results(Len(bytes)), NEW retried \in BOOLEAN,
         write(s, bytes, w, retried)
  PROVE  \E front, rest \in Seq(Chars) :
           /\ bytes = front \o rest /\ Written(s, front, rest, w, retried)
           /\ ~(w < 0) => rest = SubSeq(bytes, w + 1, Len(bytes))
<1>1. Len(bytes) \in Nat BY Joins
<1>2. w = -1 \/ w \in 0 .. Len(bytes) BY <1>1 DEF results
<1>3. /\ file' = [file EXCEPT ![s] = @ \o SubSeq(bytes, 1, w)]
      /\ faults' = faults \cup (IF w < 0 THEN {<<s, "error">>}
                                ELSE IF w < Len(bytes) /\ ~retried THEN {<<s, "short">>}
                                ELSE {})
      /\ failed' = (failed \/ w < 0)
  BY DEF write
<1>4. /\ file \in [Streams -> Seq(Chars)] /\ file[s] \in Seq(Chars)
      /\ faults \subseteq Streams \X {"short", "error"} /\ failed \in BOOLEAN
  BY DEF TypeOK
<1>5. /\ faults \subseteq faults' /\ faults' \subseteq Streams \X {"short", "error"}
      /\ failed' \in BOOLEAN
  BY <1>3, <1>4
<1>6. <<s, "error">>[1] = s /\ <<s, "short">>[1] = s OBVIOUS
<1>7. ASSUME NEW front \in Seq(Chars), front = SubSeq(bytes, 1, w)
      PROVE  /\ file' \in [Streams -> Seq(Chars)] /\ file'[s] = file[s] \o front
             /\ \A t \in Streams \ {s} : file'[t] = file[t]
  <2>1. file[s] \o front \in Seq(Chars) BY <1>4, Joins
  <2>2. file' = [file EXCEPT ![s] = file[s] \o front] BY <1>3, <1>4, <1>7
  <2> QED BY <2>1, <2>2, <1>4
<1>8. CASE w < 0
  <2>1. w = -1 BY <1>2, <1>8
  <2>2. SubSeq(bytes, 1, w) = <<>> BY <2>1, SubSeqEmpty
  <2>3. <<>> \in Seq(Chars) /\ bytes = <<>> \o bytes BY Joins
  <2>4. ~Clean(s)'
    <3>1. <<s, "error">> \in faults' BY <1>3, <1>8
    <3> QED BY <3>1, <1>6 DEF Clean
  <2>5. Written(s, <<>>, bytes, w, retried)
    BY <2>2, <2>3, <2>4, <1>3, <1>5, <1>7 DEF Written
  <2> QED BY <2>3, <2>5, <1>8
<1>9. CASE ~(w < 0)
  <2> DEFINE front == SubSeq(bytes, 1, w)
             rest == SubSeq(bytes, w + 1, Len(bytes))
  <2>1. w \in 0 .. Len(bytes) BY <1>2, <1>9
  <2>2. front \in Seq(Chars) /\ rest \in Seq(Chars) /\ bytes = front \o rest
    BY <2>1, FrontAndRest
  <2>3. ~retried /\ Clean(s)' => rest = <<>>
    <3> SUFFICES ASSUME ~retried, Clean(s)' PROVE rest = <<>> OBVIOUS
    <3>1. <<s, "short">> \notin faults' BY <1>6 DEF Clean
    <3>2. w = Len(bytes) BY <3>1, <2>1, <1>1, <1>3, <1>9
    <3> QED BY <3>2, <1>1, SubSeqEmpty
  <2>4. Written(s, front, rest, w, retried)
    BY <2>2, <2>3, <1>3, <1>5, <1>7, <1>9 DEF Written
  <2> HIDE DEF front
  <2> QED BY <2>2, <2>4
<1> QED BY <1>8, <1>9

\* What fflush and the flushes inside a call do: what stdout had taken has lost
\* its end if the write was left undone.
Flushed(w) ==
  /\ buffer_' = buffer_ /\ buffer_index_' = 0
  /\ file' \in [Streams -> Seq(Chars)] /\ file'["stderr"] = file["stderr"]
  /\ failed' = (failed \/ w < 0) /\ failed' \in BOOLEAN
  /\ faults \subseteq faults' /\ faults' \subseteq Streams \X {"short", "error"}
  /\ w < 0 => ~Clean("stdout")'
  /\ \E rest \in Seq(Chars) :
       /\ taken("stdout") = taken("stdout")' \o rest /\ taken("stdout")' \in Seq(Chars)
       /\ Clean("stdout")' => rest = <<>>

\* A flush moves the buffer to the file, and the buffer holds nothing of it any
\* more.
LEMMA FlushEffect ==
  ASSUME TypeOK, NEW w \in results(buffer_index_), flush(w)
  PROVE  Flushed(w)
<1>1. buffered \in Seq(Chars) /\ Len(buffered) = buffer_index_ BY BufferedSeq
<1>2. /\ buffer_' = buffer_ /\ buffer_index_' = 0
      /\ write("stdout", buffered, w, FALSE)
  BY DEF flush
<1>3. "stdout" \in Streams /\ FALSE \in BOOLEAN BY StreamKinds
<1>4. PICK q : q = buffered OBVIOUS
<1>5. q \in Seq(Chars) /\ w \in results(Len(q)) /\ write("stdout", q, w, FALSE)
  BY <1>1, <1>2, <1>4
<1>6. PICK front, rest \in Seq(Chars) :
        q = front \o rest /\ Written("stdout", front, rest, w, FALSE)
  BY <1>3, <1>5, WriteEffect
<1>7. buffered' = <<>>
  <2>1. SubSeq(buffer_, 1, 0) = <<>> BY SubSeqEmpty
  <2> QED BY <2>1, <1>2 DEF buffered
<1>8. /\ file["stdout"] \in Seq(Chars) /\ file'["stdout"] = file["stdout"] \o front
      /\ file'["stderr"] = file["stderr"]
      /\ taken("stdout") = file["stdout"] \o q
  BY <1>4, <1>6, TakenIs, StreamKinds DEF Written
<1>9. taken("stdout")' = file["stdout"] \o front /\ taken("stdout")' \in Seq(Chars)
  <2>1. taken("stdout")' = file'["stdout"] \o buffered' BY StreamKinds DEF taken
  <2>2. file["stdout"] \o front \in Seq(Chars) BY <1>8, Joins
  <2>3. (file["stdout"] \o front) \o <<>> = file["stdout"] \o front BY <2>2, Joins
  <2> QED BY <2>1, <2>2, <2>3, <1>7, <1>8
<1>10. taken("stdout") = taken("stdout")' \o rest
  <2>1. file["stdout"] \o (front \o rest) = (file["stdout"] \o front) \o rest
    BY <1>8, Joins
  <2> QED BY <2>1, <1>6, <1>8, <1>9
<1>11. Clean("stdout")' => rest = <<>> BY <1>6 DEF Written
<1> QED BY <1>2, <1>6, <1>8, <1>9, <1>10, <1>11 DEF Flushed, Written

\* Bytes that fit are put behind those in use, which stay.
LEMMA AppendEffect ==
  ASSUME TypeOK, NEW bytes \in Seq(Chars), buffer_index_ + Len(bytes) <= BUFFER_SIZE,
         append(bytes)
  PROVE  /\ buffer_' \in [1 .. BUFFER_SIZE -> Chars]
         /\ buffer_index_' \in 0 .. BUFFER_SIZE
         /\ buffered' = buffered \o bytes
<1>1. /\ Len(bytes) \in Nat /\ DOMAIN bytes = 1 .. Len(bytes)
      /\ \A k \in 1 .. Len(bytes) : bytes[k] \in Chars
  <2>1. Len(bytes) \in Nat /\ DOMAIN bytes = 1 .. Len(bytes) BY LenProperties
  <2> QED BY <2>1, ElementOfSeq
<1>2. /\ BUFFER_SIZE \in Nat /\ buffer_index_ \in Nat
      /\ buffer_ \in [1 .. BUFFER_SIZE -> Chars]
  BY StdioConstants DEF TypeOK
<1>3. /\ buffer_index_' = buffer_index_ + Len(bytes)
      /\ buffer_' \in [1 .. BUFFER_SIZE -> Chars]
      /\ \A k \in 1 .. BUFFER_SIZE :
           buffer_'[k] = IF k - buffer_index_ \in 1 .. Len(bytes)
                         THEN bytes[k - buffer_index_] ELSE buffer_[k]
  BY <1>1, <1>2 DEF append
<1>4. buffer_index_' \in 0 .. BUFFER_SIZE BY <1>1, <1>2, <1>3
<1>5. /\ buffered \in Seq(Chars) /\ Len(buffered) = buffer_index_
      /\ \A k \in 1 .. buffer_index_ : buffered[k] = buffer_[k]
  BY BufferedSeq
<1>6. /\ buffered' \in Seq(Chars) /\ Len(buffered') = buffer_index_'
      /\ \A k \in 1 .. buffer_index_' : buffered'[k] = buffer_'[k]
  <2>1. buffer_index_' \in Nat /\ \A k \in 1 .. buffer_index_' : buffer_'[k] \in Chars
    BY <1>2, <1>3, <1>4
  <2> QED BY <2>1, FirstElements DEF buffered
<1>7. /\ buffered \o bytes \in Seq(Chars)
      /\ Len(buffered \o bytes) = Len(buffered) + Len(bytes)
      /\ \A k \in 1 .. Len(buffered) + Len(bytes) :
           (buffered \o bytes)[k] = IF k <= Len(buffered) THEN buffered[k]
                                    ELSE bytes[k - Len(buffered)]
  BY <1>5, ConcatProperties
<1>8. ASSUME NEW k \in 1 .. Len(buffered') PROVE buffered'[k] = (buffered \o bytes)[k]
  <2>1. k \in 1 .. buffer_index_ + Len(bytes) /\ k \in 1 .. BUFFER_SIZE /\ k \in Int
    BY <1>1, <1>2, <1>3, <1>6
  <2>2. buffered'[k] = buffer_'[k] BY <1>6
  <2>3. CASE k <= buffer_index_
    <3>1. k - buffer_index_ \notin 1 .. Len(bytes) BY <2>1, <2>3, <1>2
    <3>2. buffer_'[k] = buffer_[k] BY <3>1, <2>1, <1>3
    <3>3. buffered[k] = buffer_[k] BY <2>1, <2>3, <1>5
    <3>4. (buffered \o bytes)[k] = buffered[k] BY <2>1, <2>3, <1>5, <1>7
    <3> QED BY <2>2, <3>2, <3>3, <3>4
  <2>4. CASE ~(k <= buffer_index_)
    <3>1. k - buffer_index_ \in 1 .. Len(bytes) BY <2>1, <2>4, <1>1, <1>2
    <3>2. buffer_'[k] = bytes[k - buffer_index_] BY <3>1, <2>1, <1>3
    <3>3. (buffered \o bytes)[k] = bytes[k - buffer_index_] BY <2>1, <2>4, <1>5, <1>7
    <3> QED BY <2>2, <3>2, <3>3
  <2> QED BY <2>3, <2>4
<1>9. Len(buffered') = Len(buffered \o bytes) BY <1>3, <1>5, <1>6, <1>7
<1>10. buffered' = buffered \o bytes BY <1>6, <1>7, <1>8, <1>9, SeqEqual
<1> QED BY <1>3, <1>4, <1>10


\* When some are in use and the rest may be lost, what follows is in order.
LEMMA FlushDrops ==
  ASSUME NEW x \in Seq(Chars), NEW r \in Seq(Chars), NEW p \in Seq(Chars), NEW clean,
         clean => r = <<>>
  PROVE  Drops((x \o r) \o p, x \o p, clean)
<1>1. (x \o r) \o p = x \o (r \o p) BY Joins
<1> QED BY <1>1 DEF Drops

-----------------------------------------------------------------------------
(* The actions                                                             *)

\* What a call that returns says of its writes.
ReportStep == ~idle /\ idle' => (ret' <=> ~failed')

\* The characters of a new string.
LEMMA FreshSeq ==
  ASSUME TypeOK, NEW s \in Streams, NEW n \in Nat, in_bound(n)
  PROVE  fresh(s, n) \in Seq(Chars)
<1>1. /\ Len(sent["stdout"]) \in Nat /\ Len(sent["stderr"]) \in Nat
      /\ s = "stdout" \/ s = "stderr"
  <2>1. sent["stdout"] \in Seq(Chars) /\ sent["stderr"] \in Seq(Chars)
    BY StreamKinds DEF TypeOK
  <2> QED BY <2>1, StreamKinds, Joins
<1>2. Len(sent["stdout"]) + Len(sent["stderr"]) + n <= MaxSent /\ MaxSent \in Nat
  BY StdioConstants DEF in_bound
<1>3. PICK l : l = Len(sent[s]) OBVIOUS
<1>4. l \in Nat /\ l + n <= MaxSent
  <2>1. PICK a, b : a = Len(sent["stdout"]) /\ b = Len(sent["stderr"]) OBVIOUS
  <2>2. a \in Nat /\ b \in Nat /\ a + b + n <= MaxSent /\ (l = a \/ l = b)
    BY <2>1, <1>1, <1>2, <1>3
  <2>3. n \in Nat /\ MaxSent \in Nat BY <1>2
  <2> QED BY ONLY <2>2, <2>3
<1>5. ASSUME NEW j \in 1 .. n PROVE 100 + l + j \in Chars
  <2>1. 100 + l + j \in 100 .. 100 + MaxSent BY <1>2, <1>4
  <2> QED BY <2>1 DEF Chars
<1>6. fresh(s, n) \in [1 .. n -> Chars] BY <1>3, <1>5 DEF fresh
<1> QED BY <1>6, SeqDef

\* A call begins: what it is to write is pending.
LEMMA CallBegins ==
  ASSUME StreamsInv, idle, NEW s \in Streams, NEW q \in Seq(Chars), Call(io'),
         io'.op # "none", io'.out = s, Pending(s)' = q,
         sent' = [sent EXCEPT ![s] = @ \o q], failed' = FALSE,
         UNCHANGED <<buffer_, buffer_index_, file, ret, faults>>
  PROVE  StreamsInv' /\ ReportStep
<1>1. TypeOK /\ Call(io) BY DEF StreamsInv
<1>2. sent[s] \in Seq(Chars) /\ sent[s] \o q \in Seq(Chars)
  <2>1. sent[s] \in Seq(Chars) BY <1>1 DEF TypeOK
  <2> QED BY <2>1, Joins
<1>3. /\ sent' \in [Streams -> Seq(Chars)] /\ sent'[s] = sent[s] \o q
      /\ \A t \in Streams \ {s} : sent'[t] = sent[t]
  BY <1>1, <1>2 DEF TypeOK
<1>4. TypeOK' BY <1>1, <1>3 DEF TypeOK, Call
<1>5. ASSUME NEW t \in Streams
      PROVE  /\ Whole(t) \in Seq(Chars) /\ sent[t] \in Seq(Chars)
             /\ Within(Whole(t), sent[t]) /\ (Clean(t)' => sent[t] = Whole(t))
             /\ Whole(t)' = IF t = s THEN Whole(t) \o q ELSE Whole(t)
  <2>1. taken(t) \in Seq(Chars) /\ Whole(t) \in Seq(Chars) BY <1>1, TakenSeq
  <2>2. Whole(t) = taken(t)
    <3>1. Pending(t) = <<>> BY NoCall
    <3> QED BY <3>1, <2>1, Joins DEF Whole
  <2>3. taken(t)' = taken(t) BY DEF taken, buffered
  <2>4. Pending(t)' = IF t = s THEN q ELSE <<>> BY DEF Pending
  <2>5. Whole(t)' = IF t = s THEN Whole(t) \o q ELSE Whole(t)
    <3>1. taken(t) \o <<>> = taken(t) BY <2>1, Joins
    <3>2. Whole(t)' = taken(t)' \o Pending(t)' BY DEF Whole
    <3> QED BY <3>1, <3>2, <2>2, <2>3, <2>4
  <2>6. Clean(t)' => Clean(t) BY DEF Clean
  <2>7. sent[t] \in Seq(Chars) BY <1>1 DEF TypeOK
  <2> QED BY <2>1, <2>5, <2>6, <2>7 DEF StreamsInv
<1>6. ASSUME NEW t \in Streams PROVE Within(Whole(t)', sent'[t])
  <2>1. PICK w : w = Whole(t) OBVIOUS
  <2>2. w \in Seq(Chars) /\ Within(w, sent[t]) /\ sent[t] \in Seq(Chars) BY <1>5, <2>1
  <2>3. Within(w \o q, sent[t] \o q) BY <2>2, WithinExtended
  <2> QED BY <2>1, <2>2, <2>3, <1>3, <1>5
<1>7. ASSUME NEW t \in Streams, Clean(t)' PROVE sent'[t] = Whole(t)'
  BY <1>3, <1>5, <1>7
<1>8. ~idle' BY NoCall DEF idle
<1> QED BY <1>4, <1>6, <1>7, <1>8 DEF StreamsInv, ReportStep

LEMMA FputsKept ==
  ASSUME StreamsInv, NEW s \in Streams, NEW n \in Nat, in_bound(n), fputs(s, n)
  PROVE  StreamsInv' /\ ReportStep
<1>1. TypeOK /\ idle BY DEF StreamsInv, fputs
<1>2. PICK q : q = fresh(s, n) OBVIOUS
<1>3. q \in Seq(Chars) BY <1>1, <1>2, FreshSeq
<1>4. /\ io' = [no_call EXCEPT !.op = "bytes", !.out = s, !.str = q]
      /\ sent' = [sent EXCEPT ![s] = @ \o q] /\ failed' = FALSE
      /\ UNCHANGED <<buffer_, buffer_index_, file, ret, faults>>
  BY <1>2 DEF fputs
<1>5. io' = [op |-> "bytes", out |-> s, str |-> q, v |-> 0] BY <1>4 DEF no_call
<1>6. 0 \in INT_MIN .. INT_MAX
  <2>1. /\ enc_span \in Nat /\ enc_span > 1
        /\ INT_MIN = -(4 * enc_span) /\ INT_MAX = 4 * enc_span - 1
    BY WordSizes
  <2> QED BY <2>1
<1>7. Call(io') /\ io'.op # "none" /\ io'.out = s /\ io'.op = "bytes" /\ io'.str = q
  BY <1>3, <1>5, <1>6 DEF Call
<1>8. Pending(s)' = q BY <1>7 DEF Pending
<1> QED BY <1>1, <1>3, <1>4, <1>7, <1>8, CallBegins

\* fputi is given a number that is no encoded suffix.
LEMMA FputiKept ==
  ASSUME StreamsInv, NEW s \in Streams, NEW i \in Ints, fputi(s, i)
  PROVE  StreamsInv' /\ ReportStep
<1>1. idle BY DEF fputi
<1>2. i \in INT_MIN + enc_span + 1 .. INT_MAX BY StdioConstants
<1>3. i \in INT_MIN .. INT_MAX /\ ~is_encoded(i, TRUE) /\ i \in Int
  <2>1. /\ enc_span \in Nat /\ enc_span > 1
        /\ INT_MIN = -(4 * enc_span) /\ INT_MAX = 4 * enc_span - 1
    BY WordSizes
  <2> QED BY <2>1, <1>2 DEF is_encoded, signed_is_encoded
<1>4. Meaningful(i, 10, TRUE) /\ Stands(i, 10, TRUE) = text(i, 10)
  BY <1>3 DEF Meaningful, Stands
<1>5. PICK q : q = text(i, 10) OBVIOUS
<1>6. q \in Seq(Chars) BY <1>4, <1>5, StandsChars
<1>7. /\ io' = [no_call EXCEPT !.op = "int", !.out = s, !.v = i]
      /\ sent' = [sent EXCEPT ![s] = @ \o q] /\ failed' = FALSE
      /\ UNCHANGED <<buffer_, buffer_index_, file, ret, faults>>
  BY <1>5 DEF fputi
<1>8. io' = [op |-> "int", out |-> s, str |-> <<>>, v |-> i] BY <1>7 DEF no_call
<1>9. Call(io') /\ io'.op # "none" /\ io'.out = s /\ io'.op = "int" /\ io'.v = i
  BY <1>3, <1>4, <1>8, Joins DEF Call
<1>10. Pending(s)' = q BY <1>4, <1>5, <1>9 DEF Pending
<1> QED BY <1>1, <1>6, <1>7, <1>9, <1>10, CallBegins

\* A call goes on with another string or number, for the same stream.
LEMMA CallGoesOn ==
  ASSUME Call(io), ~idle, NEW c, Call(c), c.op = io.op, c.out = io.out, io' = c
  PROVE  /\ Call(io') /\ ~idle'
         /\ \A s \in Streams \ {io.out} : Pending(s) = <<>> /\ Pending(s)' = <<>>
<1>1. io.op # "none" BY DEF Call, idle
<1>2. ~idle' BY <1>1, NoCall DEF idle
<1> QED BY <1>2 DEF Pending

\* The flush leaves in order what it does not lose.
LEMMA FlushedDrops ==
  ASSUME TypeOK, Call(io), NEW w, Flushed(w), NEW p \in Seq(Chars),
         Pending("stderr")' = Pending("stderr"), Pending("stdout")' = p,
         p = Pending("stdout") \/ (p = <<>> /\ ~Clean("stdout")')
  PROVE  \A s \in Streams : Drops(Whole(s), Whole(s)', Clean(s)')
<1>1. Drops(Whole("stderr"), Whole("stderr")', Clean("stderr")')
  <2>1. taken("stderr")' = taken("stderr") BY StreamKinds DEF taken, Flushed
  <2>2. Whole("stderr")' = Whole("stderr") BY <2>1 DEF Whole
  <2>3. Whole("stderr") \in Seq(Chars) BY TakenSeq, StreamKinds
  <2> QED BY <2>2, <2>3, NothingDropped
<1>2. PICK rest \in Seq(Chars) :
        /\ taken("stdout") = taken("stdout")' \o rest /\ taken("stdout")' \in Seq(Chars)
        /\ Clean("stdout")' => rest = <<>>
  BY DEF Flushed
<1>3. PICK x, q : x = taken("stdout")' /\ q = Pending("stdout") OBVIOUS
<1>4. x \in Seq(Chars) /\ q \in Seq(Chars) BY <1>2, <1>3, TakenSeq, StreamKinds
<1>5. Whole("stdout") = (x \o rest) \o q /\ Whole("stdout")' = x \o p
  BY <1>2, <1>3 DEF Whole
<1>6. CASE p = q
  <2>1. Drops((x \o rest) \o q, x \o q, Clean("stdout")') BY <1>2, <1>4, FlushDrops
  <2> QED BY <2>1, <1>1, <1>5, <1>6, StreamKinds
<1>7. CASE p = <<>> /\ ~Clean("stdout")'
  <2>1. (x \o rest) \o q = x \o ((rest \o q) \o <<>>)
    <3>1. rest \o q \in Seq(Chars) BY <1>4, Joins
    <3>2. (rest \o q) \o <<>> = rest \o q BY <3>1, Joins
    <3> QED BY <3>2, <1>4, Joins
  <2>2. rest \o q \in Seq(Chars) /\ <<>> \in Seq(Chars) BY <1>4, Joins
  <2>3. Drops(Whole("stdout"), Whole("stdout")', Clean("stdout")')
    BY <2>1, <2>2, <1>4, <1>5, <1>7 DEF Drops
  <2> QED BY <2>3, <1>1, StreamKinds
<1> QED BY <1>3, <1>6, <1>7

\* A flush inside a call, which goes on or fails.
LEMMA FlushStep ==
  ASSUME StreamsInv, ~idle, io.out = "stdout", sent' = sent,
         NEW w \in results(buffer_index_), flush(w), proceed(w, io)
  PROVE  StreamsInv' /\ ReportStep
<1>1. TypeOK /\ Call(io) /\ ~failed BY DEF StreamsInv
<1>2. Flushed(w) BY <1>1, FlushEffect
<1>3. Pending("stderr") = <<>> BY DEF Pending
<1>4. ASSUME Call(io'), ret' \in BOOLEAN PROVE TypeOK'
  BY <1>1, <1>2, <1>4, StdioConstants, SMTT(40) DEF TypeOK, Call, Flushed
<1>5. faults \subseteq faults' BY <1>2 DEF Flushed
<1>6. CASE w < 0
  <2>1. io' = no_call /\ ret' = FALSE BY <1>6 DEF proceed, return
  <2>2. idle' /\ Call(io') BY <2>1, NoCall DEF idle
  <2>3. TypeOK' BY <2>1, <2>2, <1>4
  <2>4. Pending("stderr")' = <<>> /\ Pending("stdout")' = <<>>
    BY <2>2, NoCallNext, StreamKinds
  <2>5. failed' /\ ~Clean("stdout")' BY <1>2, <1>6 DEF Flushed
  <2>6. \A s \in Streams : Drops(Whole(s), Whole(s)', Clean(s)')
    <3>1. <<>> \in Seq(Chars) BY Joins
    <3> QED BY <3>1, <2>4, <2>5, <1>1, <1>2, <1>3, FlushedDrops
  <2>7. StreamsInv' BY <2>2, <2>3, <2>6, <1>5, BorderMoves
  <2> QED BY <2>1, <2>5, <2>7 DEF ReportStep
<1>7. CASE ~(w < 0)
  <2>1. io' = io /\ ret' = ret BY <1>7 DEF proceed
  <2>2. ~idle' /\ Call(io') BY <2>1, <1>1 DEF idle
  <2>3. TypeOK' BY <2>1, <2>2, <1>1, <1>4 DEF TypeOK
  <2>4. Pending("stderr")' = Pending("stderr") /\ Pending("stdout")' = Pending("stdout")
    BY <2>1 DEF Pending
  <2>5. ~failed' BY <1>1, <1>2, <1>7 DEF Flushed
  <2>6. \A s \in Streams : Drops(Whole(s), Whole(s)', Clean(s)')
    <3>1. Pending("stdout") \in Seq(Chars) BY <1>1, TakenSeq, StreamKinds
    <3> QED BY <3>1, <2>4, <1>1, <1>2, FlushedDrops
  <2>7. StreamsInv' BY <2>2, <2>3, <2>5, <2>6, <1>5, BorderMoves
  <2> QED BY <2>2, <2>7 DEF ReportStep
<1> QED BY <1>6, <1>7

\* A chunk of what is pending is put into the buffer.
LEMMA CopyStep ==
  ASSUME TypeOK, Call(io), io.out = "stdout", NEW bytes \in Seq(Chars),
         NEW later \in Seq(Chars), Pending("stdout") = bytes \o later,
         buffer_index_ + Len(bytes) <= BUFFER_SIZE, append(bytes),
         Pending("stdout")' = later, Pending("stderr")' = <<>>
  PROVE  \A s \in Streams : Drops(Whole(s), Whole(s)', Clean(s)')
<1>1. buffered' = buffered \o bytes BY AppendEffect
<1>2. file' = file BY DEF append
<1>3. Pending("stderr") = <<>> BY DEF Pending
<1>4. Whole("stderr")' = Whole("stderr")
  <2>1. taken("stderr")' = taken("stderr") BY <1>2, StreamKinds DEF taken
  <2> QED BY <2>1, <1>3 DEF Whole
<1>5. Whole("stdout")' = Whole("stdout")
  <2>1. PICK x, b : x = file["stdout"] /\ b = buffered OBVIOUS
  <2>2. x \in Seq(Chars) /\ b \in Seq(Chars) BY <2>1, TakenIs, BufferedSeq
  <2>3. Whole("stdout") = (x \o b) \o (bytes \o later) BY <2>1, TakenIs DEF Whole
  <2>4. Whole("stdout")' = (x \o (b \o bytes)) \o later
    BY <2>1, <1>1, <1>2, StreamKinds DEF Whole, taken
  <2>5. (x \o (b \o bytes)) \o later = (x \o b) \o (bytes \o later)
    <3>1. /\ x \in Seq(Chars) /\ b \in Seq(Chars)
          /\ bytes \in Seq(Chars) /\ later \in Seq(Chars)
      BY <2>2
    <3>2. x \o (b \o bytes) = (x \o b) \o bytes BY ONLY <3>1, Associative
    <3>3. PICK y : y = x \o b OBVIOUS
    <3>4. y \in Seq(Chars) BY <3>1, <3>3, Joins
    <3>5. (y \o bytes) \o later = y \o (bytes \o later) BY ONLY <3>1, <3>4, Associative
    <3> QED BY <3>2, <3>3, <3>5
  <2> QED BY <2>3, <2>4, <2>5
<1>6. ASSUME NEW s \in Streams PROVE Whole(s) \in Seq(Chars) /\ Whole(s)' = Whole(s)
  BY <1>4, <1>5, TakenSeq, StreamKinds
<1> QED BY <1>6, NothingDropped

\* A part of what is pending is written to stderr, of which the write may leave
\* the rest undone: m is lost, b is what is pending then.
LEMMA WriteStep ==
  ASSUME TypeOK, Call(io), io.out = "stderr", buffer_' = buffer_,
         buffer_index_' = buffer_index_,
         NEW front, NEW rest, NEW w, NEW retried, NEW later \in Seq(Chars),
         Written("stderr", front, rest, w, retried),
         Pending("stderr") = (front \o rest) \o later,
         NEW m \in Seq(Chars), NEW b \in Seq(Chars), rest \o later = m \o b,
         Clean("stderr")' => m = <<>>,
         Pending("stderr")' = b, Pending("stdout")' = <<>>
  PROVE  \A s \in Streams : Drops(Whole(s), Whole(s)', Clean(s)')
<1>1. /\ front \in Seq(Chars) /\ rest \in Seq(Chars)
      /\ file'["stderr"] = file["stderr"] \o front /\ file'["stdout"] = file["stdout"]
  BY StreamKinds DEF Written
<1>2. Drops(Whole("stdout"), Whole("stdout")', Clean("stdout")')
  <2>1. Pending("stdout") = <<>> BY DEF Pending
  <2>2. taken("stdout")' = taken("stdout") BY <1>1, StreamKinds DEF taken, buffered
  <2>3. Whole("stdout")' = Whole("stdout") BY <2>1, <2>2 DEF Whole
  <2>4. Whole("stdout") \in Seq(Chars) BY TakenSeq, StreamKinds
  <2> QED BY <2>3, <2>4, NothingDropped
<1>3. PICK x : x = file["stderr"] OBVIOUS
<1>4. x \in Seq(Chars) /\ x \o front \in Seq(Chars) BY <1>1, <1>3, TakenIs, Joins
<1>5. Whole("stderr") = x \o ((front \o rest) \o later) BY <1>3, TakenIs DEF Whole
<1>6. Whole("stderr")' = (x \o front) \o b
  <2>1. taken("stderr")' = file'["stderr"] \o <<>> BY StreamKinds DEF taken
  <2> QED BY <2>1, <1>1, <1>3, <1>4, Joins, ZenonT(60) DEF Whole
<1>7. x \o ((front \o rest) \o later) = (x \o front) \o (m \o b)
  <2>1. (front \o rest) \o later = front \o (rest \o later) BY <1>1, Associative, ZenonT(60)
  <2>2. PICK u : u = m \o b OBVIOUS
  <2>3. u \in Seq(Chars) BY <2>2, Joins
  <2>4. x \in Seq(Chars) /\ front \in Seq(Chars) /\ u \in Seq(Chars) BY <2>3, <1>1, <1>4
  <2>5. (x \o front) \o u = x \o (front \o u) BY ONLY <2>4, Associative, SMTT(40)
  <2> QED BY <2>1, <2>2, <2>5
<1>8. Drops(Whole("stderr"), Whole("stderr")', Clean("stderr")')
  BY <1>4, <1>5, <1>6, <1>7 DEF Drops
<1> QED BY <1>2, <1>8, StreamKinds

\* A write of fput_bytes on stderr, whose count decides where it goes on.
LEMMA UnbufferedKept ==
  ASSUME StreamsInv, put_unbuffered
  PROVE  StreamsInv' /\ ReportStep
<1>1. /\ TypeOK /\ Call(io) /\ io.op = "bytes" /\ io.out = "stderr"
      /\ io.str \in Seq(Chars) /\ io.out \in Streams
  BY StreamKinds DEF StreamsInv, put_unbuffered, Call, unbuffered
<1>2. ~idle /\ ~failed BY <1>1, NoCall DEF StreamsInv, idle
<1>3. PICK bytes : bytes = io.str OBVIOUS
<1>4. PICK w \in results(Len(bytes)) :
        /\ write("stderr", bytes, w, TRUE)
        /\ proceed(w, [io EXCEPT !.str = SubSeq(@, w + 1, Len(@))])
  BY <1>1, <1>3 DEF put_unbuffered
<1>5. UNCHANGED <<buffer_, buffer_index_, sent>> BY DEF put_unbuffered
<1>6. "stderr" \in Streams /\ TRUE \in BOOLEAN /\ bytes \in Seq(Chars)
  BY <1>1, <1>3, StreamKinds
<1>7. PICK front, rest \in Seq(Chars) :
        /\ bytes = front \o rest /\ Written("stderr", front, rest, w, TRUE)
        /\ ~(w < 0) => rest = SubSeq(bytes, w + 1, Len(bytes))
  BY <1>1, <1>4, <1>6, WriteEffect
<1>8. Pending("stderr") = (front \o rest) \o <<>> /\ <<>> \in Seq(Chars)
      /\ rest \o <<>> = rest /\ <<>> \o rest = rest
  BY <1>1, <1>3, <1>6, <1>7, Joins DEF Pending
<1>9. ASSUME Call(io'), ret' \in BOOLEAN PROVE TypeOK'
  BY <1>1, <1>5, <1>7, <1>9 DEF TypeOK, Call, Written
<1>10. faults \subseteq faults' /\ failed' = (failed \/ w < 0) /\ (w < 0 => ~Clean("stderr")')
  BY <1>7 DEF Written
<1>11. CASE w < 0
  <2>1. io' = no_call /\ ret' = FALSE BY <1>4, <1>11 DEF proceed, return
  <2>2. idle' /\ Call(io') BY <2>1, NoCall DEF idle
  <2>3. TypeOK' BY <2>1, <2>2, <1>9
  <2>4. Pending("stderr")' = <<>> /\ Pending("stdout")' = <<>>
    BY <2>2, NoCallNext, StreamKinds
  <2>5. \A s \in Streams : Drops(Whole(s), Whole(s)', Clean(s)')
    BY <2>4, <1>1, <1>5, <1>7, <1>8, <1>10, <1>11, WriteStep
  <2>6. StreamsInv' BY <2>2, <2>3, <2>5, <1>5, <1>10, BorderMoves
  <2> QED BY <2>1, <2>6, <1>10, <1>11 DEF ReportStep
<1>12. CASE ~(w < 0)
  <2>1. io' = [io EXCEPT !.str = rest] /\ ret' = ret
    BY <1>1, <1>3, <1>4, <1>7, <1>12 DEF proceed, Call
  <2>2. PICK c : c = [io EXCEPT !.str = rest] OBVIOUS
  <2>3. Call(c) /\ c.op = io.op /\ c.out = io.out /\ c.str = rest BY <2>2, <1>1 DEF Call
  <2>4. io' = c BY <2>1, <2>2
  <2>5. /\ Call(io') /\ ~idle'
        /\ \A s \in Streams \ {io.out} : Pending(s) = <<>> /\ Pending(s)' = <<>>
    BY <2>3, <2>4, <1>1, <1>2, CallGoesOn
  <2>6. Pending("stderr")' = rest BY <2>3, <2>4, <1>1 DEF Pending
  <2>7. Pending("stdout")' = <<>> BY <2>5, <1>1, StreamKinds
  <2>8. TypeOK' BY <2>1, <2>5, <1>1, <1>9 DEF TypeOK
  <2>9. ~failed' BY <1>2, <1>10, <1>12
  <2>10. \A s \in Streams : Drops(Whole(s), Whole(s)', Clean(s)')
    BY <2>6, <2>7, <1>1, <1>5, <1>7, <1>8, WriteStep
  <2>11. StreamsInv' BY <2>5, <2>8, <2>9, <2>10, <1>5, <1>10, BorderMoves
  <2> QED BY <2>5, <2>11 DEF ReportStep
<1> QED BY <1>11, <1>12

\* A flush of the full buffer, after which the call goes on or fails.
LEMMA PutFlushKept ==
  ASSUME StreamsInv, put_flush
  PROVE  StreamsInv' /\ ReportStep
<1>1. io.op = "bytes" /\ io.out = "stdout"
  BY StreamKinds DEF StreamsInv, put_flush, Call
<1>2. ~idle BY <1>1, NoCall DEF idle
<1>3. PICK w \in results(buffer_index_) : flush(w) /\ proceed(w, io)
  BY DEF put_flush
<1>4. sent' = sent BY DEF put_flush
<1> QED BY <1>1, <1>2, <1>3, <1>4, FlushStep

\* A chunk is copied behind the bytes in use.
LEMMA PutCopyKept ==
  ASSUME StreamsInv, put_copy
  PROVE  StreamsInv' /\ ReportStep
<1> DEFINE chunk == smaller(BUFFER_SIZE - buffer_index_, Len(io.str))
           front == SubSeq(io.str, 1, chunk)
           rest  == SubSeq(io.str, chunk + 1, Len(io.str))
<1>1. /\ TypeOK /\ Call(io) /\ io.op = "bytes" /\ io.out = "stdout"
      /\ io.str \in Seq(Chars)
  BY StreamKinds DEF StreamsInv, put_copy, Call
<1>2. ~idle /\ ~failed BY <1>1, NoCall DEF StreamsInv, idle
<1>3. /\ append(front) /\ sent' = sent /\ ret' = ret
      /\ io' = [io EXCEPT !.str = SubSeq(@, chunk + 1, Len(@))]
  BY DEF put_copy
<1>4. io' = [io EXCEPT !.str = rest] BY <1>1, <1>3 DEF Call
<1>5. chunk \in 0 .. Len(io.str) /\ buffer_index_ + chunk <= BUFFER_SIZE
  <2>1. Len(io.str) \in Nat BY <1>1, LenProperties
  <2>2. BUFFER_SIZE \in Nat /\ buffer_index_ \in 0 .. BUFFER_SIZE
    BY <1>1, StdioConstants DEF TypeOK
  <2> QED BY <2>1, <2>2 DEF smaller
<1>6. /\ front \in Seq(Chars) /\ Len(front) = chunk
      /\ rest \in Seq(Chars) /\ io.str = front \o rest
  BY <1>1, <1>5, FrontAndRest
<1> HIDE DEF front, rest, chunk
<1>7. PICK f, r : f = front /\ r = rest OBVIOUS
<1>8. f \in Seq(Chars) /\ r \in Seq(Chars) /\ buffer_index_ + Len(f) <= BUFFER_SIZE
  BY <1>5, <1>6, <1>7
<1>9. append(f) BY <1>3, <1>7
<1>10. /\ buffer_' \in [1 .. BUFFER_SIZE -> Chars] /\ buffer_index_' \in 0 .. BUFFER_SIZE
  BY <1>1, <1>8, <1>9, AppendEffect
<1>11. file' = file /\ faults' = faults /\ failed' = failed BY <1>9 DEF append
<1>12. PICK c : c = [io EXCEPT !.str = r] OBVIOUS
<1>13. Call(c) /\ c.op = io.op /\ c.out = io.out /\ c.str = r
  BY <1>1, <1>8, <1>12 DEF Call
<1>14. io' = c BY <1>4, <1>7, <1>12
<1>15. /\ Call(io') /\ ~idle'
       /\ \A s \in Streams \ {io.out} : Pending(s) = <<>> /\ Pending(s)' = <<>>
  BY <1>1, <1>2, <1>13, <1>14, CallGoesOn
<1>16. Pending("stdout") = f \o r /\ Pending("stdout")' = r
  BY <1>1, <1>6, <1>7, <1>13, <1>14 DEF Pending
<1>17. Pending("stderr")' = <<>> BY <1>1, <1>15, StreamKinds
<1>18. TypeOK' BY <1>1, <1>3, <1>10, <1>11, <1>15 DEF TypeOK, Call
<1>19. \A s \in Streams : Drops(Whole(s), Whole(s)', Clean(s)')
  BY <1>1, <1>8, <1>9, <1>16, <1>17, CopyStep
<1>20. StreamsInv' BY <1>2, <1>3, <1>11, <1>15, <1>18, <1>19, BorderMoves
<1> QED BY <1>15, <1>20 DEF ReportStep

\* A step that moves nothing.
LEMMA NothingMoves ==
  ASSUME TypeOK, Call(io), UNCHANGED <<buffer_, buffer_index_, file>>,
         \A s \in Streams : Pending(s)' = Pending(s)
  PROVE  \A s \in Streams : Drops(Whole(s), Whole(s)', Clean(s)')
<1>1. ASSUME NEW s \in Streams PROVE Whole(s)' = Whole(s) /\ Whole(s) \in Seq(Chars)
  <2>1. taken(s)' = taken(s) BY DEF taken, buffered
  <2>2. Whole(s)' = Whole(s) BY <2>1 DEF Whole
  <2> QED BY <2>2, TakenSeq
<1> QED BY <1>1, NothingDropped

\* The call returns when nothing is left of its string.
LEMMA PutReturnKept ==
  ASSUME StreamsInv, put_return
  PROVE  StreamsInv' /\ ReportStep
<1>1. TypeOK /\ Call(io) /\ io.op = "bytes" /\ io.str = <<>>
  BY DEF StreamsInv, put_return
<1>2. /\ io' = no_call /\ ret' = TRUE
      /\ UNCHANGED <<buffer_, buffer_index_, file, sent, faults, failed>>
  BY DEF put_return, return
<1>3. idle' /\ ~idle BY <1>1, <1>2, NoCall DEF idle
<1>4. ~failed /\ ~failed' BY <1>2, <1>3 DEF StreamsInv
<1>5. Call(io') BY <1>2, NoCall
<1>6. TypeOK' BY <1>1, <1>2, <1>5 DEF TypeOK, Call
<1>7. \A s \in Streams : Pending(s)' = Pending(s)
  BY <1>1, <1>3, NoCallNext DEF Pending
<1>8. \A s \in Streams : Drops(Whole(s), Whole(s)', Clean(s)')
  BY <1>1, <1>2, <1>7, NothingMoves
<1>9. StreamsInv' BY <1>2, <1>3, <1>5, <1>6, <1>8, BorderMoves
<1> QED BY <1>2, <1>4, <1>9 DEF ReportStep

\* fflush between calls.
LEMMA FflushKept ==
  ASSUME StreamsInv, NEW s \in Streams, fflush(s)
  PROVE  StreamsInv' /\ ReportStep
<1>1. TypeOK /\ Call(io) /\ idle BY DEF StreamsInv, fflush
<1>2. io' = io /\ sent' = sent BY DEF fflush
<1>3. idle' /\ Call(io') BY <1>1, <1>2 DEF idle
<1>4. \A t \in Streams : Pending(t)' = Pending(t) BY <1>2 DEF Pending
<1>5. CASE unbuffered(s)
  <2>1. UNCHANGED <<buffer_, buffer_index_, file, faults, failed>> /\ ret' = FALSE
    BY <1>5 DEF fflush
  <2>2. TypeOK' BY <2>1, <1>1, <1>2 DEF TypeOK
  <2>3. \A t \in Streams : Drops(Whole(t), Whole(t)', Clean(t)')
    BY <2>1, <1>1, <1>4, NothingMoves
  <2>4. StreamsInv' BY <2>1, <2>2, <2>3, <1>2, <1>3, BorderMoves
  <2> QED BY <2>4, <1>1 DEF ReportStep
<1>6. CASE ~unbuffered(s)
  <2>1. PICK w \in results(buffer_index_) : flush(w) /\ ret' = (w >= 0)
    BY <1>6 DEF fflush
  <2>2. Flushed(w) BY <2>1, <1>1, FlushEffect
  <2>3. TypeOK' BY <2>1, <2>2, <1>1, <1>2, StdioConstants, SMTT(40) DEF TypeOK, Flushed
  <2>4. Pending("stdout") \in Seq(Chars) BY <1>1, TakenSeq, StreamKinds
  <2>5. Pending("stderr")' = Pending("stderr") /\ Pending("stdout")' = Pending("stdout")
    BY <1>4, StreamKinds
  <2>6. \A t \in Streams : Drops(Whole(t), Whole(t)', Clean(t)')
    BY <2>2, <2>4, <2>5, <1>1, FlushedDrops
  <2>7. faults \subseteq faults' BY <2>2 DEF Flushed
  <2>8. StreamsInv' BY <2>3, <2>6, <2>7, <1>2, <1>3, BorderMoves
  <2> QED BY <2>8, <1>1 DEF ReportStep
<1> QED BY <1>5, <1>6

-----------------------------------------------------------------------------
(* The actions of fputi                                                    *)

\* What a conversion that writes does with the word: it is finished, or what is
\* left of it is again a word that itoa understands.
Advances(v, r) ==
  /\ r.out \in Seq(Chars) /\ r.out # <<>>
  /\ IF r.i = 0 THEN Stands(v, 10, TRUE) = r.out
     ELSE /\ Meaningful(r.i, 10, TRUE)
          /\ Stands(v, 10, TRUE) = r.out \o Stands(r.i, 10, TRUE)

LEMMA WritesAdvances ==
  ASSUME NEW v, Meaningful(v, 10, TRUE), NEW size \in Nat \ {0}, NEW r,
         Writes(r, v, size, 10, TRUE)
  PROVE  Advances(v, r) /\ Len(r.out) <= size
<1>1. Stands(v, 10, TRUE) \in Seq(Chars) /\ Stands(v, 10, TRUE) # <<>> BY StandsChars
<1>2. CASE Finishes(r, Stands(v, 10, TRUE), size)
  BY <1>1, <1>2 DEF Finishes, Advances
<1>3. CASE Continues(r, Stands(v, 10, TRUE), size, 10, TRUE)
  <2>1. /\ r.i # 0 /\ Meaningful(r.i, 10, TRUE) /\ Len(r.out) = size
        /\ r.out \in Seq(Alphabet(10))
        /\ r.out \o Stands(r.i, 10, TRUE) = Stands(v, 10, TRUE)
    BY <1>3 DEF Continues
  <2>2. r.out \in Seq(Chars) BY <2>1, DigitsAreChars
  <2>3. r.out # <<>> BY <2>1, EmptySeq
  <2>4. Advances(v, r) BY <2>1, <2>2, <2>3 DEF Advances
  <2>5. Len(r.out) <= size BY <2>1
  <2> QED BY <2>4, <2>5
<1> QED BY <1>2, <1>3 DEF Writes

\* What a call of itoa does: nothing, or it advances.
LEMMA ItoaAdvances ==
  ASSUME NEW v, Meaningful(v, 10, TRUE), NEW size \in Nat \ {0}, NEW r,
         r = itoa(v, size)
  PROVE  IF r.out = <<>> THEN r.i = v /\ size < 2
         ELSE Advances(v, r) /\ Len(r.out) <= size
<1>0. ItoaFits BY StdioConstants
<1>1. /\ Converted(r, v, size, 10, TRUE)
      /\ ~NoRoomForSign(v, size) => Writes(r, v, size, 10, TRUE)
  BY <1>0, ItoaEffect
<1>2. Writes(r, v, size, 10, TRUE) => Advances(v, r) /\ Len(r.out) <= size
  BY WritesAdvances
<1>3. Advances(v, r) => r.out # <<>> BY DEF Advances
<1>4. Refuses(r, v, TRUE) => r.out = <<>> /\ r.i = v BY DEF Refuses, nothing
<1>5. NoRoomForSign(v, size) => size < 2 BY DEF NoRoomForSign
<1> QED BY <1>1, <1>2, <1>3, <1>4, <1>5 DEF Converted

\* A flush inside fputi because the buffer is full, or because a sign and a
\* digit do not fit: the word is as it was.
LEMMA IntFlushKept ==
  ASSUME StreamsInv, int_flush \/ int_refused
  PROVE  StreamsInv' /\ ReportStep
<1>1. /\ TypeOK /\ Call(io) /\ io.op = "int" /\ io.out = "stdout" /\ sent' = sent
  BY StreamKinds DEF StreamsInv, int_flush, int_refused, Call
<1>2. ~idle BY <1>1, NoCall DEF idle
<1>3. CASE int_flush
  <2>1. PICK w \in results(buffer_index_) : flush(w) /\ proceed(w, io)
    BY <1>3 DEF int_flush
  <2> QED BY <2>1, <1>1, <1>2, FlushStep
<1>4. CASE int_refused
  <2>1. PICK r : r = itoa(io.v, BUFFER_SIZE - buffer_index_) OBVIOUS
  <2>2. PICK w \in results(buffer_index_) :
          flush(w) /\ proceed(w, [io EXCEPT !.v = r.i])
    BY <2>1, <1>4 DEF int_refused
  <2>3. r.out = <<>> /\ buffer_index_ # BUFFER_SIZE BY <2>1, <1>4 DEF int_refused
  <2>4. PICK size : size = BUFFER_SIZE - buffer_index_ OBVIOUS
  <2>5. size \in Nat \ {0} BY <2>3, <2>4, <1>1, StdioConstants DEF TypeOK
  <2>6. r.i = io.v
    <3>1. Meaningful(io.v, 10, TRUE) BY <1>1 DEF Call
    <3>2. r = itoa(io.v, size) BY <2>1, <2>4
    <3> QED BY <3>1, <3>2, <2>3, <2>5, ItoaAdvances
  <2>7. [io EXCEPT !.v = r.i] = io BY <2>6, <1>1 DEF Call
  <2> QED BY <2>2, <2>7, <1>1, <1>2, FlushStep
<1> QED BY <1>3, <1>4

\* The word goes on.
LEMMA WordGoesOn ==
  ASSUME Call(io), io.op = "int", NEW v, Meaningful(v, 10, TRUE),
         io' = [io EXCEPT !.v = v]
  PROVE  /\ Call(io') /\ ~idle'
         /\ \A s \in Streams :
              Pending(s)' = IF s = io.out THEN Stands(v, 10, TRUE) ELSE <<>>
<1>1. PICK c : c = [io EXCEPT !.v = v] OBVIOUS
<1>2. v \in INT_MIN .. INT_MAX BY DEF Meaningful
<1>3. Call(c) /\ c.op = io.op /\ c.out = io.out /\ c.v = v BY <1>1, <1>2 DEF Call
<1>4. io' = c BY <1>1
<1>5. ~idle BY NoCall DEF idle
<1>6. Call(io') /\ ~idle' BY <1>3, <1>4, <1>5, CallGoesOn
<1>7. ASSUME NEW s \in Streams
      PROVE  Pending(s)' = IF s = io.out THEN Stands(v, 10, TRUE) ELSE <<>>
  BY <1>3, <1>4 DEF Pending
<1> QED BY <1>6, <1>7

\* Digits are put into the room that is left of the buffer.
LEMMA IntConvertKept ==
  ASSUME StreamsInv, int_convert
  PROVE  StreamsInv' /\ ReportStep
<1>1. PICK size, r : size = BUFFER_SIZE - buffer_index_ /\ r = itoa(io.v, size)
  OBVIOUS
<1>2. /\ TypeOK /\ Call(io) /\ io.op = "int" /\ io.out = "stdout"
      /\ buffer_index_ # BUFFER_SIZE
  BY StreamKinds DEF StreamsInv, int_convert, Call
<1>3. /\ r.out # <<>> /\ append(r.out) /\ sent' = sent
      /\ IF r.i = 0 THEN return(TRUE)
         ELSE io' = [io EXCEPT !.v = r.i] /\ UNCHANGED ret
  BY <1>1 DEF int_convert
<1>4. ~idle /\ ~failed BY <1>2, NoCall DEF StreamsInv, idle
<1>5. BUFFER_SIZE \in Nat /\ buffer_index_ \in 0 .. BUFFER_SIZE
  BY <1>2, StdioConstants DEF TypeOK
<1>6. size \in Nat \ {0} BY <1>1, <1>2, <1>5
<1>7. Meaningful(io.v, 10, TRUE) BY <1>2 DEF Call
<1>8. Advances(io.v, r) /\ Len(r.out) <= size
  BY <1>1, <1>3, <1>6, <1>7, ItoaAdvances
<1>9. PICK f : f = r.out OBVIOUS
<1>10. f \in Seq(Chars) /\ buffer_index_ + Len(f) <= BUFFER_SIZE /\ append(f)
  <2>1. f \in Seq(Chars) /\ append(f) /\ Len(f) <= size
    BY <1>3, <1>8, <1>9 DEF Advances
  <2>2. Len(f) \in Nat BY <2>1, Joins
  <2> QED BY <2>1, <2>2, <1>1, <1>5
<1>11. /\ buffer_' \in [1 .. BUFFER_SIZE -> Chars] /\ buffer_index_' \in 0 .. BUFFER_SIZE
  BY <1>2, <1>10, AppendEffect
<1>12. file' = file /\ faults' = faults /\ failed' = failed BY <1>10 DEF append
<1>13. ASSUME Call(io'), ret' \in BOOLEAN PROVE TypeOK'
  BY <1>2, <1>3, <1>11, <1>12, <1>13 DEF TypeOK, Call
<1>14. Pending("stdout") = Stands(io.v, 10, TRUE) BY <1>2 DEF Pending
<1>15. CASE r.i = 0
  <2>1. io' = no_call /\ ret' = TRUE BY <1>3, <1>15 DEF return
  <2>2. idle' /\ Call(io') BY <2>1, NoCall DEF idle
  <2>3. TypeOK' BY <2>1, <2>2, <1>13
  <2>4. Pending("stderr")' = <<>> /\ Pending("stdout")' = <<>>
    BY <2>2, NoCallNext, StreamKinds
  <2>5. Pending("stdout") = f \o <<>> /\ <<>> \in Seq(Chars)
    BY <1>8, <1>9, <1>10, <1>14, <1>15, Joins DEF Advances
  <2>6. \A s \in Streams : Drops(Whole(s), Whole(s)', Clean(s)')
    BY <2>4, <2>5, <1>2, <1>10, CopyStep
  <2>7. StreamsInv' BY <2>2, <2>3, <2>6, <1>3, <1>12, BorderMoves
  <2> QED BY <2>1, <2>7, <1>4, <1>12 DEF ReportStep
<1>16. CASE r.i # 0
  <2>1. io' = [io EXCEPT !.v = r.i] /\ ret' = ret BY <1>3, <1>16
  <2>2. PICK v : v = r.i OBVIOUS
  <2>3. Meaningful(v, 10, TRUE) /\ Stands(io.v, 10, TRUE) = f \o Stands(v, 10, TRUE)
    BY <2>2, <1>8, <1>9, <1>16 DEF Advances
  <2>4. /\ Call(io') /\ ~idle'
        /\ \A s \in Streams :
             Pending(s)' = IF s = io.out THEN Stands(v, 10, TRUE) ELSE <<>>
    BY <2>1, <2>2, <2>3, <1>2, WordGoesOn
  <2>5. TypeOK' BY <2>1, <2>4, <1>2, <1>13 DEF TypeOK
  <2>6. PICK later : later = Stands(v, 10, TRUE) OBVIOUS
  <2>7. later \in Seq(Chars) BY <2>3, <2>6, StandsChars
  <2>8. /\ Pending("stdout") = f \o later /\ Pending("stdout")' = later
        /\ Pending("stderr")' = <<>>
    BY <2>3, <2>4, <2>6, <1>2, <1>14, StreamKinds
  <2>9. \A s \in Streams : Drops(Whole(s), Whole(s)', Clean(s)')
    BY <2>7, <2>8, <1>2, <1>10, CopyStep
  <2>10. StreamsInv' BY <2>4, <2>5, <2>9, <1>3, <1>4, <1>12, BorderMoves
  <2> QED BY <2>4, <2>10 DEF ReportStep
<1> QED BY <1>15, <1>16

\* fputi on stderr writes what itoa put into tmp, and goes on with the rest of
\* the word whatever the count.
LEMMA IntUnbufferedKept ==
  ASSUME StreamsInv, int_unbuffered
  PROVE  StreamsInv' /\ ReportStep
<1>1. PICK r : r = itoa(io.v, TmpSize) OBVIOUS
<1>2. TypeOK /\ Call(io) /\ io.op = "int" /\ io.out = "stderr"
  BY StreamKinds DEF StreamsInv, int_unbuffered, Call, unbuffered
<1>3. PICK w \in results(Len(r.out)) :
        /\ write("stderr", r.out, w, FALSE)
        /\ IF r.out = <<>> \/ w < 0 \/ r.i = 0
           THEN return(r.out # <<>> /\ w >= 0)
           ELSE io' = [io EXCEPT !.v = r.i] /\ UNCHANGED ret
  BY <1>1, <1>2 DEF int_unbuffered
<1>4. UNCHANGED <<buffer_, buffer_index_, sent>> BY DEF int_unbuffered
<1>5. ~idle /\ ~failed BY <1>2, NoCall DEF StreamsInv, idle
<1>6. Advances(io.v, r)
  <2>1. TmpSize \in Nat \ {0} /\ ~(TmpSize < 2) BY StdioConstants
  <2>2. Meaningful(io.v, 10, TRUE) BY <1>2 DEF Call
  <2> QED BY <2>1, <2>2, <1>1, ItoaAdvances
<1>7. PICK bytes : bytes = r.out OBVIOUS
<1>8. bytes \in Seq(Chars) /\ bytes # <<>> BY <1>6, <1>7 DEF Advances
<1>9. "stderr" \in Streams /\ FALSE \in BOOLEAN BY StreamKinds
<1>10. w \in results(Len(bytes)) /\ write("stderr", bytes, w, FALSE) BY <1>3, <1>7
<1>11. PICK front, rest \in Seq(Chars) :
         bytes = front \o rest /\ Written("stderr", front, rest, w, FALSE)
  BY <1>2, <1>8, <1>9, <1>10, WriteEffect
<1>12. ASSUME Call(io'), ret' \in BOOLEAN PROVE TypeOK'
  BY <1>2, <1>4, <1>11, <1>12 DEF TypeOK, Call, Written
<1>13. /\ faults \subseteq faults' /\ failed' = (failed \/ w < 0)
       /\ w < 0 => ~Clean("stderr")'
       /\ Clean("stderr")' => rest = <<>>
  BY <1>11 DEF Written
<1>14. Pending("stderr") = Stands(io.v, 10, TRUE) BY <1>2 DEF Pending
<1>15. PICK v : v = r.i OBVIOUS
<1>16. PICK later \in Seq(Chars) :
         /\ Pending("stderr") = (front \o rest) \o later
         /\ IF v = 0 THEN later = <<>>
            ELSE Meaningful(v, 10, TRUE) /\ later = Stands(v, 10, TRUE)
  <2>1. CASE v = 0
    <3>1. Stands(io.v, 10, TRUE) = bytes BY <2>1, <1>6, <1>7, <1>15 DEF Advances
    <3>2. bytes = bytes \o <<>> /\ <<>> \in Seq(Chars) BY <1>8, Joins
    <3> QED BY <2>1, <3>1, <3>2, <1>11, <1>14
  <2>2. CASE v # 0
    <3>1. /\ Meaningful(v, 10, TRUE)
          /\ Stands(io.v, 10, TRUE) = bytes \o Stands(v, 10, TRUE)
      BY <2>2, <1>6, <1>7, <1>15 DEF Advances
    <3>2. Stands(v, 10, TRUE) \in Seq(Chars) BY <3>1, StandsChars
    <3> QED BY <2>2, <3>1, <3>2, <1>11, <1>14
  <2> QED BY <2>1, <2>2
<1>17. CASE w < 0 \/ v = 0
  <2>1. /\ io' = no_call /\ ret' = (w >= 0)
    BY <1>3, <1>7, <1>8, <1>15, <1>17 DEF return
  <2>2. idle' /\ Call(io') /\ ret' \in BOOLEAN BY <2>1, NoCall DEF idle
  <2>3. TypeOK' BY <2>2, <1>12
  <2>4. Pending("stderr")' = <<>> /\ Pending("stdout")' = <<>>
    BY <2>2, NoCallNext, StreamKinds
  <2>5. PICK m : m = rest \o later OBVIOUS
  <2>6. m \in Seq(Chars) /\ rest \o later = m \o <<>> /\ <<>> \in Seq(Chars)
    BY <2>5, <1>11, <1>16, Joins
  <2>7. Clean("stderr")' => m = <<>>
    <3> SUFFICES ASSUME Clean("stderr")' PROVE m = <<>> OBVIOUS
    <3>1. rest = <<>> /\ v = 0 /\ later = <<>> BY <1>13, <1>16, <1>17
    <3>2. <<>> \o <<>> = <<>> BY Joins
    <3> QED BY <3>1, <3>2, <2>5
  <2>8. \A s \in Streams : Drops(Whole(s), Whole(s)', Clean(s)')
    BY <2>4, <2>6, <2>7, <1>2, <1>4, <1>11, <1>16, WriteStep
  <2>9. StreamsInv' BY <2>2, <2>3, <2>8, <1>4, <1>13, BorderMoves
  <2>10. ret' <=> ~failed'
    <3>1. w = -1 \/ w \in 0 .. Len(bytes)
      <4>1. Len(bytes) \in Nat BY <1>8, Joins
      <4> QED BY <4>1, <1>10 DEF results
    <3>2. Len(bytes) \in Nat BY <1>8, Joins
    <3>3. (w >= 0) <=> ~(w < 0) BY <3>1, <3>2
    <3> QED BY <3>3, <2>1, <1>5, <1>13
  <2> QED BY <2>9, <2>10 DEF ReportStep
<1>18. CASE ~(w < 0) /\ v # 0
  <2>1. io' = [io EXCEPT !.v = v] /\ ret' = ret BY <1>3, <1>7, <1>8, <1>15, <1>18
  <2>2. Meaningful(v, 10, TRUE) /\ later = Stands(v, 10, TRUE) BY <1>16, <1>18
  <2>3. /\ Call(io') /\ ~idle'
        /\ \A s \in Streams :
             Pending(s)' = IF s = io.out THEN Stands(v, 10, TRUE) ELSE <<>>
    BY <2>1, <2>2, <1>2, WordGoesOn
  <2>4. TypeOK' BY <2>1, <2>3, <1>2, <1>12 DEF TypeOK
  <2>5. Pending("stderr")' = later /\ Pending("stdout")' = <<>>
    BY <2>2, <2>3, <1>2, StreamKinds
  <2>6. \A s \in Streams : Drops(Whole(s), Whole(s)', Clean(s)')
    BY <2>5, <1>2, <1>4, <1>11, <1>13, <1>16, WriteStep
  <2>7. ~failed' BY <1>5, <1>13, <1>18
  <2>8. StreamsInv' BY <2>3, <2>4, <2>6, <2>7, <1>4, <1>13, BorderMoves
  <2> QED BY <2>3, <2>8 DEF ReportStep
<1> QED BY <1>17, <1>18

-----------------------------------------------------------------------------
(* The specification                                                       *)

\* At the start the buffer is empty and nothing has been sent.
LEMMA StreamsInit == Init => StreamsInv
<1> SUFFICES ASSUME Init PROVE StreamsInv
  OBVIOUS
<1>1. /\ buffer_ = [k \in 1 .. BUFFER_SIZE |-> 0] /\ buffer_index_ = 0
      /\ file = [s \in Streams |-> <<>>] /\ sent = [s \in Streams |-> <<>>]
      /\ io = no_call /\ ret = TRUE /\ faults = {} /\ failed = FALSE
  BY DEF Init
<1>2. Call(io) BY <1>1, NoCall
<1>3. TypeOK
  <2>1. 0 \in Chars BY DEF Chars
  <2>2. <<>> \in Seq(Chars) BY Joins
  <2>3. 0 \in 0 .. BUFFER_SIZE BY StdioConstants
  <2> QED BY <2>1, <2>2, <2>3, <1>1, <1>2 DEF TypeOK, Call
<1>4. idle BY <1>1 DEF idle
<1>5. ASSUME NEW s \in Streams PROVE sent[s] = <<>> /\ Whole(s) = <<>>
  <2>1. buffered = <<>>
    <3>1. SubSeq(buffer_, 1, 0) = <<>> BY SubSeqEmpty
    <3> QED BY <3>1, <1>1 DEF buffered
  <2>2. sent[s] = <<>> /\ file[s] = <<>> /\ Pending(s) = <<>> BY <1>1, <1>4, NoCall
  <2>3. <<>> \o <<>> = <<>> BY Joins
  <2>4. taken(s) = <<>> BY <2>1, <2>2, <2>3 DEF taken
  <2> QED BY <2>2, <2>3, <2>4 DEF Whole
<1>6. Within(<<>>, <<>>)
  <2>1. <<>> \in Seq(Chars) BY Joins
  <2> QED BY <2>1, WithinSame
<1> QED BY <1>1, <1>2, <1>3, <1>4, <1>5, <1>6 DEF StreamsInv

\* A step of a call, the beginning of one, or fflush.
LEMMA StreamsMove ==
  ASSUME StreamsInv, step \/ begin \/ \E s \in Streams : fflush(s)
  PROVE  StreamsInv' /\ ReportStep
<1>1. CASE step
  <2>1. CASE put_unbuffered BY <2>1, UnbufferedKept
  <2>2. CASE put_flush BY <2>2, PutFlushKept
  <2>3. CASE put_copy BY <2>3, PutCopyKept
  <2>4. CASE put_return BY <2>4, PutReturnKept
  <2>5. CASE int_unbuffered BY <2>5, IntUnbufferedKept
  <2>6. CASE int_flush \/ int_refused BY <2>6, IntFlushKept
  <2>7. CASE int_convert BY <2>7, IntConvertKept
  <2> QED BY <1>1, <2>1, <2>2, <2>3, <2>4, <2>5, <2>6, <2>7 DEF step
<1>2. CASE begin
  <2>1. PICK s \in Streams :
          \/ \E n \in Lengths : in_bound(n) /\ fputs(s, n)
          \/ \E i \in Ints : in_bound(Len(text(i, 10))) /\ fputi(s, i)
    BY <1>2 DEF begin
  <2>2. ASSUME NEW n \in Lengths, in_bound(n), fputs(s, n)
        PROVE  StreamsInv' /\ ReportStep
    <3>1. n \in Nat BY StdioConstants
    <3> QED BY <3>1, <2>2, FputsKept
  <2>3. ASSUME NEW i \in Ints, fputi(s, i) PROVE StreamsInv' /\ ReportStep
    BY <2>3, FputiKept
  <2> QED BY <2>1, <2>2, <2>3
<1>3. CASE \E s \in Streams : fflush(s) BY <1>3, FflushKept
<1> QED BY <1>1, <1>2, <1>3

LEMMA StreamsNext ==
  ASSUME StreamsInv, [Next]_svars
  PROVE  StreamsInv' /\ (ReportStep \/ UNCHANGED svars)
<1>1. CASE UNCHANGED svars
  <2>1. UNCHANGED <<buffer_, buffer_index_, file, io, ret, sent, faults, failed>>
    BY <1>1 DEF svars
  <2>2. TypeOK /\ Call(io) BY DEF StreamsInv
  <2>3. TypeOK' /\ Call(io') BY <2>1, <2>2 DEF TypeOK
  <2>4. idle' = idle BY <2>1 DEF idle
  <2>5. \A s \in Streams : Pending(s)' = Pending(s) BY <2>1 DEF Pending
  <2>6. \A s \in Streams : Drops(Whole(s), Whole(s)', Clean(s)')
    BY <2>1, <2>2, <2>5, NothingMoves
  <2>7. ~idle' => ~failed' BY <2>1, <2>4 DEF StreamsInv
  <2> QED BY <2>1, <2>3, <2>6, <2>7, <1>1, BorderMoves
<1>2. CASE Next BY <1>2, StreamsMove DEF Next
<1> QED BY <1>1, <1>2

\* The inductive invariant holds whatever the program writes and write does.
THEOREM StreamsInvariance == Spec => []StreamsInv
<1>1. StreamsInv /\ [Next]_svars => StreamsInv' BY StreamsNext
<1> QED BY <1>1, StreamsInit, PTL DEF Spec

\* The buffer of stdout is never overrun, and what itoa leaves in the word is a
\* word of its type.
THEOREM StreamsTyped == Spec => []TypeOK
<1>1. StreamsInv => TypeOK BY DEF StreamsInv
<1> QED BY <1>1, StreamsInvariance, PTL

\* What is pending is what is missing: without a fault a stream has taken a
\* prefix of what the calls sent, and all of it between calls.
LEMMA StreamsDeliver ==
  ASSUME StreamsInv
  PROVE  Delivers
<1>1. SUFFICES ASSUME NEW s \in Streams, \A f \in faults : f[1] # s
               PROVE  IsPrefix(taken(s), sent[s]) /\ (idle => taken(s) = sent[s])
  BY DEF Delivers
<1>2. taken(s) \in Seq(Chars) /\ Pending(s) \in Seq(Chars) BY TakenSeq DEF StreamsInv
<1>3. sent[s] = taken(s) \o Pending(s) BY <1>1 DEF StreamsInv, Clean, Whole
<1>4. IsPrefix(taken(s), sent[s]) BY <1>2, <1>3, PrefixOfConcat
<1>5. idle => taken(s) = sent[s]
  <2>1. taken(s) \o <<>> = taken(s) BY <1>2, Joins
  <2> QED BY <2>1, <1>3, NoCall
<1> QED BY <1>4, <1>5

\* Whatever the sizes, the strings and numbers, and the order of the calls and
\* the flushes, a stream whose writes were completed has every character once
\* and in order.
THEOREM StreamsDelivered == Spec => []Delivers
<1>1. StreamsInv => Delivers BY StreamsDeliver
<1> QED BY <1>1, StreamsInvariance, PTL

\* Also a stream whose writes failed or fell short has no character twice and
\* none before an earlier one.
THEOREM StreamsInOrder == Spec => []NeverRepeats
<1>1. StreamsInv => NeverRepeats
  <2> SUFFICES ASSUME StreamsInv, NEW s \in Streams
               PROVE  IsSubsequence(taken(s), sent[s])
    BY DEF NeverRepeats
  <2>1. PICK x, p, t : x = taken(s) /\ p = Pending(s) /\ t = sent[s] OBVIOUS
  <2>2. x \in Seq(Chars) /\ p \in Seq(Chars) /\ t \in Seq(Chars)
    BY <2>1, TakenSeq DEF StreamsInv, TypeOK
  <2>3. Within(x \o p, t) BY <2>1 DEF StreamsInv, Whole
  <2>4. <<>> \in Seq(Chars) /\ x \o p = x \o (p \o <<>>) /\ x \o <<>> = x
    BY <2>2, Joins
  <2>5. Within(x \o (p \o <<>>), t) BY <2>3, <2>4
  <2>6. Within(x \o <<>>, t) BY <2>2, <2>4, <2>5, WithinDrops
  <2>7. IsSubsequence(x, t) BY <2>2, <2>4, <2>6, WithinIsSubsequence
  <2> QED BY <2>1, <2>7
<1> QED BY <1>1, StreamsInvariance, PTL

\* fputs, fputc and fputi return false if and only if a write of that call
\* failed, those included that flush the bytes of earlier calls.
THEOREM StreamsReport == Spec => ReportsFailure
<1>1. StreamsInv /\ [Next]_svars => [~idle /\ idle' => (ret' <=> ~failed')]_svars
  BY StreamsNext DEF ReportStep
<1> QED BY <1>1, StreamsInvariance, PTL DEF Spec, ReportsFailure
=============================================================================
