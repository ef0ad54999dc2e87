----------------------------- MODULE Induction ------------------------------
(***************************************************************************)
(* Induction over the natural numbers in a form without operator           *)
(* parameters, and what follows from it for functions that are defined     *)
(* from their own earlier values, and for sequences that are put together. *)
(***************************************************************************)
EXTENDS Integers, SequencesExt, SequenceTheorems, WellFoundedInduction, TLAPS

Below == OpToRel(<, Nat)

\* A set of natural numbers has a least member.
LEMMA LeastMember ==
  ASSUME NEW T \in SUBSET Nat, T # {}
  PROVE  \E m \in T : \A k \in T : m <= k
<1>1. IsWellFoundedOn(Below, Nat) BY NatLessThanWellFounded DEF Below
<1>2. PICK x \in T : \A y \in T : ~ (<<y, x>> \in Below) BY <1>1, WFMin
<1>3. ASSUME NEW y \in T PROVE x <= y
  <2>1. x \in Nat /\ y \in Nat OBVIOUS
  <2>2. <<y, x>> \notin Below BY <1>2
  <2>3. <<y, x>> \in Below <=> y < x BY <2>1 DEF OpToRel, Below
  <2> QED BY <2>1, <2>2, <2>3
<1> QED BY <1>3

\* A set that holds 0 and the successor of each of its natural numbers holds
\* every natural number.
LEMMA Induct ==
  ASSUME NEW S, 0 \in S, \A n \in Nat : n \in S => n + 1 \in S
  PROVE  Nat \subseteq S
<1> SUFFICES ASSUME Nat \ S # {} PROVE FALSE OBVIOUS
<1> DEFINE T == Nat \ S
<1>1. T \in SUBSET Nat /\ T # {} OBVIOUS
<1> HIDE DEF T
<1>2. PICK m \in T : \A k \in T : m <= k BY <1>1, LeastMember
<1>3. m \in Nat /\ m # 0 /\ m \notin S BY DEF T
<1>4. m - 1 \in Nat /\ m - 1 \notin T BY <1>2, <1>3
<1>5. m - 1 \in S BY <1>4 DEF T
<1>6. (m - 1) + 1 \in S BY <1>4, <1>5
<1> QED BY <1>3, <1>6

\* The same up to a bound.
LEMMA InductTo ==
  ASSUME NEW S, NEW n \in Nat, 0 \in S,
         \A k \in 0 .. n - 1 : k \in S => k + 1 \in S
  PROVE  0 .. n \subseteq S
<1> DEFINE R == {k \in Nat : k <= n => k \in S}
<1>1. 0 \in R OBVIOUS
<1>2. \A k \in Nat : k \in R => k + 1 \in R OBVIOUS
<1> HIDE DEF R
<1>3. Nat \subseteq R BY <1>1, <1>2, Induct
<1> QED BY <1>3 DEF R

\* g starts at x and takes the steps moves[1] .. moves[n].
Iterated(g, x, moves, n) ==
  \A k \in 0 .. n : g[k] = IF k = 0 THEN x ELSE moves[k][g[k - 1]]

\* Steps can be taken one after the other from any start.
LEMMA Iterates ==
  ASSUME NEW S, NEW x \in S, NEW n \in Nat, NEW moves \in [1 .. n -> [S -> S]]
  PROVE  \E g \in [0 .. n -> S] : Iterated(g, x, moves, n)
<1> DEFINE Good(g, m) == \A k \in 0 .. m : g[k] = IF k = 0 THEN x ELSE moves[k][g[k - 1]]
           R == {m \in Nat : m <= n => \E g \in [0 .. m -> S] : Good(g, m)}
<1>1. 0 \in R
  <2>1. [k \in 0 .. 0 |-> x] \in [0 .. 0 -> S] OBVIOUS
  <2>2. Good([k \in 0 .. 0 |-> x], 0) OBVIOUS
  <2> QED BY <2>1, <2>2
<1>2. ASSUME NEW m \in Nat, m \in R PROVE m + 1 \in R
  <2> SUFFICES ASSUME m + 1 <= n PROVE \E q \in [0 .. m + 1 -> S] : Good(q, m + 1)
    OBVIOUS
  <2>1. PICK g \in [0 .. m -> S] : Good(g, m) BY <1>2
  <2> DEFINE h == [k \in 0 .. m + 1 |-> IF k = m + 1 THEN moves[m + 1][g[m]] ELSE g[k]]
  <2>2. g[m] \in S /\ moves[m + 1] \in [S -> S] /\ moves[m + 1][g[m]] \in S
    <3>1. m \in 0 .. m /\ m + 1 \in 1 .. n OBVIOUS
    <3>2. g[m] \in S /\ moves[m + 1] \in [S -> S] BY <3>1
    <3> QED BY <3>2
  <2>3. h \in [0 .. m + 1 -> S] BY <2>2
  <2>4. ASSUME NEW k \in 0 .. m + 1
        PROVE  h[k] = IF k = 0 THEN x ELSE moves[k][h[k - 1]]
    <3>1. CASE k = m + 1
      <4>1. k - 1 = m /\ h[k - 1] = g[m] /\ k # 0 BY <3>1
      <4> QED BY <3>1, <4>1
    <3>2. CASE k # m + 1
      <4>1. k \in 0 .. m /\ h[k] = g[k] BY <3>2
      <4>2. k # 0 => h[k - 1] = g[k - 1] BY <4>1
      <4> HIDE DEF h
      <4> QED BY <2>1, <4>1, <4>2
    <3> QED BY <3>1, <3>2
  <2> HIDE DEF h
  <2> QED BY <2>3, <2>4
<1>3. Nat \subseteq R
  <2> HIDE DEF R
  <2> QED BY <1>1, <1>2, Induct
<1>4. PICK g \in [0 .. n -> S] : Good(g, n) BY <1>3
<1> QED BY <1>4 DEF Iterated

-----------------------------------------------------------------------------
(* Sequences put together                                                  *)

\* Elements of a sequence put together one after the other.
Accumulates(f, seqs) ==
  f = [i \in 1 .. Len(seqs) |-> IF i = 1 THEN seqs[i] ELSE f[i - 1] \o seqs[i]]

LEMMA FlattenIs ==
  ASSUME NEW seqs, Len(seqs) # 0
  PROVE  FlattenSeq(seqs) = (CHOOSE f : Accumulates(f, seqs))[Len(seqs)]
BY DEF FlattenSeq, Accumulates

LEMMA SomeAccumulates ==
  ASSUME NEW S, NEW seqs \in Seq(Seq(S))
  PROVE  \E f : Accumulates(f, seqs)
<1> DEFINE n == Len(seqs)
           moves == [k \in 1 .. n |-> [s \in Seq(S) |-> s \o seqs[k]]]
<1>1. n \in Nat /\ \A k \in 1 .. n : seqs[k] \in Seq(S) OBVIOUS
<1>2. moves \in [1 .. n -> [Seq(S) -> Seq(S)]] BY <1>1
<1>3. <<>> \in Seq(S) OBVIOUS
<1>4. \A k \in 1 .. n, s \in Seq(S) : moves[k][s] = s \o seqs[k] OBVIOUS
<1> HIDE DEF n, moves
<1>5. PICK g \in [0 .. n -> Seq(S)] : Iterated(g, <<>>, moves, n)
  BY <1>1, <1>2, <1>3, Iterates
<1> DEFINE f == [i \in 1 .. n |-> g[i]]
<1>6. ASSUME NEW i \in 1 .. n
      PROVE  f[i] = IF i = 1 THEN seqs[i] ELSE f[i - 1] \o seqs[i]
  <2>1. i \in 0 .. n /\ i - 1 \in 0 .. n /\ i # 0 BY <1>1
  <2>2. g[i] = g[i - 1] \o seqs[i] /\ g[0] = <<>>
    <3>1. g[i] = moves[i][g[i - 1]] BY <1>5, <2>1 DEF Iterated
    <3>2. g[0] = <<>> BY <1>1, <1>5 DEF Iterated
    <3> QED BY <1>4, <2>1, <3>1, <3>2
  <2>3. CASE i = 1
    <3>1. g[i] = <<>> \o seqs[i]
      <4>1. i - 1 = 0 BY <2>3
      <4> QED BY ONLY <2>2, <4>1
    <3>2. <<>> \o seqs[i] = seqs[i] BY <1>1, ConcatEmptySeq
    <3> QED BY <2>3, <3>1, <3>2
  <2>4. CASE i # 1
    <3>1. i - 1 \in 1 .. n BY <1>1, <2>4
    <3> QED BY <2>2, <2>4, <3>1
  <2> QED BY <2>3, <2>4
<1>7. Accumulates(f, seqs)
  <2>1. f = [i \in 1 .. n |-> IF i = 1 THEN seqs[i] ELSE f[i - 1] \o seqs[i]]
    <3> DEFINE r == [i \in 1 .. n |-> IF i = 1 THEN seqs[i] ELSE f[i - 1] \o seqs[i]]
    <3>1. \A i \in 1 .. n : f[i] = r[i] BY <1>6
    <3>2. f = [i \in 1 .. n |-> f[i]] OBVIOUS
    <3>3. r = [i \in 1 .. n |-> r[i]] OBVIOUS
    <3> HIDE DEF f, r
    <3>4. f = r BY <3>1, <3>2, <3>3
    <3> QED BY <3>4 DEF r
  <2> QED BY <2>1 DEF Accumulates, n
<1> QED BY <1>7

LEMMA FlattenOne ==
  ASSUME NEW S, NEW x \in Seq(S)
  PROVE  FlattenSeq(<<x>>) = x
<1> DEFINE seqs == <<x>>
           f == CHOOSE f : Accumulates(f, seqs)
<1>1. seqs \in Seq(Seq(S)) /\ Len(seqs) = 1 /\ Len(seqs) # 0 /\ seqs[1] = x OBVIOUS
<1> HIDE DEF seqs
<1>2. FlattenSeq(seqs) = f[1] BY <1>1, FlattenIs
<1>3. Accumulates(f, seqs) BY <1>1, SomeAccumulates
<1> HIDE DEF f
<1>4. f[1] = seqs[1] BY <1>1, <1>3 DEF Accumulates
<1> QED BY <1>1, <1>2, <1>4 DEF seqs

LEMMA AccumulatesTyped ==
  ASSUME NEW S, NEW seqs \in Seq(Seq(S)), NEW f, Accumulates(f, seqs)
  PROVE  \A k \in 1 .. Len(seqs) : f[k] \in Seq(S)
<1> DEFINE R == {k \in 0 .. Len(seqs) : k = 0 \/ f[k] \in Seq(S)}
<1>1. Len(seqs) \in Nat /\ \A k \in 1 .. Len(seqs) : seqs[k] \in Seq(S) OBVIOUS
<1>2. 0 \in R BY <1>1
<1>3. ASSUME NEW k \in 0 .. Len(seqs) - 1, k \in R PROVE k + 1 \in R
  <2>1. k + 1 \in 1 .. Len(seqs) /\ k \in Nat BY <1>1
  <2>2. f[k + 1] = IF k + 1 = 1 THEN seqs[k + 1] ELSE f[(k + 1) - 1] \o seqs[k + 1]
    BY <2>1 DEF Accumulates
  <2>3. (k + 1) - 1 = k BY <2>1
  <2>4. f[k + 1] \in Seq(S)
    <3>1. CASE k = 0 BY <1>1, <2>1, <2>2, <3>1
    <3>2. CASE k # 0
      <4>1. f[k] \in Seq(S) BY <1>3, <3>2
      <4>2. k + 1 # 1 BY <2>1, <3>2
      <4>3. f[k + 1] = f[k] \o seqs[k + 1] BY ONLY <2>2, <2>3, <4>2
      <4> QED BY <1>1, <2>1, <4>1, <4>3, ConcatProperties
    <3> QED BY <3>1, <3>2
  <2> QED BY <1>1, <2>1, <2>4
<1> HIDE DEF R
<1>4. 0 .. Len(seqs) \subseteq R BY <1>1, <1>2, <1>3, InductTo
<1>5. ASSUME NEW k \in 1 .. Len(seqs) PROVE f[k] \in Seq(S)
  <2>1. k \in 0 .. Len(seqs) /\ k # 0 BY <1>1
  <2>2. k \in R BY <1>4, <2>1
  <2> QED BY <2>1, <2>2 DEF R
<1> QED BY <1>5

\* What is appended to the elements is appended to them put together.
LEMMA FlattenAppend ==
  ASSUME NEW S, NEW seqs \in Seq(Seq(S)), seqs # <<>>, NEW x \in Seq(S)
  PROVE  /\ FlattenSeq(seqs) \in Seq(S)
         /\ FlattenSeq(Append(seqs, x)) = FlattenSeq(seqs) \o x
<1> DEFINE n  == Len(seqs)
           t  == Append(seqs, x)
           f  == CHOOSE f : Accumulates(f, seqs)
           g  == CHOOSE g : Accumulates(g, t)
<1>1. n \in Nat /\ n # 0 /\ n \in 1 .. n BY EmptySeq
<1>2. t \in Seq(Seq(S)) /\ Len(t) = n + 1 /\ t[n + 1] = x
      /\ \A k \in 1 .. n : t[k] = seqs[k]
  BY AppendProperties
<1>3. Accumulates(f, seqs) /\ FlattenSeq(seqs) = f[n] BY <1>1, SomeAccumulates, FlattenIs
<1>4. Accumulates(g, t) /\ FlattenSeq(t) = g[n + 1]
  <2> HIDE DEF t
  <2>1. Len(t) # 0 BY <1>1, <1>2
  <2> QED BY <1>2, <2>1, SomeAccumulates, FlattenIs
<1> HIDE DEF f, g, t
<1> DEFINE R == {k \in 0 .. n : k = 0 \/ g[k] = f[k]}
<1>5. 0 \in R BY <1>1
<1>6. ASSUME NEW k \in 0 .. n - 1, k \in R PROVE k + 1 \in R
  <2>1. k + 1 \in 1 .. n /\ k + 1 \in 1 .. n + 1 /\ k \in Nat /\ (k + 1) - 1 = k BY <1>1
  <2>2. f[k + 1] = IF k + 1 = 1 THEN seqs[k + 1] ELSE f[(k + 1) - 1] \o seqs[k + 1]
    BY <1>3, <2>1 DEF Accumulates
  <2>3. g[k + 1] = IF k + 1 = 1 THEN t[k + 1] ELSE g[(k + 1) - 1] \o t[k + 1]
    BY <1>2, <1>4, <2>1 DEF Accumulates
  <2>4. t[k + 1] = seqs[k + 1] BY <1>2, <2>1
  <2>5. g[k + 1] = f[k + 1] 
    <3>1. CASE k = 0 BY <2>2, <2>3, <2>4, <3>1
    <3>2. CASE k # 0
      <4>1. g[k] = f[k] BY <1>6, <3>2
      <4> QED BY <2>1, <2>2, <2>3, <2>4, <3>2, <4>1
    <3> QED BY <3>1, <3>2
  <2> HIDE DEF n
  <2> QED BY <1>1, <2>1, <2>5
<1>7. g[n] = f[n]
  <2> HIDE DEF R, n
  <2>1. 0 .. n \subseteq R BY <1>1, <1>5, <1>6, InductTo
  <2> QED BY <1>1, <2>1 DEF R
<1>8. g[n + 1] = g[n] \o x
  <2>1. n + 1 \in 1 .. n + 1 /\ n + 1 # 1 /\ (n + 1) - 1 = n BY <1>1
  <2>2. g[n + 1] = IF n + 1 = 1 THEN t[n + 1] ELSE g[(n + 1) - 1] \o t[n + 1]
    BY <1>2, <1>4, <2>1 DEF Accumulates
  <2> HIDE DEF n
  <2> QED BY <1>2, <2>1, <2>2
<1>9. f[n] \in Seq(S) BY <1>1, <1>3, AccumulatesTyped
<1> QED BY <1>3, <1>4, <1>7, <1>8, <1>9 DEF t

LEMMA FlattenEmpty == FlattenSeq(<<>>) = <<>>
BY DEF FlattenSeq

\* The same for no elements too.
LEMMA FlattenMore ==
  ASSUME NEW S, NEW seqs \in Seq(Seq(S)), NEW x \in Seq(S)
  PROVE  /\ FlattenSeq(seqs) \in Seq(S)
         /\ FlattenSeq(Append(seqs, x)) = FlattenSeq(seqs) \o x
<1>1. CASE seqs # <<>> BY <1>1, FlattenAppend
<1>2. CASE seqs = <<>>
  <2>1. Append(seqs, x) = <<x>> BY <1>2
  <2>2. <<>> \o x = x /\ <<>> \in Seq(S) BY ConcatEmptySeq
  <2> QED BY <1>2, <2>1, <2>2, FlattenOne, FlattenEmpty
<1> QED BY <1>1, <1>2

\* The first k elements of a sequence, and the next one.
LEMMA FrontGrowsBy ==
  ASSUME NEW S, NEW s \in Seq(S), NEW k \in 0 .. Len(s) - 1
  PROVE  /\ SubSeq(s, 1, k) \in Seq(S) /\ s[k + 1] \in S
         /\ SubSeq(s, 1, k + 1) = Append(SubSeq(s, 1, k), s[k + 1])
<1>1. Len(s) \in Nat /\ \A i \in 1 .. Len(s) : s[i] \in S OBVIOUS
<1>2. k + 1 \in 1 .. Len(s) BY <1>1
<1>3. SubSeq(s, 1, k) \in Seq(S) BY <1>1, SubSeqProperties
<1>4. SubSeq(s, 1, k + 1) = Append(SubSeq(s, 1, (k + 1) - 1), s[k + 1])
  <2>1. 1 \in 1 .. Len(s) /\ k + 1 \in 1 .. Len(s) BY <1>1, <1>2
  <2> QED BY <2>1, SubSeqRecursiveSecond
<1>5. (k + 1) - 1 = k OBVIOUS
<1> QED BY <1>1, <1>2, <1>3, <1>4, <1>5

\* Two sequences of elements put together: those of one and those of the other.
LEMMA FlattenConcat ==
  ASSUME NEW S, NEW s \in Seq(Seq(S)), NEW t \in Seq(Seq(S))
  PROVE  /\ FlattenSeq(s) \in Seq(S) /\ FlattenSeq(t) \in Seq(S)
         /\ FlattenSeq(s \o t) = FlattenSeq(s) \o FlattenSeq(t)
<1> DEFINE n == Len(t)
           R == {k \in 0 .. n : FlattenSeq(s \o SubSeq(t, 1, k))
                                  = FlattenSeq(s) \o FlattenSeq(SubSeq(t, 1, k))}
<1>1. n \in Nat /\ FlattenSeq(s) \in Seq(S) /\ FlattenSeq(t) \in Seq(S)
  <2>1. <<>> \in Seq(S) OBVIOUS
  <2> QED BY <2>1, FlattenMore
<1>2. 0 \in R
  <2>1. SubSeq(t, 1, 0) = <<>> BY SubSeqEmpty
  <2>2. s \o <<>> = s /\ FlattenSeq(s) \o <<>> = FlattenSeq(s)
    BY <1>1, ConcatEmptySeq
  <2>3. FlattenSeq(s \o SubSeq(t, 1, 0)) = FlattenSeq(s) \o FlattenSeq(SubSeq(t, 1, 0))
    BY <2>1, <2>2, FlattenEmpty
  <2> HIDE DEF n
  <2> QED BY <1>1, <2>3
<1>3. ASSUME NEW k \in 0 .. n - 1, k \in R PROVE k + 1 \in R
  <2> DEFINE f == SubSeq(t, 1, k)
             x == t[k + 1]
  <2>1. f \in Seq(Seq(S)) /\ x \in Seq(S) /\ SubSeq(t, 1, k + 1) = Append(f, x)
    BY FrontGrowsBy
  <2>2. FlattenSeq(s \o f) = FlattenSeq(s) \o FlattenSeq(f) BY <1>3
  <2> HIDE DEF f, x
  <2>3. s \o Append(f, x) = Append(s \o f, x) /\ s \o f \in Seq(Seq(S))
    BY <2>1, ConcatProperties, SMTT(40)
  <2>4. FlattenSeq(Append(s \o f, x)) = FlattenSeq(s \o f) \o x BY <2>1, <2>3, FlattenMore
  <2>5. FlattenSeq(Append(f, x)) = FlattenSeq(f) \o x /\ FlattenSeq(f) \in Seq(S)
    BY <2>1, FlattenMore
  <2>6. (FlattenSeq(s) \o FlattenSeq(f)) \o x = FlattenSeq(s) \o (FlattenSeq(f) \o x)
    <3>1. PICK a, b : a = FlattenSeq(s) /\ b = FlattenSeq(f) OBVIOUS
    <3>2. a \in Seq(S) /\ b \in Seq(S) /\ x \in Seq(S) BY <3>1, <1>1, <2>1, <2>5
    <3>3. (a \o b) \o x = a \o (b \o x) BY ONLY <3>2, ConcatAssociative, SMTT(40)
    <3> QED BY <3>1, <3>3
  <2>7. k + 1 \in 0 .. n BY <1>1
  <2> HIDE DEF n
  <2> QED BY <2>1, <2>2, <2>3, <2>4, <2>5, <2>6, <2>7
<1>4. SubSeq(t, 1, n) = t BY SubSeqFull
<1> HIDE DEF R, n
<1>5. 0 .. n \subseteq R BY <1>1, <1>2, <1>3, InductTo
<1>6. n \in R BY <1>1, <1>5
<1> QED BY <1>1, <1>4, <1>6 DEF R

LEMMA FlattenTwo ==
  ASSUME NEW S, NEW a \in Seq(S), NEW b \in Seq(S)
  PROVE  FlattenSeq(<<a, b>>) = a \o b
<1>1. <<a>> \in Seq(Seq(S)) /\ <<a, b>> = Append(<<a>>, b) OBVIOUS
<1>2. FlattenSeq(<<a>>) = a BY FlattenOne
<1>3. FlattenSeq(Append(<<a>>, b)) = FlattenSeq(<<a>>) \o b BY <1>1, FlattenMore
<1> QED BY <1>1, <1>2, <1>3

\* The first element, and the others put together.
LEMMA FlattenHead ==
  ASSUME NEW S, NEW seqs \in Seq(Seq(S)), seqs # <<>>
  PROVE  /\ Head(seqs) \in Seq(S) /\ Tail(seqs) \in Seq(Seq(S))
         /\ FlattenSeq(seqs) = Head(seqs) \o FlattenSeq(Tail(seqs))
<1>1. Head(seqs) \in Seq(S) /\ Tail(seqs) \in Seq(Seq(S))
      /\ seqs = <<Head(seqs)>> \o Tail(seqs)
  BY HeadTailProperties
<1>2. <<Head(seqs)>> \in Seq(Seq(S)) BY <1>1
<1>3. FlattenSeq(<<Head(seqs)>>) = Head(seqs) BY <1>1, FlattenOne
<1>4. FlattenSeq(<<Head(seqs)>> \o Tail(seqs))
        = FlattenSeq(<<Head(seqs)>>) \o FlattenSeq(Tail(seqs))
  BY <1>1, <1>2, FlattenConcat
<1> QED BY <1>1, <1>3, <1>4

\* What is in front of the m-th element, that element, and what is behind it.
LEMMA FlattenAround ==
  ASSUME NEW S, NEW seqs \in Seq(Seq(S)), NEW m \in 1 .. Len(seqs)
  PROVE  LET f == FlattenSeq(SubSeq(seqs, 1, m - 1))
             b == FlattenSeq(SubSeq(seqs, m + 1, Len(seqs)))
         IN  /\ f \in Seq(S) /\ b \in Seq(S) /\ seqs[m] \in Seq(S)
             /\ FlattenSeq(seqs) = (f \o seqs[m]) \o b
             /\ FlattenSeq(SubSeq(seqs, 1, m)) = f \o seqs[m]
<1> DEFINE n == Len(seqs)
           F == SubSeq(seqs, 1, m - 1)
           B == SubSeq(seqs, m + 1, n)
<1>1. n \in Nat /\ m - 1 \in 0 .. n - 1 /\ (m - 1) + 1 = m OBVIOUS
<1>2. F \in Seq(Seq(S)) /\ seqs[m] \in Seq(S) /\ SubSeq(seqs, 1, m) = Append(F, seqs[m])
  BY <1>1, FrontGrowsBy
<1>3. B \in Seq(Seq(S)) BY <1>1, SubSeqProperties
<1>4. SubSeq(seqs, 1, m) \o B = SubSeq(seqs, 1, n)
  <2>1. 1 \in 1 .. n + 1 /\ m \in 1 - 1 .. n /\ n \in m .. n BY <1>1
  <2> QED BY <2>1, ConcatAdjacentSubSeq
<1>5. SubSeq(seqs, 1, n) = seqs BY SubSeqFull
<1>6. SubSeq(seqs, 1, m) \in Seq(Seq(S)) BY <1>1, SubSeqProperties
<1> HIDE DEF F, B, n
<1>7. FlattenSeq(SubSeq(seqs, 1, m)) = FlattenSeq(F) \o seqs[m] /\ FlattenSeq(F) \in Seq(S)
  BY <1>2, FlattenMore
<1>8. FlattenSeq(seqs) = FlattenSeq(SubSeq(seqs, 1, m)) \o FlattenSeq(B)
      /\ FlattenSeq(B) \in Seq(S)
  BY <1>3, <1>4, <1>5, <1>6, FlattenConcat
<1> QED BY <1>2, <1>7, <1>8 DEF F, B, n

\* Elements of one.
LEMMA FlattenSingles ==
  ASSUME NEW S, NEW s \in Seq(S)
  PROVE  /\ [m \in DOMAIN s |-> <<s[m]>>] \in Seq(Seq(S))
         /\ FlattenSeq([m \in DOMAIN s |-> <<s[m]>>]) = s
<1> DEFINE q == [m \in DOMAIN s |-> <<s[m]>>]
           R == {k \in 0 .. Len(s) : FlattenSeq(SubSeq(q, 1, k)) = SubSeq(s, 1, k)}
<1>1. Len(s) \in Nat /\ DOMAIN s = 1 .. Len(s) /\ \A i \in 1 .. Len(s) : s[i] \in S OBVIOUS
<1>2. q \in Seq(Seq(S)) /\ Len(q) = Len(s) /\ \A i \in 1 .. Len(s) : q[i] = <<s[i]>>
  <2>1. q = [m \in 1 .. Len(s) |-> <<s[m]>>] BY <1>1
  <2>2. \A i \in 1 .. Len(s) : <<s[i]>> \in Seq(S) BY <1>1
  <2>3. q \in Seq(Seq(S)) /\ Len(q) = Len(s) BY <1>1, <2>1, <2>2, IsASeq, LenProperties
  <2> QED BY <2>1, <2>3
<1>3. 0 \in R
  <2>1. SubSeq(q, 1, 0) = <<>> /\ SubSeq(s, 1, 0) = <<>> BY <1>2, SubSeqEmpty
  <2> HIDE DEF q
  <2>2. FlattenSeq(SubSeq(q, 1, 0)) = SubSeq(s, 1, 0) BY <2>1, FlattenEmpty
  <2> QED BY <1>1, <2>2
<1> HIDE DEF q
<1>4. ASSUME NEW k \in 0 .. Len(s) - 1, k \in R PROVE k + 1 \in R
  <2>1. k \in 0 .. Len(q) - 1 /\ k + 1 \in 1 .. Len(s) BY <1>1, <1>2
  <2>2. SubSeq(q, 1, k) \in Seq(Seq(S)) /\ SubSeq(q, 1, k + 1) = Append(SubSeq(q, 1, k), q[k + 1])
    BY <1>2, <2>1, FrontGrowsBy
  <2>3. SubSeq(s, 1, k) \in Seq(S) /\ SubSeq(s, 1, k + 1) = Append(SubSeq(s, 1, k), s[k + 1])
    BY FrontGrowsBy
  <2>4. q[k + 1] = <<s[k + 1]>> /\ q[k + 1] \in Seq(S)
    <3>1. q[k + 1] = <<s[k + 1]>> BY ONLY <1>2, <2>1
    <3>2. s[k + 1] \in S BY ONLY <1>1, <2>1
    <3>3. <<s[k + 1]>> \in Seq(S) BY ONLY <3>2
    <3> QED BY ONLY <3>1, <3>3
  <2>5. FlattenSeq(SubSeq(q, 1, k + 1)) = FlattenSeq(SubSeq(q, 1, k)) \o <<s[k + 1]>>
    BY <2>2, <2>4, FlattenMore
  <2>6. FlattenSeq(SubSeq(q, 1, k)) = SubSeq(s, 1, k) BY <1>4
  <2>7. SubSeq(s, 1, k) \o <<s[k + 1]>> = Append(SubSeq(s, 1, k), s[k + 1])
    BY <2>3, <2>1, <1>1, AppendIsConcat
  <2> QED BY <2>1, <2>3, <2>5, <2>6, <2>7
<1>5. SubSeq(q, 1, Len(s)) = q /\ SubSeq(s, 1, Len(s)) = s BY <1>2, SubSeqFull
<1> HIDE DEF R
<1>6. 0 .. Len(s) \subseteq R BY <1>1, <1>3, <1>4, InductTo
<1>7. Len(s) \in R BY <1>1, <1>6
<1> QED BY <1>2, <1>5, <1>7 DEF R, q
=============================================================================
