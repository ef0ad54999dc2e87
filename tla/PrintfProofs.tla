----------------------------- MODULE PrintfProofs -----------------------------
(***************************************************************************)
(* fprintf reads the format as it was written, takes the arguments that    *)
(* are meant for it, and prints what the directives mean; for finite       *)
(* floating point numbers only that it prints characters.                  *)
(*                                                                         *)
(* First what the format and the arguments are, then what each conversion  *)
(* makes of its argument (OutputShown), then that every action of the walk *)
(* keeps IInv: the walk stands where a directive begins, with its own      *)
(* arguments, and the last field has yet to take what it lacks.            *)
(***************************************************************************)
EXTENDS Printf, ConversionsProofs

-----------------------------------------------------------------------------
(* Numbers written in a radix                                              *)

\* The function behind positional.
Positions(f, ds, base) ==
  f = [k \in 0 .. Len(ds) |-> IF k = 0 THEN 0 ELSE f[k - 1] * base + ds[k]]

\* g follows the recurrence of that function.
Climbs(g, ds, base) ==
  g[0] = 0 /\ \A k \in 1 .. Len(ds) : g[k] = g[k - 1] * base + ds[k]

\* positional is where the recurrence ends.
LEMMA PositionalIs ==
  ASSUME NEW base \in Nat, NEW ds \in Seq(Nat)
  PROVE  \E f \in [0 .. Len(ds) -> Nat] :
           Climbs(f, ds, base) /\ positional(ds, base) = f[Len(ds)]
<1> DEFINE n == Len(ds)
           moves == [k \in 1 .. n |-> [x \in Nat |-> x * base + ds[k]]]
           f == CHOOSE f : Positions(f, ds, base)
<1>1. n \in Nat /\ \A k \in 1 .. n : ds[k] \in Nat OBVIOUS
<1>2. positional(ds, base) = f[n] BY DEF positional, Positions
<1>3. moves \in [1 .. n -> [Nat -> Nat]]
  <2>1. \A k \in 1 .. n : \A x \in Nat : x * base + ds[k] \in Nat BY <1>1
  <2> QED BY <2>1
<1>4. \A k \in 1 .. n, x \in Nat : moves[k][x] = x * base + ds[k] OBVIOUS
<1> HIDE DEF moves, n
<1>5. PICK g \in [0 .. n -> Nat] : Iterated(g, 0, moves, n) BY <1>1, <1>3, Iterates
<1>6. ASSUME NEW k \in 0 .. n PROVE g[k] = IF k = 0 THEN 0 ELSE g[k - 1] * base + ds[k]
  <2>1. g[k] = IF k = 0 THEN 0 ELSE moves[k][g[k - 1]] BY <1>5 DEF Iterated
  <2>2. CASE k = 0 BY <2>1, <2>2
  <2>3. CASE k # 0
    <3>1. k \in 1 .. n /\ k - 1 \in 0 .. n BY <2>3, <1>1
    <3>2. g[k - 1] \in Nat BY <3>1
    <3> QED BY <3>1, <3>2, <2>1, <2>3, <1>4
  <2> QED BY <2>2, <2>3
<1>7. Positions(g, ds, base) BY <1>6 DEF Positions, n
<1>8. Positions(f, ds, base)
  <2>1. \E x : Positions(x, ds, base) BY <1>7
  <2> QED BY <2>1
<1> HIDE DEF f
<1>9. ASSUME NEW k \in 0 .. n PROVE f[k] = IF k = 0 THEN 0 ELSE f[k - 1] * base + ds[k]
  BY <1>8 DEF Positions, n
<1> DEFINE R == {k \in 0 .. n : f[k] \in Nat}
<1>10. 0 \in R BY <1>1, <1>9
<1>11. ASSUME NEW k \in 0 .. n - 1, k \in R PROVE k + 1 \in R
  <2>1. k + 1 \in 0 .. n /\ k + 1 # 0 /\ (k + 1) - 1 = k /\ k + 1 \in 1 .. n BY <1>1
  <2>2. f[k + 1] = f[k] * base + ds[k + 1] BY <2>1, <1>9
  <2>3. f[k] * base + ds[k + 1] \in Nat
    <3> DEFINE x == f[k]
               d == ds[k + 1]
    <3>1. x \in Nat /\ d \in Nat BY <2>1, <1>1, <1>11
    <3> HIDE DEF x, d
    <3>2. x * base \in Nat BY <3>1
    <3> QED BY <3>1, <3>2 DEF x, d
  <2> QED BY <2>1, <2>2, <2>3
<1> HIDE DEF R
<1>12. 0 .. n \subseteq R BY <1>1, <1>10, <1>11, InductTo
<1>13. f = [k \in 0 .. n |-> f[k]] BY <1>8 DEF Positions, n
<1>14. f \in [0 .. n -> Nat] BY <1>12, <1>13 DEF R
<1>15. Climbs(f, ds, base)
  <2>1. f[0] = 0 BY <1>1, <1>9
  <2>2. ASSUME NEW k \in 1 .. n PROVE f[k] = f[k - 1] * base + ds[k]
    <3>1. k \in 0 .. n /\ k # 0 BY <1>1
    <3> QED BY <3>1, <1>9
  <2> QED BY <2>1, <2>2 DEF Climbs, n
<1> QED BY <1>2, <1>14, <1>15 DEF n

\* Whatever follows the recurrence ends there.
LEMMA PositionalBy ==
  ASSUME NEW base \in Nat, NEW ds \in Seq(Nat), NEW g, Climbs(g, ds, base)
  PROVE  positional(ds, base) = g[Len(ds)] /\ positional(ds, base) \in Nat
<1>1. PICK f \in [0 .. Len(ds) -> Nat] :
        Climbs(f, ds, base) /\ positional(ds, base) = f[Len(ds)]
  BY PositionalIs
<1> DEFINE n == Len(ds)
           R == {k \in 0 .. n : g[k] = f[k]}
<1>2. n \in Nat OBVIOUS
<1>3. 0 \in R BY <1>1, <1>2 DEF Climbs
<1>4. ASSUME NEW k \in 0 .. n - 1, k \in R PROVE k + 1 \in R
  <2>1. k + 1 \in 0 .. n /\ k + 1 \in 1 .. n /\ (k + 1) - 1 = k BY <1>2
  <2>2. f[k + 1] = f[k] * base + ds[k + 1] BY <2>1, <1>1 DEF Climbs
  <2>3. g[k + 1] = g[k] * base + ds[k + 1] BY <2>1 DEF Climbs
  <2> QED BY <2>1, <2>2, <2>3, <1>4
<1> HIDE DEF R
<1>5. 0 .. n \subseteq R BY <1>2, <1>3, <1>4, InductTo
<1>6. n \in 0 .. n BY <1>2
<1>7. g[n] = f[n] BY <1>5, <1>6 DEF R
<1> QED BY <1>1, <1>6, <1>7

\* The number read so far is not larger than the whole.
LEMMA ClimbsUp ==
  ASSUME NEW base \in Nat \ {0}, NEW ds \in Seq(Nat), NEW f \in [0 .. Len(ds) -> Nat],
         Climbs(f, ds, base)
  PROVE  \A k \in 0 .. Len(ds) : f[k] <= f[Len(ds)]
<1> DEFINE n == Len(ds)
           R == {t \in 0 .. n : f[n - t] <= f[n]}
<1>1. n \in Nat /\ \A k \in 1 .. n : ds[k] \in Nat OBVIOUS
<1>2. 0 \in R BY <1>1
<1>3. ASSUME NEW t \in 0 .. n - 1, t \in R PROVE t + 1 \in R
  <2>1. /\ n - t \in 1 .. n /\ (n - t) - 1 = n - (t + 1) /\ t + 1 \in 0 .. n
        /\ n - t \in 0 .. n /\ n - (t + 1) \in 0 .. n /\ n \in 0 .. n
    BY <1>1
  <2> DEFINE x == f[n - (t + 1)]
             d == ds[n - t]
  <2>2. f[n - t] = x * base + d BY <2>1 DEF Climbs
  <2>3. x \in Nat /\ d \in Nat /\ f[n - t] \in Nat /\ f[n] \in Nat BY <2>1, <1>1
  <2>4. f[n - t] <= f[n] BY <1>3
  <2> HIDE DEF x, d
  <2>5. x <= x * base + d
    <3> DEFINE y == x * (base - 1)
               z == x * base
    <3>1. base - 1 \in Nat OBVIOUS
    <3>2. y \in Nat BY <2>3, <3>1
    <3>3. z = x + y BY <2>3
    <3> HIDE DEF y, z
    <3>4. x <= z + d BY <3>2, <3>3, <2>3
    <3> QED BY <3>4 DEF z
  <2>6. x <= f[n] BY <2>2, <2>3, <2>4, <2>5
  <2> QED BY <2>1, <2>6 DEF x
<1> HIDE DEF R
<1>4. 0 .. n \subseteq R BY <1>1, <1>2, <1>3, InductTo
<1>5. ASSUME NEW k \in 0 .. n PROVE f[k] <= f[n]
  <2>1. n - k \in 0 .. n /\ n - (n - k) = k BY <1>1
  <2>2. n - k \in R BY <1>4, <2>1
  <2> QED BY <2>1, <2>2 DEF R
<1> QED BY <1>5

\* The digits of a number that fits in an int are read as that number.
LEMMA ValueReads ==
  ASSUME NEW ds \in Seq(digit_chars), positional(ds, 10) < pow(2, IntW - 1),
         NEW s, NEW k \in Nat, \A j \in 1 .. Len(ds) : s[k + j - 1] = ds[j]
  PROVE  value(s, k, k + Len(ds)) = positional(ds, 10)
<1> DEFINE d == Len(ds)
           e == k + d
           g == CHOOSE f : Reads(f, s, k, e)
<1>1. d \in Nat /\ \A j \in 1 .. d : ds[j] \in Nat /\ ds[j] \in 0 .. 9
  BY DEF digit_chars
<1>2. ds \in Seq(Nat)
  <2>1. digit_chars \subseteq Nat BY DEF digit_chars
  <2> QED BY <2>1, SeqMonotonic
<1>3. PICK f \in [0 .. d -> Nat] : Climbs(f, ds, 10) /\ positional(ds, 10) = f[d]
  BY <1>2, PositionalIs
<1>4. ASSUME NEW j \in 0 .. d PROVE f[j] \in Nat /\ as_int(f[j]) = f[j]
  <2>1. f[j] <= f[d] /\ f[j] \in Nat /\ f[d] \in Nat
    <3>1. 10 \in Nat \ {0} /\ d \in 0 .. d BY <1>1
    <3>2. \A i \in 0 .. Len(ds) : f[i] <= f[Len(ds)]
      BY <3>1, <1>2, <1>3, ClimbsUp
    <3> QED BY <3>1, <3>2, <1>1, <1>3
  <2>2. pow(2, IntW - 1) \in Nat
    <3>1. IntW - 1 \in Nat /\ 2 \in Nat BY WordSize
    <3> QED BY <3>1, PowRule
  <2>3. f[j] \in Int /\ -pow(2, IntW - 1) <= f[j] /\ f[j] < pow(2, IntW - 1)
    BY <2>1, <2>2, <1>3
  <2> QED BY <2>1, <2>3, AsIntIs
<1> DEFINE h == [j \in k .. e |-> f[j - k]]
<1>5. ASSUME NEW j \in k .. e
      PROVE  h[j] = IF j = k THEN 0 ELSE as_int(h[j - 1] * 10 + s[j - 1])
  <2>1. h[j] = f[j - k] /\ j - k \in 0 .. d BY <1>1
  <2>2. CASE j = k
    <3>1. j - k = 0 BY <2>2
    <3> HIDE DEF h
    <3> QED BY <3>1, <2>1, <2>2, <1>3 DEF Climbs
  <2>3. CASE j # k
    <3>1. /\ j - k \in 1 .. d /\ j - 1 \in k .. e /\ (j - 1) - k = (j - k) - 1
          /\ k + (j - k) - 1 = j - 1
      BY <1>1, <2>3
    <3>2. h[j - 1] = f[(j - k) - 1] BY <3>1
    <3>3. s[j - 1] = ds[j - k] BY <3>1
    <3>4. f[j - k] = f[(j - k) - 1] * 10 + ds[j - k] BY <3>1, <1>3 DEF Climbs
    <3>5. as_int(f[j - k]) = f[j - k] BY <2>1, <1>4
    <3> HIDE DEF h, d, e
    <3> QED BY <2>1, <2>3, <3>2, <3>3, <3>4, <3>5
  <2> QED BY <2>2, <2>3
<1>6. h = [j \in k .. e |-> h[j]] OBVIOUS
<1>7. h[k] = 0 /\ h[e] = f[d]
  <2>1. k \in k .. e /\ e \in k .. e /\ e - k = d /\ k - k = 0 BY <1>1
  <2> QED BY <2>1, <1>3 DEF Climbs
<1> HIDE DEF h
<1>8. Reads(h, s, k, e)
  <2>1. [j \in k .. e |-> h[j]]
          = [j \in k .. e |-> IF j = k THEN 0 ELSE as_int(h[j - 1] * 10 + s[j - 1])]
    BY <1>5
  <2> QED BY <2>1, <1>6 DEF Reads
<1>9. value(s, k, e) = g[e] BY DEF value, Reads
<1>10. Reads(g, s, k, e)
  <2>1. \E x : Reads(x, s, k, e) BY <1>8
  <2> QED BY <2>1
<1> HIDE DEF g
<1>11. ASSUME NEW j \in k .. e
       PROVE  g[j] = IF j = k THEN 0 ELSE as_int(g[j - 1] * 10 + s[j - 1])
  BY <1>10 DEF Reads
<1> DEFINE R == {x \in 0 .. d : g[k + x] = h[k + x]}
<1> HIDE DEF d
<1>12. 0 \in R
  <2>1. k \in k .. e /\ k + 0 = k BY <1>1
  <2> QED BY <2>1, <1>1, <1>5, <1>11
<1>13. ASSUME NEW x \in 0 .. d - 1, x \in R PROVE x + 1 \in R
  <2>1. /\ k + (x + 1) \in k .. e /\ k + (x + 1) # k /\ (k + (x + 1)) - 1 = k + x
        /\ x + 1 \in 0 .. d
    BY <1>1
  <2>2. g[k + (x + 1)] = as_int(g[k + x] * 10 + s[k + x]) BY <2>1, <1>11
  <2>3. h[k + (x + 1)] = as_int(h[k + x] * 10 + s[k + x]) BY <2>1, <1>5
  <2> QED BY <2>1, <2>2, <2>3, <1>13
<1> HIDE DEF R
<1>14. 0 .. d \subseteq R BY <1>1, <1>12, <1>13, InductTo
<1>15. g[e] = h[e]
  <2>1. d \in R BY <1>1, <1>14
  <2> QED BY <2>1 DEF R
<1> QED BY <1>3, <1>7, <1>9, <1>15 DEF d

-----------------------------------------------------------------------------
(* Where the directives of a format stand                                  *)

\* The directives as they are written.
Texts(ds) == [m \in DOMAIN ds |-> unparse(ds[m])]

\* The position of the m-th.
begins(ds, m) == Len(FlattenSeq(SubSeq(Texts(ds), 1, m - 1))) + 1

\* The format of a call.
Formatted(ds) ==
  /\ ds \in Seq(Directives)
  /\ \A m \in DOMAIN ds : legible(ds[m])
  /\ \A m \in 1 .. Len(ds) - 1 :
       IF ds[m].plain # <<>> THEN ds[m + 1].plain = <<>> ELSE ds[m].specifier # NUL

\* What is written of a conversion, part by part.
Parts(d) == d.flags \o (d.width \o (d.precision \o d.length))

LEMMA DirectiveTypes ==
  ASSUME NEW d \in Directives, legible(d)
  PROVE  /\ d.plain \in Seq(Int) /\ d.flags \in Seq(Int) /\ d.width \in Seq(Int)
         /\ d.precision \in Seq(Int) /\ d.length \in Seq(Int) /\ d.specifier \in Int
         /\ d.flags \in Seq(flag_chars) /\ d.length \in length_modifiers
<1>1. flag_chars \subseteq Int BY DEF flag_chars, MINUS, PLUS, SPACE, HASH
<1>2. length_modifiers \subseteq Seq(Int)
  BY DEF length_modifiers, CH_H, CH_L, CH_Z, CH_T, CH_J, upper
<1>3. /\ d.plain \in Seq(Int) /\ d.flags \in Seq(flag_chars) /\ d.width \in Seq(Int)
      /\ d.precision \in Seq(Int) /\ d.length \in length_modifiers /\ d.specifier \in Int
  BY DEF Directives
<1>4. d.flags \in Seq(Int) BY <1>1, <1>3, SeqMonotonic
<1> QED BY <1>2, <1>3, <1>4

\* The specifier of a conversion, if it has one.
Ending(d) == IF d.specifier = NUL THEN <<>> ELSE <<d.specifier>>

\* Three sequences in a row.
LEMMA AppendsRight ==
  ASSUME NEW S, NEW a \in Seq(S), NEW b \in Seq(S), NEW c \in Seq(S)
  PROVE  (a \o b) \o c = a \o (b \o c) /\ a \o (b \o c) \in Seq(S)
<1>1. (a \o b) \o c = a \o (b \o c) BY ConcatAssociative
<1>2. b \o c \in Seq(S) BY ConcatProperties
<1>3. a \o (b \o c) \in Seq(S) BY <1>2, ConcatProperties
<1> QED BY <1>1, <1>3

LEMMA UnparseIs ==
  ASSUME NEW d \in Directives, legible(d)
  PROVE  /\ unparse(d) \in Seq(Int) /\ unparse(d) # <<>>
         /\ d.plain = <<>> => unparse(d) = <<PERCENT>> \o (Parts(d) \o Ending(d))
         /\ Parts(d) \in Seq(Int) /\ Ending(d) \in Seq(Int)
<1>1. /\ d.plain \in Seq(Int) /\ d.flags \in Seq(Int) /\ d.width \in Seq(Int)
      /\ d.precision \in Seq(Int) /\ d.length \in Seq(Int) /\ d.specifier \in Int
  BY DirectiveTypes
<1>2. PICK f, w, p, l, e :
        /\ f = d.flags /\ w = d.width /\ p = d.precision /\ l = d.length /\ e = Ending(d)
  OBVIOUS
<1>3. <<PERCENT>> \in Seq(Int) /\ e \in Seq(Int) BY <1>1, <1>2 DEF PERCENT, Ending
<1>4. f \in Seq(Int) /\ w \in Seq(Int) /\ p \in Seq(Int) /\ l \in Seq(Int) BY <1>1, <1>2
<1> DEFINE h == <<PERCENT>>
<1>5. h \in Seq(Int) BY <1>3
<1> HIDE DEF h
<1>6. /\ ((((h \o f) \o w) \o p) \o l) \o e = h \o ((f \o (w \o (p \o l))) \o e)
      /\ f \o (w \o (p \o l)) \in Seq(Int)
      /\ h \o ((f \o (w \o (p \o l))) \o e) \in Seq(Int)
  <2>1. PICK y, z : y = h \o f /\ z = p \o l OBVIOUS
  <2>2. PICK y2, z2 : y2 = y \o w /\ z2 = w \o z OBVIOUS
  <2>3. PICK z3 : z3 = f \o z2 OBVIOUS
  <2>4. y \in Seq(Int) /\ z \in Seq(Int) BY <2>1, <1>4, <1>5, ConcatProperties
  <2>5. y2 \in Seq(Int) /\ z2 \in Seq(Int) BY <2>2, <2>4, <1>4, ConcatProperties
  <2>6. z3 \in Seq(Int) BY <2>3, <2>5, <1>4, ConcatProperties
  <2>7. (y2 \o p) \o l = y2 \o (p \o l) /\ y2 \o (p \o l) \in Seq(Int)
    BY ONLY <2>5, <1>4, AppendsRight
  <2>8. (y \o w) \o z = y \o (w \o z) /\ y \o (w \o z) \in Seq(Int)
    BY ONLY <2>4, <1>4, AppendsRight
  <2>9. (h \o f) \o z2 = h \o (f \o z2) /\ h \o (f \o z2) \in Seq(Int)
    BY ONLY <2>5, <1>4, <1>5, AppendsRight
  <2>10. (h \o z3) \o e = h \o (z3 \o e) /\ h \o (z3 \o e) \in Seq(Int)
    BY ONLY <2>6, <1>3, <1>5, AppendsRight
  <2> QED BY ONLY <2>1, <2>2, <2>3, <2>6, <2>7, <2>8, <2>9, <2>10
<1>7. d.plain = <<>> => unparse(d) = ((((h \o f) \o w) \o p) \o l) \o e
  BY <1>2 DEF unparse, Ending, h
<1>8. d.plain # <<>> => unparse(d) = d.plain BY DEF unparse
<1>9. d.plain = <<>> => unparse(d) # <<>>
  <2>1. f \o (w \o (p \o l)) \o e \in Seq(Int) BY <1>6, <1>3, ConcatProperties
  <2>2. Len(h \o ((f \o (w \o (p \o l))) \o e)) # 0
    <3>1. Len(h) = 1 BY DEF h
    <3>2. Len((f \o (w \o (p \o l))) \o e) \in Nat BY <2>1, LenProperties
    <3>3. Len(h \o ((f \o (w \o (p \o l))) \o e)) = Len(h) + Len((f \o (w \o (p \o l))) \o e)
      BY <1>5, <2>1, ConcatProperties
    <3> QED BY <3>1, <3>2, <3>3
  <2>3. Len(<<>>) = 0 OBVIOUS
  <2> QED BY <1>6, <1>7, <2>2, <2>3
<1>10. Parts(d) = f \o (w \o (p \o l)) BY <1>2 DEF Parts
<1> QED BY <1>1, <1>2, <1>3, <1>6, <1>7, <1>8, <1>9, <1>10 DEF h

\* The text of the m-th directive stands where it begins, and that of the next
\* one behind it.
LEMMA Standing ==
  ASSUME NEW ds, Formatted(ds), NEW m \in DOMAIN ds
  PROVE  LET t == FlattenSeq(Texts(ds))
             u == unparse(ds[m])
             p == begins(ds, m)
         IN  /\ t \in Seq(Int) /\ u \in Seq(Int) /\ p \in Nat \ {0}
             /\ begins(ds, m + 1) = p + Len(u)
             /\ p + Len(u) <= Len(t) + 1
             /\ m = Len(ds) => p + Len(u) = Len(t) + 1
             /\ \A j \in 1 .. Len(u) : t[p + j - 1] = u[j]
<1> DEFINE q == Texts(ds)
           u == unparse(ds[m])
           f == FlattenSeq(SubSeq(q, 1, m - 1))
           b == FlattenSeq(SubSeq(q, m + 1, Len(q)))
<1>1. ds \in Seq(Directives) /\ Len(ds) \in Nat /\ m \in 1 .. Len(ds) /\ ds[m] = ds[m]
  BY DEF Formatted
<1>2. q \in Seq(Seq(Int)) /\ Len(q) = Len(ds) /\ q[m] = u
  <2>1. ASSUME NEW i \in DOMAIN ds PROVE unparse(ds[i]) \in Seq(Int)
    <3>1. ds[i] \in Directives /\ legible(ds[i]) BY <1>1 DEF Formatted
    <3> QED BY <3>1, UnparseIs
  <2>2. DOMAIN ds = 1 .. Len(ds) BY <1>1
  <2>3. q = [i \in 1 .. Len(ds) |-> unparse(ds[i])] BY <2>2 DEF Texts
  <2>4. q[m] = u BY <2>3, <1>1
  <2>5. q \in Seq(Seq(Int)) /\ Len(q) = Len(ds)
    BY <2>1, <2>2, <2>3, <1>1, IsASeq, LenProperties
  <2> QED BY <2>4, <2>5
<1> HIDE DEF q, u
<1>3. /\ f \in Seq(Int) /\ b \in Seq(Int) /\ u \in Seq(Int)
      /\ FlattenSeq(q) = (f \o u) \o b
      /\ FlattenSeq(SubSeq(q, 1, m)) = f \o u
  BY <1>1, <1>2, FlattenAround
<1>4. begins(ds, m) = Len(f) + 1 /\ begins(ds, m + 1) = Len(f \o u) + 1
  <2>1. (m + 1) - 1 = m BY <1>1
  <2> QED BY <2>1, <1>3 DEF begins, q
<1>5. m = Len(ds) => b = <<>>
  <2>1. SUFFICES ASSUME m = Len(ds) PROVE b = <<>> OBVIOUS
  <2>2. SubSeq(q, m + 1, Len(q)) = <<>> BY <2>1, <1>1, <1>2, SubSeqEmpty
  <2> QED BY <2>2, FlattenEmpty
<1> HIDE DEF f, b
<1>6. /\ Len(f) \in Nat /\ Len(u) \in Nat /\ Len(b) \in Nat
      /\ f \o u \in Seq(Int) /\ Len(f \o u) = Len(f) + Len(u)
      /\ Len((f \o u) \o b) = (Len(f) + Len(u)) + Len(b)
      /\ (f \o u) \o b \in Seq(Int)
      /\ m = Len(ds) => Len(b) = 0
  BY <1>3, <1>5, ConcatProperties, LenProperties
<1>7. ASSUME NEW j \in 1 .. Len(u) PROVE ((f \o u) \o b)[(Len(f) + 1) + j - 1] = u[j]
  <2>1. /\ (Len(f) + 1) + j - 1 = Len(f) + j /\ Len(f) + j \in 1 .. Len(f) + Len(u)
        /\ Len(f) + j \in 1 .. (Len(f) + Len(u)) + Len(b) /\ Len(f) + j > Len(f)
        /\ (Len(f) + j) - Len(f) = j
    BY <1>6
  <2>2. ((f \o u) \o b)[Len(f) + j] = (f \o u)[Len(f) + j]
    BY <2>1, <1>3, <1>6, ConcatProperties
  <2>3. (f \o u)[Len(f) + j] = u[j] BY <2>1, <1>3, <1>6, ConcatProperties
  <2> QED BY <2>1, <2>2, <2>3
<1>8. PICK t, v : t = FlattenSeq(q) /\ v = u OBVIOUS
<1>9. /\ t \in Seq(Int) /\ v \in Seq(Int) /\ begins(ds, m) \in Nat \ {0}
      /\ begins(ds, m + 1) = begins(ds, m) + Len(v)
      /\ begins(ds, m) + Len(v) <= Len(t) + 1
      /\ m = Len(ds) => begins(ds, m) + Len(v) = Len(t) + 1
  <2>1. Len(t) = (Len(f) + Len(v)) + Len(b) /\ t \in Seq(Int) BY <1>3, <1>6, <1>8
  <2> QED BY <2>1, <1>3, <1>4, <1>6, <1>8
<1>10. \A j \in 1 .. Len(v) : t[begins(ds, m) + j - 1] = v[j]
  BY <1>3, <1>4, <1>7, <1>8
<1> QED BY <1>8, <1>9, <1>10 DEF q, u

\* The first directive begins the format, and its end is behind the last.
LEMMA FromEndToEnd ==
  ASSUME NEW ds, Formatted(ds)
  PROVE  /\ FlattenSeq(Texts(ds)) \in Seq(Int)
         /\ begins(ds, 1) = 1
         /\ begins(ds, Len(ds) + 1) = Len(FlattenSeq(Texts(ds))) + 1
<1>1. ds \in Seq(Directives) /\ Len(ds) \in Nat /\ DOMAIN ds = 1 .. Len(ds)
  BY DEF Formatted
<1>2. begins(ds, 1) = 1
  <2>1. SubSeq(Texts(ds), 1, 1 - 1) = <<>> BY SubSeqEmpty
  <2>2. FlattenSeq(SubSeq(Texts(ds), 1, 1 - 1)) = <<>> BY ONLY <2>1, FlattenEmpty
  <2>3. Len(<<>>) = 0 OBVIOUS
  <2> QED BY <2>2, <2>3 DEF begins
<1>3. CASE ds = <<>>
  <2>1. Texts(ds) = <<>> /\ Len(ds) = 0 BY <1>3 DEF Texts
  <2>2. FlattenSeq(Texts(ds)) = <<>> BY ONLY <2>1, FlattenEmpty
  <2>3. Len(<<>>) = 0 /\ <<>> \in Seq(Int) OBVIOUS
  <2>4. Len(ds) + 1 = 1 BY <2>1
  <2> QED BY <2>2, <2>3, <2>4, <1>2
<1>4. CASE ds # <<>>
  <2>1. Len(ds) \in DOMAIN ds BY <1>1, <1>4
  <2> DEFINE n == Len(ds)
  <2>2. n \in DOMAIN ds BY <2>1
  <2> HIDE DEF n
  <2>3. /\ FlattenSeq(Texts(ds)) \in Seq(Int)
        /\ begins(ds, n + 1) = begins(ds, n) + Len(unparse(ds[n]))
        /\ n = Len(ds) => begins(ds, n) + Len(unparse(ds[n])) = Len(FlattenSeq(Texts(ds))) + 1
    BY <2>2, Standing
  <2> QED BY <2>3, <1>2 DEF n
<1> QED BY <1>3, <1>4
-----------------------------------------------------------------------------
(* The format is read as it was written                                    *)

\* A sequence stands at position k of another.
Stands_at(s, k, q) ==
  /\ k \in Nat \ {0} /\ k + Len(q) <= Len(s) + 1
  /\ \A j \in 1 .. Len(q) : s[k + j - 1] = q[j]

\* Sequences put together stand one behind the other.
LEMMA StandsSplit ==
  ASSUME NEW S, NEW s \in Seq(S), NEW a \in Seq(S), NEW b \in Seq(S), NEW k,
         Stands_at(s, k, a \o b)
  PROVE  Stands_at(s, k, a) /\ Stands_at(s, k + Len(a), b)
<1>1. /\ Len(a) \in Nat /\ Len(b) \in Nat /\ Len(s) \in Nat /\ Len(a \o b) = Len(a) + Len(b)
      /\ \A j \in 1 .. Len(a) + Len(b) :
           (a \o b)[j] = IF j <= Len(a) THEN a[j] ELSE b[j - Len(a)]
  BY ConcatProperties, LenProperties
<1>2. PICK q : q = a \o b OBVIOUS
<1>3. /\ k \in Nat \ {0} /\ k + Len(q) <= Len(s) + 1 /\ Len(q) = Len(a) + Len(b)
      /\ \A j \in 1 .. Len(a) + Len(b) : s[k + j - 1] = q[j]
      /\ \A j \in 1 .. Len(a) + Len(b) : q[j] = IF j <= Len(a) THEN a[j] ELSE b[j - Len(a)]
  BY <1>1, <1>2 DEF Stands_at
<1>4. ASSUME NEW j \in 1 .. Len(a) PROVE s[k + j - 1] = a[j]
  <2>1. j \in 1 .. Len(a) + Len(b) /\ j <= Len(a) BY <1>1
  <2> QED BY <2>1, <1>3
<1>5. ASSUME NEW j \in 1 .. Len(b) PROVE s[(k + Len(a)) + j - 1] = b[j]
  <2>1. /\ Len(a) + j \in 1 .. Len(a) + Len(b) /\ ~(Len(a) + j <= Len(a))
        /\ (Len(a) + j) - Len(a) = j /\ (k + Len(a)) + j - 1 = k + (Len(a) + j) - 1
    BY <1>1, <1>3
  <2>2. s[k + (Len(a) + j) - 1] = q[Len(a) + j] BY ONLY <2>1, <1>3
  <2>3. q[Len(a) + j] = b[(Len(a) + j) - Len(a)] BY ONLY <2>1, <1>3
  <2> QED BY <2>1, <2>2, <2>3
<1> QED BY <1>1, <1>3, <1>4, <1>5 DEF Stands_at

\* skip passes over what it is to pass over, up to something else.
LEMMA SkipsOver ==
  ASSUME NEW s \in Seq(Int), NEW cs, NEW q \in Seq(cs), NEW k, Stands_at(s, k, q),
         k + Len(q) <= Len(s) => s[k + Len(q)] \notin cs
  PROVE  skip(s, k, cs) = k + Len(q)
<1> DEFINE e == k + Len(q)
<1>1. Len(s) \in Nat /\ Len(q) \in Nat /\ k \in Nat \ {0} /\ e <= Len(s) + 1 /\ e \in Nat
  BY DEF Stands_at
<1>2. \A j \in 1 .. Len(q) : q[j] \in cs OBVIOUS
<1>3. k \in 1 .. Len(s) + 1 BY <1>1
<1>4. ASSUME NEW y \in k .. e - 1 PROVE s[y] \in cs
  <2>1. y - k + 1 \in 1 .. Len(q) /\ k + (y - k + 1) - 1 = y BY <1>1
  <2> QED BY <2>1, <1>2 DEF Stands_at
<1>5. FirstOther(s, k, e, cs) BY <1>1, <1>3, <1>4 DEF FirstOther
<1> HIDE DEF e
<1>6. skip(s, k, cs) = e BY <1>1, <1>3, <1>5, SkipIs
<1> QED BY <1>6 DEF e

\* What stands at the end of a sequence, NUL behind the format.
LEMMA AtStanding ==
  ASSUME format \in Seq(Int), NEW q \in Seq(Int), NEW k, Stands_at(format, k, q)
  PROVE  \A j \in 1 .. Len(q) : at(k + j - 1) = q[j]
<1>1. Len(format) \in Nat /\ Len(q) \in Nat OBVIOUS
<1>2. ASSUME NEW j \in 1 .. Len(q) PROVE at(k + j - 1) = q[j]
  <2>1. k + j - 1 <= Len(format) BY <1>1 DEF Stands_at
  <2> QED BY <2>1 DEF at, Stands_at
<1> QED BY <1>2

\* The value of a written number.
read_as(s, word) == IF s = <<STAR>> THEN as_int(word) ELSE positional(s, 10)

one_if(p) == IF p THEN 1 ELSE 0

\* A width or a precision is read up to its end.
LEMMA NumberReads ==
  ASSUME format \in Seq(Int), NEW s \in Seq(Int), is_number(s),
         NEW k, Stands_at(format, k, s), NEW a \in Nat,
         s # <<STAR>> => at(k + Len(s)) \notin digit_chars,
         s = <<>> => at(k) # STAR
  PROVE  star_or_number(k, a)
           = [v |-> read_as(s, args[a]), k |-> k + Len(s), a |-> a + one_if(s = <<STAR>>)]
<1>0. k \in Nat \ {0} /\ Len(s) \in Nat /\ Len(format) \in Nat BY DEF Stands_at
<1>1. CASE s = <<STAR>>
  <2>1. Len(s) = 1 /\ s[1] = STAR BY <1>1
  <2>2. at(k + 1 - 1) = STAR BY <2>1, AtStanding
  <2>3. k + 1 - 1 = k BY <1>0
  <2> QED BY <2>1, <2>2, <2>3, <1>1 DEF star_or_number, read_as, one_if
<1>2. CASE s # <<STAR>>
  <2>1. s \in Seq(digit_chars) /\ positional(s, 10) < pow(2, IntW - 1)
    BY <1>2 DEF is_number
  <2>2. skip(format, k, digit_chars) = k + Len(s)
    <3>1. k + Len(s) <= Len(format) => format[k + Len(s)] \notin digit_chars
      BY <1>2 DEF at
    <3> QED BY <3>1, <2>1, SkipsOver
  <2>3. value(format, k, k + Len(s)) = positional(s, 10)
    <3>1. \A j \in 1 .. Len(s) : format[k + j - 1] = s[j] BY DEF Stands_at
    <3> QED BY <3>1, <2>1, <1>0, ValueReads
  <2>4. at(k) # STAR
    <3>1. CASE s = <<>> BY <3>1
    <3>2. CASE s # <<>>
      <4>1. 1 \in 1 .. Len(s) /\ k + 1 - 1 = k BY <3>2, <1>0
      <4>2. at(k) = s[1] BY <4>1, AtStanding
      <4>3. s[1] \in digit_chars BY <4>1, <2>1
      <4> QED BY <4>2, <4>3 DEF digit_chars, STAR
    <3> QED BY <3>1, <3>2
  <2>5. a + 0 = a OBVIOUS
  <2> QED BY <2>2, <2>3, <2>4, <2>5, <1>2 DEF star_or_number, read_as, one_if
<1> QED BY <1>1, <1>2

\* The lengths by the way they are written.
length_name(l) ==
  CASE l = <<CH_H, CH_H>> -> "char"
    [] l = <<CH_H>> -> "short"
    [] l = <<CH_L, CH_L>> -> "long_long"
    [] l = <<CH_L>> -> "long"
    [] l = <<CH_Z>> -> "size_t"
    [] l = <<CH_T>> -> "ptrdiff_t"
    [] l = <<CH_J>> -> "intmax_t"
    [] l = <<upper(CH_L)>> -> "long_double"
    [] OTHER -> "default"

modifier_letters == {CH_H, CH_L, CH_Z, CH_T, CH_J, upper(CH_L)}

LEMMA ModifierLetters == {l[1] : l \in length_modifiers \ {<<>>}} = modifier_letters
<1>1. ASSUME NEW l \in length_modifiers \ {<<>>} PROVE l[1] \in modifier_letters
  BY DEF length_modifiers, modifier_letters
<1>2. /\ <<CH_H>> \in length_modifiers \ {<<>>} /\ <<CH_L>> \in length_modifiers \ {<<>>}
      /\ <<CH_Z>> \in length_modifiers \ {<<>>} /\ <<CH_T>> \in length_modifiers \ {<<>>}
      /\ <<CH_J>> \in length_modifiers \ {<<>>}
      /\ <<upper(CH_L)>> \in length_modifiers \ {<<>>}
  BY DEF length_modifiers
<1>3. ASSUME NEW x \in modifier_letters PROVE \E l \in length_modifiers \ {<<>>} : x = l[1]
  <2>1. <<x>> \in length_modifiers \ {<<>>} BY <1>2 DEF modifier_letters
  <2>2. <<x>>[1] = x OBVIOUS
  <2> QED BY <2>1, <2>2
<1> QED BY <1>1, <1>3

\* The length modifier is read up to its end.
LEMMA LengthReads ==
  ASSUME format \in Seq(Int), NEW l \in length_modifiers, l \in Seq(Int),
         NEW k, Stands_at(format, k, l),
         l \in {<<CH_H>>, <<CH_L>>} => at(k + 1) # l[1],
         l = <<>> => at(k) \notin modifier_letters
  PROVE  get_length_modifier(k) = [length |-> length_name(l), k |-> k + Len(l)]
<1>1. k \in Nat \ {0} /\ k + 1 - 1 = k /\ k + 2 - 1 = k + 1 BY DEF Stands_at
<1>2. /\ Len(l) >= 1 => at(k) = l[1]
      /\ Len(l) >= 2 => at(k + 1) = l[2]
  <2>1. Len(l) \in Nat OBVIOUS
  <2>2. Len(l) >= 1 => 1 \in 1 .. Len(l) BY <2>1
  <2>3. Len(l) >= 2 => 2 \in 1 .. Len(l) BY <2>1
  <2>4. \A j \in 1 .. Len(l) : at(k + j - 1) = l[j] BY AtStanding
  <2> QED BY <2>2, <2>3, <2>4, <1>1
<1> USE DEF get_length_modifier, length_name, CH_H, CH_L, CH_Z, CH_T, CH_J, upper
<1>3. CASE l = <<CH_H, CH_H>>
  <2>1. Len(l) = 2 /\ l[1] = CH_H /\ l[2] = CH_H BY <1>3
  <2> QED BY <2>1, <1>2, <1>3
<1>4. CASE l = <<CH_L, CH_L>>
  <2>1. Len(l) = 2 /\ l[1] = CH_L /\ l[2] = CH_L /\ l # <<CH_H, CH_H>> /\ l # <<CH_H>> BY <1>4
  <2> QED BY <2>1, <1>2, <1>4
<1>5. CASE l = <<CH_H>>
  <2>1. Len(l) = 1 /\ l[1] = CH_H /\ l # <<CH_H, CH_H>> BY <1>5
  <2> QED BY <2>1, <1>2, <1>5
<1>6. CASE l = <<CH_L>>
  <2>1. Len(l) = 1 /\ l[1] = CH_L /\ l # <<CH_H, CH_H>> /\ l # <<CH_L, CH_L>> BY <1>6
  <2> QED BY <2>1, <1>2, <1>6
<1>7. CASE l = <<CH_Z>>
  <2>1. Len(l) = 1 /\ l[1] = CH_Z /\ l # <<CH_H, CH_H>> /\ l # <<CH_L, CH_L>> BY <1>7
  <2> QED BY <2>1, <1>2, <1>7
<1>8. CASE l = <<CH_T>>
  <2>1. Len(l) = 1 /\ l[1] = CH_T /\ l # <<CH_H, CH_H>> /\ l # <<CH_L, CH_L>> BY <1>8
  <2> QED BY <2>1, <1>2, <1>8
<1>9. CASE l = <<CH_J>>
  <2>1. Len(l) = 1 /\ l[1] = CH_J /\ l # <<CH_H, CH_H>> /\ l # <<CH_L, CH_L>> BY <1>9
  <2> QED BY <2>1, <1>2, <1>9
<1>10. CASE l = <<upper(CH_L)>>
  <2>1. Len(l) = 1 /\ l[1] = upper(CH_L) /\ l # <<CH_H, CH_H>> /\ l # <<CH_L, CH_L>>
    BY <1>10
  <2> QED BY <2>1, <1>2, <1>10
<1>11. CASE l = <<>>
  <2>1. Len(l) = 0 /\ k + 0 = k /\ l # <<CH_H, CH_H>> /\ l # <<CH_L, CH_L>> BY <1>1, <1>11
  <2> QED BY <2>1, <1>11 DEF modifier_letters
<1> QED BY <1>3, <1>4, <1>5, <1>6, <1>7, <1>8, <1>9, <1>10, <1>11 DEF length_modifiers

\* The bits of a length are those that its modifier asks for.
LEMMA LengthBits ==
  ASSUME NEW d \in Directives
  PROVE  /\ bits(length_name(d.length)) = length_of(d)
         /\ (length_name(d.length) = "long") <=> (d.length = <<CH_L>>)
         /\ (length_name(d.length) = "long_double") <=> (d.length = <<upper(CH_L)>>)
<1>1. d.length \in length_modifiers BY DEF Directives
<1> QED BY <1>1 DEF length_modifiers, length_name, bits, length_of,
                    CH_H, CH_L, CH_Z, CH_T, CH_J, upper

\* Where the parts of a conversion at p end.
flags_end(d, p) == p + 1 + Len(d.flags)
width_end(d, p) == flags_end(d, p) + Len(d.width)
precision_end(d, p) == width_end(d, p) + Len(d.precision)
length_end(d, p) == precision_end(d, p) + Len(d.length)

\* A conversion stands at p.
Conversion_at(d, p) ==
  /\ d \in Directives /\ legible(d) /\ d.plain = <<>>
  /\ Stands_at(format, p, unparse(d))
  /\ d.specifier = NUL => p + Len(unparse(d)) = Len(format) + 1

\* Its parts are where they should be.
LEMMA Layout ==
  ASSUME format \in Seq(Int), NEW d, NEW p, Conversion_at(d, p)
  PROVE  /\ at(p) = PERCENT
         /\ Stands_at(format, p + 1, d.flags)
         /\ Stands_at(format, flags_end(d, p), d.width)
         /\ Stands_at(format, width_end(d, p), d.precision)
         /\ Stands_at(format, precision_end(d, p), d.length)
         /\ at(length_end(d, p)) = d.specifier
         /\ length_end(d, p) = p + Len(unparse(d)) - Len(Ending(d))
         /\ length_end(d, p) \in Nat
<1>1. /\ d \in Directives /\ legible(d) /\ d.plain = <<>>
      /\ Stands_at(format, p, unparse(d)) /\ p \in Nat \ {0}
  BY DEF Conversion_at, Stands_at
<1>2. /\ d.flags \in Seq(Int) /\ d.width \in Seq(Int) /\ d.precision \in Seq(Int)
      /\ d.length \in Seq(Int) /\ d.specifier \in Int
  BY <1>1, DirectiveTypes
<1>3. /\ unparse(d) = <<PERCENT>> \o (Parts(d) \o Ending(d)) /\ unparse(d) \in Seq(Int)
      /\ Parts(d) \in Seq(Int) /\ Ending(d) \in Seq(Int) /\ <<PERCENT>> \in Seq(Int)
  BY <1>1, UnparseIs DEF PERCENT
<1>4. PICK f, w, r, l, e, h :
        /\ f = d.flags /\ w = d.width /\ r = d.precision /\ l = d.length
        /\ e = Ending(d) /\ h = <<PERCENT>>
  OBVIOUS
<1>5. /\ f \in Seq(Int) /\ w \in Seq(Int) /\ r \in Seq(Int) /\ l \in Seq(Int)
      /\ e \in Seq(Int) /\ h \in Seq(Int)
  BY <1>2, <1>3, <1>4
<1>6. PICK v : v = r \o l OBVIOUS
<1>7. PICK x : x = w \o v OBVIOUS
<1>8. PICK y : y = f \o x OBVIOUS
<1>9. PICK z : z = y \o e OBVIOUS
<1>10. v \in Seq(Int) /\ Len(v) = Len(r) + Len(l) BY <1>5, <1>6, ConcatProperties
<1>11. x \in Seq(Int) /\ Len(x) = Len(w) + Len(v) BY <1>5, <1>7, <1>10, ConcatProperties
<1>12. y \in Seq(Int) /\ Len(y) = Len(f) + Len(x) BY <1>5, <1>8, <1>11, ConcatProperties
<1>13. z \in Seq(Int) /\ Len(z) = Len(y) + Len(e) BY <1>5, <1>9, <1>12, ConcatProperties
<1>14. Parts(d) = y BY <1>4, <1>6, <1>7, <1>8 DEF Parts
<1>15. unparse(d) = h \o z BY <1>3, <1>4, <1>9, <1>14
<1>16. Len(unparse(d)) = 1 + Len(z)
  <2>1. Len(h) = 1 BY <1>4
  <2>2. Len(h \o z) = Len(h) + Len(z) BY <1>5, <1>13, ConcatProperties
  <2> QED BY <2>1, <2>2, <1>15
<1>17. Stands_at(format, p, h) /\ Stands_at(format, p + 1, z)
  <2>1. Len(h) = 1 BY <1>4
  <2>2. Stands_at(format, p, h \o z) BY <1>1, <1>15
  <2>3. Stands_at(format, p, h) /\ Stands_at(format, p + Len(h), z)
    BY <2>2, <1>5, <1>13, StandsSplit
  <2> QED BY <2>1, <2>3
<1>18. Stands_at(format, p + 1, y) /\ Stands_at(format, p + 1 + Len(y), e)
  BY <1>5, <1>9, <1>12, <1>17, StandsSplit
<1>19. Stands_at(format, p + 1, f) /\ Stands_at(format, p + 1 + Len(f), x)
  BY <1>5, <1>8, <1>11, <1>18, StandsSplit
<1>20. Stands_at(format, p + 1 + Len(f), w) /\ Stands_at(format, p + 1 + Len(f) + Len(w), v)
  BY <1>5, <1>7, <1>10, <1>19, StandsSplit
<1>21. /\ Stands_at(format, p + 1 + Len(f) + Len(w), r)
       /\ Stands_at(format, p + 1 + Len(f) + Len(w) + Len(r), l)
  BY <1>5, <1>6, <1>20, StandsSplit
<1>22. /\ Len(f) \in Nat /\ Len(w) \in Nat /\ Len(r) \in Nat /\ Len(l) \in Nat /\ Len(e) \in Nat
       /\ flags_end(d, p) = p + 1 + Len(f)
       /\ width_end(d, p) = p + 1 + Len(f) + Len(w)
       /\ precision_end(d, p) = p + 1 + Len(f) + Len(w) + Len(r)
       /\ length_end(d, p) = p + 1 + Len(f) + Len(w) + Len(r) + Len(l)
  BY <1>4, <1>5 DEF flags_end, width_end, precision_end, length_end
<1>23. p + 1 + Len(y) = length_end(d, p) BY <1>1, <1>10, <1>11, <1>12, <1>22
<1>24. length_end(d, p) = p + Len(unparse(d)) - Len(Ending(d)) /\ length_end(d, p) \in Nat
  <2>1. Len(Ending(d)) = Len(e) BY <1>4
  <2>2. Len(unparse(d)) = 1 + (Len(y) + Len(e)) BY <1>13, <1>16
  <2>3. Len(y) \in Nat BY <1>12
  <2> HIDE DEF Ending
  <2>4. p + 1 + Len(y) = p + (1 + (Len(y) + Len(e))) - Len(e) /\ p + 1 + Len(y) \in Nat
    BY <2>3, <1>1, <1>22
  <2> QED BY <2>1, <2>2, <2>4, <1>23
<1>25. at(length_end(d, p)) = d.specifier
  <2>1. CASE d.specifier = NUL
    <3>1. Len(Ending(d)) = 0 BY <2>1 DEF Ending
    <3>2. length_end(d, p) = Len(format) + 1
      BY <3>1, <2>1, <1>1, <1>24, <1>3 DEF Conversion_at
    <3>3. Len(format) \in Nat OBVIOUS
    <3> QED BY <3>2, <3>3, <2>1 DEF at
  <2>2. CASE d.specifier # NUL
    <3>1. Len(e) = 1 /\ e[1] = d.specifier /\ 1 \in 1 .. Len(e) BY <2>2, <1>4 DEF Ending
    <3>2. at(length_end(d, p) + 1 - 1) = e[1]
      BY <3>1, <1>5, <1>18, <1>23, AtStanding
    <3> QED BY <3>1, <3>2, <1>24
  <2> QED BY <2>1, <2>2
<1>26. at(p) = PERCENT
  <2>1. 1 \in 1 .. Len(h) /\ h[1] = PERCENT /\ p + 1 - 1 = p BY <1>1, <1>4
  <2>2. at(p + 1 - 1) = h[1] BY <2>1, <1>5, <1>17, AtStanding
  <2> QED BY <2>1, <2>2
<1> QED BY <1>4, <1>19, <1>20, <1>21, <1>22, <1>24, <1>25, <1>26

\* The first character of something.
LEMMA AtFirst ==
  ASSUME format \in Seq(Int), NEW q \in Seq(Int), NEW k, Stands_at(format, k, q), q # <<>>
  PROVE  at(k) = q[1]
<1>1. 1 \in 1 .. Len(q) /\ k + 1 - 1 = k BY DEF Stands_at
<1>2. at(k + 1 - 1) = q[1] BY <1>1, AtStanding
<1> QED BY <1>1, <1>2

\* Behind each part comes what cannot be taken for more of it.
LEMMA NextParts ==
  ASSUME format \in Seq(Int), NEW d, NEW p, Conversion_at(d, p)
  PROVE  /\ at(flags_end(d, p)) \notin flag_chars
         /\ d.width = <<>> => at(flags_end(d, p)) # STAR
         /\ d.width # <<STAR>> => at(width_end(d, p)) \notin digit_chars
         /\ (d.precision = <<>>) <=> (at(width_end(d, p)) # DOT)
         /\ d.precision # <<>> /\ Tail(d.precision) # <<STAR>> =>
              at(precision_end(d, p)) \notin digit_chars
         /\ d.precision = <<DOT>> => at(precision_end(d, p)) # STAR
         /\ d.length \in {<<CH_H>>, <<CH_L>>} => at(length_end(d, p)) # d.length[1]
         /\ d.length = <<>> => at(precision_end(d, p)) \notin modifier_letters
<1> USE DEF CH_H, CH_L, CH_Z, CH_T, CH_J, upper, MINUS, PLUS, SPACE, HASH, STAR, DOT
<1> DEFINE k1 == flags_end(d, p)
           k2 == width_end(d, p)
           k3 == precision_end(d, p)
           k4 == length_end(d, p)
<1>1. /\ d \in Directives /\ legible(d) /\ d.plain = <<>> /\ p \in Nat \ {0}
  BY DEF Conversion_at, Stands_at
<1>2. /\ d.flags \in Seq(Int) /\ d.width \in Seq(Int) /\ d.precision \in Seq(Int)
      /\ d.length \in Seq(Int) /\ d.specifier \in Int /\ d.length \in length_modifiers
  BY <1>1, DirectiveTypes
<1>3. /\ is_number(d.width) /\ (d.width # <<>> => d.width[1] # 0)
      /\ d.precision # <<>> => d.precision[1] = DOT
      /\ d.specifier \notin more(d)
  BY <1>1 DEF legible
<1>4. /\ d.width # <<>> => at(k1) = d.width[1]
      /\ d.precision # <<>> => at(k2) = d.precision[1]
      /\ d.length # <<>> => at(k3) = d.length[1]
      /\ at(k4) = d.specifier
  <2>1. /\ Stands_at(format, k1, d.width) /\ Stands_at(format, k2, d.precision)
        /\ Stands_at(format, k3, d.length) /\ at(k4) = d.specifier
    BY Layout
  <2> HIDE DEF k1, k2, k3, k4
  <2>2. d.width # <<>> => at(k1) = d.width[1] BY <2>1, <1>2, AtFirst
  <2>3. d.precision # <<>> => at(k2) = d.precision[1] BY <2>1, <1>2, AtFirst
  <2>4. d.length # <<>> => at(k3) = d.length[1] BY <2>1, <1>2, AtFirst
  <2> QED BY <2>1, <2>2, <2>3, <2>4
<1>5. /\ d.width = <<>> => k2 = k1
      /\ d.precision = <<>> => k3 = k2
      /\ d.length = <<>> => k4 = k3
  <2>1. Len(<<>>) = 0 OBVIOUS
  <2>2. k1 \in Nat /\ k2 \in Nat /\ k3 \in Nat
    <3>1. Len(d.flags) \in Nat /\ Len(d.width) \in Nat /\ Len(d.precision) \in Nat
      BY <1>2
    <3>2. k1 \in Nat
      <4>1. PICK n : n = Len(d.flags) OBVIOUS
      <4>2. n \in Nat /\ p \in Nat BY <4>1, <3>1, <1>1
      <4>3. p + 1 + n \in Nat BY ONLY <4>2
      <4> QED BY <4>1, <4>3 DEF flags_end
    <3>3. k2 \in Nat BY <3>1, <3>2 DEF width_end
    <3>4. k3 \in Nat BY <3>1, <3>3 DEF precision_end
    <3> QED BY <3>2, <3>3, <3>4
  <2> QED BY <2>1, <2>2 DEF width_end, precision_end, length_end
<1>6. d.length # <<>> => d.length[1] \in modifier_letters
  BY <1>2 DEF length_modifiers, modifier_letters
<1> HIDE DEF k1, k2, k3, k4
<1>7. /\ d.length \in {<<CH_H>>, <<CH_L>>} => d.specifier # d.length[1]
      /\ d.length = <<>> =>
           /\ d.specifier \notin modifier_letters
           /\ d.precision # <<>> =>
                /\ Tail(d.precision) # <<STAR>> => d.specifier \notin digit_chars
                /\ d.precision = <<DOT>> => d.specifier # STAR
           /\ d.precision = <<>> =>
                /\ d.specifier # DOT
                /\ d.width # <<STAR>> => d.specifier \notin digit_chars
                /\ d.width = <<>> => d.specifier \notin flag_chars \cup {STAR}
  <2>1. /\ <<CH_H>> # <<>> /\ <<CH_L>> # <<>> BY DEF CH_H, CH_L
  <2>2. CASE d.length \in {<<CH_H>>, <<CH_L>>}
    <3>1. more(d) = {d.length[1]} BY <2>2 DEF more
    <3> QED BY <3>1, <2>1, <2>2, <1>3
  <2>3. CASE d.length = <<>>
    <3>1. more(d) = {l[1] : l \in length_modifiers \ {<<>>}} \cup
           (IF d.precision # <<>>
            THEN (IF Tail(d.precision) = <<STAR>> THEN {} ELSE digit_chars)
                   \cup (IF d.precision = <<DOT>> THEN {STAR} ELSE {})
            ELSE {DOT} \cup (IF d.width = <<STAR>> THEN {} ELSE digit_chars)
                   \cup (IF d.width = <<>> THEN flag_chars \cup {STAR} ELSE {}))
      BY <2>1, <2>3 DEF more
    <3>2. more(d) = modifier_letters \cup
           (IF d.precision # <<>>
            THEN (IF Tail(d.precision) = <<STAR>> THEN {} ELSE digit_chars)
                   \cup (IF d.precision = <<DOT>> THEN {STAR} ELSE {})
            ELSE {DOT} \cup (IF d.width = <<STAR>> THEN {} ELSE digit_chars)
                   \cup (IF d.width = <<>> THEN flag_chars \cup {STAR} ELSE {}))
      BY ONLY <3>1, ModifierLetters
    <3> QED BY ONLY <3>2, <2>1, <2>3, <1>3
  <2>4. CASE d.length \notin {<<CH_H>>, <<CH_L>>, <<>>} BY <2>4
  <2> QED BY <2>2, <2>3, <2>4
<1>8. d.width # <<>> => d.width = <<STAR>> \/ d.width[1] \in digit_chars \ {0}
  <2>1. CASE d.width = <<STAR>> BY <2>1
  <2>2. CASE d.width # <<STAR>>
    <3>1. d.width \in Seq(digit_chars) BY <2>2, <1>3 DEF is_number
    <3>2. d.width # <<>> => 1 \in 1 .. Len(d.width) BY <1>2
    <3> QED BY <3>1, <3>2, <1>3
  <2> QED BY <2>1, <2>2
<1>9. /\ at(k1) \notin flag_chars /\ (d.width = <<>> => at(k1) # STAR)
  <2>1. CASE d.width # <<>>
    <3>1. at(k1) = d.width[1] BY <2>1, <1>4
    <3>2. CASE d.width = <<STAR>>
      <4>1. d.width[1] = STAR BY <3>2
      <4> QED BY <4>1, <3>1, <2>1 DEF flag_chars
    <3>3. CASE d.width[1] \in digit_chars \ {0}
      BY <3>1, <3>3, <2>1, SMTT(40) DEF flag_chars, digit_chars
    <3> QED BY <3>2, <3>3, <2>1, <1>8
  <2>2. CASE d.width = <<>> /\ d.precision # <<>>
    BY <2>2, <1>3, <1>4, <1>5 DEF flag_chars
  <2>3. CASE d.width = <<>> /\ d.precision = <<>> /\ d.length # <<>>
    BY <2>3, <1>4, <1>5, <1>6 DEF flag_chars, modifier_letters
  <2>4. CASE d.width = <<>> /\ d.precision = <<>> /\ d.length = <<>>
    BY <2>4, <1>4, <1>5, <1>7
  <2> QED BY <2>1, <2>2, <2>3, <2>4
<1>10. /\ d.width # <<STAR>> => at(k2) \notin digit_chars
       /\ (d.precision = <<>>) <=> (at(k2) # DOT)
  <2>1. CASE d.precision # <<>> BY <2>1, <1>3, <1>4 DEF digit_chars
  <2>2. CASE d.precision = <<>> /\ d.length # <<>>
    BY <2>2, <1>4, <1>5, <1>6, SMTT(40) DEF digit_chars, modifier_letters
  <2>3. CASE d.precision = <<>> /\ d.length = <<>> BY <2>3, <1>4, <1>5, <1>7
  <2> QED BY <2>1, <2>2, <2>3
<1>11. d.precision # <<>> =>
         /\ Tail(d.precision) # <<STAR>> => at(k3) \notin digit_chars
         /\ d.precision = <<DOT>> => at(k3) # STAR
  <2>1. CASE d.length # <<>>
    <3>1. at(k3) \in modifier_letters BY <2>1, <1>4, <1>6
    <3>2. at(k3) \notin digit_chars /\ at(k3) # STAR
      BY ONLY <3>1 DEF digit_chars, modifier_letters, CH_H, CH_L, CH_Z, CH_T, CH_J, upper, STAR
    <3> QED BY ONLY <3>2
  <2>2. CASE d.length = <<>> BY <2>2, <1>4, <1>5, <1>7
  <2> QED BY <2>1, <2>2
<1>12. <<DOT>> # <<>> OBVIOUS
<1>13. /\ d.length \in {<<CH_H>>, <<CH_L>>} => at(k4) # d.length[1]
       /\ d.length = <<>> => at(k3) \notin modifier_letters
  BY <1>4, <1>5, <1>7
<1> QED BY <1>9, <1>10, <1>11, <1>12, <1>13 DEF k1, k2, k3, k4

\* The numbers that the width and the precision of d stand for, where the words
\* from a on are its arguments.
width_read(d, a) == read_as(d.width, args[a])

precision_read(d, a) ==
  IF d.precision = <<>> THEN -1
  ELSE read_as(Tail(d.precision), args[a + one_if(d.width = <<STAR>>)])

\* A precision that is a star.
LEMMA StarPrecision ==
  ASSUME NEW d \in Directives, legible(d), d.plain = <<>>, d.precision # <<>>
  PROVE  /\ d.precision = <<DOT>> \o Tail(d.precision)
         /\ Tail(d.precision) \in Seq(Int)
         /\ Tail(d.precision) = <<STAR>> <=> d.precision = <<DOT, STAR>>
<1> DEFINE t == Tail(d.precision)
<1>1. d.precision \in Seq(Int) BY DirectiveTypes
<1>2. d.precision[1] = DOT BY DEF legible
<1>3. d.precision = <<Head(d.precision)>> \o t /\ t \in Seq(Int)
  BY <1>1, HeadTailProperties
<1>4. Head(d.precision) = DOT BY <1>1, <1>2
<1>5. <<DOT>> \o <<STAR>> = <<DOT, STAR>>
  <2>1. <<DOT>> \in Seq(Int) /\ <<STAR>> \in Seq(Int) BY DEF DOT, STAR
  <2>2. PICK q : q = <<DOT>> \o <<STAR>> OBVIOUS
  <2>3. q \in Seq(Int) /\ Len(q) = 2 /\ q[1] = DOT /\ q[2] = STAR
    <3>1. Len(<<DOT>>) = 1 /\ Len(<<STAR>>) = 1 /\ <<DOT>>[1] = DOT /\ <<STAR>>[1] = STAR
      OBVIOUS
    <3>2. PICK x, y : x = <<DOT>> /\ y = <<STAR>> OBVIOUS
    <3>3. x \in Seq(Int) /\ y \in Seq(Int) /\ Len(x) = 1 /\ Len(y) = 1
      BY <2>1, <3>1, <3>2
    <3>4. /\ x \o y \in Seq(Int) /\ Len(x \o y) = Len(x) + Len(y)
          /\ \A i \in 1 .. Len(x) + Len(y) :
               (x \o y)[i] = IF i <= Len(x) THEN x[i] ELSE y[i - Len(x)]
      BY ONLY <3>3, ConcatProperties
    <3>5. (x \o y)[1] = x[1] /\ (x \o y)[2] = y[1] BY <3>3, <3>4
    <3> QED BY <2>2, <3>1, <3>2, <3>3, <3>4, <3>5
  <2>4. q = <<DOT, STAR>> BY ONLY <2>3
  <2> QED BY <2>2, <2>4
<1>6. d.precision = <<DOT, STAR>> => t = <<STAR>> OBVIOUS
<1> HIDE DEF t
<1> QED BY <1>3, <1>4, <1>5, <1>6 DEF t

\* A conversion is read as it is written.
LEMMA ParseReads ==
  ASSUME format \in Seq(Int), NEW d, NEW p, Conversion_at(d, p), NEW a \in Nat
  PROVE  LET c == parse(p + 1, a)
             flags == ToSet(d.flags)
                        \cup (IF width_read(d, a) < 0 THEN {MINUS} ELSE {})
         IN  c = [flags |-> IF MINUS \in flags THEN flags \ {0} ELSE flags,
                  width |-> magnitude(width_read(d, a)),
                  precision |-> IF precision_read(d, a) < 0 THEN -1 ELSE precision_read(d, a),
                  length |-> length_name(d.length),
                  specifier |-> get_format_specifier(d.specifier),
                  upper |-> \E ch \in cased_specifiers : d.specifier = upper(ch),
                  k |-> length_end(d, p), a |-> a + stars(d)]
<1> DEFINE k1 == flags_end(d, p)
           k2 == width_end(d, p)
           k3 == precision_end(d, p)
           k4 == length_end(d, p)
           b == a + one_if(d.width = <<STAR>>)
<1>1. /\ d \in Directives /\ legible(d) /\ d.plain = <<>> /\ p \in Nat \ {0}
  BY DEF Conversion_at, Stands_at
<1>2. /\ d.flags \in Seq(Int) /\ d.width \in Seq(Int) /\ d.precision \in Seq(Int)
      /\ d.length \in Seq(Int) /\ d.specifier \in Int /\ d.length \in length_modifiers
      /\ d.flags \in Seq(flag_chars)
  BY <1>1, DirectiveTypes
<1>3. /\ is_number(d.width)
      /\ d.precision # <<>> => d.precision[1] = DOT /\ is_number(Tail(d.precision))
  BY <1>1 DEF legible
<1>4. /\ Stands_at(format, p + 1, d.flags)
      /\ Stands_at(format, k1, d.width)
      /\ Stands_at(format, k2, d.precision)
      /\ Stands_at(format, k3, d.length)
      /\ at(k4) = d.specifier
  BY Layout
<1>5. /\ at(k1) \notin flag_chars
      /\ d.width = <<>> => at(k1) # STAR
      /\ d.width # <<STAR>> => at(k2) \notin digit_chars
      /\ (d.precision = <<>>) <=> (at(k2) # DOT)
      /\ d.precision # <<>> /\ Tail(d.precision) # <<STAR>> => at(k3) \notin digit_chars
      /\ d.precision = <<DOT>> => at(k3) # STAR
      /\ d.length \in {<<CH_H>>, <<CH_L>>} => at(k4) # d.length[1]
      /\ d.length = <<>> => at(k3) \notin modifier_letters
  BY NextParts
<1>6. /\ k1 = p + 1 + Len(d.flags) /\ k2 = k1 + Len(d.width)
      /\ k3 = k2 + Len(d.precision) /\ k4 = k3 + Len(d.length)
  BY DEF flags_end, width_end, precision_end, length_end
<1> HIDE DEF k1, k2, k3, k4
<1>7. skip(format, p + 1, flag_chars) = k1
  <2>1. (p + 1) + Len(d.flags) <= Len(format) =>
          format[(p + 1) + Len(d.flags)] \notin flag_chars
    BY <1>5, <1>6 DEF at
  <2> QED BY <2>1, <1>2, <1>4, <1>6, SkipsOver
<1>8. star_or_number(k1, a) = [v |-> width_read(d, a), k |-> k2, a |-> b]
  <2>1. star_or_number(k1, a) = [v |-> read_as(d.width, args[a]), k |-> k1 + Len(d.width),
                                 a |-> a + one_if(d.width = <<STAR>>)]
    <3>1. d.width # <<STAR>> => at(k1 + Len(d.width)) \notin digit_chars BY <1>5, <1>6
    <3>2. /\ d.width \in Seq(Int) /\ is_number(d.width)
          /\ Stands_at(format, k1, d.width)
          /\ d.width = <<>> => at(k1) # STAR
      BY <1>2, <1>3, <1>4, <1>5
    <3>3. PICK q : q = d.width OBVIOUS
    <3>4. star_or_number(k1, a) = [v |-> read_as(q, args[a]), k |-> k1 + Len(q),
                                   a |-> a + one_if(q = <<STAR>>)]
      <4>1. /\ q \in Seq(Int) /\ is_number(q) /\ Stands_at(format, k1, q)
            /\ q # <<STAR>> => at(k1 + Len(q)) \notin digit_chars
            /\ q = <<>> => at(k1) # STAR
        BY <3>1, <3>2, <3>3
      <4> QED BY ONLY <4>1, format \in Seq(Int), a \in Nat, NumberReads
    <3> QED BY <3>3, <3>4
  <2> QED BY <2>1, <1>6 DEF width_read
<1>9. b \in Nat BY DEF one_if
<1>10. d.precision # <<>> =>
         star_or_number(k2 + 1, b)
           = [v |-> precision_read(d, a), k |-> k3, a |-> a + stars(d)]
  <2>1. SUFFICES ASSUME d.precision # <<>>
        PROVE  star_or_number(k2 + 1, b)
                 = [v |-> precision_read(d, a), k |-> k3, a |-> a + stars(d)]
    OBVIOUS
  <2> DEFINE t == Tail(d.precision)
  <2>2. /\ t \in Seq(Int) /\ Len(d.precision) = 1 + Len(t) /\ Len(t) \in Nat
        /\ d.precision = <<DOT>> \o t
    <3>1. d.precision = <<Head(d.precision)>> \o t /\ t \in Seq(Int)
          /\ Len(t) = Len(d.precision) - 1
      BY <2>1, <1>2, HeadTailProperties
    <3>2. Head(d.precision) = DOT BY <2>1, <1>3
    <3>3. Len(t) \in Nat /\ Len(d.precision) \in Nat BY <1>2, <3>1
    <3> QED BY <3>1, <3>2, <3>3
  <2>3. is_number(t) BY <2>1, <1>3
  <2>4. t = <<>> => d.precision = <<DOT>>
    <3>1. <<DOT>> \o <<>> = <<DOT>> OBVIOUS
    <3> QED BY <3>1, <2>2
  <2>5. t = <<STAR>> <=> d.precision = <<DOT, STAR>> BY <2>1, <1>1, StarPrecision
  <2>6. t # <<STAR>> => at(k3) \notin digit_chars BY <2>1, <1>5
  <2> HIDE DEF t
  <2>7. Stands_at(format, k2 + 1, t)
    <3>1. <<DOT>> \in Seq(Int) /\ Len(<<DOT>>) = 1 BY DEF DOT
    <3>2. Stands_at(format, k2, <<DOT>> \o t) BY <1>4, <2>2
    <3>3. Stands_at(format, k2 + Len(<<DOT>>), t)
      BY <3>1, <3>2, <2>2, StandsSplit
    <3> QED BY <3>1, <3>3
  <2>8. k2 \in Nat /\ (k2 + 1) + Len(t) = k3 BY <1>4, <1>6, <2>2 DEF Stands_at
  <2>9. t = <<>> => at(k2 + 1) # STAR
    <3>1. SUFFICES ASSUME t = <<>> PROVE at(k2 + 1) # STAR OBVIOUS
    <3>2. Len(t) = 0 BY <3>1
    <3>3. k2 + 1 = k3 BY <3>2, <2>8
    <3> QED BY <3>1, <3>3, <2>4, <1>5
  <2>10. star_or_number(k2 + 1, b)
           = [v |-> read_as(t, args[b]), k |-> (k2 + 1) + Len(t), a |-> b + one_if(t = <<STAR>>)]
    <3>1. t # <<STAR>> => at((k2 + 1) + Len(t)) \notin digit_chars BY <2>6, <2>8
    <3> HIDE DEF b
    <3> QED BY <3>1, <2>2, <2>3, <2>7, <2>9, <1>9, NumberReads
  <2>11. b + one_if(t = <<STAR>>) = a + stars(d) BY <2>5 DEF stars, one_if
  <2>12. precision_read(d, a) = read_as(t, args[b]) BY <2>1 DEF precision_read, t
  <2> HIDE DEF b
  <2> QED BY <2>8, <2>10, <2>11, <2>12
<1>11. d.precision = <<>> =>
         /\ at(k2) # DOT /\ k3 = k2 /\ b = a + stars(d) /\ precision_read(d, a) = -1
  <2>1. SUFFICES ASSUME d.precision = <<>>
        PROVE  at(k2) # DOT /\ k3 = k2 /\ b = a + stars(d) /\ precision_read(d, a) = -1
    OBVIOUS
  <2>2. Len(d.precision) = 0 /\ d.precision # <<DOT, STAR>> BY <2>1
  <2>3. k2 \in Nat BY <1>4 DEF Stands_at
  <2> QED BY <2>1, <2>2, <2>3, <1>5, <1>6 DEF stars, one_if, precision_read
<1>12. get_length_modifier(k3) = [length |-> length_name(d.length), k |-> k4]
  <2>1. d.length \in {<<CH_H>>, <<CH_L>>} => at(k3 + 1) # d.length[1]
    <3>1. d.length \in {<<CH_H>>, <<CH_L>>} => Len(d.length) = 1 OBVIOUS
    <3> QED BY <3>1, <1>5, <1>6
  <2> QED BY <2>1, <1>2, <1>4, <1>5, <1>6, LengthReads
<1>13. {format[m] : m \in p + 1 .. k1 - 1} = ToSet(d.flags)
  <2>1. Len(d.flags) \in Nat /\ DOMAIN d.flags = 1 .. Len(d.flags) BY <1>2
  <2>2. ASSUME NEW m \in p + 1 .. k1 - 1 PROVE format[m] \in ToSet(d.flags)
    <3>1. m - p \in 1 .. Len(d.flags) /\ (p + 1) + (m - p) - 1 = m
      <4>1. PICK n : n = Len(d.flags) OBVIOUS
      <4>2. n \in Nat /\ p \in Nat /\ k1 = p + 1 + n BY <4>1, <1>1, <1>6, <2>1
      <4>3. m - p \in 1 .. n /\ (p + 1) + (m - p) - 1 = m BY ONLY <4>2, m \in p + 1 .. k1 - 1
      <4> QED BY <4>1, <4>3
    <3>2. format[m] = d.flags[m - p] BY <3>1, <1>4 DEF Stands_at
    <3> QED BY <3>1, <3>2, <2>1 DEF ToSet
  <2>3. ASSUME NEW j \in 1 .. Len(d.flags)
        PROVE  \E m \in p + 1 .. k1 - 1 : d.flags[j] = format[m]
    <3>1. (p + 1) + j - 1 \in p + 1 .. k1 - 1 BY <1>1, <1>6, <2>1
    <3>2. format[(p + 1) + j - 1] = d.flags[j] BY <1>4 DEF Stands_at
    <3> QED BY <3>1, <3>2
  <2> QED BY <2>1, <2>2, <2>3 DEF ToSet
<1> HIDE DEF b
<1> DEFINE e == skip(format, p + 1, flag_chars)
           w == star_or_number(e, a)
           r == IF at(w.k) = DOT THEN star_or_number(w.k + 1, w.a)
                ELSE [w EXCEPT !.v = -1]
<1>14. w.v = width_read(d, a) /\ w.k = k2 /\ w.a = b BY <1>7, <1>8
<1>15. r.v = precision_read(d, a) /\ r.k = k3 /\ r.a = a + stars(d)
  <2>1. CASE d.precision # <<>>
    <3>1. at(w.k) = DOT BY <2>1, <1>5, <1>14
    <3> HIDE DEF w
    <3> QED BY <3>1, <2>1, <1>10, <1>14
  <2>2. CASE d.precision = <<>>
    <3>1. at(w.k) # DOT BY <2>2, <1>5, <1>14
    <3>2. w = [v |-> width_read(d, a), k |-> k2, a |-> b] BY <1>7, <1>8
    <3> HIDE DEF w
    <3>3. r = [v |-> -1, k |-> k2, a |-> b] BY <3>1, <3>2
    <3> QED BY <3>3, <2>2, <1>11
  <2> QED BY <2>1, <2>2
<1> DEFINE l == get_length_modifier(r.k)
           written_flags == {format[m] : m \in p + 1 .. e - 1}
                              \cup (IF w.v < 0 THEN {MINUS} ELSE {})
<1>16. l.length = length_name(d.length) /\ l.k = k4 BY <1>12, <1>15
<1>17. parse(p + 1, a)
         = [flags |-> IF MINUS \in written_flags THEN written_flags \ {0} ELSE written_flags,
            width |-> magnitude(w.v),
            precision |-> IF r.v < 0 THEN -1 ELSE r.v,
            length |-> l.length, specifier |-> get_format_specifier(at(l.k)),
            upper |-> \E ch \in cased_specifiers : at(l.k) = upper(ch),
            k |-> l.k, a |-> r.a]
  BY DEF parse
<1>18. written_flags = ToSet(d.flags)
                         \cup (IF width_read(d, a) < 0 THEN {MINUS} ELSE {})
  BY <1>7, <1>13, <1>14
<1> HIDE DEF w, r, l, written_flags
<1> QED BY <1>4, <1>18, <1>14, <1>15, <1>16, <1>17 DEF k4

\* The conversion that a specifier, in either case, is read as.
LEMMA SpecifierReads ==
  ASSUME NEW d \in Directives, d.plain = <<>>
  PROVE  LET l == lower(d.specifier)
             s == get_format_specifier(d.specifier)
         IN  /\ is_conversion(d) <=> s \in specifiers
             /\ is_conversion(d) => s = (IF l = CH_I THEN CH_D ELSE l)
             /\ is_conversion(d) =>
                  ((\E ch \in cased_specifiers : d.specifier = upper(ch)) <=> l # d.specifier)
             /\ is_conversion(d) => d.specifier # NUL /\ d.specifier # PERCENT
             /\ is_conversion(d) => (d.specifier = CH_S <=> s = CH_S)
<1> DEFINE x == d.specifier
<1>1. x \in Int BY DEF Directives
<1> HIDE DEF x
<1> USE DEF CH_A, CH_C, CH_D, CH_E, CH_F, CH_G, CH_I, CH_N, CH_O, CH_P, CH_S, CH_U, CH_X,
            upper, cased_specifiers, float_specifiers, specifiers, lower, NUL, PERCENT, CHARS
<1> DEFINE conv == \/ x \in specifiers \cup {CH_I}
                   \/ x # lower(x) /\ lower(x) \in cased_specifiers
<1>2. CASE x \in specifiers \cup {CH_I}
  <2>1. lower(x) = x /\ ~(\E ch \in cased_specifiers : x = upper(ch)) BY <1>2
  <2>2. get_format_specifier(x) = (IF x = CH_I THEN CH_D ELSE x)
    BY <1>2 DEF get_format_specifier
  <2>3. x # NUL /\ x # PERCENT BY <1>2
  <2> QED BY <2>1, <2>2, <2>3, <1>2 DEF is_conversion, x
<1>3. CASE x \notin specifiers \cup {CH_I} /\ \E ch \in cased_specifiers : x = upper(ch)
  <2>1. PICK ch \in cased_specifiers : x = upper(ch) BY <1>3
  <2>2. lower(x) = ch /\ x # ch /\ x # NUL /\ x # PERCENT BY <2>1
  <2>3. \A s \in cased_specifiers : x = upper(s) => s = ch BY <2>1
  <2>4. get_format_specifier(x) = ch
    <3>1. get_format_specifier(x) = CHOOSE s \in cased_specifiers : x = upper(s)
      BY <1>3 DEF get_format_specifier
    <3> QED BY <3>1, <2>1, <2>3
  <2>5. ch \in specifiers /\ ch # CH_I /\ x # CH_S /\ ch # CH_S BY <1>3, <2>1
  <2> QED BY <2>1, <2>2, <2>4, <2>5 DEF is_conversion, x
<1>4. CASE x \notin specifiers \cup {CH_I} /\ ~\E ch \in cased_specifiers : x = upper(ch)
  <2>1. get_format_specifier(x) = NUL BY <1>4 DEF get_format_specifier
  <2>2. ~(x # lower(x) /\ lower(x) \in cased_specifiers) BY <1>1, <1>4
  <2>3. NUL \notin specifiers OBVIOUS
  <2> QED BY <2>1, <2>2, <2>3, <1>4 DEF is_conversion, x
<1> QED BY <1>2, <1>3, <1>4

-----------------------------------------------------------------------------
(* The arguments of a directive                                            *)

\* The function behind args_before.
UpTo(f, ds, m) ==
  f = [k \in 1 .. m |-> IF k = 1 THEN 1 ELSE f[k - 1] + takes(ds[k - 1])]

LEMMA ArgsBefore ==
  ASSUME NEW ds \in Seq(Directives)
  PROVE  /\ args_before(ds, 1) = 1
         /\ \A m \in 1 .. Len(ds) :
              args_before(ds, m + 1) = args_before(ds, m) + takes(ds[m])
         /\ \A m \in 1 .. Len(ds) + 1 :
              /\ args_before(ds, m) \in Nat \ {0}
              /\ args_before(ds, m) <= args_before(ds, Len(ds) + 1)
<1> DEFINE n == Len(ds)
           moves == [k \in 1 .. n |-> [x \in Nat |-> x + takes(ds[k])]]
<1>1. n \in Nat /\ 1 \in Nat OBVIOUS
<1>2. ASSUME NEW k \in 1 .. n PROVE takes(ds[k]) \in Nat
  BY DEF takes, stars
<1>3. moves \in [1 .. n -> [Nat -> Nat]] BY <1>2
<1>4. \A k \in 1 .. n, x \in Nat : moves[k][x] = x + takes(ds[k]) OBVIOUS
<1> HIDE DEF moves, n
<1>5. PICK g \in [0 .. n -> Nat] : Iterated(g, 1, moves, n) BY <1>1, <1>3, Iterates
<1>6. g[0] = 1 BY <1>1, <1>5 DEF Iterated
<1>7. ASSUME NEW k \in 1 .. n PROVE g[k] = g[k - 1] + takes(ds[k])
  <2>1. k \in 0 .. n /\ k # 0 /\ k - 1 \in 0 .. n BY <1>1
  <2>2. g[k] = moves[k][g[k - 1]] BY <2>1, <1>5 DEF Iterated
  <2>3. g[k - 1] \in Nat BY <2>1
  <2> QED BY <2>2, <2>3, <1>4
<1>8. ASSUME NEW m \in 1 .. n + 1 PROVE args_before(ds, m) = g[m - 1]
  <2> DEFINE f == CHOOSE f : UpTo(f, ds, m)
             h == [k \in 1 .. m |-> g[k - 1]]
  <2>1. args_before(ds, m) = f[m] BY DEF args_before, UpTo
  <2>2. ASSUME NEW k \in 1 .. m
        PROVE  h[k] = IF k = 1 THEN 1 ELSE h[k - 1] + takes(ds[k - 1])
    <3>1. CASE k = 1 BY <3>1, <1>6
    <3>2. CASE k # 1
      <4>1. k - 1 \in 1 .. m /\ k - 1 \in 1 .. n BY <3>2, <1>1
      <4> QED BY <4>1, <3>2, <1>7
    <3> QED BY <3>1, <3>2
  <2>3. h = [k \in 1 .. m |-> h[k]] OBVIOUS
  <2> HIDE DEF h
  <2>4. UpTo(h, ds, m)
    <3>1. [k \in 1 .. m |-> h[k]]
            = [k \in 1 .. m |-> IF k = 1 THEN 1 ELSE h[k - 1] + takes(ds[k - 1])]
      BY <2>2
    <3> QED BY <3>1, <2>3 DEF UpTo
  <2>5. UpTo(f, ds, m)
    <3>1. \E x : UpTo(x, ds, m) BY <2>4
    <3> QED BY <3>1
  <2> HIDE DEF f
  <2> DEFINE R == {k \in 0 .. m - 1 : f[k + 1] = g[k]}
  <2>6. \A k \in 1 .. m : f[k] = IF k = 1 THEN 1 ELSE f[k - 1] + takes(ds[k - 1])
    BY <2>5 DEF UpTo
  <2>7. 0 \in R
    <3>1. 0 \in 0 .. m - 1 /\ 0 + 1 = 1 /\ 1 \in 1 .. m BY <1>1
    <3> QED BY <3>1, <2>6, <1>6
  <2>8. ASSUME NEW k \in 0 .. (m - 1) - 1, k \in R PROVE k + 1 \in R
    <3>1. /\ k + 1 \in 0 .. m - 1 /\ (k + 1) + 1 \in 1 .. m /\ (k + 1) + 1 # 1
          /\ ((k + 1) + 1) - 1 = k + 1 /\ k + 1 \in 1 .. n /\ (k + 1) - 1 = k
      BY <1>1
    <3>2. f[(k + 1) + 1] = f[k + 1] + takes(ds[k + 1])
      <4>1. f[(k + 1) + 1] = f[((k + 1) + 1) - 1] + takes(ds[((k + 1) + 1) - 1])
        BY <3>1, <2>6
      <4> QED BY <4>1, <3>1
    <3>3. g[k + 1] = g[k] + takes(ds[k + 1]) BY <3>1, <1>7
    <3> QED BY <3>1, <3>2, <3>3, <2>8
  <2> HIDE DEF R
  <2>9. m - 1 \in Nat BY <1>1
  <2>10. 0 .. m - 1 \subseteq R BY <2>7, <2>8, <2>9, InductTo
  <2>11. m - 1 \in R BY <2>9, <2>10
  <2>12. (m - 1) + 1 = m BY <1>1
  <2> QED BY <2>1, <2>11, <2>12 DEF R
<1>9. args_before(ds, 1) = 1
  <2>1. 1 \in 1 .. n + 1 /\ 1 - 1 = 0 BY <1>1
  <2> QED BY <2>1, <1>6, <1>8
<1>10. ASSUME NEW m \in 1 .. n
       PROVE  args_before(ds, m + 1) = args_before(ds, m) + takes(ds[m])
  <2>1. m \in 1 .. n + 1 /\ m + 1 \in 1 .. n + 1 /\ (m + 1) - 1 = m BY <1>1
  <2>2. args_before(ds, m + 1) = g[m] /\ args_before(ds, m) = g[m - 1] BY <2>1, <1>8
  <2> QED BY <2>2, <1>7
<1> DEFINE U == {t \in 0 .. n : g[n - t] <= g[n] /\ g[t] > 0}
<1>11. 0 \in U
  <2>1. n \in 0 .. n /\ n - 0 = n /\ 0 \in 0 .. n BY <1>1
  <2>2. g[n] \in Nat BY <2>1
  <2> QED BY <2>1, <2>2, <1>6
<1>12. ASSUME NEW t \in 0 .. n - 1, t \in U PROVE t + 1 \in U
  <2>1. /\ n - t \in 1 .. n /\ (n - t) - 1 = n - (t + 1) /\ t + 1 \in 0 .. n
        /\ n - (t + 1) \in 0 .. n /\ n - t \in 0 .. n /\ n \in 0 .. n
        /\ t + 1 \in 1 .. n /\ (t + 1) - 1 = t
    BY <1>1
  <2>2. g[n - t] = g[n - (t + 1)] + takes(ds[n - t]) BY <2>1, <1>7
  <2>3. g[t + 1] = g[t] + takes(ds[t + 1]) BY <2>1, <1>7
  <2>4. /\ g[n - (t + 1)] \in Nat /\ g[n - t] \in Nat /\ g[n] \in Nat /\ g[t] \in Nat
        /\ takes(ds[n - t]) \in Nat /\ takes(ds[t + 1]) \in Nat
    <3>1. \A k \in 1 .. n : takes(ds[k]) \in Nat BY <1>2
    <3>2. takes(ds[n - t]) \in Nat BY ONLY <3>1, <2>1
    <3>3. takes(ds[t + 1]) \in Nat BY ONLY <3>1, <2>1
    <3>4. /\ g[n - (t + 1)] \in Nat /\ g[n - t] \in Nat /\ g[n] \in Nat /\ g[t] \in Nat
      BY ONLY <2>1, g \in [0 .. n -> Nat], t \in 0 .. n - 1, n \in Nat
    <3> QED BY <3>2, <3>3, <3>4
  <2> QED BY <2>1, <2>2, <2>3, <2>4, <1>12, SMTT(40)
<1> HIDE DEF U
<1>13. 0 .. n \subseteq U BY <1>1, <1>11, <1>12, InductTo
<1>14. ASSUME NEW m \in 1 .. n + 1
       PROVE  /\ args_before(ds, m) \in Nat \ {0}
              /\ args_before(ds, m) <= args_before(ds, n + 1)
  <2>1. /\ m - 1 \in 0 .. n /\ n - (m - 1) \in 0 .. n /\ n - (n - (m - 1)) = m - 1
        /\ n + 1 \in 1 .. n + 1 /\ (n + 1) - 1 = n
    BY <1>1
  <2>2. args_before(ds, m) = g[m - 1] /\ args_before(ds, n + 1) = g[n] BY <2>1, <1>8
  <2>3. m - 1 \in U /\ n - (m - 1) \in U BY <2>1, <1>13
  <2>4. g[m - 1] > 0 /\ g[m - 1] <= g[n] /\ g[m - 1] \in Nat BY <2>1, <2>3 DEF U
  <2> QED BY <2>1, <2>2, <2>4
<1> QED BY <1>9, <1>10, <1>14 DEF n

-----------------------------------------------------------------------------
(* A directive of the call, as it is read and as it is meant               *)

\* What the walk never changes.
Fixed ==
  /\ Formatted(written) /\ format = FlattenSeq(Texts(written))
  /\ args \in Seq(0 .. UINT_MAX)
  /\ args_before(written, Len(written) + 1) <= Len(args) + 1
  /\ strings_given

\* Where a directive stands in the format, and how it begins.
LEMMA DirectiveStands ==
  ASSUME Fixed, NEW m \in DOMAIN written
  PROVE  LET d == written[m]
             p == begins(written, m)
         IN  /\ format \in Seq(Int) /\ d \in Directives /\ legible(d)
             /\ Stands_at(format, p, unparse(d))
             /\ begins(written, m + 1) = p + Len(unparse(d))
             /\ at(p) = unparse(d)[1] /\ at(p) # NUL
             /\ (at(p) = PERCENT) <=> (d.plain = <<>>)
             /\ d.plain = <<>> => Conversion_at(d, p)
<1> DEFINE d == written[m]
           p == begins(written, m)
           u == unparse(d)
<1>1. written \in Seq(Directives) /\ Formatted(written) BY DEF Fixed, Formatted
<1>2. m \in 1 .. Len(written) /\ d \in Directives /\ legible(d) BY <1>1 DEF Formatted
<1>3. /\ format \in Seq(Int) /\ u \in Seq(Int) /\ p \in Nat \ {0}
      /\ begins(written, m + 1) = p + Len(u)
      /\ p + Len(u) <= Len(format) + 1
      /\ m = Len(written) => p + Len(u) = Len(format) + 1
      /\ \A j \in 1 .. Len(u) : format[p + j - 1] = u[j]
  BY <1>1, Standing, SMTT(40) DEF Fixed
<1>4. Stands_at(format, p, u)
  <2> HIDE DEF u, p
  <2> QED BY <1>3 DEF Stands_at
<1>5. u # <<>> /\ (d.plain = <<>> => u = <<PERCENT>> \o (Parts(d) \o Ending(d)))
      /\ Parts(d) \in Seq(Int) /\ Ending(d) \in Seq(Int)
  BY <1>2, UnparseIs
<1>6. at(p) = u[1] BY <1>3, <1>4, <1>5, AtFirst
<1>7. d.plain = <<>> => u[1] = PERCENT
  <2>1. SUFFICES ASSUME d.plain = <<>> PROVE u[1] = PERCENT OBVIOUS
  <2>2. PICK x, y : x = <<PERCENT>> /\ y = Parts(d) \o Ending(d) OBVIOUS
  <2>3. x \in Seq(Int) /\ Len(x) = 1 /\ x[1] = PERCENT BY <2>2 DEF PERCENT
  <2>4. y \in Seq(Int) /\ Len(y) \in Nat BY <2>2, <1>5, ConcatProperties
  <2>5. \A i \in 1 .. Len(x) + Len(y) :
          (x \o y)[i] = IF i <= Len(x) THEN x[i] ELSE y[i - Len(x)]
    BY ONLY <2>3, <2>4, ConcatProperties
  <2>6. 1 \in 1 .. Len(x) + Len(y) BY <2>3, <2>4
  <2>7. (x \o y)[1] = x[1]
    <3>1. PICK z : z = x \o y OBVIOUS
    <3>2. z[1] = IF 1 <= Len(x) THEN x[1] ELSE y[1 - Len(x)] BY <2>5, <2>6, <3>1
    <3>3. z[1] = x[1] BY ONLY <3>2, <2>3
    <3> QED BY <3>1, <3>3
  <2> HIDE DEF u
  <2> QED BY <2>1, <2>2, <2>3, <2>7, <1>5
<1>8. d.plain # <<>> => u[1] \notin {PERCENT, NUL}
  <2>1. SUFFICES ASSUME d.plain # <<>> PROVE u[1] \notin {PERCENT, NUL} OBVIOUS
  <2>2. u = d.plain /\ d.plain \in Seq(Int \ {PERCENT, NUL})
    BY <2>1, <1>2 DEF unparse, legible
  <2>3. 1 \in 1 .. Len(d.plain) BY <2>1, <2>2
  <2> QED BY <2>2, <2>3
<1>9. d.plain = <<>> => Conversion_at(d, p)
  <2>1. SUFFICES ASSUME d.plain = <<>>, d.specifier = NUL PROVE p + Len(u) = Len(format) + 1
    BY <1>2, <1>4 DEF Conversion_at
  <2>2. m = Len(written)
    <3>1. SUFFICES ASSUME m # Len(written) PROVE FALSE OBVIOUS
    <3>2. m \in 1 .. Len(written) - 1 BY <3>1, <1>1, <1>2
    <3> QED BY <3>2, <2>1, <1>1 DEF Formatted
  <2> QED BY <2>2, <1>3
<1>10. PERCENT # NUL BY DEF PERCENT, NUL
<1> HIDE DEF u, p
<1> QED BY <1>2, <1>3, <1>4, <1>6, <1>7, <1>8, <1>9, <1>10 DEF u, p

\* The format ends behind the last one.
LEMMA EndStands ==
  ASSUME Fixed
  PROVE  /\ at(begins(written, Len(written) + 1)) = NUL
         /\ begins(written, Len(written) + 1) = Len(format) + 1
         /\ format \in Seq(Int)
         /\ \A m \in 1 .. Len(written) + 1 : begins(written, m) \in 1 .. Len(format) + 1
<1>1. format \in Seq(Int) /\ begins(written, Len(written) + 1) = Len(format) + 1
  BY FromEndToEnd DEF Fixed
<1>2. written \in Seq(Directives) /\ Len(format) \in Nat BY <1>1 DEF Fixed, Formatted
<1>3. ASSUME NEW m \in 1 .. Len(written) + 1
      PROVE  begins(written, m) \in 1 .. Len(format) + 1
  <2>1. CASE m = Len(written) + 1 BY <2>1, <1>1, <1>2
  <2>2. CASE m # Len(written) + 1
    <3>1. m \in DOMAIN written BY <2>2, <1>2
    <3>2. PICK q : q = unparse(written[m]) OBVIOUS
    <3>3. Stands_at(format, begins(written, m), q) /\ q \in Seq(Int)
      <4>1. written[m] \in Directives /\ legible(written[m])
            /\ Stands_at(format, begins(written, m), unparse(written[m]))
        BY <3>1, DirectiveStands
      <4> QED BY <4>1, <3>2, UnparseIs
    <3>4. Len(q) \in Nat BY <3>3
    <3> QED BY <3>3, <3>4, <1>2 DEF Stands_at
  <2> QED BY <2>1, <2>2
<1> QED BY <1>1, <1>2, <1>3 DEF at

\* Plain text ends where the next directive begins.
LEMMA PlainEnds ==
  ASSUME Fixed, NEW m \in DOMAIN written, written[m].plain # <<>>,
         NEW e \in begins(written, m) + 1 .. Len(format) + 1,
         at(e) \in {PERCENT, NUL},
         \A l \in begins(written, m) .. e - 1 : format[l] # PERCENT
  PROVE  e = begins(written, m + 1)
<1> DEFINE p == begins(written, m)
           n == begins(written, m + 1)
<1>1. PICK q : q = written[m].plain OBVIOUS
<1>2. /\ format \in Seq(Int) /\ q \in Seq(Int \ {PERCENT, NUL}) /\ q # <<>>
      /\ Stands_at(format, p, q) /\ n = p + Len(q)
  <2>1. /\ format \in Seq(Int) /\ legible(written[m])
        /\ Stands_at(format, p, unparse(written[m]))
        /\ n = p + Len(unparse(written[m]))
    BY DirectiveStands
  <2>2. unparse(written[m]) = q BY <1>1 DEF unparse
  <2> QED BY <2>1, <2>2, <1>1 DEF legible
<1>3. /\ Len(format) \in Nat /\ Len(q) \in Nat /\ p \in Nat \ {0} /\ n \in Nat
      /\ n <= Len(format) + 1
  BY <1>2 DEF Stands_at
<1>4. n = Len(format) + 1 \/ (n <= Len(format) /\ format[n] = PERCENT)
  <2>1. written \in Seq(Directives) /\ Formatted(written) BY DEF Fixed, Formatted
  <2>2. CASE m = Len(written) BY <2>2, EndStands
  <2>3. CASE m # Len(written)
    <3>1. m \in 1 .. Len(written) - 1 /\ m + 1 \in DOMAIN written BY <2>1, <2>3
    <3>2. written[m + 1].plain = <<>> BY <3>1, <2>1 DEF Formatted
    <3>3. at(n) = PERCENT BY <3>1, <3>2, DirectiveStands
    <3> QED BY <3>3, <1>3 DEF at, PERCENT, NUL
  <2> QED BY <2>2, <2>3
<1>0. e \in p + 1 .. Len(format) + 1 OBVIOUS
<1> HIDE DEF p, n
<1>5. ~(e > n)
  <2>1. SUFFICES ASSUME e > n PROVE FALSE OBVIOUS
  <2>2. n <= Len(format) /\ n \in p .. e - 1 BY <2>1, <1>2, <1>3, <1>4 DEF p
  <2> QED BY <2>2, <1>3, <1>4 DEF p
<1>6. ~(e < n)
  <2>1. SUFFICES ASSUME e < n PROVE FALSE OBVIOUS
  <2>2. e - p + 1 \in 1 .. Len(q) /\ p + (e - p + 1) - 1 = e /\ e <= Len(format)
    BY ONLY <2>1, <1>0, <1>2, <1>3
  <2>3. format[e] = q[e - p + 1] BY <2>2, <1>2 DEF Stands_at
  <2>4. q[e - p + 1] \notin {PERCENT, NUL} BY <2>2, <1>2
  <2> QED BY <2>2, <2>3, <2>4 DEF at
<1> QED BY <1>3, <1>5, <1>6 DEF p, n

\* There is such an end.
LEMMA PlainHasEnd ==
  ASSUME Fixed, NEW m \in DOMAIN written, written[m].plain # <<>>
  PROVE  LET p == begins(written, m)
             e == CHOOSE x \in p + 1 .. Len(format) + 1 :
                    /\ at(x) \in {PERCENT, NUL}
                    /\ \A l \in p .. x - 1 : format[l] # PERCENT
         IN  e = begins(written, m + 1)
<1> DEFINE p == begins(written, m)
           n == begins(written, m + 1)
           ends(x) == /\ at(x) \in {PERCENT, NUL}
                      /\ \A l \in p .. x - 1 : format[l] # PERCENT
<1>1. PICK q : q = written[m].plain OBVIOUS
<1>2. /\ format \in Seq(Int) /\ q \in Seq(Int \ {PERCENT, NUL}) /\ q # <<>>
      /\ Stands_at(format, p, q) /\ n = p + Len(q)
  <2>1. /\ format \in Seq(Int) /\ legible(written[m])
        /\ Stands_at(format, p, unparse(written[m]))
        /\ n = p + Len(unparse(written[m]))
    BY DirectiveStands
  <2>2. unparse(written[m]) = q BY <1>1 DEF unparse
  <2> QED BY <2>1, <2>2, <1>1 DEF legible
<1>3. /\ Len(format) \in Nat /\ Len(q) \in Nat /\ Len(q) > 0 /\ p \in Nat \ {0} /\ n \in Nat
      /\ n <= Len(format) + 1
  BY <1>2 DEF Stands_at
<1>4. at(n) \in {PERCENT, NUL}
  <2>1. written \in Seq(Directives) /\ Formatted(written) BY DEF Fixed, Formatted
  <2>2. CASE m = Len(written) BY <2>2, EndStands
  <2>3. CASE m # Len(written)
    <3>1. m \in 1 .. Len(written) - 1 /\ m + 1 \in DOMAIN written BY <2>1, <2>3
    <3>2. written[m + 1].plain = <<>> BY <3>1, <2>1 DEF Formatted
    <3> QED BY <3>1, <3>2, DirectiveStands
  <2> QED BY <2>2, <2>3
<1>5. ends(n) /\ n \in p + 1 .. Len(format) + 1
  <2>1. ASSUME NEW l \in p .. n - 1 PROVE format[l] # PERCENT
    <3> HIDE DEF p, n
    <3>1. l - p + 1 \in 1 .. Len(q) /\ p + (l - p + 1) - 1 = l BY <1>2, <1>3
    <3>2. format[l] = q[l - p + 1] BY <3>1, <1>2 DEF Stands_at
    <3> QED BY <3>1, <3>2, <1>2
  <2>2. n \in p + 1 .. Len(format) + 1
    <3> HIDE DEF p, n
    <3> QED BY <1>2, <1>3
  <2> QED BY <2>1, <2>2, <1>4
<1>6. \A x \in p + 1 .. Len(format) + 1 : ends(x) => x = n BY PlainEnds
<1> HIDE DEF ends
<1>7. (CHOOSE x \in p + 1 .. Len(format) + 1 : ends(x)) = n BY <1>5, <1>6
<1> QED BY <1>7 DEF ends

\* A percent sign behind one makes a directive of its own, which takes no
\* argument.
LEMMA PercentSign ==
  ASSUME Fixed, NEW m \in DOMAIN written, written[m].plain = <<>>
  PROVE  LET d == written[m]
         IN  /\ (at(begins(written, m) + 1) = PERCENT) <=> (unparse(d) = <<PERCENT, PERCENT>>)
             /\ unparse(d) = <<PERCENT, PERCENT>> =>
                  ~is_conversion(d) /\ takes(d) = 0 /\ Len(unparse(d)) = 2
<1> USE DEF CH_H, CH_L, CH_Z, CH_T, CH_J, upper, MINUS, PLUS, SPACE, HASH, STAR, DOT,
            PERCENT, NUL
<1> DEFINE d == written[m]
           p == begins(written, m)
<1>1. /\ format \in Seq(Int) /\ d \in Directives /\ legible(d) /\ d.plain = <<>>
      /\ Conversion_at(d, p) /\ Stands_at(format, p, unparse(d)) /\ at(p) = unparse(d)[1]
      /\ at(p) = PERCENT /\ p \in Nat \ {0}
  BY DirectiveStands DEF Stands_at
<1> HIDE DEF p, d
<1>2. PICK u : u = unparse(d) OBVIOUS
<1>3. u \in Seq(Int) /\ Stands_at(format, p, u) /\ u[1] = PERCENT /\ Len(u) \in Nat
  BY <1>1, <1>2, UnparseIs
<1>4. ASSUME at(p + 1) = PERCENT
      PROVE  u = <<PERCENT, PERCENT>> /\ takes(d) = 0 /\ d.specifier = PERCENT
  <2>1. /\ d.flags \in Seq(Int) /\ d.width \in Seq(Int) /\ d.precision \in Seq(Int)
        /\ d.length \in Seq(Int) /\ d.specifier \in Int /\ d.length \in length_modifiers
        /\ d.flags \in Seq(flag_chars)
    BY <1>1, DirectiveTypes
  <2>2. /\ Stands_at(format, p + 1, d.flags)
        /\ Stands_at(format, flags_end(d, p), d.width)
        /\ Stands_at(format, width_end(d, p), d.precision)
        /\ Stands_at(format, precision_end(d, p), d.length)
        /\ at(length_end(d, p)) = d.specifier
        /\ length_end(d, p) = p + Len(u) - Len(Ending(d))
    BY <1>1, <1>2, Layout
  <2>3. d.flags = <<>>
    <3>1. SUFFICES ASSUME d.flags # <<>> PROVE FALSE OBVIOUS
    <3>2. at(p + 1) = d.flags[1] BY <3>1, <2>1, <2>2, <1>1, AtFirst
    <3>3. 1 \in 1 .. Len(d.flags) BY <3>1, <2>1
    <3>4. d.flags[1] \in flag_chars BY <3>3, <2>1
    <3> QED BY <3>2, <3>4, <1>4 DEF flag_chars
  <2>4. flags_end(d, p) = p + 1
    <3>1. Len(d.flags) = 0 BY <2>3
    <3> QED BY <3>1, <1>1 DEF flags_end
  <2>5. d.width = <<>>
    <3>1. SUFFICES ASSUME d.width # <<>> PROVE FALSE OBVIOUS
    <3>2. at(p + 1) = d.width[1] BY <3>1, <2>1, <2>2, <2>4, <1>1, AtFirst
    <3>3. 1 \in 1 .. Len(d.width) BY <3>1, <2>1
    <3>4. CASE d.width = <<STAR>>
      <4>1. d.width[1] = STAR BY <3>4
      <4> QED BY <4>1, <3>2, <1>4
    <3>5. CASE d.width # <<STAR>>
      <4>1. d.width \in Seq(digit_chars) BY <3>5, <1>1 DEF legible, is_number
      <4>2. d.width[1] \in digit_chars BY <4>1, <3>3
      <4> QED BY <4>2, <3>2, <1>4 DEF digit_chars
    <3> QED BY <3>4, <3>5
  <2>6. width_end(d, p) = p + 1
    <3>1. Len(d.width) = 0 BY <2>5
    <3> QED BY <3>1, <2>4, <1>1 DEF width_end
  <2>7. d.precision = <<>>
    <3>1. SUFFICES ASSUME d.precision # <<>> PROVE FALSE OBVIOUS
    <3>2. at(p + 1) = d.precision[1] BY <3>1, <2>1, <2>2, <2>6, <1>1, AtFirst
    <3> QED BY <3>1, <3>2, <1>1, <1>4 DEF legible
  <2>8. precision_end(d, p) = p + 1
    <3>1. Len(d.precision) = 0 BY <2>7
    <3> QED BY <3>1, <2>6, <1>1 DEF precision_end
  <2>9. d.length = <<>>
    <3>1. SUFFICES ASSUME d.length # <<>> PROVE FALSE OBVIOUS
    <3>2. at(p + 1) = d.length[1] BY <3>1, <2>1, <2>2, <2>8, <1>1, AtFirst
    <3>3. d.length[1] # PERCENT BY <3>1, <2>1 DEF length_modifiers
    <3> QED BY <3>2, <3>3, <1>4
  <2>10. length_end(d, p) = p + 1
    <3>1. Len(d.length) = 0 BY <2>9
    <3> QED BY <3>1, <2>8, <1>1 DEF length_end
  <2>11. d.specifier = PERCENT BY <2>2, <2>10, <1>4
  <2>12. Len(Ending(d)) = 1 BY <2>11 DEF Ending
  <2>13. Len(u) = 2
    <3>1. p + 1 = p + Len(u) - 1 BY <2>2, <2>10, <2>12
    <3>2. PICK n : n = Len(u) OBVIOUS
    <3>3. p \in Nat /\ n \in Nat /\ p + 1 = p + n - 1 BY <3>1, <3>2, <1>1, <1>3
    <3>4. n = 2 BY ONLY <3>3
    <3> QED BY <3>2, <3>4
  <2>14. u[2] = PERCENT
    <3>1. 2 \in 1 .. Len(u) /\ p + 2 - 1 = p + 1 BY <2>13, <1>1
    <3>2. at(p + 2 - 1) = u[2] BY <3>1, <1>1, <1>3, AtStanding
    <3> QED BY <3>1, <3>2, <1>4
  <2>15. u = <<PERCENT, PERCENT>> BY ONLY <2>13, <2>14, <1>3
  <2>16. takes(d) = 0
    <3>1. ~is_conversion(d) BY <2>11, <1>1, SpecifierReads
    <3> QED BY <3>1, <2>5, <2>7 DEF takes, stars
  <2> QED BY <2>11, <2>15, <2>16
<1>5. ASSUME u = <<PERCENT, PERCENT>> PROVE at(p + 1) = PERCENT /\ Len(u) = 2
  <2>1. Len(u) = 2 /\ u[2] = PERCENT BY <1>5
  <2>2. 2 \in 1 .. Len(u) /\ p + 2 - 1 = p + 1 BY <2>1, <1>1
  <2>3. at(p + 2 - 1) = u[2] BY <2>2, <1>1, <1>3, AtStanding
  <2> QED BY <2>1, <2>2, <2>3
<1>6. d.specifier = PERCENT => ~is_conversion(d) BY <1>1, SpecifierReads
<1> QED BY <1>2, <1>4, <1>5, <1>6 DEF d, p

\* The number that is meant is the one that is read.
LEMMA MeantIs ==
  ASSUME NEW d \in Directives, legible(d), d.plain = <<>>, NEW x
  PROVE  /\ meant(d.width, 0, x) = read_as(d.width, x)
         /\ meant(d.precision, -1, x)
              = IF d.precision = <<>> THEN -1 ELSE read_as(Tail(d.precision), x)
<1> USE DEF STAR, DOT
<1>1. /\ d.width \in Seq(Int) /\ d.precision \in Seq(Int) BY DirectiveTypes
<1>2. /\ is_number(d.width)
      /\ d.precision # <<>> => d.precision[1] = DOT /\ is_number(Tail(d.precision))
  BY DEF legible
<1>3. signed(x, IntW) = as_int(x) BY DEF signed, as_int
<1>4. meant(d.width, 0, x) = read_as(d.width, x)
  <2>1. CASE d.width = <<>>
    <3>1. meant(d.width, 0, x) = 0 BY <2>1 DEF meant
    <3>2. <<>> # <<STAR>> OBVIOUS
    <3>3. positional(<<>>, 10) = 0
      <4>1. <<>> \in Seq(Nat) /\ 10 \in Nat /\ Len(<<>>) = 0 OBVIOUS
      <4>2. PICK f \in [0 .. Len(<<>>) -> Nat] :
              Climbs(f, <<>>, 10) /\ positional(<<>>, 10) = f[Len(<<>>)]
        BY <4>1, PositionalIs
      <4> QED BY <4>1, <4>2 DEF Climbs
    <3> QED BY <2>1, <3>1, <3>2, <3>3 DEF read_as
  <2>2. CASE d.width = <<STAR>>
    <3>1. Last(d.width) = STAR /\ d.width # <<>> BY <2>2 DEF Last
    <3> QED BY <3>1, <2>2, <1>3 DEF meant, read_as
  <2>3. CASE d.width # <<>> /\ d.width # <<STAR>>
    <3>1. d.width \in Seq(digit_chars) BY <2>3, <1>2 DEF is_number
    <3>2. 1 \in 1 .. Len(d.width) /\ Len(d.width) \in 1 .. Len(d.width) BY <2>3, <1>1
    <3>3. Last(d.width) # STAR /\ d.width[1] # DOT BY <3>1, <3>2 DEF Last, digit_chars
    <3> QED BY <3>3, <2>3 DEF meant, read_as
  <2> QED BY <2>1, <2>2, <2>3
<1>5. d.precision # <<>> => meant(d.precision, -1, x) = read_as(Tail(d.precision), x)
  <2>1. SUFFICES ASSUME d.precision # <<>>
        PROVE  meant(d.precision, -1, x) = read_as(Tail(d.precision), x)
    OBVIOUS
  <2> DEFINE t == Tail(d.precision)
             n == Len(d.precision)
  <2>2. /\ t \in Seq(Int) /\ Len(t) = n - 1 /\ n \in Nat /\ n > 0 /\ d.precision[1] = DOT
        /\ \A i \in 1 .. n - 1 : t[i] = d.precision[i + 1]
    BY <2>1, <1>1, <1>2
  <2>3. Last(d.precision) = d.precision[n] BY DEF Last
  <2> HIDE DEF t, n
  <2>4. CASE t = <<STAR>>
    <3>1. Len(t) = 1 /\ t[1] = STAR BY <2>4
    <3>2. n = 2 /\ 1 \in 1 .. n - 1
      <4>1. n - 1 = 1 BY <3>1, <2>2
      <4>2. n \in Nat BY <2>2
      <4> QED BY ONLY <4>1, <4>2
    <3>3. d.precision[n] = STAR
      <4>1. t[1] = d.precision[1 + 1] BY <2>2, <3>2
      <4>2. 1 + 1 = n BY <3>2
      <4> QED BY ONLY <4>1, <4>2, <3>1
    <3> QED BY <3>3, <2>1, <2>3, <2>4, <1>3 DEF meant, read_as, t
  <2>5. CASE t # <<STAR>>
    <3>1. t \in Seq(digit_chars)
      <4>1. is_number(t) BY <2>1, <1>2 DEF t
      <4> QED BY <4>1, <2>5 DEF is_number
    <3>2. d.precision[n] # STAR
      <4>1. CASE n = 1 BY <4>1, <2>2
      <4>2. CASE n # 1
        <5>1. n - 1 \in 1 .. n - 1 /\ n - 1 \in 1 .. Len(t) /\ (n - 1) + 1 = n
          BY <4>2, <2>2
        <5>2. t[n - 1] = d.precision[n] BY <5>1, <2>2
        <5>3. t[n - 1] \in digit_chars BY <5>1, <3>1
        <5> QED BY <5>2, <5>3 DEF digit_chars
      <4> QED BY <4>1, <4>2
    <3> QED BY <3>2, <2>1, <2>2, <2>3, <2>5 DEF meant, read_as, t
  <2> QED BY <2>4, <2>5
<1>6. d.precision = <<>> => meant(d.precision, -1, x) = -1 BY DEF meant
<1> QED BY <1>4, <1>5, <1>6

\* The conversion c that is read says what the directive w means.
Same(c, w) ==
  /\ c.specifier = w.specifier /\ (c.upper <=> w.upper)
  /\ c.width = w.width /\ c.width \in Nat
  /\ c.precision = w.precision /\ c.precision \in Nat \cup {-1}
  /\ MINUS \in c.flags <=> w.left
  /\ \A f \in {PLUS, SPACE, HASH} : f \in c.flags <=> f \in w.flags
  /\ 0 \in c.flags <=> (0 \in w.flags /\ ~w.left)
  /\ bits(c.length) = w.bits
  /\ (c.length = "long" <=> w.wide) /\ (c.length = "long_double" <=> w.long_double)

\* A number that is read is a whole number.
LEMMA ReadTyped ==
  ASSUME NEW s, is_number(s), NEW x, s = <<STAR>> => x \in Int
  PROVE  read_as(s, x) \in Int
<1>1. CASE s = <<STAR>>
  <2>1. IntW - 1 \in Nat /\ IntW \in Nat /\ 2 \in Nat \ {0} BY WordSize
  <2>2. pow(2, IntW) \in Nat \ {0} /\ pow(2, IntW - 1) \in Nat BY <2>1, PowPositive
  <2>3. as_int(x) \in Int BY <1>1, <2>2 DEF as_int
  <2> QED BY <1>1, <2>3 DEF read_as
<1>2. CASE s # <<STAR>>
  <2>1. s \in Seq(digit_chars) /\ digit_chars \subseteq Nat BY <1>2 DEF is_number, digit_chars
  <2>2. s \in Seq(Nat) /\ 10 \in Nat BY <2>1, SeqMonotonic
  <2>3. PICK f \in [0 .. Len(s) -> Nat] : Climbs(f, s, 10) /\ positional(s, 10) = f[Len(s)]
    BY <2>2, PositionalIs
  <2>4. Len(s) \in 0 .. Len(s) BY <2>2
  <2> QED BY <2>3, <2>4, <1>2 DEF read_as
<1> QED BY <1>1, <1>2

LEMMA ReadsAsMeant ==
  ASSUME Fixed, NEW m \in DOMAIN written, written[m].plain = <<>>
  PROVE  LET d == written[m]
             c == parse(begins(written, m) + 1, first_arg(m))
         IN  /\ (c.specifier \in specifiers) <=> is_conversion(d)
             /\ first_arg(m) \in Nat \ {0}
             /\ is_conversion(d) =>
                  /\ Same(c, with_args(m)) /\ c.k \in Nat
                  /\ c.k + 1 = begins(written, m + 1) /\ c.a + 1 = first_arg(m + 1)
                  /\ args[c.a] = with_args(m).word /\ args[c.a] \in 0 .. UINT_MAX
             /\ ~is_conversion(d) =>
                  /\ c.a = first_arg(m + 1)
                  /\ begins(written, m + 1) = (IF at(c.k) = NUL THEN c.k ELSE c.k + 1)
<1> DEFINE d == written[m]
           p == begins(written, m)
           a == first_arg(m)
           c == parse(p + 1, a)
           w == with_args(m)
<1>1. /\ format \in Seq(Int) /\ d \in Directives /\ legible(d) /\ d.plain = <<>>
      /\ Conversion_at(d, p) /\ p \in Nat \ {0}
      /\ begins(written, m + 1) = p + Len(unparse(d))
  BY DirectiveStands DEF Stands_at
<1>2. written \in Seq(Directives) /\ m \in 1 .. Len(written) /\ Len(written) \in Nat
  BY DEF Fixed, Formatted
<1>3. /\ a \in Nat \ {0} /\ first_arg(m + 1) = a + takes(d)
      /\ first_arg(m + 1) <= Len(args) + 1
  <2>1. /\ args_before(written, m + 1) = args_before(written, m) + takes(written[m])
        /\ args_before(written, m) \in Nat \ {0}
        /\ args_before(written, m + 1) <= args_before(written, Len(written) + 1)
        /\ args_before(written, m + 1) \in Nat
        /\ args_before(written, Len(written) + 1) \in Nat
    <3>1. m \in 1 .. Len(written) + 1 /\ m + 1 \in 1 .. Len(written) + 1
          /\ Len(written) + 1 \in 1 .. Len(written) + 1
      BY <1>2
    <3> QED BY <3>1, <1>2, ArgsBefore
  <2>2. args_before(written, Len(written) + 1) <= Len(args) + 1 /\ Len(args) \in Nat
    BY DEF Fixed
  <2> QED BY <2>1, <2>2 DEF first_arg
<1> HIDE DEF a, p
<1> DEFINE flags == ToSet(d.flags) \cup (IF width_read(d, a) < 0 THEN {MINUS} ELSE {})
<1>4. c = [flags |-> IF MINUS \in flags THEN flags \ {0} ELSE flags,
           width |-> magnitude(width_read(d, a)),
           precision |-> IF precision_read(d, a) < 0 THEN -1 ELSE precision_read(d, a),
           length |-> length_name(d.length),
           specifier |-> get_format_specifier(d.specifier),
           upper |-> \E ch \in cased_specifiers : d.specifier = upper(ch),
           k |-> length_end(d, p), a |-> a + stars(d)]
  BY <1>1, <1>3, ParseReads
<1>5. /\ at(length_end(d, p)) = d.specifier /\ length_end(d, p) \in Nat
      /\ length_end(d, p) = p + Len(unparse(d)) - Len(Ending(d))
  BY <1>1, Layout
<1>6. unparse(d) \in Seq(Int) /\ Len(unparse(d)) \in Nat BY <1>1, UnparseIs
<1>7. /\ d.specifier = NUL => length_end(d, p) = begins(written, m + 1)
      /\ d.specifier # NUL => length_end(d, p) + 1 = begins(written, m + 1)
  <2>1. PICK n, e : n = Len(unparse(d)) /\ e = Len(Ending(d)) OBVIOUS
  <2>2. d.specifier = NUL => e = 0 BY <2>1 DEF Ending
  <2>3. d.specifier # NUL => e = 1 BY <2>1 DEF Ending
  <2>4. begins(written, m + 1) = p + n /\ length_end(d, p) = p + n - e /\ n \in Nat
    BY <2>1, <1>1, <1>5, <1>6
  <2> QED BY <2>2, <2>3, <2>4, <1>1
<1>8. LET l == lower(d.specifier)
          s == get_format_specifier(d.specifier)
      IN  /\ is_conversion(d) <=> s \in specifiers
          /\ is_conversion(d) => s = (IF l = CH_I THEN CH_D ELSE l)
          /\ is_conversion(d) =>
               ((\E ch \in cased_specifiers : d.specifier = upper(ch)) <=> l # d.specifier)
          /\ is_conversion(d) => d.specifier # NUL /\ d.specifier # PERCENT
  BY <1>1, SpecifierReads
<1>9. /\ stars(d) \in Nat /\ (d.width = <<STAR>> => stars(d) >= 1)
      /\ (d.precision = <<DOT, STAR>> => stars(d) >= one_if(d.width = <<STAR>>) + 1)
      /\ is_conversion(d) => takes(d) = stars(d) + 1
      /\ ~is_conversion(d) => takes(d) = stars(d)
  BY DEF stars, one_if, takes
<1>10. /\ c.specifier = get_format_specifier(d.specifier) /\ c.k = length_end(d, p)
       /\ c.a = a + stars(d) /\ c.width = magnitude(width_read(d, a))
       /\ c.precision = (IF precision_read(d, a) < 0 THEN -1 ELSE precision_read(d, a))
       /\ c.length = length_name(d.length)
       /\ c.upper <=> (\E ch \in cased_specifiers : d.specifier = upper(ch))
       /\ c.flags = (IF MINUS \in flags THEN flags \ {0} ELSE flags)
  <2> HIDE DEF c, d, flags
  <2> QED BY <1>4
<1>11. ASSUME ~is_conversion(d)
       PROVE  /\ c.a = first_arg(m + 1)
              /\ begins(written, m + 1) = (IF at(c.k) = NUL THEN c.k ELSE c.k + 1)
  <2> HIDE DEF c
  <2> QED BY <1>3, <1>5, <1>7, <1>9, <1>10, <1>11
<1>12. ASSUME is_conversion(d)
       PROVE  /\ Same(c, w) /\ c.k \in Nat
              /\ c.k + 1 = begins(written, m + 1) /\ c.a + 1 = first_arg(m + 1)
              /\ args[c.a] = w.word /\ args[c.a] \in 0 .. UINT_MAX
  <2>1. c.k \in Nat /\ c.k + 1 = begins(written, m + 1) /\ c.a + 1 = first_arg(m + 1)
    <3> HIDE DEF c
    <3> QED BY <1>3, <1>5, <1>7, <1>8, <1>9, <1>10, <1>12
  <2>2. ASSUME NEW x \in a .. a + stars(d) PROVE args[x] \in 0 .. UINT_MAX
    <3>1. args \in Seq(0 .. UINT_MAX) /\ Len(args) \in Nat BY DEF Fixed
    <3>2. x \in 1 .. Len(args) BY <3>1, <1>3, <1>9, <1>12
    <3> QED BY ONLY <3>1, <3>2, ElementOfSeq
  <2>3. UINT_MAX \in Int BY WordSizes
  <2>4. args[c.a] \in 0 .. UINT_MAX
    <3>1. c.a \in a .. a + stars(d) BY <1>3, <1>9, <1>10
    <3> HIDE DEF c
    <3> QED BY <3>1, <2>2
  <2> DEFINE b == a + one_if(d.width = <<STAR>>)
  <2>5. width_read(d, a) \in Int
    <3>1. d.width = <<STAR>> => args[a] \in Int
      <4>1. a \in a .. a + stars(d) BY <1>3, <1>9
      <4> QED BY <4>1, <2>2, <2>3
    <3>2. is_number(d.width) BY <1>1 DEF legible
    <3> QED BY <3>1, <3>2, ReadTyped DEF width_read
  <2>6. precision_read(d, a) \in Int
    <3>1. CASE d.precision = <<>> BY <3>1 DEF precision_read
    <3>2. CASE d.precision # <<>>
      <4>1. is_number(Tail(d.precision)) BY <3>2, <1>1 DEF legible
      <4>2. Tail(d.precision) = <<STAR>> => d.precision = <<DOT, STAR>>
        BY <3>2, <1>1, StarPrecision
      <4>3. Tail(d.precision) = <<STAR>> => args[b] \in Int
        <5>1. SUFFICES ASSUME d.precision = <<DOT, STAR>> PROVE args[b] \in Int BY <4>2
        <5>2. b \in a .. a + stars(d) BY <5>1, <1>3, <1>9 DEF one_if
        <5> QED BY <5>2, <2>2, <2>3
      <4>4. read_as(Tail(d.precision), args[b]) \in Int BY <4>1, <4>3, ReadTyped
      <4> QED BY <3>2, <4>4 DEF precision_read
    <3> QED BY <3>1, <3>2
  <2>7. /\ meant(d.width, 0, args[a]) = width_read(d, a)
        /\ meant(d.precision, -1, args[b]) = precision_read(d, a)
    BY <1>1, MeantIs DEF width_read, precision_read
  <2>8. b = a + (IF d.width = <<STAR>> THEN 1 ELSE 0) BY DEF one_if
  <2> DEFINE wr == width_read(d, a)
             pr == precision_read(d, a)
             l == lower(d.specifier)
  <2>9. w = [specifier |-> IF l = CH_I THEN CH_D ELSE l,
             upper |-> l # d.specifier, flags |-> ToSet(d.flags),
             long_double |-> d.length = <<upper(CH_L)>>, wide |-> d.length = <<CH_L>>,
             bits |-> length_of(d),
             left |-> MINUS \in ToSet(d.flags) \/ wr < 0, width |-> magnitude(wr),
             precision |-> IF pr < 0 THEN -1 ELSE pr, word |-> args[a + stars(d)]]
    <3>1. w = [specifier |-> IF l = CH_I THEN CH_D ELSE l,
             upper |-> l # d.specifier, flags |-> ToSet(d.flags),
             long_double |-> d.length = <<upper(CH_L)>>, wide |-> d.length = <<CH_L>>,
             bits |-> length_of(d),
             left |-> MINUS \in ToSet(d.flags) \/ meant(d.width, 0, args[a]) < 0,
             width |-> magnitude(meant(d.width, 0, args[a])),
             precision |-> IF meant(d.precision, -1, args[b]) < 0 THEN -1
                           ELSE meant(d.precision, -1, args[b]),
             word |-> args[a + stars(d)]]
      BY <2>8 DEF with_args, a
    <3> HIDE DEF w, b
    <3> QED BY <3>1, <2>7
  <2>10. /\ w.specifier = (IF l = CH_I THEN CH_D ELSE l) /\ (w.upper <=> l # d.specifier)
         /\ w.flags = ToSet(d.flags) /\ (w.long_double <=> d.length = <<upper(CH_L)>>)
         /\ (w.wide <=> d.length = <<CH_L>>) /\ w.bits = length_of(d)
         /\ (w.left <=> (MINUS \in ToSet(d.flags) \/ wr < 0)) /\ w.width = magnitude(wr)
         /\ w.precision = (IF pr < 0 THEN -1 ELSE pr) /\ w.word = args[a + stars(d)]
    <3> HIDE DEF w, wr, pr, l, d
    <3> QED BY <2>9
  <2>11. /\ MINUS \in c.flags <=> w.left
         /\ \A f \in {PLUS, SPACE, HASH} : f \in c.flags <=> f \in w.flags
         /\ 0 \in c.flags <=> (0 \in w.flags /\ ~w.left)
    <3>1. \A f : f \in c.flags <=> f \in flags /\ (f = 0 => MINUS \notin flags)
      <4> HIDE DEF c
      <4> QED BY <1>10
    <3>2. \A f : f \in flags <=> f \in w.flags \/ (wr < 0 /\ f = MINUS)
      <4> HIDE DEF w
      <4> QED BY <2>10
    <3> HIDE DEF c, w, flags, wr
    <3> QED BY <3>1, <3>2, <2>10 DEF MINUS, PLUS, SPACE, HASH
  <2>12. /\ bits(c.length) = w.bits /\ (c.length = "long" <=> w.wide)
         /\ (c.length = "long_double" <=> w.long_double)
    <3>1. /\ bits(length_name(d.length)) = length_of(d)
          /\ (length_name(d.length) = "long") <=> (d.length = <<CH_L>>)
          /\ (length_name(d.length) = "long_double") <=> (d.length = <<upper(CH_L)>>)
      BY <1>1, LengthBits
    <3> HIDE DEF c, w
    <3> QED BY <3>1, <1>10, <2>10
  <2>13. /\ c.width = w.width /\ c.width \in Nat
         /\ c.precision = w.precision /\ c.precision \in Nat \cup {-1}
    <3> HIDE DEF c, w
    <3> QED BY <1>10, <2>5, <2>6, <2>10 DEF magnitude
  <2>14. c.specifier = w.specifier /\ (c.upper <=> w.upper)
    <3> HIDE DEF c, w
    <3> QED BY <1>8, <1>10, <1>12, <2>10
  <2>15. args[c.a] = w.word
    <3> HIDE DEF c, w
    <3> QED BY <1>10, <2>10
  <2> HIDE DEF c, w
  <2> QED BY <2>1, <2>4, <2>11, <2>12, <2>13, <2>14, <2>15 DEF Same
<1>13. (c.specifier \in specifiers) <=> is_conversion(d)
  <2> HIDE DEF c
  <2> QED BY <1>8, <1>10
<1> HIDE DEF c
<1> QED BY <1>3, <1>11, <1>12, <1>13 DEF c, p, a, d

-----------------------------------------------------------------------------
(* The pieces of a field put together                                      *)

\* The same character n times.
LEMMA RepeatIs ==
  ASSUME NEW S, NEW x \in S, NEW n \in Nat
  PROVE  /\ repeat(x, n) \in Seq(S) /\ Len(repeat(x, n)) = n
         /\ \A j \in 1 .. n : repeat(x, n)[j] = x
         /\ n = 0 => repeat(x, n) = <<>>
<1>1. repeat(x, n) = [m \in 1 .. n |-> x] BY DEF repeat
<1>2. repeat(x, n) \in Seq(S) /\ Len(repeat(x, n)) = n BY <1>1, IsASeq, LenProperties
<1>3. n = 0 => repeat(x, n) = <<>> BY <1>2
<1> QED BY <1>1, <1>2, <1>3

\* The middle one of three.
LEMMA MiddleOf ==
  ASSUME NEW S, NEW a \in Seq(S), NEW b \in Seq(S), NEW c \in Seq(S)
  PROVE  /\ a \o (b \o c) \in Seq(S) /\ Len(a \o (b \o c)) = Len(a) + Len(b) + Len(c)
         /\ Len(a) \in Nat /\ Len(b) \in Nat /\ Len(c) \in Nat
         /\ \A j \in 1 .. Len(a) + Len(b) + Len(c) :
              (a \o (b \o c))[j] = IF j <= Len(a) THEN a[j]
                                   ELSE IF j <= Len(a) + Len(b) THEN b[j - Len(a)]
                                   ELSE c[j - Len(a) - Len(b)]
         /\ SubSeq(a \o (b \o c), Len(a) + 1, Len(a) + Len(b)) = b
<1>1. PICK y : y = b \o c OBVIOUS
<1>2. PICK z : z = a \o y OBVIOUS
<1>3. Len(a) \in Nat /\ Len(b) \in Nat /\ Len(c) \in Nat BY LenProperties
<1>4. /\ y \in Seq(S) /\ Len(y) = Len(b) + Len(c)
      /\ \A j \in 1 .. Len(b) + Len(c) : y[j] = IF j <= Len(b) THEN b[j] ELSE c[j - Len(b)]
  BY <1>1, ConcatProperties
<1>5. /\ z \in Seq(S) /\ Len(z) = Len(a) + Len(y)
      /\ \A j \in 1 .. Len(a) + Len(y) : z[j] = IF j <= Len(a) THEN a[j] ELSE y[j - Len(a)]
  <2>1. y \in Seq(S) BY <1>4
  <2>2. /\ a \o y \in Seq(S) /\ Len(a \o y) = Len(a) + Len(y)
        /\ \A j \in 1 .. Len(a) + Len(y) : (a \o y)[j] = IF j <= Len(a) THEN a[j] ELSE y[j - Len(a)]
    BY ONLY <2>1, a \in Seq(S), ConcatProperties
  <2> QED BY ONLY <2>2, <1>2
<1>6. Len(z) = Len(a) + Len(b) + Len(c) BY <1>3, <1>4, <1>5
<1>7. ASSUME NEW j \in 1 .. Len(a) + Len(b) + Len(c)
      PROVE  z[j] = IF j <= Len(a) THEN a[j]
                    ELSE IF j <= Len(a) + Len(b) THEN b[j - Len(a)]
                    ELSE c[j - Len(a) - Len(b)]
  <2>1. PICK u, v, w : u = Len(a) /\ v = Len(b) /\ w = Len(c) OBVIOUS
  <2>2. u \in Nat /\ v \in Nat /\ w \in Nat /\ j \in 1 .. u + v + w BY <2>1, <1>3
  <2>3. j \in 1 .. u + (v + w) /\ (~(j <= u) => j - u \in 1 .. v + w) /\ (j - u <= v <=> j <= u + v)
    BY ONLY <2>2
  <2>4. z[j] = IF j <= u THEN a[j] ELSE y[j - u] BY <2>1, <2>3, <1>4, <1>5
  <2>5. ~(j <= u) => y[j - u] = IF j - u <= v THEN b[j - u] ELSE c[(j - u) - v]
    BY <2>1, <2>3, <1>4
  <2> QED BY ONLY <2>1, <2>3, <2>4, <2>5
<1>8. SubSeq(z, Len(a) + 1, Len(a) + Len(b)) = b
  <2>1. PICK u, v : u = Len(a) /\ v = Len(b) OBVIOUS
  <2>2. PICK q : q = SubSeq(z, u + 1, u + v) OBVIOUS
  <2>3. u \in Nat /\ v \in Nat /\ u + v <= Len(z) /\ Len(z) \in Nat
    BY <2>1, <1>3, <1>6
  <2>4. /\ q \in Seq(S) /\ Len(q) = v /\ \A j \in 1 .. v : q[j] = z[u + j]
    <3>1. CASE v = 0
      <4>1. q = <<>> BY <3>1, <2>2, <2>3, SubSeqEmpty
      <4> QED BY <4>1, <3>1
    <3>2. CASE v # 0
      <4>1. /\ u + 1 \in 1 .. Len(z) + 1 /\ u + v \in (u + 1) - 1 .. Len(z)
            /\ (u + v) - (u + 1) + 1 = v
        BY ONLY <3>2, <2>3
      <4>2. /\ q \in Seq(S) /\ Len(q) = (u + v) - (u + 1) + 1
            /\ \A j \in 1 .. (u + v) - (u + 1) + 1 : q[j] = z[(u + 1) + j - 1]
        <5>1. u + 1 \in Int /\ u + v \in Int /\ u + 1 <= u + v BY ONLY <3>2, <2>3
        <5>2. \A j \in u + 1 .. u + v : j \in 1 .. Len(z) BY ONLY <2>3
        <5>3. \A j \in u + 1 .. u + v : z[j] \in S
          <6>1. z \in Seq(S) BY <1>5
          <6>2. \A j \in 1 .. Len(z) : z[j] \in S BY ONLY <6>1
          <6> QED BY ONLY <5>2, <6>2
        <5>4. /\ SubSeq(z, u + 1, u + v) \in Seq(S)
              /\ Len(SubSeq(z, u + 1, u + v))
                   = IF u + 1 <= u + v THEN (u + v) - (u + 1) + 1 ELSE 0
              /\ \A j \in 1 .. (u + v) - (u + 1) + 1 :
                   SubSeq(z, u + 1, u + v)[j] = z[(u + 1) + j - 1]
          BY ONLY <5>1, <5>3, SubSeqProperties
        <5> QED BY ONLY <5>1, <5>4, <2>2
      <4>3. \A j \in 1 .. v : (u + 1) + j - 1 = u + j BY ONLY <2>3
      <4> QED BY ONLY <4>1, <4>2, <4>3
    <3> QED BY <3>1, <3>2
  <2>5. ASSUME NEW j \in 1 .. v PROVE q[j] = b[j]
    <3>1. u + j \in 1 .. Len(a) + Len(b) + Len(c) /\ ~(u + j <= u) /\ u + j <= u + v
          /\ (u + j) - u = j
      BY <2>1, <2>3, <1>3
    <3>2. z[u + j] = b[(u + j) - u] BY ONLY <3>1, <1>7, <2>1
    <3> QED BY <3>1, <3>2, <2>4
  <2>6. Len(q) = Len(b) /\ \A j \in 1 .. Len(q) : q[j] = b[j] BY <2>1, <2>4, <2>5
  <2>7. q = b BY <2>4, <2>6, SeqEqual
  <2> QED BY <2>1, <2>2, <2>7
<1> QED BY <1>1, <1>2, <1>3, <1>5, <1>6, <1>7, <1>8

LEMMA ThreeJoined ==
  ASSUME NEW S, NEW a \in Seq(S), NEW b \in Seq(S), NEW c \in Seq(S)
  PROVE  a \o (b \o c) \in Seq(S) /\ Len(a \o (b \o c)) = Len(a) + Len(b) + Len(c)
BY MiddleOf

\* The blanks or zeros that a field needs.
padding(c, len) == IF c.width > len THEN c.width - len ELSE 0

\* A field put together.
field_of(c, prefix, body, zero_pad) ==
  LET pad == padding(c, Len(prefix) + Len(body))
  IN  IF MINUS \in c.flags THEN prefix \o (body \o repeat(SPACE, pad))
      ELSE IF zero_pad THEN prefix \o (repeat(0, pad) \o body)
      ELSE repeat(SPACE, pad) \o (prefix \o body)

\* What fprintf_field_begin and fprintf_field_end hand to the stream around a
\* body makes a field.
LEMMA FieldAround ==
  ASSUME NEW c, c.width \in Nat, NEW prefix \in Seq(Int), NEW zero_pad \in BOOLEAN,
         NEW pieces \in Seq(Seq(Int)), NEW len,
         len = Len(prefix) + Len(FlattenSeq(pieces))
  PROVE  LET all == fprintf_field_begin(c, len, prefix, zero_pad)
                      \o pieces \o fprintf_field_end(c, len)
         IN  /\ all \in Seq(Seq(Int))
             /\ FlattenSeq(all) = field_of(c, prefix, FlattenSeq(pieces), zero_pad)
<1> DEFINE pad == padding(c, len)
<1>1. PICK t : t = FlattenSeq(pieces) OBVIOUS
<1>2. t \in Seq(Int) /\ Len(t) \in Nat /\ Len(prefix) \in Nat
  BY <1>1, FlattenConcat, LenProperties
<1>3. len \in Nat /\ len = Len(prefix) + Len(t) BY <1>1, <1>2
<1>4. pad \in Nat BY <1>3 DEF padding
<1>5. PICK blanks_, zeros : blanks_ = repeat(SPACE, pad) /\ zeros = repeat(0, pad) OBVIOUS
<1>6. blanks_ \in Seq(Int) /\ zeros \in Seq(Int) /\ (pad = 0 => blanks_ = <<>>)
  <2>1. SPACE \in Int /\ 0 \in Int BY DEF SPACE
  <2>2. PICK n : n = pad OBVIOUS
  <2>3. n \in Nat BY <2>2, <1>4
  <2>4. repeat(SPACE, n) \in Seq(Int) /\ (n = 0 => repeat(SPACE, n) = <<>>)
    BY ONLY <2>1, <2>3, RepeatIs
  <2>5. repeat(0, n) \in Seq(Int) BY ONLY <2>1, <2>3, RepeatIs
  <2> QED BY ONLY <2>2, <2>4, <2>5, <1>5
<1>7. PICK b, e : b = fprintf_field_begin(c, len, prefix, zero_pad)
                    /\ e = fprintf_field_end(c, len)
  OBVIOUS
<1>8. /\ b \in Seq(Seq(Int)) /\ e \in Seq(Seq(Int))
      /\ MINUS \in c.flags =>
           FlattenSeq(b) = prefix /\ FlattenSeq(e) = blanks_
      /\ MINUS \notin c.flags =>
           FlattenSeq(e) = <<>>
             /\ FlattenSeq(b) = (IF zero_pad THEN prefix \o zeros ELSE blanks_ \o prefix)
  <2>1. CASE MINUS \in c.flags
    <3>1. b = <<prefix>> BY <2>1, <1>7 DEF fprintf_field_begin
    <3>2. b \in Seq(Seq(Int)) /\ FlattenSeq(b) = prefix BY <3>1, FlattenOne
    <3>3. CASE c.width <= len
      <4>1. e = <<>> BY <3>3, <1>7 DEF fprintf_field_end
      <4>2. pad = 0 BY <3>3, <1>3 DEF padding
      <4>3. e \in Seq(Seq(Int)) BY <4>1
      <4> HIDE DEF pad
      <4> QED BY <4>1, <4>2, <4>3, <3>2, <2>1, <1>6, FlattenEmpty
    <3>4. CASE ~(c.width <= len)
      <4>1. e = <<repeat(SPACE, c.width - len)>> BY <3>4, <2>1, <1>7 DEF fprintf_field_end
      <4>2. pad = c.width - len BY <3>4, <1>3 DEF padding
      <4>3. e = <<blanks_>> BY <4>1, <4>2, <1>5
      <4>4. e \in Seq(Seq(Int)) /\ FlattenSeq(e) = blanks_ BY <4>3, <1>6, FlattenOne
      <4> QED BY <4>4, <3>2, <2>1
    <3> QED BY <3>3, <3>4
  <2>2. CASE MINUS \notin c.flags
    <3>1. e = <<>> BY <2>2, <1>7 DEF fprintf_field_end
    <3>2. e \in Seq(Seq(Int)) /\ FlattenSeq(e) = <<>> BY <3>1, FlattenEmpty
    <3>3. CASE zero_pad
      <4>1. b = <<prefix, zeros>>
        BY <3>3, <2>2, <1>5, <1>7 DEF fprintf_field_begin, padding
      <4>2. b \in Seq(Seq(Int)) BY <4>1, <1>6
      <4>3. FlattenSeq(b) = prefix \o zeros BY <4>1, <1>6, FlattenTwo
      <4> QED BY <4>2, <4>3, <3>2, <3>3, <2>2
    <3>4. CASE ~zero_pad
      <4>1. b = <<blanks_, prefix>>
        BY <3>4, <2>2, <1>5, <1>7 DEF fprintf_field_begin, padding
      <4>2. b \in Seq(Seq(Int)) BY <4>1, <1>6
      <4>3. FlattenSeq(b) = blanks_ \o prefix BY <4>1, <1>6, FlattenTwo
      <4> QED BY <4>2, <4>3, <3>2, <3>4, <2>2
    <3> QED BY <3>3, <3>4
  <2> QED BY <2>1, <2>2
<1>9. PICK fb, fe : fb = FlattenSeq(b) /\ fe = FlattenSeq(e) OBVIOUS
<1>10. /\ b \o pieces \in Seq(Seq(Int)) /\ (b \o pieces) \o e \in Seq(Seq(Int))
       /\ FlattenSeq((b \o pieces) \o e) = (fb \o t) \o fe
       /\ fb \in Seq(Int) /\ fe \in Seq(Int)
  <2>1. PICK x : x = b \o pieces OBVIOUS
  <2>2. x \in Seq(Seq(Int)) BY <2>1, <1>8, ConcatProperties
  <2>3. FlattenSeq(x) = fb \o t /\ fb \in Seq(Int) BY <2>1, <1>1, <1>8, <1>9, FlattenConcat
  <2>4. FlattenSeq(x \o e) = FlattenSeq(x) \o fe /\ fe \in Seq(Int)
    BY <2>2, <1>8, <1>9, FlattenConcat
  <2>5. x \o e \in Seq(Seq(Int)) BY <2>2, <1>8, ConcatProperties
  <2> QED BY <2>1, <2>2, <2>3, <2>4, <2>5
<1>11. (fb \o t) \o fe = fb \o (t \o fe) /\ fb \o (t \o fe) \in Seq(Int)
  BY ONLY <1>2, <1>10, AppendsRight
<1>12. (fb \o t) \o fe = field_of(c, prefix, t, zero_pad)
  <2>1. field_of(c, prefix, t, zero_pad)
          = IF MINUS \in c.flags THEN prefix \o (t \o blanks_)
            ELSE IF zero_pad THEN prefix \o (zeros \o t)
            ELSE blanks_ \o (prefix \o t)
    BY <1>3, <1>5 DEF field_of
  <2>2. CASE MINUS \in c.flags
    <3>1. fb = prefix /\ fe = blanks_ BY <2>2, <1>8, <1>9
    <3> QED BY ONLY <3>1, <2>1, <2>2, <1>11
  <2>3. CASE MINUS \notin c.flags
    <3>1. fe = <<>> /\ fb = (IF zero_pad THEN prefix \o zeros ELSE blanks_ \o prefix)
      BY <2>3, <1>8, <1>9
    <3>2. (fb \o t) \o <<>> = fb \o t
      <4>1. PICK x : x = fb \o t OBVIOUS
      <4>2. x \in Seq(Int) BY <4>1, <1>2, <1>10, ConcatProperties
      <4>3. x \o <<>> = x BY ONLY <4>2, ConcatEmptySeq
      <4> QED BY ONLY <4>1, <4>3
    <3>3. (prefix \o zeros) \o t = prefix \o (zeros \o t) /\ prefix \o (zeros \o t) \in Seq(Int)
      BY ONLY <1>2, <1>6, prefix \in Seq(Int), AppendsRight
    <3>4. (blanks_ \o prefix) \o t = blanks_ \o (prefix \o t) /\ blanks_ \o (prefix \o t) \in Seq(Int)
      BY ONLY <1>2, <1>6, prefix \in Seq(Int), AppendsRight
    <3> QED BY ONLY <3>1, <3>2, <3>3, <3>4, <2>1, <2>3
  <2> QED BY <2>2, <2>3
<1> QED BY <1>1, <1>7, <1>10, <1>12

\* Such a field, if it is not padded with zeros, shows its text.
LEMMA FieldFits ==
  ASSUME NEW c, NEW w, Same(c, w), NEW prefix \in Seq(Int), NEW body \in Seq(Int),
         NEW zero_pad \in BOOLEAN, ~zero_pad \/ MINUS \in c.flags
  PROVE  /\ field_of(c, prefix, body, zero_pad) \in Seq(Int)
         /\ in_field(field_of(c, prefix, body, zero_pad), prefix \o body, w)
<1>1. PICK u, v : u = Len(prefix) /\ v = Len(body) OBVIOUS
<1>2. PICK t : t = prefix \o body OBVIOUS
<1>3. u \in Nat /\ v \in Nat /\ t \in Seq(Int) /\ Len(t) = u + v
  BY <1>1, <1>2, ConcatProperties, LenProperties
<1>4. c.width \in Nat /\ c.width = w.width /\ (MINUS \in c.flags <=> w.left) BY DEF Same
<1>5. PICK n : n = padding(c, u + v) OBVIOUS
<1>6. n \in Nat /\ u + v + n >= c.width /\ (n > 0 => u + v + n = c.width)
  BY <1>3, <1>4, <1>5 DEF padding
<1>7. PICK gap : gap = repeat(SPACE, n) OBVIOUS
<1>8. gap \in Seq(Int) /\ Len(gap) = n
  <2>1. SPACE \in Int BY DEF SPACE
  <2> QED BY <2>1, <1>6, <1>7, RepeatIs
<1>9. PICK r : r = field_of(c, prefix, body, zero_pad) OBVIOUS
<1>10. r = IF MINUS \in c.flags THEN prefix \o (body \o gap) ELSE gap \o (prefix \o body)
  BY <1>1, <1>5, <1>7, <1>9 DEF field_of
<1>11. (prefix \o body) \o gap = prefix \o (body \o gap) /\ prefix \o (body \o gap) \in Seq(Int)
  BY ONLY <1>8, prefix \in Seq(Int), body \in Seq(Int), AppendsRight
<1>12. r = IF w.left THEN t \o gap ELSE gap \o t
  BY ONLY <1>2, <1>4, <1>10, <1>11
<1>13. /\ t \o gap \in Seq(Int) /\ gap \o t \in Seq(Int)
       /\ Len(t \o gap) = Len(t) + Len(gap) /\ Len(gap \o t) = Len(gap) + Len(t)
  BY ONLY <1>3, <1>8, ConcatProperties
<1>14. r \in Seq(Int) /\ Len(r) = u + v + n
  <2>1. Len(r) = (u + v) + n \/ Len(r) = n + (u + v)
    BY ONLY <1>3, <1>8, <1>12, <1>13
  <2>2. (u + v) + n = u + v + n /\ n + (u + v) = u + v + n BY <1>3, <1>6
  <2> QED BY ONLY <2>1, <2>2, <1>12, <1>13
<1>15. n \in 0 .. Len(r) BY <1>3, <1>6, <1>14
<1>16. in_field(r, t, w)
  <2>1. /\ r = (IF w.left THEN t \o repeat(SPACE, n) ELSE repeat(SPACE, n) \o t)
        /\ Len(r) >= w.width /\ (n > 0 => Len(r) = w.width)
    BY ONLY <1>4, <1>6, <1>7, <1>12, <1>14
  <2> QED BY ONLY <2>1, <1>15 DEF in_field
<1> QED BY ONLY <1>2, <1>9, <1>14, <1>16

\* One that is padded with zeros is as long as the width asks for.
LEMMA FieldFilled ==
  ASSUME NEW c, NEW w, Same(c, w), NEW prefix \in Seq(Int), NEW body \in Seq(Int),
         MINUS \notin c.flags
  PROVE  /\ padding(c, Len(prefix) + Len(body)) \in Nat
         /\ field_of(c, prefix, body, TRUE)
              = prefix \o (repeat(0, padding(c, Len(prefix) + Len(body))) \o body)
         /\ field_of(c, prefix, body, TRUE) \in Seq(Int)
         /\ in_field(field_of(c, prefix, body, TRUE), field_of(c, prefix, body, TRUE), w)
         /\ Len(field_of(c, prefix, body, TRUE))
              = Len(prefix) + padding(c, Len(prefix) + Len(body)) + Len(body)
         /\ padding(c, Len(prefix) + Len(body)) > 0 =>
              Len(field_of(c, prefix, body, TRUE)) = w.width
<1>1. PICK u, v : u = Len(prefix) /\ v = Len(body) OBVIOUS
<1>2. u \in Nat /\ v \in Nat BY <1>1, LenProperties
<1>3. c.width \in Nat /\ c.width = w.width BY DEF Same
<1>4. PICK n : n = padding(c, u + v) OBVIOUS
<1>5. n \in Nat /\ u + n + v >= c.width /\ (n > 0 => u + n + v = c.width)
  BY ONLY <1>2, <1>3, <1>4 DEF padding
<1>6. PICK zeros : zeros = repeat(0, n) OBVIOUS
<1>7. zeros \in Seq(Int) /\ Len(zeros) = n
  <2>1. 0 \in Int OBVIOUS
  <2> QED BY <2>1, <1>5, <1>6, RepeatIs
<1>8. PICK r : r = prefix \o (zeros \o body) OBVIOUS
<1>9. r \in Seq(Int) /\ Len(r) = u + n + v
  <2>1. zeros \in Seq(Int) BY <1>7
  <2>2. /\ prefix \o (zeros \o body) \in Seq(Int)
        /\ Len(prefix \o (zeros \o body)) = Len(prefix) + Len(zeros) + Len(body)
    BY ONLY <2>1, prefix \in Seq(Int), body \in Seq(Int), ThreeJoined
  <2> QED BY ONLY <2>2, <1>1, <1>7, <1>8
<1>10. field_of(c, prefix, body, TRUE) = r BY <1>1, <1>4, <1>6, <1>8 DEF field_of
<1>11. in_field(r, r, w)
  <2>1. repeat(SPACE, 0) = <<>>
    <3>1. SPACE \in Int BY DEF SPACE
    <3> QED BY <3>1, RepeatIs
  <2>2. r \o <<>> = r /\ <<>> \o r = r BY ONLY <1>9, ConcatEmptySeq
  <2>3. Len(r) \in Nat /\ 0 \in 0 .. Len(r) BY <1>9
  <2>4. r = (IF w.left THEN r \o repeat(SPACE, 0) ELSE repeat(SPACE, 0) \o r)
    BY ONLY <2>1, <2>2
  <2>5. Len(r) >= w.width /\ ~(0 > 0) BY ONLY <1>3, <1>5, <1>9
  <2> QED BY ONLY <2>3, <2>4, <2>5 DEF in_field
<1> QED BY ONLY <1>1, <1>3, <1>4, <1>5, <1>6, <1>8, <1>9, <1>10, <1>11

-----------------------------------------------------------------------------
(* The big numbers of floating point conversions                           *)

\* What takes the steps stays where they lead.
LEMMA IteratesTyped ==
  ASSUME NEW S, NEW x \in S, NEW n \in Nat, NEW moves \in [1 .. n -> [S -> S]], NEW f,
         Iterated(f, x, moves, n)
  PROVE  \A k \in 0 .. n : f[k] \in S
<1> DEFINE R == {k \in 0 .. n : f[k] \in S}
<1>1. 0 \in R BY DEF Iterated
<1>2. ASSUME NEW k \in 0 .. n - 1, k \in R PROVE k + 1 \in R
  <2>1. k + 1 \in 0 .. n /\ k + 1 # 0 /\ (k + 1) - 1 = k /\ k + 1 \in 1 .. n OBVIOUS
  <2>2. f[k + 1] = moves[k + 1][f[k]] BY <2>1 DEF Iterated
  <2>3. moves[k + 1] \in [S -> S] /\ f[k] \in S BY <2>1, <1>2
  <2> QED BY <2>1, <2>2, <2>3
<1> HIDE DEF R
<1>3. 0 .. n \subseteq R BY <1>1, <1>2, InductTo
<1> QED BY <1>3 DEF R

\* Digits are whole numbers.
LEMMA LeadingTyped ==
  ASSUME NEW radix \in Nat, radix > 1, NEW v \in Nat, NEW d \in Nat, NEW k \in 0 .. d
  PROVE  leading(v, d, k, radix) \in Seq(Nat) /\ Len(leading(v, d, k, radix)) = k
<1>1. ASSUME NEW j \in 1 .. k PROVE (v \div pow(radix, d - j)) % radix \in Nat
  <2>1. d - j \in Nat /\ radix \in Nat \ {0} OBVIOUS
  <2>2. pow(radix, d - j) \in Nat \ {0} BY <2>1, PowPositive
  <2>3. PICK p : p = pow(radix, d - j) OBVIOUS
  <2>4. v \div p \in Nat BY <2>2, <2>3, Division
  <2>5. (v \div p) % radix \in Nat BY <2>4, Division
  <2> QED BY <2>3, <2>5
<1>2. k \in Nat OBVIOUS
<1>3. leading(v, d, k, radix) \in [1 .. k -> Nat] BY <1>1 DEF leading
<1> QED BY <1>2, <1>3

\* A word of the big number holds some digits.
LEMMA BigBase == BIG_BASE \in Nat /\ BIG_BASE > 1
<1>1. BigDigits \in Nat /\ 0 \in Nat /\ 0 < BigDigits /\ 10 \in Nat \ {0} BY FloatConstants
<1>2. 10 * pow(10, 0) <= pow(10, BigDigits) BY <1>1, PowGrows
<1>3. pow(10, 0) = 1 /\ pow(10, BigDigits) \in Nat BY <1>1, PowRule
<1> QED BY <1>2, <1>3 DEF BIG_BASE

LEMMA BigWords ==
  ASSUME NEW v \in Nat
  PROVE  big_words(v) \in Seq(Nat) /\ (v # 0 => big_words(v) # <<>>)
<1> DEFINE n == digits_total(v, BIG_BASE)
           s == leading(v, n, n, BIG_BASE)
<1>1. n \in Nat /\ HasDigits(v, n, BIG_BASE) BY BigBase, DigitsTotal
<1>2. s \in Seq(Nat) /\ Len(s) = n
  <2> HIDE DEF n
  <2>1. n \in 0 .. n BY <1>1
  <2> QED BY <2>1, <1>1, BigBase, LeadingTyped
<1>3. big_words(v) = Reverse(s) BY DEF big_words
<1> HIDE DEF s, n
<1>4. Reverse(s) = [i \in 1 .. n |-> s[(n - i) + 1]] BY <1>2 DEF Reverse
<1>5. ASSUME NEW i \in 1 .. n PROVE s[(n - i) + 1] \in Nat
  <2>1. (n - i) + 1 \in 1 .. Len(s) BY <1>1, <1>2
  <2> QED BY <2>1, <1>2
<1>6. Reverse(s) \in [1 .. n -> Nat] BY <1>4, <1>5
<1>7. Reverse(s) \in Seq(Nat) /\ Len(Reverse(s)) = n BY <1>1, <1>6
<1>8. v # 0 => n # 0 BY <1>1 DEF HasDigits
<1> QED BY <1>3, <1>7, <1>8

\* The carries of fp_big_mul.
Carries(f, big, factor) ==
  f = [i \in 1 .. Len(big) + 1 |->
         IF i = 1 THEN 0 ELSE (big[i - 1] * factor + f[i - 1]) \div BIG_BASE]

LEMMA BigMul ==
  ASSUME NEW big \in Seq(Nat), big # <<>>, NEW factor \in Nat
  PROVE  fp_big_mul(big, factor) \in Seq(Nat) \ {<<>>}
<1> DEFINE n == Len(big)
           moves == [k \in 1 .. n |-> [x \in Nat |-> (big[k] * factor + x) \div BIG_BASE]]
           f == CHOOSE f : Carries(f, big, factor)
<1>1. n \in Nat \ {0} /\ \A k \in 1 .. n : big[k] \in Nat OBVIOUS
<1>0. ASSUME NEW k \in 1 .. n, NEW x \in Nat
      PROVE  /\ (big[k] * factor + x) \div BIG_BASE \in Nat
             /\ (big[k] * factor + x) % BIG_BASE \in Nat
  <2>1. PICK y : y = big[k] OBVIOUS
  <2>2. y \in Nat BY <2>1, <1>1
  <2>3. y * factor \in Nat BY <2>2
  <2>4. PICK z : z = y * factor + x OBVIOUS
  <2>5. z \in Nat BY <2>3, <2>4
  <2>6. z \div BIG_BASE \in Nat /\ z % BIG_BASE \in 0 .. BIG_BASE - 1
    BY <2>5, BigBase, Division
  <2>7. z % BIG_BASE \in Nat BY <2>6, BigBase
  <2> QED BY <2>1, <2>4, <2>6, <2>7
<1>2. moves \in [1 .. n -> [Nat -> Nat]] BY <1>0
<1>3. \A k \in 1 .. n, x \in Nat : moves[k][x] = (big[k] * factor + x) \div BIG_BASE OBVIOUS
<1>4. fp_big_mul(big, factor)
        = [i \in DOMAIN big |-> (big[i] * factor + f[i]) % BIG_BASE] \o big_words(f[n + 1])
  BY DEF fp_big_mul, Carries
<1>5. DOMAIN big = 1 .. n OBVIOUS
<1> HIDE DEF moves, n
<1>6. PICK g \in [0 .. n -> Nat] : Iterated(g, 0, moves, n) BY <1>1, <1>2, Iterates
<1> DEFINE h == [i \in 1 .. n + 1 |-> g[i - 1]]
<1>7. \A i \in 1 .. n + 1 : h[i] = g[i - 1] OBVIOUS
<1>8. h = [i \in 1 .. n + 1 |->
             IF i = 1 THEN 0 ELSE (big[i - 1] * factor + h[i - 1]) \div BIG_BASE]
  <2>1. ASSUME NEW i \in 1 .. n + 1
        PROVE  g[i - 1] = IF i = 1 THEN 0
                          ELSE (big[i - 1] * factor + h[i - 1]) \div BIG_BASE
    <3>1. i - 1 \in 0 .. n BY <1>1
    <3>2. CASE i = 1
      <4>1. g[0] = 0 BY <1>1, <1>6 DEF Iterated
      <4> QED BY <4>1, <3>2
    <3>3. CASE i # 1
      <4>1. i - 1 \in 1 .. n /\ (i - 1) - 1 \in 0 .. n /\ i - 1 \in 1 .. n + 1 /\ i - 1 # 0
        BY <3>3, <1>1
      <4>2. h[i - 1] = g[(i - 1) - 1] /\ g[(i - 1) - 1] \in Nat BY <4>1, <1>7
      <4>3. g[i - 1] = moves[i - 1][g[(i - 1) - 1]] BY <3>1, <4>1, <1>6 DEF Iterated
      <4>4. moves[i - 1][g[(i - 1) - 1]]
              = (big[i - 1] * factor + g[(i - 1) - 1]) \div BIG_BASE
        BY <4>1, <4>2, <1>3
      <4> HIDE DEF h
      <4> QED BY <3>3, <4>2, <4>3, <4>4
    <3> QED BY <3>2, <3>3
  <2> QED BY <2>1
<1> HIDE DEF h
<1>9. Carries(h, big, factor) BY <1>8 DEF Carries, n
<1>10. Carries(f, big, factor)
  <2>1. \E x : Carries(x, big, factor) BY <1>9
  <2> QED BY <2>1
<1> HIDE DEF f
<1>11. ASSUME NEW i \in 1 .. n + 1
       PROVE  f[i] = IF i = 1 THEN 0 ELSE (big[i - 1] * factor + f[i - 1]) \div BIG_BASE
  BY <1>10 DEF Carries, n
<1> DEFINE R == {k \in 0 .. n : f[k + 1] \in Nat}
<1>12. 0 \in R BY <1>1, <1>11
<1>13. ASSUME NEW k \in 0 .. n - 1, k \in R PROVE k + 1 \in R
  <2>1. /\ k + 1 \in 0 .. n /\ k + 1 \in 1 .. n /\ (k + 1) + 1 \in 1 .. n + 1
        /\ (k + 1) + 1 # 1 /\ ((k + 1) + 1) - 1 = k + 1
    BY <1>1
  <2>2. f[(k + 1) + 1] = (big[k + 1] * factor + f[k + 1]) \div BIG_BASE BY <2>1, <1>11
  <2>3. f[k + 1] \in Nat BY <1>13
  <2>4. f[(k + 1) + 1] \in Nat BY <2>1, <2>2, <2>3, <1>0 DEF n
  <2> QED BY <2>1, <2>4
<1> HIDE DEF R
<1>14. n \in Nat BY <1>1
<1>15. 0 .. n \subseteq R BY <1>12, <1>13, <1>14, InductTo
<1>16. ASSUME NEW i \in 1 .. n + 1 PROVE f[i] \in Nat
  <2>1. i - 1 \in 0 .. n /\ (i - 1) + 1 = i BY <1>1
  <2> QED BY <2>1, <1>15 DEF R
<1>17. PICK a : a = [i \in 1 .. n |-> (big[i] * factor + f[i]) % BIG_BASE] OBVIOUS
<1>18. a \in Seq(Nat) /\ Len(a) = n
  <2>1. ASSUME NEW i \in 1 .. n PROVE (big[i] * factor + f[i]) % BIG_BASE \in Nat
    <3>1. i \in 1 .. n + 1 BY <1>1
    <3>2. f[i] \in Nat BY <3>1, <1>16
    <3> QED BY <3>2, <1>0 DEF n
  <2>2. a \in [1 .. n -> Nat] BY <2>1, <1>17
  <2> QED BY <2>2, <1>14
<1>19. n + 1 \in 1 .. n + 1 BY <1>1
<1>20. PICK b : b = big_words(f[n + 1]) OBVIOUS
<1>21. b \in Seq(Nat) BY <1>16, <1>19, <1>20, BigWords
<1>22. fp_big_mul(big, factor) = a \o b BY <1>4, <1>5, <1>17, <1>20
<1>23. a \o b \in Seq(Nat) /\ Len(a \o b) = Len(a) + Len(b)
  BY ONLY <1>18, <1>21, ConcatProperties
<1>24. Len(b) \in Nat BY <1>21
<1>25. a \o b # <<>>
  <2>1. PICK z : z = a \o b OBVIOUS
  <2>2. Len(z) = n + Len(b) BY <2>1, <1>18, <1>23
  <2>3. Len(z) # 0 BY <2>2, <1>1, <1>24
  <2>4. z # <<>> BY <2>3
  <2> QED BY <2>1, <2>4
<1> QED BY <1>22, <1>23, <1>25

\* The products of big_power.
Products_of(f, big, base, n, chunk) ==
  f = [r \in 0 .. n |-> IF r = 0 THEN big ELSE fp_big_mul(f[r - 1], pow(base, chunk))]

LEMMA BigPower ==
  ASSUME NEW big \in Seq(Nat), big # <<>>, NEW base \in Nat, NEW k \in Nat,
         NEW chunk \in Nat \ {0}
  PROVE  big_power(big, base, k, chunk) \in Seq(Nat) \ {<<>>}
<1> DEFINE S == Seq(Nat) \ {<<>>}
           n == k \div chunk
           moves == [r \in 1 .. n |-> [x \in S |-> fp_big_mul(x, pow(base, chunk))]]
           f == CHOOSE f : Products_of(f, big, base, n, chunk)
<1>1. n \in Nat /\ k % chunk \in Nat
  <2>1. k \div chunk \in Nat /\ k % chunk \in 0 .. chunk - 1 BY Division
  <2> QED BY <2>1
<1>2. pow(base, chunk) \in Nat /\ pow(base, k % chunk) \in Nat BY <1>1, PowRule
<1>3. \A x \in S : fp_big_mul(x, pow(base, chunk)) \in S BY <1>2, BigMul
<1>4. moves \in [1 .. n -> [S -> S]] BY <1>3
<1>5. \A r \in 1 .. n, x \in S : moves[r][x] = fp_big_mul(x, pow(base, chunk)) OBVIOUS
<1>6. big_power(big, base, k, chunk) = fp_big_mul(f[n], pow(base, k % chunk))
  BY DEF big_power, Products_of
<1>7. big \in S OBVIOUS
<1> HIDE DEF moves, n, S
<1>8. PICK g \in [0 .. n -> S] : Iterated(g, big, moves, n)
  BY <1>1, <1>4, <1>7, Iterates
<1>9. g = [r \in 0 .. n |-> IF r = 0 THEN big ELSE fp_big_mul(g[r - 1], pow(base, chunk))]
  <2>1. ASSUME NEW r \in 0 .. n
        PROVE  g[r] = IF r = 0 THEN big ELSE fp_big_mul(g[r - 1], pow(base, chunk))
    <3>1. CASE r = 0 BY <3>1, <1>8 DEF Iterated
    <3>2. CASE r # 0
      <4>1. r \in 1 .. n /\ r - 1 \in 0 .. n BY <3>2, <1>1
      <4>2. g[r - 1] \in S BY <4>1
      <4>3. g[r] = moves[r][g[r - 1]] BY <3>2, <1>8 DEF Iterated
      <4> QED BY <3>2, <4>1, <4>2, <4>3, <1>5
    <3> QED BY <3>1, <3>2
  <2> QED BY <2>1
<1>10. Products_of(g, big, base, n, chunk) BY <1>9 DEF Products_of
<1>11. Products_of(f, big, base, n, chunk)
  <2>1. \E x : Products_of(x, big, base, n, chunk) BY <1>10
  <2> QED BY <2>1
<1> HIDE DEF f
<1>12. ASSUME NEW r \in 0 .. n
       PROVE  f[r] = IF r = 0 THEN big ELSE fp_big_mul(f[r - 1], pow(base, chunk))
  BY <1>11 DEF Products_of
<1> DEFINE R == {r \in 0 .. n : f[r] \in S}
<1>13. 0 \in R BY <1>1, <1>7, <1>12
<1>14. ASSUME NEW r \in 0 .. n - 1, r \in R PROVE r + 1 \in R
  <2>1. r + 1 \in 0 .. n /\ r + 1 # 0 /\ (r + 1) - 1 = r BY <1>1
  <2>2. f[r + 1] = fp_big_mul(f[r], pow(base, chunk)) BY <2>1, <1>12
  <2>3. f[r] \in S BY <1>14
  <2> QED BY <2>1, <2>2, <2>3, <1>3
<1> HIDE DEF R
<1>15. 0 .. n \subseteq R BY <1>1, <1>13, <1>14, InductTo
<1>16. n \in 0 .. n BY <1>1
<1>17. f[n] \in S BY <1>15, <1>16 DEF R
<1>18. fp_big_mul(f[n], pow(base, k % chunk)) \in S BY <1>2, <1>17, BigMul DEF S
<1> QED BY <1>6, <1>18 DEF S

\* The digits of a big number.
LEMMA BigDigitsTyped ==
  ASSUME NEW big \in Seq(Nat), big # <<>>
  PROVE  big_digits(big) \in Seq(Nat)
<1> DEFINE n == Len(big)
           t == digits_total(Last(big), 10)
           a == leading(Last(big), t, t, 10)
           q == [i \in 1 .. n - 1 |->
                   leading(big[n - i], BigDigits, BigDigits, 10)]
<1>1. n \in Nat \ {0} /\ \A i \in 1 .. n : big[i] \in Nat OBVIOUS
<1>2. Last(big) \in Nat BY <1>1 DEF Last
<1>3. t \in Nat
  <2>1. 10 \in Nat /\ 10 > 1 OBVIOUS
  <2> QED BY <2>1, <1>2, DigitsTotal
<1>4. a \in Seq(Nat)
  <2> HIDE DEF t
  <2>1. t \in 0 .. t /\ 10 \in Nat /\ 10 > 1 BY <1>3
  <2> QED BY <2>1, <1>2, <1>3, LeadingTyped
<1>5. q \in Seq(Seq(Nat))
  <2>1. ASSUME NEW i \in 1 .. n - 1
        PROVE  leading(big[n - i], BigDigits, BigDigits, 10) \in Seq(Nat)
    <3>1. n - i \in 1 .. n BY <1>1
    <3>2. big[n - i] \in Nat BY <3>1, <1>1
    <3>3. BigDigits \in Nat /\ BigDigits \in 0 .. BigDigits /\ 10 \in Nat /\ 10 > 1
      BY FloatConstants
    <3> QED BY <3>2, <3>3, LeadingTyped
  <2>2. q \in [1 .. n - 1 -> Seq(Nat)] BY <2>1
  <2>3. PICK l : l = n - 1 OBVIOUS
  <2>4. l \in Nat /\ q \in [1 .. l -> Seq(Nat)] BY <2>2, <2>3, <1>1
  <2> QED BY ONLY <2>4
<1>6. big_digits(big) = a \o FlattenSeq(q) BY DEF big_digits
<1> HIDE DEF a, q
<1>7. PICK b : b = FlattenSeq(q) OBVIOUS
<1>8. b \in Seq(Nat) BY <1>5, <1>7, FlattenConcat
<1>9. a \o b \in Seq(Nat) BY ONLY <1>4, <1>8, ConcatProperties
<1> QED BY <1>6, <1>7, <1>9

\* A set of positions has a last one.
LEMMA LastOf ==
  ASSUME NEW n \in Nat, NEW P \in SUBSET (1 .. n)
  PROVE  (IF P # {} THEN Max(P) ELSE 0) \in 0 .. n
<1>1. SUFFICES ASSUME P # {} PROVE Max(P) \in 0 .. n BY <1>1
<1> DEFINE T == {k \in Nat : n - k \in P}
<1>2. T # {}
  <2>1. PICK i : i \in P BY <1>1
  <2>2. i \in 1 .. n BY <2>1
  <2>3. n - i \in Nat /\ n - (n - i) = i BY <2>2
  <2> QED BY <2>1, <2>3
<1>3. PICK m \in T : \A k \in T : m <= k
  <2>1. T \in SUBSET Nat OBVIOUS
  <2> HIDE DEF T
  <2> QED BY <2>1, <1>2, LeastMember
<1>4. ASSUME NEW y \in P PROVE n - m >= y
  <2>1. y \in 1 .. n OBVIOUS
  <2>2. n - y \in Nat /\ n - (n - y) = y BY <2>1
  <2>3. n - y \in T BY <2>2
  <2>4. m <= n - y BY <2>3, <1>3
  <2> QED BY <2>1, <2>4, <1>3
<1>5. n - m \in P BY <1>3
<1>6. Max(P) \in P BY <1>4, <1>5 DEF Max
<1>7. Max(P) \in 1 .. n BY <1>6
<1> QED BY <1>7

\* What is left of digits without the zeros at their end.
LEMMA Stripped ==
  ASSUME NEW digits \in Seq(Nat)
  PROVE  strip_zeros(digits) \in Seq(Nat)
<1>1. Len(digits) \in Nat OBVIOUS
<1>3. PICK k : k = SelectLastInSeq(digits, LAMBDA d : d # 0) OBVIOUS
<1>4. k \in 0 .. Len(digits)
  <2> DEFINE P == {i \in 1 .. Len(digits) : digits[i] # 0}
  <2>1. k = IF P # {} THEN Max(P) ELSE 0
    BY <1>3 DEF SelectLastInSeq
  <2>2. P \in SUBSET (1 .. Len(digits)) OBVIOUS
  <2> HIDE DEF P
  <2> QED BY <2>1, <2>2, <1>1, LastOf
<1>5. SubSeq(digits, 1, k) \in Seq(Nat)
  <2>1. \A i \in 1 .. k : digits[i] \in Nat BY <1>1, <1>4
  <2>2. 1 \in Int /\ k \in Int BY <1>1, <1>4
  <2> QED BY <2>1, <2>2, SubSeqProperties
<1>6. strip_zeros(digits) = SubSeq(digits, 1, k) BY <1>3 DEF strip_zeros
<1> QED BY <1>5, <1>6

\* The power of two in a mantissa is found.
LEMMA TwosDivide ==
  ASSUME NEW v \in Nat \ {0}, v < pow(2, W + 1)
  PROVE  \E t \in 0 .. W : v % pow(2, t) = 0 /\ v % pow(2, t + 1) # 0
<1> DEFINE T == {t \in Nat : v % pow(2, t + 1) # 0}
<1>1. W \in Nat /\ 2 \in Nat \ {0} BY WordSize
<1>2. W \in T
  <2>1. PICK p : p = pow(2, W + 1) OBVIOUS
  <2>2. p \in Nat \ {0} /\ v < p
    <3>1. W + 1 \in Nat BY <1>1
    <3> QED BY <3>1, <2>1, <1>1, PowPositive
  <2>3. v % p = v
    <3>1. p * 0 + v = v BY <2>2
    <3>2. (p * 0 + v) % p = v
      <4>1. 0 \in Nat /\ v \in Nat /\ p \in Nat BY <2>2
      <4> QED BY <4>1, <2>2, DivisionIs
    <3> QED BY <3>1, <3>2
  <2> QED BY <2>1, <2>3, <1>1
<1>3. PICK t \in T : \A k \in T : t <= k
  <2>1. T \in SUBSET Nat /\ T # {} BY <1>2
  <2> HIDE DEF T
  <2> QED BY <2>1, LeastMember
<1>4. t \in 0 .. W BY <1>1, <1>2, <1>3
<1>5. v % pow(2, t + 1) # 0 OBVIOUS
<1>6. v % pow(2, t) = 0
  <2>1. CASE t = 0
    <3>1. pow(2, t) = 1 BY <2>1, <1>1, PowRule
    <3>2. v % 1 \in 0 .. 1 - 1
      <4>1. v \in Nat /\ 1 \in Nat /\ 1 > 0 OBVIOUS
      <4> QED BY <4>1, Division
    <3> QED BY <3>1, <3>2
  <2>2. CASE t # 0
    <3>1. t - 1 \in Nat /\ (t - 1) + 1 = t /\ ~(t <= t - 1) BY <2>2
    <3>2. t - 1 \notin T BY <3>1, <1>3
    <3> QED BY <3>1, <3>2
  <2> QED BY <2>1, <2>2
<1> QED BY <1>4, <1>5, <1>6

LEMMA TwosFound ==
  ASSUME NEW v \in Nat \ {0}, v < pow(2, W + 1)
  PROVE  /\ twos(v) \in 0 .. W /\ v % pow(2, twos(v)) = 0
<1> DEFINE G(x) == v % pow(2, x) = 0 /\ v % pow(2, x + 1) # 0
           t == CHOOSE x \in 0 .. W : G(x)
<1>1. twos(v) = t BY DEF twos
<1>2. \E x \in 0 .. W : G(x) BY TwosDivide
<1>3. t \in 0 .. W /\ G(t)
  <2> HIDE DEF G
  <2> QED BY <1>2
<1> QED BY <1>1, <1>3

\* A decimal of fprintf.
Decimals == [digits : Seq(Nat), exp10 : Int]

LEMMA ToDecimalTyped ==
  ASSUME NEW mantissa \in Nat, mantissa < pow(2, W + 1), NEW exp2 \in Int
  PROVE  fp_to_decimal(mantissa, exp2) \in Decimals
<1>1. CASE mantissa = 0
  <2>1. fp_to_decimal(mantissa, exp2) = [digits |-> <<>>, exp10 |-> 0]
    BY <1>1 DEF fp_to_decimal
  <2>2. <<>> \in Seq(Nat) OBVIOUS
  <2> QED BY <2>1, <2>2 DEF Decimals
<1>2. CASE mantissa # 0
  <2> DEFINE t == twos(mantissa)
             odd == mantissa \div pow(2, t)
             e == exp2 + t
             big == IF e > 0 THEN big_power(big_words(odd), 2, e, TwoChunk)
                    ELSE big_power(big_words(odd), 5, -e, FiveChunk)
             digits == big_digits(big)
  <2>1. t \in 0 .. W /\ W \in Nat BY <1>2, TwosFound, WordSize
  <2>2. odd \in Nat \ {0}
    <3>1. mantissa % pow(2, t) = 0 BY <1>2, TwosFound
    <3>2. PICK p : p = pow(2, t) OBVIOUS
    <3>3. p \in Nat \ {0}
      <4>1. t \in Nat /\ 2 \in Nat \ {0} BY <2>1
      <4> HIDE DEF t
      <4> QED BY <3>2, <4>1, PowPositive
    <3>4. PICK q : q = mantissa \div p OBVIOUS
    <3>5. mantissa = p * q + (mantissa % p) /\ q \in Nat BY <3>3, <3>4, Division
    <3>6. q # 0
      <4>1. SUFFICES ASSUME q = 0 PROVE FALSE OBVIOUS
      <4>2. p * q = 0 BY <4>1, <3>3
      <4> QED BY <4>2, <3>1, <3>2, <3>5, <1>2
    <3> QED BY <3>2, <3>4, <3>5, <3>6
  <2>3. fp_to_decimal(mantissa, exp2)
          = [digits |-> strip_zeros(digits),
             exp10 |-> Len(digits) - 1 + (IF e < 0 THEN e ELSE 0)]
    BY <1>2 DEF fp_to_decimal
  <2>4. e \in Int BY <2>1
  <2> HIDE DEF odd, e, t
  <2>5. big_words(odd) \in Seq(Nat) /\ big_words(odd) # <<>> BY <2>2, BigWords
  <2>6. big \in Seq(Nat) /\ big # <<>>
    <3>1. PICK s : s = big_words(odd) OBVIOUS
    <3>2. s \in Seq(Nat) /\ s # <<>> BY <3>1, <2>5
    <3>3. TwoChunk \in Nat \ {0} /\ FiveChunk \in Nat \ {0} /\ 2 \in Nat /\ 5 \in Nat
      BY FloatConstants
    <3>4. CASE e > 0
      <4>1. e \in Nat BY <3>4, <2>4
      <4>2. big_power(s, 2, e, TwoChunk) \in Seq(Nat) \ {<<>>} BY <3>2, <3>3, <4>1, BigPower
      <4> QED BY <4>2, <3>1, <3>4
    <3>5. CASE ~(e > 0)
      <4>1. -e \in Nat BY <3>5, <2>4
      <4>2. big_power(s, 5, -e, FiveChunk) \in Seq(Nat) \ {<<>>} BY <3>2, <3>3, <4>1, BigPower
      <4> QED BY <4>2, <3>1, <3>5
    <3> QED BY <3>4, <3>5
  <2> HIDE DEF big
  <2>7. digits \in Seq(Nat) BY <2>6, BigDigitsTyped
  <2> HIDE DEF digits
  <2>8. strip_zeros(digits) \in Seq(Nat) /\ Len(digits) \in Nat
    BY <2>7, Stripped, LenProperties
  <2> QED BY <2>3, <2>4, <2>8 DEF Decimals
<1> QED BY <1>1, <1>2

LEMMA RoundTyped ==
  ASSUME NEW dec \in Decimals, NEW keep \in Int
  PROVE  fp_round(dec, keep) \in Decimals
<1> DEFINE kept == SubSeq(dec.digits, 1, keep)
           P == {j \in 1 .. Len(kept) : kept[j] # 9}
           i == IF P # {} THEN Max(P) ELSE 0
           last == SelectLastInSeq(kept, LAMBDA d : d # 9)
           grown == [SubSeq(kept, 1, i) EXCEPT ![i] = @ + 1]
<1>1. dec.digits \in Seq(Nat) /\ dec.exp10 \in Int BY DEF Decimals
<1>2. PICK n : n = Len(dec.digits) OBVIOUS
<1>3. n \in Nat BY <1>1, <1>2
<1>4. last = i BY DEF SelectLastInSeq
<1>5. \/ fp_round(dec, keep) = dec
      \/ fp_round(dec, keep) = [dec EXCEPT !.digits = <<>>]
      \/ keep < n /\ fp_round(dec, keep) = [dec EXCEPT !.digits = strip_zeros(kept)]
      \/ fp_round(dec, keep) = [digits |-> <<1>>, exp10 |-> dec.exp10 + 1]
      \/ keep < n /\ i # 0 /\ fp_round(dec, keep) = [dec EXCEPT !.digits = grown]
  <2> HIDE DEF i
  <2>1. fp_round(dec, keep)
          = LET digits == dec.digits
                next == digits[keep + 1]
                round_up == \/ next > 5
                            \/ next = 5 /\ (keep + 1 < Len(digits)
                                              \/ (keep > 0 /\ Last(kept) % 2 = 1))
            IN  IF keep >= Len(digits) THEN dec
                ELSE IF keep < 0 THEN [dec EXCEPT !.digits = <<>>]
                ELSE IF ~round_up THEN [dec EXCEPT !.digits = strip_zeros(kept)]
                ELSE IF i = 0 THEN [digits |-> <<1>>, exp10 |-> dec.exp10 + 1]
                ELSE [dec EXCEPT !.digits = grown]
    BY <1>4 DEF fp_round
  <2> HIDE DEF kept, grown
  <2> QED BY <2>1, <1>2, <1>3
<1>6. ASSUME keep < n PROVE kept \in Seq(Nat)
  <2>1. \A j \in 1 .. keep : dec.digits[j] \in Nat BY <1>1, <1>2, <1>3, <1>6
  <2> QED BY <2>1, SubSeqProperties
<1>7. ASSUME keep < n, i # 0 PROVE grown \in Seq(Nat)
  <2>1. kept \in Seq(Nat) BY <1>6, <1>7
  <2>2. PICK l : l = Len(kept) OBVIOUS
  <2>3. l \in Nat BY <2>1, <2>2
  <2>4. i \in 0 .. l
    <3>1. P \in SUBSET (1 .. l) BY <2>2
    <3> HIDE DEF P
    <3> QED BY <2>3, <3>1, LastOf
  <2>5. i \in 1 .. l BY <1>7, <2>3, <2>4
  <2> HIDE DEF kept, i
  <2>6. PICK q : q = SubSeq(kept, 1, i) OBVIOUS
  <2>7. q \in Seq(Nat) /\ Len(q) = i
    <3>1. \A j \in 1 .. i : kept[j] \in Nat BY <2>1, <2>2, <2>3, <2>5
    <3>2. 1 \in Int /\ i \in Int /\ 1 <= i /\ i - 1 + 1 = i BY <2>3, <2>5
    <3> QED BY <3>1, <3>2, <2>6, SubSeqProperties
  <2>8. i \in 1 .. Len(q) BY <2>3, <2>5, <2>7
  <2>9. q[i] + 1 \in Nat
    <3>1. q[i] \in Nat BY <2>7, <2>8
    <3> QED BY <3>1
  <2>10. [q EXCEPT ![i] = q[i] + 1] \in Seq(Nat) BY <2>7, <2>8, <2>9, ExceptSeq
  <2> QED BY <2>6, <2>10
<1>8. keep < n => strip_zeros(kept) \in Seq(Nat) BY <1>6, Stripped
<1> HIDE DEF kept, grown, i
<1>9. <<>> \in Seq(Nat) /\ <<1>> \in Seq(Nat) OBVIOUS
<1>10. \A s \in Seq(Nat) : [dec EXCEPT !.digits = s] \in Decimals BY DEF Decimals
<1>11. [digits |-> <<1>>, exp10 |-> dec.exp10 + 1] \in Decimals BY <1>1, <1>9 DEF Decimals
<1> QED BY <1>5, <1>7, <1>8, <1>9, <1>10, <1>11

-----------------------------------------------------------------------------
(* The pieces of a floating point conversion                               *)

\* What the fields need of a conversion.
Printable(c) ==
  /\ c.width \in Nat /\ c.precision \in Nat \cup {-1}

\* A prefix, a body and what stands around them are sequences.
LEMMA AroundTyped ==
  ASSUME NEW c, Printable(c), NEW len \in Nat, NEW prefix \in Seq(Int),
         NEW zero_pad \in BOOLEAN
  PROVE  /\ fprintf_field_begin(c, len, prefix, zero_pad) \in Seq(Seq(Int))
         /\ fprintf_field_end(c, len) \in Seq(Seq(Int))
<1>1. SPACE \in Int /\ 0 \in Int BY DEF SPACE
<1> DEFINE pad == IF c.width > len THEN c.width - len ELSE 0
<1>2. c.width \in Nat BY DEF Printable
<1>3. pad \in Nat BY <1>2
<1>4. repeat(SPACE, pad) \in Seq(Int) /\ repeat(0, pad) \in Seq(Int)
  <2>1. PICK n : n = pad OBVIOUS
  <2>2. n \in Nat BY <1>3, <2>1
  <2> QED BY <1>1, <2>1, <2>2, RepeatIs
<1>5. fprintf_field_begin(c, len, prefix, zero_pad)
        \in {<<prefix>>, <<prefix, repeat(0, pad)>>, <<repeat(SPACE, pad), prefix>>}
  BY DEF fprintf_field_begin
<1>6. fprintf_field_end(c, len) \in {<<>>, <<repeat(SPACE, pad)>>}
  BY <1>2 DEF fprintf_field_end
<1> HIDE DEF pad
<1>7. PICK a, b : a = repeat(SPACE, pad) /\ b = repeat(0, pad) OBVIOUS
<1>8. a \in Seq(Int) /\ b \in Seq(Int) BY <1>4, <1>7
<1>9. <<prefix>> \in Seq(Seq(Int)) /\ <<prefix, b>> \in Seq(Seq(Int))
      /\ <<a, prefix>> \in Seq(Seq(Int)) /\ <<a>> \in Seq(Seq(Int)) /\ <<>> \in Seq(Seq(Int))
  BY ONLY <1>8, prefix \in Seq(Int)
<1> QED BY <1>5, <1>6, <1>7, <1>9

\* Sequences of pieces are put together from such sequences.
LEMMA PiecesJoined ==
  ASSUME NEW a \in Seq(Seq(Int)), NEW b \in Seq(Seq(Int)), NEW c \in Seq(Seq(Int)),
         NEW d \in Seq(Seq(Int))
  PROVE  a \o b \o c \in Seq(Seq(Int)) /\ a \o b \o c \o d \in Seq(Seq(Int))
<1>1. PICK x : x = a \o b OBVIOUS
<1>2. x \in Seq(Seq(Int)) BY <1>1, ConcatProperties
<1>3. PICK y : y = x \o c OBVIOUS
<1>4. y \in Seq(Seq(Int)) BY <1>2, <1>3, ConcatProperties
<1>5. y \o d \in Seq(Seq(Int)) BY <1>4, ConcatProperties
<1> QED BY <1>1, <1>3, <1>4, <1>5

LEMMA ThreeInts ==
  ASSUME NEW a \in Seq(Int), NEW b \in Seq(Int), NEW c \in Seq(Int)
  PROVE  a \o b \o c \in Seq(Int) /\ a \o b \in Seq(Int)
         /\ Len(a) \in Nat /\ Len(a \o b) = Len(a) + Len(b)
<1>1. PICK x : x = a \o b OBVIOUS
<1>2. x \in Seq(Int) /\ Len(x) = Len(a) + Len(b) BY <1>1, ConcatProperties
<1>3. x \o c \in Seq(Int) BY <1>2, ConcatProperties
<1> QED BY <1>1, <1>2, <1>3

\* Characters one by one.
LEMMA OneByOne ==
  ASSUME NEW s \in Seq(Int)
  PROVE  one_by_one(s) \in Seq(Seq(Int)) /\ FlattenSeq(one_by_one(s)) = s
<1>1. [m \in DOMAIN s |-> <<s[m]>>] \in Seq(Seq(Int))
      /\ FlattenSeq([m \in DOMAIN s |-> <<s[m]>>]) = s
  BY FlattenSingles
<1> QED BY <1>1 DEF one_by_one

LEMMA PointTyped ==
  ASSUME NEW c, NEW p \in Int
  PROVE  point(c, p) \in Seq(Int) /\ Len(point(c, p)) \in Nat
<1>1. point(c, p) \in {<<>>, <<DOT>>} BY DEF point
<1>2. <<>> \in Seq(Int) /\ <<DOT>> \in Seq(Int) BY DEF DOT
<1> QED BY <1>1, <1>2

LEMMA SignTyped ==
  ASSUME NEW c, NEW negative
  PROVE  fprintf_sign(c, negative) \in Seq(Int)
<1>1. fprintf_sign(c, negative) \in {<<MINUS>>, <<PLUS>>, <<SPACE>>, <<>>}
  BY DEF fprintf_sign
<1>2. /\ <<MINUS>> \in Seq(Int) /\ <<PLUS>> \in Seq(Int) /\ <<SPACE>> \in Seq(Int)
      /\ <<>> \in Seq(Int)
  BY DEF MINUS, PLUS, SPACE
<1> QED BY <1>1, <1>2

LEMMA CasedTyped ==
  ASSUME NEW c, NEW ch \in Int
  PROVE  cased(c, ch) \in Int
BY DEF cased, upper

LEMMA CountDigits ==
  ASSUME NEW n \in Nat
  PROVE  fp_count_digits(n) \in Nat
<1>1. 10 \in Nat /\ 10 > 1 OBVIOUS
<1>2. digits_total(n, 10) \in Nat BY <1>1, DigitsTotal
<1> QED BY <1>2 DEF fp_count_digits, larger

LEMMA ExponentTyped ==
  ASSUME NEW c, NEW letter \in Int, NEW exp \in Int, NEW n \in Nat
  PROVE  exponent(c, letter, exp, n) \in Seq(Int)
<1>1. magnitude(exp) \in Nat BY DEF magnitude
<1>2. PICK a, b : a = <<cased(c, letter), IF exp < 0 THEN MINUS ELSE PLUS>>
                  /\ b = leading(magnitude(exp), n, n, 10)
  OBVIOUS
<1>3. a \in Seq(Int)
  <2>1. cased(c, letter) \in Int BY CasedTyped
  <2> QED BY <2>1, <1>2 DEF MINUS, PLUS
<1>4. b \in Seq(Nat)
  <2>1. 10 \in Nat /\ 10 > 1 /\ n \in 0 .. n OBVIOUS
  <2> QED BY <2>1, <1>1, <1>2, LeadingTyped
<1>5. b \in Seq(Int) BY <1>4, SeqMonotonic
<1>6. a \o b \in Seq(Int) BY ONLY <1>3, <1>5, ConcatProperties
<1> QED BY <1>2, <1>6 DEF exponent

LEMMA DigitAtTyped ==
  ASSUME NEW dec \in Decimals, NEW power \in Int
  PROVE  fp_digit_at(dec, power) \in Int
<1>1. dec.digits \in Seq(Nat) BY DEF Decimals
<1>2. PICK i : i = dec.exp10 - power + 1 OBVIOUS
<1>3. i \in DOMAIN dec.digits => dec.digits[i] \in Nat BY <1>1
<1>4. fp_digit_at(dec, power) = IF i \in DOMAIN dec.digits THEN dec.digits[i] ELSE 0
  BY <1>2 DEF fp_digit_at
<1> QED BY <1>3, <1>4

LEMMA FixedTyped ==
  ASSUME NEW c, Printable(c), NEW dec \in Decimals, NEW precision \in Nat,
         NEW prefix \in Seq(Int)
  PROVE  fp_output_fixed(c, dec, precision, prefix) \in Seq(Seq(Int))
<1> DEFINE dot == point(c, precision)
           int_digits == IF dec.digits # <<>> /\ dec.exp10 > 0 THEN dec.exp10 + 1 ELSE 1
           shown == smaller(precision, larger(Len(dec.digits) - dec.exp10 - 1, 0))
           len == Len(prefix) + int_digits + Len(dot) + precision
           whole == [m \in 1 .. int_digits |-> fp_digit_at(dec, int_digits - m)]
           part == [m \in 1 .. shown |-> fp_digit_at(dec, -m)]
           chars == whole \o dot \o part
           begin == fprintf_field_begin(c, len, prefix, 0 \in c.flags)
           end == fprintf_field_end(c, len)
<1>1. dec.digits \in Seq(Nat) /\ dec.exp10 \in Int /\ Len(dec.digits) \in Nat
  BY DEF Decimals
<1>2. int_digits \in Nat /\ shown \in 0 .. precision
  BY <1>1 DEF smaller, larger
<1>3. dot \in Seq(Int) /\ Len(dot) \in Nat BY PointTyped
<1>4. fp_output_fixed(c, dec, precision, prefix)
        = begin \o one_by_one(chars) \o <<repeat(0, precision - shown)>> \o end
  BY DEF fp_output_fixed
<1> HIDE DEF dot, int_digits, shown
<1>5. len \in Nat BY <1>2, <1>3, LenProperties
<1>6. whole \in Seq(Int)
  <2>1. \A m \in 1 .. int_digits : fp_digit_at(dec, int_digits - m) \in Int
    BY <1>2, DigitAtTyped
  <2> QED BY <2>1, <1>2
<1>7. part \in Seq(Int)
  <2>1. \A m \in 1 .. shown : fp_digit_at(dec, -m) \in Int BY <1>2, DigitAtTyped
  <2>2. shown \in Nat BY <1>2
  <2> QED BY <2>1, <2>2
<1> HIDE DEF whole, part
<1>8. chars \in Seq(Int) BY <1>3, <1>6, <1>7, ThreeInts
<1>9. begin \in Seq(Seq(Int)) /\ end \in Seq(Seq(Int))
  <2> HIDE DEF len
  <2>1. (0 \in c.flags) \in BOOLEAN OBVIOUS
  <2> QED BY <2>1, <1>5, AroundTyped
<1>10. one_by_one(chars) \in Seq(Seq(Int))
  <2> HIDE DEF chars
  <2> QED BY <1>8, OneByOne
<1>11. <<repeat(0, precision - shown)>> \in Seq(Seq(Int))
  <2>1. PICK n : n = precision - shown OBVIOUS
  <2>2. n \in Nat /\ 0 \in Int BY <2>1, <1>2
  <2>3. repeat(0, n) \in Seq(Int) BY <2>2, RepeatIs
  <2> QED BY <2>1, <2>3
<1> HIDE DEF begin, end, chars
<1>12. PICK x, y : x = one_by_one(chars) /\ y = <<repeat(0, precision - shown)>> OBVIOUS
<1>13. begin \o x \o y \o end \in Seq(Seq(Int)) BY <1>9, <1>10, <1>11, <1>12, PiecesJoined
<1> QED BY <1>4, <1>12, <1>13

LEMMA ExponentialTyped ==
  ASSUME NEW c, Printable(c), NEW dec \in Decimals, NEW precision \in Nat,
         NEW prefix \in Seq(Int)
  PROVE  fp_output_exponent(c, dec, precision, prefix) \in Seq(Seq(Int))
<1> DEFINE dot == point(c, precision)
           exp10 == IF dec.digits # <<>> THEN dec.exp10 ELSE 0
           exp_digits == larger(fp_count_digits(magnitude(exp10)), 2)
           frac == SubSeq(dec.digits, 2, smaller(Len(dec.digits), precision + 1))
           len == Len(prefix) + 1 + Len(dot) + precision + 2 + exp_digits
           first == <<IF dec.digits # <<>> THEN dec.digits[1] ELSE 0>>
           chars == first \o dot
           rest == <<frac, repeat(0, precision - Len(frac)),
                     exponent(c, CH_E, exp10, exp_digits)>>
           begin == fprintf_field_begin(c, len, prefix, 0 \in c.flags)
           end == fprintf_field_end(c, len)
<1>1. dec.digits \in Seq(Nat) /\ dec.exp10 \in Int /\ Len(dec.digits) \in Nat
  BY DEF Decimals
<1>2. exp10 \in Int /\ magnitude(exp10) \in Nat BY <1>1 DEF magnitude
<1>3. dot \in Seq(Int) /\ Len(dot) \in Nat BY PointTyped
<1>4. fp_output_exponent(c, dec, precision, prefix)
        = begin \o one_by_one(chars) \o rest \o end
  BY DEF fp_output_exponent
<1> HIDE DEF dot, exp10
<1>5. exp_digits \in Nat
  <2>1. fp_count_digits(magnitude(exp10)) \in Nat BY <1>2, CountDigits
  <2> QED BY <2>1 DEF larger
<1> HIDE DEF exp_digits
<1>6. len \in Nat
  <2>1. Len(prefix) \in Nat OBVIOUS
  <2> QED BY <2>1, <1>3, <1>5
<1>7. first \in Seq(Int)
  <2>1. dec.digits # <<>> => dec.digits[1] \in Int BY <1>1
  <2> QED BY <2>1
<1>8. frac \in Seq(Int) /\ Len(frac) \in 0 .. precision
  <2>1. PICK n, s : n = Len(dec.digits) /\ s = smaller(n, precision + 1) OBVIOUS
  <2>2. n \in Nat /\ s \in Int /\ s <= n /\ s <= precision + 1 BY <2>1, <1>1 DEF smaller
  <2>3. \A j \in 2 .. s : dec.digits[j] \in Int
    <3>1. ASSUME NEW j \in 2 .. s PROVE dec.digits[j] \in Int
      <4>1. j \in 1 .. Len(dec.digits) BY <2>1, <2>2
      <4> QED BY <4>1, <1>1
    <3> QED BY <3>1
  <2>4. 2 \in Int OBVIOUS
  <2>5. /\ SubSeq(dec.digits, 2, s) \in Seq(Int)
        /\ Len(SubSeq(dec.digits, 2, s)) = IF 2 <= s THEN s - 2 + 1 ELSE 0
    BY <2>2, <2>3, <2>4, SubSeqProperties
  <2>6. Len(frac) = IF 2 <= s THEN s - 2 + 1 ELSE 0 BY <2>1, <2>5
  <2>7. Len(frac) \in 0 .. precision
    <3> HIDE DEF frac
    <3> QED BY <2>2, <2>6
  <2> QED BY <2>1, <2>5, <2>7
<1> HIDE DEF first, frac
<1>9. chars \in Seq(Int) BY <1>3, <1>7, ThreeInts
<1>10. begin \in Seq(Seq(Int)) /\ end \in Seq(Seq(Int))
  <2> HIDE DEF len
  <2>1. (0 \in c.flags) \in BOOLEAN OBVIOUS
  <2> QED BY <2>1, <1>6, AroundTyped
<1>11. one_by_one(chars) \in Seq(Seq(Int))
  <2> HIDE DEF chars
  <2> QED BY <1>9, OneByOne
<1>12. rest \in Seq(Seq(Int))
  <2>1. PICK n : n = precision - Len(frac) OBVIOUS
  <2>2. n \in Nat /\ 0 \in Int BY <2>1, <1>8
  <2>3. repeat(0, n) \in Seq(Int) BY <2>2, RepeatIs
  <2>4. exponent(c, CH_E, exp10, exp_digits) \in Seq(Int)
    <3>1. CH_E \in Int BY DEF CH_E
    <3> QED BY <3>1, <1>2, <1>5, ExponentTyped
  <2>5. PICK u, v : u = repeat(0, precision - Len(frac))
                    /\ v = exponent(c, CH_E, exp10, exp_digits)
    OBVIOUS
  <2>6. u \in Seq(Int) /\ v \in Seq(Int) /\ frac \in Seq(Int) BY <2>1, <2>3, <2>4, <2>5, <1>8
  <2>7. <<frac, u, v>> \in Seq(Seq(Int)) BY ONLY <2>6
  <2> QED BY <2>5, <2>7
<1> HIDE DEF begin, end, chars, rest
<1>13. PICK x : x = one_by_one(chars) OBVIOUS
<1>14. begin \o x \o rest \o end \in Seq(Seq(Int))
  BY <1>10, <1>11, <1>12, <1>13, PiecesJoined
<1> QED BY <1>4, <1>13, <1>14

\* Enough hexadecimal digits for a fraction are found.
LEMMA HexNeeded ==
  ASSUME NEW frac \in Nat, NEW n \in Nat
  PROVE  hex_needed(frac, n) \in 0 .. n
<1> DEFINE T == {p \in Nat : p <= n /\ frac % pow(16, n - p) = 0}
           G(p) == /\ frac % pow(16, n - p) = 0
                   /\ p > 0 => frac % pow(16, n - p + 1) # 0
<1>1. n \in T
  <2>1. pow(16, 0) = 1 /\ n - n = 0
    <3>1. 16 \in Nat /\ 0 \in Nat OBVIOUS
    <3> QED BY <3>1, PowRule
  <2>2. frac % 1 \in 0 .. 1 - 1
    <3>1. 1 \in Nat /\ 1 > 0 OBVIOUS
    <3> QED BY <3>1, Division
  <2> QED BY <2>1, <2>2
<1>2. PICK p \in T : \A k \in T : p <= k
  <2>1. T \in SUBSET Nat OBVIOUS
  <2> HIDE DEF T
  <2> QED BY <2>1, <1>1, LeastMember
<1>3. p \in 0 .. n /\ frac % pow(16, n - p) = 0 BY <1>2
<1>4. p > 0 => frac % pow(16, n - p + 1) # 0
  <2>1. SUFFICES ASSUME p > 0 PROVE frac % pow(16, n - p + 1) # 0 OBVIOUS
  <2>2. p - 1 \in Nat /\ p - 1 <= n /\ n - (p - 1) = n - p + 1 /\ ~(p <= p - 1)
    BY <2>1, <1>3
  <2>3. p - 1 \notin T BY <2>2, <1>2
  <2> QED BY <2>2, <2>3
<1>5. hex_needed(frac, n) = CHOOSE x \in 0 .. n : G(x) BY DEF hex_needed
<1>6. G(p) BY <1>3, <1>4
<1> HIDE DEF G
<1> QED BY <1>3, <1>5, <1>6

LEMMA HexRounds ==
  ASSUME NEW parts, parts.mantissa \in Nat, parts.hex_frac_bits \in Nat,
         NEW precision \in Nat, precision <= parts.hex_frac_bits \div 4
  PROVE  hex_round(parts, precision) \in Nat
<1>1. PICK n : n = parts.hex_frac_bits \div 4 OBVIOUS
<1>2. n \in Nat
  <2>1. 4 \in Nat /\ 4 > 0 OBVIOUS
  <2> QED BY <1>1, <2>1, Division
<1>3. PICK unit : unit = pow(16, n - precision) OBVIOUS
<1>4. unit \in Nat \ {0}
  <2>1. 16 \in Nat \ {0} /\ n - precision \in Nat BY <1>1, <1>2
  <2> QED BY <2>1, <1>3, PowPositive
<1>5. PICK kept : kept = parts.mantissa \div unit OBVIOUS
<1>6. kept \in Nat BY <1>4, <1>5, Division
<1>7. kept * unit \in Nat /\ (kept + 1) * unit \in Nat BY <1>4, <1>6
<1>8. hex_round(parts, precision) \in {(kept + 1) * unit, kept * unit}
  BY <1>1, <1>3, <1>5 DEF hex_round
<1> QED BY <1>7, <1>8

LEMMA HexTyped ==
  ASSUME NEW c, Printable(c), NEW parts, parts.mantissa \in Nat, parts.hex_frac_bits \in Nat,
         parts.exp2 \in Int, NEW sign \in Seq(Int)
  PROVE  fp_output_hex(c, parts, sign) \in Seq(Seq(Int))
<1> DEFINE n == parts.hex_frac_bits \div 4
           rounds == c.precision >= 0 /\ c.precision < n
           v == IF rounds THEN hex_round(parts, c.precision) ELSE parts.mantissa
           carries == rounds /\ v \div pow(16, n) > 15
           lead == IF carries THEN v \div pow(16, n + 1) ELSE v \div pow(16, n)
           frac == v % pow(16, n)
           precision == IF c.precision < 0 THEN hex_needed(frac, n) ELSE c.precision
           exp == IF parts.mantissa = 0 THEN 0
                  ELSE parts.exp2 + parts.hex_frac_bits + (IF carries THEN 4 ELSE 0)
           prefix == sign \o <<0, cased(c, CH_X)>>
           dot == point(c, precision)
           exp_digits == fp_count_digits(magnitude(exp))
           len == Len(prefix) + 1 + Len(dot) + precision + 2 + exp_digits
           shown == leading(frac, n, smaller(precision, n), 16)
           digits == shown \o repeat(0, precision - smaller(precision, n))
           first == <<cased(c, lead % 16)>>
           behind == [m \in DOMAIN digits |-> cased(c, digits[m])]
           chars == first \o dot \o behind
           begin == fprintf_field_begin(c, len, prefix, 0 \in c.flags)
           end == fprintf_field_end(c, len)
           last == <<exponent(c, CH_P, exp, exp_digits)>>
<1>1. c.precision \in Nat \cup {-1} BY DEF Printable
<1>2. n \in Nat
  <2>1. 4 \in Nat /\ 4 > 0 OBVIOUS
  <2> QED BY <2>1, Division
<1>3. fp_output_hex(c, parts, sign) = begin \o one_by_one(chars) \o last \o end
  BY DEF fp_output_hex
<1>4. v \in Nat
  <2>1. rounds => c.precision \in Nat /\ c.precision <= n BY <1>1, <1>2
  <2> QED BY <2>1, HexRounds
<1> HIDE DEF v
<1>5. pow(16, n) \in Nat \ {0} /\ pow(16, n + 1) \in Nat \ {0}
  <2>1. 16 \in Nat \ {0} /\ n + 1 \in Nat BY <1>2
  <2> HIDE DEF n
  <2> QED BY <2>1, <1>2, PowPositive
<1>6. lead \in Nat /\ frac \in Nat
  <2>1. PICK x, y : x = pow(16, n) /\ y = pow(16, n + 1) OBVIOUS
  <2>2. x \in Nat \ {0} /\ y \in Nat \ {0} BY <2>1, <1>5
  <2>3. v \div x \in Nat /\ v \div y \in Nat /\ v % x \in 0 .. x - 1 BY <2>2, <1>4, Division
  <2>4. v % x \in Nat BY <2>2, <2>3
  <2> HIDE DEF carries
  <2> QED BY <2>1, <2>3, <2>4
<1> HIDE DEF n, lead, frac
<1>7. precision \in Nat
  <2>1. hex_needed(frac, n) \in 0 .. n BY <1>2, <1>6, HexNeeded
  <2>2. hex_needed(frac, n) \in Nat BY <2>1, <1>2
  <2> QED BY <2>2, <1>1
<1> HIDE DEF precision
<1>8. exp \in Int BY DEF carries
<1> HIDE DEF exp
<1>9. exp_digits \in Nat
  <2>1. magnitude(exp) \in Nat BY <1>8 DEF magnitude
  <2> QED BY <2>1, CountDigits
<1> HIDE DEF exp_digits
<1>10. dot \in Seq(Int) /\ Len(dot) \in Nat BY <1>7, PointTyped
<1> HIDE DEF dot
<1>11. prefix \in Seq(Int)
  <2>1. cased(c, CH_X) \in Int
    <3>1. CH_X \in Int BY DEF CH_X
    <3> QED BY <3>1, CasedTyped
  <2>2. PICK q : q = <<0, cased(c, CH_X)>> OBVIOUS
  <2>3. q \in Seq(Int) BY <2>1, <2>2
  <2>4. sign \o q \in Seq(Int) BY <2>3, ConcatProperties
  <2> QED BY <2>2, <2>4
<1> HIDE DEF prefix
<1>12. len \in Nat BY <1>7, <1>9, <1>10, <1>11, LenProperties
<1> HIDE DEF len
<1>13. begin \in Seq(Seq(Int)) /\ end \in Seq(Seq(Int))
  <2>1. (0 \in c.flags) \in BOOLEAN OBVIOUS
  <2> QED BY <2>1, <1>11, <1>12, AroundTyped
<1>14. digits \in Seq(Int)
  <2>1. PICK k : k = smaller(precision, n) OBVIOUS
  <2>2. k \in 0 .. n /\ precision - k \in Nat BY <2>1, <1>2, <1>7 DEF smaller
  <2>3. leading(frac, n, k, 16) \in Seq(Nat)
    <3>1. 16 \in Nat /\ 16 > 1 OBVIOUS
    <3> QED BY <3>1, <2>2, <1>2, <1>6, LeadingTyped
  <2>4. leading(frac, n, k, 16) \in Seq(Int) BY <2>3, SeqMonotonic
  <2>5. PICK z : z = precision - k OBVIOUS
  <2>6. z \in Nat /\ 0 \in Int BY <2>2, <2>5
  <2>7. repeat(0, z) \in Seq(Int) BY <2>6, RepeatIs
  <2>8. leading(frac, n, k, 16) \o repeat(0, z) \in Seq(Int)
    <3>1. PICK x, y : x = leading(frac, n, k, 16) /\ y = repeat(0, z) OBVIOUS
    <3>2. x \in Seq(Int) /\ y \in Seq(Int) BY <3>1, <2>4, <2>7
    <3>3. x \o y \in Seq(Int) BY ONLY <3>2, ConcatProperties
    <3> QED BY <3>1, <3>3
  <2> QED BY <2>1, <2>5, <2>8
<1> HIDE DEF digits
<1>15. behind \in Seq(Int)
  <2>1. \A m \in 1 .. Len(digits) : cased(c, digits[m]) \in Int BY <1>14, CasedTyped
  <2>2. DOMAIN digits = 1 .. Len(digits) /\ Len(digits) \in Nat BY <1>14
  <2> QED BY <2>1, <2>2
<1>16. first \in Seq(Int)
  <2>1. lead % 16 \in 0 .. 16 - 1
    <3>1. 16 \in Nat /\ 16 > 0 OBVIOUS
    <3> QED BY <3>1, <1>6, Division
  <2>2. cased(c, lead % 16) \in Int BY <2>1, CasedTyped
  <2> QED BY <2>2
<1> HIDE DEF behind, first
<1>17. chars \in Seq(Int) BY <1>10, <1>15, <1>16, ThreeInts
<1> HIDE DEF chars
<1>18. one_by_one(chars) \in Seq(Seq(Int)) BY <1>17, OneByOne
<1>19. last \in Seq(Seq(Int))
  <2>1. CH_P \in Int BY DEF CH_P
  <2>2. exponent(c, CH_P, exp, exp_digits) \in Seq(Int) BY <2>1, <1>8, <1>9, ExponentTyped
  <2> QED BY <2>2
<1> HIDE DEF begin, end, last
<1>20. PICK x : x = one_by_one(chars) OBVIOUS
<1>21. begin \o x \o last \o end \in Seq(Seq(Int))
  BY <1>13, <1>18, <1>19, <1>20, PiecesJoined
<1> QED BY <1>3, <1>20, <1>21

LEMMA SmartTyped ==
  ASSUME NEW c, Printable(c), NEW rounded \in Decimals, NEW precision \in Nat \ {0},
         NEW sign \in Seq(Int)
  PROVE  fp_output_smart(c, rounded, precision, sign) \in Seq(Seq(Int))
<1> DEFINE alt == HASH \in c.flags
           n == Len(rounded.digits)
           exp10 == IF n > 0 THEN rounded.exp10 ELSE 0
           after == IF alt THEN precision - 1 - exp10
                    ELSE smaller(precision - 1 - exp10, larger(n - 1 - exp10, 0))
           behind == IF alt THEN precision - 1
                     ELSE smaller(precision - 1, larger(n - 1, 0))
<1>1. n \in Nat /\ rounded.exp10 \in Int BY DEF Decimals
<1>2. exp10 < precision => after \in Nat BY <1>1 DEF smaller, larger
<1>3. behind \in Nat BY <1>1 DEF smaller, larger
<1>4. fp_output_smart(c, rounded, precision, sign)
        = IF exp10 < precision /\ exp10 >= -4
          THEN fp_output_fixed(c, rounded, after, sign)
          ELSE fp_output_exponent(c, rounded, behind, sign)
  BY DEF fp_output_smart
<1> HIDE DEF alt, n, exp10, after, behind
<1> QED BY <1>2, <1>3, <1>4, FixedTyped, ExponentialTyped

\* The parts of a floating point number.
LEMMA SplitTyped ==
  ASSUME NEW word \in Nat, NEW is_long \in BOOLEAN
  PROVE  LET parts == fp_split(word, is_long)
         IN  /\ parts.mantissa \in Nat /\ parts.mantissa < pow(2, W + 1)
             /\ parts.exp2 \in Int /\ parts.hex_frac_bits \in Nat
             /\ parts.cls \in {"finite", "inf", "nan"}
<1>1. W \in Nat /\ ExpBits \in Nat /\ FracBits \in Nat /\ FracBits >= 4 /\ FracBits < W
      /\ ExpBits > 0
  BY WordSize, FloatConstants DEF FracBits
<1>2. PICK f : f = pow(2, FracBits) OBVIOUS
<1>3. 2 \in Nat \ {0} /\ f \in Nat \ {0}
  <2>1. 2 \in Nat \ {0} OBVIOUS
  <2> QED BY <2>1, <1>1, <1>2, PowPositive
<1>4. pow(2, ExpBits) \in Nat \ {0} /\ pow(2, ExpBits - 1) \in Nat
  <2>1. 2 \in Nat \ {0} /\ ExpBits - 1 \in Nat BY <1>1
  <2> QED BY <2>1, <1>1, PowPositive
<1>5. PICK biased, low : biased = (word \div f) % pow(2, ExpBits) /\ low = word % f OBVIOUS
<1>6. low \in 0 .. f - 1 /\ biased \in Nat
  <2>1. word \div f \in Nat /\ word % f \in 0 .. f - 1 BY <1>3, Division
  <2>2. PICK x : x = word \div f OBVIOUS
  <2>3. PICK p : p = pow(2, ExpBits) OBVIOUS
  <2>4. x % p \in 0 .. p - 1 BY <2>1, <2>2, <2>3, <1>4, Division
  <2>5. x % p \in Nat BY <2>3, <2>4, <1>4
  <2> QED BY <2>1, <2>2, <2>3, <2>5, <1>5
<1>7. PICK hidden : hidden = IF ~is_long /\ biased # 0 THEN f ELSE 0 OBVIOUS
<1>8. 2 * f <= pow(2, W + 1)
  <2>1. W + 1 \in Nat /\ FracBits < W + 1 BY <1>1
  <2> QED BY <2>1, <1>1, <1>2, <1>3, PowGrows
<1>9. low + hidden \in Nat /\ low + hidden < pow(2, W + 1)
  <2>1. PICK p : p = pow(2, W + 1) OBVIOUS
  <2>2. p \in Nat
    <3>1. W + 1 \in Nat BY <1>1
    <3> QED BY <3>1, <2>1, <1>3, PowPositive
  <2> QED BY <2>1, <2>2, <1>3, <1>6, <1>7, <1>8
<1> DEFINE parts == fp_split(word, is_long)
<1>10. /\ parts.mantissa = low + hidden
       /\ parts.exp2 = (IF biased = 0 THEN 1 ELSE biased) - (pow(2, ExpBits - 1) - 1)
                         - (IF is_long THEN FracBits - 1 ELSE FracBits)
       /\ parts.hex_frac_bits = (IF is_long THEN FracBits - 4 ELSE FracBits)
       /\ parts.cls \in {"finite", "inf", "nan"}
  BY <1>2, <1>5, <1>7 DEF fp_split
<1> HIDE DEF parts
<1>11. parts.exp2 \in Int BY <1>1, <1>4, <1>6, <1>10
<1>12. parts.hex_frac_bits \in Nat BY <1>1, <1>10
<1> QED BY <1>9, <1>10, <1>11, <1>12 DEF parts

LEMMA FloatTyped ==
  ASSUME NEW c, Printable(c), NEW word \in Nat
  PROVE  fprintf_output_float(c, word) \in Seq(Seq(Int))
<1> DEFINE parts == fp_split(word, c.length = "long_double")
           sign == fprintf_sign(c, parts.negative)
           text_of == IF parts.cls = "inf" THEN <<CH_I, CH_N, CH_F>> ELSE <<CH_N, CH_A, CH_N>>
           len == Len(sign) + 3
           dec == fp_to_decimal(parts.mantissa, parts.exp2)
           precision == IF c.precision < 0 THEN 6 ELSE c.precision
           middle == <<[m \in 1 .. 3 |-> cased(c, text_of[m])]>>
           special == fprintf_field_begin(c, len, sign, FALSE)
                        \o middle \o fprintf_field_end(c, len)
<1>1. /\ parts.mantissa \in Nat /\ parts.mantissa < pow(2, W + 1)
      /\ parts.exp2 \in Int /\ parts.hex_frac_bits \in Nat
  <2>1. (c.length = "long_double") \in BOOLEAN OBVIOUS
  <2> QED BY <2>1, SplitTyped
<1>2. sign \in Seq(Int) BY SignTyped
<1>3. precision \in Nat BY DEF Printable
<1>4. fprintf_output_float(c, word)
        \in {special, fp_output_hex(c, parts, sign),
             fp_output_fixed(c, IF dec.digits = <<>> THEN dec
                                ELSE fp_round(dec, dec.exp10 + 1 + precision),
                             precision, sign),
             fp_output_exponent(c, fp_round(dec, precision + 1), precision, sign),
             fp_output_smart(c, fp_round(dec, larger(precision, 1)),
                             larger(precision, 1), sign)}
  BY DEF fprintf_output_float
<1>5. special \in Seq(Seq(Int))
  <2>1. \A m \in 1 .. 3 : text_of[m] \in Int BY DEF CH_I, CH_N, CH_F, CH_A
  <2> HIDE DEF text_of, sign
  <2>2. \A m \in 1 .. 3 : cased(c, text_of[m]) \in Int BY <2>1, CasedTyped
  <2>3. [m \in 1 .. 3 |-> cased(c, text_of[m])] \in Seq(Int) BY <2>2
  <2>4. middle \in Seq(Seq(Int)) BY <2>3
  <2>5. len \in Nat BY <1>2, LenProperties
  <2> HIDE DEF middle, len
  <2>6. fprintf_field_begin(c, len, sign, FALSE) \in Seq(Seq(Int))
        /\ fprintf_field_end(c, len) \in Seq(Seq(Int))
    BY <2>5, <1>2, AroundTyped
  <2>7. PICK x, y : x = fprintf_field_begin(c, len, sign, FALSE)
                    /\ y = fprintf_field_end(c, len)
    OBVIOUS
  <2>8. x \o middle \o y \in Seq(Seq(Int)) BY <2>4, <2>6, <2>7, PiecesJoined
  <2> QED BY <2>7, <2>8
<1> HIDE DEF special
<1>6. dec \in Decimals
  <2> HIDE DEF parts
  <2> QED BY <1>1, ToDecimalTyped
<1> HIDE DEF parts, dec, precision, sign
<1>7. dec.exp10 \in Int BY <1>6 DEF Decimals
<1>8. fp_round(dec, dec.exp10 + 1 + precision) \in Decimals
      /\ fp_round(dec, precision + 1) \in Decimals
  <2>1. dec.exp10 + 1 + precision \in Int /\ precision + 1 \in Int BY <1>3, <1>7
  <2> QED BY <2>1, <1>6, RoundTyped
<1>9. PICK p : p = larger(precision, 1) OBVIOUS
<1>10. p \in Nat \ {0} BY <1>3, <1>9 DEF larger
<1>11. fp_round(dec, p) \in Decimals
  <2>1. p \in Int BY <1>10
  <2> QED BY <2>1, <1>6, RoundTyped
<1>12. fp_output_hex(c, parts, sign) \in Seq(Seq(Int)) BY <1>1, <1>2, HexTyped
<1>13. fp_output_fixed(c, IF dec.digits = <<>> THEN dec
                          ELSE fp_round(dec, dec.exp10 + 1 + precision),
                       precision, sign) \in Seq(Seq(Int))
  <2>1. PICK x : x = IF dec.digits = <<>> THEN dec
                     ELSE fp_round(dec, dec.exp10 + 1 + precision)
    OBVIOUS
  <2>2. x \in Decimals BY <2>1, <1>6, <1>8
  <2>3. fp_output_fixed(c, x, precision, sign) \in Seq(Seq(Int))
    BY <2>2, <1>2, <1>3, FixedTyped
  <2> QED BY <2>1, <2>3
<1>14. fp_output_exponent(c, fp_round(dec, precision + 1), precision, sign) \in Seq(Seq(Int))
  BY <1>2, <1>3, <1>8, ExponentialTyped
<1>15. fp_output_smart(c, fp_round(dec, p), p, sign) \in Seq(Seq(Int))
  BY <1>2, <1>10, <1>11, SmartTyped
<1> QED BY <1>4, <1>5, <1>9, <1>12, <1>13, <1>14, <1>15

-----------------------------------------------------------------------------
(* The field of an integer                                                 *)

\* Dividing twice.
LEMMA DivideTwice ==
  ASSUME NEW a \in Nat, NEW b \in Nat \ {0}, NEW c \in Nat \ {0}
  PROVE  a \div (b * c) = (a \div b) \div c
<1>1. PICK q, r : q = a \div b /\ r = a % b OBVIOUS
<1>2. a = b * q + r /\ r \in 0 .. b - 1 /\ q \in Nat BY <1>1, Division
<1>3. PICK s, t : s = q \div c /\ t = q % c OBVIOUS
<1>4. q = c * s + t /\ t \in 0 .. c - 1 /\ s \in Nat
  <2>1. c \in Nat /\ c > 0 OBVIOUS
  <2> QED BY <2>1, <1>2, <1>3, Division
<1>5. t \in Nat /\ r \in Nat /\ t <= c - 1 /\ r < b BY <1>2, <1>4
<1> DEFINE d == b * c
           e == b * t + r
<1>6. d \in Nat /\ e \in Nat
  <2>1. b * c \in Nat /\ b * t \in Nat BY <1>5
  <2> QED BY <2>1, <1>5
<1>7. e < d
  <2>1. b * t <= b * (c - 1)
    <3>1. PICK x : x = c - 1 - t OBVIOUS
    <3>2. x \in Nat /\ c - 1 = t + x BY <3>1, <1>5
    <3>3. b * (t + x) = b * t + b * x BY <3>2, <1>5
    <3>4. b * x \in Nat /\ b * t \in Nat BY <3>2, <1>5
    <3> QED BY <3>2, <3>3, <3>4
  <2>2. b * (c - 1) = b * c - b OBVIOUS
  <2>3. b * t \in Nat /\ b * c \in Nat BY <1>5
  <2> QED BY <2>1, <2>2, <2>3, <1>5
<1>8. a = d * s + e
  <2>1. b * (c * s + t) = b * (c * s) + b * t
    <3>1. c * s \in Nat BY <1>4
    <3> QED BY <3>1, <1>5
  <2>2. b * (c * s) = (b * c) * s BY <1>4
  <2> QED BY <2>1, <2>2, <1>2, <1>4
<1> HIDE DEF d, e
<1>9. (d * s + e) \div d = s BY <1>4, <1>6, <1>7, DivisionIs
<1>10. a \div d = s BY <1>8, <1>9
<1> QED BY <1>1, <1>3, <1>10 DEF d

\* Zeros in front of the digits of a number stand for the same number.
LEMMA ZerosInFront ==
  ASSUME NEW base \in Nat, base > 1, NEW v \in Nat, NEW n \in Nat, v < pow(base, n),
         NEW z \in Nat, NEW ds \in Seq(Nat), Len(ds) = z + n,
         \A k \in 1 .. z : ds[k] = 0,
         \A j \in 1 .. n : ds[z + j] = (v \div pow(base, n - j)) % base
  PROVE  positional(ds, base) = v
<1> DEFINE g == [k \in 0 .. z + n |->
                   IF k <= z THEN 0 ELSE v \div pow(base, n - (k - z))]
<1>0. base \in Nat \ {0} OBVIOUS
<1>1. \A k \in 0 .. z + n : g[k] = IF k <= z THEN 0 ELSE v \div pow(base, n - (k - z))
  OBVIOUS
<1>2. pow(base, 0) = 1 /\ pow(base, n) \in Nat \ {0} BY <1>0, PowRule, PowPositive
<1>3. v \div pow(base, n) = 0
  <2>1. PICK p : p = pow(base, n) OBVIOUS
  <2>2. p \in Nat \ {0} /\ v < p BY <2>1, <1>2
  <2>3. (p * 0 + v) \div p = 0
    <3>1. 0 \in Nat OBVIOUS
    <3> QED BY <3>1, <2>2, DivisionIs
  <2>4. p * 0 + v = v BY <2>2
  <2> QED BY <2>1, <2>3, <2>4
<1>4. ASSUME NEW k \in 1 .. z + n PROVE g[k] = g[k - 1] * base + ds[k]
  <2>1. k \in 0 .. z + n /\ k - 1 \in 0 .. z + n OBVIOUS
  <2>2. CASE k <= z
    <3>1. k \in 1 .. z /\ k - 1 <= z BY <2>2
    <3>2. g[k] = 0 /\ g[k - 1] = 0 /\ ds[k] = 0 BY <3>1, <2>1, <2>2, <1>1
    <3>3. 0 * base + 0 = 0 OBVIOUS
    <3> HIDE DEF g
    <3> QED BY <3>2, <3>3
  <2>3. CASE ~(k <= z)
    <3>1. PICK j : j = k - z OBVIOUS
    <3>2. j \in 1 .. n /\ k = z + j /\ n - j \in Nat /\ n - (j - 1) \in Nat
          /\ n - (j - 1) = (n - j) + 1
      BY <3>1, <2>3
    <3>3. PICK p : p = pow(base, n - j) OBVIOUS
    <3>4. p \in Nat \ {0} /\ pow(base, (n - j) + 1) = base * p
      BY <3>2, <3>3, <1>0, PowPositive, PowRule
    <3>5. PICK q : q = v \div p OBVIOUS
    <3>6. q \in Nat
      <4>1. p \in Nat /\ p > 0 /\ v \in Nat BY <3>4
      <4>2. v \div p \in Nat BY ONLY <4>1, Division
      <4> QED BY ONLY <4>2, <3>5
    <3>7. g[k] = q /\ ds[k] = q % base
      <4>1. g[k] = v \div pow(base, n - (k - z)) BY <2>1, <2>3, <1>1
      <4>2. n - (k - z) = n - j BY <3>1
      <4> HIDE DEF g
      <4> QED BY <4>1, <4>2, <3>2, <3>3, <3>5
    <3>8. g[k - 1] = v \div (p * base)
      <4>1. p * base = base * p BY <3>4
      <4>2. CASE k - 1 <= z
        <5>1. k - 1 = z /\ j = 1 BY <4>2, <2>3, <3>1
        <5>2. g[k - 1] = 0 BY <4>2, <2>1, <1>1
        <5>3. n = (n - j) + 1 BY <5>1
        <5>4. p * base = pow(base, n) BY <5>3, <4>1, <3>4
        <5> HIDE DEF g
        <5> QED BY <5>2, <5>4, <1>3
      <4>3. CASE ~(k - 1 <= z)
        <5>1. g[k - 1] = v \div pow(base, n - ((k - 1) - z)) BY <4>3, <2>1, <1>1
        <5>2. n - ((k - 1) - z) = (n - j) + 1 BY <3>1
        <5> HIDE DEF g
        <5> QED BY <5>1, <5>2, <4>1, <3>4
      <4> QED BY <4>2, <4>3
    <3>9. v \div (p * base) = q \div base BY <3>4, <3>5, <1>0, DivideTwice
    <3>10. q = base * (q \div base) + (q % base) /\ q \div base \in Nat
      <4>1. base \in Nat /\ base > 0 /\ q \in Nat BY <3>6
      <4> QED BY ONLY <4>1, Division
    <3>11. PICK x, y : x = q \div base /\ y = q % base OBVIOUS
    <3>12. x \in Nat /\ q = base * x + y /\ base * x = x * base BY <3>10, <3>11
    <3> HIDE DEF g
    <3> QED BY <3>7, <3>8, <3>9, <3>11, <3>12
  <2> QED BY <2>2, <2>3
<1>5. g[0] = 0 BY <1>1
<1>6. g[z + n] = v
  <2>1. z + n \in 0 .. z + n /\ n - ((z + n) - z) = 0 OBVIOUS
  <2>2. CASE n = 0
    <3>1. v < 1 BY <2>2, <1>2
    <3>2. g[z + n] = 0 BY <2>1, <2>2, <1>1
    <3> QED BY <3>1, <3>2
  <2>3. CASE n # 0
    <3>1. g[z + n] = v \div 1 BY <2>1, <2>3, <1>1, <1>2
    <3>2. v \div 1 = v
      <4>1. v = 1 * (v \div 1) + (v % 1) /\ v % 1 \in 0 .. 1 - 1 /\ v \div 1 \in Nat
        <5>1. 1 \in Nat /\ 1 > 0 OBVIOUS
        <5> QED BY <5>1, Division
      <4> QED BY <4>1
    <3> HIDE DEF g
    <3> QED BY <3>1, <3>2
  <2> QED BY <2>2, <2>3
<1> HIDE DEF g
<1>7. Climbs(g, ds, base) BY <1>4, <1>5 DEF Climbs
<1>8. positional(ds, base) = g[Len(ds)] BY <1>7, PositionalBy
<1> QED BY ONLY <1>6, <1>8, Len(ds) = z + n

\* A number does not begin with a zero.
LEMMA FirstDigit ==
  ASSUME NEW base \in Nat, base > 1, NEW v \in Nat \ {0}, NEW n,
         n = digits_total(v, base)
  PROVE  /\ n \in Nat \ {0} /\ v < pow(base, n)
         /\ (v \div pow(base, n - 1)) % base # 0
<1>1. n \in Nat /\ HasDigits(v, n, base) BY DigitsTotal
<1>2. n # 0 /\ pow(base, n - 1) <= v /\ v < pow(base, n) BY <1>1 DEF HasDigits
<1>3. PICK p : p = pow(base, n - 1) OBVIOUS
<1>4. p \in Nat \ {0} /\ pow(base, n) = base * p
  <2>1. n - 1 \in Nat /\ (n - 1) + 1 = n /\ base \in Nat \ {0} BY <1>1, <1>2
  <2> QED BY <2>1, <1>3, PowPositive, PowRule
<1>5. PICK q : q = v \div p OBVIOUS
<1>6. v = p * q + (v % p) /\ v % p \in 0 .. p - 1 /\ q \in Nat BY <1>4, <1>5, Division
<1>7. q # 0
  <2>1. SUFFICES ASSUME q = 0 PROVE FALSE OBVIOUS
  <2>2. p * q = 0 BY <2>1, <1>4
  <2> QED BY <2>2, <1>2, <1>3, <1>4, <1>6
<1>8. q < base
  <2>1. SUFFICES ASSUME q >= base PROVE FALSE BY <1>6
  <2>2. PICK x : x = q - base OBVIOUS
  <2>3. x \in Nat /\ q = base + x BY <2>1, <2>2, <1>6
  <2>4. p * q = p * base + p * x BY <2>3, <1>4
  <2>5. p * x \in Nat /\ p * base = base * p BY <2>3, <1>4
  <2>6. p * q \in Nat /\ base * p \in Nat BY <1>4, <1>6
  <2>7. v \in Nat /\ v % p \in Nat BY <1>4, <1>6
  <2> QED BY <2>4, <2>5, <2>6, <2>7, <1>2, <1>4, <1>6
<1>9. q % base = q
  <2>1. base * 0 + q = q BY <1>6
  <2>2. (base * 0 + q) % base = q
    <3>1. 0 \in Nat OBVIOUS
    <3> QED BY <3>1, <1>6, <1>8, DivisionIs
  <2> QED BY <2>1, <2>2
<1> QED BY <1>1, <1>2, <1>3, <1>5, <1>7, <1>9

-----------------------------------------------------------------------------
(* The field of a text                                                     *)

LEMMA TextShown ==
  ASSUME NEW c, NEW w, Same(c, w), NEW s \in Seq(Int), NEW pieces \in Seq(Seq(Int)),
         FlattenSeq(pieces) = s
  PROVE  LET all == fprintf_field_begin(c, Len(s), <<>>, FALSE)
                      \o pieces \o fprintf_field_end(c, Len(s))
         IN  all \in Seq(Seq(Int)) /\ in_field(FlattenSeq(all), s, w)
<1> DEFINE all == fprintf_field_begin(c, Len(s), <<>>, FALSE)
                    \o pieces \o fprintf_field_end(c, Len(s))
<1>1. PICK none : none = <<>> OBVIOUS
<1>2. none \in Seq(Int) /\ Len(none) = 0 BY <1>1
<1>3. PICK len : len = Len(s) OBVIOUS
<1>4. len \in Nat BY <1>3
<1>5. len = Len(none) + Len(FlattenSeq(pieces)) BY <1>2, <1>3, <1>4
<1>6. c.width \in Nat BY DEF Same
<1>7. FALSE \in BOOLEAN OBVIOUS
<1>8. LET t == fprintf_field_begin(c, len, none, FALSE)
                 \o pieces \o fprintf_field_end(c, len)
      IN  t \in Seq(Seq(Int)) /\ FlattenSeq(t) = field_of(c, none, FlattenSeq(pieces), FALSE)
  BY <1>2, <1>5, <1>6, <1>7, FieldAround
<1>9. all \in Seq(Seq(Int)) /\ FlattenSeq(all) = field_of(c, none, s, FALSE)
  BY <1>1, <1>3, <1>8
<1>10. in_field(field_of(c, none, s, FALSE), none \o s, w) BY <1>2, <1>7, FieldFits
<1>11. none \o s = s BY <1>1, ConcatEmptySeq
<1> HIDE DEF all
<1>12. in_field(FlattenSeq(all), s, w) BY <1>9, <1>10, <1>11
<1> QED BY <1>9, <1>12 DEF all

LEMMA StringShown ==
  ASSUME NEW c, NEW w, Same(c, w), NEW s \in Seq(Int)
  PROVE  /\ fprintf_output_string(c, s) \in Seq(Seq(Int))
         /\ in_field(FlattenSeq(fprintf_output_string(c, s)), s, w)
<1>1. <<s>> \in Seq(Seq(Int)) /\ FlattenSeq(<<s>>) = s BY FlattenOne
<1>2. PICK pieces : pieces = <<s>> OBVIOUS
<1>3. pieces \in Seq(Seq(Int)) /\ FlattenSeq(pieces) = s BY <1>1, <1>2
<1>4. LET all == fprintf_field_begin(c, Len(s), <<>>, FALSE)
                   \o pieces \o fprintf_field_end(c, Len(s))
      IN  all \in Seq(Seq(Int)) /\ in_field(FlattenSeq(all), s, w)
  BY <1>3, TextShown
<1>5. fprintf_output_string(c, s) = fprintf_field_begin(c, Len(s), <<>>, FALSE)
                                      \o pieces \o fprintf_field_end(c, Len(s))
  BY <1>2 DEF fprintf_output_string
<1> QED BY <1>4, <1>5

\* What a precision leaves of a string.
LEMMA CutIs ==
  ASSUME NEW c, NEW w, Same(c, w), NEW s \in Seq(Int)
  PROVE  /\ cut(c, s) \in Seq(Int)
         /\ cut(c, s) = IF w.precision = -1 \/ w.precision > Len(s) THEN s
                        ELSE SubSeq(s, 1, w.precision)
<1>1. c.precision = w.precision /\ c.precision \in Nat \cup {-1} BY DEF Same
<1>2. PICK n, p : n = Len(s) /\ p = c.precision OBVIOUS
<1>3. n \in Nat /\ SubSeq(s, 1, n) = s BY <1>2, SubSeqFull, LenProperties
<1>4. ASSUME NEW k \in 0 .. n PROVE SubSeq(s, 1, k) \in Seq(Int)
  <2>1. \A i \in 1 .. k : s[i] \in Int BY <1>2, <1>3
  <2>2. 1 \in Int /\ k \in Int OBVIOUS
  <2> QED BY <2>1, <2>2, SubSeqProperties
<1>5. cut(c, s) = IF p >= 0 THEN SubSeq(s, 1, smaller(p, n)) ELSE s BY <1>2 DEF cut
<1>6. CASE p = -1 BY <1>1, <1>2, <1>5, <1>6
<1>7. CASE p # -1
  <2>1. p \in Nat BY <1>1, <1>2, <1>7
  <2>2. smaller(p, n) \in 0 .. n /\ smaller(p, n) = (IF p < n THEN p ELSE n)
    BY <2>1, <1>3 DEF smaller
  <2>3. cut(c, s) = SubSeq(s, 1, smaller(p, n))
    <3>1. p >= 0 BY <2>1
    <3> QED BY ONLY <3>1, <1>5
  <2>4. cut(c, s) \in Seq(Int) BY <2>2, <2>3, <1>4
  <2>5. cut(c, s) = IF p > n THEN s ELSE SubSeq(s, 1, p)
    <3>1. CASE p < n BY <3>1, <2>1, <2>2, <2>3, <1>3
    <3>2. CASE p = n BY <3>2, <2>1, <2>2, <2>3, <1>3
    <3>3. CASE p > n BY <3>3, <2>1, <2>2, <2>3, <1>3
    <3> QED BY <3>1, <3>2, <3>3, <2>1, <1>3
  <2> QED BY <2>4, <2>5, <1>1, <1>2, <1>7
<1> QED BY <1>6, <1>7

\* An int and its low bits.
LEMMA CharBits ==
  ASSUME NEW word \in Nat
  PROVE  /\ (word % pow(2, IntW)) % pow(2, CharW) = word % pow(2, CharW)
         /\ word % pow(2, IntW) \in Nat /\ word % pow(2, CharW) \in Nat
<1>1. CharW \in Nat /\ IntW \in Nat /\ IntW - CharW \in Nat /\ CharW + (IntW - CharW) = IntW
  BY PrintfConstants, WordSize
<1>2. PICK a, b, d : a = pow(2, IntW) /\ b = pow(2, CharW) /\ d = pow(2, IntW - CharW) OBVIOUS
<1>3. a \in Nat \ {0} /\ b \in Nat \ {0} /\ d \in Nat \ {0}
  <2>1. 2 \in Nat \ {0} OBVIOUS
  <2> QED BY <2>1, <1>1, <1>2, PowPositive
<1>4. a = b * d
  <2>1. 2 \in Nat OBVIOUS
  <2>2. pow(2, CharW + (IntW - CharW)) = pow(2, CharW) * pow(2, IntW - CharW)
    BY <2>1, <1>1, PowSum
  <2> QED BY <2>2, <1>1, <1>2
<1>5. (word % (b * d)) % b = word % b
  <2>1. b \in Nat /\ d \in Nat /\ b > 0 /\ d > 0 BY <1>3
  <2>2. word \in Nat OBVIOUS
  <2> QED BY ONLY <2>1, <2>2, LowerDigits
<1>6. word % a \in 0 .. a - 1 /\ word % b \in 0 .. b - 1 BY <1>3, Division
<1>7. word % a \in Nat /\ word % b \in Nat BY <1>3, <1>6
<1> QED BY <1>2, <1>4, <1>5, <1>7

\* The sign that is printed is the one that is meant.
LEMMA SignMeans ==
  ASSUME NEW c, NEW w, Same(c, w), NEW negative \in BOOLEAN
  PROVE  fprintf_sign(c, negative) = sign_of(w, negative)
<1>1. PICK z, m, p, s : z = <<>> /\ m = <<MINUS>> /\ p = <<PLUS>> /\ s = <<SPACE>> OBVIOUS
<1>2. z # m /\ z # p /\ z # s /\ m # p /\ m # s /\ p # s
  <2>1. m[1] = -1 /\ p[1] = -2 /\ s[1] = -3 BY <1>1 DEF MINUS, PLUS, SPACE
  <2>2. Len(z) = 0 /\ Len(m) = 1 /\ Len(p) = 1 /\ Len(s) = 1 BY <1>1
  <2> QED BY <2>1, <2>2
<1>3. (PLUS \in c.flags <=> PLUS \in w.flags) /\ (SPACE \in c.flags <=> SPACE \in w.flags)
  BY DEF Same
<1> DEFINE G(t) == /\ (t = m) <=> negative
                   /\ (t = p) <=> (~negative /\ PLUS \in w.flags)
                   /\ (t = s) <=> (~negative /\ SPACE \in w.flags /\ PLUS \notin w.flags)
<1>4. sign_of(w, negative) = CHOOSE t \in {z, m, p, s} : G(t) BY <1>1 DEF sign_of
<1>5. PICK r : r = fprintf_sign(c, negative) OBVIOUS
<1>6. r = IF negative THEN m ELSE IF PLUS \in w.flags THEN p
          ELSE IF SPACE \in w.flags THEN s ELSE z
  BY <1>1, <1>3, <1>5 DEF fprintf_sign
<1>7. r \in {z, m, p, s} /\ G(r) BY <1>2, <1>6
<1>8. \A t \in {z, m, p, s} : G(t) => t = r BY <1>2, <1>6
<1> HIDE DEF G
<1>9. (CHOOSE t \in {z, m, p, s} : G(t)) = r BY <1>7, <1>8
<1> QED BY <1>4, <1>5, <1>9

\* The text of an infinity, or of what is not a number.
special_text(c, word) ==
  in_case(c, IF is_inf(word, c.long_double) THEN <<CH_I, CH_N, CH_F>> ELSE <<CH_N, CH_A, CH_N>>)

\* Infinities are told from what is not a number, and both from the rest.
LEMMA SplitMeans ==
  ASSUME NEW word \in Nat, NEW is_long \in BOOLEAN
  PROVE  /\ fp_split(word, is_long).negative <=> word >= pow(2, W - 1)
         /\ fp_split(word, is_long).negative \in BOOLEAN
         /\ fp_split(word, is_long).cls
              = IF is_finite(word) THEN "finite"
                ELSE IF is_inf(word, is_long) THEN "inf" ELSE "nan"
<1>1. W \in Nat \ {0} /\ FracBits \in Nat \ {0} /\ FracBits - 1 \in Nat /\ 1 \in Nat
      /\ (FracBits - 1) + 1 = FracBits
  BY WordSize, FloatConstants DEF FracBits
<1>2. PICK f, g : f = pow(2, FracBits) /\ g = pow(2, FracBits - 1) OBVIOUS
<1>3. f = g * pow(2, 1) /\ f \in Nat \ {0} /\ g \in Nat \ {0} /\ pow(2, 1) \in Nat \ {0}
  <2>1. 2 \in Nat /\ 2 \in Nat \ {0} OBVIOUS
  <2>2. pow(2, (FracBits - 1) + 1) = pow(2, FracBits - 1) * pow(2, 1) BY <2>1, <1>1, PowSum
  <2>3. f \in Nat \ {0} /\ g \in Nat \ {0} /\ pow(2, 1) \in Nat \ {0}
    BY <2>1, <1>1, <1>2, PowPositive
  <2> QED BY <2>2, <2>3, <1>1, <1>2
<1>4. (word % f) % g = word % g
  <2>1. PICK d : d = pow(2, 1) OBVIOUS
  <2>2. g \in Nat /\ d \in Nat /\ g > 0 /\ d > 0 /\ f = g * d BY <2>1, <1>3
  <2>3. word \in Nat OBVIOUS
  <2>4. (word % (g * d)) % g = word % g BY ONLY <2>2, <2>3, LowerDigits
  <2> QED BY ONLY <2>2, <2>4
<1>5. PICK s : s = fp_split(word, is_long) OBVIOUS
<1>6. /\ s.cls = IF (word \div f) % pow(2, ExpBits) # pow(2, ExpBits) - 1 THEN "finite"
                 ELSE IF (IF is_long THEN (word % f) % g ELSE word % f) = 0
                 THEN "inf" ELSE "nan"
      /\ s.negative = (word >= pow(2, W - 1))
  BY <1>2, <1>5 DEF fp_split
<1>7. is_inf(word, is_long) <=> (IF is_long THEN (word % f) % g ELSE word % f) = 0
  <2>1. CASE is_long BY <2>1, <1>2, <1>4 DEF is_inf
  <2>2. CASE ~is_long BY <2>2, <1>2 DEF is_inf
  <2> QED BY <2>1, <2>2
<1>8. is_finite(word) <=> (word \div f) % pow(2, ExpBits) # pow(2, ExpBits) - 1
  BY <1>2 DEF is_finite
<1>9. s.negative \in BOOLEAN
  <2>1. PICK b : b = (word >= pow(2, W - 1)) OBVIOUS
  <2>2. b \in BOOLEAN BY <2>1
  <2> QED BY <2>1, <2>2, <1>6
<1> QED BY <1>5, <1>6, <1>7, <1>8, <1>9

\* Neither is ever filled up with zeros.
LEMMA SpecialShown ==
  ASSUME NEW c, NEW w, Same(c, w), NEW word \in Nat, ~is_finite(word)
  PROVE  shows_float(FlattenSeq(fprintf_output_float(c, word)), word, w)
<1>1. PICK long : long = (c.length = "long_double") OBVIOUS
<1>2. long \in BOOLEAN /\ (long <=> w.long_double) /\ (c.upper <=> w.upper)
  BY <1>1 DEF Same
<1>3. PICK parts : parts = fp_split(word, long) OBVIOUS
<1>4. /\ parts.negative <=> word >= pow(2, W - 1)
      /\ parts.negative \in BOOLEAN
      /\ parts.cls = IF is_inf(word, long) THEN "inf" ELSE "nan"
  BY <1>2, <1>3, SplitMeans
<1>5. PICK sign : sign = fprintf_sign(c, parts.negative) OBVIOUS
<1>6. sign = sign_of(w, parts.negative) /\ sign \in Seq(Int)
  BY <1>4, <1>5, SignMeans, SignTyped
<1>7. sign_of(w, parts.negative) = sign_of(w, word >= pow(2, W - 1))
  BY <1>4 DEF sign_of
<1>8. PICK text_of : text_of = IF parts.cls = "inf" THEN <<CH_I, CH_N, CH_F>>
                               ELSE <<CH_N, CH_A, CH_N>>
  OBVIOUS
<1>9. PICK body : body = [m \in 1 .. 3 |-> cased(c, text_of[m])] OBVIOUS
<1>10. body \in Seq(Int) /\ Len(body) = 3
  <2>1. \A m \in 1 .. 3 : text_of[m] \in Int BY <1>8 DEF CH_I, CH_N, CH_F, CH_A
  <2>2. \A m \in 1 .. 3 : cased(c, text_of[m]) \in Int BY <2>1, CasedTyped
  <2> QED BY <2>2, <1>9
<1>11. body = special_text(w, word)
  <2>1. PICK t : t = IF is_inf(word, w.long_double) THEN <<CH_I, CH_N, CH_F>>
                     ELSE <<CH_N, CH_A, CH_N>>
    OBVIOUS
  <2>2. t = text_of
    <3>1. is_inf(word, long) <=> is_inf(word, w.long_double)
      <4>1. CASE long BY <4>1, <1>2 DEF is_inf
      <4>2. CASE ~long BY <4>2, <1>2 DEF is_inf
      <4> QED BY <4>1, <4>2
    <3>2. parts.cls = "inf" <=> is_inf(word, w.long_double) BY <3>1, <1>4
    <3> QED BY <3>2, <2>1, <1>8
  <2>3. DOMAIN t = 1 .. 3 BY <2>1
  <2>4. \A m \in 1 .. 3 : cased(w, t[m]) = cased(c, text_of[m]) BY <2>2, <1>2 DEF cased
  <2>5. [m \in DOMAIN t |-> cased(w, t[m])] = body BY <2>3, <2>4, <1>9
  <2> QED BY <2>1, <2>5 DEF special_text, in_case
<1>12. <<body>> \in Seq(Seq(Int)) /\ FlattenSeq(<<body>>) = body BY <1>10, FlattenOne
<1>13. PICK pieces : pieces = <<body>> OBVIOUS
<1>14. PICK len : len = Len(sign) + 3 OBVIOUS
<1>15. FlattenSeq(fprintf_field_begin(c, len, sign, FALSE) \o pieces \o fprintf_field_end(c, len))
         = field_of(c, sign, body, FALSE)
  <2>1. c.width \in Nat BY DEF Same
  <2>2. pieces \in Seq(Seq(Int)) /\ FlattenSeq(pieces) = body BY <1>12, <1>13
  <2>3. len = Len(sign) + Len(FlattenSeq(pieces)) BY <2>2, <1>10, <1>14
  <2>4. FALSE \in BOOLEAN OBVIOUS
  <2>5. FlattenSeq(fprintf_field_begin(c, len, sign, FALSE) \o pieces
                     \o fprintf_field_end(c, len))
          = field_of(c, sign, FlattenSeq(pieces), FALSE)
    BY <2>1, <2>2, <2>3, <2>4, <1>6, FieldAround
  <2> QED BY <2>2, <2>5
<1>16. in_field(field_of(c, sign, body, FALSE), sign \o body, w)
  <2>1. FALSE \in BOOLEAN OBVIOUS
  <2> QED BY <2>1, <1>6, <1>10, FieldFits
<1>17. fprintf_output_float(c, word)
         = fprintf_field_begin(c, len, sign, FALSE) \o pieces \o fprintf_field_end(c, len)
  <2>1. parts.cls # "finite" BY <1>4
  <2> QED BY <2>1, <1>1, <1>3, <1>5, <1>8, <1>9, <1>13, <1>14 DEF fprintf_output_float
<1>18. PICK r : r = FlattenSeq(fprintf_output_float(c, word)) OBVIOUS
<1>19. in_field(r, sign_of(w, word >= pow(2, W - 1)) \o special_text(w, word), w)
  BY <1>6, <1>7, <1>11, <1>15, <1>16, <1>17, <1>18
<1>20. shows_float(r, word, w) BY <1>19 DEF shows_float, special_text
<1> QED BY <1>18, <1>20

-----------------------------------------------------------------------------
(* The field of a number                                                   *)

\* A text with its prefix, and the field around it.
LEMMA BehindLead ==
  ASSUME NEW lead \in Seq(Int), NEW shown \in Seq(Int)
  PROVE  /\ IsPrefix(lead, lead \o shown)
         /\ SubSeq(lead \o shown, Len(lead) + 1, Len(lead \o shown)) = shown
         /\ lead \o shown \in Seq(Int) /\ Len(lead \o shown) = Len(lead) + Len(shown)
<1>1. PICK a, b, t : a = Len(lead) /\ b = Len(shown) /\ t = lead \o shown OBVIOUS
<1>2. a \in Nat /\ b \in Nat BY <1>1
<1>3. /\ t \in Seq(Int) /\ Len(t) = a + b
      /\ \A i \in 1 .. a + b : t[i] = IF i <= a THEN lead[i] ELSE shown[i - a]
  BY <1>1, ConcatProperties
<1>4. PICK q : q = SubSeq(t, 1, a) OBVIOUS
<1>5. q \in Seq(Int) /\ Len(q) = a /\ \A i \in 1 .. a : q[i] = lead[i]
  <2>1. \A i \in 1 .. a : t[i] \in Int BY <1>2, <1>3
  <2>2. 1 \in Int /\ a \in Int /\ a - 1 + 1 = a /\ (~(1 <= a) => a = 0) BY <1>2
  <2>3. /\ q \in Seq(Int) /\ Len(q) = (IF 1 <= a THEN a - 1 + 1 ELSE 0)
        /\ \A i \in 1 .. a - 1 + 1 : q[i] = t[1 + i - 1]
    BY <2>1, <2>2, <1>4, SubSeqProperties
  <2>4. ASSUME NEW i \in 1 .. a PROVE q[i] = lead[i]
    <3>1. i \in 1 .. a - 1 + 1 /\ 1 + i - 1 = i /\ i \in 1 .. a + b BY <1>2
    <3> QED BY <3>1, <2>3, <1>3
  <2> QED BY <2>2, <2>3, <2>4
<1>6. q = lead BY <1>1, <1>5, SeqEqual
<1>7. SubSeq(lead, 1, a) = lead BY <1>1, SubSeqFull
<1>8. PICK p : p = SubSeq(t, a + 1, a + b) OBVIOUS
<1>9. p \in Seq(Int) /\ Len(p) = b /\ \A i \in 1 .. b : p[i] = shown[i]
  <2>1. \A i \in a + 1 .. a + b : t[i] \in Int BY <1>2, <1>3
  <2>2. a + 1 \in Int /\ a + b \in Int /\ (a + b) - (a + 1) + 1 = b
        /\ (~(a + 1 <= a + b) => b = 0)
    BY <1>2
  <2>3. /\ p \in Seq(Int)
        /\ Len(p) = (IF a + 1 <= a + b THEN (a + b) - (a + 1) + 1 ELSE 0)
        /\ \A i \in 1 .. (a + b) - (a + 1) + 1 : p[i] = t[(a + 1) + i - 1]
    BY <2>1, <2>2, <1>8, SubSeqProperties
  <2>4. ASSUME NEW i \in 1 .. b PROVE p[i] = shown[i]
    <3>1. /\ (a + 1) + i - 1 = a + i /\ a + i \in 1 .. a + b /\ ~(a + i <= a)
          /\ (a + i) - a = i /\ i \in 1 .. (a + b) - (a + 1) + 1
      BY <1>2
    <3>2. t[a + i] = shown[(a + i) - a] BY ONLY <3>1, <1>3
    <3> QED BY <3>1, <3>2, <2>3
  <2> QED BY <2>2, <2>3, <2>4
<1>10. p = shown BY <1>1, <1>9, SeqEqual
<1>11. IsPrefix(lead, t)
  <2>1. a <= a + b BY <1>2
  <2> QED BY <2>1, <1>1, <1>3, <1>4, <1>6, <1>7 DEF IsPrefix
<1> QED BY <1>1, <1>3, <1>8, <1>10, <1>11

\* What stands in a field is found there.
LEMMA FoundInField ==
  ASSUME NEW w, NEW body \in Seq(Int), NEW r \in Seq(Int), in_field(r, body, w)
  PROVE  \E i \in 1 .. Len(r) + 1, j \in 0 .. Len(r) : SubSeq(r, i, j) = body
<1>1. PICK n \in 0 .. Len(r) :
        r = IF w.left THEN body \o repeat(SPACE, n) ELSE repeat(SPACE, n) \o body
  BY DEF in_field
<1>2. PICK gap : gap = repeat(SPACE, n) OBVIOUS
<1>3. gap \in Seq(Int)
  <2>1. SPACE \in Int /\ n \in Nat BY DEF SPACE
  <2> QED BY <2>1, <1>2, RepeatIs
<1>4. PICK none : none = <<>> OBVIOUS
<1>5. none \in Seq(Int) /\ Len(none) = 0 BY <1>4
<1>6. PICK a, b : r = a \o (body \o b) /\ a \in Seq(Int) /\ b \in Seq(Int)
  <2>1. CASE w.left
    <3>1. PICK t : t = body \o gap OBVIOUS
    <3>2. t \in Seq(Int) BY <3>1, <1>3, ConcatProperties
    <3>3. none \o t = t BY <3>2, <1>4, ConcatEmptySeq
    <3> QED BY <3>1, <3>3, <2>1, <1>1, <1>2, <1>3, <1>5
  <2>2. CASE ~w.left
    <3>1. body \o none = body BY <1>4, ConcatEmptySeq
    <3> QED BY <3>1, <2>2, <1>1, <1>2, <1>3, <1>5
  <2> QED BY <2>1, <2>2
<1>7. /\ SubSeq(a \o (body \o b), Len(a) + 1, Len(a) + Len(body)) = body
      /\ Len(a) \in Nat /\ Len(body) \in Nat /\ Len(b) \in Nat
      /\ Len(a \o (body \o b)) = Len(a) + Len(body) + Len(b)
  BY <1>6, MiddleOf
<1>8. PICK u, v, x : u = Len(a) /\ v = Len(body) /\ x = Len(b) OBVIOUS
<1>9. u \in Nat /\ v \in Nat /\ x \in Nat /\ Len(r) = u + v + x
      /\ SubSeq(r, u + 1, u + v) = body
  BY <1>6, <1>7, <1>8
<1>10. u + 1 \in 1 .. Len(r) + 1 /\ u + v \in 0 .. Len(r) BY <1>9
<1> QED BY <1>9, <1>10

\* Zeros and digits, in the case of the conversion.
letters_of(c, digits) == [m \in 1 .. Len(digits) |-> cased(c, digits[m])]

zeros_and(c, z, digits) == repeat(0, z) \o letters_of(c, digits)

lowered(s) == [m \in DOMAIN s |-> lower(s[m])]

LEMMA DigitsShown ==
  ASSUME NEW c, NEW w, Same(c, w), NEW z \in Nat, NEW digits \in Seq(0 .. 15)
  PROVE  /\ zeros_and(c, z, digits) \in Seq(Int)
         /\ Len(zeros_and(c, z, digits)) = z + Len(digits)
         /\ lowered(zeros_and(c, z, digits)) \in Seq(Nat)
         /\ Len(lowered(zeros_and(c, z, digits))) = z + Len(digits)
         /\ \A m \in 1 .. z : lowered(zeros_and(c, z, digits))[m] = 0
         /\ \A m \in 1 .. Len(digits) : lowered(zeros_and(c, z, digits))[z + m] = digits[m]
         /\ \A m \in DOMAIN lowered(zeros_and(c, z, digits)) :
              \/ lowered(zeros_and(c, z, digits))[m] = 0
              \/ \E k \in 1 .. Len(digits) : lowered(zeros_and(c, z, digits))[m] = digits[k]
         /\ zeros_and(c, z, digits) = in_case(w, lowered(zeros_and(c, z, digits)))
<1>0. PICK n, b, shown, ds : /\ n = Len(digits) /\ b = letters_of(c, digits)
                           /\ shown = zeros_and(c, z, digits) /\ ds = lowered(shown)
  OBVIOUS
<1>1. n = Len(digits) /\ digits \in Seq(0 .. 15) BY <1>0
<1>2. n \in Nat /\ \A m \in 1 .. n : digits[m] \in 0 .. 15 BY ONLY <1>1
<1>3. PICK zeros : zeros = repeat(0, z) OBVIOUS
<1>4. zeros \in Seq(Int) /\ Len(zeros) = z /\ \A m \in 1 .. z : zeros[m] = 0
  <2>1. 0 \in Int OBVIOUS
  <2> QED BY <2>1, <1>3, RepeatIs
<1>5. b \in Seq(Int) /\ Len(b) = n /\ \A m \in 1 .. n : b[m] = cased(c, digits[m])
  <2>1. \A m \in 1 .. n : cased(c, digits[m]) \in Int BY <1>2, CasedTyped
  <2>2. b = [m \in 1 .. n |-> cased(c, digits[m])] BY <1>0 DEF letters_of
  <2>3. b \in [1 .. n -> Int] BY <2>1, <2>2
  <2>4. b \in Seq(Int) /\ Len(b) = n BY ONLY <2>3, <1>2
  <2> QED BY <2>2, <2>4
<1>6. shown = zeros \o b BY <1>0, <1>3 DEF zeros_and
<1>7. /\ shown \in Seq(Int) /\ Len(shown) = z + n
      /\ \A i \in 1 .. z + n : shown[i] = IF i <= z THEN zeros[i] ELSE b[i - z]
  BY ONLY <1>4, <1>5, <1>6, ConcatProperties
<1>8. ASSUME NEW x \in 0 .. 15
      PROVE  lower(cased(c, x)) = x /\ cased(w, x) = cased(c, x)
  <2>1. c.upper <=> w.upper BY DEF Same
  <2>3. cased(c, x) = IF c.upper /\ x >= 10 THEN x + 26 ELSE x BY DEF cased, upper
  <2>4. lower(cased(c, x)) = x BY <2>3 DEF lower, upper, CH_A, CHARS
  <2>5. cased(w, x) = cased(c, x) BY <2>1 DEF cased
  <2> QED BY <2>4, <2>5
<1>9. 0 \in 0 .. 15 /\ cased(c, 0) = 0 BY DEF cased
<1>10. ASSUME NEW i \in 1 .. z + n
       PROVE  \E x \in 0 .. 15 :
                /\ shown[i] = cased(c, x) /\ x = (IF i <= z THEN 0 ELSE digits[i - z])
  <2>1. CASE i <= z
    <3>1. i \in 1 .. z BY <2>1
    <3> QED BY <3>1, <2>1, <1>4, <1>7, <1>9
  <2>2. CASE ~(i <= z)
    <3>1. i - z \in 1 .. n BY <2>2, <1>2
    <3> QED BY <3>1, <2>2, <1>2, <1>5, <1>7
  <2> QED BY <2>1, <2>2
<1>11. ds = [m \in DOMAIN shown |-> lower(shown[m])] BY <1>0 DEF lowered
<1>12. DOMAIN shown = 1 .. z + n /\ z + n \in Nat BY <1>2, <1>7
<1>13. ASSUME NEW i \in 1 .. z + n
       PROVE  /\ ds[i] \in 0 .. 15 /\ ds[i] = (IF i <= z THEN 0 ELSE digits[i - z])
              /\ shown[i] = cased(w, ds[i])
  <2>1. PICK x \in 0 .. 15 :
          shown[i] = cased(c, x) /\ x = (IF i <= z THEN 0 ELSE digits[i - z])
    BY <1>10
  <2>2. ds[i] = lower(shown[i]) BY <1>11, <1>12
  <2> QED BY <2>1, <2>2, <1>8
<1>14. ds \in Seq(Nat) /\ Len(ds) = z + n /\ DOMAIN ds = 1 .. z + n
  <2>1. DOMAIN ds = 1 .. z + n /\ ds = [i \in 1 .. z + n |-> lower(shown[i])] BY <1>11, <1>12
  <2>2. ASSUME NEW i \in 1 .. z + n PROVE ds[i] \in Nat
    <3>1. ds[i] \in 0 .. 15 BY <1>13
    <3> QED BY ONLY <3>1
  <2>3. PICK l : l = z + n OBVIOUS
  <2>4. ds \in [1 .. l -> Nat] /\ l \in Nat BY <2>1, <2>2, <2>3, <1>12
  <2>5. ds \in Seq(Nat) /\ Len(ds) = l BY ONLY <2>4
  <2> QED BY <2>1, <2>3, <2>5
<1>15. ASSUME NEW m \in 1 .. n PROVE ds[z + m] = digits[m]
  <2>1. z + m \in 1 .. z + n /\ ~(z + m <= z) /\ (z + m) - z = m BY <1>2
  <2> QED BY <2>1, <1>13
<1>16. ASSUME NEW m \in 1 .. z PROVE ds[m] = 0
  <2>1. m \in 1 .. z + n /\ m <= z BY <1>2
  <2> QED BY <2>1, <1>13
<1>17. shown = in_case(w, ds)
  <2>1. PICK l : l = z + n OBVIOUS
  <2>2. shown = [i \in 1 .. l |-> shown[i]] BY <2>1, <1>7, <1>12
  <2>3. \A i \in 1 .. l : shown[i] = cased(w, ds[i]) BY <2>1, <1>13
  <2>4. DOMAIN ds = 1 .. l BY <2>1, <1>14
  <2>5. shown = [m \in DOMAIN ds |-> cased(w, ds[m])] BY ONLY <2>2, <2>3, <2>4
  <2> QED BY <2>5 DEF in_case
<1>18. ASSUME NEW m \in DOMAIN ds
       PROVE  ds[m] = 0 \/ \E k \in 1 .. n : ds[m] = digits[k]
  <2>1. m \in 1 .. z + n /\ (~(m <= z) => m - z \in 1 .. n) BY <1>2, <1>14
  <2>2. ds[m] = (IF m <= z THEN 0 ELSE digits[m - z]) BY <2>1, <1>13
  <2> QED BY <2>1, <2>2
<1> QED BY ONLY <1>0, <1>7, <1>14, <1>15, <1>16, <1>17, <1>18

\* What stands in front of the digits of a number.
lead_of(w, n) ==
  LET sign == IF w.specifier = CH_D THEN sign_of(w, n < 0) ELSE <<>>
      hex  == IF /\ w.specifier = CH_P \/ (w.specifier = CH_X /\ HASH \in w.flags)
                 /\ n # 0
              THEN <<0, cased(w, CH_X)>> ELSE <<>>
  IN  sign \o hex

zero_padded(w) == 0 \in w.flags /\ ~w.left /\ w.precision = -1

LEMMA ShownBy ==
  ASSUME NEW w, NEW n \in Int, NEW shown \in Seq(Int), NEW r \in Seq(Int),
         lead_of(w, n) \in Seq(Int), in_field(r, lead_of(w, n) \o shown, w),
         zero_padded(w) => Len(lead_of(w, n) \o shown) = Len(r),
         LET ds == [m \in DOMAIN shown |-> lower(shown[m])]
         IN  /\ shown = [m \in DOMAIN ds |-> cased(w, ds[m])]
             /\ digits_right(ds, magnitude(n), w, Len(r))
  PROVE  shows_number(r, n, w)
<1> DEFINE lead == lead_of(w, n)
<1>1. PICK t : t = lead \o shown OBVIOUS
<1>2. /\ IsPrefix(lead, t) /\ t \in Seq(Int)
      /\ SubSeq(t, Len(lead) + 1, Len(t)) = shown
  <2> HIDE DEF lead
  <2> QED BY <1>1, BehindLead DEF lead
<1>3. in_field(r, t, w) /\ (zero_padded(w) => Len(t) = Len(r)) BY <1>1
<1>4. PICK i \in 1 .. Len(r) + 1, j \in 0 .. Len(r) : SubSeq(r, i, j) = t
  BY <1>2, <1>3, FoundInField
<1> DEFINE G(body) ==
             LET behind == SubSeq(body, Len(lead) + 1, Len(body))
                 ds == [m \in DOMAIN behind |-> lower(behind[m])]
             IN  /\ IsPrefix(lead, body)
                 /\ behind = [m \in DOMAIN ds |-> cased(w, ds[m])]
                 /\ digits_right(ds, magnitude(n), w, Len(r))
                 /\ in_field(r, body, w)
                 /\ zero_padded(w) => Len(body) = Len(r)
<1>5. shows_number(r, n, w)
        <=> \E x \in 1 .. Len(r) + 1, y \in 0 .. Len(r) : G(SubSeq(r, x, y))
  BY Zenon DEF shows_number, lead_of, zero_padded
<1>6. G(t)
  <2> HIDE DEF lead
  <2> QED BY <1>2, <1>3
<1> HIDE DEF G, lead
<1> QED BY <1>4, <1>5, <1>6

\* The digits of a number, with z zeros in front of them, are right.
LEMMA DigitsRight ==
  ASSUME NEW w, NEW v \in Nat, NEW n, NEW z \in Nat, NEW missing, NEW len, NEW ds \in Seq(Nat),
         w.precision \in Nat \cup {-1}, NEW pad \in Nat,
         LET base == base_of(w.specifier)
             octal == w.specifier = CH_O /\ HASH \in w.flags
             one == octal /\ missing = 0 /\ (n = 0 \/ (v \div pow(base, n - 1)) % base # 0)
         IN  /\ n = (IF v # 0 THEN digits_total(v, base)
                     ELSE IF w.precision # 0 THEN 1 ELSE 0)
             /\ missing = (IF w.precision > n THEN w.precision - n ELSE 0)
             /\ z = pad + (IF one THEN 1 ELSE missing)
             /\ Len(ds) = z + n
             /\ \A m \in DOMAIN ds : ds[m] \in 0 .. base - 1
             /\ \A m \in 1 .. z : ds[m] = 0
             /\ \A m \in 1 .. n : ds[z + m] = (v \div pow(base, n - m)) % base
             /\ pad > 0 => zero_padded(w) /\ len = w.width
  PROVE  digits_right(ds, v, w, len)
<1> DEFINE base == base_of(w.specifier)
           octal == w.specifier = CH_O /\ HASH \in w.flags
           first == (v \div pow(base, n - 1)) % base
           one == octal /\ missing = 0 /\ (n = 0 \/ first # 0)
           padded == zero_padded(w)
<1>1. base \in {8, 10, 16} BY DEF base_of
<1>2. /\ n = (IF v # 0 THEN digits_total(v, base) ELSE IF w.precision # 0 THEN 1 ELSE 0)
      /\ missing = (IF w.precision > n THEN w.precision - n ELSE 0)
      /\ z = pad + (IF one THEN 1 ELSE missing)
      /\ Len(ds) = z + n
      /\ \A m \in DOMAIN ds : ds[m] \in 0 .. base - 1
      /\ \A m \in 1 .. z : ds[m] = 0
      /\ \A m \in 1 .. n : ds[z + m] = (v \div pow(base, n - m)) % base
      /\ pad > 0 => padded /\ len = w.width
  OBVIOUS
<1>3. digits_right(ds, v, w, len)
        <=> /\ \A m \in DOMAIN ds : ds[m] \in 0 .. base - 1
            /\ positional(ds, base) = v
            /\ Len(ds) >= IF w.precision = -1 THEN 1 ELSE w.precision
            /\ octal => ds # <<>> /\ ds[1] = 0
            /\ ds # <<>> /\ ds[1] = 0 =>
                 \/ Len(ds) = 1 /\ (w.precision # 0 \/ octal)
                 \/ Len(ds) = w.precision
                 \/ octal /\ ds[2] # 0
                 \/ padded /\ len = w.width
  BY Zenon DEF digits_right, zero_padded
<1> HIDE DEF base, octal, padded
<1>4. n \in Nat /\ v < pow(base, n) /\ (v # 0 => n # 0 /\ first # 0)
  <2>1. base \in Nat /\ base > 1 BY <1>1
  <2>2. CASE v # 0
    <3>1. n = digits_total(v, base) /\ v \in Nat \ {0} BY <2>2, <1>2
    <3>2. /\ n \in Nat \ {0} /\ v < pow(base, n)
          /\ (v \div pow(base, n - 1)) % base # 0
      BY ONLY <2>1, <3>1, FirstDigit
    <3> QED BY <3>2
  <2>3. CASE v = 0
    <3>1. n \in Nat BY <2>3, <1>2
    <3>2. pow(base, n) \in Nat \ {0}
      <4>1. base \in Nat \ {0} BY <2>1
      <4> QED BY <3>1, <4>1, PowPositive
    <3> QED BY <3>1, <3>2, <2>3
  <2> QED BY <2>2, <2>3
<1> HIDE DEF first
<1>5. missing \in Nat /\ n + missing >= w.precision /\ (missing > 0 => n + missing = w.precision)
  <2>1. PICK p : p = w.precision OBVIOUS
  <2>2. missing = (IF p > n THEN p - n ELSE 0) BY ONLY <2>1, <1>2
  <2>3. p \in Nat \cup {-1} /\ n \in Nat BY <2>1, <1>4
  <2>4. missing \in Nat /\ n + missing >= p /\ (missing > 0 => n + missing = p)
    BY ONLY <2>2, <2>3
  <2> QED BY ONLY <2>1, <2>4
<1>6. positional(ds, base) = v
  <2>1. base \in Nat /\ base > 1 BY <1>1
  <2>2. \A k \in 1 .. z : ds[k] = 0 BY <1>2
  <2>3. \A j \in 1 .. n : ds[z + j] = (v \div pow(base, n - j)) % base BY <1>2
  <2>4. Len(ds) = z + n /\ n \in Nat /\ v < pow(base, n) BY <1>2, <1>4
  <2> QED BY ONLY <2>1, <2>2, <2>3, <2>4, v \in Nat, z \in Nat, ds \in Seq(Nat), ZerosInFront, SMTT(40)
<1>7. PICK l, k : l = Len(ds) /\ k = (IF one THEN 1 ELSE missing) OBVIOUS
<1>8. l = pad + k + n /\ k \in Nat /\ z = pad + k /\ k >= missing /\ l \in Nat
  <2>1. l = z + n /\ z = pad + k BY ONLY <1>2, <1>7
  <2>4. one => missing = 0 OBVIOUS
  <2>5. k \in Nat /\ k >= missing
    <3>1. CASE one BY ONLY <3>1, <2>4, <1>7
    <3>2. CASE ~one
      <4>1. k = missing /\ missing \in Nat BY ONLY <3>2, <1>5, <1>7
      <4> QED BY ONLY <4>1
    <3> QED BY <3>1, <3>2
  <2>6. pad \in Nat /\ n \in Nat BY <1>4
  <2> QED BY ONLY <2>1, <2>5, <2>6
<1>9. Len(ds) >= IF w.precision = -1 THEN 1 ELSE w.precision
  <2>1. PICK p : p = w.precision OBVIOUS
  <2>2. p = -1 => n >= 1
    <3>1. CASE v # 0 BY ONLY <3>1, <1>4
    <3>2. CASE v = 0
      <4>1. n = (IF p # 0 THEN 1 ELSE 0) BY ONLY <3>2, <2>1, <1>2
      <4> QED BY ONLY <4>1
    <3> QED BY <3>1, <3>2
  <2>3. n + missing >= p /\ missing \in Nat /\ n \in Nat BY ONLY <2>1, <1>4, <1>5
  <2>4. p \in Nat \cup {-1} BY <2>1
  <2>5. l >= IF p = -1 THEN 1 ELSE p
    <3>1. l >= n + missing /\ l \in Nat
      <4>1. pad \in Nat OBVIOUS
      <4>2. l = pad + k + n /\ k \in Nat /\ k >= missing BY ONLY <1>8
      <4> QED BY ONLY <4>1, <4>2, <2>3
    <3> QED BY ONLY <3>1, <2>2, <2>3, <2>4
  <2> QED BY ONLY <2>1, <2>5, <1>7
<1>10. ds # <<>> <=> l # 0 BY <1>7
<1>11. n # 0 => ds[z + 1] = first
  <2>1. SUFFICES ASSUME n # 0 PROVE ds[z + 1] = first OBVIOUS
  <2>2. 1 \in 1 .. n BY <2>1, <1>4
  <2>3. ds[z + 1] = (v \div pow(base, n - 1)) % base BY <2>2, <1>2
  <2> QED BY <2>3 DEF first
<1>12. z # 0 => ds[1] = 0
  <2>1. z # 0 => 1 \in 1 .. z OBVIOUS
  <2> QED BY <2>1, <1>2
<1>13. octal => ds # <<>> /\ ds[1] = 0
  <2>1. SUFFICES ASSUME octal PROVE ds # <<>> /\ ds[1] = 0 OBVIOUS
  <2>2. CASE z # 0
    <3>1. l # 0 BY <2>2, <1>4, <1>8
    <3> QED BY <3>1, <2>2, <1>10, <1>12
  <2>3. CASE z = 0
    <3>1. pad = 0 /\ k = 0 /\ missing = 0 BY <2>3, <1>5, <1>8
    <3>2. ~one BY <3>1, <1>7
    <3>3. n # 0 /\ first = 0 BY <3>1, <3>2, <2>1
    <3>4. ds[1] = 0 BY <3>3, <2>3, <1>11
    <3>5. l # 0 BY <3>3, <1>4, <1>8
    <3> QED BY <3>4, <3>5, <1>10
  <2> QED BY <2>2, <2>3
<1>14. ASSUME ds # <<>>, ds[1] = 0
       PROVE  \/ l = 1 /\ (w.precision # 0 \/ octal)
              \/ l = w.precision
              \/ octal /\ ds[2] # 0
              \/ padded /\ len = w.width
  <2>1. CASE pad > 0 BY <2>1, <1>2
  <2>2. CASE pad = 0
    <3>1. CASE missing > 0
      <4>1. ~one /\ k = missing BY <3>1, <1>7
      <4>2. l = w.precision BY <4>1, <3>1, <2>2, <1>4, <1>5, <1>8
      <4> QED BY <4>2
    <3>2. CASE missing = 0 /\ one
      <4>1. k = 1 /\ z = 1 /\ l = 1 + n BY <3>2, <2>2, <1>4, <1>7, <1>8, SMTT(40)
      <4>2. CASE n = 0 BY <4>1, <4>2, <3>2
      <4>3. CASE n # 0
        <5>1. first # 0 BY <4>3, <3>2
        <5>2. ds[2] = first
          <6>1. z + 1 = 2 BY <4>1
          <6> QED BY <6>1, <4>3, <1>11
        <5> QED BY <5>1, <5>2, <3>2
      <4> QED BY <4>2, <4>3
    <3>3. CASE missing = 0 /\ ~one
      <4>1. z = 0 /\ l = n BY <3>3, <2>2, <1>4, <1>7, <1>8, SMTT(40)
      <4>2. n # 0 BY <4>1, <1>10, <1>14
      <4>3. first = 0
        <5>1. z + 1 = 1 BY <4>1
        <5> QED BY <5>1, <4>2, <1>11, <1>14
      <4>4. v = 0 BY <4>3, <1>4
      <4>5. w.precision # 0 /\ n = 1 BY <4>2, <4>4, <1>2
      <4> QED BY <4>1, <4>5
    <3> QED BY <3>1, <3>2, <3>3, <1>5
  <2> QED BY <2>1, <2>2
<1>15. \A m \in DOMAIN ds : ds[m] \in 0 .. base - 1 BY <1>2
<1> QED BY <1>3, <1>6, <1>7, <1>9, <1>13, <1>14, <1>15

\* What is printed in front of the digits is what is meant.
LEMMA LeadMeans ==
  ASSUME NEW c, NEW w, Same(c, w), NEW data \in Int,
         c.specifier \in {CH_D, CH_U, CH_O, CH_X, CH_P}, c.specifier # CH_D => data \in Nat
  PROVE  LET base == base_of(c.specifier)
             prefix == IF c.specifier = CH_D THEN fprintf_sign(c, data < 0)
                       ELSE IF /\ base = 16 /\ magnitude(data) # 0
                               /\ (HASH \in c.flags \/ c.specifier = CH_P)
                       THEN <<0, cased(c, CH_X)>> ELSE <<>>
         IN  prefix = lead_of(w, data) /\ prefix \in Seq(Int)
<1>1. c.specifier = w.specifier /\ (HASH \in c.flags <=> HASH \in w.flags)
      /\ cased(c, CH_X) = cased(w, CH_X)
  BY DEF Same, cased
<1>2. (data < 0) \in BOOLEAN OBVIOUS
<1>3. fprintf_sign(c, data < 0) = sign_of(w, data < 0) /\ fprintf_sign(c, data < 0) \in Seq(Int)
  BY <1>2, SignMeans, SignTyped
<1>4. PICK sign, hex, none : /\ sign = fprintf_sign(c, data < 0)
                             /\ hex = <<0, cased(c, CH_X)>> /\ none = <<>>
  OBVIOUS
<1>5. hex \in Seq(Int) /\ none \in Seq(Int)
  <2>1. cased(c, CH_X) \in Int BY DEF cased, upper, CH_X
  <2> QED BY <2>1, <1>4
<1>6. sign \o none = sign /\ none \o hex = hex /\ none \o none = none /\ sign \in Seq(Int)
  BY <1>3, <1>4, <1>5, ConcatEmptySeq
<1>7. CASE c.specifier = CH_D
  <2>1. lead_of(w, data) = sign \o none
    BY <1>1, <1>3, <1>4, <1>7 DEF lead_of, CH_D, CH_P, CH_X
  <2> QED BY <2>1, <1>4, <1>6, <1>7
<1>8. CASE c.specifier # CH_D
  <2>1. base_of(c.specifier) = 16 <=> c.specifier \in {CH_X, CH_P}
    BY DEF base_of, CH_D, CH_U, CH_O, CH_X, CH_P
  <2>2. magnitude(data) # 0 <=> data # 0 BY DEF magnitude
  <2>3. lead_of(w, data)
          = none \o (IF /\ c.specifier = CH_P \/ (c.specifier = CH_X /\ HASH \in c.flags)
                        /\ data # 0
                     THEN hex ELSE none)
    BY <1>1, <1>4, <1>8 DEF lead_of
  <2>4. lead_of(w, data)
          = IF /\ c.specifier = CH_P \/ (c.specifier = CH_X /\ HASH \in c.flags)
               /\ data # 0
            THEN hex ELSE none
    BY ONLY <2>3, <1>6
  <2>5. /\ base_of(c.specifier) = 16 /\ magnitude(data) # 0
        /\ (HASH \in c.flags \/ c.specifier = CH_P)
        <=> /\ c.specifier = CH_P \/ (c.specifier = CH_X /\ HASH \in c.flags)
            /\ data # 0
    <3>1. CH_X # CH_P BY DEF CH_X, CH_P
    <3> QED BY ONLY <3>1, <2>1, <2>2
  <2> QED BY ONLY <2>4, <2>5, <1>4, <1>5, <1>8
<1> QED BY <1>7, <1>8

LEMMA MoreZeros ==
  ASSUME NEW p \in Nat, NEW q \in Nat, NEW s \in Seq(Int)
  PROVE  repeat(0, p) \o (repeat(0, q) \o s) = repeat(0, p + q) \o s
<1>1. PICK a, b, e : a = repeat(0, p) /\ b = repeat(0, q) /\ e = repeat(0, p + q) OBVIOUS
<1>2. /\ a \in Seq(Int) /\ Len(a) = p /\ (\A j \in 1 .. p : a[j] = 0)
      /\ b \in Seq(Int) /\ Len(b) = q /\ (\A j \in 1 .. q : b[j] = 0)
  <2>1. 0 \in Int OBVIOUS
  <2> QED BY <2>1, <1>1, RepeatIs
<1>3. e \in Seq(Int) /\ Len(e) = p + q /\ \A j \in 1 .. p + q : e[j] = 0
  <2>1. 0 \in Int /\ p + q \in Nat OBVIOUS
  <2>2. PICK n : n = p + q OBVIOUS
  <2>3. n \in Nat BY <2>1, <2>2
  <2>4. e \in Seq(Int) /\ Len(e) = n /\ \A j \in 1 .. n : e[j] = 0
    BY <2>1, <2>2, <2>3, <1>1, RepeatIs
  <2> QED BY <2>2, <2>4
<1>4. PICK ab : ab = a \o b OBVIOUS
<1>5. /\ ab \in Seq(Int) /\ Len(ab) = p + q
      /\ \A j \in 1 .. p + q : ab[j] = IF j <= p THEN a[j] ELSE b[j - p]
  BY <1>2, <1>4, ConcatProperties
<1>6. ASSUME NEW j \in 1 .. p + q PROVE ab[j] = e[j]
  <2>1. CASE j <= p
    <3>1. j \in 1 .. p BY <2>1
    <3> QED BY <3>1, <2>1, <1>2, <1>3, <1>5
  <2>2. CASE ~(j <= p)
    <3>1. j - p \in 1 .. q BY <2>2
    <3> QED BY <3>1, <2>2, <1>2, <1>3, <1>5
  <2> QED BY <2>1, <2>2
<1>7. ab = e BY <1>3, <1>5, <1>6, SeqEqual
<1>8. (a \o b) \o s = a \o (b \o s) /\ a \o (b \o s) \in Seq(Int) BY <1>2, AppendsRight
<1> QED BY <1>1, <1>4, <1>7, <1>8

\* The digits of a number, as many of them as there are.
LEMMA DigitsTaken ==
  ASSUME NEW base \in {8, 10, 16}, NEW v \in Nat, NEW n \in Nat
  PROVE  /\ leading(v, n, n, base) \in Seq(Nat) /\ Len(leading(v, n, n, base)) = n
         /\ \A m \in 1 .. n :
              /\ leading(v, n, n, base)[m] = (v \div pow(base, n - m)) % base
              /\ leading(v, n, n, base)[m] \in 0 .. base - 1
<1>1. base \in Nat /\ base > 1 /\ n \in 0 .. n OBVIOUS
<1>2. leading(v, n, n, base) \in Seq(Nat) /\ Len(leading(v, n, n, base)) = n
  BY ONLY <1>1, v \in Nat, n \in Nat, LeadingTyped
<1>3. ASSUME NEW m \in 1 .. n
      PROVE  /\ leading(v, n, n, base)[m] = (v \div pow(base, n - m)) % base
             /\ (v \div pow(base, n - m)) % base \in 0 .. base - 1
  <2>1. leading(v, n, n, base)[m] = (v \div pow(base, n - m)) % base BY DEF leading
  <2>2. n - m \in Nat /\ base \in Nat \ {0} BY <1>1
  <2>3. PICK p : p = pow(base, n - m) OBVIOUS
  <2>4. p \in Nat \ {0} BY <2>2, <2>3, PowPositive
  <2>5. v \div p \in Nat BY <2>4, Division
  <2>6. (v \div p) % base \in 0 .. base - 1 BY <2>2, <2>5, Division
  <2> QED BY <2>1, <2>3, <2>6
<1> QED BY <1>2, <1>3

\* Zeros and digits behind what is meant to stand there show the number.
LEMMA ZerosAndDigits ==
  ASSUME NEW c, NEW w, Same(c, w), NEW data \in Int, NEW n, NEW missing, NEW pad \in Nat,
         NEW r \in Seq(Int),
         c.specifier \in {CH_D, CH_U, CH_O, CH_X, CH_P}, c.specifier # CH_D => data \in Nat,
         LET base == base_of(w.specifier)
             v == magnitude(data)
             digits == leading(v, n, n, base)
             one == /\ w.specifier = CH_O /\ HASH \in w.flags /\ missing = 0
                    /\ (n = 0 \/ (v \div pow(base, n - 1)) % base # 0)
             shown == repeat(0, pad + (IF one THEN 1 ELSE missing))
                        \o [m \in 1 .. n |-> cased(c, digits[m])]
         IN  /\ n = (IF v # 0 THEN digits_total(v, base)
                     ELSE IF w.precision # 0 THEN 1 ELSE 0)
             /\ missing = (IF w.precision > n THEN w.precision - n ELSE 0)
             /\ in_field(r, lead_of(w, data) \o shown, w)
             /\ zero_padded(w) => Len(lead_of(w, data) \o shown) = Len(r)
             /\ pad > 0 => zero_padded(w) /\ Len(r) = w.width
  PROVE  shows_number(r, data, w)
<1> DEFINE base == base_of(w.specifier)
           v == magnitude(data)
           digits == leading(v, n, n, base)
           one == /\ w.specifier = CH_O /\ HASH \in w.flags /\ missing = 0
                  /\ (n = 0 \/ (v \div pow(base, n - 1)) % base # 0)
           z == pad + (IF one THEN 1 ELSE missing)
           shown == repeat(0, z) \o [m \in 1 .. n |-> cased(c, digits[m])]
           ds == [m \in DOMAIN shown |-> lower(shown[m])]
<1>1. /\ n = (IF v # 0 THEN digits_total(v, base) ELSE IF w.precision # 0 THEN 1 ELSE 0)
      /\ missing = (IF w.precision > n THEN w.precision - n ELSE 0)
      /\ in_field(r, lead_of(w, data) \o shown, w)
      /\ zero_padded(w) => Len(lead_of(w, data) \o shown) = Len(r)
      /\ pad > 0 => zero_padded(w) /\ Len(r) = w.width
  OBVIOUS
<1>2. base \in {8, 10, 16} BY DEF base_of
<1>3. v \in Nat BY DEF magnitude
<1>4. lead_of(w, data) \in Seq(Int) BY LeadMeans
<1>5. w.precision \in Nat \cup {-1} BY DEF Same
<1> HIDE DEF base, v, z, shown, ds, digits, one
<1>6. n \in Nat
  <2>1. CASE v = 0 BY ONLY <2>1, <1>1
  <2>2. CASE v # 0
    <3>1. base \in Nat /\ base > 1 /\ v \in Nat \ {0} /\ n = digits_total(v, base)
      BY <2>2, <1>1, <1>2, <1>3
    <3>2. n \in Nat \ {0} BY ONLY <3>1, FirstDigit
    <3> QED BY <3>2
  <2> QED BY <2>1, <2>2
<1>7. z \in Nat
  <2>1. PICK p : p = w.precision OBVIOUS
  <2>2. missing = (IF p > n THEN p - n ELSE 0) BY ONLY <2>1, <1>1
  <2>3. p \in Nat \cup {-1} BY <2>1, <1>5
  <2>4. missing \in Nat BY ONLY <2>2, <2>3, <1>6
  <2> QED BY <2>4 DEF z
<1>8. /\ digits \in Seq(Nat) /\ Len(digits) = n
      /\ \A m \in 1 .. n : /\ digits[m] = (v \div pow(base, n - m)) % base
                           /\ digits[m] \in 0 .. base - 1
  BY ONLY <1>2, <1>3, <1>6, DigitsTaken DEF digits
<1> DEFINE letters == [m \in 1 .. n |-> cased(c, digits[m])]
<1>9. shown = repeat(0, z) \o letters /\ ds = [m \in DOMAIN shown |-> lower(shown[m])]
  BY DEF shown, ds
<1>10. /\ shown \in Seq(Int) /\ ds \in Seq(Nat) /\ Len(ds) = z + n
       /\ \A m \in DOMAIN ds : ds[m] \in 0 .. base - 1
       /\ \A m \in 1 .. z : ds[m] = 0
       /\ \A m \in 1 .. n : ds[z + m] = digits[m]
       /\ shown = [m \in DOMAIN ds |-> cased(w, ds[m])]
  <2>1. ASSUME NEW m \in 1 .. n PROVE digits[m] \in 0 .. 15
    <3>1. PICK b, x : b = base /\ x = digits[m] OBVIOUS
    <3>2. x \in 0 .. b - 1 /\ b \in {8, 10, 16} BY <3>1, <1>2, <1>8
    <3>3. x \in 0 .. 15 BY ONLY <3>2
    <3> QED BY ONLY <3>1, <3>3
  <2>2. digits \in Seq(0 .. 15)
    <3>1. digits \in [1 .. n -> 0 .. 15] BY ONLY <2>1, <1>6, <1>8
    <3> QED BY ONLY <3>1, <1>6
  <2>3. Same(c, w) OBVIOUS
  <2>4. n = Len(digits) BY <1>8
  <2>5. letters = letters_of(c, digits)
    <3>1. letters_of(c, digits) = [m \in 1 .. n |-> cased(c, digits[m])]
      BY ONLY <2>4 DEF letters_of
    <3> QED BY ONLY <3>1 DEF letters
  <2> HIDE DEF letters
  <2>6. shown = zeros_and(c, z, digits) /\ ds = lowered(zeros_and(c, z, digits))
    BY ONLY <2>5, <1>9 DEF zeros_and, lowered
  <2>7. /\ shown \in Seq(Int) /\ ds \in Seq(Nat) /\ Len(ds) = z + n
        /\ \A m \in 1 .. z : ds[m] = 0
        /\ \A m \in 1 .. n : ds[z + m] = digits[m]
        /\ \A m \in DOMAIN ds : ds[m] = 0 \/ \E k \in 1 .. n : ds[m] = digits[k]
        /\ shown = [m \in DOMAIN ds |-> cased(w, ds[m])]
    <3> DEFINE s == zeros_and(c, z, digits)
               d == lowered(s)
    <3>1. /\ s \in Seq(Int) /\ d \in Seq(Nat) /\ Len(d) = z + Len(digits)
          /\ \A m \in 1 .. z : d[m] = 0
          /\ \A m \in 1 .. Len(digits) : d[z + m] = digits[m]
          /\ \A m \in DOMAIN d :
               d[m] = 0 \/ \E k \in 1 .. Len(digits) : d[m] = digits[k]
          /\ s = in_case(w, d)
      <4>1. z \in Nat BY <1>7
      <4>2. s \in Seq(Int) /\ d \in Seq(Nat) /\ Len(d) = z + Len(digits)
        BY ONLY <2>2, <2>3, <4>1, DigitsShown
      <4>3. \A m \in 1 .. z : d[m] = 0 BY ONLY <2>2, <2>3, <4>1, DigitsShown
      <4>4. \A m \in 1 .. Len(digits) : d[z + m] = digits[m]
        BY ONLY <2>2, <2>3, <4>1, DigitsShown
      <4>5. \A m \in DOMAIN d :
              d[m] = 0 \/ \E k \in 1 .. Len(digits) : d[m] = digits[k]
        BY ONLY <2>2, <2>3, <4>1, DigitsShown
      <4>6. s = in_case(w, d) BY ONLY <2>2, <2>3, <4>1, DigitsShown
      <4> HIDE DEF s, d
      <4> QED BY ONLY <4>2, <4>3, <4>4, <4>5, <4>6
    <3> HIDE DEF s, d
    <3>2. s = shown /\ d = ds BY ONLY <2>6 DEF s, d
    <3> QED BY ONLY <3>1, <3>2, <2>4 DEF in_case
  <2>8. ASSUME NEW m \in DOMAIN ds PROVE ds[m] \in 0 .. base - 1
    <3>1. 0 \in 0 .. base - 1 BY ONLY <1>2
    <3>2. ds[m] = 0 \/ \E k \in 1 .. n : ds[m] = digits[k] BY ONLY <2>7, m \in DOMAIN ds
    <3> QED BY ONLY <3>1, <3>2, <1>8
  <2> QED BY ONLY <2>7, <2>8
<1>11. digits_right(ds, v, w, Len(r))
  <2>1. \A m \in 1 .. n : ds[z + m] = (v \div pow(base, n - m)) % base
    BY ONLY <1>8, <1>10
  <2>2. PICK len : len = Len(r) OBVIOUS
  <2>3. pad > 0 => zero_padded(w) /\ len = w.width BY ONLY <2>2, <1>1
  <2>4. LET b == base_of(w.specifier)
            octal == w.specifier = CH_O /\ HASH \in w.flags
            only == octal /\ missing = 0 /\ (n = 0 \/ (v \div pow(b, n - 1)) % b # 0)
        IN  /\ n = (IF v # 0 THEN digits_total(v, b) ELSE IF w.precision # 0 THEN 1 ELSE 0)
            /\ missing = (IF w.precision > n THEN w.precision - n ELSE 0)
            /\ z = pad + (IF only THEN 1 ELSE missing)
            /\ Len(ds) = z + n
            /\ \A m \in DOMAIN ds : ds[m] \in 0 .. b - 1
            /\ \A m \in 1 .. z : ds[m] = 0
            /\ \A m \in 1 .. n : ds[z + m] = (v \div pow(b, n - m)) % b
            /\ pad > 0 => zero_padded(w) /\ len = w.width
    BY ONLY <2>1, <2>3, <1>1, <1>10 DEF base, one, z
  <2>5. ds \in Seq(Nat) BY <1>10
  <2>6. digits_right(ds, v, w, len) BY Zenon, <2>4, <2>5, <1>3, <1>5, <1>7, DigitsRight
  <2> QED BY <2>2, <2>6
<1>12. LET d == [m \in DOMAIN shown |-> lower(shown[m])]
       IN  /\ shown = [m \in DOMAIN d |-> cased(w, d[m])]
           /\ digits_right(d, magnitude(data), w, Len(r))
  BY ONLY <1>10, <1>11 DEF ds, v
<1> QED BY ONLY <1>1, <1>4, <1>10, <1>12, data \in Int, r \in Seq(Int), ShownBy

\* fprintf_output_integer shows its number.
LEMMA IntegerShown ==
  ASSUME NEW c, NEW w, Same(c, w), NEW data \in Int,
         c.specifier \in {CH_D, CH_U, CH_O, CH_X, CH_P}, c.specifier # CH_D => data \in Nat
  PROVE  /\ fprintf_output_integer(c, data) \in Seq(Seq(Int))
         /\ shows_number(FlattenSeq(fprintf_output_integer(c, data)), data, w)
<1> DEFINE base == base_of(w.specifier)
           v == magnitude(data)
           n == IF v # 0 THEN digits_total(v, base)
                ELSE IF w.precision # 0 THEN 1 ELSE 0
           digits == leading(v, n, n, base)
           missing == IF w.precision > n THEN w.precision - n ELSE 0
           one == /\ w.specifier = CH_O /\ HASH \in w.flags /\ missing = 0
                  /\ (n = 0 \/ (v \div pow(base, n - 1)) % base # 0)
           zeros == IF one THEN 1 ELSE missing
           lead == lead_of(w, data)
           letters == [m \in 1 .. n |-> cased(c, digits[m])]
           pieces == <<repeat(0, zeros), letters>>
           len == Len(lead) + zeros + n
           filled == zero_padded(w)
<1>1. /\ c.specifier = w.specifier /\ c.precision = w.precision
      /\ (HASH \in c.flags <=> HASH \in w.flags)
      /\ (0 \in c.flags <=> 0 \in w.flags /\ ~w.left) /\ (MINUS \in c.flags <=> w.left)
      /\ c.width = w.width /\ c.width \in Nat /\ w.precision \in Nat \cup {-1}
  BY DEF Same
<1>2. base \in {8, 10, 16} /\ v \in Nat BY DEF base_of, magnitude
<1>3. /\ lead \in Seq(Int)
      /\ lead = IF c.specifier = CH_D THEN fprintf_sign(c, data < 0)
                ELSE IF base = 16 /\ v # 0 /\ (HASH \in c.flags \/ c.specifier = CH_P)
                THEN <<0, cased(c, CH_X)>> ELSE <<>>
  BY <1>1, LeadMeans
<1>4. n \in Nat
  <2>1. CASE v = 0 BY <2>1
  <2>2. CASE v # 0
    <3> HIDE DEF base, v
    <3>1. base \in Nat /\ base > 1 /\ v \in Nat \ {0} BY <2>2, <1>2
    <3>2. digits_total(v, base) \in Nat \ {0} BY ONLY <3>1, FirstDigit
    <3> QED BY <3>2
  <2> QED BY <2>1, <2>2
<1> HIDE DEF base, v, n
<1>5. missing \in Nat /\ zeros \in Nat BY <1>1, <1>4
<1>6. /\ digits \in Seq(Nat) /\ Len(digits) = n
      /\ \A m \in 1 .. n : /\ digits[m] = (v \div pow(base, n - m)) % base
                           /\ digits[m] \in 0 .. base - 1
  BY ONLY <1>2, <1>4, DigitsTaken
<1> HIDE DEF digits, missing, lead
<1>7. one <=> /\ c.specifier = CH_O /\ HASH \in c.flags /\ missing = 0
              /\ (n = 0 \/ digits[1] # 0)
  <2>1. n # 0 => digits[1] = (v \div pow(base, n - 1)) % base
    <3>1. n # 0 => 1 \in 1 .. n BY <1>4
    <3> QED BY <3>1, <1>6
  <2> QED BY <2>1, <1>1
<1> HIDE DEF one
<1>8. fprintf_output_integer(c, data)
        = fprintf_field_begin(c, len, lead, 0 \in c.flags /\ c.precision = -1)
            \o pieces \o fprintf_field_end(c, len)
  BY <1>1, <1>3, <1>7, ZenonT(60) DEF fprintf_output_integer, base, v, n, digits, missing
<1>9. (0 \in c.flags /\ c.precision = -1) <=> filled BY <1>1 DEF zero_padded
<1>10. fprintf_output_integer(c, data)
         = fprintf_field_begin(c, len, lead, filled) \o pieces \o fprintf_field_end(c, len)
  <2>1. (0 \in c.flags /\ c.precision = -1) \in BOOLEAN /\ filled \in BOOLEAN
    BY DEF zero_padded
  <2>2. (0 \in c.flags /\ c.precision = -1) = filled BY <2>1, <1>9
  <2> HIDE DEF filled, pieces, len
  <2> QED BY <2>2, <1>8
<1> HIDE DEF zeros
<1>11. letters \in Seq(Int) /\ Len(letters) = n
  <2>1. \A m \in 1 .. n : digits[m] \in 0 .. base - 1 BY <1>6
  <2>2. \A m \in 1 .. n : cased(c, digits[m]) \in Int BY <2>1, <1>2, CasedTyped
  <2>3. letters \in [1 .. n -> Int] BY <2>2
  <2> HIDE DEF letters
  <2> QED BY <2>3, <1>4
<1>12. repeat(0, zeros) \in Seq(Int) /\ Len(repeat(0, zeros)) = zeros
  <2>1. 0 \in Int OBVIOUS
  <2> QED BY <2>1, <1>5, RepeatIs
<1> HIDE DEF letters
<1>13. PICK body : body = repeat(0, zeros) \o letters OBVIOUS
<1>14. body \in Seq(Int) /\ Len(body) = zeros + n
  BY <1>11, <1>12, <1>13, ConcatProperties
<1>15. pieces \in Seq(Seq(Int)) /\ FlattenSeq(pieces) = body
  <2>1. PICK q : q = repeat(0, zeros) OBVIOUS
  <2>2. q \in Seq(Int) /\ letters \in Seq(Int) BY <2>1, <1>11, <1>12
  <2>3. <<q, letters>> \in Seq(Seq(Int)) BY <2>2
  <2>4. FlattenSeq(<<q, letters>>) = q \o letters BY ONLY <2>2, FlattenTwo
  <2> QED BY <2>1, <2>3, <2>4, <1>13
<1>16. len = Len(lead) + Len(FlattenSeq(pieces))
  <2>1. Len(lead) \in Nat BY <1>3
  <2>2. Len(FlattenSeq(pieces)) = zeros + n BY <1>14, <1>15
  <2> QED BY <2>1, <2>2, <1>4, <1>5
<1> HIDE DEF pieces, len, filled
<1>17. LET all == fprintf_field_begin(c, len, lead, filled)
                    \o pieces \o fprintf_field_end(c, len)
       IN  /\ all \in Seq(Seq(Int))
           /\ FlattenSeq(all) = field_of(c, lead, FlattenSeq(pieces), filled)
  <2>1. filled \in BOOLEAN BY DEF filled, zero_padded
  <2>2. c.width \in Nat BY <1>1
  <2>3. lead \in Seq(Int) /\ pieces \in Seq(Seq(Int)) BY <1>3, <1>15
  <2> QED BY Zenon, <2>1, <2>2, <2>3, <1>16, FieldAround
<1>18. PICK r : r = field_of(c, lead, body, filled) OBVIOUS
<1>19. /\ fprintf_output_integer(c, data) \in Seq(Seq(Int))
       /\ FlattenSeq(fprintf_output_integer(c, data)) = r
  BY <1>10, <1>15, <1>17, <1>18
<1> DEFINE shown(p) == repeat(0, p + zeros) \o letters
<1>20. \E p \in Nat : /\ r \in Seq(Int) /\ in_field(r, lead \o shown(p), w)
                      /\ filled => Len(lead \o shown(p)) = Len(r)
                      /\ p > 0 => filled /\ Len(r) = w.width
  <2>1. CASE ~filled
    <3>1. filled = FALSE BY <2>1 DEF filled, zero_padded
    <3>2. r \in Seq(Int) /\ in_field(r, lead \o body, w)
      <4>1. r = field_of(c, lead, body, FALSE) BY <3>1, <1>18
      <4>2. FALSE \in BOOLEAN OBVIOUS
      <4> QED BY <4>1, <4>2, <1>3, <1>14, FieldFits
    <3>3. shown(0) = body BY <1>5, <1>13
    <3> HIDE DEF shown
    <3> QED BY <3>2, <3>3, <2>1
  <2>2. CASE filled
    <3>1. filled = TRUE BY <2>2 DEF filled, zero_padded
    <3>2. MINUS \notin c.flags BY <2>2, <1>1 DEF filled, zero_padded
    <3>3. PICK p : p = padding(c, Len(lead) + Len(body)) OBVIOUS
    <3>4. /\ r = lead \o (repeat(0, p) \o body) /\ p \in Nat
          /\ r \in Seq(Int) /\ in_field(r, r, w)
          /\ p > 0 => Len(r) = w.width
      <4>1. lead \in Seq(Int) /\ body \in Seq(Int) /\ Same(c, w) BY <1>3, <1>14
      <4>2. r = field_of(c, lead, body, TRUE) BY ONLY <3>1, <1>18
      <4> QED BY ONLY <4>1, <4>2, <3>2, <3>3, FieldFilled, ZenonT(60)
    <3>5. repeat(0, p) \o body = shown(p)
      <4>1. p \in Nat BY <3>4
      <4>2. repeat(0, p) \o (repeat(0, zeros) \o letters) = repeat(0, p + zeros) \o letters
        BY <4>1, <1>5, <1>11, MoreZeros
      <4> QED BY <4>2, <1>13
    <3> HIDE DEF shown
    <3>6. r = lead \o shown(p) BY ONLY <3>4, <3>5
    <3> QED BY ONLY <3>4, <3>6, <2>2
  <2> QED BY <2>1, <2>2
<1>21. PICK p \in Nat : /\ r \in Seq(Int) /\ in_field(r, lead \o shown(p), w)
                        /\ filled => Len(lead \o shown(p)) = Len(r)
                        /\ p > 0 => filled /\ Len(r) = w.width
  BY <1>20
<1>22. shows_number(r, data, w)
  BY <1>1, <1>21, ZerosAndDigits, ZenonT(60)
     DEF base, v, n, digits, missing, one, zeros, letters, filled, lead
<1> QED BY <1>19, <1>22

-----------------------------------------------------------------------------
(* The field of a conversion                                               *)

LEMMA SizesTyped ==
  ASSUME NEW length
  PROVE  bits(length) \in Nat \ {0} /\ CharW \in Nat \ {0} /\ IntW \in Nat \ {0}
<1>1. CharW \in Nat \ {0} /\ ShortW \in Nat \ {0} /\ IntW \in Nat \ {0} /\ W \in Nat \ {0}
  BY PrintfConstants, WordSize
<1> QED BY <1>1 DEF bits

LEMMA SignedTyped ==
  ASSUME NEW b \in Nat \ {0}, NEW word \in Nat
  PROVE  signed(word, b) \in Int /\ word % pow(2, b) \in Nat
<1>1. b - 1 \in Nat /\ 2 \in Nat \ {0} OBVIOUS
<1>2. PICK p, q : p = pow(2, b) /\ q = pow(2, b - 1) OBVIOUS
<1>3. p \in Nat \ {0} /\ q \in Nat \ {0} BY <1>1, <1>2, PowPositive
<1>4. (word + q) % p \in 0 .. p - 1 /\ word % p \in 0 .. p - 1
  <2>1. word + q \in Nat BY <1>3
  <2> QED BY <2>1, <1>3, Division
<1>5. ((word + q) % p) - q \in Int /\ word % p \in Nat BY ONLY <1>3, <1>4
<1> QED BY <1>2, <1>5 DEF signed

LEMMA NullTexts == nil_text \in Seq(Int) /\ null_text \in Seq(Int)
BY DEF nil_text, null_text, OPENING, CLOSING, CH_N, CH_I, CH_L, CH_U

\* A character.
LEMMA CharacterShown ==
  ASSUME NEW c, NEW w, Same(c, w), NEW data, NEW word \in Nat, w.word = word,
         c.specifier = CH_C, data = fprintf_get_data(c, word)
  PROVE  /\ fprintf_output_formatted(c, data).pieces \in Seq(Seq(Int))
         /\ fprintf_output_formatted(c, data).refused \in BOOLEAN
         /\ shows(FlattenSeq(fprintf_output_formatted(c, data).pieces), w)
<1> USE DEF CH_D, CH_U, CH_O, CH_X, CH_C, CH_S, CH_P, CH_N, CH_F, CH_E, CH_G, CH_A,
            float_specifiers
<1>1. data = word % pow(2, IntW) BY DEF fprintf_get_data
<1>2. data % pow(2, CharW) = word % pow(2, CharW) /\ word % pow(2, CharW) \in Nat
  BY <1>1, CharBits
<1>3. PICK s : s = <<CHARS + (word % pow(2, CharW))>> OBVIOUS
<1>4. s \in Seq(Int) BY <1>2, <1>3 DEF CHARS
<1>5. PICK f : f = fprintf_output_formatted(c, data) OBVIOUS
<1>6. f = [refused |-> c.length = "long" /\ data >= pow(2, CharW - 1),
           pieces |-> fprintf_output_string(c, <<CHARS + (data % pow(2, CharW))>>)]
  BY <1>5 DEF fprintf_output_formatted
<1>7. f.pieces = fprintf_output_string(c, s) /\ f.refused \in BOOLEAN
  BY ONLY <1>2, <1>3, <1>6
<1>8. f.pieces \in Seq(Seq(Int)) /\ in_field(FlattenSeq(f.pieces), s, w)
  BY <1>4, <1>7, StringShown
<1>9. w.specifier = CH_C BY DEF Same
<1>10. shows(FlattenSeq(f.pieces), w) BY <1>3, <1>8, <1>9 DEF shows
<1> QED BY <1>5, <1>7, <1>8, <1>10

\* A string.
LEMMA TextOfString ==
  ASSUME NEW c, NEW w, Same(c, w), NEW word \in Nat, w.word = word,
         c.specifier = CH_S, word \in DOMAIN Strings \cup {0}
  PROVE  /\ fprintf_output_formatted(c, word).pieces \in Seq(Seq(Int))
         /\ fprintf_output_formatted(c, word).refused \in BOOLEAN
         /\ shows(FlattenSeq(fprintf_output_formatted(c, word).pieces), w)
<1> USE DEF CH_D, CH_U, CH_O, CH_X, CH_C, CH_S, CH_P, CH_N, CH_F, CH_E, CH_G, CH_A,
            float_specifiers
<1> DEFINE s == IF word = 0 THEN null_text ELSE Strings[word]
           shown == cut(c, s)
           wide == c.length = "long"
           field == IF wide /\ word # 0
                    THEN fprintf_field_begin(c, Len(shown), <<>>, FALSE)
                           \o one_by_one(shown)
                           \o fprintf_field_end(c, Len(shown))
                    ELSE fprintf_output_string(c, shown)
           f == fprintf_output_formatted(c, word)
<1>1. s \in Seq(Int) BY NullTexts, PrintfConstants
<1>2. f = [refused |-> wide /\ word # 0 /\ \E m \in DOMAIN shown : ~ascii(shown[m]),
           pieces |-> field]
  BY DEF fprintf_output_formatted
<1>3. f.pieces = field /\ f.refused \in BOOLEAN
  <2> HIDE DEF field, shown, wide, f
  <2> QED BY ONLY <1>2
<1>4. w.specifier = CH_S BY DEF Same
<1> HIDE DEF s
<1>5. /\ shown \in Seq(Int)
      /\ shown = IF w.precision = -1 \/ w.precision > Len(s) THEN s
                 ELSE SubSeq(s, 1, w.precision)
  BY <1>1, CutIs
<1>6. field \in Seq(Seq(Int)) /\ in_field(FlattenSeq(field), shown, w)
  <2> HIDE DEF shown
  <2>1. CASE wide /\ word # 0
    <3>1. PICK pieces : pieces = one_by_one(shown) OBVIOUS
    <3>2. pieces \in Seq(Seq(Int)) /\ FlattenSeq(pieces) = shown BY <3>1, <1>5, OneByOne
    <3>3. LET all == fprintf_field_begin(c, Len(shown), <<>>, FALSE)
                       \o pieces \o fprintf_field_end(c, Len(shown))
          IN  all \in Seq(Seq(Int)) /\ in_field(FlattenSeq(all), shown, w)
      BY <3>2, <1>5, TextShown
    <3> QED BY <3>1, <3>3, <2>1
  <2>2. CASE ~(wide /\ word # 0)
    <3>1. field = fprintf_output_string(c, shown) BY <2>2
    <3> HIDE DEF field
    <3> QED BY <3>1, <1>5, StringShown
  <2> QED BY <2>1, <2>2
<1>7. shows(FlattenSeq(field), w)
  <2>1. in_field(FlattenSeq(field), IF w.precision = -1 \/ w.precision > Len(s) THEN s
                                    ELSE SubSeq(s, 1, w.precision), w)
    <3> HIDE DEF field, shown
    <3> QED BY ONLY <1>5, <1>6
  <2> HIDE DEF field
  <2> QED BY <2>1, <1>4 DEF shows, s
<1> HIDE DEF field, f
<1> QED BY <1>3, <1>6, <1>7 DEF f

\* A number or a pointer.
LEMMA NumberShown ==
  ASSUME NEW c, NEW w, Same(c, w), NEW data, NEW word \in Nat, w.word = word,
         c.specifier \in {CH_D, CH_U, CH_O, CH_X, CH_P}, data = fprintf_get_data(c, word)
  PROVE  /\ fprintf_output_formatted(c, data).pieces \in Seq(Seq(Int))
         /\ fprintf_output_formatted(c, data).refused \in BOOLEAN
         /\ shows(FlattenSeq(fprintf_output_formatted(c, data).pieces), w)
<1> USE DEF CH_D, CH_U, CH_O, CH_X, CH_C, CH_S, CH_P, CH_N, CH_F, CH_E, CH_G, CH_A,
            float_specifiers
<1> DEFINE f == fprintf_output_formatted(c, data)
<1>1. w.specifier = c.specifier /\ w.bits = bits(c.length) BY DEF Same
<1>2. CASE c.specifier = CH_P /\ word = 0
  <2>1. data = 0 BY <1>2 DEF fprintf_get_data
  <2>2. f = [refused |-> FALSE, pieces |-> fprintf_output_string(c, nil_text)]
    BY <1>2, <2>1 DEF fprintf_output_formatted
  <2>3. f.pieces = fprintf_output_string(c, nil_text) /\ f.refused \in BOOLEAN
    <3> HIDE DEF f
    <3> QED BY ONLY <2>2
  <2> HIDE DEF f
  <2>4. f.pieces \in Seq(Seq(Int)) /\ in_field(FlattenSeq(f.pieces), nil_text, w)
    BY <2>3, NullTexts, StringShown
  <2>5. shows(FlattenSeq(f.pieces), w) BY <2>4, <1>1, <1>2 DEF shows
  <2> QED BY <2>3, <2>4, <2>5 DEF f
<1>3. CASE ~(c.specifier = CH_P /\ word = 0)
  <2>1. bits(c.length) \in Nat \ {0} BY SizesTyped
  <2>2. signed(word, bits(c.length)) \in Int /\ word % pow(2, bits(c.length)) \in Nat
    BY <2>1, SignedTyped
  <2>3. data = CASE c.specifier = CH_D -> signed(word, bits(c.length))
                 [] c.specifier \in {CH_U, CH_O, CH_X} -> word % pow(2, bits(c.length))
                 [] OTHER -> word
    BY DEF fprintf_get_data
  <2>4. data \in Int /\ (c.specifier # CH_D => data \in Nat) BY <2>2, <2>3
  <2>5. c.specifier = CH_P => data # 0 BY <2>3, <1>3
  <2>6. f = [refused |-> FALSE, pieces |-> fprintf_output_integer(c, data)]
    BY <2>5 DEF fprintf_output_formatted
  <2>7. f.pieces = fprintf_output_integer(c, data) /\ f.refused \in BOOLEAN
    <3> HIDE DEF f
    <3> QED BY ONLY <2>6
  <2> HIDE DEF f
  <2>8. f.pieces \in Seq(Seq(Int)) /\ shows_number(FlattenSeq(f.pieces), data, w)
    BY <2>4, <2>7, IntegerShown
  <2>9. shows(FlattenSeq(f.pieces), w)
    <3>1. PICK r : r = FlattenSeq(f.pieces) OBVIOUS
    <3>2. CASE c.specifier = CH_D BY <3>1, <3>2, <2>3, <2>8, <1>1 DEF shows
    <3>3. CASE c.specifier = CH_P BY <3>1, <3>3, <2>3, <2>8, <1>1, <1>3 DEF shows
    <3>4. CASE c.specifier \in {CH_U, CH_O, CH_X}
      BY <3>1, <3>4, <2>3, <2>8, <1>1 DEF shows
    <3> QED BY <3>2, <3>3, <3>4
  <2> QED BY <2>7, <2>8, <2>9 DEF f
<1> QED BY <1>2, <1>3

\* What a conversion hands to the stream is what it means, whatever its flags,
\* its width, its precision and its argument are; of the floating point
\* conversions only that they hand over characters.
LEMMA OutputShown ==
  ASSUME NEW c, NEW w, Same(c, w), NEW data, NEW word \in Nat, w.word = word,
         c.specifier \in specifiers \ {CH_N}, data = fprintf_get_data(c, word),
         c.specifier = CH_S => word \in DOMAIN Strings \cup {0}
  PROVE  /\ fprintf_output_formatted(c, data).pieces \in Seq(Seq(Int))
         /\ fprintf_output_formatted(c, data).refused \in BOOLEAN
         /\ c.specifier \notin float_specifiers \/ ~is_finite(word) =>
              shows(FlattenSeq(fprintf_output_formatted(c, data).pieces), w)
<1>1. CASE c.specifier = CH_C BY <1>1, CharacterShown
<1>2. CASE c.specifier = CH_S
  <2>1. data = word
    BY <1>2 DEF fprintf_get_data, CH_D, CH_U, CH_O, CH_X, CH_C, CH_S
  <2> QED BY <2>1, <1>2, TextOfString
<1>3. CASE c.specifier \in {CH_D, CH_U, CH_O, CH_X, CH_P} BY <1>3, NumberShown
<1>4. CASE c.specifier \in float_specifiers
  <2> USE DEF CH_D, CH_U, CH_O, CH_X, CH_C, CH_S, CH_P, CH_N, CH_F, CH_E, CH_G, CH_A,
              float_specifiers
  <2> DEFINE f == fprintf_output_formatted(c, data)
  <2>1. data = word BY <1>4 DEF fprintf_get_data
  <2>2. f = [refused |-> FALSE, pieces |-> fprintf_output_float(c, data)]
    BY <1>4 DEF fprintf_output_formatted
  <2>3. f.pieces = fprintf_output_float(c, word) /\ f.refused \in BOOLEAN
    <3> HIDE DEF f
    <3> QED BY ONLY <2>1, <2>2
  <2>4. Printable(c) BY DEF Same, Printable
  <2>5. f.pieces \in Seq(Seq(Int)) BY <2>3, <2>4, FloatTyped
  <2> HIDE DEF f
  <2>6. f.pieces \in Seq(Seq(Int)) /\ f.refused \in BOOLEAN BY <2>3, <2>5
  <2>7. ~is_finite(word) => shows(FlattenSeq(f.pieces), w)
    <3>1. SUFFICES ASSUME ~is_finite(word) PROVE shows(FlattenSeq(f.pieces), w) OBVIOUS
    <3>2. PICK r : r = FlattenSeq(fprintf_output_float(c, word)) OBVIOUS
    <3>3. shows_float(r, w.word, w) BY <3>1, <3>2, SpecialShown
    <3>4. w.specifier = c.specifier BY DEF Same
    <3>5. shows(r, w) BY <3>3, <3>4, <1>4 DEF shows
    <3> QED BY <3>2, <3>5, <2>3
  <2> QED BY <2>6, <2>7, <1>4 DEF f
<1> QED BY <1>1, <1>2, <1>3, <1>4 DEF specifiers, cased_specifiers

-----------------------------------------------------------------------------
(* The walk along the format, one directive at a time                      *)

\* A finite floating point number is to be printed.
floating(m) ==
  /\ is_conversion(written[m]) /\ with_args(m).specifier \in float_specifiers
  /\ is_finite(with_args(m).word)

\* Directive m is done with when the walk goes on at k with the argument a,
\* and has handed over these pieces.
consumed(m, k, a, pieces) ==
  /\ m \in DOMAIN written /\ k = begins(written, m + 1) /\ a = first_arg(m + 1)
  /\ pieces \in Seq(Seq(Int)) /\ (floating(m) \/ prints(FlattenSeq(pieces), m))

LEMMA StandsCut ==
  ASSUME NEW s \in Seq(Int), NEW q \in Seq(Int), NEW k, Stands_at(s, k, q)
  PROVE  SubSeq(s, k, k + Len(q) - 1) = q
<1>1. PICK n, l : n = Len(q) /\ l = Len(s) OBVIOUS
<1>2. n \in Nat /\ l \in Nat /\ k \in Nat \ {0} /\ k + n <= l + 1 BY <1>1 DEF Stands_at
<1>3. \A j \in 1 .. n : s[k + j - 1] = q[j] BY <1>1 DEF Stands_at
<1>4. PICK e : e = k + n - 1 OBVIOUS
<1>5. PICK t : t = SubSeq(s, k, e) OBVIOUS
<1>6. e \in Int /\ k \in Int /\ e - k + 1 = n /\ (~(k <= e) => n = 0) BY <1>2, <1>4
<1>7. /\ t \in Seq(Int) /\ Len(t) = (IF k <= e THEN e - k + 1 ELSE 0)
      /\ \A i \in 1 .. e - k + 1 : t[i] = s[k + i - 1]
  <2>1. ASSUME NEW i \in k .. e PROVE s[i] \in Int
    <3>1. i \in 1 .. l BY <1>2, <1>4
    <3> QED BY <3>1, <1>1
  <2> QED BY <2>1, <1>5, <1>6, SubSeqProperties
<1>8. Len(t) = n BY <1>6, <1>7
<1>9. ASSUME NEW i \in 1 .. n PROVE t[i] = q[i]
  <2>1. i \in 1 .. e - k + 1 BY <1>6
  <2> QED BY <2>1, <1>3, <1>7
<1>10. t = q BY <1>1, <1>7, <1>8, <1>9, SeqEqual
<1> QED BY <1>1, <1>4, <1>5, <1>10

\* Behind the last directive is the end of the format.
LEMMA BeforeEnd ==
  ASSUME Fixed, NEW m \in 1 .. Len(written) + 1
  PROVE  /\ (at(begins(written, m)) # NUL) <=> m \in DOMAIN written
         /\ written \in Seq(Directives) /\ Len(written) \in Nat
<1>1. written \in Seq(Directives) /\ Len(written) \in Nat BY DEF Fixed, Formatted
<1>2. m = Len(written) + 1 \/ m \in DOMAIN written BY <1>1
<1>3. m = Len(written) + 1 => m \notin DOMAIN written BY <1>1
<1> QED BY <1>1, <1>2, <1>3, EndStands, DirectiveStands

\* What is printed as it is written.
LEMMA CopiedText ==
  ASSUME Fixed, NEW m \in DOMAIN written
  PROVE  LET s == SubSeq(format, begins(written, m), begins(written, m + 1) - 1)
         IN  /\ s = unparse(written[m])
             /\ <<s>> \in Seq(Seq(Int)) /\ FlattenSeq(<<s>>) = unparse(written[m])
<1>1. /\ format \in Seq(Int) /\ written[m] \in Directives /\ legible(written[m])
      /\ Stands_at(format, begins(written, m), unparse(written[m]))
      /\ begins(written, m + 1) = begins(written, m) + Len(unparse(written[m]))
  BY DirectiveStands
<1>2. PICK u : u = unparse(written[m]) OBVIOUS
<1>3. u \in Seq(Int) BY <1>1, <1>2, UnparseIs
<1>4. SubSeq(format, begins(written, m), begins(written, m + 1) - 1) = u
  <2>1. SubSeq(format, begins(written, m), begins(written, m) + Len(u) - 1) = u
    BY <1>1, <1>2, <1>3, StandsCut
  <2>2. begins(written, m + 1) = begins(written, m) + Len(u) BY ONLY <1>1, <1>2
  <2>3. PICK p, e : p = begins(written, m) /\ e = begins(written, m + 1) OBVIOUS
  <2>4. e - 1 = p + Len(u) - 1
    <3>1. p \in Nat /\ Len(u) \in Nat BY <2>3, <1>1, <1>2, <1>3 DEF Stands_at
    <3>2. e = p + Len(u) BY ONLY <2>2, <2>3
    <3> QED BY ONLY <3>1, <3>2
  <2> QED BY ONLY <2>1, <2>3, <2>4
<1>5. <<u>> \in Seq(Seq(Int)) /\ FlattenSeq(<<u>>) = u BY <1>3, FlattenOne
<1> QED BY <1>2, <1>4, <1>5

LEMMA NextArgument ==
  ASSUME Fixed, NEW m \in DOMAIN written
  PROVE  first_arg(m + 1) = first_arg(m) + takes(written[m]) /\ first_arg(m) \in Nat
<1>1. written \in Seq(Directives) /\ m \in 1 .. Len(written) /\ Len(written) \in Nat
  BY DEF Fixed, Formatted
<1>2. m \in 1 .. Len(written) + 1 BY <1>1
<1>3. args_before(written, m + 1) = args_before(written, m) + takes(written[m])
      /\ args_before(written, m) \in Nat
  BY <1>1, <1>2, ArgsBefore
<1> QED BY <1>3 DEF first_arg

LEMMA PlainConsumed ==
  ASSUME Fixed, NEW m \in DOMAIN written, at(begins(written, m)) # PERCENT,
         NEW e, e = CHOOSE x \in begins(written, m) + 1 .. Len(format) + 1 :
                      /\ at(x) \in {PERCENT, NUL}
                      /\ \A l \in begins(written, m) .. x - 1 : format[l] # PERCENT
  PROVE  consumed(m, e, first_arg(m), <<SubSeq(format, begins(written, m), e - 1)>>)
<1>1. /\ written[m].plain # <<>> /\ legible(written[m]) /\ written[m] \in Directives
  BY DirectiveStands
<1>2. e = begins(written, m + 1) BY <1>1, PlainHasEnd
<1>3. unparse(written[m]) = written[m].plain BY <1>1 DEF unparse
<1>4. PICK pieces : pieces = <<SubSeq(format, begins(written, m), e - 1)>> OBVIOUS
<1>5. pieces \in Seq(Seq(Int)) /\ FlattenSeq(pieces) = written[m].plain
  BY <1>2, <1>3, <1>4, CopiedText
<1>6. prints(FlattenSeq(pieces), m) BY <1>1, <1>5 DEF prints
<1>7. first_arg(m + 1) = first_arg(m)
  <2>1. takes(written[m]) = 0
    <3>1. <<>> # <<STAR>> /\ <<>> # <<DOT, STAR>>
      <4>1. Len(<<>>) = 0 /\ Len(<<STAR>>) = 1 /\ Len(<<DOT, STAR>>) = 2 OBVIOUS
      <4> QED BY <4>1
    <3>2. written[m].width = <<>> /\ written[m].precision = <<>> BY <1>1 DEF legible
    <3> QED BY <1>1, <3>1, <3>2 DEF takes, stars, is_conversion
  <2> QED BY <2>1, NextArgument
<1> QED BY <1>2, <1>4, <1>5, <1>6, <1>7 DEF consumed

LEMMA PercentConsumed ==
  ASSUME Fixed, NEW m \in DOMAIN written, at(begins(written, m)) = PERCENT,
         at(begins(written, m) + 1) = PERCENT
  PROVE  consumed(m, begins(written, m) + 2, first_arg(m), <<<<PERCENT>>>>)
<1>1. /\ written[m].plain = <<>>
      /\ begins(written, m + 1) = begins(written, m) + Len(unparse(written[m]))
  BY DirectiveStands
<1>2. unparse(written[m]) = <<PERCENT, PERCENT>> /\ takes(written[m]) = 0
      /\ Len(unparse(written[m])) = 2
  BY <1>1, PercentSign
<1>3. begins(written, m) + 2 = begins(written, m + 1) BY <1>1, <1>2
<1>4. first_arg(m + 1) = first_arg(m) BY <1>2, NextArgument
<1>5. PICK s : s = <<PERCENT>> OBVIOUS
<1>6. s \in Seq(Int) BY <1>5 DEF PERCENT
<1>7. <<s>> \in Seq(Seq(Int)) /\ FlattenSeq(<<s>>) = s BY <1>6, FlattenOne
<1>8. prints(s, m) BY <1>1, <1>2, <1>5 DEF prints
<1> QED BY <1>3, <1>4, <1>5, <1>7, <1>8 DEF consumed

\* A conversion of fprintf, but %n and those that are refused.
LEMMA ConversionConsumed ==
  ASSUME Fixed, NEW m \in DOMAIN written, at(begins(written, m)) = PERCENT,
         NEW c, c = parse(begins(written, m) + 1, first_arg(m)),
         c.specifier \in specifiers \ {CH_N},
         NEW f, f = fprintf_output_formatted(c, fprintf_get_data(c, args[c.a]))
  PROVE  /\ consumed(m, c.k + 1, c.a + 1, f.pieces)
         /\ f.refused \in BOOLEAN
<1>1. /\ written[m].plain = <<>> /\ written[m] \in Directives
      /\ Conversion_at(written[m], begins(written, m))
  BY DirectiveStands
<1>2. PICK d, w, word : d = written[m] /\ w = with_args(m) /\ word = args[c.a] OBVIOUS
<1>3. (c.specifier \in specifiers) <=> is_conversion(d) BY <1>1, <1>2, ReadsAsMeant
<1>4. is_conversion(d) BY <1>3
<1>5. /\ Same(c, w) /\ c.k + 1 = begins(written, m + 1) /\ c.a + 1 = first_arg(m + 1)
      /\ word = w.word /\ word \in 0 .. UINT_MAX
  BY <1>1, <1>2, <1>4, ReadsAsMeant
<1>6. word \in Nat BY <1>5
<1>7. w.specifier = c.specifier BY <1>5 DEF Same
<1>8. w.specifier = CH_S <=> d.specifier = CH_S
  <2>1. c.specifier = get_format_specifier(d.specifier)
    <3>1. format \in Seq(Int) BY DirectiveStands
    <3>2. first_arg(m) \in Nat BY <1>1, ReadsAsMeant
    <3> DEFINE a == first_arg(m)
               flags == ToSet(d.flags) \cup (IF width_read(d, a) < 0 THEN {MINUS} ELSE {})
    <3>3. c = [flags |-> IF MINUS \in flags THEN flags \ {0} ELSE flags,
               width |-> magnitude(width_read(d, a)),
               precision |-> IF precision_read(d, a) < 0 THEN -1 ELSE precision_read(d, a),
               length |-> length_name(d.length),
               specifier |-> get_format_specifier(d.specifier),
               upper |-> \E ch \in cased_specifiers : d.specifier = upper(ch),
               k |-> length_end(d, begins(written, m)), a |-> a + stars(d)]
      <4>1. Conversion_at(d, begins(written, m)) BY <1>1, <1>2
      <4> QED BY Zenon, <3>1, <3>2, <4>1, ParseReads
    <3> HIDE DEF flags, a
    <3> QED BY ONLY <3>3
  <2> QED BY <2>1, <1>1, <1>2, <1>4, <1>7, SpecifierReads
<1>9. c.specifier = CH_S => word \in DOMAIN Strings \cup {0}
  BY <1>2, <1>4, <1>5, <1>7, <1>8 DEF Fixed, strings_given
<1>10. /\ f.pieces \in Seq(Seq(Int)) /\ f.refused \in BOOLEAN
       /\ c.specifier \notin float_specifiers \/ ~is_finite(word) =>
           shows(FlattenSeq(f.pieces), w)
  <2>1. PICK data : data = fprintf_get_data(c, word) OBVIOUS
  <2>2. f = fprintf_output_formatted(c, data) BY <2>1, <1>2
  <2>3. w.word = word /\ c.specifier \in specifiers \ {CH_N} BY <1>5
  <2> QED BY ONLY <2>1, <2>2, <2>3, <1>5, <1>6, <1>9, OutputShown
<1>11. floating(m) \/ prints(FlattenSeq(f.pieces), m)
  <2>1. CASE c.specifier \in float_specifiers /\ is_finite(word)
    BY <2>1, <1>2, <1>4, <1>5, <1>7 DEF floating
  <2>2. CASE c.specifier \notin float_specifiers \/ ~is_finite(word)
    <3>1. shows(FlattenSeq(f.pieces), with_args(m)) BY <2>2, <1>2, <1>10
    <3>2. unparse(d) # <<PERCENT, PERCENT>> BY <1>1, <1>2, <1>4, PercentSign
    <3> QED BY <3>1, <3>2, <1>1, <1>2, <1>4 DEF prints
  <2> QED BY <2>1, <2>2
<1> QED BY <1>5, <1>10, <1>11 DEF consumed

\* %n, which prints nothing.
LEMMA CountConsumed ==
  ASSUME Fixed, NEW m \in DOMAIN written, at(begins(written, m)) = PERCENT,
         NEW c, c = parse(begins(written, m) + 1, first_arg(m)), c.specifier = CH_N
  PROVE  /\ consumed(m, c.k + 1, c.a + 1, <<>>)
         /\ bits(c.length) = length_of(written[m])
<1>1. written[m].plain = <<>> BY DirectiveStands
<1>2. PICK d, w : d = written[m] /\ w = with_args(m) OBVIOUS
<1>3. is_conversion(d)
  <2>1. c.specifier \in specifiers BY DEF specifiers
  <2> QED BY <2>1, <1>1, <1>2, ReadsAsMeant
<1>4. Same(c, w) /\ c.k + 1 = begins(written, m + 1) /\ c.a + 1 = first_arg(m + 1)
  BY <1>1, <1>2, <1>3, ReadsAsMeant
<1>5. w.specifier = CH_N /\ bits(c.length) = w.bits BY <1>4 DEF Same
<1>6. w.bits = length_of(d) BY <1>2 DEF with_args
<1>7. prints(<<>>, m)
  <2>1. unparse(d) # <<PERCENT, PERCENT>> BY <1>1, <1>2, <1>3, PercentSign
  <2>2. shows(<<>>, w)
    BY <1>5 DEF shows, CH_D, CH_U, CH_O, CH_X, CH_C, CH_S, CH_P, CH_N, CH_F, CH_E, CH_G,
                CH_A, float_specifiers
  <2> QED BY <2>1, <2>2, <1>1, <1>2, <1>3 DEF prints
<1>8. <<>> \in Seq(Seq(Int)) /\ FlattenSeq(<<>>) = <<>> BY FlattenEmpty
<1> QED BY <1>2, <1>4, <1>5, <1>6, <1>7, <1>8 DEF consumed

\* What is not a conversion of fprintf is printed as it is.
LEMMA UnknownConsumed ==
  ASSUME Fixed, NEW m \in DOMAIN written, at(begins(written, m)) = PERCENT,
         at(begins(written, m) + 1) # PERCENT,
         NEW c, c = parse(begins(written, m) + 1, first_arg(m)),
         c.specifier \notin specifiers,
         NEW e, e = IF at(c.k) = NUL THEN c.k ELSE c.k + 1
  PROVE  consumed(m, e, c.a, <<SubSeq(format, begins(written, m), e - 1)>>)
<1>1. written[m].plain = <<>> BY DirectiveStands
<1>2. ~is_conversion(written[m]) BY <1>1, ReadsAsMeant
<1>3. c.a = first_arg(m + 1) /\ e = begins(written, m + 1) BY <1>1, <1>2, ReadsAsMeant
<1>4. unparse(written[m]) # <<PERCENT, PERCENT>> BY <1>1, PercentSign
<1>5. PICK pieces : pieces = <<SubSeq(format, begins(written, m), e - 1)>> OBVIOUS
<1>6. pieces \in Seq(Seq(Int)) /\ FlattenSeq(pieces) = unparse(written[m])
  BY <1>3, <1>5, CopiedText
<1>7. prints(FlattenSeq(pieces), m) BY <1>1, <1>2, <1>4, <1>6 DEF prints
<1> QED BY <1>3, <1>5, <1>6, <1>7 DEF consumed

-----------------------------------------------------------------------------
(* The inductive invariant                                                 *)

\* The walk is at the beginning of a directive, or at the end; each of those
\* behind it has its field, but one that is refused.
Walks ==
  \E m \in 1 .. Len(written) + 1 :
    /\ str = begins(written, m) /\ arg = first_arg(m)
    /\ Len(fields) <= m - 1 /\ (status => Len(fields) = m - 1)

Typed ==
  /\ fields \in Seq(Seq(Int)) /\ todo \in Seq(Seq(Int)) /\ count \in Nat
  /\ stored \in Seq([directive : Nat, bits : Nat, v : Int])
  /\ status \in BOOLEAN /\ pc \in {"run", "done"}
  /\ todo # <<>> => fields # <<>> /\ status
  /\ pc = "done" => todo = <<>> /\ (~status \/ at(str) = NUL)

Counted == status => count = Len(FlattenSeq(fields))

Stores ==
  \A k \in DOMAIN stored :
    LET n == stored[k].directive
    IN  /\ n \in 1 .. Len(fields)
        /\ stored[k].bits = length_of(written[n])
        /\ stored[k].v = signed(Len(FlattenSeq(SubSeq(fields, 1, n - 1))),
                                length_of(written[n]))

\* The last field, with what it has yet to take, is what its directive prints.
FieldShown ==
  status =>
    \A r, n : n = Len(fields) /\ n # 0 /\ r = fields[n] \o FlattenSeq(todo) =>
                floating(n) \/ prints(r, n)

IInv == Fixed /\ Walks /\ Typed /\ Counted /\ Stores /\ FieldShown

\* What the directives mean depends on nothing that changes.
LEMMA FixedStays ==
  ASSUME written' = written, format' = format, args' = args
  PROVE  /\ Fixed => Fixed'
         /\ \A m : first_arg(m)' = first_arg(m)
         /\ \A k : at(k)' = at(k)
         /\ \A m : floating(m)' <=> floating(m)
         /\ \A r, m : prints(r, m)' <=> prints(r, m)
<1>1. ASSUME NEW m PROVE first_arg(m)' = first_arg(m) BY DEF first_arg
<1>2. ASSUME NEW k PROVE at(k)' = at(k) BY DEF at
<1>3. ASSUME NEW m PROVE with_args(m)' = with_args(m) BY <1>1 DEF with_args
<1>4. ASSUME NEW m PROVE floating(m)' <=> floating(m) BY <1>3 DEF floating
<1>5. ASSUME NEW r, NEW m PROVE prints(r, m)' <=> prints(r, m) BY <1>3 DEF prints
<1>6. strings_given => strings_given' BY <1>3 DEF strings_given
<1>7. Fixed => Fixed' BY <1>6 DEF Fixed
<1> QED BY <1>1, <1>2, <1>4, <1>5, <1>7

\* Sequences that agree on their first k elements have the same front.
LEMMA SameFront ==
  ASSUME NEW S, NEW s \in Seq(S), NEW t \in Seq(S), NEW k \in Nat, k <= Len(s), k <= Len(t),
         \A i \in 1 .. k : s[i] = t[i]
  PROVE  SubSeq(s, 1, k) = SubSeq(t, 1, k)
<1>1. PICK a, b : a = SubSeq(s, 1, k) /\ b = SubSeq(t, 1, k) OBVIOUS
<1>2. /\ a \in Seq(S) /\ Len(a) = k /\ \A i \in 1 .. k : a[i] = s[i]
      /\ b \in Seq(S) /\ Len(b) = k /\ \A i \in 1 .. k : b[i] = t[i]
  <2>1. 1 \in Int /\ k \in Int /\ k - 1 + 1 = k /\ (~(1 <= k) => k = 0) OBVIOUS
  <2>2. /\ \A i \in 1 .. k : s[i] \in S /\ t[i] \in S
    <3>1. ASSUME NEW i \in 1 .. k PROVE s[i] \in S /\ t[i] \in S
      <4>1. i \in 1 .. Len(s) /\ i \in 1 .. Len(t) OBVIOUS
      <4> QED BY <4>1
    <3> QED BY <3>1
  <2>3. /\ a \in Seq(S) /\ Len(a) = (IF 1 <= k THEN k - 1 + 1 ELSE 0)
        /\ \A i \in 1 .. k - 1 + 1 : a[i] = s[1 + i - 1]
    BY <2>1, <2>2, <1>1, SubSeqProperties
  <2>4. /\ b \in Seq(S) /\ Len(b) = (IF 1 <= k THEN k - 1 + 1 ELSE 0)
        /\ \A i \in 1 .. k - 1 + 1 : b[i] = t[1 + i - 1]
    BY <2>1, <2>2, <1>1, SubSeqProperties
  <2>5. \A i \in 1 .. k : 1 + i - 1 = i OBVIOUS
  <2> QED BY <2>1, <2>3, <2>4, <2>5
<1>3. a = b BY <1>2, SeqEqual
<1> QED BY <1>1, <1>3

\* Fields and pieces put together.
LEMMA NewField ==
  ASSUME NEW fs \in Seq(Seq(Int)), NEW gs, gs = Append(fs, <<>>)
  PROVE  /\ gs \in Seq(Seq(Int)) /\ Len(gs) = Len(fs) + 1 /\ gs # <<>>
         /\ gs[Len(fs) + 1] = <<>> /\ FlattenSeq(gs) = FlattenSeq(fs)
         /\ \A n \in 1 .. Len(fs) + 1 : SubSeq(gs, 1, n - 1) = SubSeq(fs, 1, n - 1)
<1>1. PICK l, none : l = Len(fs) /\ none = <<>> OBVIOUS
<1>2. l \in Nat /\ none \in Seq(Int) BY <1>1
<1>3. /\ gs \in Seq(Seq(Int)) /\ Len(gs) = l + 1 /\ gs[l + 1] = none
      /\ \A i \in 1 .. l : gs[i] = fs[i]
  BY <1>1, <1>2, AppendProperties
<1>4. FlattenSeq(gs) = FlattenSeq(fs)
  <2>1. FlattenSeq(gs) = FlattenSeq(fs) \o none /\ FlattenSeq(fs) \in Seq(Int)
    BY <1>1, <1>2, FlattenMore
  <2>2. FlattenSeq(fs) \o none = FlattenSeq(fs) BY <2>1, <1>1, ConcatEmptySeq
  <2> QED BY <2>1, <2>2
<1>5. ASSUME NEW n \in 1 .. l + 1 PROVE SubSeq(gs, 1, n - 1) = SubSeq(fs, 1, n - 1)
  BY <1>2, <1>3, SameFront
<1> QED BY <1>1, <1>3, <1>4, <1>5

\* The last field takes more.
LEMMA LongerField ==
  ASSUME NEW fs \in Seq(Seq(Int)), fs # <<>>, NEW x \in Seq(Int),
         NEW gs, gs = [fs EXCEPT ![Len(fs)] = @ \o x]
  PROVE  /\ gs \in Seq(Seq(Int)) /\ Len(gs) = Len(fs)
         /\ gs[Len(fs)] = fs[Len(fs)] \o x /\ gs[Len(fs)] \in Seq(Int)
         /\ FlattenSeq(gs) = FlattenSeq(fs) \o x /\ FlattenSeq(fs) \in Seq(Int)
         /\ \A n \in 1 .. Len(fs) : SubSeq(gs, 1, n - 1) = SubSeq(fs, 1, n - 1)
<1>1. PICK l, b : l = Len(fs) /\ b = fs[Len(fs)] OBVIOUS
<1>2. l \in Nat \ {0} /\ b \in Seq(Int) BY <1>1
<1>3. PICK bx : bx = b \o x OBVIOUS
<1>4. bx \in Seq(Int) BY <1>2, <1>3, ConcatProperties
<1>5. gs = [fs EXCEPT ![l] = bx] BY <1>1, <1>3
<1>6. /\ gs \in Seq(Seq(Int)) /\ Len(gs) = l /\ gs[l] = bx
      /\ \A i \in 1 .. l - 1 : gs[i] = fs[i]
  <2>1. DOMAIN fs = 1 .. l BY <1>1
  <2>2. gs \in [1 .. l -> Seq(Int)] BY <2>1, <1>2, <1>4, <1>5
  <2>3. gs \in Seq(Seq(Int)) /\ Len(gs) = l BY ONLY <2>2, <1>2
  <2> QED BY <2>1, <2>3, <1>2, <1>5
<1>7. ASSUME NEW n \in 1 .. l PROVE SubSeq(gs, 1, n - 1) = SubSeq(fs, 1, n - 1)
  <2>1. n - 1 \in Nat /\ n - 1 <= l /\ \A i \in 1 .. n - 1 : gs[i] = fs[i] BY <1>2, <1>6
  <2> QED BY <2>1, <1>1, <1>6, SameFront
<1>8. FlattenSeq(gs) = FlattenSeq(fs) \o x /\ FlattenSeq(fs) \in Seq(Int)
  <2>1. PICK f : f = FlattenSeq(SubSeq(fs, 1, l - 1)) OBVIOUS
  <2>2. SubSeq(fs, 1, l) = fs /\ SubSeq(gs, 1, l) = gs
    BY <1>1, <1>6, SubSeqFull
  <2>3. f \in Seq(Int) /\ FlattenSeq(SubSeq(fs, 1, l)) = f \o b
    <3>1. l \in 1 .. Len(fs) BY <1>1, <1>2
    <3> QED BY <3>1, <2>1, <1>1, FlattenAround
  <2>4. FlattenSeq(SubSeq(gs, 1, l)) = f \o bx
    <3>1. l \in 1 .. Len(gs) /\ l \in 1 .. l BY <1>2, <1>6
    <3>2. FlattenSeq(SubSeq(gs, 1, l)) = FlattenSeq(SubSeq(gs, 1, l - 1)) \o gs[l]
      BY <3>1, <1>6, FlattenAround
    <3>3. SubSeq(gs, 1, l - 1) = SubSeq(fs, 1, l - 1) BY <3>1, <1>7
    <3> QED BY <3>2, <3>3, <2>1, <1>6
  <2>5. (f \o b) \o x = f \o (b \o x) /\ f \o (b \o x) \in Seq(Int)
    <3>1. f \in Seq(Int) /\ b \in Seq(Int) /\ x \in Seq(Int) BY <2>3, <1>2
    <3> QED BY ONLY <3>1, AppendsRight
  <2>6. f \o b \in Seq(Int) BY <2>3, <1>2, ConcatProperties
  <2> QED BY <2>2, <2>3, <2>4, <2>5, <2>6, <1>3
<1> QED BY <1>1, <1>3, <1>4, <1>6, <1>7, <1>8

\* The loop of fprintf at a directive.
LEMMA AtDirective ==
  ASSUME IInv, pc = "run", status, todo = <<>>, at(str) # NUL
  PROVE  \E m \in DOMAIN written :
           str = begins(written, m) /\ arg = first_arg(m) /\ Len(fields) = m - 1
<1>1. PICK m \in 1 .. Len(written) + 1 :
        str = begins(written, m) /\ arg = first_arg(m) /\ Len(fields) = m - 1
  BY DEF IInv, Walks
<1>2. m \in DOMAIN written BY <1>1, BeforeEnd DEF IInv
<1> QED BY <1>1, <1>2

LEMMA SizeTyped ==
  ASSUME NEW m
  PROVE  length_of(written[m]) \in Nat \ {0}
<1>1. CharW \in Nat \ {0} /\ ShortW \in Nat \ {0} /\ IntW \in Nat \ {0} /\ W \in Nat \ {0}
  BY PrintfConstants, WordSize
<1> QED BY <1>1 DEF length_of

\* What %n stores.
stored_at(m) ==
  [directive |-> Len(fields) + 1, bits |-> length_of(written[m]),
   v |-> signed(count, length_of(written[m]))]

\* A directive is done with.
LEMMA DirectiveDone ==
  ASSUME IInv, pc = "run", status, todo = <<>>,
         NEW m \in DOMAIN written, Len(fields) = m - 1,
         consumed(m, str', arg', todo'), fields' = Append(fields, <<>>),
         stored' = stored \/ stored' = Append(stored, stored_at(m)),
         UNCHANGED <<written, format, args, count, status, pc>>
  PROVE  IInv'
<1>1. /\ written \in Seq(Directives) /\ Len(written) \in Nat /\ m \in 1 .. Len(written)
  BY DEF IInv, Fixed, Formatted
<1>2. /\ fields \in Seq(Seq(Int)) /\ count \in Nat /\ count = Len(FlattenSeq(fields))
      /\ stored \in Seq([directive : Nat, bits : Nat, v : Int])
  BY DEF IInv, Typed, Counted
<1>3. /\ fields' \in Seq(Seq(Int)) /\ Len(fields') = Len(fields) + 1 /\ fields' # <<>>
      /\ fields'[Len(fields) + 1] = <<>> /\ FlattenSeq(fields') = FlattenSeq(fields)
      /\ \A n \in 1 .. Len(fields) + 1 : SubSeq(fields', 1, n - 1) = SubSeq(fields, 1, n - 1)
  BY <1>2, NewField
<1>4. Len(fields) + 1 = m /\ Len(fields') = m BY <1>1, <1>3
<1>5. /\ str' = begins(written, m + 1) /\ arg' = first_arg(m + 1)
      /\ todo' \in Seq(Seq(Int)) /\ (floating(m) \/ prints(FlattenSeq(todo'), m))
  BY DEF consumed
<1>6. /\ Fixed' /\ (\A k : first_arg(k)' = first_arg(k)) /\ (\A k : at(k)' = at(k))
      /\ (\A k : floating(k)' <=> floating(k))
      /\ (\A r, k : prints(r, k)' <=> prints(r, k))
  BY FixedStays DEF IInv
<1>7. Walks'
  <2>1. m + 1 \in 1 .. Len(written) + 1 /\ Len(fields') <= (m + 1) - 1
        /\ Len(fields') = (m + 1) - 1
    BY <1>1, <1>4
  <2>2. arg' = first_arg(m + 1)' BY <1>5, <1>6
  <2> QED BY <2>1, <2>2, <1>5 DEF Walks
<1>8. stored_at(m) \in [directive : Nat, bits : Nat, v : Int]
  <2>1. length_of(written[m]) \in Nat \ {0} BY SizeTyped
  <2>2. signed(count, length_of(written[m])) \in Int BY <2>1, <1>2, SignedTyped
  <2>3. Len(fields) + 1 \in Nat BY <1>1, <1>4
  <2> QED BY <2>1, <2>2, <2>3 DEF stored_at
<1>9. Typed'
  <2>1. stored' \in Seq([directive : Nat, bits : Nat, v : Int])
    <3>1. PICK x, S : x = stored_at(m) /\ S = [directive : Nat, bits : Nat, v : Int] OBVIOUS
    <3>2. x \in S /\ stored \in Seq(S) BY <3>1, <1>2, <1>8
    <3>3. Append(stored, x) \in Seq(S) BY ONLY <3>2, AppendProperties
    <3> QED BY <3>1, <3>2, <3>3
  <2> QED BY <2>1, <1>2, <1>3, <1>5 DEF IInv, Typed
<1>10. Counted' BY <1>2, <1>3 DEF Counted
<1>11. Stores'
  <2>1. ASSUME NEW k \in DOMAIN stored', stored'[k] = stored_at(m)
        PROVE  LET n == stored'[k].directive
               IN  /\ n \in 1 .. Len(fields')
                   /\ stored'[k].bits = length_of(written[n])
                   /\ stored'[k].v = signed(Len(FlattenSeq(SubSeq(fields', 1, n - 1))),
                                            length_of(written[n]))
    <3>1. stored'[k].directive = m /\ stored'[k].bits = length_of(written[m])
          /\ stored'[k].v = signed(count, length_of(written[m]))
      BY <2>1, <1>4 DEF stored_at
    <3>2. SubSeq(fields', 1, m - 1) = fields
      <4>1. SubSeq(fields', 1, m - 1) = SubSeq(fields, 1, m - 1) BY <1>1, <1>3, <1>4
      <4>2. SubSeq(fields, 1, Len(fields)) = fields BY <1>2, SubSeqFull
      <4> QED BY <4>1, <4>2
    <3>3. m \in 1 .. Len(fields') BY <1>1, <1>4
    <3> QED BY <3>1, <3>2, <3>3, <1>2
  <2>2. ASSUME NEW k \in DOMAIN stored, stored'[k] = stored[k]
        PROVE  LET n == stored'[k].directive
               IN  /\ n \in 1 .. Len(fields')
                   /\ stored'[k].bits = length_of(written[n])
                   /\ stored'[k].v = signed(Len(FlattenSeq(SubSeq(fields', 1, n - 1))),
                                            length_of(written[n]))
    <3>1. PICK n : n = stored[k].directive OBVIOUS
    <3>2. /\ n \in 1 .. Len(fields) /\ stored[k].bits = length_of(written[n])
          /\ stored[k].v = signed(Len(FlattenSeq(SubSeq(fields, 1, n - 1))),
                                  length_of(written[n]))
      BY <3>1 DEF IInv, Stores
    <3>3. n \in 1 .. Len(fields) + 1 /\ n \in 1 .. Len(fields') BY <3>2, <1>1, <1>3
    <3>4. SubSeq(fields', 1, n - 1) = SubSeq(fields, 1, n - 1) BY <3>3, <1>3
    <3> QED BY <3>1, <3>2, <3>3, <3>4, <2>2
  <2>3. ASSUME NEW k \in DOMAIN stored'
        PROVE  stored'[k] = stored_at(m) \/ (k \in DOMAIN stored /\ stored'[k] = stored[k])
    <3>1. CASE stored' = stored BY <3>1
    <3>2. CASE stored' = Append(stored, stored_at(m))
      <4>1. PICK l : l = Len(stored) OBVIOUS
      <4>2. l \in Nat /\ DOMAIN stored = 1 .. l BY <4>1, <1>2
      <4>3. /\ DOMAIN stored' = 1 .. l + 1 /\ stored'[l + 1] = stored_at(m)
            /\ \A i \in 1 .. l : stored'[i] = stored[i]
        BY <4>1, <4>2, <3>2, <1>2, <1>8, AppendProperties
      <4>4. k \in 1 .. l \/ k = l + 1 BY <4>2, <4>3
      <4> QED BY <4>2, <4>3, <4>4
    <3> QED BY <3>1, <3>2
  <2>4. ASSUME NEW k \in DOMAIN stored'
        PROVE  LET n == stored'[k].directive
               IN  /\ n \in 1 .. Len(fields')
                   /\ stored'[k].bits = length_of(written'[n])
                   /\ stored'[k].v = signed(Len(FlattenSeq(SubSeq(fields', 1, n - 1))),
                                            length_of(written'[n]))
    BY <2>1, <2>2, <2>3
  <2> QED BY <2>4 DEF Stores
<1>12. FieldShown'
  <2>1. ASSUME NEW r, NEW n, n = Len(fields'), r = fields'[n] \o FlattenSeq(todo')
        PROVE  floating(n)' \/ prints(r, n)'
    <3>1. n = m /\ fields'[n] = <<>> BY <2>1, <1>3, <1>4
    <3>2. FlattenSeq(todo') \in Seq(Int) BY <1>5, FlattenMore
    <3>3. <<>> \o FlattenSeq(todo') = FlattenSeq(todo') BY <3>2, ConcatEmptySeq
    <3>4. r = FlattenSeq(todo') BY <3>1, <3>3, <2>1
    <3> QED BY <3>1, <3>4, <1>5, <1>6
  <2> QED BY <2>1 DEF FieldShown
<1> QED BY <1>6, <1>7, <1>9, <1>10, <1>11, <1>12 DEF IInv

\* Each step of the loop is done with a directive, or refuses a character.
LEMMA LoopDone ==
  ASSUME IInv,
         plain_text \/ percent_sign \/ unknown \/ fprintf_store_count \/ convert_argument
  PROVE  /\ pc = "run" /\ status /\ todo = <<>>
         /\ UNCHANGED <<written, format, args, count, pc>>
         /\ \E m \in DOMAIN written :
              /\ Len(fields) = m - 1 /\ arg' = first_arg(m + 1) /\ str' = begins(written, m + 1)
              /\ stored' = stored \/ (stored' = Append(stored, stored_at(m)) /\ status')
              /\ \/ /\ consumed(m, str', arg', todo') /\ fields' = Append(fields, <<>>)
                    /\ UNCHANGED status
                 \/ status' = FALSE /\ UNCHANGED <<todo, fields>>
<1>1. ready
  BY DEF plain_text, percent_sign, unknown, fprintf_store_count, convert_argument,
         conversion_at
<1>2. pc = "run" /\ status /\ todo = <<>> /\ at(str) # NUL BY <1>1 DEF ready
<1>3. PICK m \in DOMAIN written :
        str = begins(written, m) /\ arg = first_arg(m) /\ Len(fields) = m - 1
  BY <1>2, AtDirective
<1>4. Fixed BY DEF IInv
<1>5. status = TRUE BY <1>2 DEF IInv, Typed
<1> DEFINE Done == /\ consumed(m, str', arg', todo') /\ fields' = Append(fields, <<>>)
                   /\ UNCHANGED status
           Rest == UNCHANGED <<written, format, args, count, pc>>
<1>6. Done => arg' = first_arg(m + 1) /\ str' = begins(written, m + 1) BY DEF consumed
<1>7. CASE plain_text
  <2>1. PICK e : e = CHOOSE x \in begins(written, m) + 1 .. Len(format) + 1 :
                       /\ at(x) \in {PERCENT, NUL}
                       /\ \A l \in begins(written, m) .. x - 1 : format[l] # PERCENT
    OBVIOUS
  <2>2. /\ at(begins(written, m)) # PERCENT /\ str' = e
        /\ todo' = <<SubSeq(format, begins(written, m), e - 1)>>
        /\ fields' = Append(fields, <<>>)
        /\ UNCHANGED <<written, format, args, arg, count, stored, status, pc>>
    BY <2>1, <1>3, <1>7 DEF plain_text, output
  <2>3. consumed(m, e, first_arg(m), <<SubSeq(format, begins(written, m), e - 1)>>)
    BY <2>1, <2>2, <1>4, PlainConsumed
  <2>4. Done /\ Rest /\ stored' = stored BY <2>2, <2>3, <1>3
  <2> QED BY <2>4, <1>2, <1>3, <1>6
<1>8. CASE percent_sign
  <2>1. /\ at(begins(written, m)) = PERCENT /\ at(begins(written, m) + 1) = PERCENT
        /\ str' = begins(written, m) + 2 /\ todo' = <<<<PERCENT>>>>
        /\ fields' = Append(fields, <<>>)
        /\ UNCHANGED <<written, format, args, arg, count, stored, status, pc>>
    BY <1>3, <1>8 DEF percent_sign, output
  <2>2. consumed(m, begins(written, m) + 2, first_arg(m), <<<<PERCENT>>>>)
    BY <2>1, <1>4, PercentConsumed
  <2>3. Done /\ Rest /\ stored' = stored BY <2>1, <2>2, <1>3
  <2> QED BY <2>3, <1>2, <1>3, <1>6
<1>9. CASE unknown
  <2>1. PICK c, e : /\ c = parse(begins(written, m) + 1, first_arg(m))
                    /\ e = IF at(c.k) = NUL THEN c.k ELSE c.k + 1
    OBVIOUS
  <2>2. /\ at(begins(written, m)) = PERCENT /\ at(begins(written, m) + 1) # PERCENT
        /\ c.specifier \notin specifiers /\ str' = e /\ arg' = c.a
        /\ todo' = <<SubSeq(format, begins(written, m), e - 1)>>
        /\ fields' = Append(fields, <<>>)
        /\ UNCHANGED <<written, format, args, count, stored, status, pc>>
    BY <2>1, <1>3, <1>9 DEF unknown, conversion_at, output
  <2>3. consumed(m, e, c.a, <<SubSeq(format, begins(written, m), e - 1)>>)
    BY <2>1, <2>2, <1>4, UnknownConsumed
  <2>4. Done /\ Rest /\ stored' = stored BY <2>2, <2>3
  <2> QED BY <2>4, <1>2, <1>3, <1>6
<1>10. CASE fprintf_store_count
  <2>1. PICK c : c = parse(begins(written, m) + 1, first_arg(m)) OBVIOUS
  <2>2. /\ at(begins(written, m)) = PERCENT /\ c.specifier = CH_N
        /\ stored' = Append(stored, [directive |-> Len(fields) + 1, bits |-> bits(c.length),
                                     v |-> signed(count, bits(c.length))])
        /\ str' = c.k + 1 /\ arg' = c.a + 1 /\ todo' = <<>>
        /\ fields' = Append(fields, <<>>)
        /\ UNCHANGED <<written, format, args, count, status, pc>>
    BY <2>1, <1>3, <1>10 DEF fprintf_store_count, conversion_at, output
  <2>3. consumed(m, c.k + 1, c.a + 1, <<>>) /\ bits(c.length) = length_of(written[m])
    BY <2>1, <2>2, <1>4, CountConsumed
  <2>4. stored' = Append(stored, stored_at(m)) BY <2>2, <2>3 DEF stored_at
  <2>5. Done /\ Rest /\ status' BY <2>2, <2>3, <1>2
  <2> QED BY <2>4, <2>5, <1>2, <1>3, <1>6
<1>11. CASE convert_argument
  <2>1. PICK c, f : /\ c = parse(begins(written, m) + 1, first_arg(m))
                    /\ f = fprintf_output_formatted(c, fprintf_get_data(c, args[c.a]))
    OBVIOUS
  <2>2. /\ at(begins(written, m)) = PERCENT /\ c.specifier \in specifiers \ {CH_N}
        /\ IF f.refused THEN status' = FALSE /\ UNCHANGED <<todo, fields>>
           ELSE /\ todo' = f.pieces /\ fields' = Append(fields, <<>>)
                /\ UNCHANGED status
        /\ str' = c.k + 1 /\ arg' = c.a + 1
        /\ UNCHANGED <<written, format, args, count, stored, pc>>
    BY <2>1, <1>3, <1>11 DEF convert_argument, conversion_at, output
  <2>3. consumed(m, c.k + 1, c.a + 1, f.pieces) /\ f.refused \in BOOLEAN
    BY <2>1, <2>2, <1>4, ConversionConsumed
  <2>4. arg' = first_arg(m + 1) /\ str' = begins(written, m + 1) BY <2>2, <2>3 DEF consumed
  <2>5. Rest /\ stored' = stored BY <2>2
  <2>6. Done \/ (status' = FALSE /\ UNCHANGED <<todo, fields>>) BY <2>2, <2>3
  <2> QED BY <2>4, <2>5, <2>6, <1>2, <1>3
<1> QED BY <1>7, <1>8, <1>9, <1>10, <1>11

\* Every step of the loop keeps the invariant.
LEMMA LoopKeeps ==
  ASSUME IInv,
         plain_text \/ percent_sign \/ unknown \/ fprintf_store_count \/ convert_argument
  PROVE  IInv'
<1>1. /\ pc = "run" /\ status /\ todo = <<>>
      /\ UNCHANGED <<written, format, args, count, pc>>
  BY LoopDone
<1>2. PICK m \in DOMAIN written :
        /\ Len(fields) = m - 1 /\ arg' = first_arg(m + 1) /\ str' = begins(written, m + 1)
        /\ stored' = stored \/ (stored' = Append(stored, stored_at(m)) /\ status')
        /\ \/ /\ consumed(m, str', arg', todo') /\ fields' = Append(fields, <<>>)
              /\ UNCHANGED status
           \/ status' = FALSE /\ UNCHANGED <<todo, fields>>
  BY LoopDone
<1>3. CASE consumed(m, str', arg', todo') /\ fields' = Append(fields, <<>>)
           /\ UNCHANGED status
  BY <1>1, <1>2, <1>3, DirectiveDone
<1>4. CASE status' = FALSE /\ UNCHANGED <<todo, fields>>
  <2>1. stored' = stored BY <1>2, <1>4
  <2>2. /\ Fixed' /\ (\A k : first_arg(k)' = first_arg(k))
    BY <1>1, FixedStays DEF IInv
  <2>3. Walks'
    <3>1. m \in 1 .. Len(written) /\ Len(written) \in Nat BY DEF IInv, Fixed, Formatted
    <3>2. m + 1 \in 1 .. Len(written') + 1 /\ Len(fields') <= (m + 1) - 1
      BY <3>1, <1>1, <1>2, <1>4
    <3>3. str' = begins(written', m + 1) /\ arg' = first_arg(m + 1)' BY <1>1, <1>2, <2>2
    <3> QED BY <3>2, <3>3, <1>4 DEF Walks
  <2>4. Typed' BY <1>1, <1>4, <2>1 DEF IInv, Typed
  <2>5. Stores' BY <1>1, <1>4, <2>1 DEF IInv, Stores
  <2>6. Counted' /\ FieldShown' BY <1>4 DEF Counted, FieldShown
  <2> QED BY <2>2, <2>3, <2>4, <2>5, <2>6 DEF IInv
<1> QED BY <1>2, <1>3, <1>4

\* So does the stream when it takes a piece.
LEMMA PieceKeeps ==
  ASSUME IInv, sink_bytes
  PROVE  IInv'
<1>1. /\ todo # <<>> /\ count' = count + Len(Head(todo)) /\ todo' = Tail(todo)
      /\ fields' = [fields EXCEPT ![Len(fields)] = @ \o Head(todo)]
      /\ UNCHANGED <<written, format, args, str, arg, stored, status, pc>>
  BY DEF sink_bytes
<1>2. /\ fields \in Seq(Seq(Int)) /\ todo \in Seq(Seq(Int)) /\ count \in Nat
      /\ fields # <<>> /\ status /\ pc # "done" /\ count = Len(FlattenSeq(fields))
  BY <1>1 DEF IInv, Typed, Counted
<1>3. PICK x, t : x = Head(todo) /\ t = Tail(todo) OBVIOUS
<1>4. /\ x \in Seq(Int) /\ t \in Seq(Seq(Int)) /\ FlattenSeq(todo) = x \o FlattenSeq(t)
  BY <1>1, <1>2, <1>3, FlattenHead
<1>5. /\ fields' \in Seq(Seq(Int)) /\ Len(fields') = Len(fields)
      /\ fields'[Len(fields)] = fields[Len(fields)] \o x
      /\ fields'[Len(fields)] \in Seq(Int)
      /\ FlattenSeq(fields') = FlattenSeq(fields) \o x /\ FlattenSeq(fields) \in Seq(Int)
      /\ \A n \in 1 .. Len(fields) : SubSeq(fields', 1, n - 1) = SubSeq(fields, 1, n - 1)
  <2>0. x \in Seq(Int) BY <1>4
  <2>1. PICK fs, gs : fs = fields /\ gs = fields' OBVIOUS
  <2>2. gs = [fs EXCEPT ![Len(fs)] = @ \o x] BY <2>1, <1>1, <1>3
  <2>3. fs \in Seq(Seq(Int)) /\ fs # <<>> BY <2>1, <1>2
  <2>4. /\ gs \in Seq(Seq(Int)) /\ Len(gs) = Len(fs)
        /\ gs[Len(fs)] = fs[Len(fs)] \o x /\ gs[Len(fs)] \in Seq(Int)
        /\ FlattenSeq(gs) = FlattenSeq(fs) \o x /\ FlattenSeq(fs) \in Seq(Int)
        /\ \A n \in 1 .. Len(fs) : SubSeq(gs, 1, n - 1) = SubSeq(fs, 1, n - 1)
    BY ONLY Zenon, <2>2, <2>3, <2>0, LongerField
  <2> QED BY <2>1, <2>4
<1>6. /\ Fixed' /\ (\A k : first_arg(k)' = first_arg(k)) /\ (\A k : at(k)' = at(k))
      /\ (\A k : floating(k)' <=> floating(k))
      /\ (\A r, k : prints(r, k)' <=> prints(r, k))
  BY <1>1, FixedStays DEF IInv
<1>7. Walks' BY <1>1, <1>5, <1>6 DEF IInv, Walks
<1>8. Typed'
  <2>1. Len(x) \in Nat /\ count' \in Nat BY <1>1, <1>2, <1>3, <1>4
  <2>2. fields' # <<>>
    <3>1. Len(fields') # 0 BY <1>2, <1>5
    <3> QED BY <3>1
  <2> QED BY <2>1, <2>2, <1>1, <1>2, <1>3, <1>4, <1>5 DEF IInv, Typed
<1>9. Counted'
  <2>1. Len(FlattenSeq(fields) \o x) = Len(FlattenSeq(fields)) + Len(x)
    BY <1>4, <1>5, ConcatProperties
  <2> QED BY <2>1, <1>1, <1>2, <1>3, <1>5 DEF Counted
<1>10. Stores' BY <1>1, <1>5 DEF IInv, Stores
<1>11. FieldShown'
  <2>1. ASSUME NEW r, NEW n, n = Len(fields'), n # 0, r = fields'[n] \o FlattenSeq(todo')
        PROVE  floating(n)' \/ prints(r, n)'
    <3>1. n = Len(fields) /\ n # 0 BY <2>1, <1>5
    <3>2. PICK f, y : f = fields[n] /\ y = FlattenSeq(t) OBVIOUS
    <3>3. f \in Seq(Int) /\ y \in Seq(Int)
      <4>1. n \in 1 .. Len(fields) BY <3>1, <1>2
      <4>2. f \in Seq(Int) BY <4>1, <3>2, <1>2
      <4>3. y \in Seq(Int) BY <3>2, <1>4, FlattenMore
      <4> QED BY <4>2, <4>3
    <3>4. (f \o x) \o y = f \o (x \o y) BY ONLY <3>3, <1>4, AppendsRight, SMTT(40)
    <3>5. r = (f \o x) \o y BY <2>1, <3>1, <3>2, <1>1, <1>3, <1>5
    <3>6. r = fields[n] \o FlattenSeq(todo) BY <3>2, <3>4, <3>5, <1>4
    <3>7. floating(n) \/ prints(r, n) BY <3>1, <3>6, <1>2 DEF IInv, FieldShown
    <3> QED BY <3>7, <1>6
  <2> QED BY <2>1 DEF FieldShown
<1> QED BY <1>6, <1>7, <1>8, <1>9, <1>10, <1>11 DEF IInv

\* And when it fails, and the return of fprintf.
LEMMA EndKeeps ==
  ASSUME IInv, sink_fails \/ return \/ UNCHANGED pfvars
  PROVE  IInv'
<1>1. UNCHANGED <<written, format, args, str, arg, stored, fields>>
  BY DEF sink_fails, return, pfvars
<1>2. /\ Fixed' /\ (\A k : first_arg(k)' = first_arg(k)) /\ (\A k : at(k)' = at(k))
      /\ (\A k : floating(k)' <=> floating(k))
      /\ (\A r, k : prints(r, k)' <=> prints(r, k))
  BY <1>1, FixedStays DEF IInv
<1>3. Stores' BY <1>1 DEF IInv, Stores
<1>4. at(str)' = at(str)
  <2>1. at(str)' = at(str') BY <1>1 DEF at
  <2> QED BY <2>1, <1>1
<1>5. CASE sink_fails
  <2>1. /\ todo # <<>> /\ count' = count + Len(Head(todo)) /\ status' = FALSE
        /\ todo' = <<>> /\ pc' = pc
    BY <1>5 DEF sink_fails
  <2>2. Head(todo) \in Seq(Int) BY <2>1, FlattenHead DEF IInv, Typed
  <2>3. count' \in Nat BY <2>1, <2>2 DEF IInv, Typed
  <2>4. Typed'
    <3>1. /\ fields \in Seq(Seq(Int)) /\ pc \in {"run", "done"}
          /\ stored \in Seq([directive : Nat, bits : Nat, v : Int])
      BY DEF IInv, Typed
    <3>2. todo' \in Seq(Seq(Int)) /\ ~(todo' # <<>>) BY <2>1
    <3>3. ~status' /\ status' \in BOOLEAN BY <2>1
    <3> QED BY <3>1, <3>2, <3>3, <2>1, <2>3, <1>1 DEF Typed
  <2>5. Walks' BY <2>1, <1>1, <1>2 DEF IInv, Walks
  <2>6. Counted' /\ FieldShown' BY <2>1 DEF Counted, FieldShown
  <2> QED BY <2>4, <2>5, <2>6, <1>2, <1>3 DEF IInv
<1>6. CASE return \/ UNCHANGED pfvars
  <2>1. UNCHANGED <<todo, count, status>>
        /\ (pc' = pc \/ (pc' = "done" /\ todo = <<>> /\ (~status \/ at(str) = NUL)))
    BY <1>6 DEF return, pfvars
  <2>2. Typed' BY <2>1, <1>1, <1>4 DEF IInv, Typed
  <2>3. Walks' BY <2>1, <1>1, <1>2 DEF IInv, Walks
  <2>4. Counted' BY <2>1, <1>1 DEF IInv, Counted
  <2>5. FieldShown' BY <2>1, <1>1, <1>2 DEF IInv, FieldShown
  <2> QED BY <2>2, <2>3, <2>4, <2>5, <1>2, <1>3 DEF IInv
<1> QED BY <1>5, <1>6

LEMMA Begins ==
  ASSUME Init
  PROVE  IInv
<1>1. PICK c \in Calls : written = c.format /\ args = c.args BY DEF Init
<1>2. /\ c.format \in Seq(Directives) /\ c.args \in Seq(0 .. UINT_MAX)
      /\ \A m \in DOMAIN c.format : legible(c.format[m])
      /\ \A m \in 1 .. Len(c.format) - 1 :
           IF c.format[m].plain # <<>> THEN c.format[m + 1].plain = <<>>
           ELSE c.format[m].specifier # NUL
      /\ args_before(c.format, Len(c.format) + 1) <= Len(c.args) + 1
  BY PrintfConstants
<1>3. Formatted(written) BY <1>1, <1>2 DEF Formatted
<1>4. Fixed BY <1>1, <1>2, <1>3 DEF Init, Fixed, Texts
<1>5. /\ str = 1 /\ arg = 1 /\ todo = <<>> /\ count = 0 /\ stored = <<>>
      /\ status = TRUE /\ pc = "run" /\ fields = <<>>
  BY DEF Init
<1>6. Len(fields) = 0 /\ Len(stored) = 0 /\ DOMAIN stored = {} BY <1>5
<1>7. Walks
  <2>1. begins(written, 1) = 1 BY <1>3, FromEndToEnd
  <2>2. first_arg(1) = 1 /\ Len(written) \in Nat BY <1>1, <1>2, ArgsBefore DEF first_arg
  <2>3. 1 \in 1 .. Len(written) + 1 BY <2>2
  <2> QED BY <2>1, <2>2, <2>3, <1>5, <1>6 DEF Walks
<1>8. Typed BY <1>5 DEF Typed
<1>9. Counted BY <1>5, <1>6, FlattenEmpty DEF Counted
<1>10. Stores BY <1>6 DEF Stores
<1>11. FieldShown BY <1>6 DEF FieldShown
<1> QED BY <1>4, <1>7, <1>8, <1>9, <1>10, <1>11 DEF IInv

\* The walk is always where a directive of the format begins, with the arguments
\* that are meant for it, and what is behind it is printed and counted.
THEOREM Walking == Spec => []IInv
<1>1. Init => IInv BY Begins
<1>2. ASSUME IInv, [Next]_pfvars PROVE IInv'
  BY <1>2, LoopKeeps, PieceKeeps, EndKeeps DEF Next, step
<1> QED BY <1>1, <1>2, PTL DEF Spec

-----------------------------------------------------------------------------
(* What the runs check                                                     *)

LEMMA EndsAt ==
  ASSUME IInv
  PROVE  /\ pc = "done" /\ status => Len(fields) = Len(written)
         /\ Len(fields) <= Len(written)
         /\ str \in 1 .. Len(format) + 1 /\ arg \in 1 .. Len(args) + 1
<1>1. PICK m \in 1 .. Len(written) + 1 :
        /\ str = begins(written, m) /\ arg = first_arg(m)
        /\ Len(fields) <= m - 1 /\ (status => Len(fields) = m - 1)
  BY DEF IInv, Walks
<1>2. Fixed /\ written \in Seq(Directives) /\ Len(written) \in Nat
  BY DEF IInv, Fixed, Formatted
<1>3. pc = "done" /\ status => m = Len(written) + 1
  <2>1. SUFFICES ASSUME pc = "done", status PROVE m = Len(written) + 1 OBVIOUS
  <2>2. at(str) = NUL BY <2>1 DEF IInv, Typed
  <2>3. m \notin DOMAIN written BY <2>2, <1>1, <1>2, BeforeEnd
  <2> QED BY <2>3, <1>1, <1>2
<1>4. Len(fields) \in Nat BY DEF IInv, Typed
<1>5. str \in 1 .. Len(format) + 1 BY <1>1, <1>2, EndStands
<1>6. arg \in 1 .. Len(args) + 1
  <2>1. /\ args_before(written, m) \in Nat \ {0}
        /\ args_before(written, m) <= args_before(written, Len(written) + 1)
    BY <1>1, <1>2, ArgsBefore
  <2>2. /\ args_before(written, Len(written) + 1) \in Nat \ {0}
        /\ args_before(written, Len(written) + 1) <= Len(args) + 1 /\ Len(args) \in Nat
    <3>1. Len(written) + 1 \in 1 .. Len(written) + 1 BY <1>2
    <3>2. args_before(written, Len(written) + 1) \in Nat \ {0} BY <3>1, <1>2, ArgsBefore
    <3> QED BY <3>2, <1>2 DEF Fixed
  <2>3. PICK x, y, l : /\ x = args_before(written, m) /\ l = Len(args)
                       /\ y = args_before(written, Len(written) + 1)
    OBVIOUS
  <2>4. x \in 1 .. l + 1 BY ONLY <2>1, <2>2, <2>3
  <2> QED BY <2>3, <2>4, <1>1 DEF first_arg
<1> QED BY <1>1, <1>2, <1>3, <1>4, <1>5, <1>6

\* fprintf never reads behind the format or behind its arguments, and begins no
\* more fields than the format has directives.
THEOREM PrintfTypes == Spec => []TypeOK
<1>1. ASSUME IInv PROVE TypeOK BY <1>1, EndsAt DEF TypeOK, IInv, Typed
<1> QED BY <1>1, Walking, PTL

\* Every %n stores what all the directives in front of it have printed, in an
\* object of the size that its length modifier says.
THEOREM StoresCount == Spec => []CountsPrinted
<1>1. ASSUME IInv PROVE CountsPrinted BY <1>1 DEF CountsPrinted, IInv, Stores
<1> QED BY <1>1, Walking, PTL

\* Once the stream has failed, or refused a wide character, no action but the
\* return is left.
THEOREM StopsAfterFailure == Spec => NothingAfterFailure
<1>1. ASSUME IInv, [Next]_pfvars, ~status
      PROVE  UNCHANGED <<fields, stored, status>>
  <2>1. todo = <<>> BY <1>1 DEF IInv, Typed
  <2>2. ~(plain_text \/ percent_sign \/ unknown \/ fprintf_store_count \/ convert_argument)
    BY <1>1, LoopDone
  <2>3. ~sink_bytes /\ ~sink_fails BY <2>1 DEF sink_bytes, sink_fails
  <2> QED BY <1>1, <2>2, <2>3 DEF Next, step, return, pfvars
<1>2. IInv /\ [Next]_pfvars => [~status => UNCHANGED <<fields, stored, status>>]_pfvars
  BY <1>1
<1> QED BY <1>2, Walking, PTL DEF Spec, NothingAfterFailure

\* Every directive is read as it was written, takes the arguments that are its
\* own, and prints what it means, for all formats, widths, precisions, flags and
\* words: but for finite floating point numbers.
THEOREM PrintsWhatIsMeant ==
  Spec => []((fields = <<>> \/ ~floating(Len(fields))) => PrintsAsWritten)
<1>1. ASSUME IInv, fields = <<>> \/ ~floating(Len(fields))
      PROVE  PrintsAsWritten
  <2>1. SUFFICES ASSUME status, todo = <<>>, fields # <<>>
                 PROVE  prints(Last(fields), Len(fields))
    BY <1>1, EndsAt DEF PrintsAsWritten
  <2>2. PICK n, f : n = Len(fields) /\ f = fields[Len(fields)] OBVIOUS
  <2>3. fields \in Seq(Seq(Int)) BY <1>1 DEF IInv, Typed
  <2>4. n # 0 /\ f \in Seq(Int) /\ Last(fields) = f BY <2>1, <2>2, <2>3 DEF Last
  <2>5. f \o FlattenSeq(todo) = f
    <3>1. FlattenSeq(todo) = <<>> BY <2>1, FlattenEmpty
    <3>2. f \o <<>> = f BY <2>4, ConcatEmptySeq
    <3> QED BY <3>1, <3>2
  <2>6. f = fields[n] \o FlattenSeq(todo) BY <2>2, <2>5
  <2>7. floating(n) \/ prints(f, n) BY <2>1, <2>2, <2>4, <2>6, <1>1 DEF IInv, FieldShown
  <2> QED BY <2>1, <2>2, <2>4, <2>7, <1>1
<1>2. IInv => ((fields = <<>> \/ ~floating(Len(fields))) => PrintsAsWritten) BY <1>1
<1> QED BY <1>2, Walking, PTL
=============================================================================
