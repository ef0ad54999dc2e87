-------------------------- MODULE ConversionsProofs --------------------------
(***************************************************************************)
(* What the integer conversions return, for every size of a word, every    *)
(* radix and every buffer: the characters they write and the text that the *)
(* word they leave still stands for are together the text that the word    *)
(* they were given stands for.                                             *)
(***************************************************************************)
EXTENDS Conversions, Induction, SequenceTheorems

-----------------------------------------------------------------------------
(* Division                                                                *)

\* Quotient and remainder.
LEMMA Division ==
  ASSUME NEW a \in Nat, NEW b \in Nat, b > 0
  PROVE  a = b * (a \div b) + (a % b) /\ a % b \in 0 .. b - 1 /\ a \div b \in Nat
<1>1. a = b * (a \div b) + (a % b) /\ a % b \in 0 .. b - 1 OBVIOUS
<1>2. a \div b \in Nat OBVIOUS
<1> QED BY <1>1, <1>2

\* They are the only ones.
LEMMA DivisionIs ==
  ASSUME NEW q \in Nat, NEW s \in Nat, NEW b \in Nat, s < b
  PROVE  (b * q + s) \div b = q /\ (b * q + s) % b = s
OBVIOUS

\* The remainder keeps the lower digits.
LEMMA LowerDigits ==
  ASSUME NEW a \in Nat, NEW b \in Nat, NEW c \in Nat, b > 0, c > 0
  PROVE  /\ (a % (b * c)) \div b = (a \div b) % c
         /\ (a % (b * c)) % b = a % b
<1>0. b * c \in Nat /\ b * c > 0 OBVIOUS
<1> DEFINE q == a \div (b * c)
           t == a % (b * c)
           x == t \div b
           y == t % b
<1>1. a = (b * c) * q + t /\ t \in 0 .. (b * c) - 1 /\ q \in Nat /\ t \in Nat
  BY <1>0, Division
<1>2. t = b * x + y /\ y \in 0 .. b - 1 /\ x \in Nat /\ y \in Nat
  BY <1>1, Division
<1> HIDE DEF q, t, x, y
<1>3. x < c BY <1>1, <1>2
<1>4. a = b * (c * q + x) + y /\ c * q + x \in Nat BY <1>1, <1>2
<1>5. a \div b = c * q + x /\ a % b = y BY <1>2, <1>4, DivisionIs
<1>6. (c * q + x) % c = x BY <1>1, <1>2, <1>3, DivisionIs
<1> QED BY <1>5, <1>6 DEF t, x, y

-----------------------------------------------------------------------------
(* Powers                                                                  *)

\* The function behind pow.
Products(p, b, n) == p = [k \in 0 .. n |-> IF k = 0 THEN 1 ELSE b * p[k - 1]]

\* It is what its definition says.
LEMMA PowIs ==
  ASSUME NEW b \in Nat, NEW n \in Nat
  PROVE  \E p \in [0 .. n -> Nat] : Products(p, b, n) /\ pow(b, n) = p[n]
<1> DEFINE f == CHOOSE p : Products(p, b, n)
           times == [x \in Nat |-> b * x]
           step == [k \in 1 .. n |-> times]
<1>1. pow(b, n) = f[n] BY DEF pow, Products
<1>2. times \in [Nat -> Nat] /\ \A x \in Nat : times[x] = b * x OBVIOUS
<1>3. step \in [1 .. n -> [Nat -> Nat]] /\ \A k \in 1 .. n : step[k] = times
  <2> HIDE DEF times
  <2> QED BY <1>2
<1> HIDE DEF times, step
<1>4. PICK p \in [0 .. n -> Nat] : Iterated(p, 1, step, n) BY <1>3, Iterates
<1>5. ASSUME NEW k \in 0 .. n PROVE p[k] = IF k = 0 THEN 1 ELSE b * p[k - 1]
  <2>1. p[k] = IF k = 0 THEN 1 ELSE step[k][p[k - 1]] BY <1>4 DEF Iterated
  <2>2. CASE k = 0 BY <2>1, <2>2
  <2>3. CASE k # 0
    <3>1. k \in 1 .. n /\ k - 1 \in 0 .. n BY <2>3
    <3>2. step[k] = times /\ p[k - 1] \in Nat BY <3>1, <1>3
    <3> QED BY <3>2, <2>1, <2>3, <1>2
  <2> QED BY <2>2, <2>3
<1>6. Products(p, b, n) BY <1>5 DEF Products
<1>7. Products(f, b, n) BY <1>6 DEF f
<1> HIDE DEF f
<1>8. ASSUME NEW k \in 0 .. n PROVE f[k] = IF k = 0 THEN 1 ELSE b * f[k - 1]
  BY <1>7 DEF Products
<1>9. f \in [0 .. n -> Nat]
  <2> DEFINE S == {k \in 0 .. n : f[k] \in Nat}
  <2>1. 0 \in S BY <1>8
  <2>2. \A k \in 0 .. n - 1 : k \in S => k + 1 \in S
    <3> SUFFICES ASSUME NEW k \in 0 .. n - 1, k \in S PROVE k + 1 \in S OBVIOUS
    <3>1. k + 1 \in 0 .. n /\ k + 1 # 0 /\ (k + 1) - 1 = k OBVIOUS
    <3>2. f[k + 1] = b * f[k] BY <3>1, <1>8
    <3> QED BY <3>1, <3>2
  <2> HIDE DEF S
  <2>3. 0 .. n \subseteq S BY <2>1, <2>2, InductTo
  <2>4. \A k \in 0 .. n : f[k] \in Nat BY <2>3 DEF S
  <2>5. f = [k \in 0 .. n |-> f[k]] BY <1>7 DEF Products
  <2> QED BY <2>4, <2>5
<1> QED BY <1>1, <1>7, <1>9

\* pow by its two equations.
LEMMA PowRule ==
  ASSUME NEW b \in Nat, NEW n \in Nat
  PROVE  pow(b, 0) = 1 /\ pow(b, n) \in Nat /\ pow(b, n + 1) = b * pow(b, n)
<1>1. PICK p \in [0 .. n -> Nat] : Products(p, b, n) /\ pow(b, n) = p[n] BY PowIs
<1>2. PICK q \in [0 .. n + 1 -> Nat] : Products(q, b, n + 1) /\ pow(b, n + 1) = q[n + 1]
  <2>1. n + 1 \in Nat OBVIOUS
  <2> QED BY <2>1, PowIs
<1>3. PICK z \in [0 .. 0 -> Nat] : Products(z, b, 0) /\ pow(b, 0) = z[0] BY PowIs
<1>4. \A k \in 0 .. n : p[k] = IF k = 0 THEN 1 ELSE b * p[k - 1] BY <1>1 DEF Products
<1>5. \A k \in 0 .. n + 1 : q[k] = IF k = 0 THEN 1 ELSE b * q[k - 1] BY <1>2 DEF Products
<1>6. \A k \in 0 .. 0 : z[k] = IF k = 0 THEN 1 ELSE b * z[k - 1] BY <1>3 DEF Products
<1> DEFINE S == {k \in 0 .. n : p[k] = q[k]}
<1>7. 0 \in S BY <1>4, <1>5
<1>8. \A k \in 0 .. n - 1 : k \in S => k + 1 \in S
  <2> SUFFICES ASSUME NEW k \in 0 .. n - 1, k \in S PROVE k + 1 \in S OBVIOUS
  <2>1. k + 1 \in 0 .. n /\ k + 1 \in 0 .. n + 1 /\ k + 1 # 0 /\ (k + 1) - 1 = k OBVIOUS
  <2>2. p[k + 1] = b * p[k] BY <2>1, <1>4
  <2>3. q[k + 1] = b * q[k] BY <2>1, <1>5
  <2> QED BY <2>1, <2>2, <2>3
<1> HIDE DEF S
<1>9. 0 .. n \subseteq S BY <1>7, <1>8, InductTo
<1>10. p[n] = q[n] BY <1>9 DEF S
<1>11. q[n + 1] = b * q[n]
  <2>1. n + 1 \in 0 .. n + 1 /\ n + 1 # 0 /\ (n + 1) - 1 = n OBVIOUS
  <2> QED BY <2>1, <1>5
<1>12. pow(b, 0) = 1 BY <1>3, <1>6
<1>13. pow(b, n) \in Nat
  <2>1. n \in 0 .. n OBVIOUS
  <2> QED BY <1>1, <2>1
<1>14. pow(b, n + 1) = b * pow(b, n) BY <1>1, <1>2, <1>10, <1>11
<1> QED BY <1>12, <1>13, <1>14

\* Powers are positive.
LEMMA PowPositive ==
  ASSUME NEW b \in Nat \ {0}, NEW n \in Nat
  PROVE  pow(b, n) \in Nat \ {0}
<1> DEFINE S == {m \in Nat : pow(b, m) \in Nat \ {0}}
<1>1. 0 \in S BY PowRule
<1>2. \A m \in Nat : m \in S => m + 1 \in S
  <2> SUFFICES ASSUME NEW m \in Nat, m \in S PROVE m + 1 \in S OBVIOUS
  <2>1. pow(b, m + 1) = b * pow(b, m) BY PowRule
  <2> QED BY <2>1
<1> HIDE DEF S
<1>3. Nat \subseteq S BY <1>1, <1>2, Induct
<1> QED BY <1>3 DEF S

\* The power of a sum.
LEMMA PowSum ==
  ASSUME NEW b \in Nat, NEW m \in Nat, NEW n \in Nat
  PROVE  pow(b, m + n) = pow(b, m) * pow(b, n)
<1> DEFINE S == {k \in Nat : pow(b, m + k) = pow(b, m) * pow(b, k)}
<1>1. 0 \in S BY PowRule
<1>2. \A k \in Nat : k \in S => k + 1 \in S
  <2> SUFFICES ASSUME NEW k \in Nat, k \in S PROVE k + 1 \in S OBVIOUS
  <2>1. pow(b, k + 1) = b * pow(b, k) BY PowRule
  <2>2. m + k \in Nat /\ m + (k + 1) = (m + k) + 1 OBVIOUS
  <2>3. pow(b, m + (k + 1)) = b * pow(b, m + k) BY <2>2, PowRule
  <2>4. pow(b, m) \in Nat /\ pow(b, k) \in Nat BY PowRule
  <2>5. b * (pow(b, m) * pow(b, k)) = pow(b, m) * (b * pow(b, k)) BY <2>4
  <2> QED BY <2>1, <2>3, <2>5
<1> HIDE DEF S
<1>3. Nat \subseteq S BY <1>1, <1>2, Induct
<1> QED BY <1>3 DEF S

\* A higher power is larger by at least a factor.
LEMMA PowGrows ==
  ASSUME NEW b \in Nat \ {0}, NEW m \in Nat, NEW n \in Nat, m < n
  PROVE  b * pow(b, m) <= pow(b, n)
<1>1. n - (m + 1) \in Nat /\ m + 1 \in Nat /\ (m + 1) + (n - (m + 1)) = n OBVIOUS
<1>2. pow(b, n) = pow(b, m + 1) * pow(b, n - (m + 1)) BY <1>1, PowSum
<1>3. pow(b, m + 1) = b * pow(b, m) BY PowRule
<1>4. pow(b, n - (m + 1)) \in Nat \ {0} /\ pow(b, m) \in Nat \ {0} BY <1>1, PowPositive
<1>5. \A x \in Nat, y \in Nat \ {0} : x <= x * y OBVIOUS
<1>6. b * pow(b, m) \in Nat BY <1>4
<1> QED BY <1>2, <1>3, <1>4, <1>5, <1>6

\* A power is larger than its exponent.
LEMMA PowExceeds ==
  ASSUME NEW b \in Nat, b > 1, NEW n \in Nat
  PROVE  n < pow(b, n)
<1> DEFINE S == {m \in Nat : m < pow(b, m)}
<1>1. 0 \in S BY PowRule
<1>2. \A m \in Nat : m \in S => m + 1 \in S
  <2> SUFFICES ASSUME NEW m \in Nat, m \in S PROVE m + 1 \in S OBVIOUS
  <2>1. pow(b, m + 1) = b * pow(b, m) /\ pow(b, m) \in Nat BY PowRule
  <2>2. \A x \in Nat : m < x => m + 1 < b * x OBVIOUS
  <2> QED BY <2>1, <2>2
<1> HIDE DEF S
<1>3. Nat \subseteq S BY <1>1, <1>2, Induct
<1> QED BY <1>3 DEF S

\* A power of a larger base is larger.
LEMMA PowOfLarger ==
  ASSUME NEW b \in Nat, NEW c \in Nat, b <= c, NEW n \in Nat
  PROVE  pow(b, n) <= pow(c, n)
<1> DEFINE S == {m \in Nat : pow(b, m) <= pow(c, m)}
<1>1. 0 \in S BY PowRule
<1>2. \A m \in Nat : m \in S => m + 1 \in S
  <2> SUFFICES ASSUME NEW m \in Nat, m \in S PROVE m + 1 \in S OBVIOUS
  <2>1. /\ pow(b, m + 1) = b * pow(b, m) /\ pow(b, m) \in Nat
        /\ pow(c, m + 1) = c * pow(c, m) /\ pow(c, m) \in Nat
    BY PowRule
  <2>2. \A x \in Nat, y \in Nat : x <= y => b * x <= c * y
    <3> SUFFICES ASSUME NEW x \in Nat, NEW y \in Nat, x <= y PROVE b * x <= c * y OBVIOUS
    <3>1. b * x <= b * y OBVIOUS
    <3>2. b * y <= c * y OBVIOUS
    <3> QED BY <3>1, <3>2
  <2> QED BY <2>1, <2>2
<1> HIDE DEF S
<1>3. Nat \subseteq S BY <1>1, <1>2, Induct
<1> QED BY <1>3 DEF S
-----------------------------------------------------------------------------
(* The number of digits                                                    *)

\* A number has c digits.
HasDigits(u, c, radix) ==
  IF c = 0 THEN u = 0 ELSE pow(radix, c - 1) <= u /\ u < pow(radix, c)

\* Every number has some number of digits.
LEMMA SomeDigits ==
  ASSUME NEW radix \in Nat, radix > 1, NEW u \in Nat
  PROVE  \E c \in Nat : HasDigits(u, c, radix)
<1> DEFINE T == {c \in Nat : u < pow(radix, c)}
<1>1. u \in T BY PowExceeds
<1>2. T \in SUBSET Nat /\ T # {} BY <1>1
<1> HIDE DEF T
<1>3. PICK c \in T : \A k \in T : c <= k BY <1>2, LeastMember
<1>4. c \in Nat /\ u < pow(radix, c) BY <1>3 DEF T
<1>5. CASE c = 0
  <2>1. u = 0 BY <1>4, <1>5, PowRule
  <2> QED BY <2>1, <1>5 DEF HasDigits
<1>6. CASE c # 0
  <2>1. c - 1 \in Nat /\ c - 1 \notin T BY <1>3, <1>4, <1>6
  <2>2. ~(u < pow(radix, c - 1)) /\ pow(radix, c - 1) \in Nat BY <2>1, PowRule DEF T
  <2> QED BY <2>2, <1>4, <1>6 DEF HasDigits
<1> QED BY <1>5, <1>6

\* And only one.
LEMMA OneLength ==
  ASSUME NEW radix \in Nat, radix > 1, NEW u \in Nat, NEW c \in Nat, NEW e \in Nat,
         HasDigits(u, c, radix), HasDigits(u, e, radix)
  PROVE  c = e
<1>1. ASSUME NEW x \in Nat, NEW y \in Nat, HasDigits(u, x, radix),
             HasDigits(u, y, radix), x < y
      PROVE  FALSE
  <2>1. y # 0 /\ y - 1 \in Nat /\ pow(radix, y - 1) <= u BY <1>1 DEF HasDigits
  <2>2. pow(radix, x) \in Nat \ {0} /\ pow(radix, y - 1) \in Nat \ {0}
    BY <2>1, PowPositive
  <2>3. pow(radix, x) <= pow(radix, y - 1)
    <3>1. CASE x = y - 1 BY <3>1, <2>2
    <3>2. CASE x # y - 1
      <4>1. x < y - 1 BY <1>1, <3>2
      <4>2. radix * pow(radix, x) <= pow(radix, y - 1) BY <4>1, <2>1, PowGrows
      <4>3. \A a \in Nat : a <= radix * a OBVIOUS
      <4>4. pow(radix, x) <= radix * pow(radix, x) BY <4>3, <2>2
      <4> QED BY <4>2, <4>4, <2>2
    <3> QED BY <3>1, <3>2
  <2>4. CASE x = 0
    <3>1. u = 0 BY <1>1, <2>4 DEF HasDigits
    <3> QED BY <3>1, <2>1, <2>2
  <2>5. CASE x # 0
    <3>1. u < pow(radix, x) BY <1>1, <2>5 DEF HasDigits
    <3> QED BY <3>1, <2>1, <2>2, <2>3
  <2> QED BY <2>4, <2>5
<1>2. ~(c < e) BY <1>1
<1>3. ~(e < c) BY <1>1
<1> QED BY <1>2, <1>3

\* A quotient has one digit less.
LEMMA OneDigitMore ==
  ASSUME NEW radix \in Nat, radix > 1, NEW u \in Nat, u # 0, NEW c \in Nat,
         HasDigits(u \div radix, c, radix)
  PROVE  HasDigits(u, c + 1, radix)
<1> DEFINE q == u \div radix
           s == u % radix
<1>1. u = radix * q + s /\ s \in 0 .. radix - 1 /\ q \in Nat BY Division
<1>2. HasDigits(q, c, radix) OBVIOUS
<1> HIDE DEF q, s
<1>3. pow(radix, 0) = 1 /\ pow(radix, c) \in Nat /\ pow(radix, c + 1) = radix * pow(radix, c)
  BY PowRule
<1>4. (c + 1) - 1 = c /\ c + 1 # 0 OBVIOUS
<1>5. pow(radix, c) <= u /\ u < pow(radix, c + 1)
  <2>1. CASE c = 0
    <3>1. q = 0 BY <1>2, <2>1 DEF HasDigits
    <3> QED BY <3>1, <1>1, <1>3, <2>1
  <2>2. CASE c # 0
    <3>1. pow(radix, c - 1) <= q /\ q < pow(radix, c) BY <1>2, <2>2 DEF HasDigits
    <3>2. c - 1 \in Nat /\ (c - 1) + 1 = c BY <2>2
    <3>3. pow(radix, c) = radix * pow(radix, c - 1) /\ pow(radix, c - 1) \in Nat
      BY <3>2, PowRule, ZenonT(60)
    <3>4. \A x \in Nat : x <= q => radix * x <= u BY <1>1
    <3>5. \A x \in Nat : q < x => u < radix * x
      <4> SUFFICES ASSUME NEW x \in Nat, q < x PROVE u < radix * x OBVIOUS
      <4>1. radix * (q + 1) <= radix * x BY <1>1
      <4>2. radix * (q + 1) = radix * q + radix BY <1>1
      <4> QED BY <4>1, <4>2, <1>1
    <3> QED BY <3>1, <3>3, <3>4, <3>5, <1>3
  <2> QED BY <2>1, <2>2
<1> QED BY <1>4, <1>5 DEF HasDigits

\* What the function behind digits_total says of itself.
Counts(f, radix) ==
  f = [u \in Nat |-> IF u = 0 THEN 0 ELSE 1 + f[u \div radix]]

\* There is such a function.
LEMMA SomeCount ==
  ASSUME NEW radix \in Nat, radix > 1
  PROVE  \E f : Counts(f, radix)
<1> DEFINE f == [u \in Nat |-> CHOOSE c \in Nat : HasDigits(u, c, radix)]
<1>1. ASSUME NEW u \in Nat PROVE f[u] \in Nat /\ HasDigits(u, f[u], radix)
  BY SomeDigits
<1>2. f = [u \in Nat |-> f[u]] OBVIOUS
<1> HIDE DEF f
<1>3. ASSUME NEW u \in Nat PROVE f[u] = IF u = 0 THEN 0 ELSE 1 + f[u \div radix]
  <2>1. CASE u = 0
    <3>1. HasDigits(0, 0, radix) BY DEF HasDigits
    <3>2. f[0] \in Nat /\ HasDigits(0, f[0], radix) BY <1>1
    <3>3. f[0] = 0 BY <3>1, <3>2, OneLength
    <3> QED BY <3>3, <2>1
  <2>2. CASE u # 0
    <3>1. u \div radix \in Nat BY Division
    <3>2. f[u \div radix] \in Nat /\ HasDigits(u \div radix, f[u \div radix], radix)
      BY <3>1, <1>1
    <3>3. HasDigits(u, f[u \div radix] + 1, radix) BY <3>2, <2>2, OneDigitMore
    <3>4. f[u] = f[u \div radix] + 1 BY <3>2, <3>3, <1>1, OneLength
    <3> QED BY <3>2, <3>4, <2>2
  <2> QED BY <2>1, <2>2
<1>4. Counts(f, radix)
  <2>1. [u \in Nat |-> f[u]] = [u \in Nat |-> IF u = 0 THEN 0 ELSE 1 + f[u \div radix]]
    BY <1>3
  <2> QED BY <2>1, <1>2 DEF Counts
<1> QED BY <1>4

\* The loop that divides counts the digits.
LEMMA DigitsTotal ==
  ASSUME NEW radix \in Nat, radix > 1, NEW t \in Nat
  PROVE  digits_total(t, radix) \in Nat /\ HasDigits(t, digits_total(t, radix), radix)
<1> DEFINE f == CHOOSE g : Counts(g, radix)
<1>1. digits_total(t, radix) = f[t] BY DEF digits_total, Counts
<1>2. Counts(f, radix) BY SomeCount
<1> HIDE DEF f
<1>3. ASSUME NEW u \in Nat PROVE f[u] = IF u = 0 THEN 0 ELSE 1 + f[u \div radix]
  BY <1>2 DEF Counts
<1> DEFINE T == {u \in Nat : ~(f[u] \in Nat /\ HasDigits(u, f[u], radix))}
<1>4. T = {}
  <2> SUFFICES ASSUME T # {} PROVE FALSE OBVIOUS
  <2>1. T \in SUBSET Nat OBVIOUS
  <2> HIDE DEF T
  <2>2. PICK u \in T : \A k \in T : u <= k BY <2>1, LeastMember
  <2>3. u \in Nat /\ ~(f[u] \in Nat /\ HasDigits(u, f[u], radix)) BY <2>2 DEF T
  <2>4. u # 0
    <3>1. f[0] = 0 BY <1>3
    <3>2. HasDigits(0, 0, radix) BY DEF HasDigits
    <3> QED BY <3>1, <3>2, <2>3
  <2>5. u \div radix \in Nat /\ u \div radix < u
    <3>1. u = radix * (u \div radix) + (u % radix) /\ u % radix \in 0 .. radix - 1
          /\ u \div radix \in Nat
      BY <2>3, Division
    <3>2. \A q \in Nat : u = radix * q + (u % radix) => q < u
      <4> SUFFICES ASSUME NEW q \in Nat, u = radix * q + (u % radix), ~(q < u)
                   PROVE FALSE
        OBVIOUS
      <4>1. q > 0 /\ radix * q >= 2 * q BY <2>3, <2>4
      <4> QED BY <4>1, <2>3, <3>1
    <3> QED BY <3>1, <3>2
  <2>6. u \div radix \notin T BY <2>2, <2>3, <2>5
  <2>7. f[u \div radix] \in Nat /\ HasDigits(u \div radix, f[u \div radix], radix)
    BY <2>5, <2>6 DEF T
  <2>8. f[u] = f[u \div radix] + 1 BY <1>3, <2>3, <2>4, <2>7
  <2>9. HasDigits(u, f[u \div radix] + 1, radix) BY <2>3, <2>4, <2>7, OneDigitMore
  <2> QED BY <2>3, <2>7, <2>8, <2>9
<1>5. f[t] \in Nat /\ HasDigits(t, f[t], radix) BY <1>4
<1> QED BY <1>1, <1>5

\* It is the only number of digits.
LEMMA DigitsTotalIs ==
  ASSUME NEW radix \in Nat, radix > 1, NEW t \in Nat, NEW c \in Nat,
         HasDigits(t, c, radix)
  PROVE  digits_total(t, radix) = c
BY DigitsTotal, OneLength
-----------------------------------------------------------------------------
(* The text of a number                                                    *)

Alphabet(radix) == {MINUS} \cup 0 .. radix - 1

\* The first digits of a number are digits.
LEMMA LeadingSeq ==
  ASSUME NEW radix \in Nat, radix > 1, NEW v \in Nat, NEW d \in Nat, NEW k \in 0 .. d
  PROVE  /\ leading(v, d, k, radix) \in Seq(Alphabet(radix))
         /\ Len(leading(v, d, k, radix)) = k
         /\ \A j \in 1 .. k : leading(v, d, k, radix)[j] = (v \div pow(radix, d - j)) % radix
<1> DEFINE t == leading(v, d, k, radix)
<1>1. ASSUME NEW j \in 1 .. k
      PROVE  (v \div pow(radix, d - j)) % radix \in Alphabet(radix)
  <2>1. d - j \in Nat OBVIOUS
  <2>2. pow(radix, d - j) \in Nat \ {0} BY <2>1, PowPositive
  <2>3. v \div pow(radix, d - j) \in Nat BY <2>2, Division
  <2>4. (v \div pow(radix, d - j)) % radix \in 0 .. radix - 1 BY <2>3, Division
  <2> QED BY <2>4 DEF Alphabet
<1>2. t \in [1 .. k -> Alphabet(radix)] BY <1>1 DEF leading
<1>3. \A j \in 1 .. k : t[j] = (v \div pow(radix, d - j)) % radix BY DEF leading
<1>4. k \in Nat OBVIOUS
<1> HIDE DEF t
<1>5. t \in Seq(Alphabet(radix)) /\ Len(t) = k BY <1>2, <1>4
<1> QED BY <1>3, <1>5 DEF t

\* The digits of a number are its first ones and those of the rest.
LEMMA LeadingJoin ==
  ASSUME NEW radix \in Nat, radix > 1, NEW v \in Nat, NEW d \in Nat, NEW k \in 0 .. d
  PROVE  leading(v, d, k, radix)
           \o leading(v % pow(radix, d - k), d - k, d - k, radix)
         = leading(v, d, d, radix)
<1> DEFINE m == d - k
           s == v % pow(radix, m)
           front == leading(v, d, k, radix)
           rest == leading(s, m, m, radix)
           all == leading(v, d, d, radix)
<1>1. m \in Nat /\ k \in Nat /\ k + m = d OBVIOUS
<1>2. pow(radix, m) \in Nat \ {0} BY <1>1, PowPositive
<1>3. s \in Nat BY <1>2, Division
<1> HIDE DEF s
<1>4. /\ front \in Seq(Alphabet(radix)) /\ Len(front) = k
      /\ \A j \in 1 .. k : front[j] = (v \div pow(radix, d - j)) % radix
  BY LeadingSeq
<1>5. /\ rest \in Seq(Alphabet(radix)) /\ Len(rest) = m
      /\ \A j \in 1 .. m : rest[j] = (s \div pow(radix, m - j)) % radix
  <2>1. m \in 0 .. m BY <1>1
  <2> HIDE DEF m
  <2> QED BY <2>1, <1>1, <1>3, LeadingSeq
<1>6. /\ all \in Seq(Alphabet(radix)) /\ Len(all) = d
      /\ \A j \in 1 .. d : all[j] = (v \div pow(radix, d - j)) % radix
  BY LeadingSeq
<1> HIDE DEF front, rest, all
<1>7. /\ front \o rest \in Seq(Alphabet(radix)) /\ Len(front \o rest) = d
      /\ \A j \in 1 .. d : (front \o rest)[j] = IF j <= k THEN front[j] ELSE rest[j - k]
  <2> HIDE DEF m
  <2>1. /\ front \o rest \in Seq(Alphabet(radix)) /\ Len(front \o rest) = k + m
        /\ \A j \in 1 .. k + m : (front \o rest)[j] = IF j <= k THEN front[j] ELSE rest[j - k]
    BY <1>4, <1>5, ConcatProperties
  <2> QED BY <2>1, <1>1
<1>8. ASSUME NEW j \in 1 .. d PROVE (front \o rest)[j] = all[j]
  <2>1. CASE j <= k BY <2>1, <1>4, <1>6, <1>7
  <2>2. CASE ~(j <= k)
    <3>1. j - k \in 1 .. m /\ m - (j - k) = d - j /\ d - j \in Nat /\ j - k \in Nat
          /\ (d - j) + (j - k) = m
      BY <2>2, <1>1
    <3> DEFINE b == pow(radix, d - j)
               c == pow(radix, j - k)
               e == pow(radix, (j - k) - 1)
    <3>2. pow(radix, m) = b * c BY <3>1, PowSum
    <3>3. c = radix * e
      <4>1. (j - k) - 1 \in Nat /\ ((j - k) - 1) + 1 = j - k BY <3>1
      <4> QED BY <4>1, PowRule
    <3>4. b \in Nat \ {0} /\ c \in Nat \ {0} /\ e \in Nat \ {0}
      <4>1. (j - k) - 1 \in Nat BY <3>1
      <4> QED BY <4>1, <3>1, PowPositive
    <3> HIDE DEF b, c, e
    <3>5. s \div b = (v \div b) % c
      <4>1. s = v % (b * c) BY <3>2 DEF s
      <4>2. b \in Nat /\ b > 0 /\ c \in Nat /\ c > 0 BY <3>4
      <4>3. (v % (b * c)) \div b = (v \div b) % c BY ONLY v \in Nat, <4>2, LowerDigits, ZenonT(60)
      <4> QED BY <4>1, <4>3
    <3>6. v \div b \in Nat BY <3>4, Division
    <3>7. ((v \div b) % c) % radix = (v \div b) % radix
      <4>1. radix \in Nat /\ radix > 0 /\ e \in Nat /\ e > 0 BY <3>4
      <4>2. \A a \in Nat : (a % (radix * e)) % radix = a % radix BY ONLY <4>1, LowerDigits
      <4> QED BY <4>2, <3>3, <3>6
    <3>8. rest[j - k] = (s \div b) % radix BY <3>1, <1>5 DEF b
    <3>9. all[j] = (v \div b) % radix BY <1>6 DEF b
    <3>10. (front \o rest)[j] = rest[j - k] BY <2>2, <1>7
    <3> QED BY <3>5, <3>7, <3>8, <3>9, <3>10
  <2> QED BY <2>1, <2>2
<1>9. front \o rest = all BY <1>6, <1>7, <1>8, SeqEqual
<1> QED BY <1>9 DEF front, rest, all, s

\* The words: all are given by the width of the encoded range.
LEMMA WordSizes ==
  /\ enc_span \in Nat /\ enc_span > 1
  /\ INT_MIN = -(4 * enc_span) /\ INT_MAX = 4 * enc_span - 1
  /\ UINT_MAX = 8 * enc_span - 1 /\ pow(2, W) = 8 * enc_span
<1>1. W - 3 \in Nat /\ W - 3 > 0 /\ W \in Nat BY WordSize
<1>2. enc_span \in Nat /\ W - 3 < enc_span BY <1>1, PowRule, PowExceeds DEF enc_span
<1>3. pow(2, (W - 3) + 1) = 2 * enc_span BY <1>1, PowRule DEF enc_span
<1>4. pow(2, ((W - 3) + 1) + 1) = 2 * pow(2, (W - 3) + 1)
  <2>1. (W - 3) + 1 \in Nat BY <1>1
  <2> QED BY <2>1, PowRule
<1>5. pow(2, (((W - 3) + 1) + 1) + 1) = 2 * pow(2, ((W - 3) + 1) + 1)
  <2>1. ((W - 3) + 1) + 1 \in Nat BY <1>1
  <2> QED BY <2>1, PowRule
<1>6. ((W - 3) + 1) + 1 = W - 1 /\ (((W - 3) + 1) + 1) + 1 = W BY <1>1
<1>7. pow(2, W - 1) = 4 * enc_span /\ pow(2, W) = 8 * enc_span
  BY <1>2, <1>3, <1>4, <1>5, <1>6
<1> QED BY <1>1, <1>2, <1>7 DEF INT_MIN, INT_MAX, UINT_MAX

\* The sign in front of a number.
Sign(n) == IF n < 0 THEN <<MINUS>> ELSE <<>>

\* The digits of a number, 0 included.
Places(m, radix) == IF m = 0 THEN 1 ELSE digits_total(m, radix)

\* No number of W bits has more than W digits.
LEMMA PlacesBound ==
  ASSUME NEW radix \in Nat, radix > 1, NEW m \in Nat, m < pow(2, W)
  PROVE  /\ Places(m, radix) \in 1 .. W /\ m < pow(radix, Places(m, radix))
         /\ m # 0 => HasDigits(m, Places(m, radix), radix)
<1> DEFINE d == Places(m, radix)
<1>0. W \in Nat /\ W > 3 BY WordSize
<1>1. CASE m = 0
  <2>1. d = 1 BY <1>1 DEF Places
  <2>2. pow(radix, 1) \in Nat \ {0} BY PowPositive
  <2> QED BY <2>1, <2>2, <1>0, <1>1
<1>2. CASE m # 0
  <2>1. d \in Nat /\ HasDigits(m, d, radix) BY <1>2, DigitsTotal DEF Places
  <2> HIDE DEF d
  <2>2. d # 0 /\ pow(radix, d - 1) <= m /\ m < pow(radix, d) BY <2>1, <1>2 DEF HasDigits
  <2>3. ASSUME d > W PROVE FALSE
    <3>1. d - 1 \in Nat /\ W <= d - 1 BY <2>1, <2>3, <1>0
    <3>2. pow(2, W) <= pow(radix, W) /\ pow(2, W) \in Nat /\ pow(radix, W) \in Nat
      <4>1. 2 \in Nat /\ 2 <= radix OBVIOUS
      <4>2. pow(2, W) <= pow(radix, W) BY <4>1, <1>0, PowOfLarger
      <4>3. pow(2, W) \in Nat /\ pow(radix, W) \in Nat BY <4>1, <1>0, PowRule
      <4> QED BY <4>2, <4>3
    <3>3. pow(radix, W) <= pow(radix, d - 1)
      <4>1. CASE W = d - 1 BY <4>1, <3>2
      <4>2. CASE W # d - 1
        <5>1. W < d - 1 BY <4>2, <3>1, <1>0
        <5>2. radix * pow(radix, W) <= pow(radix, d - 1) BY <5>1, <3>1, <1>0, PowGrows
        <5>3. \A a \in Nat : a <= radix * a OBVIOUS
        <5>4. pow(radix, W) <= radix * pow(radix, W) BY <5>3, <3>2
        <5>5. pow(radix, d - 1) \in Nat BY <3>1, PowRule
        <5> QED BY <5>2, <5>4, <5>5, <3>2
      <4> QED BY <4>1, <4>2
    <3>4. pow(radix, d - 1) \in Nat BY <3>1, PowRule
    <3> QED BY <3>2, <3>3, <3>4, <2>2
  <2>4. d \in 1 .. W BY <2>1, <2>2, <2>3, <1>0
  <2> QED BY <2>1, <2>2, <2>4 DEF d
<1> QED BY <1>1, <1>2

\* The text of a number: its sign and all its digits.
LEMMA TextIs ==
  ASSUME NEW radix \in Nat, radix > 1, NEW n \in Int, magnitude(n) < pow(2, W)
  PROVE  text(n, radix)
           = Sign(n) \o leading(magnitude(n), Places(magnitude(n), radix),
                                Places(magnitude(n), radix), radix)
<1> DEFINE m == magnitude(n)
           d == IF m = 0 THEN 1
                ELSE CHOOSE c \in 1 .. W : pow(radix, c - 1) <= m /\ m < pow(radix, c)
<1>1. m \in Nat BY DEF magnitude
<1>2. d = Places(m, radix)
  <2>1. CASE m = 0 BY <2>1 DEF Places
  <2>2. CASE m # 0
    <3> DEFINE e == Places(m, radix)
    <3>1. e \in 1 .. W /\ HasDigits(m, e, radix) BY <2>2, <1>1, PlacesBound
    <3>2. d = CHOOSE c \in 1 .. W : pow(radix, c - 1) <= m /\ m < pow(radix, c)
      BY <2>2
    <3> HIDE DEF e, d, m
    <3>3. pow(radix, e - 1) <= m /\ m < pow(radix, e) BY <3>1 DEF HasDigits
    <3>4. d \in 1 .. W /\ pow(radix, d - 1) <= m /\ m < pow(radix, d)
      BY <3>1, <3>2, <3>3
    <3>5. d \in Nat /\ e \in Nat /\ HasDigits(m, d, radix)
      BY <3>1, <3>4, WordSize DEF HasDigits
    <3> QED BY <3>1, <3>5, <1>1, OneLength DEF e
  <2> QED BY <2>1, <2>2
<1>3. text(n, radix) = Sign(n) \o [j \in 1 .. d |-> (m \div pow(radix, d - j)) % radix]
  BY DEF text, Sign
<1> HIDE DEF m, d
<1>4. text(n, radix) = Sign(n) \o leading(m, d, d, radix) BY <1>3 DEF leading
<1> QED BY <1>2, <1>4 DEF m
-----------------------------------------------------------------------------
(* What a word stands for                                                  *)

is_encoded(i, is_signed) ==
  IF is_signed THEN signed_is_encoded(i) ELSE unsigned_is_encoded(i)

\* The inverse of encode.
decode(i, is_signed) == IF is_signed THEN i - INT_MIN ELSE UINT_MAX - i

\* u encodes the suffix s of m digits.
Suffix(u, m, s, radix) ==
  /\ m \in Nat \ {0} /\ s \in Nat /\ s < pow(radix, m)
  /\ 2 * pow(radix, m) <= enc_span
  /\ u = pow(radix, m) + s

\* A word of the type that encodes something, if it looks as if it did.
Meaningful(i, radix, is_signed) ==
  /\ i \in IF is_signed THEN INT_MIN .. INT_MAX ELSE 0 .. UINT_MAX
  /\ is_encoded(i, is_signed) =>
       \E m \in Nat : \E s \in Nat : Suffix(decode(i, is_signed), m, s, radix)

\* The digits that u encodes.
Left(u, radix) ==
  LET m == digits_total(u, radix) - 1
  IN  leading(u - pow(radix, m), m, m, radix)

\* The characters still to come.
Stands(i, radix, is_signed) ==
  IF is_encoded(i, is_signed) THEN Left(decode(i, is_signed), radix) ELSE text(i, radix)

\* An encoded suffix is found again.
LEMMA SuffixFound ==
  ASSUME NEW radix \in Nat, radix > 1, NEW u, NEW m, NEW s, Suffix(u, m, s, radix)
  PROVE  /\ u \in 1 .. enc_span - 1 /\ digits_total(u, radix) = m + 1
         /\ u - pow(radix, m) = s /\ Left(u, radix) = leading(s, m, m, radix)
<1> DEFINE p == pow(radix, m)
<1>1. m \in Nat \ {0} /\ s \in Nat /\ s < p /\ 2 * p <= enc_span /\ u = p + s
  BY DEF Suffix
<1>2. p \in Nat \ {0} /\ pow(radix, m + 1) = radix * p BY <1>1, PowPositive, PowRule
<1>3. enc_span \in Nat BY WordSizes
<1> HIDE DEF p
<1>4. u \in 1 .. enc_span - 1 /\ u \in Nat BY <1>1, <1>2, <1>3
<1>5. p <= u /\ u < radix * p
  <2>1. 2 * p <= radix * p BY <1>2
  <2>2. radix * p \in Nat BY <1>2
  <2> QED BY <2>1, <2>2, <1>1, <1>2
<1>6. HasDigits(u, m + 1, radix)
  <2>1. (m + 1) - 1 = m /\ m + 1 # 0 BY <1>1
  <2> QED BY <2>1, <1>2, <1>5 DEF HasDigits, p
<1>7. digits_total(u, radix) = m + 1
  <2>1. m + 1 \in Nat BY <1>1
  <2> QED BY <2>1, <1>4, <1>6, DigitsTotalIs
<1>8. u - p = s BY <1>1, <1>2
<1>9. (m + 1) - 1 = m BY <1>1
<1> QED BY <1>4, <1>7, <1>8, <1>9 DEF Left, p

\* An encoding is a word of its type other than 0, is taken for one, and
\* decoded again.
LEMMA EncodeEffect ==
  ASSUME NEW u \in 1 .. enc_span - 1, NEW is_signed \in BOOLEAN
  PROVE  /\ encode(u, is_signed) # 0 /\ is_encoded(encode(u, is_signed), is_signed)
         /\ encode(u, is_signed) \in IF is_signed THEN INT_MIN .. INT_MAX ELSE 0 .. UINT_MAX
         /\ decode(encode(u, is_signed), is_signed) = u
<1>1. /\ enc_span \in Nat /\ enc_span > 1
      /\ INT_MIN = -(4 * enc_span) /\ INT_MAX = 4 * enc_span - 1
      /\ UINT_MAX = 8 * enc_span - 1
  BY WordSizes
<1>2. CASE is_signed
  BY <1>1, <1>2 DEF encode, is_encoded, decode, signed_enc, signed_is_encoded
<1>3. CASE ~is_signed
  BY <1>1, <1>3 DEF encode, is_encoded, decode, unsigned_enc, unsigned_is_encoded
<1> QED BY <1>2, <1>3

\* What is left of a text after r has been written: the whole text is what r
\* wrote and what the word in r stands for.
Continues(r, whole, size, radix, is_signed) ==
  /\ r.i # 0 /\ is_encoded(r.i, is_signed) /\ Meaningful(r.i, radix, is_signed)
  /\ Len(r.out) = size /\ r.out \in Seq(Alphabet(radix))
  /\ r.out \o Stands(r.i, radix, is_signed) = whole

\* r wrote all of it.
Finishes(r, whole, size) == r.i = 0 /\ r.out = whole /\ Len(r.out) <= size

\* emit writes all of a text or fills the buffer and encodes the rest.
LEMMA EmitEffect ==
  ASSUME NEW radix \in Nat, radix > 1, NEW is_signed \in BOOLEAN,
         NEW sign \in Seq(Alphabet(radix)), NEW v \in Nat, NEW d \in Nat,
         NEW size \in Nat,
         size < d => 2 * pow(radix, d - size) <= enc_span
  PROVE  LET r == emit(sign, v, d, size, radix, is_signed)
             whole == sign \o leading(v, d, d, radix)
         IN  IF d <= size THEN Finishes(r, whole, Len(sign) + size)
             ELSE Continues(r, whole, Len(sign) + size, radix, is_signed)
<1> DEFINE r == emit(sign, v, d, size, radix, is_signed)
           whole == sign \o leading(v, d, d, radix)
<1>1. d \in 0 .. d /\ Len(sign) \in Nat BY LenProperties
<1>2. leading(v, d, d, radix) \in Seq(Alphabet(radix)) /\ Len(leading(v, d, d, radix)) = d
  BY <1>1, LeadingSeq
<1>3. Len(whole) = Len(sign) + d BY <1>2, ConcatProperties
<1>4. CASE d <= size
  <2>1. smaller(d, size) = d BY <1>4 DEF smaller
  <2>2. r.i = 0 /\ r.out = whole BY <2>1 DEF emit
  <2> HIDE DEF whole, r
  <2>3. Len(r.out) <= Len(sign) + size BY <2>2, <1>1, <1>3, <1>4
  <2>4. Finishes(r, whole, Len(sign) + size) BY <2>2, <2>3 DEF Finishes
  <2> QED BY <2>4, <1>4 DEF whole, r
<1>5. CASE ~(d <= size)
  <2> DEFINE m == d - size
             p == pow(radix, m)
             s == v % p
             u == p + s
             front == leading(v, d, size, radix)
  <2>1. smaller(d, size) = size /\ d # size BY <1>5 DEF smaller
  <2>2. r.i = encode(u, is_signed) /\ r.out = sign \o front BY <2>1 DEF emit
  <2>3. m \in Nat \ {0} /\ size \in 0 .. d BY <1>5
  <2>4. p \in Nat \ {0} BY <2>3, PowPositive
  <2>5. s \in Nat /\ s < p BY <2>4, Division
  <2>6. 2 * p <= enc_span BY <1>5
  <2>7. front \in Seq(Alphabet(radix)) /\ Len(front) = size BY <2>3, LeadingSeq
  <2>8. front \o leading(s, m, m, radix) = leading(v, d, d, radix) BY <2>3, LeadingJoin
  <2>9. leading(s, m, m, radix) \in Seq(Alphabet(radix))
    <3>1. m \in 0 .. m /\ m \in Nat BY <2>3
    <3> HIDE DEF m, s
    <3> QED BY <3>1, <2>5, LeadingSeq
  <2> HIDE DEF r, s, u, front
  <2>10. Suffix(u, m, s, radix) BY <2>3, <2>4, <2>5, <2>6 DEF Suffix, u
  <2> HIDE DEF m, p
  <2>11. u \in 1 .. enc_span - 1 /\ Left(u, radix) = leading(s, m, m, radix)
    BY <2>10, SuffixFound
  <2>12. /\ r.i # 0 /\ is_encoded(r.i, is_signed) /\ decode(r.i, is_signed) = u
         /\ r.i \in IF is_signed THEN INT_MIN .. INT_MAX ELSE 0 .. UINT_MAX
    BY <2>2, <2>11, EncodeEffect
  <2>13. Meaningful(r.i, radix, is_signed)
    <3>1. m \in Nat /\ s \in Nat BY <2>3, <2>5
    <3> QED BY <3>1, <2>10, <2>12 DEF Meaningful
  <2>14. r.out \in Seq(Alphabet(radix)) /\ Len(r.out) = Len(sign) + size
    BY <2>2, <2>7, ConcatProperties
  <2>15. r.out \o Stands(r.i, radix, is_signed) = whole
    <3>1. Stands(r.i, radix, is_signed) = leading(s, m, m, radix)
      BY <2>11, <2>12 DEF Stands
    <3>2. (sign \o front) \o leading(s, m, m, radix)
            = sign \o (front \o leading(s, m, m, radix))
      BY <2>7, <2>9, ConcatAssociative, SMTT(40)
    <3> QED BY <3>1, <3>2, <2>2, <2>8
  <2>16. Continues(r, whole, Len(sign) + size, radix, is_signed)
    BY <2>12, <2>13, <2>14, <2>15 DEF Continues
  <2> QED BY <2>16, <1>5 DEF r
<1> QED BY <1>4, <1>5
-----------------------------------------------------------------------------
(* The conversions                                                         *)

\* Powers grow with their exponent, numbers with their digits.
LEMMA PowMonotone ==
  ASSUME NEW b \in Nat \ {0}, NEW m \in Nat, NEW n \in Nat, m <= n
  PROVE  pow(b, m) <= pow(b, n)
<1>1. pow(b, m) \in Nat \ {0} /\ pow(b, n) \in Nat \ {0} BY PowPositive
<1>2. CASE m = n BY <1>1, <1>2
<1>3. CASE m # n
  <2>1. b * pow(b, m) <= pow(b, n) BY <1>3, PowGrows
  <2>2. \A a \in Nat : a <= b * a OBVIOUS
  <2>3. pow(b, m) <= b * pow(b, m) BY <2>2, <1>1
  <2> QED BY <2>1, <2>3, <1>1
<1> QED BY <1>2, <1>3

LEMMA DigitsMonotone ==
  ASSUME NEW radix \in Nat, radix > 1, NEW a \in Nat, NEW b \in Nat, a <= b
  PROVE  digits_total(a, radix) <= digits_total(b, radix)
<1> DEFINE x == digits_total(a, radix)
           y == digits_total(b, radix)
<1>1. x \in Nat /\ y \in Nat /\ HasDigits(a, x, radix) /\ HasDigits(b, y, radix)
  BY DigitsTotal
<1> HIDE DEF x, y
<1>2. ASSUME y < x PROVE FALSE
  <2>1. x # 0 /\ x - 1 \in Nat /\ y <= x - 1 BY <1>1, <1>2
  <2>2. pow(radix, x - 1) <= a BY <1>1, <2>1 DEF HasDigits
  <2>3. b < pow(radix, y)
    <3>1. pow(radix, y) \in Nat \ {0} BY <1>1, PowPositive
    <3> QED BY <3>1, <1>1 DEF HasDigits
  <2>4. pow(radix, y) <= pow(radix, x - 1) BY <1>1, <2>1, PowMonotone
  <2>5. pow(radix, y) \in Nat /\ pow(radix, x - 1) \in Nat BY <1>1, <2>1, PowRule
  <2> QED BY <2>2, <2>3, <2>4, <2>5
<1> QED BY <1>1, <1>2 DEF x, y

\* Some words are refused, but none that encodes something.
Refuses(r, i, is_signed) == r = nothing(i) /\ i # 0 /\ ~is_encoded(i, is_signed)

Writes(r, i, size, radix, is_signed) ==
  \/ Finishes(r, Stands(i, radix, is_signed), size)
  \/ Continues(r, Stands(i, radix, is_signed), size, radix, is_signed)

Converted(r, i, size, radix, is_signed) ==
  Writes(r, i, size, radix, is_signed) \/ Refuses(r, i, is_signed)

\* Nothing in front of a sequence.
LEMMA NothingBefore ==
  ASSUME NEW S, NEW q \in Seq(S)
  PROVE  <<>> \o q = q /\ <<>> \in Seq(S) /\ Len(<<>>) = 0
BY ConcatEmptySeq, EmptySeq

\* The digits of an encoded suffix are written next.
LEMMA ResumeEffect ==
  ASSUME NEW radix \in Nat, radix > 1, NEW is_signed \in BOOLEAN, NEW size \in Nat,
         NEW u, NEW m, NEW s, Suffix(u, m, s, radix)
  PROVE  LET r == resume(u, size, radix, is_signed)
         IN  \/ Finishes(r, Left(u, radix), size)
             \/ Continues(r, Left(u, radix), size, radix, is_signed)
<1> DEFINE e == emit(<<>>, s, m, size, radix, is_signed)
           digits == leading(s, m, m, radix)
<1>1. /\ digits_total(u, radix) = m + 1 /\ u - pow(radix, m) = s
      /\ Left(u, radix) = digits
  BY SuffixFound
<1>2. m \in Nat \ {0} /\ s \in Nat /\ 2 * pow(radix, m) <= enc_span BY DEF Suffix
<1>3. resume(u, size, radix, is_signed) = e
  <2>1. (m + 1) - 1 = m /\ ~(m < 1) BY <1>2
  <2> QED BY <2>1, <1>1 DEF resume
<1>4. size < m => 2 * pow(radix, m - size) <= enc_span
  <2> SUFFICES ASSUME size < m PROVE 2 * pow(radix, m - size) <= enc_span OBVIOUS
  <2>1. m - size \in Nat /\ m - size <= m /\ m \in Nat BY <1>2
  <2>2. pow(radix, m - size) <= pow(radix, m) BY <2>1, PowMonotone
  <2>3. pow(radix, m - size) \in Nat /\ pow(radix, m) \in Nat BY <2>1, PowRule
  <2> QED BY <2>2, <2>3, <1>2, WordSizes
<1>5. digits \in Seq(Alphabet(radix))
  <2>1. m \in 0 .. m /\ m \in Nat BY <1>2
  <2> QED BY <2>1, <1>2, LeadingSeq
<1> HIDE DEF digits
<1>6. <<>> \o digits = digits /\ <<>> \in Seq(Alphabet(radix)) /\ 0 + size = size
      /\ Len(<<>>) = 0
  BY <1>5, NothingBefore
<1>7. IF m <= size THEN Finishes(e, digits, size)
      ELSE Continues(e, digits, size, radix, is_signed)
  <2> HIDE DEF e
  <2>1. IF m <= size THEN Finishes(e, <<>> \o digits, Len(<<>>) + size)
        ELSE Continues(e, <<>> \o digits, Len(<<>>) + size, radix, is_signed)
    BY <1>2, <1>4, <1>6, EmitEffect DEF e, digits
  <2> QED BY <2>1, <1>6
<1> HIDE DEF e
<1> QED BY <1>1, <1>3, <1>7

\* A word whose digits can be left encoded is begun.
LEMMA BeginEffect ==
  ASSUME NEW radix \in Nat, radix > 1, NEW is_signed \in BOOLEAN, NEW size \in Nat,
         NEW i, i # 0, Meaningful(i, radix, is_signed), ~is_encoded(i, is_signed),
         NEW room \in Nat, room = size - Len(Sign(i)),
         NEW d, d = digits_total(magnitude(i), radix),
         room < d => 2 * pow(radix, d - room) <= enc_span
  PROVE  Writes(emit(Sign(i), magnitude(i), d, room, radix, is_signed),
                i, size, radix, is_signed)
<1> DEFINE v == magnitude(i)
           e == emit(Sign(i), v, d, room, radix, is_signed)
<1>1. v \in Nat \ {0} /\ v < pow(2, W) /\ i \in Int
  <2>1. /\ enc_span \in Nat /\ enc_span > 1
        /\ INT_MIN = -(4 * enc_span) /\ INT_MAX = 4 * enc_span - 1
        /\ UINT_MAX = 8 * enc_span - 1 /\ pow(2, W) = 8 * enc_span
    BY WordSizes
  <2> QED BY <2>1 DEF Meaningful, magnitude
<1>2. Sign(i) \in Seq(Alphabet(radix)) /\ Len(Sign(i)) + room = size
  <2>1. CASE i < 0 BY <2>1 DEF Sign, Alphabet
  <2>2. CASE ~(i < 0) BY <2>2, EmptySeq DEF Sign
  <2> QED BY <2>1, <2>2
<1>3. d = Places(v, radix) /\ d \in Nat BY <1>1, DigitsTotal DEF Places
<1>4. Stands(i, radix, is_signed) = Sign(i) \o leading(v, d, d, radix)
  BY <1>1, <1>3, TextIs DEF Stands
<1> DEFINE whole == Sign(i) \o leading(v, d, d, radix)
<1>5. IF d <= room THEN Finishes(e, whole, Len(Sign(i)) + room)
      ELSE Continues(e, whole, Len(Sign(i)) + room, radix, is_signed)
  <2> HIDE DEF v
  <2> QED BY <1>1, <1>2, <1>3, EmitEffect
<1> HIDE DEF e, whole, v
<1>6. Finishes(e, whole, size) \/ Continues(e, whole, size, radix, is_signed)
  BY <1>2, <1>5
<1> QED BY <1>4, <1>6 DEF Writes, e, whole, v

\* 0 is written at once.
LEMMA ZeroEffect ==
  ASSUME NEW radix \in Nat, radix > 1, NEW is_signed \in BOOLEAN, NEW size \in Nat \ {0}
  PROVE  Writes([i |-> 0, out |-> <<0>>], 0, size, radix, is_signed)
<1>1. /\ enc_span \in Nat /\ enc_span > 1
      /\ INT_MIN = -(4 * enc_span) /\ UINT_MAX = 8 * enc_span - 1 /\ pow(2, W) = 8 * enc_span
  BY WordSizes
<1>2. ~is_encoded(0, is_signed)
  BY <1>1 DEF is_encoded, signed_is_encoded, unsigned_is_encoded
<1>3. magnitude(0) = 0 /\ Sign(0) = <<>> /\ Places(0, radix) = 1
  BY DEF magnitude, Sign, Places
<1>4. text(0, radix) = <<>> \o leading(0, 1, 1, radix)
  <2>1. magnitude(0) < pow(2, W) /\ 0 \in Int BY <1>1, <1>3
  <2>2. text(0, radix)
          = Sign(0) \o leading(magnitude(0), Places(magnitude(0), radix),
                               Places(magnitude(0), radix), radix)
    BY ONLY <2>1, TextIs, radix \in Nat, radix > 1
  <2> QED BY <2>2, <1>3
<1>5. leading(0, 1, 1, radix) = <<0>>
  <2>1. 1 - 1 = 0 /\ 0 \in Nat /\ 0 < radix OBVIOUS
  <2>2. pow(radix, 0) = 1 BY PowRule
  <2>3. (0 \div 1) % radix = 0
    <3>1. 0 \div 1 = 0 OBVIOUS
    <3>2. (radix * 0 + 0) % radix = 0
      <4>1. 0 \in Nat /\ 0 < radix OBVIOUS
      <4> QED BY <4>1, DivisionIs
    <3>3. radix * 0 + 0 = 0 OBVIOUS
    <3> QED BY <3>1, <3>2, <3>3
  <2>4. 1 \in 0 .. 1 /\ 1 \in Nat OBVIOUS
  <2>5. /\ leading(0, 1, 1, radix) \in Seq(Alphabet(radix))
        /\ Len(leading(0, 1, 1, radix)) = 1
        /\ \A j \in 1 .. 1 :
             leading(0, 1, 1, radix)[j] = (0 \div pow(radix, 1 - j)) % radix
    BY <2>1, <2>4, LeadingSeq
  <2>6. leading(0, 1, 1, radix)[1] = 0 BY <2>1, <2>2, <2>3, <2>5
  <2> QED BY <2>5, <2>6
<1>6. <<>> \o <<0>> = <<0>> OBVIOUS
<1>7. Stands(0, radix, is_signed) = <<0>> BY <1>2, <1>4, <1>5, <1>6 DEF Stands
<1> QED BY <1>7 DEF Writes, Finishes
\* itoa and its relatives of other radixes: a word that looks encoded.
LEMMA DecodeEffect ==
  ASSUME NEW radix \in Nat, radix > 1, NEW is_signed \in BOOLEAN, NEW size \in Nat,
         NEW i, Meaningful(i, radix, is_signed), is_encoded(i, is_signed)
  PROVE  Writes(resume(decode(i, is_signed), size, radix, is_signed),
                i, size, radix, is_signed)
<1> DEFINE u == decode(i, is_signed)
           r == resume(u, size, radix, is_signed)
<1>1. PICK m \in Nat : \E s \in Nat : Suffix(u, m, s, radix) BY DEF Meaningful
<1>2. PICK s \in Nat : Suffix(u, m, s, radix) BY <1>1
<1> HIDE DEF u
<1>3. \/ Finishes(r, Left(u, radix), size)
      \/ Continues(r, Left(u, radix), size, radix, is_signed)
  BY <1>2, ResumeEffect
<1> HIDE DEF r
<1>4. Stands(i, radix, is_signed) = Left(u, radix) BY DEF Stands, u
<1>5. Writes(r, i, size, radix, is_signed) BY <1>3, <1>4 DEF Writes
<1> QED BY <1>5 DEF r, u

\* What a word may be refused for, apart from its length.
NoRoomForSign(i, size) == i < 0 /\ size < 2

\* A fresh signed word.
LEMMA SignedEffect ==
  ASSUME NEW radix \in Nat, radix > 1, NEW size \in Nat \ {0}, NEW max_rem \in Nat,
         NEW i, i # 0, Meaningful(i, radix, TRUE), ~is_encoded(i, TRUE),
         \A k \in Nat : k <= max_rem /\ k < digits_total(magnitude(i), radix) =>
           2 * pow(radix, k) <= enc_span
  PROVE  LET r == signed_fresh(i, size, radix, max_rem)
         IN  /\ Converted(r, i, size, radix, TRUE)
             /\ ~NoRoomForSign(i, size) /\ digits_total(magnitude(i), radix) <= max_rem =>
                  Writes(r, i, size, radix, TRUE)
<1> DEFINE room == size - Len(Sign(i))
           d == digits_total(magnitude(i), radix)
           e == emit(Sign(i), magnitude(i), d, room, radix, TRUE)
           r == signed_fresh(i, size, radix, max_rem)
<1>0. i \in Int
  <2>1. INT_MIN \in Int /\ INT_MAX \in Int BY WordSizes
  <2> QED BY <2>1 DEF Meaningful
<1>1. r = IF NoRoomForSign(i, size) \/ d > max_rem + room THEN nothing(i) ELSE e
  BY DEF signed_fresh, Sign, NoRoomForSign
<1>2. Len(Sign(i)) = IF i < 0 THEN 1 ELSE 0 BY EmptySeq DEF Sign
<1>3. d \in Nat
  <2>1. magnitude(i) \in Nat BY <1>0 DEF magnitude
  <2> QED BY <2>1, DigitsTotal
<1>4. CASE NoRoomForSign(i, size) \/ d > max_rem + room
  <2>1. r = nothing(i) BY <1>1, <1>4
  <2>2. Converted(r, i, size, radix, TRUE) BY <2>1 DEF Converted, Refuses
  <2>3. ~(~NoRoomForSign(i, size) /\ d <= max_rem)
    <3>1. NoRoomForSign(i, size) \/ room \in Nat BY <1>0, <1>2 DEF NoRoomForSign
    <3> HIDE DEF d, room
    <3> QED BY <3>1, <1>3, <1>4
  <2> HIDE DEF r
  <2> QED BY <2>2, <2>3 DEF r
<1>5. CASE ~(NoRoomForSign(i, size) \/ d > max_rem + room)
  <2>1. r = e BY <1>1, <1>5
  <2>2. room \in Nat \ {0} BY <1>0, <1>2, <1>5 DEF NoRoomForSign
  <2>3. room < d => 2 * pow(radix, d - room) <= enc_span
    <3> SUFFICES ASSUME room < d PROVE 2 * pow(radix, d - room) <= enc_span OBVIOUS
    <3>1. d - room \in Nat /\ d - room <= max_rem /\ d - room < d
      <4> HIDE DEF d, room
      <4> QED BY <2>2, <1>3, <1>5
    <3> QED BY <3>1
  <2>4. Writes(e, i, size, radix, TRUE)
    <3>1. room \in Nat /\ TRUE \in BOOLEAN /\ size \in Nat BY <2>2
    <3> HIDE DEF room, d
    <3>2. room = size - Len(Sign(i)) /\ d = digits_total(magnitude(i), radix) BY DEF room, d
    <3> QED BY <3>1, <3>2, <2>3, BeginEffect
  <2> HIDE DEF r, e
  <2> QED BY <2>1, <2>4 DEF Converted, r
<1> QED BY <1>4, <1>5

\* The magnitude of a signed word.
LEMMA MagnitudeBound ==
  ASSUME NEW i \in INT_MIN .. INT_MAX
  PROVE  magnitude(i) \in 0 .. INT_MAX + 1
<1>1. /\ enc_span \in Nat /\ INT_MIN = -(4 * enc_span) /\ INT_MAX = 4 * enc_span - 1
  BY WordSizes
<1> QED BY <1>1 DEF magnitude

\* itoa writes, and refuses only a negative number for want of a second byte.
LEMMA ItoaEffect ==
  ASSUME ItoaFits, NEW size \in Nat \ {0}, NEW i, Meaningful(i, 10, TRUE)
  PROVE  /\ Converted(itoa(i, size), i, size, 10, TRUE)
         /\ ~NoRoomForSign(i, size) => Writes(itoa(i, size), i, size, 10, TRUE)
<1>0. 10 \in Nat /\ 10 > 1 /\ TRUE \in BOOLEAN /\ size # 0 /\ size \in Nat OBVIOUS
<1>1. CASE i = 0
  <2>1. itoa(i, size) = [i |-> 0, out |-> <<0>>] BY <1>1 DEF itoa
  <2>2. Writes(itoa(i, size), i, size, 10, TRUE) BY <2>1, <1>0, <1>1, ZeroEffect
  <2> QED BY <2>2 DEF Converted
<1>2. CASE i # 0 /\ is_encoded(i, TRUE)
  <2>1. itoa(i, size) = resume(decode(i, TRUE), size, 10, TRUE)
    BY <1>2 DEF itoa, is_encoded, decode
  <2>2. Writes(itoa(i, size), i, size, 10, TRUE) BY <2>1, <1>0, <1>2, DecodeEffect
  <2> QED BY <2>2 DEF Converted
<1>3. CASE i # 0 /\ ~is_encoded(i, TRUE)
  <2> DEFINE d == digits_total(magnitude(i), 10)
             longest == digits_total(INT_MAX + 1, 10)
  <2>1. itoa(i, size) = signed_fresh(i, size, 10, W) BY <1>3 DEF itoa, is_encoded
  <2>2. i \in INT_MIN .. INT_MAX BY DEF Meaningful
  <2>3. /\ enc_span \in Nat /\ enc_span > 1 /\ INT_MAX = 4 * enc_span - 1
        /\ pow(2, W) = 8 * enc_span
    BY WordSizes
  <2>4. magnitude(i) \in Nat /\ INT_MAX + 1 \in Nat /\ magnitude(i) <= INT_MAX + 1
    BY <2>2, <2>3, MagnitudeBound
  <2>5. d <= longest /\ d \in Nat /\ longest \in Nat
    BY <1>0, <2>4, DigitsMonotone, DigitsTotal
  <2>6. ASSUME NEW k \in Nat, k < d PROVE 2 * pow(10, k) <= enc_span
    <3>1. longest - 1 \in Nat /\ k <= longest - 1
      <4> HIDE DEF d, longest
      <4> QED BY <2>5, <2>6
    <3>2. pow(10, k) <= pow(10, longest - 1) /\ pow(10, k) \in Nat
          /\ pow(10, longest - 1) \in Nat
      <4> HIDE DEF d, longest
      <4>1. 10 \in Nat \ {0} OBVIOUS
      <4>2. pow(10, k) <= pow(10, longest - 1) BY <4>1, <3>1, PowMonotone
      <4>3. pow(10, k) \in Nat /\ pow(10, longest - 1) \in Nat BY <3>1, <1>0, PowRule
      <4> QED BY <4>2, <4>3
    <3>3. 2 * pow(10, longest - 1) <= enc_span BY DEF ItoaFits
    <3> HIDE DEF longest
    <3> QED BY <3>2, <3>3, <2>3
  <2>7. d <= W
    <3>1. magnitude(i) # 0 /\ magnitude(i) < pow(2, W)
      <4>1. i \in Int BY <2>2, <2>3
      <4> QED BY <4>1, <1>3, <2>3, <2>4 DEF magnitude
    <3>2. Places(magnitude(i), 10) \in 1 .. W BY <3>1, <2>4, <1>0, PlacesBound
    <3>3. Places(magnitude(i), 10) = d BY <3>1 DEF Places
    <3> QED BY <3>2, <3>3
  <2>8. W \in Nat BY WordSize
  <2> HIDE DEF d, longest
  <2>9. \A k \in Nat : k <= W /\ k < digits_total(magnitude(i), 10) =>
          2 * pow(10, k) <= enc_span
    BY <2>6 DEF d
  <2> QED BY <2>1, <2>7, <2>8, <2>9, <1>0, <1>3, SignedEffect DEF d
<1> QED BY <1>1, <1>2, <1>3

\* There is a most digits that an encoding has room for.
LEMMA MaxRem ==
  ASSUME NEW radix \in Nat, radix > 1
  PROVE  /\ max_rem_digits(radix) \in Nat
         /\ \A k \in Nat : k <= max_rem_digits(radix) => 2 * pow(radix, k) <= enc_span
<1>0. enc_span \in Nat /\ enc_span > 1 /\ pow(2, W) = 8 * enc_span /\ W \in Nat
  BY WordSizes, WordSize
<1> DEFINE T == {m \in Nat : enc_span < 2 * pow(radix, m + 1)}
<1>1. enc_span \in T
  <2>1. enc_span + 1 \in Nat BY <1>0
  <2>2. enc_span + 1 < pow(radix, enc_span + 1) /\ pow(radix, enc_span + 1) \in Nat
    BY <2>1, PowExceeds, PowRule
  <2> QED BY <2>2, <1>0
<1>2. T \in SUBSET Nat /\ T # {} BY <1>1
<1> HIDE DEF T
<1>3. PICK m \in T : \A k \in T : m <= k BY <1>2, LeastMember
<1>4. m \in Nat /\ enc_span < 2 * pow(radix, m + 1) BY <1>3 DEF T
<1>5. 2 * pow(radix, m) <= enc_span
  <2>1. CASE m = 0 BY <2>1, <1>0, PowRule
  <2>2. CASE m # 0
    <3>1. m - 1 \in Nat /\ m - 1 \notin T /\ (m - 1) + 1 = m BY <1>3, <1>4, <2>2
    <3>2. ~(enc_span < 2 * pow(radix, m)) BY <3>1 DEF T
    <3>3. pow(radix, m) \in Nat BY <1>4, PowRule
    <3> QED BY <3>2, <3>3, <1>0
  <2> QED BY <2>1, <2>2
<1>6. m \in 0 .. W
  <2>1. ASSUME W < m PROVE FALSE
    <3>1. 2 \in Nat \ {0} /\ 2 \in Nat /\ 2 <= radix OBVIOUS
    <3>2. W <= m BY <2>1, <1>0, <1>4
    <3>3. pow(2, W) <= pow(2, m) BY <3>1, <3>2, <1>0, <1>4, PowMonotone
    <3>4. pow(2, m) <= pow(radix, m) BY <3>1, <1>4, PowOfLarger
    <3>5. pow(2, m) \in Nat /\ pow(radix, m) \in Nat BY <3>1, <1>4, PowRule
    <3> QED BY <3>3, <3>4, <3>5, <1>0, <1>5
  <2> QED BY <2>1, <1>0, <1>4
<1> DEFINE n == max_rem_digits(radix)
<1>7. n \in 0 .. W /\ 2 * pow(radix, n) <= enc_span
  BY <1>4, <1>5, <1>6 DEF max_rem_digits
<1> HIDE DEF n
<1>8. n \in Nat BY <1>0, <1>7
<1>9. ASSUME NEW k \in Nat, k <= n PROVE 2 * pow(radix, k) <= enc_span
  <2>1. pow(radix, k) <= pow(radix, n) BY <1>8, <1>9, PowMonotone
  <2>2. pow(radix, k) \in Nat /\ pow(radix, n) \in Nat BY <1>8, PowRule
  <2> QED BY <2>1, <2>2, <1>0, <1>7
<1> QED BY <1>8, <1>9 DEF n

\* itoab, itoao and itoax.
LEMMA SignedGenericEffect ==
  ASSUME NEW radix \in Nat, radix > 1, NEW size \in Nat \ {0},
         NEW i, Meaningful(i, radix, TRUE)
  PROVE  Converted(itoa_generic(i, size, radix, max_rem_digits(radix)), i, size, radix, TRUE)
<1> DEFINE n == max_rem_digits(radix)
           r == itoa_generic(i, size, radix, n)
<1>0. TRUE \in BOOLEAN /\ size # 0 /\ size \in Nat OBVIOUS
<1>1. n \in Nat /\ \A k \in Nat : k <= n => 2 * pow(radix, k) <= enc_span BY MaxRem
<1> HIDE DEF n
<1>2. CASE i = 0
  <2>1. r = [i |-> 0, out |-> <<0>>] BY <1>2 DEF itoa_generic
  <2>2. Writes(r, i, size, radix, TRUE) BY <2>1, <1>0, <1>2, ZeroEffect
  <2> QED BY <2>2 DEF Converted, n
<1>3. CASE i # 0 /\ is_encoded(i, TRUE)
  <2>1. r = resume(decode(i, TRUE), size, radix, TRUE)
    BY <1>3 DEF itoa_generic, is_encoded, decode
  <2>2. Writes(r, i, size, radix, TRUE) BY <2>1, <1>0, <1>3, DecodeEffect
  <2> QED BY <2>2 DEF Converted, n
<1>4. CASE i # 0 /\ ~is_encoded(i, TRUE)
  <2>1. r = signed_fresh(i, size, radix, n) BY <1>4 DEF itoa_generic, is_encoded
  <2>2. Converted(r, i, size, radix, TRUE) BY <2>1, <1>1, <1>4, SignedEffect
  <2> QED BY <2>2 DEF n
<1> QED BY <1>2, <1>3, <1>4

\* utoa, utoab, utoao and utoax.
LEMMA UnsignedEffect ==
  ASSUME NEW radix \in Nat, radix > 1, NEW size \in Nat \ {0},
         NEW i, Meaningful(i, radix, FALSE)
  PROVE  Converted(utoa_generic(i, size, radix, max_rem_digits(radix)), i, size, radix, FALSE)
<1> DEFINE n == max_rem_digits(radix)
           r == utoa_generic(i, size, radix, n)
           d == digits_total(i, radix)
<1>0. FALSE \in BOOLEAN /\ size # 0 /\ size \in Nat OBVIOUS
<1>1. n \in Nat /\ \A k \in Nat : k <= n => 2 * pow(radix, k) <= enc_span BY MaxRem
<1> HIDE DEF n
<1>2. CASE i = 0
  <2>1. r = [i |-> 0, out |-> <<0>>] BY <1>2 DEF utoa_generic
  <2>2. Writes(r, i, size, radix, FALSE) BY <2>1, <1>0, <1>2, ZeroEffect
  <2> QED BY <2>2 DEF Converted, n
<1>3. CASE i # 0 /\ is_encoded(i, FALSE)
  <2>1. r = resume(decode(i, FALSE), size, radix, FALSE)
    BY <1>3 DEF utoa_generic, is_encoded, decode
  <2>2. Writes(r, i, size, radix, FALSE) BY <2>1, <1>0, <1>3, DecodeEffect
  <2> QED BY <2>2 DEF Converted, n
<1>4. CASE i # 0 /\ ~is_encoded(i, FALSE)
  <2>1. i \in Nat /\ magnitude(i) = i /\ Sign(i) = <<>>
    <3>1. i \in 0 .. UINT_MAX /\ UINT_MAX \in Int BY WordSizes DEF Meaningful
    <3>2. i \in Nat BY <3>1
    <3> QED BY <3>2 DEF magnitude, Sign
  <2>2. d \in Nat BY <2>1, DigitsTotal
  <2>3. r = IF d > n + size THEN nothing(i) ELSE emit(<<>>, i, d, size, radix, FALSE)
    BY <1>4 DEF utoa_generic, is_encoded
  <2> HIDE DEF r
  <2>4. CASE d > n + size
    <3>1. Refuses(r, i, FALSE) BY <2>3, <2>4, <1>4 DEF Refuses
    <3> QED BY <3>1 DEF Converted, n, r
  <2>5. CASE ~(d > n + size)
    <3>1. size < d => 2 * pow(radix, d - size) <= enc_span
      <4> SUFFICES ASSUME size < d PROVE 2 * pow(radix, d - size) <= enc_span OBVIOUS
      <4>1. d - size \in Nat /\ d - size <= n
        <5> HIDE DEF d
        <5> QED BY <2>2, <2>5, <1>1
      <4> QED BY <4>1, <1>1
    <3>2. size = size - Len(Sign(i)) BY <2>1, EmptySeq
    <3>3. Writes(emit(<<>>, i, d, size, radix, FALSE), i, size, radix, FALSE)
      <4>1. d = digits_total(magnitude(i), radix) BY <2>1
      <4> HIDE DEF d
      <4>2. Writes(emit(Sign(i), magnitude(i), d, size, radix, FALSE), i, size, radix, FALSE)
        BY <1>0, <1>4, <3>1, <3>2, <4>1, BeginEffect
      <4> QED BY <4>2, <2>1
    <3> QED BY <3>3, <2>3, <2>5 DEF Converted, n, r
  <2> QED BY <2>4, <2>5
<1> QED BY <1>2, <1>3, <1>4
\* The radixes.
LEMMA Radixes ==
  /\ radix_of["itoa"] = 10 /\ "itoa" \notin Unsigned
  /\ \A f \in DOMAIN radix_of : radix_of[f] \in Nat /\ radix_of[f] > 1
<1>1. DOMAIN radix_of = {"itoa", "utoa", "itoab", "utoab", "itoao", "utoao", "itoax", "utoax"}
  BY DEF radix_of
<1>2. /\ radix_of["itoa"] = 10 /\ radix_of["utoa"] = 10
      /\ radix_of["itoab"] = 2 /\ radix_of["utoab"] = 2
      /\ radix_of["itoao"] = 8 /\ radix_of["utoao"] = 8
      /\ radix_of["itoax"] = 16 /\ radix_of["utoax"] = 16
  BY DEF radix_of
<1>3. "itoa" \notin Unsigned BY DEF Unsigned
<1> QED BY <1>1, <1>2, <1>3

\* Whatever the conversion: it writes all of a word, fills its buffer and
\* leaves the rest, or refuses a word that was not begun.
LEMMA ConvertEffect ==
  ASSUME NEW f \in DOMAIN radix_of, f = "itoa" => ItoaFits, NEW size \in Nat \ {0},
         NEW i, Meaningful(i, radix_of[f], f \notin Unsigned)
  PROVE  Converted(convert(f, i, size), i, size, radix_of[f], f \notin Unsigned)
<1>1. radix_of[f] \in Nat /\ radix_of[f] > 1 BY Radixes
<1>2. CASE f = "itoa"
  <2>1. convert(f, i, size) = itoa(i, size) /\ radix_of[f] = 10 /\ (f \notin Unsigned) = TRUE
    BY <1>2, Radixes DEF convert
  <2> QED BY <2>1, <1>2, ItoaEffect
<1>3. CASE f # "itoa" /\ f \in Unsigned
  <2>1. convert(f, i, size) = utoa_generic(i, size, radix_of[f], max_rem_digits(radix_of[f]))
    BY <1>3 DEF convert
  <2>2. (f \notin Unsigned) = FALSE BY <1>3
  <2> QED BY <2>1, <2>2, <1>1, UnsignedEffect
<1>4. CASE f # "itoa" /\ f \notin Unsigned
  <2>1. convert(f, i, size) = itoa_generic(i, size, radix_of[f], max_rem_digits(radix_of[f]))
    BY <1>4 DEF convert
  <2>2. (f \notin Unsigned) = TRUE BY <1>4
  <2> QED BY <2>1, <2>2, <1>1, SignedGenericEffect
<1> QED BY <1>2, <1>3, <1>4

\* What stands for a word is made of digits and a sign.
LEMMA StandsSeq ==
  ASSUME NEW radix \in Nat, radix > 1, NEW is_signed \in BOOLEAN,
         NEW i, Meaningful(i, radix, is_signed)
  PROVE  Stands(i, radix, is_signed) \in Seq(Alphabet(radix))
<1>1. CASE is_encoded(i, is_signed)
  <2> DEFINE u == decode(i, is_signed)
  <2>1. PICK m \in Nat : \E s \in Nat : Suffix(u, m, s, radix) BY <1>1 DEF Meaningful
  <2>2. PICK s \in Nat : Suffix(u, m, s, radix) BY <2>1
  <2> HIDE DEF u
  <2>3. Left(u, radix) = leading(s, m, m, radix) BY <2>2, SuffixFound
  <2>4. m \in 0 .. m OBVIOUS
  <2>5. leading(s, m, m, radix) \in Seq(Alphabet(radix)) BY <2>4, LeadingSeq
  <2> QED BY <2>3, <2>5, <1>1 DEF Stands, u
<1>2. CASE ~is_encoded(i, is_signed)
  <2> DEFINE v == magnitude(i)
             d == Places(v, radix)
  <2>1. v \in Nat /\ v < pow(2, W) /\ i \in Int
    <3>1. /\ enc_span \in Nat /\ enc_span > 1
          /\ INT_MIN = -(4 * enc_span) /\ INT_MAX = 4 * enc_span - 1
          /\ UINT_MAX = 8 * enc_span - 1 /\ pow(2, W) = 8 * enc_span
      BY WordSizes
    <3> QED BY <3>1 DEF Meaningful, magnitude
  <2>2. d \in 1 .. W BY <2>1, PlacesBound
  <2>3. d \in Nat /\ d \in 0 .. d BY <2>2
  <2>4. text(i, radix) = Sign(i) \o leading(v, d, d, radix) BY <2>1, TextIs
  <2>5. leading(v, d, d, radix) \in Seq(Alphabet(radix))
    <3> HIDE DEF v, d
    <3> QED BY <2>1, <2>3, LeadingSeq
  <2>6. Sign(i) \in Seq(Alphabet(radix))
    <3>1. CASE i < 0 BY <3>1 DEF Sign, Alphabet
    <3>2. CASE ~(i < 0) BY <3>2, EmptySeq DEF Sign
    <3> QED BY <3>1, <3>2
  <2> HIDE DEF v, d
  <2>7. Sign(i) \o leading(v, d, d, radix) \in Seq(Alphabet(radix))
    BY <2>5, <2>6, ConcatProperties
  <2> QED BY <2>4, <2>7, <1>2 DEF Stands
<1> QED BY <1>1, <1>2

\* There is always something to write.
LEMMA StandsSome ==
  ASSUME NEW radix \in Nat, radix > 1, NEW is_signed \in BOOLEAN,
         NEW i, Meaningful(i, radix, is_signed)
  PROVE  Stands(i, radix, is_signed) # <<>>
<1>1. CASE is_encoded(i, is_signed)
  <2> DEFINE u == decode(i, is_signed)
  <2>1. PICK m \in Nat : \E s \in Nat : Suffix(u, m, s, radix) BY <1>1 DEF Meaningful
  <2>2. PICK s \in Nat : Suffix(u, m, s, radix) BY <2>1
  <2> HIDE DEF u
  <2>3. Left(u, radix) = leading(s, m, m, radix) /\ m # 0
    BY <2>2, SuffixFound DEF Suffix
  <2>4. m \in 0 .. m OBVIOUS
  <2>5. Len(leading(s, m, m, radix)) = m BY <2>4, LeadingSeq
  <2> QED BY <2>3, <2>5, <1>1, EmptySeq DEF Stands, u
<1>2. CASE ~is_encoded(i, is_signed)
  <2> DEFINE v == magnitude(i)
             d == Places(v, radix)
  <2>1. v \in Nat /\ v < pow(2, W) /\ i \in Int
    <3>1. /\ enc_span \in Nat /\ enc_span > 1
          /\ INT_MIN = -(4 * enc_span) /\ INT_MAX = 4 * enc_span - 1
          /\ UINT_MAX = 8 * enc_span - 1 /\ pow(2, W) = 8 * enc_span
      BY WordSizes
    <3> QED BY <3>1 DEF Meaningful, magnitude
  <2>2. d \in 1 .. W BY <2>1, PlacesBound
  <2>3. d \in Nat /\ d \in 0 .. d /\ d # 0 BY <2>2
  <2>4. text(i, radix) = Sign(i) \o leading(v, d, d, radix) BY <2>1, TextIs
  <2> HIDE DEF v, d
  <2>5. leading(v, d, d, radix) \in Seq(Alphabet(radix)) /\ Len(leading(v, d, d, radix)) = d
    BY <2>1, <2>3, LeadingSeq
  <2>6. Sign(i) \in Seq(Alphabet(radix))
    <3>1. CASE i < 0 BY <3>1 DEF Sign, Alphabet
    <3>2. CASE ~(i < 0) BY <3>2, EmptySeq DEF Sign
    <3> QED BY <3>1, <3>2
  <2>7. PICK g, t : g = Sign(i) /\ t = leading(v, d, d, radix) OBVIOUS
  <2>8. Len(g \o t) = Len(g) + d /\ Len(g) \in Nat
    BY <2>5, <2>6, <2>7, ConcatProperties, LenProperties
  <2>9. g \o t # <<>> BY <2>3, <2>8, EmptySeq
  <2> QED BY <2>4, <2>7, <2>9, <1>2 DEF Stands
<1> QED BY <1>1, <1>2

-----------------------------------------------------------------------------
(* atoi                                                                    *)

\* The function behind skip.
Stops(f, s, cs) ==
  f = [j \in 1 .. Len(s) + 1 |-> IF j <= Len(s) /\ s[j] \in cs THEN f[j + 1] ELSE j]

\* From k on, e is the first position that is not to be skipped.
FirstOther(s, k, e, cs) ==
  /\ e \in k .. Len(s) + 1 /\ \A x \in k .. e - 1 : s[x] \in cs
  /\ e <= Len(s) => s[e] \notin cs

LEMMA SomeOther ==
  ASSUME NEW s, Len(s) \in Nat, NEW cs, NEW k \in 1 .. Len(s) + 1
  PROVE  \E e \in Nat : FirstOther(s, k, e, cs)
<1> DEFINE l == Len(s)
           T == {e \in Nat : k <= e /\ e <= l + 1 /\ (e <= l => s[e] \notin cs)}
<1>1. l \in Nat /\ k \in 1 .. l + 1 /\ l + 1 \in T OBVIOUS
<1>2. T \in SUBSET Nat /\ T # {} BY <1>1
<1> HIDE DEF T
<1>3. PICK e \in T : \A x \in T : e <= x BY <1>2, LeastMember
<1>4. e \in Nat /\ k <= e /\ e <= l + 1 /\ (e <= l => s[e] \notin cs) BY <1>3 DEF T
<1>5. ASSUME NEW x \in k .. e - 1 PROVE s[x] \in cs
  <2> HIDE DEF l
  <2>1. x \in Nat /\ x <= l + 1 /\ k <= x /\ ~(e <= x) BY <1>1, <1>4
  <2>2. x \notin T BY <1>3, <2>1
  <2> QED BY <2>1, <2>2 DEF T
<1>6. FirstOther(s, k, e, cs)
  <2>1. e \in k .. l + 1
    <3> HIDE DEF l
    <3> QED BY <1>1, <1>4
  <2> QED BY <2>1, <1>4, <1>5 DEF FirstOther
<1> QED BY <1>4, <1>6

LEMMA OneOther ==
  ASSUME NEW s, Len(s) \in Nat, NEW cs, NEW k \in 1 .. Len(s) + 1, NEW e, NEW x,
         FirstOther(s, k, e, cs), FirstOther(s, k, x, cs)
  PROVE  e = x
<1> DEFINE l == Len(s)
<1>1. /\ l \in Nat /\ k \in 1 .. l + 1 /\ e \in k .. l + 1 /\ x \in k .. l + 1
      /\ e <= l => s[e] \notin cs
      /\ x <= l => s[x] \notin cs
  BY DEF FirstOther
<1> HIDE DEF l
<1>2. \A y \in k .. x - 1 : s[y] \in cs BY DEF FirstOther
<1>3. \A y \in k .. e - 1 : s[y] \in cs BY DEF FirstOther
<1>4. ~(e < x)
  <2> SUFFICES ASSUME e < x PROVE FALSE OBVIOUS
  <2>1. e \in k .. x - 1 /\ e <= l BY <1>1
  <2> QED BY <2>1, <1>1, <1>2
<1>5. ~(x < e)
  <2> SUFFICES ASSUME x < e PROVE FALSE OBVIOUS
  <2>1. x \in k .. e - 1 /\ x <= l BY <1>1
  <2> QED BY <2>1, <1>1, <1>3
<1> QED BY <1>1, <1>4, <1>5

\* skip finds it.
LEMMA SkipIs ==
  ASSUME NEW s, Len(s) \in Nat, NEW cs, NEW k \in 1 .. Len(s) + 1, NEW e,
         FirstOther(s, k, e, cs)
  PROVE  skip(s, k, cs) = e
<1> DEFINE l == Len(s)
           g == CHOOSE f : Stops(f, s, cs)
           f == [j \in 1 .. l + 1 |-> CHOOSE x \in Nat : FirstOther(s, j, x, cs)]
<1>0. l \in Nat /\ k \in 1 .. l + 1 OBVIOUS
<1>1. skip(s, k, cs) = g[k] BY DEF skip, Stops
<1>2. ASSUME NEW j \in 1 .. l + 1 PROVE f[j] \in Nat /\ FirstOther(s, j, f[j], cs)
  BY SomeOther
<1>3. f = [j \in 1 .. l + 1 |-> f[j]] OBVIOUS
<1> HIDE DEF f
<1>4. ASSUME NEW j \in 1 .. l + 1
      PROVE  f[j] = IF j <= l /\ s[j] \in cs THEN f[j + 1] ELSE j
  <2>1. CASE j <= l /\ s[j] \in cs
    <3>1. j + 1 \in 1 .. l + 1 BY <2>1
    <3>2. FirstOther(s, j + 1, f[j + 1], cs) BY <3>1, <1>2
    <3>3. FirstOther(s, j, f[j + 1], cs)
      <4>1. /\ f[j + 1] \in j + 1 .. l + 1 /\ \A x \in j + 1 .. f[j + 1] - 1 : s[x] \in cs
            /\ f[j + 1] <= l => s[f[j + 1]] \notin cs
        BY <3>2 DEF FirstOther
      <4>2. f[j + 1] \in j .. l + 1 BY <4>1
      <4>3. ASSUME NEW x \in j .. f[j + 1] - 1 PROVE s[x] \in cs
        <5>1. x = j \/ x \in j + 1 .. f[j + 1] - 1 BY <4>1
        <5> QED BY <5>1, <4>1, <2>1
      <4> QED BY <4>1, <4>2, <4>3 DEF FirstOther
    <3>4. f[j] = f[j + 1] BY <3>3, <1>2, OneOther
    <3> QED BY <3>4, <2>1
  <2>2. CASE ~(j <= l /\ s[j] \in cs)
    <3>1. FirstOther(s, j, j, cs) BY <2>2 DEF FirstOther
    <3>2. f[j] = j BY <3>1, <1>2, OneOther
    <3> QED BY <3>2, <2>2
  <2> QED BY <2>1, <2>2
<1>5. Stops(f, s, cs)
  <2>1. [j \in 1 .. l + 1 |-> f[j]]
          = [j \in 1 .. l + 1 |-> IF j <= l /\ s[j] \in cs THEN f[j + 1] ELSE j]
    BY <1>4
  <2> QED BY <2>1, <1>3 DEF Stops
<1>6. Stops(g, s, cs)
  <2>1. \E x : Stops(x, s, cs) BY <1>5
  <2> HIDE DEF f
  <2> QED BY <2>1
<1> HIDE DEF g
<1>7. ASSUME NEW j \in 1 .. l + 1
      PROVE  g[j] = IF j <= l /\ s[j] \in cs THEN g[j + 1] ELSE j
  BY <1>6 DEF Stops
<1>8. /\ e \in k .. l + 1 /\ \A x \in k .. e - 1 : s[x] \in cs
      /\ e <= l => s[e] \notin cs
  BY DEF FirstOther
<1> HIDE DEF l
<1> DEFINE S == {t \in 0 .. e - k : g[e - t] = e}
<1>9. 0 \in S
  <2>1. e \in 1 .. l + 1 /\ e - 0 = e BY <1>0, <1>8
  <2>2. ~(e <= l /\ s[e] \in cs) BY <1>8
  <2> QED BY <2>1, <2>2, <1>0, <1>7, <1>8
<1>10. \A t \in 0 .. (e - k) - 1 : t \in S => t + 1 \in S
  <2> SUFFICES ASSUME NEW t \in 0 .. (e - k) - 1, t \in S PROVE t + 1 \in S OBVIOUS
  <2>1. e - (t + 1) \in k .. e - 1 /\ e - (t + 1) <= l /\ e - (t + 1) \in 1 .. l + 1
        /\ (e - (t + 1)) + 1 = e - t /\ t + 1 \in 0 .. e - k
    BY <1>0, <1>8
  <2>2. s[e - (t + 1)] \in cs BY <2>1, <1>8
  <2>3. g[e - (t + 1)] = g[e - t] BY <2>1, <2>2, <1>7
  <2> QED BY <2>1, <2>3
<1>11. e - k \in Nat /\ e - (e - k) = k BY <1>0, <1>8
<1>12. e - k \in S
  <2> HIDE DEF S
  <2>1. 0 .. e - k \subseteq S BY <1>9, <1>10, <1>11, InductTo
  <2> QED BY <2>1, <1>11
<1> QED BY <1>1, <1>11, <1>12
\* A number that fits in an int is what it is.
LEMMA AsIntIs ==
  ASSUME NEW x \in Int, -pow(2, IntW - 1) <= x, x < pow(2, IntW - 1)
  PROVE  as_int(x) = x
<1> DEFINE p == pow(2, IntW - 1)
<1>1. IntW - 1 \in Nat /\ (IntW - 1) + 1 = IntW BY WordSize
<1>2. p \in Nat \ {0} /\ pow(2, IntW) = 2 * p
  <2>1. 2 \in Nat \ {0} /\ 2 \in Nat OBVIOUS
  <2>2. p \in Nat \ {0} BY <2>1, <1>1, PowPositive
  <2>3. pow(2, (IntW - 1) + 1) = 2 * p BY <2>1, <1>1, PowRule
  <2> QED BY <2>2, <2>3, <1>1
<1>3. as_int(x) = ((x + p) % (2 * p)) - p BY <1>2 DEF as_int
<1>4. -p <= x /\ x < p OBVIOUS
<1> HIDE DEF p
<1>5. (x + p) % (2 * p) = x + p
  <2>1. x + p \in Nat /\ x + p < 2 * p /\ 2 * p \in Nat BY <1>2, <1>4
  <2>2. ((2 * p) * 0 + (x + p)) % (2 * p) = x + p
    <3>1. 0 \in Nat OBVIOUS
    <3> QED BY <3>1, <2>1, DivisionIs
  <2>3. (2 * p) * 0 + (x + p) = x + p BY <2>1
  <2> QED BY <2>2, <2>3
<1> QED BY <1>2, <1>3, <1>5

\* The function behind value.
Reads(f, s, k, e) ==
  f = [j \in k .. e |-> IF j = k THEN 0 ELSE as_int(f[j - 1] * 10 + s[j - 1])]

\* The d digits of m from k on are read as m.
LEMMA ValueIs ==
  ASSUME NEW m \in Nat, m < pow(2, IntW - 1), NEW d \in Nat, m < pow(10, d),
         NEW k \in Nat, NEW s,
         \A j \in 1 .. d : s[k + j - 1] = (m \div pow(10, d - j)) % 10
  PROVE  value(s, k, k + d) = m
<1> DEFINE e == k + d
           g == CHOOSE f : Reads(f, s, k, e)
           f == [j \in k .. e |-> m \div pow(10, e - j)]
<1>0. 10 \in Nat /\ 10 > 1 /\ 10 \in Nat \ {0} OBVIOUS
<1>1. value(s, k, e) = g[e] BY DEF value, Reads
<1>2. ASSUME NEW j \in k .. e
      PROVE  /\ e - j \in Nat /\ pow(10, e - j) \in Nat \ {0}
             /\ f[j] = m \div pow(10, e - j) /\ f[j] \in Nat
  <2>1. e - j \in Nat OBVIOUS
  <2>2. pow(10, e - j) \in Nat \ {0} BY <2>1, <1>0, PowPositive
  <2>3. m \div pow(10, e - j) \in Nat BY <2>2, Division
  <2>4. f[j] = m \div pow(10, e - j) OBVIOUS
  <2> HIDE DEF f, e
  <2> QED BY <2>1, <2>2, <2>3, <2>4
<1>3. f = [j \in k .. e |-> f[j]] OBVIOUS
<1> HIDE DEF f
<1>4. ASSUME NEW j \in k .. e
      PROVE  f[j] = IF j = k THEN 0 ELSE as_int(f[j - 1] * 10 + s[j - 1])
  <2>1. CASE j = k
    <3>1. f[j] = m \div pow(10, d) /\ pow(10, d) \in Nat \ {0}
      <4>1. e - j = d BY <2>1
      <4> QED BY <4>1, <1>2
    <3>2. (pow(10, d) * 0 + m) \div pow(10, d) = 0
      <4>1. 0 \in Nat OBVIOUS
      <4> QED BY <4>1, <3>1, DivisionIs
    <3>3. pow(10, d) * 0 + m = m BY <3>1
    <3> QED BY <3>1, <3>2, <3>3, <2>1
  <2>2. CASE j # k
    <3> DEFINE t == e - j
               b == pow(10, t)
               q == m \div b
    <3>1. /\ j - 1 \in k .. e /\ e - (j - 1) = t + 1 /\ t \in Nat
          /\ j - k \in 1 .. d /\ d - (j - k) = t /\ k + (j - k) - 1 = j - 1
      BY <2>2
    <3>2. b \in Nat \ {0} /\ pow(10, t + 1) = 10 * b
      BY <3>1, <1>0, PowPositive, PowRule
    <3>3. q \in Nat /\ f[j] = q BY <1>2
    <3>4. s[j - 1] = q % 10
      <4>1. s[k + (j - k) - 1] = (m \div pow(10, d - (j - k))) % 10 BY <3>1
      <4> QED BY <4>1, <3>1
    <3>5. f[j - 1] = m \div (b * 10)
      <4>1. f[j - 1] = m \div pow(10, e - (j - 1)) BY <3>1, <1>2
      <4>2. b * 10 = 10 * b BY <3>2
      <4> HIDE DEF b
      <4> QED BY <4>1, <4>2, <3>1, <3>2
    <3>6. m \div (b * 10) = q \div 10
      <4> HIDE DEF b
      <4> QED BY <3>2
    <3> HIDE DEF q
    <3>7. f[j - 1] * 10 + s[j - 1] = q
      <4>1. q = 10 * (q \div 10) + (q % 10) /\ q \div 10 \in Nat BY <3>3, <1>0, Division
      <4> HIDE DEF b, t
      <4> QED BY <4>1, <3>4, <3>5, <3>6
    <3>8. q <= m
      <4> HIDE DEF b, t
      <4>1. m = b * q + (m % b) /\ m % b \in 0 .. b - 1 BY <3>2, Division DEF q
      <4>2. q <= b * q BY <3>2, <3>3
      <4> QED BY <4>1, <4>2, <3>2, <3>3
    <3>9. as_int(q) = q
      <4>1. q \in Int /\ 0 <= q BY <3>3
      <4>2. pow(2, IntW - 1) \in Nat
        <5>1. IntW - 1 \in Nat /\ 2 \in Nat BY WordSize
        <5> QED BY <5>1, PowRule
      <4>3. q < pow(2, IntW - 1) /\ -pow(2, IntW - 1) <= q BY <4>1, <4>2, <3>8
      <4> QED BY <4>1, <4>3, AsIntIs
    <3> QED BY <3>3, <3>7, <3>9, <2>2
  <2> QED BY <2>1, <2>2
<1>5. Reads(f, s, k, e)
  <2>1. [j \in k .. e |-> f[j]]
          = [j \in k .. e |-> IF j = k THEN 0 ELSE as_int(f[j - 1] * 10 + s[j - 1])]
    BY <1>4
  <2> QED BY <2>1, <1>3 DEF Reads
<1>6. Reads(g, s, k, e)
  <2>1. \E x : Reads(x, s, k, e) BY <1>5
  <2> HIDE DEF f
  <2> QED BY <2>1
<1> HIDE DEF g
<1>7. ASSUME NEW j \in k .. e
      PROVE  g[j] = IF j = k THEN 0 ELSE as_int(g[j - 1] * 10 + s[j - 1])
  BY <1>6 DEF Reads
<1> DEFINE S == {x \in 0 .. d : g[k + x] = f[k + x]}
<1>8. 0 \in S
  <2>1. k \in k .. e /\ k + 0 = k OBVIOUS
  <2> QED BY <2>1, <1>4, <1>7
<1>9. \A x \in 0 .. d - 1 : x \in S => x + 1 \in S
  <2> SUFFICES ASSUME NEW x \in 0 .. d - 1, x \in S PROVE x + 1 \in S OBVIOUS
  <2>1. /\ k + (x + 1) \in k .. e /\ k + (x + 1) # k /\ (k + (x + 1)) - 1 = k + x
        /\ x + 1 \in 0 .. d
    OBVIOUS
  <2>2. g[k + (x + 1)] = as_int(g[k + x] * 10 + s[k + x]) BY <2>1, <1>7
  <2>3. f[k + (x + 1)] = as_int(f[k + x] * 10 + s[k + x]) BY <2>1, <1>4
  <2> QED BY <2>1, <2>2, <2>3
<1>10. d \in S
  <2> HIDE DEF S
  <2>1. 0 .. d \subseteq S BY <1>8, <1>9, InductTo
  <2> QED BY <2>1
<1>11. g[e] = f[e] BY <1>10
<1>12. f[e] = m
  <2>1. e \in k .. e /\ e - e = 0 OBVIOUS
  <2>2. f[e] = m \div pow(10, 0) BY <2>1, <1>2
  <2>3. pow(10, 0) = 1 BY <1>0, PowRule
  <2> QED BY <2>2, <2>3
<1> QED BY <1>1, <1>11, <1>12

\* s is q blanks, the sign of n and the d digits of its magnitude.
Spells(s, q, n, d) ==
  LET g == IF n < 0 THEN 1 ELSE 0
  IN  /\ Len(s) = q + g + d
      /\ \A j \in 1 .. q : s[j] = SPACE
      /\ n < 0 => s[q + 1] = MINUS
      /\ \A j \in 1 .. d : s[q + g + j] = (magnitude(n) \div pow(10, d - j)) % 10

\* atoi reads a number back, blanks in front of it or not.
LEMMA AtoiReads ==
  ASSUME NEW n \in Int, magnitude(n) < pow(2, IntW - 1),
         NEW q \in Nat, NEW d \in Nat \ {0}, magnitude(n) < pow(10, d),
         NEW s, Spells(s, q, n, d)
  PROVE  atoi(s) = n
<1> DEFINE m == magnitude(n)
           g == IF n < 0 THEN 1 ELSE 0
           l == Len(s)
<1>0. m \in Nat BY DEF magnitude
<1>1. /\ l = q + g + d /\ l \in Nat /\ g \in 0 .. 1
      /\ \A j \in 1 .. q : s[j] = SPACE
      /\ n < 0 => s[q + 1] = MINUS
      /\ \A j \in 1 .. d : s[q + g + j] = (m \div pow(10, d - j)) % 10
  BY DEF Spells
<1>2. ASSUME NEW j \in 1 .. d PROVE s[q + g + j] \in digit_chars
  <2>1. d - j \in Nat /\ 10 \in Nat \ {0} /\ 10 \in Nat OBVIOUS
  <2>2. pow(10, d - j) \in Nat \ {0} BY <2>1, PowPositive
  <2>3. m \div pow(10, d - j) \in Nat BY <2>2, <1>0, Division
  <2>4. (m \div pow(10, d - j)) % 10 \in 0 .. 10 - 1 BY <2>3, Division
  <2>5. s[q + g + j] = (m \div pow(10, d - j)) % 10 BY <1>1
  <2> HIDE DEF m, g
  <2> QED BY <2>4, <2>5 DEF digit_chars
<1> HIDE DEF m, l
<1>3. s[q + 1] = MINUS <=> n < 0
  <2>1. CASE n < 0 BY <2>1, <1>1
  <2>2. CASE ~(n < 0)
    <3>1. 1 \in 1 .. d /\ q + g + 1 = q + 1 BY <2>2
    <3>2. s[q + 1] \in digit_chars BY <3>1, <1>2
    <3> QED BY <3>2, <2>2 DEF digit_chars, MINUS
  <2> QED BY <2>1, <2>2
<1>4. s[q + 1] \notin blanks /\ s[q + 1] # PLUS
  <2>1. CASE n < 0 BY <2>1, <1>1 DEF blanks, SPACE, MINUS, PLUS
  <2>2. CASE ~(n < 0)
    <3>1. 1 \in 1 .. d /\ q + g + 1 = q + 1 BY <2>2
    <3>2. s[q + 1] \in digit_chars BY <3>1, <1>2
    <3> QED BY <3>2 DEF digit_chars, blanks, SPACE, PLUS
  <2> QED BY <2>1, <2>2
<1>5. skip(s, 1, blanks) = q + 1
  <2>1. FirstOther(s, 1, q + 1, blanks)
    <3>1. q + 1 \in 1 .. l + 1 BY <1>1
    <3>2. \A x \in 1 .. (q + 1) - 1 : s[x] \in blanks
      <4>1. (q + 1) - 1 = q OBVIOUS
      <4> QED BY <4>1, <1>1 DEF blanks
    <3> QED BY <3>1, <3>2, <1>4 DEF FirstOther, l
  <2>2. 1 \in 1 .. l + 1 BY <1>1
  <2> QED BY <2>1, <2>2, <1>1, SkipIs DEF l
<1> DEFINE b == q + 1 + g
<1>6. skip(s, b, digit_chars) = b + d
  <2>1. FirstOther(s, b, b + d, digit_chars)
    <3>1. b + d \in b .. l + 1 /\ ~(b + d <= l) BY <1>1
    <3>2. ASSUME NEW x \in b .. (b + d) - 1 PROVE s[x] \in digit_chars
      <4>1. x - (q + g) \in 1 .. d /\ q + g + (x - (q + g)) = x BY <1>1
      <4> QED BY <4>1, <1>2
    <3> HIDE DEF b
    <3> QED BY <3>1, <3>2 DEF FirstOther, l
  <2>2. b \in 1 .. l + 1 BY <1>1
  <2> HIDE DEF b
  <2> QED BY <2>1, <2>2, <1>1, SkipIs DEF l
<1>7. value(s, b, b + d) = m
  <2>1. \A j \in 1 .. d : s[b + j - 1] = (m \div pow(10, d - j)) % 10
    <3> SUFFICES ASSUME NEW j \in 1 .. d
                 PROVE  s[b + j - 1] = (m \div pow(10, d - j)) % 10
      OBVIOUS
    <3>1. b + j - 1 = q + g + j BY <1>1
    <3> QED BY <3>1, <1>1
  <2>2. b \in Nat BY <1>1
  <2>3. m < pow(2, IntW - 1) /\ m < pow(10, d) BY DEF m
  <2> HIDE DEF b
  <2> QED BY <2>1, <2>2, <2>3, <1>0, ValueIs
<1>8. q + 1 <= l BY <1>1
<1>9. atoi(s) = as_int((IF n < 0 THEN -1 ELSE 1) * m)
  <2>1. (IF q + 1 <= l /\ s[q + 1] = MINUS THEN -1 ELSE 1) = IF n < 0 THEN -1 ELSE 1
    BY <1>3, <1>8
  <2>2. (IF q + 1 <= l /\ s[q + 1] \in {MINUS, PLUS} THEN (q + 1) + 1 ELSE q + 1) = b
    BY <1>3, <1>4, <1>8
  <2> HIDE DEF b, g
  <2> QED BY <2>1, <2>2, <1>5, <1>6, <1>7 DEF atoi, l
<1>10. (IF n < 0 THEN -1 ELSE 1) * m = n BY DEF m, magnitude
<1>11. as_int(n) = n
  <2>1. pow(2, IntW - 1) \in Nat
    <3>1. IntW - 1 \in Nat /\ 2 \in Nat BY WordSize
    <3> QED BY <3>1, PowRule
  <2>2. -pow(2, IntW - 1) <= n /\ n < pow(2, IntW - 1) BY <2>1 DEF magnitude
  <2> QED BY <2>2, AsIntIs
<1> QED BY <1>9, <1>10, <1>11

=============================================================================
