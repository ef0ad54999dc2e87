------------------------------ MODULE FloatMeaning ------------------------------
(***************************************************************************)
(* What %f, %e, %g and %a print, as C defines them: the value as an exact  *)
(* fraction, and the whole number of units of the last place nearest to    *)
(* it.  The fields of FloatFormat are checked against this.                *)
(***************************************************************************)
EXTENDS FloatFormat

\* The whole number nearest to a / b, the even one when two are as near.
nearest(a, b) ==
  CHOOSE n \in {a \div b, a \div b + 1} :
    LET off == magnitude(2 * (a - n * b))
    IN  off < b \/ (off = b /\ n % 2 = 0)

\* The value of a word without its sign: m * 2^e, and a fraction of two whole
\* numbers.
exact(word, is_long) ==
  LET biased == (word \div pow(2, FracBits)) % pow(2, ExpBits)
      low    == word % pow(2, FracBits)
      bias   == pow(2, ExpBits - 1) - 1
      point_at == IF is_long THEN FracBits - 1 ELSE FracBits
  IN  [m |-> IF biased = 0 \/ is_long THEN low ELSE low + pow(2, FracBits),
       e |-> (IF biased = 0 THEN 1 ELSE biased) - bias - point_at]

is_finite(word) == (word \div pow(2, FracBits)) % pow(2, ExpBits) # pow(2, ExpBits) - 1

\* An infinity has no fraction; the integer bit of a long double is not of it.
is_inf(word, is_long) ==
  word % pow(2, IF is_long THEN FracBits - 1 ELSE FracBits) = 0

\* x * 10^q, rounded to a whole number.
units(x, q) ==
  LET t == x.e + q    \* the power of two, beside that of five
  IN  IF q >= 0 THEN nearest(x.m * 5 ^ q * 2 ^ larger(t, 0), 2 ^ larger(-t, 0))
      ELSE nearest(x.m * 2 ^ larger(x.e, 0), 2 ^ larger(-x.e, 0) * 10 ^ (-q))

\* The powers of ten between which the values of a run lie.
tens == -6 .. 6

\* The power of ten of the first digit of x: 10^k <= x < 10^(k + 1).
magnitude10(x) ==
  CHOOSE k \in tens :
    LET at_least(j) ==
          IF j >= 0 THEN x.m * 2 ^ larger(x.e, 0) >= 10 ^ j * 2 ^ larger(-x.e, 0)
          ELSE x.m * 10 ^ (-j) >= 2 ^ (-x.e)
    IN  at_least(k) /\ ~at_least(k + 1)

\* n, of digits + 1 digits or more, with a point in front of the last `digits'.
with_point(n, digits, alt) ==
  LET d == larger(digits_total(n, 10), digits + 1)
      s == leading(n, d, d, 10)
      dot == IF digits > 0 \/ alt THEN <<DOT>> ELSE <<>>
  IN  SubSeq(s, 1, d - digits) \o dot \o SubSeq(s, d - digits + 1, d)

scientific(x, p) ==
  LET k == IF x.m = 0 THEN 0 ELSE magnitude10(x)
      n == IF x.m = 0 THEN 0 ELSE units(x, p - k)
  IN  IF n = 10 ^ (p + 1) THEN [n |-> 10 ^ p, k |-> k + 1] ELSE [n |-> n, k |-> k]

shown_exponent(letter, k, least) ==
  LET d == larger(digits_total(magnitude(k), 10), least)
  IN  <<letter, IF k < 0 THEN MINUS ELSE PLUS>> \o leading(magnitude(k), d, d, 10)

e_style(x, p, alt) ==
  LET s == scientific(x, p)
  IN  with_point(s.n, p, alt) \o shown_exponent(CH_E, s.k, 2)

\* The fewest digits behind the point that still show n * 10^-digits.
fewest(n, digits) ==
  CHOOSE p \in 0 .. digits :
    /\ n % 10 ^ (digits - p) = 0
    /\ p > 0 => n % 10 ^ (digits - p + 1) # 0

g_style(x, p, alt) ==
  LET s == scientific(x, p - 1)
      short == fewest(s.n, p - 1)
      digits == p - 1 - s.k
      n == units(x, digits)
  IN  IF s.k < -4 \/ s.k >= p
      THEN IF alt THEN with_point(s.n, p - 1, alt) \o shown_exponent(CH_E, s.k, 2)
           ELSE with_point(s.n \div 10 ^ (p - 1 - short), short, alt)
                  \o shown_exponent(CH_E, s.k, 2)
      ELSE IF alt THEN with_point(n, digits, alt)
           ELSE with_point(n \div 10 ^ (digits - fewest(n, digits)), fewest(n, digits), alt)

\* The digit in front of the point holds what is left of the fraction of
\* `bits' bits; one digit more than fits there raises the exponent.
a_style(x, bits, p, alt) ==
  LET n == nearest(x.m * 16 ^ p, 2 ^ bits)
      lead == n \div 16 ^ p
      frac == leading(n % 16 ^ p, p, p, 16)
      over == lead > 15
      k == IF x.m = 0 THEN 0 ELSE x.e + bits + (IF over THEN 4 ELSE 0)
  IN  <<IF over THEN lead \div 16 ELSE lead>>
        \o (IF p > 0 \/ alt THEN <<DOT>> ELSE <<>>) \o frac \o shown_exponent(CH_P, k, 1)

\* The fewest hexadecimal digits that show a fraction of `bits' bits exactly.
exact_hex(m, bits) ==
  CHOOSE p \in 0 .. bits :
    /\ (m * 16 ^ p) % 2 ^ bits = 0
    /\ p > 0 => (m * 16 ^ (p - 1)) % 2 ^ bits # 0

\* The text of a finite value, without its sign and the 0x of %a.
finite_text(c, word) ==
  LET x == exact(word, c.long_double)
      alt == HASH \in c.flags
      p == IF c.precision = -1 THEN 6 ELSE c.precision
      bits == IF c.long_double THEN FracBits - 4 ELSE FracBits
  IN  CASE c.specifier = CH_F -> with_point(units(x, p), p, alt)
        [] c.specifier = CH_E -> e_style(x, p, alt)
        [] c.specifier = CH_G -> g_style(x, larger(p, 1), alt)
        [] c.specifier = CH_A ->
             a_style(x, bits, IF c.precision = -1 THEN exact_hex(x.m, bits) ELSE c.precision, alt)

in_case(c, s) == [m \in DOMAIN s |-> cased(c, s[m])]

\* r shows the floating point argument as the conversion c asks for: zeros
\* fill the width only of finite values.
shows_float(r, word, c) ==
  LET lead == sign_of(c, word >= pow(2, W - 1))
                \o (IF c.specifier = CH_A THEN in_case(c, <<0, CH_X>>) ELSE <<>>)
      body == in_case(c, finite_text(c, word))
      zeros == larger(c.width - Len(lead) - Len(body), 0)
      special == IF is_inf(word, c.long_double) THEN <<CH_I, CH_N, CH_F>>
                 ELSE <<CH_N, CH_A, CH_N>>
  IN  IF ~is_finite(word)
      THEN in_field(r, sign_of(c, word >= pow(2, W - 1)) \o in_case(c, special), c)
      ELSE IF 0 \in c.flags /\ ~c.left THEN r = lead \o repeat(0, zeros) \o body
      ELSE in_field(r, lead \o body, c)
================================================================================
