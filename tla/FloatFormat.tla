------------------------------ MODULE FloatFormat ------------------------------
(***************************************************************************)
(* The floating point conversions of fprintf in src/stdio.c: the parts of  *)
(* a double or a long double, its exact decimal expansion by a big number  *)
(* of words, rounding, and the fields of %f, %e, %g and %a.                *)
(*                                                                         *)
(* A double is a word: a sign, ExpBits of exponent, and the rest fraction. *)
(* A long double is a word too, with an integer bit in front of a shorter  *)
(* fraction, as on x87.                                                    *)
(***************************************************************************)
EXTENDS Fields

CONSTANTS
  ExpBits,     \* bits of the exponent
  BigDigits,   \* decimal digits in a word of the big number, 9 in the code
  TwoChunk,    \* powers of two, 29, and of five, 13, that fit in such a word
  FiveChunk

FracBits == W - 1 - ExpBits

ASSUME FloatConstants ==
  /\ ExpBits \in 2 .. W - 9 /\ FracBits % 4 = 0
  /\ BigDigits \in Nat \ {0} /\ TwoChunk \in Nat \ {0} /\ FiveChunk \in Nat \ {0}

BIG_BASE == pow(10, BigDigits)

-----------------------------------------------------------------------------
(* The value and its digits                                                *)

\* The value is mantissa * 2^exp2 where it is finite.
fp_split(word, is_long_double) ==
  LET biased == (word \div pow(2, FracBits)) % pow(2, ExpBits)
      low    == word % pow(2, FracBits)
      fraction == IF is_long_double THEN low % pow(2, FracBits - 1) ELSE low
      hidden == IF ~is_long_double /\ biased # 0 THEN pow(2, FracBits) ELSE 0
  IN  [cls |-> IF biased # pow(2, ExpBits) - 1 THEN "finite"
               ELSE IF fraction = 0 THEN "inf" ELSE "nan",
       negative |-> word >= pow(2, W - 1),
       mantissa |-> low + hidden,
       exp2 |-> (IF biased = 0 THEN 1 ELSE biased) - (pow(2, ExpBits - 1) - 1)
                  - (IF is_long_double THEN FracBits - 1 ELSE FracBits),
       hex_frac_bits |-> IF is_long_double THEN FracBits - 4 ELSE FracBits]

\* The words of a number, the lowest first; none for 0.
big_words(v) ==
  LET n == digits_total(v, BIG_BASE) IN Reverse(leading(v, n, n, BIG_BASE))

fp_big_mul(big, factor) ==
  LET carry[i \in 1 .. Len(big) + 1] ==
        IF i = 1 THEN 0 ELSE (big[i - 1] * factor + carry[i - 1]) \div BIG_BASE
  IN  [i \in DOMAIN big |-> (big[i] * factor + carry[i]) % BIG_BASE]
        \o big_words(carry[Len(big) + 1])

\* big * base^k, as many factors at a time as go into a word.
big_power(big, base, k, chunk) ==
  LET times[r \in 0 .. k \div chunk] ==
        IF r = 0 THEN big ELSE fp_big_mul(times[r - 1], pow(base, chunk))
  IN  fp_big_mul(times[k \div chunk], pow(base, k % chunk))

\* The digits of a big number: the top word has no leading zeros.
big_digits(big) ==
  LET top == digits_total(Last(big), 10)
  IN  leading(Last(big), top, top, 10)
        \o FlattenSeq([i \in 1 .. Len(big) - 1 |->
                         leading(big[Len(big) - i], BigDigits, BigDigits, 10)])

strip_zeros(digits) == SubSeq(digits, 1, SelectLastInSeq(digits, LAMBDA d : d # 0))

\* The power of two that divides m.
twos(m) == CHOOSE t \in 0 .. W : m % pow(2, t) = 0 /\ m % pow(2, t + 1) # 0

\* digits[1].digits[2]digits[3]... * 10^exp10, without trailing zeros.
fp_to_decimal(mantissa, exp2) ==
  IF mantissa = 0 THEN [digits |-> <<>>, exp10 |-> 0]
  ELSE LET odd == mantissa \div pow(2, twos(mantissa))
           e   == exp2 + twos(mantissa)
           big == IF e > 0 THEN big_power(big_words(odd), 2, e, TwoChunk)
                  ELSE big_power(big_words(odd), 5, -e, FiveChunk)
           digits == big_digits(big)
       IN  [digits |-> strip_zeros(digits),
            exp10 |-> Len(digits) - 1 + (IF e < 0 THEN e ELSE 0)]

\* Mutant: ties are rounded away from zero.
fp_round_away(dec, keep) ==
  LET kept == SubSeq(dec.digits, 1, keep)
      i == SelectLastInSeq(kept, LAMBDA d : d # 9)
  IN  IF keep >= Len(dec.digits) THEN dec
      ELSE IF keep < 0 THEN [dec EXCEPT !.digits = <<>>]
      ELSE IF dec.digits[keep + 1] < 5 THEN [dec EXCEPT !.digits = strip_zeros(kept)]
      ELSE IF i = 0 THEN [digits |-> <<1>>, exp10 |-> dec.exp10 + 1]
      ELSE [dec EXCEPT !.digits = [SubSeq(kept, 1, i) EXCEPT ![i] = @ + 1]]

\* Keep this many digits, with ties to even; it may be none or fewer.
fp_round(dec, keep) ==
  LET digits == dec.digits
      kept == SubSeq(digits, 1, keep)
      next == digits[keep + 1]
      round_up == \/ next > 5
                  \/ next = 5 /\ (keep + 1 < Len(digits)
                                    \/ (keep > 0 /\ Last(kept) % 2 = 1))
      i == SelectLastInSeq(kept, LAMBDA d : d # 9)
  IN  IF keep >= Len(digits) THEN dec
      ELSE IF keep < 0 THEN [dec EXCEPT !.digits = <<>>]
      ELSE IF ~round_up THEN [dec EXCEPT !.digits = strip_zeros(kept)]
      ELSE IF i = 0 THEN [digits |-> <<1>>, exp10 |-> dec.exp10 + 1]
      ELSE [dec EXCEPT !.digits = [SubSeq(kept, 1, i) EXCEPT ![i] = @ + 1]]

\* The digit at 10^power.
fp_digit_at(dec, power) ==
  LET i == dec.exp10 - power + 1
  IN  IF i \in DOMAIN dec.digits THEN dec.digits[i] ELSE 0

larger(a, b) == IF a > b THEN a ELSE b

fp_count_digits(n) == larger(digits_total(n, 10), 1)

-----------------------------------------------------------------------------
(* The fields                                                              *)

\* Each character of s a piece of its own.
one_by_one(s) == [m \in DOMAIN s |-> <<s[m]>>]

point(c, precision) == IF precision > 0 \/ HASH \in c.flags THEN <<DOT>> ELSE <<>>

exponent(c, letter, exp, n) ==
  <<cased(c, letter), IF exp < 0 THEN MINUS ELSE PLUS>>
    \o leading(magnitude(exp), n, n, 10)

\* %f of a value already rounded to precision digits after the point.
fp_output_fixed(c, dec, precision, prefix) ==
  LET dot == point(c, precision)
      int_digits == IF dec.digits # <<>> /\ dec.exp10 > 0 THEN dec.exp10 + 1 ELSE 1
      shown == smaller(precision, larger(Len(dec.digits) - dec.exp10 - 1, 0))
      len == Len(prefix) + int_digits + Len(dot) + precision
  IN  fprintf_field_begin(c, len, prefix, 0 \in c.flags)
        \o one_by_one([m \in 1 .. int_digits |-> fp_digit_at(dec, int_digits - m)]
                        \o dot \o [m \in 1 .. shown |-> fp_digit_at(dec, -m)])
        \o <<repeat(0, precision - shown)>> \o fprintf_field_end(c, len)

\* %e of a value already rounded to precision + 1 significant digits.
fp_output_exponent(c, dec, precision, prefix) ==
  LET dot == point(c, precision)
      exp10 == IF dec.digits # <<>> THEN dec.exp10 ELSE 0
      exp_digits == larger(fp_count_digits(magnitude(exp10)), 2)
      frac == SubSeq(dec.digits, 2, smaller(Len(dec.digits), precision + 1))
      len == Len(prefix) + 1 + Len(dot) + precision + 2 + exp_digits
  IN  fprintf_field_begin(c, len, prefix, 0 \in c.flags)
        \o one_by_one(<<IF dec.digits # <<>> THEN dec.digits[1] ELSE 0>> \o dot)
        \o <<frac, repeat(0, precision - Len(frac)),
             exponent(c, CH_E, exp10, exp_digits)>>
        \o fprintf_field_end(c, len)

\* The least number of digits, of n, that shows frac < 16^n exactly.
hex_needed(frac, n) ==
  CHOOSE p \in 0 .. n : /\ frac % pow(16, n - p) = 0
                        /\ p > 0 => frac % pow(16, n - p + 1) # 0

\* lead and frac rounded to precision of n digits, still n digits long.
hex_round(parts, precision) ==
  LET n    == parts.hex_frac_bits \div 4
      unit == pow(16, n - precision)
      kept == parts.mantissa \div unit
      rest == parts.mantissa % unit
  IN  IF 2 * rest > unit \/ (2 * rest = unit /\ kept % 2 = 1)
      THEN (kept + 1) * unit ELSE kept * unit

fp_output_hex(c, parts, sign) ==
  LET n   == parts.hex_frac_bits \div 4
      rounds == c.precision >= 0 /\ c.precision < n
      v   == IF rounds THEN hex_round(parts, c.precision) ELSE parts.mantissa
      carries == rounds /\ v \div pow(16, n) > 15
      lead == IF carries THEN v \div pow(16, n + 1) ELSE v \div pow(16, n)
      frac == v % pow(16, n)
      precision == IF c.precision < 0 THEN hex_needed(frac, n) ELSE c.precision
      exp == IF parts.mantissa = 0 THEN 0
             ELSE parts.exp2 + parts.hex_frac_bits + (IF carries THEN 4 ELSE 0)
      prefix == sign \o <<0, cased(c, CH_X)>>
      dot == point(c, precision)
      exp_digits == fp_count_digits(magnitude(exp))
      len == Len(prefix) + 1 + Len(dot) + precision + 2 + exp_digits
      digits == leading(frac, n, smaller(precision, n), 16)
                  \o repeat(0, precision - smaller(precision, n))
  IN  fprintf_field_begin(c, len, prefix, 0 \in c.flags)
        \o one_by_one(<<cased(c, lead % 16)>> \o dot
                        \o [m \in DOMAIN digits |-> cased(c, digits[m])])
        \o <<exponent(c, CH_P, exp, exp_digits)>> \o fprintf_field_end(c, len)

\* %g: the exponent after rounding to precision digits decides the style, and
\* trailing zeros are dropped.
fp_output_smart(c, rounded, precision, sign) ==
  LET alt == HASH \in c.flags
      count == Len(rounded.digits)
      exp10 == IF count > 0 THEN rounded.exp10 ELSE 0
      after == IF alt THEN precision - 1 - exp10
               ELSE smaller(precision - 1 - exp10, larger(count - 1 - exp10, 0))
  IN  IF exp10 < precision /\ exp10 >= -4
      THEN fp_output_fixed(c, rounded, after, sign)
      ELSE fp_output_exponent(c, rounded,
             IF alt THEN precision - 1
             ELSE smaller(precision - 1, larger(count - 1, 0)), sign)

fprintf_output_float(c, word) ==
  LET parts == fp_split(word, c.length = "long_double")
      sign  == fprintf_sign(c, parts.negative)
      text_of == IF parts.cls = "inf" THEN <<CH_I, CH_N, CH_F>> ELSE <<CH_N, CH_A, CH_N>>
      len  == Len(sign) + 3
      dec  == fp_to_decimal(parts.mantissa, parts.exp2)
      precision == IF c.precision < 0 THEN 6 ELSE c.precision
  IN  CASE parts.cls # "finite" ->
             fprintf_field_begin(c, len, sign, FALSE)
               \o <<[m \in 1 .. 3 |-> cased(c, text_of[m])]>> \o fprintf_field_end(c, len)
        [] parts.cls = "finite" /\ c.specifier = CH_A -> fp_output_hex(c, parts, sign)
        [] parts.cls = "finite" /\ c.specifier = CH_F ->
             fp_output_fixed(c, IF dec.digits = <<>> THEN dec
                                ELSE fp_round(dec, dec.exp10 + 1 + precision),
                             precision, sign)
        [] parts.cls = "finite" /\ c.specifier = CH_E ->
             fp_output_exponent(c, fp_round(dec, precision + 1), precision, sign)
        [] OTHER -> fp_output_smart(c, fp_round(dec, larger(precision, 1)),
                                    larger(precision, 1), sign)
==============================================================================
