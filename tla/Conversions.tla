----------------------------- MODULE Conversions -----------------------------
(***************************************************************************)
(* The integer conversions of src/conversions.c as functions on words of W *)
(* bits (64 in the code).  A conversion takes the word behind the caller's *)
(* pointer and the bytes left in its buffer; it returns the characters it  *)
(* writes and the word it leaves, 0 when the text is complete and else an  *)
(* encoding of the digits still to come, from which the next call resumes. *)
(*                                                                         *)
(* A character is a digit value, MINUS, PLUS or SPACE; which glyphs stand  *)
(* for the digits (upper or lower case) is left out.                       *)
(***************************************************************************)
EXTENDS Integers, Sequences

CONSTANTS
  W,      \* bits of int64_t and uint64_t
  IntW    \* bits of int, what atoi returns

ASSUME WordSize == W \in Nat /\ W > 3 /\ IntW \in 1 .. W

\* b to the power n, a product of n factors (the provers know nothing of ^).
pow(b, n) ==
  LET product[k \in 0 .. n] == IF k = 0 THEN 1 ELSE b * product[k - 1]
  IN  product[n]

INT_MIN  == -pow(2, W - 1)
INT_MAX  == pow(2, W - 1) - 1
UINT_MAX == pow(2, W) - 1

\* 1ull << 61: the width of the range that encoded words lie in.
enc_span == pow(2, W - 3)

MINUS == -1
PLUS  == -2
SPACE == -3

-----------------------------------------------------------------------------

\* Number of digits of t: the loop that divides until nothing is left.
digits_total(t, radix) ==
  LET count[u \in Nat] == IF u = 0 THEN 0 ELSE 1 + count[u \div radix]
  IN  count[t]

\* The first k of the d digits of v, most significant first.
leading(v, d, k, radix) ==
  [j \in 1 .. k |-> (v \div pow(radix, d - j)) % radix]

smaller(a, b) == IF a < b THEN a ELSE b

unsigned(x) == x % (UINT_MAX + 1)

\* What a call returns: the word left behind the pointer and the characters.
nothing(i) == [i |-> i, out |-> <<>>]

\* Mutant: the wrong direction from INT64_MIN.
signed_enc_below(x) == INT_MIN - x

signed_enc(x) == INT_MIN + x

unsigned_enc(x) == UINT_MAX - x

\* The word of the caller's type that stands for x.
encode(x, is_signed) == IF is_signed THEN signed_enc(x) ELSE unsigned_enc(x)

signed_is_encoded(i) == i > INT_MIN /\ i <= INT_MIN + enc_span

unsigned_is_encoded(i) == i >= UINT_MAX - enc_span

\* Mutant: a byte is kept for a terminating NUL.
emit_with_nul(sign, v, d, size, radix, is_signed) ==
  LET k    == smaller(d, size - 1)
      rest == pow(radix, d - k)
  IN  [i   |-> IF d = k THEN 0 ELSE encode(rest + (v % rest), is_signed),
       out |-> sign \o leading(v, d, k, radix)]

\* Write as many of the d digits of v as fit after `sign', and leave the rest
\* of them encoded.
emit(sign, v, d, size, radix, is_signed) ==
  LET k    == smaller(d, size)
      rest == pow(radix, d - k)
  IN  [i   |-> IF d = k THEN 0 ELSE encode(rest + (v % rest), is_signed),
       out |-> sign \o leading(v, d, k, radix)]

\* Mutant: the digits of the suffix alone are counted, its zeros are lost.
resume_without_zeros(u, size, radix, is_signed) ==
  LET m == digits_total(u, radix) - 1
      v == u - pow(radix, m)
  IN  IF m < 1 THEN nothing(IF u = 0 THEN unsigned(-1) ELSE v)
      ELSE emit(<<>>, v, digits_total(v, radix), size, radix, is_signed)

\* The suffix encoded in u = radix^m + suffix: m digits, of value v.
resume(u, size, radix, is_signed) ==
  LET m == digits_total(u, radix) - 1
      v == u - pow(radix, m)
  IN  IF m < 1 THEN nothing(IF u = 0 THEN unsigned(-1) ELSE v)
      ELSE emit(<<>>, v, m, size, radix, is_signed)

magnitude(i) == IF i < 0 THEN -i ELSE i

\* Mutant: refuse unless all digits fit.
signed_fresh_whole(i, size, radix, max_rem) ==
  LET sign == IF i < 0 THEN <<MINUS>> ELSE <<>>
      room == size - Len(sign)
      d    == digits_total(magnitude(i), radix)
  IN  IF (i < 0 /\ size < 2) \/ d > room THEN nothing(i)
      ELSE emit(sign, magnitude(i), d, room, radix, TRUE)

\* A fresh signed word: the sign, when two characters fit, then the digits,
\* unless more than max_rem of them would be left.
signed_fresh(i, size, radix, max_rem) ==
  LET sign == IF i < 0 THEN <<MINUS>> ELSE <<>>
      room == size - Len(sign)
      d    == digits_total(magnitude(i), radix)
  IN  IF (i < 0 /\ size < 2) \/ d > max_rem + room THEN nothing(i)
      ELSE emit(sign, magnitude(i), d, room, radix, TRUE)

\* itoa never refuses for its digits: what is left of the longest word, once its
\* first digit is written, has an encoding (18 digits have when W = 64).
ItoaFits == 2 * pow(10, digits_total(INT_MAX + 1, 10) - 1) <= enc_span

\* No word has more than W digits.
itoa(i, size) ==
  IF size = 0 THEN nothing(i)
  ELSE IF i = 0 THEN [i |-> 0, out |-> <<0>>]
  ELSE IF signed_is_encoded(i)
       THEN resume(i - INT_MIN, size, 10, TRUE)
       ELSE signed_fresh(i, size, 10, W)

itoa_generic(i, size, radix, max_rem) ==
  IF size = 0 THEN nothing(i)
  ELSE IF i = 0 THEN [i |-> 0, out |-> <<0>>]
  ELSE IF signed_is_encoded(i)
       THEN resume(i - INT_MIN, size, radix, TRUE)
       ELSE signed_fresh(i, size, radix, max_rem)

utoa_generic(i, size, radix, max_rem) ==
  LET d == digits_total(i, radix)
  IN  IF size = 0 THEN nothing(i)
      ELSE IF i = 0 THEN [i |-> 0, out |-> <<0>>]
      ELSE IF unsigned_is_encoded(i)
           THEN resume(UINT_MAX - i, size, radix, FALSE)
      ELSE IF d > max_rem + size THEN nothing(i)
      ELSE emit(<<>>, i, d, size, radix, FALSE)

-----------------------------------------------------------------------------
(* The functions a program calls.                                          *)

radix_of ==
  [itoa |-> 10, itoab |-> 2, itoao |-> 8, itoax |-> 16,
   utoa |-> 10, utoab |-> 2, utoao |-> 8, utoax |-> 16]

Unsigned == {"utoa", "utoab", "utoao", "utoax"}

\* The most digits an encoded word has room for: 18, 60, 20 and 15 for the
\* four radixes when W = 64, the numbers written in the code.
max_rem_digits(radix) ==
  CHOOSE m \in 0 .. W :
    2 * pow(radix, m) <= enc_span /\ enc_span < 2 * pow(radix, m + 1)

convert(f, word, size) ==
  LET radix == radix_of[f]
  IN  IF f = "itoa" THEN itoa(word, size)
      ELSE IF f \in Unsigned
           THEN utoa_generic(word, size, radix, max_rem_digits(radix))
           ELSE itoa_generic(word, size, radix, max_rem_digits(radix))

-----------------------------------------------------------------------------
(* atoi                                                                    *)

blanks == {SPACE}

\* Mutant: '0' is not a digit.
digit_chars_above_0 == 1 .. 9

digit_chars == 0 .. 9

\* First position from k on whose character is not one of cs.
skip(s, k, cs) ==
  LET stop[j \in 1 .. Len(s) + 1] ==
        IF j <= Len(s) /\ s[j] \in cs THEN stop[j + 1] ELSE j
  IN  stop[k]

\* x in an int.  Overflow is undefined in C: here it wraps, and no
\* property speaks of a text that overflows.
as_int(x) == ((x + pow(2, IntW - 1)) % pow(2, IntW)) - pow(2, IntW - 1)

\* The value of the digits s[k] .. s[e - 1].
value(s, k, e) ==
  LET val[j \in k .. e] ==
        IF j = k THEN 0 ELSE as_int(val[j - 1] * 10 + s[j - 1])
  IN  val[e]

atoi(s) ==
  LET a    == skip(s, 1, blanks)
      sign == IF a <= Len(s) /\ s[a] = MINUS THEN -1 ELSE 1
      b    == IF a <= Len(s) /\ s[a] \in {MINUS, PLUS} THEN a + 1 ELSE a
  IN  as_int(sign * value(s, b, skip(s, b, digit_chars)))

-----------------------------------------------------------------------------

\* The text of a number, by the definition of positional notation: what the
\* conversions are checked against.
text(n, radix) ==
  LET m == magnitude(n)
      d == IF m = 0 THEN 1
           ELSE CHOOSE c \in 1 .. W : pow(radix, c - 1) <= m /\ m < pow(radix, c)
  IN  (IF n < 0 THEN <<MINUS>> ELSE <<>>)
        \o [j \in 1 .. d |-> (m \div pow(radix, d - j)) % radix]
=============================================================================
