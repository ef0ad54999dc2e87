--------------------------- MODULE ResumableProofs ---------------------------
(***************************************************************************)
(* A caller that hands one buffer after the other to a conversion gets the *)
(* text of its number, whatever the sizes of the buffers, the radix and    *)
(* the width of a word: the characters written and what the word left      *)
(* behind still stands for are together that text.                         *)
(***************************************************************************)
EXTENDS Resumable, ConversionsProofs

Signed == fn \notin Unsigned

\* No input is one of the words that the code takes for an encoded suffix.
Genuine ==
  \A f \in Callees : \A x \in Inputs \cap Words(f) : ~is_encoded(x, f \notin Unsigned)

\* The inductive invariant.
ResumableInv ==
  /\ fn \in Callees /\ input \in Words(fn)
  /\ i \in Words(fn)
  /\ out \in Seq(Alphabet(Radix))
  /\ pc \in {"call", "done"}
  /\ pc = "call" =>
       /\ Meaningful(i, Radix, Signed)
       /\ out \o Stands(i, Radix, Signed) = text(input, Radix)
       /\ ~is_encoded(i, Signed) => out = <<>> /\ i = input
  /\ pc = "done" => i = 0 /\ out = text(input, Radix)

\* The radix of the call, and the words of its type.
LEMMA RadixOfCall ==
  ASSUME fn \in Callees
  PROVE  /\ Radix \in Nat /\ Radix > 1 /\ Signed \in BOOLEAN
         /\ fn \in DOMAIN radix_of
         /\ Words(fn) = IF Signed THEN INT_MIN .. INT_MAX ELSE 0 .. UINT_MAX
         /\ 0 \in Words(fn)
<1>1. fn \in DOMAIN radix_of BY CallerConstants
<1>2. Radix \in Nat /\ Radix > 1 BY <1>1, Radixes DEF Radix
<1>3. Words(fn) = IF Signed THEN INT_MIN .. INT_MAX ELSE 0 .. UINT_MAX
  BY DEF Words, Signed
<1>4. 0 \in Words(fn) BY <1>3, WordSizes
<1> QED BY <1>1, <1>2, <1>3, <1>4 DEF Signed

\* At the start nothing has been written of a word that stands for its text.
LEMMA ResumableStart ==
  ASSUME Genuine, Init
  PROVE  ResumableInv
<1>1. /\ fn \in Callees /\ input \in Inputs \cap Words(fn) /\ i = input
      /\ out = <<>> /\ pc = "call"
  BY DEF Init
<1>2. ~is_encoded(i, Signed) BY <1>1 DEF Genuine, Signed
<1>3. i \in IF Signed THEN INT_MIN .. INT_MAX ELSE 0 .. UINT_MAX BY <1>1, RadixOfCall
<1>4. Meaningful(i, Radix, Signed) BY <1>2, <1>3 DEF Meaningful
<1>5. Stands(i, Radix, Signed) = text(input, Radix) BY <1>1, <1>2 DEF Stands
<1>6. Stands(i, Radix, Signed) \in Seq(Alphabet(Radix))
  BY <1>1, <1>4, RadixOfCall, StandsSeq
<1>7. out \in Seq(Alphabet(Radix)) /\ out \o Stands(i, Radix, Signed) = text(input, Radix)
  BY <1>1, <1>5, <1>6, NothingBefore
<1> QED BY <1>1, <1>2, <1>4, <1>7 DEF ResumableInv

\* What a call of the conversion returns.
LEMMA ConversionOfCall ==
  ASSUME fn \in Callees, Meaningful(i, Radix, Signed), NEW size \in Sizes
  PROVE  Converted(convert(fn, i, size), i, size, Radix, Signed)
<1>1. fn \in DOMAIN radix_of /\ (fn = "itoa" => ItoaFits) /\ size \in Nat \ {0}
  BY CallerConstants
<1>2. Radix = radix_of[fn] /\ Signed = (fn \notin Unsigned) BY DEF Radix, Signed
<1> QED BY <1>1, <1>2, ConvertEffect

\* A call hands on a part of the text, all of it or none.
LEMMA CallKept ==
  ASSUME ResumableInv, NEW size \in Sizes, call(size)
  PROVE  ResumableInv'
<1>1. PICK r : r = convert(fn, i, size) OBVIOUS
<1>2. /\ pc = "call" /\ i' = r.i /\ out' = out \o r.out /\ fn' = fn /\ input' = input
      /\ pc' = IF r.i = 0 THEN "done" ELSE "call"
  BY <1>1 DEF call
<1>3. /\ fn \in Callees /\ input \in Words(fn) /\ i \in Words(fn)
      /\ out \in Seq(Alphabet(Radix))
      /\ Meaningful(i, Radix, Signed)
      /\ out \o Stands(i, Radix, Signed) = text(input, Radix)
      /\ ~is_encoded(i, Signed) => out = <<>> /\ i = input
  BY <1>2 DEF ResumableInv
<1>4. /\ Radix \in Nat /\ Radix > 1 /\ Signed \in BOOLEAN
      /\ fn \in DOMAIN radix_of
      /\ Words(fn) = IF Signed THEN INT_MIN .. INT_MAX ELSE 0 .. UINT_MAX
      /\ 0 \in Words(fn)
  BY <1>3, RadixOfCall
<1>5. Stands(i, Radix, Signed) \in Seq(Alphabet(Radix)) BY <1>3, <1>4, StandsSeq
<1>6. PICK q, w : q = Radix /\ w = Signed OBVIOUS
<1>7. Radix' = q /\ Signed' = w BY <1>2, <1>6 DEF Radix, Signed
<1>8. CASE r = nothing(i) /\ i # 0
  <2>1. i' = i /\ pc' = "call" BY <1>2, <1>8 DEF nothing
  <2>2. out' = out
    <3>1. r.out = <<>> BY <1>8 DEF nothing
    <3>2. out \o <<>> = out BY <1>3, ConcatEmptySeq
    <3> QED BY <3>1, <3>2, <1>2
  <2> QED BY <2>1, <2>2, <1>2, <1>3, <1>6, <1>7 DEF ResumableInv
<1>9. CASE Finishes(r, Stands(i, Radix, Signed), size)
  <2>1. r.i = 0 /\ r.out = Stands(i, Radix, Signed) BY <1>9 DEF Finishes
  <2>2. out' = text(input, Radix) /\ i' = 0 /\ pc' = "done" BY <2>1, <1>2, <1>3
  <2>3. out' \in Seq(Alphabet(Radix)) BY <2>1, <1>2, <1>3, <1>5, ConcatProperties
  <2> QED BY <2>2, <2>3, <1>2, <1>3, <1>4, <1>6, <1>7 DEF ResumableInv
<1>10. CASE Continues(r, Stands(i, Radix, Signed), size, Radix, Signed)
  <2>1. /\ r.i # 0 /\ is_encoded(r.i, Signed) /\ Meaningful(r.i, Radix, Signed)
        /\ r.out \in Seq(Alphabet(Radix))
        /\ r.out \o Stands(r.i, Radix, Signed) = Stands(i, Radix, Signed)
    BY <1>10 DEF Continues
  <2>2. r.i \in Words(fn) BY <2>1, <1>4 DEF Meaningful
  <2>3. Stands(r.i, Radix, Signed) \in Seq(Alphabet(Radix)) BY <2>1, <1>4, StandsSeq
  <2>4. out' \in Seq(Alphabet(Radix)) BY <2>1, <1>2, <1>3, ConcatProperties
  <2>5. out' \o Stands(r.i, Radix, Signed) = text(input, Radix)
    <3>1. PICK A, u, v : A = Alphabet(Radix) /\ u = r.out /\ v = Stands(r.i, Radix, Signed)
      OBVIOUS
    <3>2. out \in Seq(A) /\ u \in Seq(A) /\ v \in Seq(A) BY <3>1, <2>1, <2>3, <1>3
    <3>3. (out \o u) \o v = out \o (u \o v) BY ONLY <3>2, ConcatAssociative
    <3> QED BY <3>1, <3>3, <2>1, <1>2, <1>3
  <2>6. pc' = "call" /\ i' = r.i BY <2>1, <1>2
  <2> QED BY <2>1, <2>2, <2>4, <2>5, <2>6, <1>2, <1>3, <1>6, <1>7 DEF ResumableInv
<1>11. (r = nothing(i) /\ i # 0) \/ Finishes(r, Stands(i, Radix, Signed), size)
       \/ Continues(r, Stands(i, Radix, Signed), size, Radix, Signed)
  BY <1>1, <1>3, ConversionOfCall DEF Converted, Refuses, Writes
<1> QED BY <1>8, <1>9, <1>10, <1>11

\* One step: a call, or nothing.
LEMMA ResumableStep ==
  ASSUME ResumableInv, [Next]_vars
  PROVE  ResumableInv'
<1>1. CASE \E size \in Sizes : call(size) BY <1>1, CallKept
<1>2. CASE UNCHANGED vars
  <2>1. UNCHANGED <<fn, input, i, out, pc>> BY <1>2 DEF vars
  <2>2. Radix' = Radix /\ Signed' = Signed BY <2>1 DEF Radix, Signed
  <2> QED BY <2>1, <2>2 DEF ResumableInv
<1> QED BY <1>1, <1>2 DEF Next, done

\* What the words stand for keeps its meaning from call to call.
THEOREM ResumableInvariance == ASSUME Genuine PROVE Spec => []ResumableInv
<1>1. Init => ResumableInv BY ResumableStart
<1>2. ResumableInv /\ [Next]_vars => ResumableInv' BY ResumableStep
<1> QED BY <1>1, <1>2, PTL DEF Spec

\* The word behind the caller's pointer stays a word of its type, and what is
\* written are a sign and digits of the radix.
THEOREM WordsStay == ASSUME Genuine PROVE Spec => []TypeOK
<1>1. ResumableInv => TypeOK BY DEF ResumableInv, TypeOK, Alphabet
<1> QED BY <1>1, ResumableInvariance, PTL

\* A sequence is the front of any that continues it.
LEMMA FrontOf ==
  ASSUME NEW S, NEW q \in Seq(S), NEW t \in Seq(S)
  PROVE  Len(q) <= Len(q \o t) /\ q = SubSeq(q \o t, 1, Len(q))
<1>1. /\ Len(q) \in Nat /\ Len(t) \in Nat /\ q \o t \in Seq(S)
      /\ Len(q \o t) = Len(q) + Len(t)
      /\ \A k \in 1 .. Len(q) + Len(t) :
           (q \o t)[k] = IF k <= Len(q) THEN q[k] ELSE t[k - Len(q)]
  BY LenProperties, ConcatProperties
<1>2. PICK u : u = SubSeq(q \o t, 1, Len(q)) OBVIOUS
<1>3. CASE Len(q) = 0
  <2>1. q = <<>> BY <1>3, EmptySeq
  <2>2. u = <<>> BY <1>2, <1>3, SubSeqEmpty
  <2> QED BY <2>1, <2>2, <1>1, <1>2
<1>4. CASE Len(q) # 0
  <2>1. 1 \in 1 .. Len(q) /\ Len(q) \in 1 .. Len(q) BY <1>1, <1>4
  <2>2. u = SubSeq(q, 1, Len(q)) BY <2>1, <1>2, SubSeqOfConcat1
  <2>3. u = q BY <2>2, SubSeqFull
  <2> QED BY <2>3, <1>1, <1>2
<1> QED BY <1>3, <1>4

\* However the buffers cut it, the text is written from its beginning, and all
\* of it is there when the word is 0.
THEOREM TextWritten == ASSUME Genuine PROVE Spec => []WritesText
<1>1. ResumableInv => WritesText
  <2> SUFFICES ASSUME ResumableInv PROVE WritesText OBVIOUS
  <2>1. CASE pc = "call"
    <3>1. /\ out \in Seq(Alphabet(Radix)) /\ fn \in Callees
          /\ Meaningful(i, Radix, Signed)
          /\ out \o Stands(i, Radix, Signed) = text(input, Radix)
      BY <2>1 DEF ResumableInv
    <3>2. Stands(i, Radix, Signed) \in Seq(Alphabet(Radix))
      BY <3>1, RadixOfCall, StandsSeq
    <3>3. /\ Len(out) <= Len(text(input, Radix))
          /\ out = SubSeq(text(input, Radix), 1, Len(out))
      BY <3>1, <3>2, FrontOf
    <3> QED BY <3>3, <2>1 DEF WritesText
  <2>2. CASE pc = "done"
    <3>1. out \in Seq(Alphabet(Radix)) /\ out = text(input, Radix)
      BY <2>2 DEF ResumableInv
    <3>2. Len(out) <= Len(out) /\ out = SubSeq(out, 1, Len(out))
      BY <3>1, SubSeqFull, LenProperties
    <3> QED BY <3>1, <3>2 DEF WritesText
  <2> QED BY <2>1, <2>2 DEF ResumableInv
<1> QED BY <1>1, ResumableInvariance, PTL

\* A call completes the text or fills its buffer; only a word of which nothing
\* has been written may be refused.
THEOREM BuffersFilled == ASSUME Genuine PROVE Spec => []FillsOrRefuses
<1>1. ResumableInv => FillsOrRefuses
  <2> SUFFICES ASSUME ResumableInv, pc = "call", NEW size \in Sizes
               PROVE  \/ convert(fn, i, size).i = 0 /\ Len(convert(fn, i, size).out) <= size
                      \/ convert(fn, i, size).i # 0 /\ Len(convert(fn, i, size).out) = size
                      \/ convert(fn, i, size) = nothing(i) /\ out = <<>>
    BY DEF FillsOrRefuses
  <2>1. PICK r : r = convert(fn, i, size) OBVIOUS
  <2>2. /\ fn \in Callees /\ Meaningful(i, Radix, Signed)
        /\ ~is_encoded(i, Signed) => out = <<>> /\ i = input
    BY DEF ResumableInv
  <2>3. Converted(r, i, size, Radix, Signed) BY <2>1, <2>2, ConversionOfCall
  <2>4. \/ r.i = 0 /\ Len(r.out) <= size
        \/ r.i # 0 /\ Len(r.out) = size
        \/ r = nothing(i) /\ out = <<>>
    BY <2>2, <2>3 DEF Converted, Writes, Finishes, Continues, Refuses
  <2> QED BY <2>1, <2>4
<1> QED BY <1>1, ResumableInvariance, PTL

\* The text of a number, behind two blanks or none, is spelled as atoi reads it.
LEMMA TextSpelled ==
  ASSUME NEW n \in Int, magnitude(n) < pow(2, W)
  PROVE  LET d == Places(magnitude(n), 10)
         IN  /\ d \in Nat \ {0} /\ magnitude(n) < pow(10, d)
             /\ Spells(text(n, 10), 0, n, d)
             /\ Spells(<<SPACE, SPACE>> \o text(n, 10), 2, n, d)
<1> DEFINE m == magnitude(n)
<1>1. PICK d : d = Places(m, 10) OBVIOUS
<1>2. m \in Nat BY DEF magnitude
<1>3. 10 \in Nat /\ 10 > 1 OBVIOUS
<1>4. d \in 1 .. W /\ m < pow(10, d) BY <1>1, <1>2, <1>3, PlacesBound
<1>5. d \in Nat \ {0} /\ d \in 0 .. d BY <1>4
<1>6. text(n, 10) = Sign(n) \o leading(m, d, d, 10) BY <1>1, <1>3, TextIs
<1>7. PICK t : t = leading(m, d, d, 10) OBVIOUS
<1>8. /\ t \in Seq(Alphabet(10)) /\ Len(t) = d
      /\ \A j \in 1 .. d : t[j] = (m \div pow(10, d - j)) % 10
  <2>1. PICK c : c = m OBVIOUS
  <2>2. c \in Nat BY <2>1, <1>2
  <2>3. d \in Nat BY <1>5
  <2>4. /\ leading(c, d, d, 10) \in Seq(Alphabet(10))
        /\ Len(leading(c, d, d, 10)) = d
        /\ \A j \in 1 .. d : leading(c, d, d, 10)[j] = (c \div pow(10, d - j)) % 10
    BY ONLY <2>2, <2>3, <1>3, <1>5, LeadingSeq
  <2> QED BY <2>1, <2>4, <1>7
<1> HIDE DEF m
<1>9. PICK g : g = IF n < 0 THEN 1 ELSE 0 OBVIOUS
<1>10. Sign(n) \in Seq(Int) /\ Len(Sign(n)) = g /\ (n < 0 => Sign(n)[1] = MINUS)
  <2>1. CASE n < 0
    <3>1. Sign(n) = <<MINUS>> BY <2>1 DEF Sign
    <3>2. MINUS \in Int BY DEF MINUS
    <3> QED BY <3>1, <3>2, <2>1, <1>9
  <2>2. CASE ~(n < 0) BY <2>2, <1>9, EmptySeq DEF Sign
  <2> QED BY <2>1, <2>2
<1>11. t \in Seq(Int)
  <2>1. Alphabet(10) \subseteq Int BY DEF Alphabet, MINUS
  <2> QED BY <2>1, <1>8
<1>12. PICK s : s = Sign(n) \o t OBVIOUS
<1>13. /\ s \in Seq(Int) /\ Len(s) = g + d
       /\ \A j \in 1 .. g + d : s[j] = IF j <= g THEN Sign(n)[j] ELSE t[j - g]
  BY <1>8, <1>10, <1>11, <1>12, ConcatProperties
<1>14. n < 0 => s[1] = MINUS BY <1>5, <1>9, <1>10, <1>13
<1>15. \A j \in 1 .. d : s[g + j] = (m \div pow(10, d - j)) % 10
  <2> SUFFICES ASSUME NEW j \in 1 .. d PROVE s[g + j] = (m \div pow(10, d - j)) % 10
    OBVIOUS
  <2>1. g + j \in 1 .. g + d /\ ~(g + j <= g) /\ (g + j) - g = j BY <1>5, <1>9
  <2>2. s[g + j] = t[j] BY <2>1, <1>13
  <2> QED BY <2>2, <1>8
<1>16. Spells(s, 0, n, d)
  <2>1. /\ Len(s) = 0 + g + d /\ 0 + 1 = 1 /\ \A j \in 1 .. d : 0 + g + j = g + j
    BY <1>5, <1>9, <1>13
  <2>2. \A j \in 1 .. 0 : s[j] = SPACE OBVIOUS
  <2>3. \A j \in 1 .. d : s[0 + g + j] = (m \div pow(10, d - j)) % 10 BY <2>1, <1>15
  <2> QED BY <2>1, <2>2, <2>3, <1>9, <1>14 DEF Spells, m
<1>17. PICK b : b = <<SPACE, SPACE>> OBVIOUS
<1>18. b \in Seq(Int) /\ Len(b) = 2 /\ b[1] = SPACE /\ b[2] = SPACE BY <1>17 DEF SPACE
<1>19. PICK z : z = b \o s OBVIOUS
<1>20. /\ Len(z) = 2 + (g + d)
       /\ \A j \in 1 .. 2 + (g + d) : z[j] = IF j <= 2 THEN b[j] ELSE s[j - 2]
  <2>1. /\ Len(b \o s) = Len(b) + Len(s)
        /\ \A j \in 1 .. Len(b) + Len(s) :
             (b \o s)[j] = IF j <= Len(b) THEN b[j] ELSE s[j - Len(b)]
    BY <1>13, <1>18, ConcatProperties
  <2>2. Len(b) = 2 /\ Len(s) = g + d BY <1>13, <1>18
  <2> QED BY <2>1, <2>2, <1>19
<1>21. Spells(z, 2, n, d)
  <2>1. Len(z) = 2 + g + d
    <3>1. g \in Nat /\ d \in Nat BY <1>5, <1>9
    <3> QED BY ONLY <3>1, <1>20
  <2>2. \A j \in 1 .. 2 : z[j] = SPACE BY <1>5, <1>9, <1>18, <1>20
  <2>3. n < 0 => z[2 + 1] = MINUS BY <1>5, <1>9, <1>14, <1>20
  <2>4. \A j \in 1 .. d : z[2 + g + j] = (m \div pow(10, d - j)) % 10
    <3> SUFFICES ASSUME NEW j \in 1 .. d
                 PROVE  z[2 + g + j] = (m \div pow(10, d - j)) % 10
      OBVIOUS
    <3>1. 2 + g + j \in 1 .. 2 + (g + d) /\ ~(2 + g + j <= 2) /\ (2 + g + j) - 2 = g + j
      BY <1>5, <1>9
    <3>2. z[2 + g + j] = s[g + j] BY <3>1, <1>20
    <3> QED BY <3>2, <1>15
  <2> QED BY <2>1, <2>2, <2>3, <2>4, <1>9 DEF Spells, m
<1> QED BY <1>1, <1>4, <1>5, <1>6, <1>7, <1>12, <1>16, <1>17, <1>19, <1>21 DEF m

\* atoi reads back what itoa and utoa wrote, if it is an int.
THEOREM ReadsBack == ASSUME Genuine PROVE Spec => []RoundTrip
<1>1. ResumableInv => RoundTrip
  <2> SUFFICES ASSUME ResumableInv, pc = "done", Radix = 10,
                      magnitude(input) < pow(2, IntW - 1)
               PROVE  atoi(out) = input /\ atoi(<<SPACE, SPACE>> \o out) = input
    BY DEF RoundTrip
  <2>1. out = text(input, 10) /\ fn \in Callees /\ input \in Words(fn)
    BY DEF ResumableInv
  <2>2. input \in Int /\ magnitude(input) < pow(2, W)
    <3>1. /\ enc_span \in Nat /\ enc_span > 1
          /\ INT_MIN = -(4 * enc_span) /\ INT_MAX = 4 * enc_span - 1
          /\ UINT_MAX = 8 * enc_span - 1 /\ pow(2, W) = 8 * enc_span
      BY WordSizes
    <3> QED BY <3>1, <2>1 DEF Words, magnitude
  <2>3. PICK d : d = Places(magnitude(input), 10) OBVIOUS
  <2>4. /\ d \in Nat \ {0} /\ magnitude(input) < pow(10, d)
        /\ Spells(text(input, 10), 0, input, d)
        /\ Spells(<<SPACE, SPACE>> \o text(input, 10), 2, input, d)
    BY <2>2, <2>3, TextSpelled
  <2>5. 0 \in Nat /\ 2 \in Nat OBVIOUS
  <2>6. atoi(text(input, 10)) = input BY <2>2, <2>4, <2>5, AtoiReads
  <2>7. atoi(<<SPACE, SPACE>> \o text(input, 10)) = input
    BY <2>2, <2>4, <2>5, AtoiReads
  <2> QED BY <2>1, <2>6, <2>7
<1> QED BY <1>1, ResumableInvariance, PTL

=============================================================================
