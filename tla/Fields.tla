-------------------------------- MODULE Fields --------------------------------
(***************************************************************************)
(* What the conversions of fprintf in src/stdio.c share: the characters,   *)
(* and the sign, the prefix and the padding of a field.                    *)
(*                                                                         *)
(* A character is a number as in Conversions.  A letter is its value as a  *)
(* digit of base 36, so that 'c' is both the digit 12 and the specifier of *)
(* %c; an upper case letter is 26 more; the others have negative names.    *)
(*                                                                         *)
(* A conversion c is a record with its flags, its width, its precision (-1 *)
(* where none is given) and whether its specifier is in upper case.  Its   *)
(* field is the sequence of pieces that are handed to the stream, each a   *)
(* sequence of characters and a call of its own.                           *)
(***************************************************************************)
EXTENDS Conversions, SequencesExt

PERCENT == -4
HASH    == -5
STAR    == -6
DOT     == -7
NUL     == -8
OPENING == -9    \* the parentheses
CLOSING == -10

CH_A == 10
CH_C == 12
CH_D == 13
CH_E == 14
CH_F == 15
CH_G == 16
CH_H == 17
CH_I == 18
CH_J == 19
CH_K == 20
CH_L == 21
CH_N == 23
CH_O == 24
CH_P == 25
CH_S == 28
CH_T == 29
CH_U == 30
CH_X == 33
CH_Z == 35

upper(letter) == letter + 26

\* Where the characters of a program's strings begin.
CHARS == 100

-----------------------------------------------------------------------------

repeat(ch, n) == [m \in 1 .. n |-> ch]

\* A letter of the output, the hexadecimal digits among them.
cased(c, ch) == IF c.upper /\ ch >= 10 THEN upper(ch) ELSE ch

fprintf_field_begin(c, len, prefix, zero_pad) ==
  LET pad == IF c.width > len THEN c.width - len ELSE 0
  IN  IF MINUS \in c.flags THEN <<prefix>>
      ELSE IF zero_pad THEN <<prefix, repeat(0, pad)>>
      ELSE <<repeat(SPACE, pad), prefix>>

fprintf_field_end(c, len) ==
  IF MINUS \notin c.flags \/ c.width <= len THEN <<>>
  ELSE <<repeat(SPACE, c.width - len)>>

fprintf_sign(c, negative) ==
  IF negative THEN <<MINUS>>
  ELSE IF PLUS \in c.flags THEN <<PLUS>>
  ELSE IF SPACE \in c.flags THEN <<SPACE>>
  ELSE <<>>

-----------------------------------------------------------------------------
(* Fields by their meaning, for the properties.                            *)

\* The sign that stands in front of a number.
sign_of(c, negative) ==
  CHOOSE s \in {<<>>, <<MINUS>>, <<PLUS>>, <<SPACE>>} :
    /\ (s = <<MINUS>>) <=> negative
    /\ (s = <<PLUS>>) <=> (~negative /\ PLUS \in c.flags)
    /\ (s = <<SPACE>>) <=> (~negative /\ SPACE \in c.flags /\ PLUS \notin c.flags)

\* r is s in a field: blanks on one side, and only up to the width.
in_field(r, s, c) ==
  \E n \in 0 .. Len(r) :
    /\ r = IF c.left THEN s \o repeat(SPACE, n) ELSE repeat(SPACE, n) \o s
    /\ Len(r) >= c.width
    /\ n > 0 => Len(r) = c.width
==============================================================================
