------------------------------- MODULE MCPrintf -------------------------------
(***************************************************************************)
(* The formats and arguments for the runs of Printf.                       *)
(***************************************************************************)
EXTENDS Printf

\* A string shorter and one longer than the widths, one of them with a
\* character that is not ASCII.
TwoStrings == (5 :> <<CHARS + 1, CHARS + 2>>) @@ (9 :> <<CHARS + 1, CHARS, CHARS + 4, CHARS + 9>>)

conversion(flags, width, precision, length, specifier) ==
  [plain |-> <<>>, flags |-> flags, width |-> width, precision |-> precision,
   length |-> length, specifier |-> specifier]

plain(s) ==
  [plain |-> s, flags |-> <<>>, width |-> <<>>, precision |-> <<>>,
   length |-> <<>>, specifier |-> NUL]

\* One conversion of an integer, a character or a string, with every set of
\* flags.
OneConversion ==
  {<<conversion(SetToSeq(f), w, p, l, s)>> :
     f \in SUBSET flag_chars,
     w \in {<<>>, <<4>>, <<STAR>>},
     p \in {<<>>, <<DOT>>, <<DOT, 3>>, <<DOT, STAR>>},
     l \in {<<>>, <<CH_H>>, <<CH_H, CH_H>>, <<CH_L>>},
     s \in {CH_D, CH_U, CH_O, CH_X, CH_P, CH_C, CH_S}}

\* The other ways to write a length or a specifier.
Variants ==
  {<<conversion(f, <<>>, <<>>, l, s)>> :
     f \in {<<>>, <<HASH>>},
     l \in {<<>>, <<CH_L, CH_L>>, <<CH_Z>>, <<CH_T>>, <<CH_J>>, <<upper(CH_L)>>},
     s \in {CH_D, CH_I, CH_U, CH_X, upper(CH_X)}}

\* Floating point: every set of flags, widths that the fields do not reach, ...
FloatFlags ==
  {<<conversion(SetToSeq(f), w, p, l, s)>> :
     f \in SUBSET flag_chars, w \in {<<>>, <<1, 5>>},
     p \in {<<>>, <<DOT>>, <<DOT, 2>>},
     l \in {<<>>, <<upper(CH_L)>>},
     s \in {CH_F, CH_E, upper(CH_G), upper(CH_A)}}

\* ... and every precision, for many values.
FloatPrecisions ==
  {<<conversion(f, <<>>, p, l, s)>> :
     f \in {<<>>, <<HASH>>}, p \in {<<>>, <<DOT>>, <<DOT, 1>>, <<DOT, 2>>, <<DOT, 3>>, <<DOT, 5>>},
     l \in {<<>>, <<upper(CH_L)>>}, s \in float_specifiers}

\* Three directives, literal text and broken conversions among them.
SomeDirectives ==
  {conversion(<<>>, <<>>, <<>>, <<>>, PERCENT),
   conversion(<<MINUS>>, <<>>, <<>>, <<>>, PERCENT),
   conversion(<<>>, <<STAR>>, <<>>, <<CH_L>>, CH_K),
   conversion(<<>>, <<3>>, <<>>, <<CH_H>>, CH_D),
   conversion(<<0>>, <<STAR>>, <<>>, <<>>, CH_U),
   conversion(<<>>, <<>>, <<DOT, STAR>>, <<CH_L, CH_L>>, CH_X),
   conversion(<<>>, <<>>, <<>>, <<CH_L>>, CH_S),
   conversion(<<>>, <<>>, <<>>, <<>>, CH_N),
   conversion(<<>>, <<STAR>>, <<DOT, 3>>, <<>>, CH_G),
   conversion(<<>>, <<>>, <<>>, <<CH_H, CH_H>>, CH_N)}

Cut == conversion(<<>>, <<>>, <<DOT>>, <<CH_H>>, NUL)

Separate(c) == \A k \in 1 .. Len(c) - 1 : c[k].plain = <<>> \/ c[k + 1].plain = <<>>

SomeCalls ==
  LET D1 == SomeDirectives \cup {plain(<<CHARS, CHARS + 1, 7>>)}
  IN  {c \in {<<a>> : a \in D1} \cup {<<a, b, d>> : a, b, d \in D1} : Separate(c)}
        \cup {<<a, b, Cut>> : a \in D1, b \in SomeDirectives}

\* Numbers around the ends of the types, as widths and precisions too; the
\* upper bits of a word that holds an int are anything.
minus(n) == UINT_MAX + 1 - n

Numbers ==
  {<<0, 0, 0>>, <<5, 5, 5>>, <<9, 2, 9>>, <<minus(5), 5, 9>>,
   <<minus(5), minus(1), 2 ^ (IntW - 1)>>, <<2 ^ IntW + 3, 5, 9>>,
   <<5, minus(2), minus(2)>>, <<5, 9, 2 ^ (W - 1)>>}

\* Six words: two arguments for each of three directives.
ArgumentLists ==
  {l \o l : l \in Numbers} \cup {<<9, 5, 5, 9, 5, 0>>, <<5, minus(4), 9, 2, 5, 9>>}

\* Zero, ones, the least numbers, infinities and others: of both signs, and as
\* doubles and long doubles.
word(sign, exp, low) == sign * 2 ^ (W - 1) + exp * 2 ^ FracBits + low

FewValues ==
  {<<word(s, e, f)>> : s \in {0, 1}, e \in {0, 7, 15}, f \in {0, 128}}

\* All exponents, with fractions that make ties, carries through nines, short
\* and long expansions.
ManyValues ==
  {<<word(0, e, f)>> : e \in 0 .. 14, f \in {0, 1, 2, 16, 31, 48, 62, 63, 100, 127, 128, 129, 160, 192, 193, 240, 252, 255}}

pairs(formats, lists) == [format : formats, args : lists]

AllCalls ==
  pairs(OneConversion, Numbers)
    \cup pairs(Variants, {<<9>>, <<minus(1)>>, <<0>>})
    \cup pairs(FloatFlags, FewValues)
    \cup pairs(FloatPrecisions, ManyValues)
    \cup pairs(SomeCalls, ArgumentLists)
==============================================================================
