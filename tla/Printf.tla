-------------------------------- MODULE Printf --------------------------------
(***************************************************************************)
(* fprintf of src/stdio.c: the walk along the format, the arguments it     *)
(* takes, the fields of integers, pointers, characters and strings, and    *)
(* the pieces it hands to the stream one after the other, each of which    *)
(* may fail.  The fields of floating point numbers are FloatFormat's.      *)
(***************************************************************************)
EXTENDS FloatMeaning

CONSTANTS
  ShortW, CharW,   \* bits of short and of char (W and IntW: of long and int)
  Strings,         \* the words that point to strings -> those strings
  Calls            \* the calls: a sequence of directives, and one of words

-----------------------------------------------------------------------------
(* The formats                                                             *)

float_specifiers == {CH_F, CH_E, CH_G, CH_A}

\* Those that have an upper case form.
cased_specifiers == {CH_X} \cup float_specifiers

specifiers == {CH_D, CH_U, CH_O, CH_C, CH_S, CH_P, CH_N} \cup cased_specifiers

flag_chars == {MINUS, PLUS, SPACE, 0, HASH}

length_modifiers ==
  {<<>>, <<CH_H>>, <<CH_H, CH_H>>, <<CH_L>>, <<CH_L, CH_L>>,
   <<CH_Z>>, <<CH_T>>, <<CH_J>>, <<upper(CH_L)>>}

\* A directive of a format: plain text, or flags, width, precision, length and
\* specifier of a conversion, each as it is written.
unparse(d) ==
  IF d.plain # <<>> THEN d.plain
  ELSE <<PERCENT>> \o d.flags \o d.width \o d.precision \o d.length
         \o (IF d.specifier = NUL THEN <<>> ELSE <<d.specifier>>)

\* A letter in lower case, as the other definitions know it.
lower(ch) == IF ch >= upper(CH_A) /\ ch < CHARS THEN ch - (upper(CH_A) - CH_A) ELSE ch

is_conversion(d) ==
  /\ d.plain = <<>>
  /\ \/ d.specifier \in specifiers \cup {CH_I}
     \/ d.specifier # lower(d.specifier) /\ lower(d.specifier) \in cased_specifiers

stars(d) ==
  (IF d.width = <<STAR>> THEN 1 ELSE 0) + (IF d.precision = <<DOT, STAR>> THEN 1 ELSE 0)

takes(d) == stars(d) + (IF is_conversion(d) THEN 1 ELSE 0)

\* Position in the arguments of the first of the m-th directive of a format.
args_before(directives, m) ==
  LET upto[k \in 1 .. m] ==
        IF k = 1 THEN 1 ELSE upto[k - 1] + takes(directives[k - 1])
  IN  upto[m]

\* The number that the digits ds stand for.
positional(ds, base) ==
  LET val[k \in 0 .. Len(ds)] == IF k = 0 THEN 0 ELSE val[k - 1] * base + ds[k]
  IN  val[Len(ds)]

Directives ==
  [plain : Seq(Int), flags : Seq(flag_chars), width : Seq(Int),
   precision : Seq(Int), length : length_modifiers, specifier : Int]

\* The characters that, behind what is written of a conversion up to its
\* specifier, would be more of it.
more(d) ==
  LET digits_after(s) == IF s = <<STAR>> THEN {} ELSE digit_chars
  IN  IF d.length \in {<<CH_H>>, <<CH_L>>} THEN {d.length[1]}
      ELSE IF d.length # <<>> THEN {}
      ELSE {l[1] : l \in length_modifiers \ {<<>>}} \cup
           (IF d.precision # <<>>
            THEN digits_after(Tail(d.precision))
                   \cup (IF d.precision = <<DOT>> THEN {STAR} ELSE {})
            ELSE {DOT} \cup digits_after(d.width)
                   \cup (IF d.width = <<>> THEN flag_chars \cup {STAR} ELSE {}))

\* A width, or a precision behind its point: a number that an int can hold.
is_number(s) ==
  s = <<STAR>> \/ (s \in Seq(digit_chars) /\ positional(s, 10) < pow(2, IntW - 1))

\* The parts of the directive are what they look like.
legible(d) ==
  IF d.plain # <<>>
  THEN d.plain \in Seq(Int \ {PERCENT, NUL}) /\ d.width = <<>> /\ d.precision = <<>>
  ELSE /\ is_number(d.width) /\ (d.width # <<>> => d.width[1] # 0)
       /\ d.precision # <<>> => d.precision[1] = DOT /\ is_number(Tail(d.precision))
       /\ d.specifier \notin more(d)

\* Every format is a sequence of directives, in one way only: plain text as
\* long as it goes, and a format that ends in the middle of a conversion.
ASSUME PrintfConstants ==
  /\ CharW \in 2 .. ShortW /\ ShortW \in 2 .. IntW
  /\ 0 \notin DOMAIN Strings
  /\ \A w \in DOMAIN Strings : Strings[w] \in Seq(Int)
  /\ \A c \in Calls :
       /\ c.format \in Seq(Directives) /\ c.args \in Seq(0 .. UINT_MAX)
       /\ \A m \in DOMAIN c.format : legible(c.format[m])
       /\ \A m \in 1 .. Len(c.format) - 1 :
            IF c.format[m].plain # <<>> THEN c.format[m + 1].plain = <<>>
            ELSE c.format[m].specifier # NUL
       /\ args_before(c.format, Len(c.format) + 1) <= Len(c.args) + 1

-----------------------------------------------------------------------------

VARIABLES
  written,   \* the directives of the format
  format,    \* and its characters
  args,      \* the argument list
  str,       \* position in the format
  arg,       \* position in the argument list
  todo,      \* what the conversion in progress has yet to hand to the stream
  count,     \* sink.count
  stored,    \* what %n stored: sequence of [directive, bits, v]
  status,
  pc,        \* "run" or "done"
  fields     \* history: per directive, the characters the stream has taken

pfvars ==
  <<written, format, args, str, arg, todo, count, stored, status, pc, fields>>

\* The texts of null pointers.
nil_text  == <<OPENING, CH_N, CH_I, CH_L, CLOSING>>
null_text == <<OPENING, CH_N, CH_U, CH_L, CH_L, CLOSING>>

-----------------------------------------------------------------------------
(* Reading the format                                                      *)

\* The conversion that a character stands for, in either case, or NUL.
get_format_specifier(ch) ==
  IF ch = CH_I THEN CH_D
  ELSE IF ch \in specifiers THEN ch
  ELSE IF \E s \in cased_specifiers : ch = upper(s)
       THEN CHOOSE s \in cased_specifiers : ch = upper(s)
  ELSE NUL

at(k) == IF k <= Len(format) THEN format[k] ELSE NUL

\* A width or a precision: an int argument in place of '*', or the number
\* written at k.
star_or_number(k, a) ==
  LET e == skip(format, k, digit_chars)
  IN  IF at(k) = STAR THEN [v |-> as_int(args[a]), k |-> k + 1, a |-> a + 1]
      ELSE [v |-> value(format, k, e), k |-> e, a |-> a]

\* The length modifier at k and the position behind it.
get_length_modifier(k) ==
  CASE at(k) = CH_H /\ at(k + 1) = CH_H -> [length |-> "char", k |-> k + 2]
    [] at(k) = CH_H /\ at(k + 1) # CH_H -> [length |-> "short", k |-> k + 1]
    [] at(k) = CH_L /\ at(k + 1) = CH_L -> [length |-> "long_long", k |-> k + 2]
    [] at(k) = CH_L /\ at(k + 1) # CH_L -> [length |-> "long", k |-> k + 1]
    [] at(k) = CH_Z -> [length |-> "size_t", k |-> k + 1]
    [] at(k) = CH_T -> [length |-> "ptrdiff_t", k |-> k + 1]
    [] at(k) = CH_J -> [length |-> "intmax_t", k |-> k + 1]
    [] at(k) = upper(CH_L) -> [length |-> "long_double", k |-> k + 1]
    [] OTHER -> [length |-> "default", k |-> k]

\* Mutant: a negative width aligns to the right.
parse_right(k, a) ==
  LET f == skip(format, k, flag_chars)
      w == star_or_number(f, a)
      p == IF at(w.k) = DOT THEN star_or_number(w.k + 1, w.a)
           ELSE [w EXCEPT !.v = -1]
      l == get_length_modifier(p.k)
      flags == {format[m] : m \in k .. f - 1}
  IN  [flags |-> IF MINUS \in flags THEN flags \ {0} ELSE flags,
       width |-> magnitude(w.v),
       precision |-> IF p.v < 0 THEN -1 ELSE p.v,
       length |-> l.length, specifier |-> get_format_specifier(at(l.k)),
       upper |-> \E ch \in cased_specifiers : at(l.k) = upper(ch),
       k |-> l.k, a |-> p.a]

\* The conversion whose flags begin at k: its state, and the positions of its
\* specifier and of its argument.
parse(k, a) ==
  LET f == skip(format, k, flag_chars)
      w == star_or_number(f, a)
      p == IF at(w.k) = DOT THEN star_or_number(w.k + 1, w.a)
           ELSE [w EXCEPT !.v = -1]
      l == get_length_modifier(p.k)
      flags == {format[m] : m \in k .. f - 1}
                 \cup (IF w.v < 0 THEN {MINUS} ELSE {})
  IN  [flags |-> IF MINUS \in flags THEN flags \ {0} ELSE flags,
       width |-> magnitude(w.v),
       precision |-> IF p.v < 0 THEN -1 ELSE p.v,
       length |-> l.length, specifier |-> get_format_specifier(at(l.k)),
       upper |-> \E ch \in cased_specifiers : at(l.k) = upper(ch),
       k |-> l.k, a |-> p.a]

-----------------------------------------------------------------------------
(* The fields: each is the sequence of pieces handed to the stream         *)

bits(length) ==
  CASE length = "char"  -> CharW
    [] length = "short" -> ShortW
    [] length \in {"default", "long_double"} -> IntW
    [] OTHER -> W

\* The low b bits of x as a signed number.
signed(x, b) == ((x + pow(2, b - 1)) % pow(2, b)) - pow(2, b - 1)

\* The argument as its type says.
fprintf_get_data(c, word) ==
  CASE c.specifier = CH_D -> signed(word, bits(c.length))
    [] c.specifier \in {CH_U, CH_O, CH_X} -> word % pow(2, bits(c.length))
    [] c.specifier = CH_C -> word % pow(2, IntW)
    [] OTHER -> word

base_of(specifier) ==
  IF specifier = CH_O THEN 8 ELSE IF specifier \in {CH_X, CH_P} THEN 16 ELSE 10

fprintf_output_integer(c, data) ==
  LET base == base_of(c.specifier)
      v    == magnitude(data)
      alt  == HASH \in c.flags
      n    == IF v # 0 THEN digits_total(v, base)
              ELSE IF c.precision # 0 THEN 1 ELSE 0
      digits == leading(v, n, n, base)
      missing == IF c.precision > n THEN c.precision - n ELSE 0
      zeros == IF /\ c.specifier = CH_O /\ alt /\ missing = 0
                  /\ (n = 0 \/ digits[1] # 0)
               THEN 1 ELSE missing
      prefix == IF c.specifier = CH_D THEN fprintf_sign(c, data < 0)
                ELSE IF base = 16 /\ v # 0 /\ (alt \/ c.specifier = CH_P)
                THEN <<0, cased(c, CH_X)>> ELSE <<>>
      len == Len(prefix) + zeros + n
  IN  fprintf_field_begin(c, len, prefix, 0 \in c.flags /\ c.precision = -1)
        \o <<repeat(0, zeros), [m \in 1 .. n |-> cased(c, digits[m])]>>
        \o fprintf_field_end(c, len)

fprintf_output_string(c, s) ==
  fprintf_field_begin(c, Len(s), <<>>, FALSE) \o <<s>> \o fprintf_field_end(c, Len(s))

\* What of a string is printed: all of it, or its first `precision' characters.
cut(c, s) ==
  IF c.precision >= 0 THEN SubSeq(s, 1, smaller(c.precision, Len(s))) ELSE s

ascii(ch) == ch < CHARS + pow(2, CharW - 1)

\* The pieces of a conversion; `refused' when a wide character has no byte.
fprintf_output_formatted(c, data) ==
  LET wide == c.length = "long"
      s == IF data = 0 THEN null_text ELSE Strings[data]
      shown == cut(c, s)
      field == IF wide /\ data # 0
               THEN fprintf_field_begin(c, Len(shown), <<>>, FALSE)
                      \o one_by_one(shown)
                      \o fprintf_field_end(c, Len(shown))
               ELSE fprintf_output_string(c, shown)
  IN  CASE c.specifier = CH_C ->
             [refused |-> wide /\ data >= pow(2, CharW - 1),
              pieces |-> fprintf_output_string(c, <<CHARS + (data % pow(2, CharW))>>)]
        [] c.specifier = CH_S ->
             [refused |-> wide /\ data # 0 /\ \E m \in DOMAIN shown : ~ascii(shown[m]),
              pieces |-> field]
        [] c.specifier = CH_P /\ data = 0 ->
             [refused |-> FALSE, pieces |-> fprintf_output_string(c, nil_text)]
        [] c.specifier \in float_specifiers ->
             [refused |-> FALSE, pieces |-> fprintf_output_float(c, data)]
        [] OTHER ->
             [refused |-> FALSE, pieces |-> fprintf_output_integer(c, data)]

-----------------------------------------------------------------------------
(* What a directive means, from the way it is written and not from the way *)
(* the format is read                                                      *)

first_arg(m) == args_before(written, m)

\* The number written, or given for a star, or `none'.
meant(written_as, none, word) ==
  IF written_as = <<>> THEN none
  ELSE IF Last(written_as) = STAR THEN signed(word, IntW)
  ELSE positional(IF written_as[1] = DOT THEN Tail(written_as) ELSE written_as, 10)

length_of(d) ==
  CASE d.length = <<CH_H, CH_H>> -> CharW
    [] d.length = <<CH_H>> -> ShortW
    [] d.length \in {<<>>, <<upper(CH_L)>>} -> IntW
    [] OTHER -> W

\* The directive with the arguments it should take.
with_args(m) ==
  LET d == written[m]
      a == first_arg(m)
      w == meant(d.width, 0, args[a])
      p == meant(d.precision, -1,
                 args[a + (IF d.width = <<STAR>> THEN 1 ELSE 0)])
      lower_s == lower(d.specifier)
  IN  [specifier |-> IF lower_s = CH_I THEN CH_D ELSE lower_s,
       upper |-> lower_s # d.specifier, flags |-> ToSet(d.flags),
       long_double |-> d.length = <<upper(CH_L)>>, wide |-> d.length = <<CH_L>>, bits |-> length_of(d),
       left |-> MINUS \in ToSet(d.flags) \/ w < 0, width |-> magnitude(w),
       precision |-> IF p < 0 THEN -1 ELSE p, word |-> args[a + stars(d)]]

-----------------------------------------------------------------------------
(* The call                                                                *)

\* The program passes a string, or no string, where the format asks for one.
strings_given ==
  \A m \in DOMAIN written :
    is_conversion(written[m]) /\ written[m].specifier = CH_S =>
      with_args(m).word \in DOMAIN Strings \cup {0}

Init ==
  /\ \E c \in Calls : written = c.format /\ args = c.args
  /\ strings_given
  /\ format = FlattenSeq([m \in DOMAIN written |-> unparse(written[m])])
  /\ str = 1 /\ arg = 1
  /\ todo = <<>> /\ count = 0 /\ stored = <<>>
  /\ status = TRUE /\ pc = "run"
  /\ fields = <<>>

\* The loop of fprintf is at the next directive.
ready == pc = "run" /\ status /\ todo = <<>> /\ at(str) # NUL

conversion_at == ready /\ at(str) = PERCENT /\ at(str + 1) # PERCENT

\* Hand these pieces to the stream.
output(pieces) == todo' = pieces /\ fields' = Append(fields, <<>>)

plain_text ==
  LET e == CHOOSE m \in str + 1 .. Len(format) + 1 :
             /\ at(m) \in {PERCENT, NUL}
             /\ \A l \in str .. m - 1 : format[l] # PERCENT
  IN  /\ ready /\ at(str) # PERCENT
      /\ output(<<SubSeq(format, str, e - 1)>>)
      /\ str' = e
      /\ UNCHANGED <<written, format, args, arg, count, stored, status, pc>>

percent_sign ==
  /\ ready /\ at(str) = PERCENT /\ at(str + 1) = PERCENT
  /\ output(<<<<PERCENT>>>>)
  /\ str' = str + 2
  /\ UNCHANGED <<written, format, args, arg, count, stored, status, pc>>

\* Mutant: one character is passed over, even at the end of the format.
unknown_past_end ==
  /\ conversion_at
  /\ \E c \in {parse(str + 1, arg)} :
       /\ c.specifier \notin specifiers
       /\ output(<<SubSeq(format, str, smaller(c.k, Len(format)))>>)
       /\ str' = c.k + 1 /\ arg' = c.a
  /\ UNCHANGED <<written, format, args, count, stored, status, pc>>

\* Unknown conversion, print it as is.
unknown ==
  /\ conversion_at
  /\ \E c \in {parse(str + 1, arg)} :
       LET e == IF at(c.k) = NUL THEN c.k ELSE c.k + 1
       IN  /\ c.specifier \notin specifiers
           /\ output(<<SubSeq(format, str, e - 1)>>)
           /\ str' = e /\ arg' = c.a
  /\ UNCHANGED <<written, format, args, count, stored, status, pc>>

fprintf_store_count ==
  /\ conversion_at
  /\ \E c \in {parse(str + 1, arg)} :
       /\ c.specifier = CH_N
       /\ stored' = Append(stored,
            [directive |-> Len(fields) + 1, bits |-> bits(c.length),
             v |-> signed(count, bits(c.length))])
       /\ output(<<>>)
       /\ str' = c.k + 1 /\ arg' = c.a + 1
  /\ UNCHANGED <<written, format, args, count, status, pc>>

convert_argument ==
  /\ conversion_at
  /\ \E c \in {parse(str + 1, arg)} :
       /\ c.specifier \in specifiers \ {CH_N}
       /\ \E data \in {fprintf_get_data(c, args[c.a])} :
            \E f \in {fprintf_output_formatted(c, data)} :
              IF f.refused
              THEN status' = FALSE /\ UNCHANGED <<todo, fields>>
              ELSE output(f.pieces) /\ UNCHANGED status
       /\ str' = c.k + 1 /\ arg' = c.a + 1
  /\ UNCHANGED <<written, format, args, count, stored, pc>>

\* Mutant: the pieces are counted, not their characters.
sink_bytes_once ==
  /\ todo # <<>>
  /\ count' = count + 1
  /\ fields' = [fields EXCEPT ![Len(fields)] = @ \o Head(todo)]
  /\ todo' = Tail(todo)
  /\ UNCHANGED <<written, format, args, str, arg, stored, status, pc>>

\* The stream takes a piece.
sink_bytes ==
  /\ todo # <<>>
  /\ count' = count + Len(Head(todo))
  /\ fields' = [fields EXCEPT ![Len(fields)] = @ \o Head(todo)]
  /\ todo' = Tail(todo)
  /\ UNCHANGED <<written, format, args, str, arg, stored, status, pc>>

\* Mutant: the rest of the conversion is printed nevertheless.
sink_fails_late ==
  /\ todo # <<>> /\ Head(todo) # <<>>
  /\ count' = count + Len(Head(todo))
  /\ status' = FALSE
  /\ todo' = Tail(todo)
  /\ UNCHANGED <<written, format, args, str, arg, stored, pc, fields>>

\* The stream fails, after it has taken a part that is not looked at: the
\* pieces behind this one are dropped.
sink_fails ==
  /\ todo # <<>> /\ Head(todo) # <<>>
  /\ count' = count + Len(Head(todo))
  /\ status' = FALSE
  /\ todo' = <<>>
  /\ UNCHANGED <<written, format, args, str, arg, stored, pc, fields>>

return ==
  /\ pc = "run" /\ todo = <<>>
  /\ ~status \/ at(str) = NUL
  /\ pc' = "done"
  /\ UNCHANGED <<written, format, args, str, arg, todo, count, stored, status, fields>>

step ==
  \/ plain_text \/ percent_sign \/ unknown \/ fprintf_store_count
  \/ convert_argument \/ sink_bytes \/ sink_fails \/ return

Next == step \/ (pc = "done" /\ UNCHANGED pfvars)

Spec == Init /\ [][Next]_pfvars

-----------------------------------------------------------------------------
(* What a directive prints, by its meaning                                 *)

\* The digits ds, in a field of len characters, show n with the precision and
\* the flags asked for: zeros in front only where something asks for them.
digits_right(ds, n, c, len) ==
  LET base == base_of(c.specifier)
      octal == c.specifier = CH_O /\ HASH \in c.flags
      padded == 0 \in c.flags /\ ~c.left /\ c.precision = -1
  IN  /\ \A m \in DOMAIN ds : ds[m] \in 0 .. base - 1
      /\ positional(ds, base) = n
      /\ Len(ds) >= IF c.precision = -1 THEN 1 ELSE c.precision
      /\ octal => ds # <<>> /\ ds[1] = 0
      /\ ds # <<>> /\ ds[1] = 0 =>
           \/ Len(ds) = 1 /\ (c.precision # 0 \/ octal)
           \/ Len(ds) = c.precision
           \/ octal /\ ds[2] # 0
           \/ padded /\ len = c.width

\* r shows the number n as the conversion c asks for.
shows_number(r, n, c) ==
  LET sign == IF c.specifier = CH_D THEN sign_of(c, n < 0) ELSE <<>>
      hex  == IF /\ c.specifier = CH_P \/ (c.specifier = CH_X /\ HASH \in c.flags)
                 /\ n # 0
              THEN <<0, cased(c, CH_X)>> ELSE <<>>
      lead == sign \o hex
      padded == 0 \in c.flags /\ ~c.left /\ c.precision = -1
  IN  \E i \in 1 .. Len(r) + 1, j \in 0 .. Len(r) :
        LET body == SubSeq(r, i, j)
            shown == SubSeq(body, Len(lead) + 1, Len(body))
            ds   == [m \in DOMAIN shown |-> lower(shown[m])]
        IN  /\ IsPrefix(lead, body)
            /\ shown = [m \in DOMAIN ds |-> cased(c, ds[m])]
            /\ digits_right(ds, magnitude(n), c, Len(r))
            /\ in_field(r, body, c)
            /\ padded => Len(body) = Len(r)

\* r is what the conversion c prints.
shows(r, c) ==
  LET string == IF c.word = 0 THEN null_text ELSE Strings[c.word]
  IN  CASE c.specifier = CH_N -> r = <<>>
        [] c.specifier = CH_C ->
             in_field(r, <<CHARS + (c.word % pow(2, CharW))>>, c)
        [] c.specifier = CH_S ->
             in_field(r, IF c.precision = -1 \/ c.precision > Len(string)
                         THEN string ELSE SubSeq(string, 1, c.precision), c)
        [] c.specifier = CH_P /\ c.word = 0 -> in_field(r, nil_text, c)
        [] c.specifier = CH_P /\ c.word # 0 -> shows_number(r, c.word, c)
        [] c.specifier = CH_D -> shows_number(r, signed(c.word, c.bits), c)
        [] c.specifier \in float_specifiers -> shows_float(r, c.word, c)
        [] OTHER -> shows_number(r, c.word % pow(2, c.bits), c)

\* r is what directive m prints.
prints(r, m) ==
  LET d == written[m]
  IN  IF d.plain # <<>> THEN r = d.plain
      ELSE IF unparse(d) = <<PERCENT, PERCENT>> THEN r = <<PERCENT>>
      ELSE IF ~is_conversion(d) THEN r = unparse(d)
      ELSE shows(r, with_args(m))

-----------------------------------------------------------------------------

\* Type invariant: the walk stays inside the format, its NUL included, and
\* begins no more fields than there are directives.
TypeOK ==
  /\ str \in 1 .. Len(format) + 1
  /\ arg \in 1 .. Len(args) + 1
  /\ count \in Nat
  /\ Len(fields) <= Len(written)
  /\ status \in BOOLEAN /\ pc \in {"run", "done"}
  /\ todo # <<>> => fields # <<>>

\* Every directive of a format of fprintf prints what it means, with the
\* arguments that are its own: flags, width, precision, length and specifier
\* are told apart, arguments taken in order, digits, signs, prefixes and
\* padding put in their places.
PrintsAsWritten ==
  /\ status /\ todo = <<>> /\ fields # <<>> => prints(Last(fields), Len(fields))
  /\ pc = "done" /\ status => Len(fields) = Len(written)

\* %n stores how many characters the call has printed so far, as far as the
\* object it stores to can hold the number.
CountsPrinted ==
  \A m \in DOMAIN stored :
    LET n == stored[m].directive
    IN  /\ stored[m].bits = length_of(written[n])
        /\ stored[m].v = signed(Len(FlattenSeq(SubSeq(fields, 1, n - 1))), length_of(written[n]))

\* Once the stream has failed, fprintf hands it nothing more, stores nothing
\* more, and returns false.
NothingAfterFailure ==
  [][~status => UNCHANGED <<fields, stored, status>>]_pfvars
=============================================================================
