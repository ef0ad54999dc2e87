------------------------------ MODULE Resumable ------------------------------
(***************************************************************************)
(* A caller of a conversion of src/conversions.c that hands it one buffer  *)
(* after the other, of whatever size is left in its stream, until the word *)
(* behind the pointer is 0, as the loop of fputi does.                     *)
(***************************************************************************)
EXTENDS Conversions

CONSTANTS
  Callees,   \* the conversions called: a subset of DOMAIN radix_of
  Sizes,     \* the buffer sizes the caller passes: a full buffer it flushes first
  Inputs     \* the words to convert

VARIABLES
  fn,      \* the conversion in use
  input,   \* the word it was started with
  i,       \* the word behind the caller's pointer
  out,     \* the characters written so far
  pc       \* "call" until the word is 0, then "done"

vars == <<fn, input, i, out, pc>>

ASSUME CallerConstants ==
  /\ Callees \subseteq DOMAIN radix_of
  /\ "itoa" \in Callees => ItoaFits
  /\ Sizes \subseteq Nat \ {0} /\ Inputs \subseteq Int

Radix == radix_of[fn]

Words(f) == IF f \in Unsigned THEN 0 .. UINT_MAX ELSE INT_MIN .. INT_MAX

Init ==
  /\ fn \in Callees
  /\ input \in Inputs \cap Words(fn)
  /\ i = input
  /\ out = <<>>
  /\ pc = "call"

call(size) ==
  LET r == convert(fn, i, size)
  IN  /\ pc = "call"
      /\ i' = r.i
      /\ out' = out \o r.out
      /\ pc' = IF r.i = 0 THEN "done" ELSE "call"
      /\ UNCHANGED <<fn, input>>

done == pc = "done" /\ UNCHANGED vars

Next == (\E size \in Sizes : call(size)) \/ done

\* A buffer of this size is enough for any conversion to start.
enough(f) == digits_total(UINT_MAX, radix_of[f]) - max_rem_digits(radix_of[f]) + 1

\* The caller flushes its stream and comes back with a large enough buffer.
call_with_room == \E size \in Sizes : size >= enough(fn) /\ call(size)

Spec == Init /\ [][Next]_vars /\ WF_vars(call_with_room)

-----------------------------------------------------------------------------

\* Type invariant: the word stays a word of its type between the calls.
TypeOK ==
  /\ fn \in Callees
  /\ input \in Words(fn) /\ i \in Words(fn)
  /\ out \in Seq({MINUS} \cup 0 .. Radix - 1)
  /\ pc \in {"call", "done"}

\* However the buffers cut the text, the characters itoa, utoa and the others
\* have written so far are the beginning of the text, zeros inside it and at
\* its end included, and all of it once the word is 0.
WritesText ==
  /\ Len(out) <= Len(text(input, Radix)) /\ out = SubSeq(text(input, Radix), 1, Len(out))
  /\ pc = "done" => out = text(input, Radix)

\* A call completes the text or fills its buffer to the last byte; only the
\* first one may refuse, and then it writes nothing and leaves the word as it
\* is.  The flush-and-retry loop of fputi rests on it.
FillsOrRefuses ==
  pc = "call" =>
    \A size \in Sizes :
      LET r == convert(fn, i, size)
      IN  \/ r.i = 0 /\ Len(r.out) <= size
          \/ r.i # 0 /\ Len(r.out) = size
          \/ r = nothing(i) /\ out = <<>>

\* atoi reads back the text of every number that is an int, the smallest one,
\* whose magnitude is none, left out; with blanks in front of it or without.
RoundTrip ==
  pc = "done" /\ Radix = 10 /\ magnitude(input) < pow(2, IntW - 1) =>
    atoi(out) = input /\ atoi(<<SPACE, SPACE>> \o out) = input

\* The conversion ends when the caller keeps coming back with enough room.
Completes == <>(pc = "done")
=============================================================================
