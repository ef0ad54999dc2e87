------------------------------- MODULE Strings -------------------------------
(***************************************************************************)
(* The functions of src/string/*.c on blocks that malloc gave: strcpy and  *)
(* strncpy, which write no NUL, strdup, which is built on strcpy, strcmp,  *)
(* and strtokc, which keeps the place where it cut in static variables.    *)
(*                                                                         *)
(* A block is as long as malloc made it, longer than what was asked when   *)
(* that was no multiple of 16, and keeps what its last user left in it.    *)
(* Behind it lies the footer of the heap, whose first byte is the low byte *)
(* of __HEAP_MEMORY_USED_NORMAL, 1 << 63: the byte at index Capacity[b].   *)
(***************************************************************************)
EXTENDS Integers, Sequences, SequencesExt

CONSTANTS
  Blocks,       \* the blocks of the heap
  Capacity,     \* block -> bytes of payload
  Texts,        \* the strings that the program writes
  Separators,   \* the characters it splits at
  NULL

NUL == 0

ASSUME StringConstants ==
  /\ Capacity \in [Blocks -> Nat \ {0}]
  /\ Texts \subseteq Seq(Int \ {NUL}) /\ Separators \subseteq Int \ {NUL}
  /\ NULL \notin [block : Blocks, at : Int]
  /\ NULL \notin [start : [block : Blocks, at : Int], text : Seq(Int)]
  /\ NULL \notin [copy : [block : Blocks, at : Int], text : Seq(Int)]

VARIABLES
  mem,            \* block -> its bytes and the byte behind them
  held,           \* the blocks in the program's hands
  prev,           \* where strtokc cut last: [block, at]
  missing_char,   \* the character that was there
  at_end,
  split,          \* history: the string strtokc works on and its start, or NULL
  tokens,         \* history: the tokens it returned
  dup             \* history: the copy and the text of the last strdup, or NULL

vars == <<mem, held, prev, missing_char, at_end, split, tokens, dup>>

Init ==
  /\ mem = [b \in Blocks |-> [k \in 0 .. Capacity[b] |-> NUL]]
  /\ held = {}
  /\ prev = NULL /\ missing_char = NUL /\ at_end = TRUE
  /\ split = NULL /\ tokens = <<>> /\ dup = NULL

-----------------------------------------------------------------------------
(* Strings in memory                                                       *)

Ptr(b, k) == [block |-> b, at |-> k]

\* The first index from k on whose byte is one of stop.
scan(bytes, k, stop) ==
  CHOOSE e \in DOMAIN bytes :
    e >= k /\ bytes[e] \in stop /\ \A i \in k .. e - 1 : bytes[i] \notin stop

strlen(p) == scan(mem[p.block], p.at, {NUL}) - p.at

string(p) == [i \in 1 .. strlen(p) |-> mem[p.block][p.at + i - 1]]

char(s, i) == IF i <= Len(s) THEN s[i] ELSE NUL

strcmp(s1, s2) ==
  LET stops(k) == char(s1, k) = NUL \/ char(s2, k) = NUL \/ s1[k] # s2[k]
      k == CHOOSE i \in 1 .. Len(s1) + 1 : stops(i) /\ \A h \in 1 .. i - 1 : ~stops(h)
  IN  char(s1, k) - char(s2, k)

\* The bytes of a block after src was copied to its front.
strcpy(bytes, src) ==
  [k \in DOMAIN bytes |-> IF k < Len(src) THEN src[k + 1] ELSE bytes[k]]

\* The count that strncpy returns.
copied(src, n) == IF n < Len(src) THEN n ELSE Len(src)

strncpy(bytes, src, n) == strcpy(bytes, SubSeq(src, 1, copied(src, n)))

-----------------------------------------------------------------------------
(* Blocks                                                                  *)

\* What the program does to block b ends the work of strtokc in it.
leaves(b) ==
  LET gone == split # NULL /\ split.start.block = b
  IN  /\ split' = IF gone THEN NULL ELSE split
      /\ tokens' = IF gone THEN <<>> ELSE tokens
      /\ UNCHANGED <<prev, missing_char, at_end>>

\* A copy in block b is the program's own text from now on.
changes(b) == dup' = IF dup # NULL /\ dup.copy.block = b THEN NULL ELSE dup

\* malloc(n) returned block b.
malloc(b, n) ==
  /\ b \notin held /\ n <= Capacity[b]
  /\ held' = held \cup {b}

takes_block(b) ==
  /\ malloc(b, Capacity[b])
  /\ UNCHANGED <<mem, prev, missing_char, at_end, split, tokens, dup>>

free(b) ==
  /\ b \in held
  /\ held' = held \ {b}
  /\ leaves(b) /\ changes(b)
  /\ UNCHANGED mem

\* strncpy, and the NUL that the program adds itself where the copy ends.
fills(b, src, n) ==
  /\ b \in held
  /\ copied(src, n) < Capacity[b]
  /\ mem' = [mem EXCEPT ![b] = [strncpy(@, src, n) EXCEPT ![copied(src, n)] = NUL]]
  /\ leaves(b) /\ changes(b)
  /\ UNCHANGED held

\* Mutant: one byte too few is asked for.
copy_len_short(src) == Len(src) - 1

copy_len(src) == Len(src)

\* strdup: strlen(src) bytes from malloc and strcpy, which counts as many, so
\* that the branch which frees the copy is never taken.
strdup(b, src) ==
  /\ malloc(b, copy_len(src))
  /\ mem' = [mem EXCEPT ![b] = strcpy(@, src)]
  /\ dup' = [copy |-> Ptr(b, 0), text |-> src]
  /\ UNCHANGED <<prev, missing_char, at_end, split, tokens>>

\* malloc finds no memory: strdup returns NULL.
strdup_fails == UNCHANGED vars

-----------------------------------------------------------------------------
(* strtokc                                                                 *)

\* Mutant: the search begins at the token itself.
behind_nothing(begin) == begin.at

\* end = begin + 1
behind(begin) == begin.at + 1

\* Mutant: a separator that ends the string is no token of its own.
is_last_early(bytes, end) == bytes[end] = NUL \/ bytes[end + 1] = NUL

is_last(bytes, end) == bytes[end] = NUL

\* From the character behind begin on, find ch and cut there.
cut(bytes, begin, ch) ==
  LET end == scan(bytes, behind(begin), {ch, NUL})
      b   == begin.block
  IN  IF is_last(bytes, end)
      THEN /\ at_end' = TRUE
           /\ mem' = [mem EXCEPT ![b] = bytes]
           /\ UNCHANGED <<prev, missing_char>>
      ELSE /\ at_end' = FALSE
           /\ missing_char' = bytes[end]
           /\ prev' = Ptr(b, end)
           /\ mem' = [mem EXCEPT ![b] = [bytes EXCEPT ![end] = NUL]]

\* The token that begins at p, as the caller reads it.
token(p, ch) ==
  LET bytes == mem'[p.block]
  IN  [ch |-> ch, text |-> [i \in 1 .. scan(bytes, p.at, {NUL}) - p.at |->
                              bytes[p.at + i - 1]]]

\* strtokc(str, ch).  On an empty string the scan would begin behind its NUL,
\* so the program passes none.
strtokc(b, k, ch) ==
  /\ b \in held /\ k <= Capacity[b] /\ mem[b][k] # NUL
  /\ cut(mem[b], Ptr(b, k), ch)
  /\ split' = [start |-> Ptr(b, k), text |-> string(Ptr(b, k))]
  /\ tokens' = <<token(Ptr(b, k), ch)>>
  /\ changes(b)
  /\ UNCHANGED held

\* Mutant: the character that was cut away is not put back.
resumed_without_missing == mem[prev.block]

resumed == [mem[prev.block] EXCEPT ![prev.at] = missing_char]

\* strtokc(NULL, ch) before the end, on memory that the program left alone.
strtokc_again(ch) ==
  /\ ~at_end /\ split # NULL
  /\ cut(resumed, prev, ch)
  /\ tokens' = Append(tokens, token(prev, ch))
  /\ UNCHANGED <<held, split, dup>>

\* strtokc(NULL, ch) at the end returns NULL.
strtokc_done == at_end /\ UNCHANGED vars

-----------------------------------------------------------------------------

strings == {string(Ptr(b, 0)) : b \in held}

Next ==
  \/ \E b \in Blocks :
       \/ takes_block(b) \/ free(b)
       \/ \E src \in Texts, n \in 0 .. Capacity[b] : fills(b, src, n)
       \/ \E src \in Texts \cup strings : strdup(b, src)
       \/ \E k \in 0 .. Capacity[b], ch \in Separators : strtokc(b, k, ch)
  \/ \E ch \in Separators : strtokc_again(ch)
  \/ strdup_fails
  \/ strtokc_done

Spec == Init /\ [][Next]_vars

-----------------------------------------------------------------------------

\* Type invariant: strtokc cuts inside the block and never at the first
\* character of the string.
TypeOK ==
  /\ DOMAIN mem = Blocks /\ \A b \in Blocks : mem[b] \in [0 .. Capacity[b] -> Int]
  /\ held \subseteq Blocks
  /\ prev = NULL => at_end
  /\ prev # NULL => prev.block \in Blocks /\ prev.at \in 0 .. Capacity[prev.block] - 1
  /\ split # NULL /\ ~at_end =>
       prev.block = split.start.block /\ prev.at > split.start.at
  /\ at_end \in BOOLEAN

\* The tokens, one behind the other, are the string up to where strtokc stands:
\* nothing is lost, repeated or skipped whichever separator each call is given,
\* none is empty, a token holds its separator at most in front, and
\* strtok_end() is true exactly when the last token has been returned.
TokensCover ==
  split # NULL =>
    LET covered == FlattenSeq([i \in DOMAIN tokens |-> tokens[i].text])
    IN  /\ IsPrefix(covered, split.text)
        /\ at_end <=> covered = split.text
        /\ ~at_end => prev = Ptr(split.start.block, split.start.at + Len(covered))
        /\ \A i \in DOMAIN tokens :
             /\ tokens[i].text # <<>>
             /\ \A k \in 2 .. Len(tokens[i].text) : tokens[i].text[k] # tokens[i].ch

\* While it works strtokc has changed one character of the string, and when it
\* is done none: earlier tokens run on into the rest of the string again.
TextRestored ==
  split # NULL =>
    \A i \in 1 .. Len(split.text) :
      LET p == Ptr(split.start.block, split.start.at + i - 1)
      IN  mem[p.block][p.at] = IF ~at_end /\ p = prev THEN NUL ELSE split.text[i]

\* No function writes behind a block, where the footer of the heap is, and
\* strcmp of a copy with its text tells exactly the byte that is behind the
\* copy: strdup itself writes none.
CopiesInside ==
  /\ \A b \in Blocks : mem[b][Capacity[b]] = NUL
  /\ dup # NULL =>
       strcmp(string(dup.copy), dup.text) = mem[dup.copy.block][Len(dup.text)]

\* What the tests say of strdup: the copy compares equal to the text.
CopyEqual == dup # NULL => strcmp(string(dup.copy), dup.text) = 0
=============================================================================
