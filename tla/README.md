# A verification model of the freestanding C library

The library replaces libc for freestanding x86-64 programs: a boundary-tag heap
over `brk` and `mmap`, buffered output streams, a resumable integer/text
conversion, `printf`, callbacks at exit, a `_start`, strings and system call
wrappers. Its hard parts are pointer surgery, state that survives from one call to
the next (free list, buffer, partly converted number, callback stack, the cut of
`strtokc`), arithmetic at the edges of types, and system calls that refuse or do
part of their work. It starts no threads, but `malloc` calls lock hooks that a
program with threads may supply.

## Inventory

| Component | State | Operations | Talks to | What makes it correct |
| --- | --- | --- | --- | --- |
| Heap (`src/stdlib.c`) | `head_`, `p_brk_`, headers and footers in memory | `__heap_init`, `malloc`, `free`, `extend` | `brk`, `mmap`, `munmap`, `exit`, `memcpy_small` | blocks tile the heap, links are inverse, no two free neighbours, payloads apart and large enough, calls return |
| Conversions (`src/conversions.c`) | the caller's word, which holds a number or an encoded rest | `itoa*`, `utoa*`, `atoi` | called by `fputi` and the diagnostics | the pieces make up the text; a full buffer or a refusal, never less |
| Streams (`src/stdio.c`) | buffer, index, the call in progress | `fputs`, `fputc`, `fputi`, `fflush` | `write`, `itoa`, `atexit_push` | every byte once and in order, failures reported, calls return |
| Formatter (`src/stdio.c`, `_stdio.h`) | format cursor, count, big-number scratch | `fprintf` and its conversions | streams | text as specified, padding and sign rules, stop at the first failed write |
| Exit (`src/exit.c`) | `atexit[]`, `n_callbacks`, loop index | `atexit_push`, `atexit_pop`, `exit` | every callback, `terminate` | registered callbacks run, last first, once; the process ends |
| Start and end (`src/entry.asm`, `syscalls.asm`, `assert.c`) | stage of the process | `_start`, `abort`, `__assert_fail` | all of the above | streams flushed last, heap failure ends with 2, abort ends with 134 |
| Strings (`src/string/*`) | `strtokc`: `prev`, `missing_char`, `at_end` | `strtokc`, `strdup`, copies, comparison | heap | tokens partition the string; copies are complete |
| Memory copy (`src/memory.c`, `memcpy_small_fsrm.asm`, `init.c`) | function pointer | `memcpy_*` | `extend` | copies n bytes |

`PROJECT.json` lists the hazards of this code with their lines, and for each one
the properties that would catch it going wrong.

## Modules

| Module | Models |
| --- | --- |
| `Heap` | the allocator at the level of the words it reads and writes |
| `Allocator` | what `malloc` and `free` promise: the abstract specification |
| `HeapThreads` | threads over `Heap`, with the lock hooks of `malloc` as a mutex |
| `HeapProofs` | the proofs about `Heap` and `HeapThreads`, and that they implement `Allocator` |
| `Conversions` | the conversions as functions on W-bit words |
| `Resumable` | a caller that resumes a conversion buffer after buffer |
| `ConversionsProofs`, `ResumableProofs` | what one call of a conversion does, and what its caller gets |
| `Fields` | what every field of `fprintf` shares: blanks, sign, padding, case |
| `FloatFormat` | the floating conversions: expansion in big words, rounding, `%f`, `%e`, `%g`, `%a` |
| `FloatMeaning` | the reference for them: exact arithmetic on what the digits say |
| `Printf` | `fprintf`: format, arguments, fields |
| `PrintfProofs` | the proofs about `Printf` |
| `Stdio` | `stdout` and `stderr`, one `write` per step |
| `StdioProofs` | the proofs of delivery, order and reporting |
| `Exit` | callback stack and the loop of `exit` |
| `Process` | composes `Stdio` and `Exit` with `_start`, `main`, `__assert_fail`, `abort` |
| `ProcessProofs` | the proofs about `Exit`, and about callbacks and output in `Process` |
| `Strings` | `strtokc`, `strdup`, the copies and comparison, on reused blocks |
| `StringsProofs` | the proofs about `Strings` |
| `Induction` | how the proofs count: the least number that is a counterexample; sequences put together |
| `MCHeap`, `MCHeapThreads`, `MCResumable`, `MCPrintf`, `MCStdio`, `MCProcess`, `MCStrings` | values of constants for the runs |

A definition whose comment begins with *Mutant* is a deliberately broken
version of the definition that follows it. No specification uses it; putting it
in the place of that definition must make the property named in
`PROJECT.json` fail, which shows that the property depends on the code.

### Heap

Every address the allocator computes is a multiple of 16 bytes and a header and
a footer are 16 bytes each, so memory is a function from 16-byte granules to two
words: the `info` union (link or magic) and the size, here counted in granules.
Heap, headers and payloads share that memory, and programs may store any word of
`Junk` into the payloads they hold, the allocator's own magic included. A malloc
is a step per iteration of its search (`malloc_next`, `malloc_take`,
`malloc_grow`, `malloc_fail`), so the invariants are also checked between the
iterations and across the retry after growth; `free` is one step. The kernel's
part is nondeterministic: the first break, where a map goes, whether a map is
refused; `brk` is refused above `BrkLimit`. `blocks` and `live` are history
variables: the headers of the blocks between the dummies, and the pointers the
program holds with the sizes it asked for.

Byte sizes enter through `align`, with `ALIGN` bytes per granule and the
wrap-around of `size_t` at `SIZE_RANGE`. After `align` the code's sizes are
multiples of 16, so from there on nothing is lost by counting granules. Freeing
a pointer that is not live is undefined (the code says so) and not modelled.

### HeapThreads

The library takes `__malloc_lock` in `malloc` only. The module has the program that
this asks for: the hooks are a mutex, and the program holds the same mutex around
`free`. A thread's `malloc` is a step for the lock, one per iteration of the search,
and one for the return, each in the place where the code unlocks; the retry after a
growth goes on behind the lock. Other threads write to their payloads between any two
of these steps, and queue for the lock. Without the program's part the heap is not
safe: a `free` between two steps of a search may merge the block the search stands on.

### Conversions and Resumable

Words have W bits and ints IntW, fewer, as 64 and 32 in the code. The encoding
range is 2^61 wide when W = 64 and 2^(W-3) in the model; the digit limits 18, 60, 20 and 15 of the code are the largest m with
2 * radix^m <= 2^(W-3), which is how `max_rem_digits` computes them for any W. With
W = 14 decimal numbers stand to the range as they do with W = 64 (the longest
signed number has one digit more than the limit, the longest unsigned two); with
W = 16 the powers of 2, 8 and 16 do. So the small widths exercise the
same refusals and edges. `text` is the reference: positional notation.

### Printf

A format is built from directives (plain text, or the flags, width, precision,
length and specifier of a conversion, as they are written) and handed to the
model as characters, which `parse` reads with the code's cursor moves, taking
arguments for stars. A conversion becomes a sequence of pieces, the
calls of `sink_bytes` that the code joins with `&&`, and each piece is a step that
the stream may refuse. `fields` is a history variable: what the stream took,
directive by directive. `PrintsAsWritten` does not use the code's reading: it
takes the directive as it was written, finds its arguments by counting those of
the directives before it, and describes the field by what it must satisfy (its
digits have the value, zeros only where something asks for them, blanks only up to the
width). Arguments are words of W bits; what an `int` leaves in the upper bits is
arbitrary. A part of a piece that the stream took before failing is not looked at.

A floating-point argument is a word of a scaled format with `ExpBits` bits of exponent,
a `long double` one with its integer bit in front of a shorter fraction; zeros,
denormals, infinities and NaNs included. `FloatFormat` follows
the code: the value as an integer over words of `BigDigits` digits, multiplied by 2 or
by 5 in chunks, then rounding half to even on the digits and layout. `FloatMeaning`
knows none of it: `shows_float` compares the number that the printed digits denote with
the exact value of the argument, and asks for the nearest text that the precision
allows, ties to even, for the style and the exponent of `%g` after rounding, and for
the zeros it may strip.

### Stdio

The kernel answers each `write` of n bytes with n, with less ("short") or with an
error. Characters of strings are all different, so a lost, repeated or moved one
is visible; `fputi` uses `itoa` of `Conversions`, with its refusal when a sign and
a digit do not fit. The buffer keeps its stale bytes, as the array does. `sent`
(what the program handed over) and `faults` are history variables.

### Exit and Process

Callbacks are program code: they may push, pop and call `exit`. An inner `exit`
never returns, so one loop index is enough. `Process` instantiates `Stdio` and
`Exit` over the same variables and adds `stage`. `main` and callbacks print,
register and leave in any order; `flush_streams` is the only callback whose body
is the library's.

A failed assertion writes its message to descriptor 2 in pieces past the streams and
then aborts; the number of pieces (ten) is cut to two.

### Strings

A block is a function from 0 to its capacity; the last index stands for the first byte
behind it, the low byte of the footer's magic `1 << 63`, which is 0. Blocks keep what
their last user left in them. What the heap itself writes into a payload while it is
free (links of blocks that were merged into it) is left out: such bytes only make the
stale text of a copy another one. The
program takes, fills and frees blocks, adds the NUL that `strcpy` and `strncpy` leave
out, and begins `strtokc` at any character of any string it holds, also inside a string
that is being worked on. It does not pass an empty string, where the code reads behind
the NUL, and does not resume in memory that it freed or filled. `split`, `tokens` and
`dup` are history variables.

## Runs

| Run | Bounds | Question and answer |
| --- | --- | --- |
| `heap` | 16 granules of heap, 16 for maps, pages of 4, 2 bytes per granule, 4 request sizes, 2 first breaks | all invariants of the allocator hold |
| `heap_threads` | 2 threads, 12 granules of heap, 4 for maps, one request from the heap and one for a map, no view | the heap implements `Allocator` under threads, the lock is kept and given back, every malloc returns |
| `heap_wrap` | adds the request SIZE_RANGE - 1 | violated: the request wraps to 0 |
| `conversions` | W = 14; words next to powers of two and one in 5 of the rest, outside the encoding range; buffers of 1, 2, 3 and 5 bytes; all eight conversions | the conversions and `atoi` are right |
| `misread` | W = 14, every word | violated: genuine words are taken for suffixes |
| `printf` | one conversion (sets of flags, widths, precisions, lengths, all specifiers in both cases, values on the edges), or up to three directives with text, stars, `%n` and broken conversions; W = 13, int 9, short 6, char 4 bits, 4 bits of exponent, words of 2 decimal digits; failures anywhere | fields, `%n` and the stop at a failure are right |
| `stdio` | buffer of 3, strings of 1 and 4, three numbers, 5 characters in all, short and failing writes | delivery, no repetition, reporting, return |
| `exit_pop` | 3 slots, 2 callbacks, 1 call of exit | violated: pop returns the slot above the top |
| `process` | buffer of 2, strings of 2 and 3, 4 characters in all, 3 slots, one callback besides the library's, 2 calls of exit, messages of 2 pieces, failing writes | the stack is kept, exit drains and ends, assertions are shown |
| `process_short` | 2 slots, short writes | violated: a short flush loses bytes |
| `strings` | blocks of 5 and 3 bytes, five texts, two separators, a char below 0 | tokens are the string, cuts are healed, copies stay inside |
| `strdup` | same | violated: a copy does not end |

Why the bounds are enough. *Heap*: 16 granules hold an initial heap of one page
and a growth of two, or an initial heap of two pages; three or four blocks, which
is what it takes for a block to be freed between two free ones, for the list
order to differ from the address order, for splits that leave room and splits
that do not, and for growth behind a free and a used block. 16 granules of map
space hold two maps. `heap_threads`, which needs whole states, has room for one growth
behind the first page, split and merged blocks, and one map; a third request or more
memory take it past ten minutes. *Streams*: strings shorter and longer than the buffer,
numbers cut at every digit, and a sign that does not fit. *Printf*: four different type
widths, values at the ends of each, fields shorter and longer than their widths,
and three directives so that a misplaced argument shows; exponents that take several
words and several chunks of the expansion, ties, and carries through all digits.
*Process*: a full stack, reuse of a slot, pushes, pops and an exit inside a callback;
what holds of the stack for more callbacks is proved. *Strings*: five bytes hold two
separators and a text in front of, between and behind them, or the stale end of a
longer string behind a copy.

`MCHeap` runs use a VIEW that drops the words no action reads before writing them:
the stale contents of free blocks, and all of a payload but whether it holds
the word the program stored last. `heap_threads` uses no view. No run turns deadlock
checking off: a process that has ended has an explicit self-loop. (`exit_pop` stops at
the violation.)

## Fairness

- `HeapThreads`: weak fairness of the steps of a `malloc` that holds the lock: a
  thread inside the library keeps running. Strong fairness of taking the lock: the
  mutex that the program supplies does not pass over a waiting thread for ever, which
  the library cannot give and any mutex with a queue does. Nothing makes a thread call.
- `Resumable`: `WF(call_with_room)`: the caller keeps coming back with an empty
  buffer, as `fputi` does after a flush.
- `Stdio`: `WF(step)`: a call in progress keeps executing, and `write` returns.
- `Printf`: none, and no liveness property. That the walk ends shows in safety: no
  state is stuck (deadlock is checked), `TypeOK` bounds the fields begun by the
  directives there are, and each field has finitely many pieces.
- `Exit`, `Process`: the library's own steps keep executing, and a callback
  eventually returns or leaves. `MaxExits` bounds the calls of `exit`: a callback
  that calls `exit` each time it runs would never end in the code either.

## Proofs

No proof depends on the bounds of a run: each theorem holds for every value of the
constants that the named assumptions allow (`HeapConstants`, `RequestsFit`,
`WordSize`, `CallerConstants`, `StdioConstants`, `ExitConstants`, `ProcessConstants`,
`StringConstants`, `FloatConstants`, `PrintfConstants`), which TLC evaluates in the runs. They say how constants of the code
relate (a buffer of more than one byte, at least one slot for callbacks, NULL not a
callback or a block); those that are not obvious are named below.

The prover does no induction over data. Where an argument needs one (a walk along a
list, a loop over digits, a match from left to right), `Induction` gives it in the form
of sets: a set of natural numbers that has a member has a least one. The recursive
functions of the model are handled by showing that a function with their equation
exists, which pins down what their `CHOOSE` picks.

### The heap

`HeapProofs` proves `Invariance`, `Spec => []HeapInv`, and from it
`TypeCorrect`, `Intact` (blocks, tags and links), `NothingLost` (accounting),
`CursorSafe` (the search cursor), `MapsKept` (headers of maps) and
`Separation` (payloads disjoint from each other and from all metadata).

`HeapIntact` alone is not inductive: `free` of a pointer keeps the heap intact only
because the pointer heads a used block (`Accounted`), a store only because no
payload reaches metadata, which for maps needs that maps lie apart and above the
break (`MapsApart`) and that their headers tell their length (`MapsHeaded`),
`malloc_take` only because the cursor is on a free block (`CursorOnFreeList`), and
the first step only because nothing exists before it (`NothingYet`). `HeapInv` is
the conjunction.

The argument. `Shape(h, start, bs, F)` says of a memory h that the blocks bs tile
it from start to the break, that tags agree, and that the links of F are inverse.
`HeapProofs` first states which words each operator writes (`InsertHeadEffect`,
`RemoveEffect`, ...; the conclusions are named predicates, `HeadInserted`, `Removed`
and so on), then how tilings change (`TiledSplit`, `TiledJoin`,
`TiledGrow`, `TiledAppend`), then one lemma per operator of the code (`SplitShape`,
`TakeSplitShape`, `TakeWholeShape`, `MergePrevShape`, `MergeNextShape`,
`ReleaseShape`, `ExtendFreeShape`, `ExtendUsedShape`, `InitShape`) that it maps a
memory in shape to one in shape. Then there is one lemma per action; `RebuiltInv`
reduces those that replace the heap to their shape lemma and to `Above`: nothing
from the break on changes.

*Coalescing and growth.* `AlwaysCoalesced` and `RoomAfterGrowth`: `Coalesced` speaks of
footers, which every merge moves; the invariant kept instead, `FreeParted`, says that a
used block lies between any two free ones. It speaks of the set of headers only, so each
operator needs a few lines about that set (`SplitParted`, `ReleaseParted`,
`AppendParted`), and no free block can then follow another (`PartedApart`).

*The walk along the list.* `ListKept` (`FreeListComplete`) and `SearchesAll`
(`GivesUpOnlyWhenFull`). That links are inverse does not keep the free blocks from
lying in a circle that the head is not part of; so `Linked` also says that each free
block is reached from the head in some number of steps (`Reached`), which insertion and
removal keep. A walk from the head then visits no block twice, ends within as many
steps as there are blocks, and misses none; and what a search has passed
(`AlwaysPassed`) is every free block in front of its cursor, each too small.

*Refinement.* `Implements`: every behaviour of `Heap` is one of `Allocator`. Beyond
`HeapInv` it needs that the block a search asks for
covers the request (`AskedCovered`) and that a live block keeps its size while others
are split and merged (`Spared`, `EntryKept`); hence also `LargeEnough`
(`PayloadCovers`). The assumption `RequestsFit` leaves out the requests next to
`SIZE_MAX` that wrap: the run `heap_wrap` shows that the theorem is false with them.

*Threads.* `ThreadsInvariance` and from it `LockSafe` (who holds the
lock, and that a search is only in progress under it) and `ThreadsApart` (payloads of
different threads are disjoint): a step of a thread is a step of `Heap` or leaves the
heap alone, so `HeapInv` carries over; `ThreadsImplement` follows in the same way from
the refinement.

### Conversions

`ConversionsProofs` says what one call does (`Converted`): it writes a front of the text
that the word stands for and leaves a word that stands for the rest (`Stands`), or
refuses a word of which nothing was written. `LeadingJoin` is the core: the first k of
d digits of v, then the d - k digits of `v % radix^(d-k)`, leading zeros included, are
the d digits of v. A word that is left lies in the range of encodings (`Meaningful`)
because the digits left are few enough. Powers are the function `pow`, since the
provers know nothing of `^`.

`ResumableProofs` adds up the calls: in `ResumableInv` the characters written and what
the word stands for are together the text of the input. From it `WordsStay`
(`TypeOK`), `TextWritten` (`WritesText`), `BuffersFilled` (`FillsOrRefuses`) and
`ReadsBack` (`RoundTrip`), for all eight conversions, every width of words and every
size of the buffers. Two hypotheses are needed. `Genuine`: no input is a
word that the code itself takes for an encoded rest; the run `misread` shows that the
theorem is false with them. `ItoaFits`: the digits that itoa leaves of the longest
number have an encoding, which `itoa`, unlike the others, does not check; for W = 64 it
says that 2 * 10^18 is at most 2^61. The sizes of buffers are not 0, as in `fputi`.

### Formatted output

`PrintfProofs` proves `PrintfTypes` (`TypeOK`), `StoresCount` (`CountsPrinted`),
`StopsAfterFailure` (`NothingAfterFailure`) and `PrintsWhatIsMeant` (`PrintsAsWritten`
but where a finite floating point number is printed), for every format, all words as
arguments, every width of the types, and failures anywhere.

`PrintsAsWritten` speaks of a field when it is complete; the walk by itself knows
nothing of directives. `IInv` ties them together: the cursor stands where the text of
a directive begins (`begins`, the texts of those before it put together), and `arg` at
the first of the arguments that this directive takes (`Walks`); what the stream has
taken for the last directive and what is still to be handed over, one behind the
other, is what that directive prints (`FieldShown`); the count is the length of all
fields (`Counted`), which is what makes every `%n` right later (`Stores`). Once the
stream has failed, only the types and what was stored remain.

The proof that a step of the loop keeps it has three layers.

- *Reading.* `DirectiveStands` and `ReadsAsMeant`: where the walk finds a directive,
  `parse` ends where the next one begins and reads the flags, width, precision, length
  and specifier that were written. That needs formats that can be read in one way
  only, which `PrintfConstants` asks for: a number, a flag or a letter of the length is
  never followed by a character that continues it (`more`), plain text has no `%`
  and is not followed by plain text, numbers fit in an `int`, and only the last
  directive may lack a specifier. Every format is a sequence of such directives: the
  assumption says which, not that there are no others. `ArgsBefore` counts arguments;
  the list is long enough, which a call of a variadic function must see to.
- *Printing.* `OutputShown`: the pieces of a conversion, put together, are what it
  means. Each part of a field has its lemma (`FieldAround`, `FieldFits` and `FieldFilled`
  for blanks and zeros up to the width, `LeadMeans` for sign and prefix, `ZerosAndDigits`
  and `DigitsRight` for precision, alternate form and digits, whose value
  `PositionalBy` computes, `CutIs` for strings, `SpecialShown` for infinities and what is
  not a number).
- *Walking.* `LoopDone`: each action of the loop is done with exactly one directive
  (`consumed`), or refuses a wide character; `PieceKeeps` and `EndKeeps` are about the
  stream's steps.

TLC has also checked `IInv` on the run `printf`, with `FieldShown` for the last field.
In the model a number has as many digits as it needs, so the theorem says nothing of a
star width of INT_MIN or of a precision that overflows, where the code has undefined
behaviour (see *Not modelled*).

### Streams

`StdioProofs` proves `StreamsTyped` (`TypeOK`), `StreamsDelivered` (`Delivers`),
`StreamsInOrder` (`NeverRepeats`) and `StreamsReport` (`ReportsFailure`) for
every size of the buffer, every string and number and every result of `write`.
`Delivers` says "a prefix" while a call goes on,
which no step can be shown to keep; `StreamsInv` says what is missing
(`Pending`: the rest of the string of the call, or what the word of `fputi` stands for)
and that no write of a call in progress has failed, since the first failure ends it.
What a stream has taken and what is pending, one behind the other, is `Whole`. A step
moves the border between the two, and a write that is not completed drops a part in
between (`Drops`): without a fault `Whole` stays what was sent, and with faults it stays
what was sent without some characters (`Within`, an order-preserving embedding).
`WithinIsSubsequence` shows that the greedy match of `NeverRepeats` finds any such
embedding. `FlushEffect`, `AppendEffect` and `WriteEffect`
say what a flush, a copy and a write do to the bytes of the buffer and the file; the
rest is one lemma per action. Numbers need `ItoaFits`, and a `tmp` of more than one
byte, into which a sign and a digit fit.

### Exit and the process

`ProcessProofs` first proves `ExitInvariance` for any
number of slots and callbacks. In `ExitInv`, `RunsLIFO` speaks of
reversed sequences and says nothing of the count; `DueInv` says the same slot by slot
and adds that the slots yet to be called lie below the count, without which a push
inside a callback could overwrite one. `LoopInv` keeps the index from passing 0 inside
a callback. Every step of `Process` is a step of `Exit` or
leaves its variables alone, so the same holds in the composition with streams,
assertions and `abort`: `ProcessStackKept`, `ProcessNeverNull`, `ProcessLIFO`.

It then composes the two components: `ProcessTyped` (`TypeOK`), `ExitWritesAll`
(`DrainsAtExit`) and `AbortWritesMost` (`AbortLosesOnlyBuffer`). `ProcessInv` adds to
`ExitInv` and `StreamsInv` what ties them
together: that the loop of `exit`, a failed assertion and `abort` find no call in
progress (`Quiet`); that a flush that is due stays in slot 0 whatever callbacks push,
and that the buffer is empty when the loop is past it (`FlushKept`); and that while a
failed assertion writes past the streams, stderr lacks just what is still to be said
(`StreamsKept`). `ExitDrains`, which allows short writes, is false: the run
`process_short` shows it.

### Strings

`StringsProofs` proves `StringsTyped` (`TypeOK`), `Restored` (`TextRestored`), `Covered`
(`TokensCover`) and `Inside` (`CopiesInside`) for all blocks, texts and separators, also
when the program begins to split a string inside another that is being split, and
fills, copies and frees the others meanwhile. `StringsInv` says of the bytes of the
block with the last cut undone (`healed`) that the text lies there as it was when the
splitting began; that the tokens together are a front of it
(`Begins`) that ends where `prev` stands; and that `missing_char` is the character
under the cut. `CutEffect` says what one call of `strtokc` writes and returns.
`StringConstants` has NULL differ from pointers, blocks and histories.

### Only model-checked

- Liveness (`MallocsReturn`, `Completes`, `CallsReturn`, `ExitEnds`,
  `HeapFailureExits`): fairness and `ENABLED` are outside what the prover does.
- What `%f`, `%e`, `%g` and `%a` print of a finite number (`PrintsAsWritten` at those
  directives). `FloatTyped` proves that they hand over characters, so that the walk, the
  count and all other directives are right next to them; the expansion in big words,
  the rounding and the choice of the style are checked by the run, against exact
  arithmetic. The reference looks for the first digit between fixed powers of ten
  (`tens`), which the words of the run do not exceed, so it is not one for all widths.

## Disagreements between the code and what is said of it

- A request within 15 bytes of `SIZE_MAX` gets an empty block (`heap_wrap`).
- Integers next to `INT64_MIN` and `UINT64_MAX` are taken for encoded rests by the
  conversions (`misread`).
- `fflush` treats a short `write` as complete, so `exit` does not drain `stdout`
  (`process_short`).
- `atexit_pop` returns the slot above the last callback (`exit_pop`).
- `strdup` copies no NUL, and its copy in a reused block does not end (`strdup`).

## Not modelled

- NULL arguments of the conversions and the streams, and the buffers as addresses.
- In `fprintf`: what the C standard leaves undefined, such as a star width of INT_MIN
  (negated, it is taken for a huge size), a precision that overflows when an exponent is
  added, or arguments of the wrong type.
- The memory copies: the build has neither AVX nor FSRM code paths. `memcpy_small` and
  `memcpy_large` are compiled as a byte loop (`src/memory.c`), which `extend` uses and
  `Heap` models as a copy; the FSRM stub is jumped over by `_start`, and
  `strlen.asm` builds to the object name of `strlen.c`.
- `fork`, `execve`, `times`, `nanosleep`: wrappers without state or caller.
- The printing under `__LIBC_TEST`, except the walk along the free list, which
  `free_list` follows.
- Popping an empty callback stack, freeing what is not live, and `strtokc` on an empty
  string: undefined.
- `free` without the program's mutex while another thread is inside `malloc`.
- `write` returning 0 for a non-empty buffer, which Linux does not do.
- `argc`, `argv` and `envp`: `_start` computes `envp` as the address of argv's NULL.

## Plan

1. `Printf` over `Stdio`, so that `%n` and failures meet the buffer.
2. Start-up stack: `argc`, `argv`, `envp`.
3. The value of the big words behind `%f`, and that rounding their digits rounds it.
