-------------------------------- MODULE Stdio --------------------------------
(***************************************************************************)
(* The output streams of src/stdio.c: stdout, which collects bytes in a    *)
(* buffer, and stderr, which hands every call to write(2).  A call is one  *)
(* step per iteration of its loop, and each iteration makes at most one    *)
(* write, whose result the kernel chooses.                                 *)
(***************************************************************************)
EXTENDS Conversions, SequencesExt

CONSTANTS
  BUFFER_SIZE,   \* __STDIO_BUFFER_SIZE (1024)
  TmpSize,       \* sizeof(tmp) in fputi (32)
  Lengths,       \* lengths of the strings the program writes
  Ints,          \* the numbers it writes
  Faults,        \* what write may do: a subset of {"short", "error"}
  MaxSent        \* bound: characters sent to the two streams

ASSUME StdioConstants ==
  /\ BUFFER_SIZE \in Nat /\ BUFFER_SIZE > 1
  /\ TmpSize \in Nat /\ TmpSize > 1 /\ ItoaFits
  /\ Lengths \subseteq Nat /\ Ints \subseteq INT_MIN + enc_span + 1 .. INT_MAX
  /\ Faults \subseteq {"short", "error"} /\ MaxSent \in Nat

Streams == {"stdout", "stderr"}

VARIABLES
  buffer_,        \* the buffer of stdout, stale bytes included
  buffer_index_,  \* the bytes of it that are in use
  file,           \* per stream, the bytes the kernel has accepted
  io,             \* the call in progress
  ret,            \* what the last call returned
  sent,           \* history: per stream, the characters of all calls
  faults,         \* history: <<stream, fault>> of every write not completed
  failed          \* history: a write of the current or last call failed

svars == <<buffer_, buffer_index_, file, io, ret, sent, faults, failed>>

\* Mutant: stderr has a buffer.
never_unbuffered(s) == FALSE

unbuffered(s) == s = "stderr"   \* buffer_index_ == __STDIO_NO_BUFFER

no_call == [op |-> "none", out |-> "stdout", str |-> <<>>, v |-> 0]

idle == io = no_call

Init ==
  /\ buffer_ = [k \in 1 .. BUFFER_SIZE |-> 0]
  /\ buffer_index_ = 0
  /\ file = [s \in Streams |-> <<>>]
  /\ io = no_call
  /\ ret = TRUE
  /\ sent = [s \in Streams |-> <<>>]
  /\ faults = {}
  /\ failed = FALSE

-----------------------------------------------------------------------------
(* write(2) and the buffer                                                 *)

\* What write may return for n bytes: -1 when it fails.
results(n) ==
  {n} \cup (IF "short" \in Faults THEN 1 .. n - 1 ELSE {})
      \cup (IF "error" \in Faults THEN {-1} ELSE {})

\* write(s, bytes) returned w; will the caller write the rest after it?
write(s, bytes, w, retried) ==
  /\ file' = [file EXCEPT ![s] = @ \o SubSeq(bytes, 1, w)]
  /\ faults' = faults \cup
       (IF w < 0 THEN {<<s, "error">>}
        ELSE IF w < Len(bytes) /\ ~retried THEN {<<s, "short">>} ELSE {})
  /\ failed' = (failed \/ w < 0)

buffered == SubSeq(buffer_, 1, buffer_index_)

\* Mutant: after a short write the buffer is kept whole.
flush_keeping(w) ==
  /\ w \in results(buffer_index_)
  /\ buffer_index_' = IF w = buffer_index_ THEN 0 ELSE buffer_index_
  /\ write("stdout", buffered, w, FALSE)
  /\ UNCHANGED buffer_

\* fflush(stdout): forget the buffer, then write what was in it.
flush(w) ==
  /\ w \in results(buffer_index_)
  /\ buffer_index_' = 0
  /\ write("stdout", buffered, w, FALSE)
  /\ UNCHANGED buffer_

\* Copy bytes behind those in use.
append(bytes) ==
  /\ buffer_' = [k \in 1 .. BUFFER_SIZE |->
                   IF k - buffer_index_ \in DOMAIN bytes
                   THEN bytes[k - buffer_index_] ELSE buffer_[k]]
  /\ buffer_index_' = buffer_index_ + Len(bytes)
  /\ UNCHANGED <<file, faults, failed>>

return(r) == io' = no_call /\ ret' = r

\* Mutant: a failed write makes the call return true.
proceed_silently(w, next) ==
  IF w < 0 THEN return(TRUE) ELSE io' = next /\ UNCHANGED ret

\* Go on when a write succeeded, else return false.
proceed(w, next) ==
  IF w < 0 THEN return(FALSE) ELSE io' = next /\ UNCHANGED ret

-----------------------------------------------------------------------------
(* fput_bytes, behind fputs and fputc                                      *)

\* The next n characters for s, each different from all before it.
fresh(s, n) == [j \in 1 .. n |-> 100 + Len(sent[s]) + j]

fputs(s, n) ==
  /\ idle
  /\ io' = [no_call EXCEPT !.op = "bytes", !.out = s, !.str = fresh(s, n)]
  /\ sent' = [sent EXCEPT ![s] = @ \o fresh(s, n)]
  /\ failed' = FALSE
  /\ UNCHANGED <<buffer_, buffer_index_, file, ret, faults>>

\* Mutant: one write, whatever its count.
put_unbuffered_once ==
  /\ io.op = "bytes" /\ io.str # <<>> /\ unbuffered(io.out)
  /\ \E w \in results(Len(io.str)) :
       /\ write(io.out, io.str, w, TRUE)
       /\ return(w >= 0)
  /\ UNCHANGED <<buffer_, buffer_index_, sent>>

put_unbuffered ==
  /\ io.op = "bytes" /\ io.str # <<>> /\ unbuffered(io.out)
  /\ \E w \in results(Len(io.str)) :
       /\ write(io.out, io.str, w, TRUE)
       /\ proceed(w, [io EXCEPT !.str = SubSeq(@, w + 1, Len(@))])
  /\ UNCHANGED <<buffer_, buffer_index_, sent>>

put_flush ==
  /\ io.op = "bytes" /\ io.str # <<>> /\ ~unbuffered(io.out)
  /\ buffer_index_ = BUFFER_SIZE
  /\ \E w \in results(buffer_index_) : flush(w) /\ proceed(w, io)
  /\ UNCHANGED sent

\* Mutant: the chunk is not cut to the room that is left.
put_copy_all ==
  /\ io.op = "bytes" /\ io.str # <<>> /\ ~unbuffered(io.out)
  /\ buffer_index_ # BUFFER_SIZE
  /\ append(io.str)
  /\ io' = [io EXCEPT !.str = <<>>]
  /\ UNCHANGED <<ret, sent>>

put_copy ==
  LET chunk == smaller(BUFFER_SIZE - buffer_index_, Len(io.str))
  IN  /\ io.op = "bytes" /\ io.str # <<>> /\ ~unbuffered(io.out)
      /\ buffer_index_ # BUFFER_SIZE
      /\ append(SubSeq(io.str, 1, chunk))
      /\ io' = [io EXCEPT !.str = SubSeq(@, chunk + 1, Len(@))]
      /\ UNCHANGED <<ret, sent>>

put_return ==
  /\ io.op = "bytes" /\ io.str = <<>>
  /\ return(TRUE)
  /\ UNCHANGED <<buffer_, buffer_index_, file, sent, faults, failed>>

-----------------------------------------------------------------------------
(* fputi                                                                   *)

fputi(s, i) ==
  /\ idle
  /\ io' = [no_call EXCEPT !.op = "int", !.out = s, !.v = i]
  /\ sent' = [sent EXCEPT ![s] = @ \o text(i, 10)]
  /\ failed' = FALSE
  /\ UNCHANGED <<buffer_, buffer_index_, file, ret, faults>>

\* One write per conversion, whose count is not looked at.
int_unbuffered ==
  LET r == itoa(io.v, TmpSize)
  IN  /\ io.op = "int" /\ unbuffered(io.out)
      /\ \E w \in results(Len(r.out)) :
           /\ write(io.out, r.out, w, FALSE)
           /\ IF r.out = <<>> \/ w < 0 \/ r.i = 0
              THEN return(r.out # <<>> /\ w >= 0)
              ELSE io' = [io EXCEPT !.v = r.i] /\ UNCHANGED ret
      /\ UNCHANGED <<buffer_, buffer_index_, sent>>

int_flush ==
  /\ io.op = "int" /\ ~unbuffered(io.out)
  /\ buffer_index_ = BUFFER_SIZE
  /\ \E w \in results(buffer_index_) : flush(w) /\ proceed(w, io)
  /\ UNCHANGED sent

int_convert ==
  LET r == itoa(io.v, BUFFER_SIZE - buffer_index_)
  IN  /\ io.op = "int" /\ ~unbuffered(io.out)
      /\ buffer_index_ # BUFFER_SIZE
      /\ r.out # <<>>
      /\ append(r.out)
      /\ IF r.i = 0 THEN return(TRUE)
         ELSE io' = [io EXCEPT !.v = r.i] /\ UNCHANGED ret
      /\ UNCHANGED sent

\* Mutant: try again without a flush.
int_refused_again ==
  /\ io.op = "int" /\ ~unbuffered(io.out)
  /\ buffer_index_ # BUFFER_SIZE
  /\ itoa(io.v, BUFFER_SIZE - buffer_index_).out = <<>>
  /\ UNCHANGED svars

\* itoa wrote nothing, a sign and a digit do not fit: flush and try again.
int_refused ==
  LET r == itoa(io.v, BUFFER_SIZE - buffer_index_)
  IN  /\ io.op = "int" /\ ~unbuffered(io.out)
      /\ buffer_index_ # BUFFER_SIZE
      /\ r.out = <<>>
      /\ \E w \in results(buffer_index_) :
           flush(w) /\ proceed(w, [io EXCEPT !.v = r.i])
      /\ UNCHANGED sent

-----------------------------------------------------------------------------
(* fflush                                                                  *)

fflush(s) ==
  /\ idle
  /\ IF unbuffered(s)
     THEN ret' = FALSE /\ UNCHANGED <<buffer_, buffer_index_, file, faults, failed>>
     ELSE \E w \in results(buffer_index_) : flush(w) /\ ret' = (w >= 0)
  /\ UNCHANGED <<io, sent>>

step ==
  \/ put_unbuffered \/ put_flush \/ put_copy \/ put_return
  \/ int_unbuffered \/ int_flush \/ int_convert \/ int_refused

\* Room for n more characters under the bound of the run.
in_bound(n) == Len(sent["stdout"]) + Len(sent["stderr"]) + n <= MaxSent

begin ==
  \E s \in Streams :
    \/ \E n \in Lengths : in_bound(n) /\ fputs(s, n)
    \/ \E i \in Ints : in_bound(Len(text(i, 10))) /\ fputi(s, i)

Next == step \/ begin \/ (\E s \in Streams : fflush(s))

\* A call in progress keeps executing.
Spec == Init /\ [][Next]_svars /\ WF_svars(step)
-----------------------------------------------------------------------------

Chars == {MINUS} \cup 0 .. 9 \cup 100 .. 100 + MaxSent

\* Type invariant: the buffer is never overrun.
TypeOK ==
  /\ buffer_ \in [1 .. BUFFER_SIZE -> Chars]
  /\ buffer_index_ \in 0 .. BUFFER_SIZE
  /\ file \in [Streams -> Seq(Chars)] /\ sent \in [Streams -> Seq(Chars)]
  /\ io \in [op: {"none", "bytes", "int"}, out: Streams,
             str: Seq(Chars), v: INT_MIN .. INT_MAX]
  /\ ret \in BOOLEAN /\ failed \in BOOLEAN
  /\ faults \subseteq Streams \X {"short", "error"}

\* What a stream has taken: accepted by the kernel, then still in the buffer.
taken(s) == file[s] \o (IF unbuffered(s) THEN <<>> ELSE buffered)

\* While write takes what it is given, however the calls fall on the buffer,
\* every character arrives once and in order; fput_bytes on stderr makes up
\* for short writes too.
Delivers ==
  \A s \in Streams :
    (\A f \in faults : f[1] # s) =>
      /\ IsPrefix(taken(s), sent[s])
      /\ idle => taken(s) = sent[s]

\* Is s what is left of t when some characters are dropped?
IsSubsequence(s, t) ==
  LET taken_by[k \in 0 .. Len(t)] ==   \* length of the prefix of s found in t[1..k]
        IF k = 0 THEN 0
        ELSE LET m == taken_by[k - 1]
             IN  IF m < Len(s) /\ s[m + 1] = t[k] THEN m + 1 ELSE m
  IN  taken_by[Len(t)] = Len(s)

\* Whatever write does, no stream repeats or reorders: a failed or short flush
\* drops bytes, and the stale buffer is never written a second time.
NeverRepeats == \A s \in Streams : IsSubsequence(taken(s), sent[s])

\* A call that writes reports failure if and only if one of its writes failed.
ReportsFailure ==
  [][~idle /\ idle' => (ret' <=> ~failed')]_svars

\* Every call returns.
CallsReturn == ~idle ~> idle
=============================================================================
