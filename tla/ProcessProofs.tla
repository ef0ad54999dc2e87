---------------------------- MODULE ProcessProofs ----------------------------
(***************************************************************************)
(* Exit, for every number of slots, set of callbacks and number of calls   *)
(* of exit: the stack of callbacks is kept, exit calls what is due, last   *)
(* in first out, and never calls through NULL.                             *)
(*                                                                         *)
(* This holds in the whole process: each step of _start, of main, of a     *)
(* callback or of the streams is a step of Exit or leaves the callbacks    *)
(* alone.  With what StdioProofs shows of the streams it follows that a    *)
(* process that exits has written all of what it printed, and that abort   *)
(* loses at most a buffer.                                                 *)
(***************************************************************************)
EXTENDS Process, SequenceTheorems, TLAPS

\* Callbacks that the loop has yet to call.
Left == IF pc = "callback" THEN j ELSE j + 1

\* Where the loop of exit stands.
LoopInv ==
  /\ pc = "callback" => j >= 0
  /\ pc \in {"main", "terminated"} => j = -1

\* RunsLIFO, slot by slot, and that the slots still to be called lie below the
\* count, so that what a callback pushes goes above them.
DueInv ==
  pc # "main" /\ ~disturbed =>
    /\ Left <= n_callbacks
    /\ Len(due) = Left + Len(ran)
    /\ \A i \in 1 .. Len(ran) : ran[i] = due[Len(due) + 1 - i]
    /\ \A k \in 1 .. Left : atexit[k - 1] = due[k]

ExitInv == E!TypeOK /\ E!StackKept /\ E!NoNullCall /\ LoopInv /\ DueInv

-----------------------------------------------------------------------------

LEMMA InitExit ==
  ASSUME E!ExitConstants, E!Init
  PROVE  ExitInv
<1>1. E!TypeOK
  <2>1. <<>> \in Seq(Callbacks)
    BY EmptySeq
  <2>2. 0 \in 0 .. ATEXIT_MAX_CALLBACKS /\ -1 \in -1 .. ATEXIT_MAX_CALLBACKS - 1 /\ 0 \in 0 .. MaxExits
    BY DEF E!ExitConstants
  <2> QED BY <2>1, <2>2 DEF E!Init, E!TypeOK
<1>2. E!StackKept
  BY EmptySeq DEF E!Init, E!StackKept
<1> QED
  BY <1>1, <1>2 DEF E!Init, ExitInv, E!NoNullCall, LoopInv, DueInv

LEMMA PushKept ==
  ASSUME E!ExitConstants, ExitInv, NEW f \in Callbacks, E!atexit_push(f)
  PROVE  ExitInv'
<1> USE DEF E!ExitConstants
<1>1. n_callbacks < ATEXIT_MAX_CALLBACKS /\ n_callbacks \in Nat
  BY DEF ExitInv, E!TypeOK, E!atexit_push
<1>2. /\ stack' \in Seq(Callbacks)
      /\ Len(stack') = Len(stack) + 1
      /\ \A k \in 1 .. Len(stack) : stack'[k] = stack[k]
      /\ stack'[Len(stack) + 1] = f
  BY AppendProperties DEF ExitInv, E!TypeOK, E!atexit_push
<1>3. /\ \A k \in 0 .. n_callbacks - 1 : atexit'[k] = atexit[k]
      /\ atexit'[n_callbacks] = f
      /\ \A k \in 0 .. ATEXIT_MAX_CALLBACKS - 1 : atexit'[k] \in {f, atexit[k]}
  BY <1>1 DEF ExitInv, E!TypeOK, E!atexit_push
<1>4. E!TypeOK'
  BY <1>1, <1>2 DEF ExitInv, E!TypeOK, E!atexit_push
<1>5. E!StackKept'
  <2>1. Len(stack') = n_callbacks'
    BY <1>2 DEF ExitInv, E!StackKept, E!atexit_push
  <2>2. ASSUME NEW k \in 1 .. n_callbacks'
        PROVE  atexit'[k - 1] = stack'[k]
    <3>1. CASE k <= n_callbacks
      BY <3>1, <1>1, <1>2, <1>3 DEF ExitInv, E!StackKept
    <3>2. CASE k = n_callbacks + 1
      BY <3>2, <1>1, <1>2, <1>3 DEF ExitInv, E!StackKept
    <3>3. k <= n_callbacks \/ k = n_callbacks + 1
      BY <1>1 DEF E!atexit_push
    <3> QED BY <3>1, <3>2, <3>3
  <2> QED BY <2>1, <2>2 DEF E!StackKept
<1>6. E!NoNullCall'
  BY <1>1, <1>3 DEF ExitInv, E!NoNullCall, E!TypeOK, E!atexit_push
<1>7. LoopInv'
  BY DEF ExitInv, LoopInv, E!atexit_push
<1>8. DueInv'
  <2> SUFFICES ASSUME pc' # "main", ~disturbed'
               PROVE  DueInv'
    BY DEF DueInv
  <2>1. /\ pc # "main" /\ ~disturbed /\ Left' = Left /\ due' = due /\ ran' = ran
        /\ Left \in Int
    BY DEF E!atexit_push, Left, ExitInv, E!TypeOK
  <2>2. \A k \in 1 .. Left : atexit'[k - 1] = due[k]
    BY <2>1, <1>1, <1>3 DEF ExitInv, DueInv
  <2> QED BY <2>1, <2>2, <1>1 DEF DueInv, ExitInv, E!atexit_push
<1> QED BY <1>4, <1>5, <1>6, <1>7, <1>8 DEF ExitInv

LEMMA PopKept ==
  ASSUME E!ExitConstants, ExitInv, E!atexit_pop
  PROVE  ExitInv'
<1> USE DEF E!ExitConstants
<1>1. n_callbacks \in 1 .. ATEXIT_MAX_CALLBACKS /\ Len(stack) = n_callbacks
  BY DEF ExitInv, E!TypeOK, E!StackKept, E!atexit_pop
<1>2. /\ stack' \in Seq(Callbacks)
      /\ Len(stack') = n_callbacks - 1
      /\ \A k \in 1 .. n_callbacks - 1 : stack'[k] = stack[k]
  <2>1. stack' = SubSeq(stack, 1, n_callbacks - 1)
    BY <1>1 DEF E!atexit_pop, E!Front
  <2> QED BY <2>1, <1>1, SubSeqProperties DEF ExitInv, E!TypeOK
<1>3. popped' \in Callbacks \cup {NULL}
  BY <1>1 DEF E!atexit_pop, E!slot, ExitInv, E!TypeOK
<1>4. E!TypeOK'
  BY <1>1, <1>2, <1>3 DEF ExitInv, E!TypeOK, E!atexit_pop
<1>5. E!StackKept'
  BY <1>1, <1>2 DEF ExitInv, E!StackKept, E!atexit_pop
<1>6. E!NoNullCall' /\ LoopInv'
  BY DEF ExitInv, E!NoNullCall, LoopInv, E!atexit_pop
<1>7. DueInv'
  BY DEF DueInv, ExitInv, E!atexit_pop, E!in_program
<1> QED BY <1>4, <1>5, <1>6, <1>7 DEF ExitInv

LEMMA ExitKept ==
  ASSUME E!ExitConstants, ExitInv, E!exit
  PROVE  ExitInv'
<1> USE DEF E!ExitConstants
<1>1. n_callbacks \in 0 .. ATEXIT_MAX_CALLBACKS /\ Len(stack) = n_callbacks
  BY DEF ExitInv, E!TypeOK, E!StackKept
<1>2. \A k \in 1 .. n_callbacks : atexit[k - 1] = stack[k] /\ stack[k] \in Callbacks
  BY <1>1, ElementOfSeq DEF ExitInv, E!StackKept, E!TypeOK
<1>3. E!TypeOK'
  <2>1. <<>> \in Seq(Callbacks)
    BY EmptySeq
  <2>2. n_callbacks - 1 \in -1 .. ATEXIT_MAX_CALLBACKS - 1
    BY <1>1
  <2>3. exits < MaxExits /\ exits' = exits + 1
    BY DEF E!exit
  <2>4. exits \in 0 .. MaxExits /\ stack \in Seq(Callbacks)
    BY DEF ExitInv, E!TypeOK
  <2>5. exits' \in 0 .. MaxExits
    BY <2>3, <2>4
  <2> QED BY <2>1, <2>2, <2>4, <2>5 DEF ExitInv, E!TypeOK, E!exit
<1>4. E!NoNullCall'
  <2>1. ASSUME NEW k \in 0 .. j'
        PROVE  atexit'[k] # NULL
    <3>1. k + 1 \in 1 .. n_callbacks /\ (k + 1) - 1 = k
      BY <1>1 DEF E!exit
    <3> QED BY <3>1, <1>2 DEF E!exit
  <2> QED BY <2>1 DEF E!NoNullCall
<1>5. E!StackKept' /\ LoopInv'
  BY DEF ExitInv, E!StackKept, LoopInv, E!exit
<1>6. DueInv'
  <2>1. Left' = n_callbacks /\ ran' = <<>> /\ due' = stack
    BY <1>1 DEF E!exit, Left
  <2> QED BY <2>1, <1>1, <1>2, EmptySeq DEF DueInv, E!exit
<1> QED BY <1>3, <1>4, <1>5, <1>6 DEF ExitInv

LEMMA CallKept ==
  ASSUME E!ExitConstants, ExitInv, E!exit_call
  PROVE  ExitInv'
<1> USE DEF E!ExitConstants
<1>1. j \in 0 .. ATEXIT_MAX_CALLBACKS - 1 /\ atexit[j] \in Callbacks
  BY DEF ExitInv, E!TypeOK, E!NoNullCall, E!exit_call
<1>2. /\ ran' \in Seq(Callbacks)
      /\ Len(ran') = Len(ran) + 1
      /\ \A i \in 1 .. Len(ran) : ran'[i] = ran[i]
      /\ ran'[Len(ran) + 1] = atexit[j]
      /\ Len(ran) \in Nat
  BY <1>1, AppendProperties, LenProperties DEF ExitInv, E!TypeOK, E!exit_call
<1>3. E!TypeOK'
  BY <1>1, <1>2 DEF ExitInv, E!TypeOK, E!exit_call
<1>4. E!StackKept' /\ E!NoNullCall' /\ LoopInv'
  BY <1>1 DEF ExitInv, E!StackKept, E!NoNullCall, LoopInv, E!exit_call
<1>5. DueInv'
  <2> SUFFICES ASSUME ~disturbed'
               PROVE  DueInv'
    BY DEF DueInv
  <2>1. Left' = j /\ Left = j + 1 /\ n_callbacks' = n_callbacks /\ due' = due
        /\ atexit' = atexit
    BY DEF E!exit_call, Left
  <2>2. /\ Left <= n_callbacks /\ Len(due) = Left + Len(ran)
        /\ \A i \in 1 .. Len(ran) : ran[i] = due[Len(due) + 1 - i]
        /\ \A k \in 1 .. Left : atexit[k - 1] = due[k]
        /\ n_callbacks \in Nat
    BY DEF ExitInv, DueInv, E!TypeOK, E!exit_call
  <2>3. atexit[j] = due[j + 1]
    <3>1. j + 1 \in 1 .. Left /\ (j + 1) - 1 = j
      BY <2>1, <1>1
    <3> QED BY <3>1, <2>2
  <2>4. \A i \in 1 .. Len(ran') : ran'[i] = due[Len(due) + 1 - i]
    <3> SUFFICES ASSUME NEW i \in 1 .. Len(ran) + 1
                 PROVE  ran'[i] = due[Len(due) + 1 - i]
      BY <1>2
    <3>1. CASE i <= Len(ran)
      BY <3>1, <2>2, <1>2
    <3>2. CASE i = Len(ran) + 1
      <4>1. Len(due) + 1 - i = j + 1
        BY <3>2, <2>1, <2>2, <1>1, <1>2
      <4> QED BY <4>1, <3>2, <2>3, <1>2
    <3> QED BY <3>1, <3>2, <1>2
  <2>5. Left' <= n_callbacks' /\ Len(due') = Left' + Len(ran')
    BY <2>1, <2>2, <1>1, <1>2
  <2>6. \A k \in 1 .. Left' : atexit'[k - 1] = due'[k]
    BY <2>1, <2>2, <1>1
  <2> QED BY <2>1, <2>4, <2>5, <2>6 DEF DueInv
<1> QED BY <1>3, <1>4, <1>5 DEF ExitInv

LEMMA ReturnKept ==
  ASSUME E!ExitConstants, ExitInv, E!callback_returns
  PROVE  ExitInv'
<1> USE DEF E!ExitConstants
<1>1. j \in 0 .. ATEXIT_MAX_CALLBACKS - 1
  BY DEF ExitInv, E!TypeOK, LoopInv, E!callback_returns
<1>2. E!TypeOK' /\ E!StackKept' /\ LoopInv'
  BY <1>1 DEF ExitInv, E!TypeOK, E!StackKept, LoopInv, E!callback_returns
<1>3. E!NoNullCall'
  BY <1>1 DEF ExitInv, E!NoNullCall, E!callback_returns
<1>4. Left' = Left
  BY <1>1 DEF Left, E!callback_returns
<1>5. DueInv'
  BY <1>4 DEF ExitInv, DueInv, E!callback_returns
<1> QED BY <1>2, <1>3, <1>5 DEF ExitInv

LEMMA TerminateKept ==
  ASSUME E!ExitConstants, ExitInv, E!exit_terminate
  PROVE  ExitInv'
<1> USE DEF E!ExitConstants
<1>1. j = -1
  BY DEF ExitInv, E!TypeOK, E!exit_terminate
<1>2. E!TypeOK' /\ E!StackKept' /\ LoopInv' /\ E!NoNullCall'
  BY <1>1 DEF ExitInv, E!TypeOK, E!StackKept, LoopInv, E!NoNullCall, E!exit_terminate
<1>3. Left' = Left
  BY DEF Left, E!exit_terminate
<1>4. DueInv'
  BY <1>3 DEF ExitInv, DueInv, E!exit_terminate
<1> QED BY <1>2, <1>4 DEF ExitInv

LEMMA StutterKept ==
  ASSUME ExitInv, UNCHANGED E!evars
  PROVE  ExitInv'
BY DEF ExitInv, E!TypeOK, E!StackKept, E!NoNullCall, LoopInv, DueInv, Left, E!evars

-----------------------------------------------------------------------------

\* Every step keeps ExitInv, whatever callbacks push, pop and exit.
LEMMA ExitStep ==
  ASSUME E!ExitConstants, ExitInv, [E!Next]_E!evars
  PROVE  ExitInv'
<1>1. ASSUME NEW f \in Callbacks, E!atexit_push(f) PROVE ExitInv'
  BY <1>1, PushKept
<1>2. CASE E!atexit_push_full
  BY <1>2, StutterKept DEF E!atexit_push_full
<1>3. CASE E!atexit_pop
  BY <1>3, PopKept
<1>4. CASE E!exit
  BY <1>4, ExitKept
<1>5. CASE E!exit_call
  BY <1>5, CallKept
<1>6. CASE E!callback_returns
  BY <1>6, ReturnKept
<1>7. CASE E!exit_terminate
  BY <1>7, TerminateKept
<1>8. CASE UNCHANGED E!evars
  BY <1>8, StutterKept
<1> QED
  BY <1>1, <1>2, <1>3, <1>4, <1>5, <1>6, <1>7, <1>8 DEF E!Next

\* ExitInv is an inductive invariant.
THEOREM ExitInvariance == ASSUME E!ExitConstants PROVE E!Spec => []ExitInv
<1>1. E!Init => ExitInv
  BY InitExit
<1>2. ExitInv /\ [E!Next]_E!evars => ExitInv'
  BY ExitStep
<1> QED BY <1>1, <1>2, PTL DEF E!Spec

\* What an undisturbed loop has called is the reverse of the end of what was
\* due, and when the process terminates nothing is left.
LEMMA DueIsLIFO ==
  ASSUME E!ExitConstants, ExitInv
  PROVE  E!RunsLIFO
<1> SUFFICES ASSUME pc # "main", ~disturbed
             PROVE  /\ ran = E!Reverse(SubSeq(due, Left + 1, Len(due)))
                    /\ \A k \in 1 .. Left : atexit[k - 1] = due[k]
                    /\ pc = "terminated" => Left = 0
  BY DEF E!RunsLIFO, Left
<1> DEFINE last == SubSeq(due, Left + 1, Len(due))
<1>1. /\ Left \in Nat /\ Len(ran) \in Nat /\ Len(due) = Left + Len(ran)
      /\ \A i \in 1 .. Len(ran) : ran[i] = due[Len(due) + 1 - i]
      /\ \A k \in 1 .. Left : atexit[k - 1] = due[k]
      /\ pc = "terminated" => Left = 0
  <2>1. Left \in Nat /\ (pc = "terminated" => Left = 0)
    BY DEF E!ExitConstants, ExitInv, E!TypeOK, LoopInv, Left
  <2>2. Len(ran) \in Nat
    BY LenProperties DEF ExitInv, E!TypeOK
  <2> QED BY <2>1, <2>2 DEF ExitInv, DueInv
<1>2. /\ Len(last) = Len(ran)
      /\ \A m \in 1 .. Len(ran) : last[m] = due[Left + m]
  <2>1. due \in Seq(Callbacks)
    BY DEF ExitInv, E!TypeOK
  <2>2. Left + 1 \in Int /\ Len(due) \in Int
    BY <1>1
  <2>3. last = [m \in 1 .. Len(due) - Left |-> due[Left + m]]
    BY <2>1, <2>2, <1>1
  <2>4. last \in Seq(Callbacks) /\ Len(last) = Len(due) - Left
    BY <2>1, <1>1, SubSeqProperties
  <2> QED BY <2>3, <2>4, <1>1
<1>3. \A i \in 1 .. Len(ran) : ran[i] = last[Len(ran) - i + 1]
  <2> SUFFICES ASSUME NEW i \in 1 .. Len(ran)
               PROVE  ran[i] = last[Len(ran) - i + 1]
    OBVIOUS
  <2>1. Len(ran) - i + 1 \in 1 .. Len(ran) /\ Left + (Len(ran) - i + 1) = Len(due) + 1 - i
    BY <1>1
  <2>2. last[Len(ran) - i + 1] = due[Left + (Len(ran) - i + 1)]
    BY ONLY <2>1, <1>2
  <2>3. due[Left + (Len(ran) - i + 1)] = due[Len(due) + 1 - i]
    BY ONLY <2>1
  <2>4. ran[i] = due[Len(due) + 1 - i]
    BY ONLY <1>1, i \in 1 .. Len(ran)
  <2> QED BY ONLY <2>2, <2>3, <2>4
<1>4. ran = [i \in 1 .. Len(ran) |-> ran[i]]
  BY LenProperties DEF ExitInv, E!TypeOK
<1>5. ran = E!Reverse(last)
  BY <1>2, <1>3, <1>4 DEF E!Reverse
<1> QED BY <1>1, <1>5

-----------------------------------------------------------------------------
(* The callbacks of a process                                              *)

\* A step of the process is one of the callbacks or leaves them alone.
LEMMA ProcessStep ==
  ASSUME [Next]_vars
  PROVE  [E!Next]_callbacks
<1> USE DEF pvars
<1>1. CASE start_step
  <2>1. CASE __stdio_register_streams
    BY <2>1, ProcessConstants DEF __stdio_register_streams, E!Next
  <2>2. CASE __heap_init
    BY <2>2 DEF __heap_init, callbacks
  <2>3. CASE __heap_init_fails
    BY <2>3 DEF __heap_init_fails, E!Next
  <2> QED BY <1>1, <2>1, <2>2, <2>3 DEF start_step
<1>2. CASE prints
  BY <1>2 DEF prints, callbacks
<1>3. CASE registers
  BY <1>3 DEF registers, E!Next
<1>4. CASE callback_returns
  BY <1>4 DEF callback_returns, E!Next
<1>5. CASE __assert_fail
  BY <1>5 DEF __assert_fail, callbacks
<1>6. CASE abort
  BY <1>6 DEF abort, callbacks
<1>7. ASSUME NEW code \in {0, 1}, exits_with(code) PROVE E!Next
  BY <1>7 DEF exits_with, E!Next
<1>8. CASE library_step
  <2>1. CASE stream_step
    BY <2>1 DEF stream_step, callbacks
  <2>2. CASE flush_streams_writes
    BY <2>2 DEF flush_streams_writes, callbacks
  <2>3. CASE flush_streams_returns
    BY <2>3 DEF flush_streams_returns, E!Next
  <2>4. CASE exit_call
    BY <2>4 DEF exit_call, E!Next
  <2>5. CASE terminate
    BY <2>5 DEF terminate, E!Next
  <2>6. CASE assert_writes
    BY <2>6 DEF assert_writes, callbacks
  <2>7. CASE abort
    BY <2>7, <1>6
  <2> QED
    BY <1>8, <2>1, <2>2, <2>3, <2>4, <2>5, <2>6, <2>7 DEF library_step
<1>9. CASE ended \/ UNCHANGED vars
  BY <1>9 DEF ended, vars, callbacks
<1> QED
  BY <1>1, <1>2, <1>3, <1>4, <1>5, <1>6, <1>7, <1>8, <1>9 DEF Next

\* The process implements Exit, so Exit's invariant holds in it.
THEOREM CallbacksInvariance == Spec => []ExitInv
<1>1. Init => ExitInv
  <2>1. ASSUME Init PROVE ExitInv
    BY <2>1, ProcessConstants, InitExit DEF Init
  <2> QED BY <2>1
<1>2. ExitInv /\ [Next]_vars => ExitInv'
  <2> SUFFICES ASSUME ExitInv, [Next]_vars
               PROVE  ExitInv'
    OBVIOUS
  <2>1. E!ExitConstants
    BY ProcessConstants
  <2>2. [E!Next]_E!evars
    BY ProcessStep DEF callbacks, E!evars
  <2> QED BY <2>1, <2>2, ExitStep
<1> QED BY <1>1, <1>2, PTL DEF Spec

\* The slots below the count hold what was pushed and not popped, the
\* library's flush included, at every step of the process.
THEOREM ProcessStackKept == Spec => []StackKept
<1>1. ExitInv => StackKept BY DEF ExitInv, StackKept, NoNullCall
<1> QED BY <1>1, CallbacksInvariance, PTL

\* No callback is called through NULL in a process.
THEOREM ProcessNeverNull == Spec => []NoNullCall
<1>1. ExitInv => NoNullCall BY DEF ExitInv, StackKept, NoNullCall
<1> QED BY <1>1, CallbacksInvariance, PTL

\* In a process exit runs what was registered, last first and each once,
\* whatever the callbacks print, register or exit.
THEOREM ProcessLIFO == Spec => []RunsLIFO
<1>1. ExitInv => RunsLIFO
  BY ProcessConstants, DueIsLIFO DEF RunsLIFO
<1> QED BY <1>1, CallbacksInvariance, PTL
-----------------------------------------------------------------------------
(* The streams: S and D are instances over the same constants and variables *)

D == INSTANCE StdioProofs

LEMMA SamePowers ==
  /\ \A b, n : S!pow(b, n) = D!pow(b, n)
  /\ \A t, radix : S!digits_total(t, radix) = D!digits_total(t, radix)
  /\ \A n : S!magnitude(n) = D!magnitude(n)
  /\ S!MINUS = D!MINUS
<1>1. \A b, n : S!pow(b, n) = D!pow(b, n) BY DEF S!pow, D!pow
<1>2. \A t, radix : S!digits_total(t, radix) = D!digits_total(t, radix)
  BY DEF S!digits_total, D!digits_total
<1>3. (\A n : S!magnitude(n) = D!magnitude(n)) /\ S!MINUS = D!MINUS
  BY DEF S!magnitude, D!magnitude, S!MINUS, D!MINUS
<1> QED BY <1>1, <1>2, <1>3

LEMMA SameWords ==
  /\ S!INT_MIN = D!INT_MIN /\ S!INT_MAX = D!INT_MAX /\ S!enc_span = D!enc_span
  /\ \A x, is_signed : S!encode(x, is_signed) = D!encode(x, is_signed)
  /\ \A x : S!unsigned(x) = D!unsigned(x)
  /\ \A i : S!signed_is_encoded(i) <=> D!signed_is_encoded(i)
  /\ S!ItoaFits <=> D!ItoaFits
<1>1. S!INT_MIN = D!INT_MIN /\ S!INT_MAX = D!INT_MAX /\ S!enc_span = D!enc_span
  BY SamePowers DEF S!INT_MIN, D!INT_MIN, S!INT_MAX, D!INT_MAX, S!enc_span, D!enc_span
<1>2. S!UINT_MAX = D!UINT_MAX BY SamePowers DEF S!UINT_MAX, D!UINT_MAX
<1>3. \A x, is_signed : S!encode(x, is_signed) = D!encode(x, is_signed)
  BY <1>1, <1>2 DEF S!encode, D!encode, S!signed_enc, D!signed_enc, S!unsigned_enc,
     D!unsigned_enc
<1>4. \A x : S!unsigned(x) = D!unsigned(x) BY <1>2 DEF S!unsigned, D!unsigned
<1>5. \A i : S!signed_is_encoded(i) <=> D!signed_is_encoded(i)
  BY <1>1 DEF S!signed_is_encoded, D!signed_is_encoded
<1>6. S!ItoaFits <=> D!ItoaFits
  BY <1>1, SamePowers DEF S!ItoaFits, D!ItoaFits
<1> QED BY <1>1, <1>3, <1>4, <1>5, <1>6

LEMMA SameText == \A n, radix : S!text(n, radix) = D!text(n, radix)
BY DEF S!text, D!text, S!pow, D!pow, S!magnitude, D!magnitude, S!MINUS, D!MINUS

LEMMA SameItoa == \A i, size : S!itoa(i, size) = D!itoa(i, size)
<1>1. \A v, d, k, radix : S!leading(v, d, k, radix) = D!leading(v, d, k, radix)
  BY DEF S!leading, D!leading, S!pow, D!pow
<1>2. \A a, b : S!smaller(a, b) = D!smaller(a, b) BY DEF S!smaller, D!smaller
<1>3. \A i : S!nothing(i) = D!nothing(i) BY DEF S!nothing, D!nothing
<1>4. ASSUME NEW g, NEW v, NEW d, NEW size, NEW r, NEW s
      PROVE  S!emit(g, v, d, size, r, s) = D!emit(g, v, d, size, r, s)
  <2>1. PICK k : k = S!smaller(d, size) /\ k = D!smaller(d, size) BY <1>2
  <2>2. PICK rest : rest = S!pow(r, d - k) /\ rest = D!pow(r, d - k) BY SamePowers
  <2>3. S!encode(rest + (v % rest), s) = D!encode(rest + (v % rest), s) BY SameWords
  <2>4. S!leading(v, d, k, r) = D!leading(v, d, k, r) BY <1>1
  <2> QED BY ONLY <2>1, <2>2, <2>3, <2>4 DEF S!emit, D!emit
<1>5. \A u, size, r, s : S!resume(u, size, r, s) = D!resume(u, size, r, s)
  BY <1>3, <1>4, SamePowers, SameWords DEF S!resume, D!resume
<1>6. \A i, size, r, m : S!signed_fresh(i, size, r, m) = D!signed_fresh(i, size, r, m)
  BY <1>3, <1>4, SamePowers, ZenonT(60) DEF S!signed_fresh, D!signed_fresh
<1> QED BY <1>3, <1>5, <1>6, SameWords DEF S!itoa, D!itoa

LEMMA StreamConstants == D!WordSize /\ D!StdioConstants
BY ProcessConstants, SameWords
   DEF S!WordSize, D!WordSize, S!StdioConstants, D!StdioConstants

LEMMA SameTypes ==
  /\ S!Streams = D!Streams /\ S!Chars = D!Chars
  /\ S!TypeOK <=> D!TypeOK
  /\ S!idle <=> D!idle
  /\ S!Init => D!Init
<1>1. S!Streams = D!Streams /\ S!Chars = D!Chars
  BY SamePowers DEF S!Streams, D!Streams, S!Chars, D!Chars
<1>2. S!TypeOK <=> D!TypeOK BY <1>1, SameWords DEF S!TypeOK, D!TypeOK
<1>3. S!idle <=> D!idle BY DEF S!idle, D!idle, S!no_call, D!no_call
<1>4. S!Init => D!Init BY <1>1 DEF S!Init, D!Init, S!no_call, D!no_call
<1> QED BY <1>1, <1>2, <1>3, <1>4

LEMMA SameWrites ==
  /\ \A n : S!results(n) = D!results(n)
  /\ \A s : S!unbuffered(s) <=> D!unbuffered(s)
  /\ \A s, bytes, w, retried : S!write(s, bytes, w, retried) <=> D!write(s, bytes, w, retried)
  /\ \A w : S!flush(w) <=> D!flush(w)
  /\ \A bytes : S!append(bytes) <=> D!append(bytes)
  /\ \A r : S!return(r) <=> D!return(r)
  /\ \A w, next : S!proceed(w, next) <=> D!proceed(w, next)
<1>1. \A n : S!results(n) = D!results(n) BY DEF S!results, D!results
<1>2. \A s : S!unbuffered(s) <=> D!unbuffered(s) BY DEF S!unbuffered, D!unbuffered
<1>3. \A s, bytes, w, retried : S!write(s, bytes, w, retried) <=> D!write(s, bytes, w, retried)
  BY DEF S!write, D!write
<1>4. \A w : S!flush(w) <=> D!flush(w)
  BY <1>1, <1>3 DEF S!flush, D!flush, S!buffered, D!buffered
<1>5. \A bytes : S!append(bytes) <=> D!append(bytes) BY DEF S!append, D!append
<1>6. \A r : S!return(r) <=> D!return(r)
  BY DEF S!return, D!return, S!no_call, D!no_call
<1>7. \A w, next : S!proceed(w, next) <=> D!proceed(w, next)
  BY <1>6 DEF S!proceed, D!proceed
<1> QED BY <1>1, <1>2, <1>3, <1>4, <1>5, <1>6, <1>7

LEMMA SameCalls ==
  /\ S!begin => D!begin
  /\ \A s \in D!Streams : S!fflush(s) => D!fflush(s)
<1>1. ASSUME NEW s, NEW n, S!fputs(s, n) PROVE D!fputs(s, n)
  BY <1>1, SameTypes DEF S!fputs, D!fputs, S!no_call, D!no_call, S!fresh, D!fresh
<1>2. ASSUME NEW s, NEW i, S!fputi(s, i) PROVE D!fputi(s, i)
  BY <1>2, SameTypes, SameText DEF S!fputi, D!fputi, S!no_call, D!no_call
<1>3. ASSUME S!begin PROVE D!begin
  BY <1>1, <1>2, <1>3, SameTypes, SameText DEF S!begin, D!begin, S!in_bound, D!in_bound
<1>4. ASSUME NEW s \in D!Streams, S!fflush(s) PROVE D!fflush(s)
  BY <1>4, SameTypes, SameWrites DEF S!fflush, D!fflush
<1> QED BY <1>3, <1>4

LEMMA SamePuts ==
  S!put_unbuffered \/ S!put_flush \/ S!put_copy \/ S!put_return => D!step
<1>1. S!put_unbuffered => D!put_unbuffered
  BY SameWrites DEF S!put_unbuffered, D!put_unbuffered
<1>2. S!put_flush => D!put_flush
  BY SameWrites DEF S!put_flush, D!put_flush
<1>3. S!put_copy => D!put_copy
  BY SameWrites DEF S!put_copy, D!put_copy, S!smaller, D!smaller
<1>4. S!put_return => D!put_return
  BY SameWrites DEF S!put_return, D!put_return
<1> QED BY <1>1, <1>2, <1>3, <1>4 DEF D!step

LEMMA SameInts ==
  S!int_unbuffered \/ S!int_flush \/ S!int_convert \/ S!int_refused => D!step
<1>1. S!int_unbuffered => D!int_unbuffered
  BY SameWrites, SameItoa DEF S!int_unbuffered, D!int_unbuffered
<1>2. S!int_flush => D!int_flush
  BY SameWrites DEF S!int_flush, D!int_flush
<1>3. S!int_convert => D!int_convert
  BY SameWrites, SameItoa DEF S!int_convert, D!int_convert
<1>4. S!int_refused => D!int_refused
  BY SameWrites, SameItoa DEF S!int_refused, D!int_refused
<1> QED BY <1>1, <1>2, <1>3, <1>4 DEF D!step

\* A step of the streams keeps what StdioProofs shows of them.
LEMMA StreamMoves ==
  ASSUME D!StreamsInv, S!step \/ S!begin \/ \E s \in S!Streams : S!fflush(s)
  PROVE  D!StreamsInv'
<1>1. D!step \/ D!begin \/ \E s \in D!Streams : D!fflush(s)
  BY SamePuts, SameInts, SameCalls, SameTypes DEF S!step
<1> QED BY <1>1, StreamConstants, D!StreamsMove

\* What steps that leave the streams alone leave alone.
LEMMA StreamsRest ==
  ASSUME UNCHANGED streams
  PROVE  /\ D!StreamsInv' <=> D!StreamsInv
         /\ (D!TypeOK /\ D!Call(io))' <=> D!TypeOK /\ D!Call(io)
         /\ D!idle' <=> D!idle
         /\ \A s : D!Clean(s)' <=> D!Clean(s)
         /\ \A s : D!taken(s)' = D!taken(s)
<1>1. UNCHANGED <<buffer_, buffer_index_, file, io, ret, sent, faults, failed>>
  BY DEF streams
<1>2. (D!TypeOK /\ D!Call(io))' <=> D!TypeOK /\ D!Call(io)
  BY <1>1 DEF D!TypeOK
<1>3. D!idle' <=> D!idle BY <1>1 DEF D!idle
<1>4. \A s : D!Clean(s)' <=> D!Clean(s) BY <1>1 DEF D!Clean
<1>5. \A s : D!taken(s)' = D!taken(s) BY <1>1 DEF D!taken, D!buffered
<1>6. \A s : D!Whole(s)' = D!Whole(s)
  <2>1. \A s : D!Pending(s)' = D!Pending(s) BY <1>1 DEF D!Pending
  <2> QED BY <1>5, <2>1 DEF D!Whole
<1>7. D!StreamsInv' <=> D!StreamsInv
  BY <1>1, <1>2, <1>3, <1>4, <1>6 DEF D!StreamsInv
<1> QED BY <1>2, <1>3, <1>4, <1>5, <1>7

-----------------------------------------------------------------------------
(* What a process keeps                                                    *)

\* Where _start, exit, a failed assertion and abort leave the loop of exit.
Staged ==
  /\ stage \in {"streams", "heap", "main"} => pc = "main"
  /\ pc = "loop" => stage = "exit"
  /\ stage = "terminated" <=> pc = "terminated"
  /\ flushed => stage = "exit" /\ pc = "callback" /\ current = flush_streams

\* The process's own part of TypeOK.
StageTyped ==
  /\ stage \in {"streams", "heap", "main", "exit", "assert",
               "terminated", "aborted"}
  /\ status \in {0, 1, EXIT_FAILURE_BAD_HEAP_INITIALIZATION, ABORTED}
  /\ flushed \in BOOLEAN

\* While these run, no call of a stream is in progress.
Quiet ==
  \/ stage \in {"streams", "heap", "assert", "aborted"}
  \/ pc \in {"loop", "terminated"}
  \/ pc = "callback" /\ current = flush_streams

\* A flush that was due stays in slot 0, whatever the callbacks register, and
\* has emptied the buffer when the loop is past that slot.
FlushKept ==
  /\ flushed => buffer_index_ = 0
  /\ flush_kept /\ pc \in {"loop", "callback", "terminated"} =>
       /\ n_callbacks > 0 /\ atexit[0] = flush_streams
       /\ pc # "callback" /\ j = -1 => buffer_index_ = 0

\* What stream s has taken, then what a failed assertion has yet to say to it.
Told(s) == D!taken(s) \o (IF s = "stderr" THEN saying ELSE <<>>)

\* Outside a failed assertion the streams are as in Stdio; in one, stderr
\* lacks what is still to be said.
StreamsKept ==
  IF stage # "assert" THEN D!StreamsInv /\ saying = <<>>
  ELSE /\ D!TypeOK /\ D!Call(io) /\ saying \in Seq(D!Chars)
       /\ \A s \in D!Streams :
            D!Within(Told(s), sent[s]) /\ (D!Clean(s) => sent[s] = Told(s))

ProcessInv ==
  /\ ExitInv /\ Staged /\ StageTyped
  /\ Quiet => D!idle
  /\ FlushKept /\ StreamsKept

-----------------------------------------------------------------------------
(* The actions of the process                                              *)

\* The disjuncts of Next, each with the components it moves.
LEMMA Actions ==
  ASSUME [Next]_vars
  PROVE  \/ __stdio_register_streams \/ __heap_init \/ __heap_init_fails
         \/ prints \/ registers \/ callback_returns
         \/ __assert_fail \/ abort
         \/ \E code \in {0, 1} : exits_with(code)
         \/ stream_step \/ flush_streams_writes \/ flush_streams_returns
         \/ exit_call \/ terminate \/ assert_writes
         \/ UNCHANGED vars
BY DEF Next, start_step, library_step, ended

LEMMA StagedStep ==
  ASSUME ProcessInv, [Next]_vars
  PROVE  Staged'
<1> USE DEF Staged, current
<1>0. Staged BY DEF ProcessInv
<1>1. CASE __stdio_register_streams
  BY <1>0, <1>1 DEF __stdio_register_streams, E!atexit_push
<1>2. CASE __heap_init
  BY <1>0, <1>2 DEF __heap_init, callbacks
<1>3. CASE __heap_init_fails
  BY <1>0, <1>3 DEF __heap_init_fails, E!exit
<1>4. CASE prints \/ stream_step
  BY <1>0, <1>4 DEF prints, stream_step, callbacks, pvars
<1>5. CASE registers
  <2>1. UNCHANGED <<pc, stage>> /\ flushed' = flushed /\ ~flushed
    BY <1>0, <1>5 DEF registers, program, E!atexit_push, E!atexit_push_full, E!evars,
                      E!atexit_pop, pvars
  <2> QED BY <2>1, <1>0
<1>6. CASE callback_returns
  BY <1>0, <1>6 DEF callback_returns, program, E!callback_returns, pvars
<1>7. CASE __assert_fail
  BY <1>0, <1>7 DEF __assert_fail, program, callbacks
<1>8. CASE abort
  BY <1>0, <1>8 DEF abort, program, callbacks
<1>9. ASSUME NEW code \in {0, 1}, exits_with(code) PROVE Staged'
  BY <1>0, <1>9 DEF exits_with, program, E!exit
<1>10. CASE flush_streams_writes
  BY <1>0, <1>10 DEF flush_streams_writes, callbacks
<1>11. CASE flush_streams_returns
  BY <1>0, <1>11 DEF flush_streams_returns, E!callback_returns
<1>12. CASE exit_call
  BY <1>0, <1>12 DEF exit_call, E!exit_call, pvars
<1>13. CASE terminate
  BY <1>0, <1>13 DEF terminate, E!exit_terminate
<1>14. CASE assert_writes
  BY <1>0, <1>14 DEF assert_writes, callbacks
<1>15. CASE UNCHANGED vars
  BY <1>0, <1>15 DEF vars, callbacks, pvars
<1> QED
  BY Actions, <1>1, <1>2, <1>3, <1>4, <1>5, <1>6, <1>7, <1>8, <1>9, <1>10,
     <1>11, <1>12, <1>13, <1>14, <1>15

\* A stream steps only while a call is in progress.
LEMMA StepCalls == S!step => ~D!idle
<1>1. D!idle => io.op = "none" BY DEF D!idle, D!no_call
<1>2. S!step => io.op = "bytes" \/ io.op = "int"
  BY DEF S!step, S!put_unbuffered, S!put_flush, S!put_copy, S!put_return,
     S!int_unbuffered, S!int_flush, S!int_convert, S!int_refused
<1> QED BY <1>1, <1>2

\* A call begins only in main and in the program's callbacks, and only goes on
\* there.
LEMMA QuietStep ==
  ASSUME ProcessInv, [Next]_vars
  PROVE  (Quiet => D!idle)'
<1>0. Staged /\ (Quiet => D!idle) BY DEF ProcessInv
<1>1. CASE stream_step
  <2>1. ~D!idle
    BY <1>1, StepCalls DEF stream_step
  <2>2. Quiet' = Quiet
    BY <1>1 DEF stream_step, Quiet, current, callbacks, pvars
  <2> QED BY <2>1, <2>2, <1>0
<1>2. CASE prints
  BY <1>0, <1>2 DEF prints, program, Staged, Quiet, current, callbacks, pvars
<1>3. CASE UNCHANGED vars
  <2>1. Quiet' = Quiet BY <1>3 DEF vars, Quiet, current, callbacks, pvars
  <2> QED BY <2>1, <1>0, <1>3, StreamsRest DEF vars
<1>4. CASE ~stream_step /\ ~prints /\ ~UNCHANGED vars
  <2>1. io' = io
    BY Actions, <1>4 DEF __stdio_register_streams, __heap_init, __heap_init_fails,
       registers, callback_returns, __assert_fail, abort, exits_with,
       flush_streams_writes, S!fflush, flush_streams_returns, exit_call, terminate,
       assert_writes, streams
  <2>2. program \/ Quiet
    BY Actions, <1>0, <1>4 DEF __stdio_register_streams, __heap_init,
       __heap_init_fails, registers, callback_returns, __assert_fail, abort,
       exits_with, flush_streams_writes, flush_streams_returns, exit_call,
       E!exit_call, terminate, E!exit_terminate, assert_writes, Quiet, Staged
  <2>3. D!idle BY <2>2, <1>0, SameTypes DEF program
  <2> QED BY <2>1, <2>3 DEF D!idle
<1> QED BY <1>1, <1>2, <1>3, <1>4

\* Stack of callbacks: what exit finds in slot 0.
LEMMA ExitDue ==
  ASSUME ExitInv, E!exit, flush_kept'
  PROVE  n_callbacks' > 0 /\ atexit'[0] = flush_streams /\ j' # -1
<1>1. /\ due' = stack /\ j' = n_callbacks - 1
      /\ UNCHANGED <<atexit, n_callbacks>>
  BY DEF E!exit
<1>2. Len(stack) > 0 /\ Head(stack) = flush_streams BY <1>1 DEF flush_kept
<1>3. n_callbacks \in Nat /\ Len(stack) = n_callbacks
      /\ \A k \in 1 .. n_callbacks : atexit[k - 1] = stack[k]
  <2>1. ATEXIT_MAX_CALLBACKS \in Nat BY ProcessConstants DEF E!ExitConstants
  <2>2. n_callbacks \in 0 .. ATEXIT_MAX_CALLBACKS BY DEF ExitInv, E!TypeOK
  <2>3. n_callbacks \in Nat BY <2>1, <2>2
  <2> QED BY <2>3 DEF ExitInv, E!StackKept
<1>4. stack[1] = flush_streams BY <1>2
<1>5. 1 \in 1 .. n_callbacks /\ 1 - 1 = 0 BY <1>2, <1>3
<1> QED BY <1>1, <1>3, <1>4, <1>5

LEMMA FlushStep ==
  ASSUME ProcessInv, [Next]_vars
  PROVE  FlushKept'
<1>0. /\ Staged /\ FlushKept /\ (Quiet => D!idle) /\ ExitInv
  BY DEF ProcessInv
<1>1. n_callbacks \in Nat /\ j \in Int /\ Staged'
      /\ atexit \in [0 .. ATEXIT_MAX_CALLBACKS - 1 -> Callbacks \cup {NULL}]
  BY <1>0, ProcessConstants, StagedStep DEF ExitInv, E!TypeOK, E!ExitConstants
<1>2. CASE __stdio_register_streams \/ __heap_init
  <2>1. pc' = "main" /\ ~flushed'
    BY <1>0, <1>1, <1>2 DEF __stdio_register_streams, __heap_init, Staged
  <2> QED BY <2>1 DEF FlushKept
<1>3. CASE __heap_init_fails \/ \E code \in {0, 1} : exits_with(code)
  <2>1. E!exit /\ pc' = "loop" BY <1>3 DEF __heap_init_fails, exits_with, E!exit
  <2>2. ~flushed' BY <2>1, <1>1 DEF Staged
  <2> QED BY <2>1, <2>2, <1>0, ExitDue DEF FlushKept
<1>4. CASE prints \/ stream_step
  <2>1. ~Quiet
    <3>1. CASE prints BY <1>0, <3>1 DEF prints, program, Quiet, Staged
    <3>2. CASE stream_step
      BY <1>0, <3>2, StepCalls DEF stream_step
    <3> QED BY <1>4, <3>1, <3>2
  <2>2. UNCHANGED <<callbacks, pvars>> BY <1>4 DEF prints, stream_step
  <2>3. pc \notin {"loop", "terminated"} /\ ~flushed
    BY <2>1, <1>0 DEF Quiet, Staged
  <2> QED BY <2>2, <2>3, <1>0 DEF FlushKept, flush_kept, callbacks, pvars
<1>5. CASE registers
  <2>1. pc' = pc /\ pc \in {"main", "callback"} /\ ~flushed'
    BY <1>0, <1>1, <1>5 DEF registers, program, Staged, E!atexit_push,
       E!atexit_push_full, E!evars, E!atexit_pop, E!in_program, pvars
  <2>2. ASSUME flush_kept', pc = "callback"
        PROVE  n_callbacks' > 0 /\ atexit'[0] = flush_streams
    <3>1. CASE E!atexit_pop BY <2>2, <3>1 DEF E!atexit_pop, flush_kept
    <3>2. CASE E!atexit_push_full
      BY <2>2, <3>2, <1>0 DEF E!atexit_push_full, E!evars, flush_kept, FlushKept
    <3>3. ASSUME NEW f \in Callbacks, E!atexit_push(f)
          PROVE  n_callbacks' > 0 /\ atexit'[0] = flush_streams
      <4>1. flush_kept BY <2>2, <3>3 DEF E!atexit_push, flush_kept
      <4>2. n_callbacks > 0 /\ atexit[0] = flush_streams
        BY <4>1, <2>2, <1>0 DEF FlushKept
      <4>3. /\ n_callbacks' = n_callbacks + 1
            /\ atexit' = [atexit EXCEPT ![n_callbacks] = f]
        BY <3>3 DEF E!atexit_push
      <4>4. 0 \in DOMAIN atexit
        BY <1>1, ProcessConstants DEF E!ExitConstants
      <4> QED BY <4>2, <4>3, <4>4, <1>1
    <3> QED BY <1>5, <3>1, <3>2, <3>3 DEF registers
  <2> QED BY <2>1, <2>2 DEF FlushKept
<1>6. CASE callback_returns \/ flush_streams_returns
  <2>1. E!callback_returns /\ UNCHANGED streams
    BY <1>6 DEF callback_returns, flush_streams_returns
  <2>2. /\ pc = "callback" /\ pc' = "loop" /\ j' = j - 1 /\ buffer_index_' = buffer_index_
        /\ UNCHANGED <<atexit, n_callbacks, due, disturbed>>
    BY <2>1 DEF E!callback_returns, streams
  <2>3. ~flushed' BY <2>2, <1>1 DEF Staged
  <2>4. ASSUME flush_kept'
        PROVE  /\ n_callbacks' > 0 /\ atexit'[0] = flush_streams
               /\ j' = -1 => buffer_index_' = 0
    <3>1. flush_kept BY <2>2, <2>4 DEF flush_kept
    <3>2. n_callbacks > 0 /\ atexit[0] = flush_streams
      BY <3>1, <2>2, <1>0 DEF FlushKept
    <3>3. ASSUME j' = -1 PROVE flushed
      <4>1. j = 0 BY <3>3, <2>2, <1>1
      <4>2. current = flush_streams BY <4>1, <3>2 DEF current
      <4>3. ~callback_returns
        BY <4>2, <1>0, <2>2 DEF callback_returns, program, Staged
      <4> QED BY <4>3, <1>6 DEF flush_streams_returns
    <3>4. j' = -1 => buffer_index_ = 0 BY <3>3, <1>0 DEF FlushKept
    <3> QED BY <3>2, <3>4, <2>2
  <2> QED BY <2>3, <2>4 DEF FlushKept
<1>7. CASE __assert_fail \/ abort \/ assert_writes
  <2>1. UNCHANGED <<callbacks, buffer_index_, flushed>>
    BY <1>7 DEF __assert_fail, abort, assert_writes, streams
  <2> QED BY <2>1, <1>0 DEF FlushKept, flush_kept, callbacks
<1>8. CASE flush_streams_writes
  <2>1. pc = "callback" /\ UNCHANGED callbacks
    BY <1>8 DEF flush_streams_writes
  <2>2. buffer_index_' = 0
    <3>1. ~S!unbuffered("stdout") BY DEF S!unbuffered
    <3> QED BY <3>1, <1>8 DEF flush_streams_writes, S!fflush, S!flush
  <2> QED BY <2>1, <2>2, <1>0 DEF FlushKept, flush_kept, callbacks
<1>9. CASE exit_call
  <2>1. /\ pc = "loop" /\ pc' = "callback" /\ buffer_index_' = buffer_index_
        /\ UNCHANGED <<atexit, n_callbacks, due, disturbed, flushed>>
    BY <1>9 DEF exit_call, E!exit_call, streams, pvars
  <2> QED BY <2>1, <1>0 DEF FlushKept, flush_kept
<1>10. CASE terminate
  <2>1. /\ pc = "loop" /\ pc' = "terminated" /\ buffer_index_' = buffer_index_
        /\ UNCHANGED <<atexit, n_callbacks, j, due, disturbed, flushed>>
    BY <1>10 DEF terminate, E!exit_terminate, streams
  <2> QED BY <2>1, <1>0 DEF FlushKept, flush_kept
<1>11. CASE UNCHANGED vars
  BY <1>11, <1>0 DEF vars, streams, callbacks, pvars, FlushKept, flush_kept
<1> QED
  BY Actions, <1>2, <1>3, <1>4, <1>5, <1>6, <1>7, <1>8, <1>9, <1>10, <1>11

-----------------------------------------------------------------------------
(* The message of a failed assertion                                       *)

\* Between calls a stream of Stdio has taken what was sent, and what a write
\* dropped is missing in the middle.
LEMMA TakenBetween ==
  ASSUME D!StreamsInv, D!idle, NEW s \in D!Streams
  PROVE  /\ D!taken(s) \in Seq(D!Chars) /\ sent[s] \in Seq(D!Chars)
         /\ D!Within(D!taken(s), sent[s])
         /\ D!Clean(s) => sent[s] = D!taken(s)
<1>1. D!taken(s) \in Seq(D!Chars) BY StreamConstants, D!TakenSeq DEF D!StreamsInv
<1>2. D!Pending(s) = <<>> BY StreamConstants, D!NoCall
<1>3. D!Whole(s) = D!taken(s) BY <1>1, <1>2, StreamConstants, D!Joins DEF D!Whole
<1>4. sent[s] \in Seq(D!Chars) BY DEF D!StreamsInv, D!TypeOK
<1> QED BY <1>1, <1>3, <1>4 DEF D!StreamsInv

\* With nothing more to say, the streams are as between calls.
LEMMA AllSaid ==
  ASSUME D!TypeOK, D!Call(io), D!idle, saying = <<>>,
         \A s \in D!Streams :
           D!Within(Told(s), sent[s]) /\ (D!Clean(s) => sent[s] = Told(s))
  PROVE  D!StreamsInv
<1>1. ASSUME NEW s \in D!Streams PROVE D!Whole(s) = Told(s)
  <2>1. D!Pending(s) = <<>> BY StreamConstants, D!NoCall
  <2> QED BY <2>1 DEF D!Whole, Told
<1> QED BY <1>1 DEF D!StreamsInv

\* A failed assertion begins: all of its message is to be said.
LEMMA AssertKept ==
  ASSUME ProcessInv, __assert_fail
  PROVE  StreamsKept'
<1>1. /\ stage # "assert" /\ stage' = "assert" /\ saying' = AssertMessage
      /\ sent' = [sent EXCEPT !["stderr"] = @ \o AssertMessage]
      /\ UNCHANGED <<buffer_, buffer_index_, file, io, ret, faults, failed>>
  BY DEF __assert_fail, program
<1>2. D!StreamsInv /\ D!idle /\ D!TypeOK /\ D!Call(io)
  BY <1>1, SameTypes DEF ProcessInv, StreamsKept, D!StreamsInv, __assert_fail, program
<1>3. AssertMessage \in Seq(D!Chars) BY ProcessConstants, SameTypes
<1>4. sent \in [D!Streams -> Seq(D!Chars)] /\ "stderr" \in D!Streams
  BY <1>2, StreamConstants, D!StreamKinds DEF D!TypeOK
<1>5. /\ sent' \in [D!Streams -> Seq(D!Chars)]
      /\ \A s \in D!Streams :
           sent'[s] = IF s = "stderr" THEN sent[s] \o AssertMessage ELSE sent[s]
  <2>1. sent["stderr"] \o AssertMessage \in Seq(D!Chars)
    BY <1>3, <1>4, StreamConstants, D!Joins
  <2> QED BY <2>1, <1>1, <1>4
<1>6. D!TypeOK' /\ D!Call(io)' BY <1>1, <1>2, <1>5 DEF D!TypeOK
<1>7. ASSUME NEW s \in D!Streams
      PROVE  D!Within(Told(s), sent[s])' /\ (D!Clean(s) => sent[s] = Told(s))'
  <2>1. /\ D!taken(s) \in Seq(D!Chars) /\ sent[s] \in Seq(D!Chars)
        /\ D!Within(D!taken(s), sent[s])
        /\ D!Clean(s) => sent[s] = D!taken(s)
    BY <1>2, TakenBetween
  <2>2. D!taken(s)' = D!taken(s) /\ (D!Clean(s)' <=> D!Clean(s))
    BY <1>1 DEF D!taken, D!buffered, D!Clean
  <2>3. CASE s = "stderr"
    <3>1. Told(s)' = D!taken(s) \o AssertMessage BY <2>2, <2>3, <1>1 DEF Told
    <3>2. D!Within(D!taken(s) \o AssertMessage, sent[s] \o AssertMessage)
      BY <2>1, <1>3, StreamConstants, D!WithinExtended
    <3>3. D!Within(Told(s)', sent'[s]) BY <3>1, <3>2, <1>5, <2>3
    <3>4. D!Clean(s)' => sent'[s] = Told(s)' BY <3>1, <2>1, <2>2, <1>5, <2>3
    <3> QED BY <3>3, <3>4 DEF D!Within
  <2>4. CASE s # "stderr"
    <3>1. Told(s)' = D!taken(s)
      BY <2>1, <2>2, <2>4, StreamConstants, D!Joins DEF Told
    <3>2. D!Within(Told(s)', sent'[s]) BY <3>1, <2>1, <1>5, <2>4
    <3>3. D!Clean(s)' => sent'[s] = Told(s)' BY <3>1, <2>1, <2>2, <1>5, <2>4
    <3> QED BY <3>2, <3>3 DEF D!Within
  <2> QED BY <2>3, <2>4
<1> QED BY <1>1, <1>3, <1>6, <1>7, SameTypes DEF StreamsKept

\* A piece of the message leaves what is still to be said, for the file or,
\* when its write fails, for nowhere.
LEMMA PieceKept ==
  ASSUME ProcessInv, assert_writes
  PROVE  StreamsKept'
<1>1. /\ stage = "assert" /\ stage' = "assert" /\ saying # <<>>
      /\ saying' = Tail(saying)
      /\ UNCHANGED <<buffer_, buffer_index_, io, ret, sent>>
  BY DEF assert_writes
<1>2. /\ D!TypeOK /\ D!Call(io) /\ saying \in Seq(D!Chars) /\ D!idle
      /\ \A s \in D!Streams :
           D!Within(Told(s), sent[s]) /\ (D!Clean(s) => sent[s] = Told(s))
  BY <1>1 DEF ProcessInv, StreamsKept, Quiet
<1>3. PICK piece : piece = <<Head(saying)>> OBVIOUS
<1>4. /\ piece \in Seq(D!Chars) /\ Len(piece) = 1 /\ Tail(saying) \in Seq(D!Chars)
      /\ saying = piece \o Tail(saying)
  BY <1>1, <1>2, <1>3, HeadTailProperties
<1>5. "stderr" \in D!Streams /\ FALSE \in BOOLEAN BY StreamConstants, D!StreamKinds
<1>6. PICK w : w \in D!results(Len(piece)) /\ D!write("stderr", piece, w, FALSE)
  BY <1>3, <1>4, SameWrites DEF assert_writes
<1>7. PICK front, rest \in Seq(D!Chars) :
        piece = front \o rest /\ D!Written("stderr", front, rest, w, FALSE)
  BY <1>2, <1>4, <1>5, <1>6, StreamConstants, D!WriteEffect
<1>8. D!TypeOK' /\ D!Call(io)'
  <2>1. /\ file' \in [D!Streams -> Seq(D!Chars)] /\ failed' \in BOOLEAN
        /\ faults' \subseteq D!Streams \X {"short", "error"}
    BY <1>7 DEF D!Written
  <2> QED BY <2>1, <1>1, <1>2 DEF D!TypeOK
<1>9. ASSUME NEW s \in D!Streams
      PROVE  D!Within(Told(s), sent[s])' /\ (D!Clean(s) => sent[s] = Told(s))'
  <2>1. /\ D!Within(Told(s), sent[s]) /\ (D!Clean(s) => sent[s] = Told(s))
        /\ sent[s] \in Seq(D!Chars) /\ sent' = sent
    BY <1>1, <1>2 DEF D!TypeOK
  <2>2. D!Drops(Told(s), Told(s)', D!Clean(s)')
    <3>1. CASE s = "stderr"
      <4>1. /\ file'["stderr"] = file["stderr"] \o front
            /\ D!Clean("stderr")' => rest = <<>>
        BY <1>7 DEF D!Written
      <4>2. PICK x, later : x = file["stderr"] /\ later = Tail(saying) OBVIOUS
      <4>3. /\ x \in Seq(D!Chars) /\ front \in Seq(D!Chars) /\ rest \in Seq(D!Chars)
            /\ later \in Seq(D!Chars) /\ x \o front \in Seq(D!Chars)
            /\ rest \o later \in Seq(D!Chars)
        BY <4>2, <1>2, <1>4, <1>7, StreamConstants, D!TakenIs, D!Joins
      <4>4. Told("stderr") = x \o ((front \o rest) \o later)
        <5>1. D!taken("stderr") = x BY <4>2, <1>2, StreamConstants, D!TakenIs
        <5> QED BY <5>1, <4>2, <1>4, <1>7 DEF Told
      <4>5. Told("stderr")' = (x \o front) \o later
        <5>1. D!taken("stderr")' = file'["stderr"] \o <<>>
          BY StreamConstants, D!StreamKinds DEF D!taken
        <5>2. D!taken("stderr")' = x \o front
          BY <5>1, <4>1, <4>2, <4>3, StreamConstants, D!Joins
        <5> QED BY <5>2, <1>1, <4>2 DEF Told
      <4>6. x \o ((front \o rest) \o later) = (x \o front) \o (rest \o later)
        <5>1. (front \o rest) \o later = front \o (rest \o later)
          BY <4>3, StreamConstants, D!Associative, SMTT(40)
        <5>2. PICK u : u = rest \o later OBVIOUS
        <5>3. (x \o front) \o u = x \o (front \o u)
          BY <5>2, <4>3, StreamConstants, D!Associative
        <5> QED BY <5>1, <5>2, <5>3
      <4> QED BY <3>1, <4>1, <4>3, <4>4, <4>5, <4>6 DEF D!Drops
    <3>2. CASE s # "stderr"
      <4>1. file'[s] = file[s] BY <3>2, <1>7 DEF D!Written
      <4>2. D!taken(s)' = D!taken(s) BY <4>1, <1>1 DEF D!taken, D!buffered
      <4>3. D!taken(s) \in Seq(D!Chars) BY <1>2, StreamConstants, D!TakenSeq
      <4>4. Told(s) = D!taken(s) \o <<>> /\ Told(s)' = D!taken(s) \o <<>>
        BY <3>2, <4>2 DEF Told
      <4>5. Told(s) \in Seq(D!Chars) /\ Told(s)' = Told(s)
        BY <4>3, <4>4, StreamConstants, D!Joins
      <4> QED BY <4>5, StreamConstants, D!NothingDropped
    <3> QED BY <3>1, <3>2
  <2>3. D!Within(Told(s)', sent'[s]) BY <2>1, <2>2, StreamConstants, D!StillWithin
  <2>4. ASSUME D!Clean(s)' PROVE sent'[s] = Told(s)'
    <3>1. faults \subseteq faults' BY <1>7 DEF D!Written
    <3>2. D!Clean(s) BY <3>1, <2>4 DEF D!Clean
    <3>3. D!Drops(Told(s), Told(s)', TRUE)
      <4>1. \E a, m, b \in Seq(D!Chars) :
              Told(s) = a \o (m \o b) /\ Told(s)' = a \o b /\ m = <<>>
        BY <2>2, <2>4 DEF D!Drops
      <4> QED BY <4>1 DEF D!Drops
    <3>4. Told(s)' = Told(s) BY <3>3, StreamConstants, D!Intact
    <3> QED BY <3>2, <3>4, <2>1
  <2> QED BY <2>3, <2>4 DEF D!Within
<1> QED BY <1>1, <1>4, <1>8, <1>9, SameTypes DEF StreamsKept

\* When all is said, stderr is a stream between calls again.
LEMMA AbortKept ==
  ASSUME ProcessInv, abort
  PROVE  StreamsKept'
<1>1. stage' = "aborted" /\ UNCHANGED <<streams, saying>> BY DEF abort
<1>2. CASE stage # "assert"
  BY <1>1, <1>2, StreamsRest DEF ProcessInv, StreamsKept
<1>3. CASE stage = "assert"
  <2>1. saying = <<>> /\ D!TypeOK /\ D!Call(io) /\ D!idle
        /\ \A s \in D!Streams :
             D!Within(Told(s), sent[s]) /\ (D!Clean(s) => sent[s] = Told(s))
    BY <1>3 DEF abort, program, ProcessInv, StreamsKept, Quiet
  <2>2. D!StreamsInv BY <2>1, AllSaid
  <2> QED BY <2>1, <2>2, <1>1, StreamsRest DEF StreamsKept
<1> QED BY <1>2, <1>3

\* A step of a stream comes neither in a failed assertion nor from one.
LEMMA StreamsStep ==
  ASSUME ProcessInv, [Next]_vars
  PROVE  StreamsKept'
<1>0. StreamsKept BY DEF ProcessInv
<1>1. CASE __assert_fail BY <1>1, AssertKept
<1>2. CASE assert_writes BY <1>2, PieceKept
<1>3. CASE abort BY <1>3, AbortKept
<1>4. CASE prints \/ stream_step \/ flush_streams_writes
  <2>1. stage # "assert" /\ stage' = stage /\ saying' = saying
    <3>1. CASE prints BY <3>1 DEF prints, program, pvars
    <3>2. CASE stream_step
      BY <3>2, StepCalls DEF stream_step, pvars, ProcessInv, Quiet
    <3>3. CASE flush_streams_writes BY <3>3 DEF flush_streams_writes
    <3> QED BY <1>4, <3>1, <3>2, <3>3
  <2>2. S!step \/ S!begin \/ \E s \in S!Streams : S!fflush(s)
    BY <1>4 DEF prints, stream_step, flush_streams_writes, S!Streams
  <2>3. D!StreamsInv' BY <2>1, <2>2, <1>0, StreamMoves DEF StreamsKept
  <2> QED BY <2>1, <2>3, <1>0 DEF StreamsKept
<1>5. CASE \/ __stdio_register_streams \/ __heap_init \/ __heap_init_fails
           \/ registers \/ callback_returns \/ flush_streams_returns
           \/ (\E code \in {0, 1} : exits_with(code))
           \/ exit_call \/ terminate
  <2>1. UNCHANGED <<streams, saying>>
    BY <1>5 DEF __stdio_register_streams, __heap_init, __heap_init_fails,
       registers, callback_returns, flush_streams_returns, exits_with, exit_call,
       terminate, pvars
  <2>2. stage # "assert" /\ stage' # "assert"
    BY <1>5 DEF __stdio_register_streams, __heap_init, __heap_init_fails,
       registers, callback_returns, flush_streams_returns, exits_with, exit_call,
       E!exit_terminate, terminate, program, pvars, ProcessInv, Staged
  <2> QED BY <2>1, <2>2, <1>0, StreamsRest DEF StreamsKept
<1>6. CASE UNCHANGED vars
  <2>1. UNCHANGED <<streams, stage, saying, sent, file>> BY <1>6 DEF vars, pvars, streams
  <2>2. \A s : Told(s)' = Told(s) BY <2>1, StreamsRest DEF Told
  <2>3. D!TypeOK' /\ D!Call(io)' <=> D!TypeOK /\ D!Call(io) BY <2>1, StreamsRest
  <2> QED BY <2>1, <2>2, <2>3, <1>0, StreamsRest, SameTypes DEF StreamsKept, D!Within
<1> QED BY Actions, <1>1, <1>2, <1>3, <1>4, <1>5, <1>6

-----------------------------------------------------------------------------
(* What the end of a process has written                                   *)

LEMMA ProcessStart ==
  ASSUME Init
  PROVE  ProcessInv
<1>1. ExitInv BY ProcessConstants, InitExit DEF Init
<1>2. /\ pc = "main" /\ stage = "streams" /\ status = 0 /\ flushed = FALSE
      /\ saying = <<>> /\ S!Init
  BY DEF Init, E!Init
<1>3. D!StreamsInv BY <1>2, SameTypes, StreamConstants, D!StreamsInit
<1>4. D!idle BY <1>2, SameTypes DEF S!Init, S!idle
<1>5. Staged /\ StageTyped BY <1>2 DEF Staged, StageTyped
<1>6. FlushKept BY <1>2 DEF FlushKept
<1>7. StreamsKept BY <1>2, <1>3 DEF StreamsKept
<1> QED BY <1>1, <1>4, <1>5, <1>6, <1>7 DEF ProcessInv

LEMMA TypedStep ==
  ASSUME ProcessInv, [Next]_vars
  PROVE  StageTyped'
<1>0. StageTyped BY DEF ProcessInv
<1> USE DEF StageTyped, pvars
<1>1. CASE __stdio_register_streams \/ __heap_init \/ __heap_init_fails
  BY <1>0, <1>1 DEF __stdio_register_streams, __heap_init, __heap_init_fails
<1>2. CASE prints \/ registers \/ callback_returns \/ stream_step \/ exit_call
  BY <1>0, <1>2 DEF prints, registers, callback_returns, stream_step, exit_call
<1>3. CASE __assert_fail \/ abort \/ assert_writes
  BY <1>0, <1>3 DEF __assert_fail, abort, assert_writes
<1>4. ASSUME NEW code \in {0, 1}, exits_with(code) PROVE StageTyped'
  BY <1>0, <1>4 DEF exits_with
<1>5. CASE flush_streams_writes \/ flush_streams_returns \/ terminate
  BY <1>0, <1>5 DEF flush_streams_writes, flush_streams_returns, terminate
<1>6. CASE UNCHANGED vars
  BY <1>0, <1>6 DEF vars
<1> QED BY Actions, <1>1, <1>2, <1>3, <1>4, <1>5, <1>6

LEMMA ProcessKept ==
  ASSUME ProcessInv, [Next]_vars
  PROVE  ProcessInv'
<1>1. ExitInv'
  <2>1. E!ExitConstants BY ProcessConstants
  <2>2. [E!Next]_E!evars BY ProcessStep DEF callbacks, E!evars
  <2> QED BY <2>1, <2>2, ExitStep DEF ProcessInv
<1> QED BY <1>1, StagedStep, TypedStep, QuietStep, FlushStep, StreamsStep DEF ProcessInv

\* Every process keeps ProcessInv.
THEOREM ProcessInvariance == Spec => []ProcessInv
<1>1. Init => ProcessInv BY ProcessStart
<1>2. ProcessInv /\ [Next]_vars => ProcessInv' BY ProcessKept
<1> QED BY <1>1, <1>2, PTL DEF Spec

\* Streams and callbacks stay in their types, and the process ends with one of
\* the statuses that the code gives.
THEOREM ProcessTyped == Spec => []TypeOK
<1>1. ProcessInv => TypeOK
  <2> SUFFICES ASSUME ProcessInv PROVE TypeOK
    OBVIOUS
  <2>1. S!TypeOK BY SameTypes DEF ProcessInv, StreamsKept, D!StreamsInv
  <2>2. E!TypeOK BY DEF ProcessInv, ExitInv
  <2> QED BY <2>1, <2>2 DEF ProcessInv, StageTyped, TypeOK
<1> QED BY <1>1, ProcessInvariance, PTL

\* Without a fault, both streams have taken all that was sent once no call is
\* in progress.
LEMMA AllTaken ==
  ASSUME D!StreamsInv, D!idle, faults = {}
  PROVE  /\ sent["stdout"] = file["stdout"] \o D!buffered
         /\ sent["stderr"] = file["stderr"]
         /\ file["stdout"] \in Seq(D!Chars)
<1>1. "stdout" \in D!Streams /\ "stderr" \in D!Streams
  BY StreamConstants, D!StreamKinds
<1>2. D!Clean("stdout") /\ D!Clean("stderr") BY DEF D!Clean
<1>3. sent["stdout"] = D!taken("stdout") /\ sent["stderr"] = D!taken("stderr")
  BY <1>1, <1>2, TakenBetween
<1> QED BY <1>3, StreamConstants, D!TakenIs DEF D!StreamsInv

\* A process that exits with the library's flush still due, and whose writes
\* were all completed, has written everything that main and its callbacks
\* printed, whatever they register and however often they call exit.
THEOREM ExitWritesAll == Spec => []DrainsAtExit
<1>1. ProcessInv => DrainsAtExit
  <2> SUFFICES ASSUME ProcessInv, stage = "terminated", flush_kept, faults = {},
                      NEW s \in S!Streams
               PROVE  file[s] = sent[s]
    BY DEF DrainsAtExit
  <2>1. pc = "terminated" BY DEF ProcessInv, Staged
  <2>2. D!idle /\ D!StreamsInv BY <2>1 DEF ProcessInv, Quiet, StreamsKept
  <2>3. j = -1 BY <2>1 DEF ProcessInv, ExitInv, LoopInv
  <2>4. buffer_index_ = 0 BY <2>1, <2>3 DEF ProcessInv, FlushKept
  <2>5. D!buffered = <<>> BY <2>4, SubSeqEmpty DEF D!buffered
  <2>6. file["stdout"] \o <<>> = file["stdout"]
    BY <2>2, AllTaken, ConcatEmptySeq
  <2>7. CASE s = "stdout" BY <2>2, <2>5, <2>6, <2>7, AllTaken
  <2>8. CASE s = "stderr" BY <2>2, <2>8, AllTaken
  <2> QED BY <2>7, <2>8 DEF S!Streams
<1> QED BY <1>1, ProcessInvariance, PTL

\* abort, called by the program or by a failed assertion, loses no more than
\* the bytes in the buffer of stdout, and nothing of stderr.
THEOREM AbortWritesMost == Spec => []AbortLosesOnlyBuffer
<1>1. ProcessInv => AbortLosesOnlyBuffer
  <2> SUFFICES ASSUME ProcessInv, stage = "aborted", faults = {}
               PROVE  /\ file["stderr"] = sent["stderr"]
                      /\ file["stdout"] \o S!buffered = sent["stdout"]
                      /\ Len(sent["stdout"]) - Len(file["stdout"]) <= BUFFER_SIZE
    BY DEF AbortLosesOnlyBuffer
  <2>1. D!idle /\ D!StreamsInv /\ D!TypeOK
    BY DEF ProcessInv, Quiet, StreamsKept, D!StreamsInv
  <2>2. S!buffered = D!buffered BY DEF S!buffered, D!buffered
  <2>3. D!buffered \in Seq(D!Chars) /\ Len(D!buffered) = buffer_index_
    BY <2>1, StreamConstants, D!BufferedSeq
  <2>4. Len(sent["stdout"]) = Len(file["stdout"]) + Len(D!buffered)
    BY <2>1, <2>3, AllTaken, ConcatProperties
  <2>5. Len(file["stdout"]) \in Nat BY <2>1, AllTaken, LenProperties
  <2>6. buffer_index_ \in 0 .. BUFFER_SIZE /\ BUFFER_SIZE \in Nat
    BY <2>1, StreamConstants DEF D!TypeOK, D!StdioConstants
  <2>7. Len(sent["stdout"]) - Len(file["stdout"]) <= BUFFER_SIZE
    BY <2>3, <2>4, <2>5, <2>6
  <2> QED BY <2>1, <2>2, <2>7, AllTaken
<1> QED BY <1>1, ProcessInvariance, PTL
=============================================================================
