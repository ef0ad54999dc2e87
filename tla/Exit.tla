-------------------------------- MODULE Exit --------------------------------
(***************************************************************************)
(* src/exit.c: the stack of callbacks and the loop of exit that calls them *)
(* before terminate.  A callback is program code, so it may itself push,   *)
(* pop and call exit: the loop of an inner exit never returns to the outer *)
(* one, whose index is therefore not kept.                                 *)
(***************************************************************************)
EXTENDS Integers, Sequences, SequencesExt

CONSTANTS
  ATEXIT_MAX_CALLBACKS,   \* 64
  Callbacks,              \* the functions a program registers
  NULL,
  MaxExits                \* bound: calls of exit

\* What the constants have to be.
ExitConstants ==
  /\ ATEXIT_MAX_CALLBACKS \in Nat \ {0}
  /\ NULL \notin Callbacks
  /\ MaxExits \in Nat

VARIABLES
  atexit,        \* the array
  n_callbacks,
  pc,            \* "main", "loop" and "callback" inside exit, "terminated"
  j,             \* index of the loop of exit
  popped,        \* what the last atexit_pop returned
  stack,         \* history: the callbacks pushed and not popped
  due,           \* history: that stack when exit was called
  ran,           \* history: the callbacks this exit has called
  disturbed,     \* history: atexit_pop was called during this exit
  exits          \* history: number of calls of exit

evars == <<atexit, n_callbacks, pc, j, popped, stack, due, ran, disturbed, exits>>

Init ==
  /\ atexit = [k \in 0 .. ATEXIT_MAX_CALLBACKS - 1 |-> NULL]
  /\ n_callbacks = 0
  /\ pc = "main"
  /\ j = -1
  /\ popped = NULL
  /\ stack = <<>> /\ due = <<>> /\ ran = <<>>
  /\ disturbed = FALSE
  /\ exits = 0

\* Program code is running: main or a callback.
in_program == pc \in {"main", "callback"}

\* Mutant: the limit is not looked at.
atexit_push_unlimited(f) ==
  /\ in_program
  /\ atexit' = [atexit EXCEPT ![n_callbacks] = f]
  /\ n_callbacks' = n_callbacks + 1
  /\ stack' = Append(stack, f)
  /\ UNCHANGED <<pc, j, popped, due, ran, disturbed, exits>>

\* Mutant: the count goes up before the slot is chosen.
atexit_push_above(f) ==
  /\ in_program
  /\ n_callbacks # ATEXIT_MAX_CALLBACKS
  /\ atexit' = [atexit EXCEPT ![n_callbacks + 1] = f]
  /\ n_callbacks' = n_callbacks + 1
  /\ stack' = Append(stack, f)
  /\ UNCHANGED <<pc, j, popped, due, ran, disturbed, exits>>

atexit_push(f) ==
  /\ in_program
  /\ n_callbacks # ATEXIT_MAX_CALLBACKS
  /\ atexit' = [atexit EXCEPT ![n_callbacks] = f]
  /\ n_callbacks' = n_callbacks + 1
  /\ stack' = Append(stack, f)
  /\ UNCHANGED <<pc, j, popped, due, ran, disturbed, exits>>

\* All slots taken: returns false.
atexit_push_full ==
  /\ in_program
  /\ n_callbacks = ATEXIT_MAX_CALLBACKS
  /\ UNCHANGED evars

\* atexit[n_callbacks--]: the slot is read before the count goes down.  Behind
\* the last slot lies another object, whose value may be anything.
slot(k) ==
  IF k < ATEXIT_MAX_CALLBACKS THEN {atexit[k]} ELSE Callbacks \cup {NULL}

\* The program pops only what was pushed: below 0 the array is left behind.
atexit_pop ==
  /\ in_program
  /\ n_callbacks > 0
  /\ popped' \in slot(n_callbacks)
  /\ n_callbacks' = n_callbacks - 1
  /\ stack' = Front(stack)
  /\ disturbed' = (disturbed \/ pc = "callback")
  /\ UNCHANGED <<atexit, pc, j, due, ran, exits>>

\* Mutant: the loop starts above the last callback.
exit_from_count ==
  /\ in_program
  /\ exits < MaxExits
  /\ exits' = exits + 1
  /\ pc' = "loop"
  /\ j' = n_callbacks
  /\ due' = stack
  /\ ran' = <<>>
  /\ disturbed' = FALSE
  /\ UNCHANGED <<atexit, n_callbacks, popped, stack>>

exit ==
  /\ in_program
  /\ exits < MaxExits
  /\ exits' = exits + 1
  /\ pc' = "loop"
  /\ j' = n_callbacks - 1
  /\ due' = stack
  /\ ran' = <<>>
  /\ disturbed' = FALSE
  /\ UNCHANGED <<atexit, n_callbacks, popped, stack>>

\* The loop calls atexit[j].
exit_call ==
  /\ pc = "loop"
  /\ j >= 0
  /\ pc' = "callback"
  /\ ran' = Append(ran, atexit[j])
  /\ UNCHANGED <<atexit, n_callbacks, j, popped, stack, due, disturbed, exits>>

callback_returns ==
  /\ pc = "callback"
  /\ pc' = "loop"
  /\ j' = j - 1
  /\ UNCHANGED <<atexit, n_callbacks, popped, stack, due, ran, disturbed, exits>>

\* Mutant: the loop stops before slot 0.
exit_terminate_early ==
  /\ pc = "loop"
  /\ j <= 0
  /\ pc' = "terminated"
  /\ UNCHANGED <<atexit, n_callbacks, j, popped, stack, due, ran, disturbed, exits>>

\* Below 0 the loop ends and the process with it.
exit_terminate ==
  /\ pc = "loop"
  /\ j < 0
  /\ pc' = "terminated"
  /\ UNCHANGED <<atexit, n_callbacks, j, popped, stack, due, ran, disturbed, exits>>

Next ==
  \/ \E f \in Callbacks : atexit_push(f)
  \/ atexit_push_full
  \/ atexit_pop
  \/ exit
  \/ exit_call
  \/ callback_returns
  \/ exit_terminate

\* exit keeps executing and a callback eventually returns or exits.
fair == WF_evars(exit_call \/ exit_terminate) /\ WF_evars(callback_returns)

Spec == Init /\ [][Next]_evars /\ fair

-----------------------------------------------------------------------------

\* Type invariant: the count and the loop index stay inside the array.
TypeOK ==
  /\ atexit \in [0 .. ATEXIT_MAX_CALLBACKS - 1 -> Callbacks \cup {NULL}]
  /\ n_callbacks \in 0 .. ATEXIT_MAX_CALLBACKS
  /\ pc \in {"main", "loop", "callback", "terminated"}
  /\ j \in -1 .. ATEXIT_MAX_CALLBACKS - 1
  /\ popped \in Callbacks \cup {NULL}
  /\ stack \in Seq(Callbacks) /\ due \in Seq(Callbacks) /\ ran \in Seq(Callbacks)
  /\ disturbed \in BOOLEAN /\ exits \in 0 .. MaxExits

\* The slots below the count are the callbacks pushed and not popped, in that
\* order, also after a pop and a push reused a slot.
StackKept ==
  /\ Len(stack) = n_callbacks
  /\ \A k \in 1 .. n_callbacks : atexit[k - 1] = stack[k]

\* exit calls what was registered when it was called, last first, each once,
\* whatever the callbacks push; only a callback that pops can change that.
RunsLIFO ==
  pc # "main" /\ ~disturbed =>
    LET left == IF pc = "callback" THEN j ELSE j + 1   \* callbacks still to call
    IN  /\ ran = Reverse(SubSeq(due, left + 1, Len(due)))
        /\ \A k \in 1 .. left : atexit[k - 1] = due[k]
        /\ pc = "terminated" => left = 0

\* A slot the loop has yet to call was registered at some time, even when a
\* callback pops others: exit never calls through NULL.
NoNullCall ==
  pc \in {"loop", "callback"} => \A k \in 0 .. j : atexit[k] # NULL

\* atexit_pop removes and returns the callback pushed last.
PopReturnsLast ==
  [][n_callbacks' = n_callbacks - 1 => popped' = Last(stack)]_evars
=============================================================================
