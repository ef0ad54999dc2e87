------------------------------- MODULE Process -------------------------------
(***************************************************************************)
(* A process linked with the library, from _start of src/entry.asm to its  *)
(* end: register the flush of stdout, set up the heap, run main, and run   *)
(* the callbacks of exit.  The streams (Stdio) and the callbacks (Exit)    *)
(* are the components; main and the program's callbacks use both.          *)
(***************************************************************************)
EXTENDS Integers, Sequences

CONSTANTS
  W, IntW, BUFFER_SIZE, TmpSize, Lengths, Ints, Faults, MaxSent,   \* see Stdio
  ATEXIT_MAX_CALLBACKS, Callbacks, NULL, MaxExits,                 \* see Exit
  flush_streams,  \* the callback that the library registers
  AssertMessage   \* the pieces that __assert_fail writes, ten in the code

VARIABLES
  buffer_, buffer_index_, file, io, ret, sent, faults, failed,
  atexit, n_callbacks, pc, j, popped, stack, due, ran, disturbed, exits,
  stage,    \* how far _start has come, or how the process ended
  status,   \* the code given to terminate
  flushed,  \* the flush_streams in progress has written
  saying    \* pieces of the message that a failed assert has yet to write

S == INSTANCE Stdio

E == INSTANCE Exit

ASSUME ProcessConstants ==
  /\ S!WordSize /\ S!StdioConstants
  /\ E!ExitConstants /\ flush_streams \in Callbacks
  /\ AssertMessage \in Seq(S!Chars)

streams == <<buffer_, buffer_index_, file, io, ret, sent, faults, failed>>

callbacks ==
  <<atexit, n_callbacks, pc, j, popped, stack, due, ran, disturbed, exits>>

pvars == <<stage, status, flushed, saying>>

vars == <<streams, callbacks, pvars>>

EXIT_FAILURE_BAD_HEAP_INITIALIZATION == 2

ABORTED == 134

Init ==
  /\ S!Init /\ E!Init
  /\ stage = "streams" /\ status = 0 /\ flushed = FALSE /\ saying = <<>>

-----------------------------------------------------------------------------
(* _start                                                                  *)

__stdio_register_streams ==
  /\ stage = "streams"
  /\ stage' = "heap"
  /\ E!atexit_push(flush_streams)
  /\ UNCHANGED <<streams, status, flushed, saying>>

__heap_init ==
  /\ stage = "heap"
  /\ stage' = "main"
  /\ UNCHANGED <<streams, callbacks, status, flushed, saying>>

\* Mutant: _start goes on to main.
__heap_init_ignored ==
  /\ stage = "heap"
  /\ stage' = "main"
  /\ status' = EXIT_FAILURE_BAD_HEAP_INITIALIZATION
  /\ UNCHANGED <<streams, callbacks, flushed, saying>>

\* The kernel refuses the first heap: exit(2) before main.
__heap_init_fails ==
  /\ stage = "heap"
  /\ stage' = "exit"
  /\ status' = EXIT_FAILURE_BAD_HEAP_INITIALIZATION
  /\ E!exit
  /\ UNCHANGED <<streams, flushed, saying>>

-----------------------------------------------------------------------------
(* main and the program's callbacks                                        *)

\* The callback that exit is running.
current == atexit[j]

\* The program's own code has control: no library call is in progress.
program ==
  /\ S!idle
  /\ \/ stage = "main"
     \/ stage = "exit" /\ pc = "callback" /\ current # flush_streams

prints ==
  /\ program
  /\ S!begin \/ \E s \in S!Streams : S!fflush(s)
  /\ UNCHANGED <<callbacks, pvars>>

registers ==
  /\ program
  /\ \/ \E f \in Callbacks \ {flush_streams} : E!atexit_push(f)
     \/ E!atexit_push_full
     \/ E!atexit_pop
  /\ UNCHANGED <<streams, pvars>>

\* main returns, or the program calls exit.
exits_with(code) ==
  /\ program
  /\ stage' = "exit"
  /\ status' = code
  /\ E!exit
  /\ UNCHANGED <<streams, flushed, saying>>

\* An assertion of the program fails.
__assert_fail ==
  /\ program
  /\ stage' = "assert"
  /\ saying' = AssertMessage
  /\ sent' = [sent EXCEPT !["stderr"] = @ \o AssertMessage]
  /\ UNCHANGED <<buffer_, buffer_index_, file, io, ret, faults, failed>>
  /\ UNCHANGED <<callbacks, status, flushed>>

\* Its message goes to stderr piece by piece, past the streams, and nobody
\* looks at what write returns.
assert_writes ==
  /\ stage = "assert" /\ saying # <<>>
  /\ saying' = Tail(saying)
  /\ \E w \in S!results(1) : S!write("stderr", <<Head(saying)>>, w, FALSE)
  /\ UNCHANGED <<buffer_, buffer_index_, io, ret, sent>>
  /\ UNCHANGED <<callbacks, stage, status, flushed>>

\* Mutant: the message is cut off.
abort_at_once ==
  /\ program \/ stage = "assert"
  /\ stage' = "aborted"
  /\ status' = ABORTED
  /\ UNCHANGED <<streams, callbacks, flushed, saying>>

\* abort, called by the program or by a failed assertion: no callback runs.
abort ==
  /\ program \/ (stage = "assert" /\ saying = <<>>)
  /\ stage' = "aborted"
  /\ status' = ABORTED
  /\ UNCHANGED <<streams, callbacks, flushed, saying>>

callback_returns ==
  /\ program
  /\ stage = "exit"
  /\ E!callback_returns
  /\ UNCHANGED <<streams, pvars>>

-----------------------------------------------------------------------------
(* The library's own steps                                                 *)

stream_step == S!step /\ UNCHANGED <<callbacks, pvars>>

\* Mutant: the other stream is flushed.
flush_streams_stderr ==
  /\ stage = "exit" /\ pc = "callback" /\ current = flush_streams
  /\ ~flushed
  /\ flushed' = TRUE
  /\ S!fflush("stderr")
  /\ UNCHANGED <<callbacks, stage, status, saying>>

\* flush_streams: fflush(stdout), then return.
flush_streams_writes ==
  /\ stage = "exit" /\ pc = "callback" /\ current = flush_streams
  /\ ~flushed
  /\ flushed' = TRUE
  /\ S!fflush("stdout")
  /\ UNCHANGED <<callbacks, stage, status, saying>>

\* Mutant: the loop of exit calls the same slot again.
flush_streams_returns_again ==
  /\ flushed
  /\ flushed' = FALSE
  /\ UNCHANGED <<callbacks, streams, stage, status, saying>>

flush_streams_returns ==
  /\ flushed
  /\ flushed' = FALSE
  /\ E!callback_returns
  /\ UNCHANGED <<streams, stage, status, saying>>

exit_call ==
  /\ stage = "exit"
  /\ E!exit_call
  /\ UNCHANGED <<streams, pvars>>

terminate ==
  /\ E!exit_terminate
  /\ stage' = "terminated"
  /\ UNCHANGED <<streams, status, flushed, saying>>

start_step == __stdio_register_streams \/ __heap_init \/ __heap_init_fails

library_step ==
  \/ stream_step
  \/ flush_streams_writes \/ flush_streams_returns
  \/ exit_call \/ terminate
  \/ assert_writes
  \/ stage = "assert" /\ abort

ended == stage \in {"terminated", "aborted"} /\ UNCHANGED vars

Next ==
  \/ start_step
  \/ prints \/ registers \/ callback_returns \/ __assert_fail \/ abort
  \/ \E code \in {0, 1} : exits_with(code)
  \/ library_step
  \/ ended

\* The library's code keeps executing and every callback returns or exits.
Spec ==
  Init /\ [][Next]_vars
    /\ WF_vars(start_step) /\ WF_vars(library_step) /\ WF_vars(callback_returns)

-----------------------------------------------------------------------------

\* Type invariant: both components in their types, one exit status.
TypeOK ==
  /\ S!TypeOK /\ E!TypeOK
  /\ stage \in {"streams", "heap", "main", "exit", "assert",
               "terminated", "aborted"}
  /\ status \in {0, 1, EXIT_FAILURE_BAD_HEAP_INITIALIZATION, ABORTED}
  /\ flushed \in BOOLEAN

\* The stack of callbacks keeps its promises also when what is pushed and
\* called are real callbacks, the library's own among them (see Exit).
StackKept == E!StackKept
NoNullCall == E!NoNullCall
RunsLIFO == E!RunsLIFO

\* The flush was registered when exit was called, and no callback popped.
flush_kept ==
  ~disturbed /\ Len(due) > 0 /\ Head(due) = flush_streams

\* Normal exit drains both streams: whatever main and the callbacks printed,
\* callbacks registered last included, has reached the kernel when the
\* process ends, unless a write went wrong or the program popped the flush.
DrainsAtExit ==
  stage = "terminated" /\ flush_kept /\ faults = {} =>
    \A s \in S!Streams : file[s] = sent[s]

\* The same when writes are only short, never failing: what the README says
\* of normal exit.
ExitDrains ==
  stage = "terminated" /\ flush_kept /\ (\A f \in faults : f[2] # "error") =>
    file["stdout"] = sent["stdout"]

\* abort skips the callbacks: what it loses is at most a buffer of stdout, and
\* nothing of stderr, which a failed assert has to show.
AbortLosesOnlyBuffer ==
  stage = "aborted" /\ faults = {} =>
    /\ file["stderr"] = sent["stderr"]
    /\ file["stdout"] \o S!buffered = sent["stdout"]
    /\ Len(sent["stdout"]) - Len(file["stdout"]) <= BUFFER_SIZE

\* exit ends the process, whatever the callbacks print or register and
\* however the writes of the last flush fail.
ExitEnds == stage = "exit" ~> stage \in {"terminated", "aborted"}

\* A heap that cannot be set up ends the process with status 2, before main.
HeapFailureExits ==
  [](status = EXIT_FAILURE_BAD_HEAP_INITIALIZATION =>
       <>(stage = "terminated" /\ status = EXIT_FAILURE_BAD_HEAP_INITIALIZATION
            /\ sent["stdout"] = <<>>))
=============================================================================
