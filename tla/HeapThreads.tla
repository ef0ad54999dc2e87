----------------------------- MODULE HeapThreads -----------------------------
(***************************************************************************)
(* The heap of Heap under several threads, for a program that supplies the *)
(* hooks __malloc_lock and __malloc_unlock of src/stdlib.c with a mutex.   *)
(*                                                                         *)
(* malloc takes the lock when it is called and releases it on each of its  *)
(* return paths; after growing the heap it searches again behind the point *)
(* where the lock is taken.  free takes no lock, so the program holds the  *)
(* same mutex around its calls of free.  Threads write to their memory at  *)
(* any time, also while another thread is inside malloc.                   *)
(***************************************************************************)
EXTENDS Heap

CONSTANTS
  Threads,
  NOBODY     \* the lock's holder when it is free

ASSUME ThreadConstants == NOBODY \notin Threads

VARIABLES
  holder,   \* the thread that holds the lock
  wants     \* the bytes each thread's malloc asks for, or IDLE

tvars == <<vars, holder, wants>>

IDLE == -1

ThreadsInit ==
  /\ Init
  /\ holder = NOBODY
  /\ wants = [t \in Threads |-> IDLE]

-----------------------------------------------------------------------------

boot ==
  /\ heap_init_fails \/ \E break \in InitialBreaks : heap_init(break)
  /\ UNCHANGED <<holder, wants>>

\* A thread calls malloc(n).
calls(t, n) ==
  /\ phase = "ready" /\ wants[t] = IDLE
  /\ wants' = [wants EXCEPT ![t] = n]
  /\ UNCHANGED <<vars, holder>>

__malloc_lock(t) ==
  /\ wants[t] # IDLE /\ holder = NOBODY
  /\ holder' = t
  /\ UNCHANGED <<vars, wants>>

keeps_lock == UNCHANGED <<holder, wants>>

\* __malloc_unlock, and malloc returns.
unlocks(t) ==
  /\ holder' = NOBODY
  /\ wants' = [wants EXCEPT ![t] = IDLE]

\* Behind malloc_after_lock: the search begins, ...
begins(t) ==
  /\ holder = t
  /\ malloc(wants[t])
  /\ keeps_lock

\* Mutant: the lock stays taken when the kernel refuses the mapping.
maps_keeping_lock(t) ==
  /\ holder = t
  /\ \/ malloc_mmap(wants[t]) /\ unlocks(t)
     \/ malloc_mmap_fails(wants[t]) /\ wants' = [wants EXCEPT ![t] = IDLE]
                                   /\ UNCHANGED holder

\* ... or a large request is answered at once.
maps_or_fails(t) ==
  /\ holder = t
  /\ malloc_mmap(wants[t]) \/ malloc_mmap_fails(wants[t])
  /\ unlocks(t)

searches(t) ==
  /\ holder = t
  /\ malloc_next \/ malloc_grow
  /\ keeps_lock

\* Mutant: when brk refuses, malloc goes back to malloc_after_lock as well.
returns_or_retries(t) ==
  /\ holder = t
  /\ \/ malloc_take /\ unlocks(t)
     \/ malloc_fail /\ keeps_lock

returns(t) ==
  /\ holder = t
  /\ malloc_take \/ malloc_fail
  /\ unlocks(t)

malloc_of(t) ==
  __malloc_lock(t) \/ begins(t) \/ maps_or_fails(t) \/ searches(t) \/ returns(t)

\* free, inside the program's lock.
frees(t) ==
  /\ wants[t] = IDLE /\ holder = NOBODY
  /\ free_null \/ \E p \in DOMAIN live : free(p) \/ free_mmap(p)
  /\ UNCHANGED <<holder, wants>>

writes(t) ==
  /\ wants[t] = IDLE
  /\ \E p \in DOMAIN live, w \in Junk : write(p, w)
  /\ UNCHANGED <<holder, wants>>

ThreadsNext ==
  \/ boot
  \/ \E t \in Threads :
       \/ \E n \in Requests : calls(t, n)
       \/ malloc_of(t) \/ frees(t) \/ writes(t)
  \/ exited /\ UNCHANGED <<holder, wants>>

ThreadsSpec == ThreadsInit /\ [][ThreadsNext]_tvars

\* A thread inside malloc keeps running, and the mutex is fair: it is not
\* withheld for ever from a thread that waits for it.
FairThreadsSpec ==
  /\ ThreadsSpec
  /\ \A t \in Threads :
       /\ WF_tvars(begins(t) \/ maps_or_fails(t) \/ searches(t) \/ returns(t))
       /\ SF_tvars(__malloc_lock(t))

-----------------------------------------------------------------------------

\* Only a thread inside malloc holds the lock, and the search in progress is
\* its own: no path of malloc returns with the lock, and none searches
\* without it.
LockOfCaller ==
  /\ holder \in Threads \cup {NOBODY}
  /\ holder # NOBODY => wants[holder] # IDLE
  /\ call.pc = "scan" => holder # NOBODY /\ call.asked = wants[holder]

\* Every malloc of every thread returns.
MallocsReturn == \A t \in Threads : wants[t] # IDLE ~> wants[t] = IDLE
=============================================================================
