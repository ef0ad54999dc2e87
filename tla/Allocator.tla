------------------------------ MODULE Allocator ------------------------------
(***************************************************************************)
(* What malloc and free promise the program, without any memory layout:    *)
(* each pointer the program holds stands for a run of granules of its own, *)
(* and only the program changes the words in them.                         *)
(***************************************************************************)
EXTENDS Integers

CONSTANTS
  ALIGN,   \* bytes in a granule
  MemTop   \* granules of the address space

VARIABLES
  live,   \* pointer -> bytes asked for
  data    \* pointer -> contents: a function on the granules behind it

avars == <<live, data>>

Init ==
  /\ live = [p \in {} |-> 0]
  /\ data = [p \in {} |-> 0]

\* The contents of every pointer in ps are left alone.
Keeps(ps) == \A p \in ps : data'[p] = data[p]

\* Every pointer in ps still stands for the bytes asked for.
Holds(ps) == \A p \in ps : live'[p] = live[p]

\* malloc returns p: a new run of granules that no other pointer has.
Alloc(p) ==
  /\ p > 0
  /\ p \notin DOMAIN live
  /\ DOMAIN live' = DOMAIN live \cup {p}
  /\ DOMAIN data' = DOMAIN live'
  /\ \E len \in 0 .. MemTop :
       /\ DOMAIN data'[p] = p .. p + len - 1
       /\ live'[p] <= ALIGN * len
  /\ \A q \in DOMAIN live : DOMAIN data'[p] \cap DOMAIN data[q] = {}
  /\ Holds(DOMAIN live)
  /\ Keeps(DOMAIN live)

Free(p) ==
  /\ DOMAIN live' = DOMAIN live \ {p}
  /\ DOMAIN data' = DOMAIN live'
  /\ Holds(DOMAIN live \ {p})
  /\ Keeps(DOMAIN live \ {p})

Store(p) ==
  /\ live' = live
  /\ DOMAIN data' = DOMAIN live
  /\ DOMAIN data'[p] = DOMAIN data[p]
  /\ Keeps(DOMAIN live \ {p})

Next ==
  \/ \E p \in DOMAIN live' \ DOMAIN live : Alloc(p)
  \/ \E p \in DOMAIN live : Free(p) \/ Store(p)

Spec == Init /\ [][Next]_avars
=============================================================================
