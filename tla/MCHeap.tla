------------------------------- MODULE MCHeap -------------------------------
(***************************************************************************)
(* Values for the runs of Heap, and the view that identifies states which  *)
(* differ only in words nobody can tell apart: of the memory it keeps the  *)
(* allocator's own granules and whether each payload holds what the        *)
(* program stored last, and it drops the stale words of free blocks.       *)
(***************************************************************************)
EXTENDS Heap

\* The program stores the allocator's own magic: the hardest word.
Magic == {USED_NORMAL}

\* The granules of the allocator that exist in this state.
visible == Metadata \cap Addr

filled ==
  {p \in DOMAIN live :
     \A a \in Payload(heap, p) : heap.info[a] = USED_NORMAL}

View ==
  <<[a \in visible |-> <<heap.info[a], heap.size[a]>>], heap.head_, heap.p_brk_,
    heap_start_, maps, call, phase, live, blocks, filled>>
=============================================================================
