---------------------------- MODULE MCHeapThreads ----------------------------
(***************************************************************************)
(* Two threads for the runs of HeapThreads.                                *)
(***************************************************************************)
EXTENDS HeapThreads

CONSTANTS t1, t2, nobody

TwoThreads == {t1, t2}

\* The program stores the allocator's own magic: the hardest word.
Magic == {USED_NORMAL}
=============================================================================
