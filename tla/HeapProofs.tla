----------------------------- MODULE HeapProofs -----------------------------
(***************************************************************************)
(* What the operators of Heap do to the memory, for memories of any size:  *)
(* first the words that an operator writes, then that the blocks still     *)
(* tile the heap, then that tags and free list links survive.  Shape puts  *)
(* the three together, and there is one Shape lemma per operator.          *)
(*                                                                         *)
(* Then HeapInv, an inductive invariant of Heap, and what follows from it. *)
(* Most actions replace the heap by one in shape and leave the mapped      *)
(* regions alone: RebuiltInv reduces them to their Shape lemma.            *)
(*                                                                         *)
(* Free blocks are always coalesced, growth makes room, and a search of    *)
(* the free list ends and misses no block.                                 *)
(*                                                                         *)
(* With several threads and one lock, the heap keeps the invariant it has  *)
(* with one thread: a step of a thread is a step of Heap, a store that may *)
(* come in the middle of another thread's malloc, or no step of the heap.  *)
(*                                                                         *)
(* The heap, with one thread or several, implements Allocator, as long as  *)
(* the sizes asked for do not wrap around when malloc rounds them up.      *)
(* Every change of the heap spares the blocks the program holds and the    *)
(* maps, so that what the program sees behind its other pointers is left   *)
(* alone.                                                                  *)
(***************************************************************************)
EXTENDS HeapThreads, FiniteSetTheorems, Induction

\* The memories the operators work on.
HeapType == [info: [Addr -> Int], size: [Addr -> Int],
             head_: Int, p_brk_: 0 .. BrkLimit]

\* What writing one info word changes.
LEMMA SetInfo ==
  ASSUME NEW h \in HeapType, NEW a, NEW v \in Int
  PROVE  LET r == set_info(h, a, v)
         IN  /\ r \in HeapType
             /\ r.size = h.size /\ r.head_ = h.head_ /\ r.p_brk_ = h.p_brk_
             /\ \A x \in Addr : r.info[x] = IF x = a THEN v ELSE h.info[x]
BY DEF set_info, HeapType

\* What writing a size into a header and its footer changes.
LEMMA SetSize ==
  ASSUME NEW h \in HeapType, NEW b \in Int, NEW n \in Int
  PROVE  LET r == set_size(h, b, n)
         IN  /\ r \in HeapType
             /\ r.info = h.info /\ r.head_ = h.head_ /\ r.p_brk_ = h.p_brk_
             /\ \A x \in Addr : r.size[x] =
                  IF x = b \/ x = b + 1 + n THEN n ELSE h.size[x]
BY DEF set_size, HeapType

\* Cells of different blocks are different cells, and all are in memory.
LEMMA Cells ==
  ASSUME NEW h \in HeapType, NEW start \in Int, NEW bs \in SUBSET Addr,
         Tiled(h, start, bs)
  PROVE  /\ \A b \in bs : /\ b \in Addr /\ footer_of(h, b) \in Addr
                          /\ h.size[b] \in Nat
                          /\ start < b /\ b < footer_of(h, b)
                          /\ footer_of(h, b) < h.p_brk_ - 1
         /\ \A b, c \in bs : /\ b # footer_of(h, c)
                             /\ b # c => footer_of(h, b) # footer_of(h, c)
         /\ start \in Addr /\ h.p_brk_ - 1 \in Addr
<1> USE HeapConstants
<1>1. \A b \in bs : b \in Addr /\ h.size[b] \in Int
  BY DEF HeapType
<1>2. ASSUME NEW b \in bs
      PROVE  /\ h.size[b] \in Nat
             /\ start < b /\ b < footer_of(h, b)
             /\ footer_of(h, b) < h.p_brk_ - 1
             /\ footer_of(h, b) \in Addr
  <2>1. b > start /\ h.size[b] >= 0 /\ after(h, b) < h.p_brk_ /\ start >= 1
    BY DEF Tiled
  <2>2. b \in Int /\ h.size[b] \in Int /\ h.p_brk_ \in 0 .. BrkLimit
    BY <1>1 DEF HeapType, Addr
  <2> QED BY <2>1, <2>2 DEF after, footer_of, Addr
<1>3. \A b, c \in bs : b < c => footer_of(h, b) < c
  BY DEF Tiled
<1>4. \A b, c \in bs : /\ b # footer_of(h, c)
                       /\ b # c => footer_of(h, b) # footer_of(h, c)
  BY <1>1, <1>2, <1>3 DEF Addr
<1>5. start \in Addr /\ h.p_brk_ - 1 \in Addr
  BY DEF Tiled, Addr, HeapType
<1> QED BY <1>1, <1>2, <1>4, <1>5

\* The same, as integers.
LEMMA CellInts ==
  ASSUME NEW h \in HeapType, NEW start \in Int, NEW bs \in SUBSET Addr,
         Tiled(h, start, bs)
  PROVE  /\ \A b \in bs : /\ b \in Int /\ footer_of(h, b) \in Int
                          /\ after(h, b) \in Int
                          /\ h.size[b] \in Nat
                          /\ footer_of(h, b) = b + 1 + h.size[b]
                          /\ after(h, b) = b + 2 + h.size[b]
         /\ h.p_brk_ \in Int /\ start >= 1
<1>1. \A b \in bs : b \in Addr /\ footer_of(h, b) \in Addr /\ h.size[b] \in Nat
  BY Cells
<1>2. \A b \in Addr : b \in Int BY HeapConstants DEF Addr
<1>3. \A b \in bs : footer_of(h, b) = b + 1 + h.size[b] BY DEF footer_of
<1>4. \A b \in bs : after(h, b) = b + 2 + h.size[b]
  BY <1>1, <1>2, <1>3 DEF after
<1>5. h.p_brk_ \in Int /\ start >= 1 BY HeapConstants DEF HeapType, Tiled
<1> QED BY <1>1, <1>2, <1>3, <1>4, <1>5

-----------------------------------------------------------------------------
(* The free list                                                           *)

\* Heap r is h with block b put at the head of the list.
HeadInserted(h, r, b) ==
  /\ r \in HeapType
  /\ r.size = h.size /\ r.head_ = b /\ r.p_brk_ = h.p_brk_
  /\ \A x \in Addr : r.info[x] =
       IF h.head_ # NULL /\ x = footer_of(h, h.head_) THEN b
       ELSE IF x = footer_of(h, b) THEN NULL
       ELSE IF x = b THEN h.head_ ELSE h.info[x]

\* The words insert_into_list(NULL, b) writes: a block put at the head.
LEMMA InsertHeadEffect ==
  ASSUME NEW h \in HeapType, NEW b \in Addr
  PROVE  HeadInserted(h, insert_into_list(h, NULL, b), b)
<1> DEFINE own == [h.info EXCEPT ![b] = h.head_, ![footer_of(h, b)] = NULL]
           all == IF h.head_ = NULL THEN own
                  ELSE [own EXCEPT ![footer_of(h, h.head_)] = b]
<1>1. insert_into_list(h, NULL, b) = [h EXCEPT !.head_ = b, !.info = all]
  BY DEF insert_into_list
<1>2. h.info \in [Addr -> Int] /\ h.head_ \in Int /\ b \in Int /\ NULL \in Int
  BY DEF HeapType, NULL, Addr
<1>3. /\ own \in [Addr -> Int]
      /\ \A x \in Addr : own[x] = IF x = footer_of(h, b) THEN NULL
                                  ELSE IF x = b THEN h.head_ ELSE h.info[x]
  BY <1>2
<1> HIDE DEF own
<1>4. /\ all \in [Addr -> Int]
      /\ \A x \in Addr : all[x] =
           IF h.head_ # NULL /\ x = footer_of(h, h.head_) THEN b ELSE own[x]
  BY <1>2, <1>3
<1> HIDE DEF all
<1>5. [h EXCEPT !.head_ = b, !.info = all] \in HeapType
  BY <1>2, <1>4 DEF HeapType
<1> QED BY <1>1, <1>3, <1>4, <1>5 DEF HeapType, HeadInserted

\* Heap r is h with block b put behind c.
InsertedAfter(h, r, c, b) ==
  /\ r \in HeapType
  /\ r.size = h.size /\ r.head_ = h.head_ /\ r.p_brk_ = h.p_brk_
  /\ \A x \in Addr : r.info[x] =
       IF h.info[c] # NULL /\ x = footer_of(h, h.info[c]) THEN b
       ELSE IF x = c THEN b
       ELSE IF x = footer_of(h, b) THEN c
       ELSE IF x = b THEN h.info[c] ELSE h.info[x]

\* The words insert_into_list(c, b) writes: a block put behind c.
LEMMA InsertAfterEffect ==
  ASSUME NEW h \in HeapType, NEW b \in Addr, NEW c \in Addr, c # NULL
  PROVE  InsertedAfter(h, insert_into_list(h, c, b), c, b)
<1> DEFINE next == h.info[c]
           own == [h.info EXCEPT ![b] = next, ![footer_of(h, b)] = c]
           linked == [own EXCEPT ![c] = b]
           all == IF next = NULL THEN linked
                  ELSE [linked EXCEPT ![footer_of(h, next)] = b]
<1>1. insert_into_list(h, c, b) = [h EXCEPT !.head_ = h.head_, !.info = all]
  BY DEF insert_into_list
<1>2. h.info \in [Addr -> Int] /\ next \in Int /\ b \in Int /\ c \in Int
  <2>1. h.info \in [Addr -> Int] BY DEF HeapType
  <2> QED BY <2>1, HeapConstants DEF Addr
<1>3. /\ linked \in [Addr -> Int]
      /\ \A x \in Addr : linked[x] = IF x = c THEN b
                                     ELSE IF x = footer_of(h, b) THEN c
                                     ELSE IF x = b THEN next ELSE h.info[x]
  BY <1>2
<1> HIDE DEF linked
<1>4. /\ all \in [Addr -> Int]
      /\ \A x \in Addr : all[x] =
           IF next # NULL /\ x = footer_of(h, next) THEN b ELSE linked[x]
  BY <1>2, <1>3
<1> HIDE DEF all
<1>5. [h EXCEPT !.head_ = h.head_, !.info = all] \in HeapType
  BY <1>2, <1>4 DEF HeapType
<1> QED BY <1>1, <1>3, <1>4, <1>5 DEF HeapType, InsertedAfter

\* Heap r is h with block b unlinked.
Removed(h, r, b) ==
  LET prev == h.info[footer_of(h, b)]
      next == h.info[b]
  IN  /\ r \in HeapType
      /\ r.size = h.size /\ r.p_brk_ = h.p_brk_
      /\ r.head_ = IF prev = NULL THEN next ELSE h.head_
      /\ \A x \in Addr : r.info[x] =
           IF next # NULL /\ x = footer_of(h, next) THEN prev
           ELSE IF prev # NULL /\ x = prev THEN next ELSE h.info[x]

\* The words remove_from_list writes.
LEMMA RemoveEffect ==
  ASSUME NEW h \in HeapType, NEW b \in Addr, footer_of(h, b) \in Addr
  PROVE  Removed(h, remove_from_list(h, b), b)
BY DEF remove_from_list, HeapType, NULL, Addr, Removed

\* Putting a block at the head keeps next and prev inverse to each other.
LEMMA InsertHeadLinks ==
  ASSUME NEW h \in HeapType, NEW start \in Int, NEW bs \in SUBSET Addr,
         NEW F \in SUBSET bs, NEW b \in bs, b \notin F,
         Tiled(h, start, bs), Linked(h, F)
  PROVE  Linked(insert_into_list(h, NULL, b), F \cup {b})
<1> DEFINE r == insert_into_list(h, NULL, b)
<1>1. /\ r.size = h.size /\ r.head_ = b
      /\ \A x \in Addr : r.info[x] =
           IF h.head_ # NULL /\ x = footer_of(h, h.head_) THEN b
           ELSE IF x = footer_of(h, b) THEN NULL
           ELSE IF x = b THEN h.head_ ELSE h.info[x]
  <2>1. HeadInserted(h, r, b) BY InsertHeadEffect
  <2> QED BY <2>1 DEF HeadInserted
<1>2. \A c \in bs : footer_of(r, c) = footer_of(h, c)
  BY <1>1 DEF footer_of
<1>3. /\ \A c \in bs : c \in Addr /\ footer_of(h, c) \in Addr /\ c # NULL
      /\ \A c, d \in bs : /\ c # footer_of(h, d)
                          /\ c # d => footer_of(h, c) # footer_of(h, d)
  <2>1. start >= 1 BY DEF Tiled
  <2> QED BY <2>1, Cells DEF NULL, Addr
<1> HIDE DEF r
<1>4. b \in F \cup {b} /\ r.info[footer_of(r, b)] = NULL /\ r.info[b] = h.head_
  BY <1>1, <1>2, <1>3 DEF Linked
<1>5. ASSUME NEW c \in F
      PROVE  /\ r.info[c] = h.info[c]
             /\ c = h.head_ => r.info[footer_of(r, c)] = b
             /\ c # h.head_ => r.info[footer_of(r, c)] = h.info[footer_of(h, c)]
  BY <1>1, <1>2, <1>3 DEF Linked
<1>6. ASSUME NEW c \in F
      PROVE  LET next == r.info[c]
                 prev == r.info[footer_of(r, c)]
             IN  /\ next # NULL => next \in F \cup {b}
                                   /\ r.info[footer_of(r, next)] = c
                 /\ prev # NULL => prev \in F \cup {b} /\ r.info[prev] = c
                 /\ prev = NULL => r.head_ = c
  BY <1>1, <1>3, <1>4, <1>5 DEF Linked
<1>7. h.head_ # NULL => h.head_ \in F /\ r.info[footer_of(r, h.head_)] = b
  BY <1>5 DEF Linked
<1>8. Reached(r, F \cup {b})
  <2> SUFFICES ASSUME NEW P \in SUBSET (F \cup {b}),
                      r.head_ # NULL => r.head_ \in P,
                      \A x \in P : r.info[x] # NULL => r.info[x] \in P
               PROVE  P = F \cup {b}
    BY DEF Reached
  <2>1. b \in P BY <1>1, <1>3
  <2>2. h.head_ # NULL => h.head_ \in P \ {b} BY <2>1, <1>4 DEF Linked
  <2>3. \A x \in P \ {b} : h.info[x] # NULL => h.info[x] \in P \ {b}
    BY <1>5 DEF Linked
  <2>4. P \ {b} = F BY <2>2, <2>3 DEF Linked, Reached
  <2> QED BY <2>1, <2>4
<1> QED BY <1>1, <1>4, <1>6, <1>7, <1>8, <1>3 DEF Linked, r

\* Putting a block behind a free one keeps next and prev inverse.
LEMMA InsertAfterLinks ==
  ASSUME NEW h \in HeapType, NEW start \in Int, NEW bs \in SUBSET Addr,
         NEW F \in SUBSET bs, NEW b \in bs, b \notin F, NEW c \in F,
         Tiled(h, start, bs), Linked(h, F)
  PROVE  Linked(insert_into_list(h, c, b), F \cup {b})
<1> DEFINE r == insert_into_list(h, c, b)
           after_c == h.info[c]
<1>3. /\ \A x \in bs : x \in Addr /\ footer_of(h, x) \in Addr /\ x # NULL
      /\ \A x, y \in bs : /\ x # footer_of(h, y)
                          /\ x # y => footer_of(h, x) # footer_of(h, y)
  <2>1. start >= 1 BY DEF Tiled
  <2> QED BY <2>1, Cells DEF NULL, Addr
<1>1. /\ r.size = h.size /\ r.head_ = h.head_
      /\ \A x \in Addr : r.info[x] =
           IF after_c # NULL /\ x = footer_of(h, after_c) THEN b
           ELSE IF x = c THEN b
           ELSE IF x = footer_of(h, b) THEN c
           ELSE IF x = b THEN after_c ELSE h.info[x]
  <2>1. InsertedAfter(h, r, c, b) BY <1>3, InsertAfterEffect
  <2> QED BY <2>1 DEF InsertedAfter
<1>2. \A x \in bs : footer_of(r, x) = footer_of(h, x)
  BY <1>1 DEF footer_of
<1> HIDE DEF r
<1>4. after_c # NULL => after_c \in F /\ h.info[footer_of(h, after_c)] = c
                        /\ r.info[footer_of(r, after_c)] = b
  BY <1>1, <1>2, <1>3 DEF Linked
<1>5. r.info[b] = after_c /\ r.info[footer_of(r, b)] = c /\ r.info[c] = b
  BY <1>1, <1>2, <1>3, <1>4
<1>6. ASSUME NEW x \in F
      PROVE  /\ x # c => r.info[x] = h.info[x]
             /\ x # after_c => r.info[footer_of(r, x)] = h.info[footer_of(h, x)]
  BY <1>1, <1>2, <1>3, <1>4
<1>7. ASSUME NEW x \in F
      PROVE  LET next == r.info[x]
                 prev == r.info[footer_of(r, x)]
             IN  /\ next # NULL => next \in F \cup {b}
                                   /\ r.info[footer_of(r, next)] = x
                 /\ prev # NULL => prev \in F \cup {b} /\ r.info[prev] = x
                 /\ prev = NULL => r.head_ = x
  <2>1. r.info[x] # NULL => /\ r.info[x] \in F \cup {b}
                            /\ r.info[footer_of(r, r.info[x])] = x
    BY <1>4, <1>5, <1>6 DEF Linked
  <2>2. LET prev == r.info[footer_of(r, x)]
        IN  /\ prev # NULL => prev \in F \cup {b} /\ r.info[prev] = x
            /\ prev = NULL => r.head_ = x
    BY <1>1, <1>3, <1>4, <1>5, <1>6 DEF Linked
  <2> QED BY <2>1, <2>2
<1>8. r.head_ # NULL => r.head_ \in F \cup {b} /\ r.info[footer_of(r, r.head_)] = NULL
  BY <1>1, <1>3, <1>4, <1>6 DEF Linked
<1>9. Reached(r, F \cup {b})
  <2> SUFFICES ASSUME NEW P \in SUBSET (F \cup {b}),
                      r.head_ # NULL => r.head_ \in P,
                      \A x \in P : r.info[x] # NULL => r.info[x] \in P
               PROVE  P = F \cup {b}
    BY DEF Reached
  <2>1. h.head_ # NULL => h.head_ \in P \ {b} BY <1>1 DEF Linked
  <2>2. ASSUME NEW x \in P \ {b}, h.info[x] # NULL
        PROVE  h.info[x] \in P \ {b}
    <3>1. h.info[x] \in F BY <2>2 DEF Linked
    <3>2. x # c => h.info[x] \in P BY <2>2, <1>6
    <3>3. x = c => b \in P BY <2>2, <1>3, <1>5
    <3>4. x = c => h.info[x] \in P BY <2>2, <3>3, <1>5
    <3> QED BY <3>1, <3>2, <3>4
  <2>3. P \ {b} = F BY <2>1, <2>2 DEF Linked, Reached
  <2>4. b \in P BY <2>3, <1>3, <1>5
  <2> QED BY <2>3, <2>4
<1> QED BY <1>3, <1>4, <1>5, <1>7, <1>8, <1>9 DEF Linked, r

\* Taking a block out of the list keeps next and prev inverse.
LEMMA RemoveLinks ==
  ASSUME NEW h \in HeapType, NEW start \in Int, NEW bs \in SUBSET Addr,
         NEW F \in SUBSET bs, NEW b \in F,
         Tiled(h, start, bs), Linked(h, F)
  PROVE  Linked(remove_from_list(h, b), F \ {b})
<1> DEFINE r == remove_from_list(h, b)
           p == h.info[footer_of(h, b)]
           n == h.info[b]
<1>1. /\ \A x \in bs : x \in Addr /\ footer_of(h, x) \in Addr /\ x # NULL
      /\ \A x, y \in bs : /\ x # footer_of(h, y)
                          /\ x # y => footer_of(h, x) # footer_of(h, y)
  <2>1. start >= 1 BY DEF Tiled
  <2> QED BY <2>1, Cells DEF NULL, Addr
<1>2. /\ r.size = h.size
      /\ r.head_ = IF p = NULL THEN n ELSE h.head_
      /\ \A x \in Addr : r.info[x] =
           IF n # NULL /\ x = footer_of(h, n) THEN p
           ELSE IF p # NULL /\ x = p THEN n ELSE h.info[x]
  <2>1. Removed(h, r, b) BY <1>1, RemoveEffect
  <2> QED BY <2>1 DEF Removed
<1>3. \A x \in bs : footer_of(r, x) = footer_of(h, x)
  BY <1>2 DEF footer_of
<1> HIDE DEF r
<1>4. /\ n # NULL => n \in F /\ h.info[footer_of(h, n)] = b
      /\ p # NULL => p \in F /\ h.info[p] = b
      /\ p = NULL => h.head_ = b
  BY DEF Linked
<1>5. ASSUME NEW x \in F
      PROVE  /\ r.info[x] = IF p # NULL /\ x = p THEN n ELSE h.info[x]
             /\ r.info[footer_of(r, x)] =
                  IF n # NULL /\ x = n THEN p ELSE h.info[footer_of(h, x)]
  BY <1>1, <1>2, <1>3, <1>4
<1>6. ASSUME NEW x \in F, x # b
      PROVE  /\ x # p => h.info[x] # b
             /\ x # n => h.info[footer_of(h, x)] # b
  BY <1>1 DEF Linked
<1>7. ASSUME NEW x \in F \ {b}
      PROVE  LET next == r.info[x]
             IN  next # NULL => next \in F \ {b} /\ r.info[footer_of(r, next)] = x
  BY <1>1, <1>4, <1>5, <1>6 DEF Linked
<1>8. ASSUME NEW x \in F \ {b}
      PROVE  LET prev == r.info[footer_of(r, x)]
             IN  /\ prev # NULL => prev \in F \ {b} /\ r.info[prev] = x
                 /\ prev = NULL => r.head_ = x
  BY <1>1, <1>2, <1>4, <1>5, <1>6 DEF Linked
<1>9. r.head_ # NULL => r.head_ \in F \ {b} /\ r.info[footer_of(r, r.head_)] = NULL
  BY <1>1, <1>2, <1>4, <1>5, <1>6 DEF Linked
<1>10. Reached(r, F \ {b})
  <2> SUFFICES ASSUME NEW P \in SUBSET (F \ {b}),
                      r.head_ # NULL => r.head_ \in P,
                      \A x \in P : r.info[x] # NULL => r.info[x] \in P
               PROVE  P = F \ {b}
    BY DEF Reached
  <2>1. \A x \in P : x # p => h.info[x] = r.info[x] BY <1>5
  <2>2. CASE p # NULL /\ p \notin P
    <3>1. h.head_ # NULL => h.head_ \in P BY <2>2, <1>2
    <3>2. \A x \in P : h.info[x] # NULL => h.info[x] \in P BY <2>1, <2>2
    <3>3. P = F BY <3>1, <3>2 DEF Linked, Reached
    <3> QED BY <3>3, <2>2, <1>4
  <2>3. CASE p = NULL \/ p \in P
    <3>1. n # NULL => n \in P
      <4>1. CASE p = NULL BY <4>1, <1>2
      <4>2. CASE p # NULL BY <4>2, <2>3, <1>4, <1>5
      <4> QED BY <4>1, <4>2
    <3>2. h.head_ # NULL => h.head_ \in P \cup {b} BY <1>2, <1>4
    <3>3. ASSUME NEW x \in P \cup {b}, h.info[x] # NULL
          PROVE  h.info[x] \in P \cup {b}
      <4>1. CASE x = b BY <4>1, <3>1, <3>3
      <4>2. CASE x = p BY <4>2, <2>3, <1>1, <1>4, <3>1, <3>3
      <4>3. CASE x # b /\ x # p BY <4>3, <2>1, <3>3
      <4> QED BY <4>1, <4>2, <4>3
    <3>4. P \cup {b} \in SUBSET F /\ Reached(h, F) BY DEF Linked
    <3> DEFINE Q == P \cup {b}
    <3>5. \A x \in Q : h.info[x] # NULL => h.info[x] \in Q BY <3>3
    <3> HIDE DEF Q
    <3>6. Q = F BY <3>2, <3>4, <3>5 DEF Q, Reached
    <3> QED BY <3>6 DEF Q
  <2> QED BY <2>2, <2>3
<1> QED BY <1>7, <1>8, <1>9, <1>10 DEF Linked, r

-----------------------------------------------------------------------------
(* Tilings: what a change of sizes does to the sequence of blocks          *)

\* Tiled reads the sizes of the cells of blocks and the break, nothing else.
LEMMA TiledFrame ==
  ASSUME NEW h \in HeapType, NEW r \in HeapType,
         NEW start \in Int, NEW bs \in SUBSET Addr, Tiled(h, start, bs),
         r.p_brk_ = h.p_brk_,
         \A b \in bs : /\ r.size[b] = h.size[b]
                       /\ r.size[footer_of(h, b)] = h.size[footer_of(h, b)]
  PROVE  Tiled(r, start, bs) /\ \A b \in bs : footer_of(r, b) = footer_of(h, b)
<1>1. \A b \in bs : footer_of(r, b) = footer_of(h, b) /\ after(r, b) = after(h, b)
  BY DEF footer_of, after
<1>2. ASSUME NEW b \in bs \cup {h.p_brk_ - 1}, b # start + 1
      PROVE  /\ header_of(r, b - 1) \in bs
             /\ after(r, header_of(r, b - 1)) = b
  <2>1. header_of(h, b - 1) \in bs /\ after(h, header_of(h, b - 1)) = b
    BY <1>2 DEF Tiled
  <2> DEFINE c == header_of(h, b - 1)
  <2>2. footer_of(h, c) + 1 = b BY <2>1 DEF after
  <2>3. footer_of(h, c) \in Int /\ b \in Int
    BY <2>1, <1>2, CellInts
  <2>4. footer_of(h, c) = b - 1 BY <2>2, <2>3
  <2>5. r.size[b - 1] = h.size[b - 1] BY <2>1, <2>4
  <2>6. header_of(r, b - 1) = c BY <2>5 DEF header_of
  <2> QED BY <2>1, <2>6, <1>1
<1>3. r.p_brk_ > start + 1 /\ start >= 1 /\ start + 1 \in bs BY DEF Tiled
<1>4. ASSUME NEW b \in bs
      PROVE  /\ b > start /\ r.size[b] >= 0 /\ after(r, b) < r.p_brk_
             /\ r.size[footer_of(r, b)] = r.size[b]
             /\ after(r, b) \in bs \cup {r.p_brk_ - 1}
  BY <1>1 DEF Tiled
<1>5. \A b, c \in bs : b < c => footer_of(r, b) < c
  BY <1>1 DEF Tiled
<1> QED BY <1>1, <1>2, <1>3, <1>4, <1>5 DEF Tiled

\* Linked reads head_ and the cells of the free blocks.
LEMMA LinkedFrame ==
  ASSUME NEW h, NEW r, NEW F, Linked(h, F), r.head_ = h.head_,
         \A b \in F : /\ r.info[b] = h.info[b]
                      /\ r.info[footer_of(r, b)] = h.info[footer_of(h, b)]
  PROVE  Linked(r, F)
<1>1. Reached(r, F) BY DEF Linked, Reached
<1> QED BY <1>1 DEF Linked

\* In r the block c of h is cut after n granules.
Cut(h, r, start, bs, c, n) ==
  LET d == c + 2 + n
  IN  /\ Tiled(r, start, bs \cup {d})
      /\ d \in Addr /\ d \notin bs
      /\ footer_of(r, c) = c + 1 + n
      /\ footer_of(r, d) = footer_of(h, c)
      /\ \A b \in bs \ {c} : footer_of(r, b) = footer_of(h, b)

\* Cutting block c after n granules.
LEMMA TiledSplit ==
  ASSUME NEW h \in HeapType, NEW r \in HeapType,
         NEW start \in Int, NEW bs \in SUBSET Addr, Tiled(h, start, bs),
         NEW c \in bs, NEW n \in Nat, h.size[c] - n > 2,
         r.p_brk_ = h.p_brk_,
         \A x \in Addr : r.size[x] =
            IF x \in {c + 2 + n, footer_of(h, c)} THEN h.size[c] - n - 2
            ELSE IF x \in {c, c + 1 + n} THEN n ELSE h.size[x]
  PROVE  Cut(h, r, start, bs, c, n)
<1> DEFINE d == c + 2 + n
<1>1. /\ c \in Int /\ h.size[c] \in Nat /\ footer_of(h, c) = c + 1 + h.size[c]
      /\ \A b \in bs : b \in Int /\ footer_of(h, b) \in Int /\ h.size[b] \in Nat
                       /\ b \in Addr /\ footer_of(h, b) \in Addr
      /\ footer_of(h, c) \in Addr
      /\ h.p_brk_ \in Int /\ start >= 1 /\ c > start
  <2>1. c > start BY DEF Tiled
  <2>2. \A b \in bs : b \in Addr /\ footer_of(h, b) \in Addr BY Cells
  <2> QED BY <2>1, <2>2, CellInts
<1>2. d \in Addr /\ c + 1 + n \in Addr /\ c \in Addr
  BY <1>1, HeapConstants DEF Addr
<1>3. ASSUME NEW b \in bs, b # c
      PROVE  /\ b < c \/ b > footer_of(h, c)
             /\ footer_of(h, b) < c \/ footer_of(h, b) > footer_of(h, c)
  <2>1. /\ b < c => footer_of(h, b) < c
        /\ c < b => footer_of(h, c) < b
    BY DEF Tiled
  <2>2. b < footer_of(h, b) /\ c < footer_of(h, c) BY Cells
  <2>3. b \in Int /\ c \in Int /\ footer_of(h, b) \in Int /\ footer_of(h, c) \in Int
    BY <1>1
  <2> QED BY <2>1, <2>2, <2>3, <1>3
<1>4. d \notin bs
  BY <1>1, <1>3
<1>5. ASSUME NEW b \in bs, b # c
      PROVE  /\ r.size[b] = h.size[b]
             /\ footer_of(r, b) = footer_of(h, b) /\ after(r, b) = after(h, b)
             /\ r.size[footer_of(r, b)] = h.size[footer_of(h, b)]
  <2>1. b \notin {d, footer_of(h, c), c, c + 1 + n}
        /\ footer_of(h, b) \notin {d, footer_of(h, c), c, c + 1 + n}
    BY <1>1, <1>3, <1>5
  <2>2. r.size[b] = h.size[b] /\ r.size[footer_of(h, b)] = h.size[footer_of(h, b)]
    BY <1>1, <2>1
  <2> QED BY <2>2 DEF footer_of, after
<1>6. /\ r.size[c] = n /\ r.size[c + 1 + n] = n
      /\ r.size[d] = h.size[c] - n - 2
      /\ r.size[footer_of(h, c)] = h.size[c] - n - 2
  BY <1>1, <1>2
<1>7. /\ footer_of(r, c) = c + 1 + n /\ after(r, c) = d
      /\ footer_of(r, d) = footer_of(h, c) /\ after(r, d) = after(h, c)
  BY <1>1, <1>6 DEF footer_of, after
<1> HIDE DEF d
<1>8. ASSUME NEW b \in bs \cup {d}
      PROVE  /\ b > start /\ r.size[b] >= 0 /\ after(r, b) < r.p_brk_
             /\ r.size[footer_of(r, b)] = r.size[b]
             /\ after(r, b) \in bs \cup {d} \cup {r.p_brk_ - 1}
  <2>1. CASE b \in bs /\ b # c
    BY <2>1, <1>5 DEF Tiled
  <2>2. CASE b = d
    <3>1. after(h, c) < h.p_brk_ /\ after(h, c) \in bs \cup {h.p_brk_ - 1}
      BY DEF Tiled
    <3>2. d > start BY <1>1 DEF d
    <3>3. r.size[footer_of(r, d)] = r.size[d] /\ r.size[d] >= 0 BY <1>1, <1>6, <1>7
    <3> QED BY <2>2, <3>1, <3>2, <3>3, <1>7
  <2>3. CASE b = c
    <3>1. after(h, c) < h.p_brk_ BY DEF Tiled
    <3>2. d < h.p_brk_ BY <3>1, <1>1 DEF after, d
    <3> QED BY <2>3, <3>2, <1>1, <1>6, <1>7
  <2> QED BY <2>1, <2>2, <2>3
<1>9. ASSUME NEW b \in bs \cup {d} \cup {h.p_brk_ - 1}, b # start + 1
      PROVE  /\ header_of(r, b - 1) \in bs \cup {d}
             /\ after(r, header_of(r, b - 1)) = b
  <2>1. CASE b = d
    <3>1. b - 1 = c + 1 + n BY <2>1, <1>1 DEF d
    <3>2. header_of(r, b - 1) = c BY <3>1, <1>6, <1>1 DEF header_of
    <3> QED BY <3>2, <2>1, <1>7
  <2>2. CASE b # d
    <3> DEFINE q == header_of(h, b - 1)
    <3>1. q \in bs /\ after(h, q) = b BY <2>2, <1>9 DEF Tiled
    <3>2. b \in Int BY <1>1, <2>2, <1>9
    <3> HIDE DEF q
    <3>3. footer_of(h, q) = b - 1
      <4>1. footer_of(h, q) \in Int BY <3>1, <1>1
      <4> QED BY <4>1, <3>1, <3>2 DEF after
    <3>4. CASE q # c
      <4>1. r.size[b - 1] = h.size[b - 1] /\ after(r, q) = b BY <3>1, <3>3, <3>4, <1>5
      <4> QED BY <4>1, <3>1 DEF header_of, q
    <3>5. CASE q = c
      <4>1. r.size[b - 1] = h.size[c] - n - 2 BY <3>3, <3>5, <1>6
      <4>2. b - 1 = c + 1 + h.size[c] BY <3>3, <3>5, <1>1
      <4>3. header_of(r, b - 1) = d BY <4>1, <4>2, <1>1 DEF header_of, d
      <4> QED BY <4>3, <1>7, <3>1, <3>5
    <3> QED BY <3>4, <3>5
  <2> QED BY <2>1, <2>2
<1>10. ASSUME NEW b \in bs \cup {d}, NEW e \in bs \cup {d}, b < e
       PROVE  footer_of(r, b) < e
  <2>1. \A x, y \in bs : x < y => footer_of(h, x) < y BY DEF Tiled
  <2>2. c < d /\ d < footer_of(h, c) /\ footer_of(r, c) < d /\ d \in Int
    BY <1>1, <1>7 DEF d
  <2>3. CASE b \in bs \ {c} /\ e \in bs BY <2>1, <2>3, <1>5, <1>10
  <2>4. CASE b = c /\ e \in bs
    <3>1. footer_of(h, c) < e BY <2>1, <2>4, <1>10
    <3> QED BY <3>1, <2>2, <2>4, <1>7, <1>1
  <2>5. CASE b = d /\ e \in bs
    <3>1. c # e /\ ~(e < c) BY <2>2, <2>5, <1>10, <1>1
    <3>2. e > footer_of(h, c) BY <2>5, <3>1, <1>3
    <3> QED BY <3>2, <2>5, <1>7
  <2>6. CASE b = c /\ e = d BY <2>6, <2>2
  <2>7. CASE b \in bs \ {c} /\ e = d
    <3>1. ~(b > footer_of(h, c))
      <4>1. b \in Int /\ footer_of(h, c) \in Int BY <1>1, <2>7
      <4>2. b < d BY <1>10, <2>7
      <4> QED BY <4>1, <4>2, <2>2
    <3>2. footer_of(h, b) < c
      <4>1. b < c BY <1>3, <3>1, <2>7
      <4> QED BY <4>1, <2>1, <2>7
    <3>3. footer_of(r, b) < c BY <3>2, <2>7, <1>5
    <3>4. footer_of(r, b) \in Int BY <2>7, <1>5, <1>1
    <3> QED BY <3>3, <3>4, <2>2, <2>7, <1>1
  <2> QED BY <2>2, <2>3, <2>4, <2>5, <2>6, <2>7, <1>10
<1>11. r.p_brk_ > start + 1 /\ start >= 1 /\ start + 1 \in bs BY DEF Tiled
<1>12. Tiled(r, start, bs \cup {d})
  BY <1>8, <1>9, <1>10, <1>11 DEF Tiled
<1> QED BY <1>2, <1>4, <1>5, <1>7, <1>12 DEF d, Cut

\* In r the blocks c and b of h are one.
Joined(h, r, start, bs, c, b) ==
  /\ Tiled(r, start, bs \ {b})
  /\ footer_of(r, c) = footer_of(h, b)
  /\ \A x \in bs \ {b, c} : footer_of(r, x) = footer_of(h, x)

\* Joining block b to the block c before it.
LEMMA TiledJoin ==
  ASSUME NEW h \in HeapType, NEW r \in HeapType,
         NEW start \in Int, NEW bs \in SUBSET Addr, Tiled(h, start, bs),
         NEW c \in bs, NEW b \in bs, after(h, c) = b,
         r.p_brk_ = h.p_brk_,
         \A x \in Addr : r.size[x] =
            IF x \in {c, footer_of(h, b)} THEN h.size[c] + h.size[b] + 2
            ELSE h.size[x]
  PROVE  Joined(h, r, start, bs, c, b)
<1> DEFINE t == h.size[c] + h.size[b] + 2
<1>1. \A x \in bs : /\ x \in Int /\ x \in Addr
                    /\ footer_of(h, x) \in Int /\ footer_of(h, x) \in Addr
                    /\ after(h, x) \in Int /\ h.size[x] \in Nat
                    /\ footer_of(h, x) = x + 1 + h.size[x]
                    /\ after(h, x) = x + 2 + h.size[x]
  BY Cells, CellInts
<1>2. /\ c < footer_of(h, c) /\ footer_of(h, c) + 1 = b /\ b < footer_of(h, b)
      /\ c < b /\ c > start /\ t \in Nat /\ footer_of(h, b) = c + 1 + t
      /\ after(h, b) = c + 2 + t
  <2>1. c > start BY DEF Tiled
  <2> QED BY <1>1, <2>1
<1>3. ASSUME NEW x \in bs, x # c, x # b
      PROVE  \/ x < c /\ footer_of(h, x) < c
             \/ x > footer_of(h, b) /\ footer_of(h, x) > footer_of(h, b)
  <2>1. /\ x < c => footer_of(h, x) < c
        /\ x < b => footer_of(h, x) < b
        /\ c < x => footer_of(h, c) < x
        /\ b < x => footer_of(h, b) < x
    BY DEF Tiled
  <2>2. /\ x \in Int /\ c \in Int /\ b \in Int /\ x < footer_of(h, x)
        /\ footer_of(h, x) \in Int /\ footer_of(h, c) \in Int
        /\ footer_of(h, b) \in Int
    BY <1>1
  <2> QED BY <2>1, <2>2, <1>2, <1>3
<1>4. ASSUME NEW x \in bs, x # c, x # b
      PROVE  /\ r.size[x] = h.size[x]
             /\ footer_of(r, x) = footer_of(h, x) /\ after(r, x) = after(h, x)
             /\ r.size[footer_of(r, x)] = h.size[footer_of(h, x)]
  <2>1. x \notin {c, footer_of(h, b)} /\ footer_of(h, x) \notin {c, footer_of(h, b)}
    BY <1>1, <1>2, <1>3, <1>4
  <2>2. r.size[x] = h.size[x] /\ r.size[footer_of(h, x)] = h.size[footer_of(h, x)]
    BY <1>1, <2>1
  <2> QED BY <2>2 DEF footer_of, after
<1>5. r.size[c] = t /\ r.size[footer_of(h, b)] = t
  BY <1>1
<1> HIDE DEF t
<1>6. footer_of(r, c) = footer_of(h, b) /\ after(r, c) = after(h, b)
  BY <1>1, <1>2, <1>5 DEF footer_of, after
<1>7. ASSUME NEW x \in bs \ {b}
      PROVE  /\ x > start /\ r.size[x] >= 0 /\ after(r, x) < r.p_brk_
             /\ r.size[footer_of(r, x)] = r.size[x]
             /\ after(r, x) \in (bs \ {b}) \cup {r.p_brk_ - 1}
  <2>1. CASE x # c
    <3>1. /\ x > start /\ h.size[x] >= 0 /\ after(h, x) < r.p_brk_
          /\ h.size[footer_of(h, x)] = h.size[x]
          /\ after(h, x) \in bs \cup {r.p_brk_ - 1}
      BY DEF Tiled
    <3>2. after(h, x) # b
      <4>1. after(h, x) = footer_of(h, x) + 1 BY DEF after
      <4> QED BY <4>1, <1>1, <1>2, <1>3, <2>1
    <3> QED BY <3>1, <3>2, <1>4, <2>1
  <2>2. CASE x = c
    <3>1. after(h, b) < h.p_brk_ /\ after(h, b) \in bs \cup {h.p_brk_ - 1}
      BY DEF Tiled
    <3>2. after(h, b) # b BY <1>1
    <3> QED BY <3>1, <3>2, <2>2, <1>2, <1>5, <1>6
  <2> QED BY <2>1, <2>2
<1>8. ASSUME NEW x \in (bs \ {b}) \cup {h.p_brk_ - 1}, x # start + 1
      PROVE  /\ header_of(r, x - 1) \in bs \ {b}
             /\ after(r, header_of(r, x - 1)) = x
  <2> DEFINE q == header_of(h, x - 1)
  <2>1. q \in bs /\ after(h, q) = x BY <1>8 DEF Tiled
  <2>2. x \in Int BY <1>8, CellInts
  <2> HIDE DEF q
  <2>3. footer_of(h, q) = x - 1
    <3>1. footer_of(h, q) \in Int BY <2>1, <1>1
    <3> QED BY <3>1, <2>1, <2>2 DEF after
  <2>4. q # c
    <3>1. x # b
      <4>1. b \in Addr /\ after(h, b) < h.p_brk_ BY DEF Tiled
      <4>2. b # h.p_brk_ - 1 BY <4>1, <1>1, CellInts
      <4> QED BY <4>2, <1>8
    <3> QED BY <3>1, <2>1
  <2>5. CASE q # b
    <3>1. r.size[x - 1] = h.size[x - 1] /\ after(r, q) = x BY <2>1, <2>3, <2>4, <2>5, <1>4
    <3> QED BY <3>1, <2>1, <2>5 DEF header_of, q
  <2>6. CASE q = b
    <3>1. r.size[x - 1] = t BY <2>3, <2>6, <1>5
    <3>2. x - 1 = c + 1 + t BY <2>3, <2>6, <1>2
    <3>3. header_of(r, x - 1) = c BY <3>1, <3>2, <1>1, <1>2 DEF header_of
    <3> QED BY <3>3, <1>6, <2>1, <2>6, <1>2, <1>1
  <2> QED BY <2>5, <2>6
<1>9. ASSUME NEW x \in bs \ {b}, NEW y \in bs \ {b}, x < y
      PROVE  footer_of(r, x) < y
  <2>1. \A u, v \in bs : u < v => footer_of(h, u) < v BY DEF Tiled
  <2>2. CASE x # c BY <2>1, <2>2, <1>4, <1>9
  <2>3. CASE x = c
    <3>1. y # c /\ ~(y < c) BY <2>3, <1>9, <1>1
    <3>2. y > footer_of(h, b) BY <3>1, <1>3
    <3> QED BY <3>2, <2>3, <1>6
  <2> QED BY <2>2, <2>3
<1>10. r.p_brk_ > start + 1 /\ start >= 1 /\ start + 1 \in bs \ {b}
  <2>1. r.p_brk_ > start + 1 /\ start >= 1 /\ start + 1 \in bs BY DEF Tiled
  <2>2. b # start + 1 BY <1>1, <1>2
  <2> QED BY <2>1, <2>2
<1>11. Tiled(r, start, bs \ {b})
  BY <1>7, <1>8, <1>9, <1>10 DEF Tiled
<1> QED BY <1>4, <1>6, <1>11 DEF Joined

\* In r the last block c of h is longer.
Lengthened(h, r, start, bs, c, delta) ==
  /\ Tiled(r, start, bs)
  /\ footer_of(r, c) = footer_of(h, c) + delta
  /\ \A x \in bs \ {c} : footer_of(r, x) = footer_of(h, x)

\* Lengthening the last block c by delta granules together with the heap.
LEMMA TiledGrow ==
  ASSUME NEW h \in HeapType, NEW r \in HeapType,
         NEW start \in Int, NEW bs \in SUBSET Addr, Tiled(h, start, bs),
         NEW c \in bs, after(h, c) = h.p_brk_ - 1, NEW delta \in Nat \ {0},
         r.p_brk_ = h.p_brk_ + delta,
         r.size[c] = h.size[c] + delta,
         r.size[footer_of(h, c) + delta] = h.size[c] + delta,
         \A x \in Addr : x < h.p_brk_ - 1 /\ x # c /\ x # footer_of(h, c)
                            => r.size[x] = h.size[x]
  PROVE  Lengthened(h, r, start, bs, c, delta)
<1>1. \A x \in bs : /\ x \in Int /\ x \in Addr
                    /\ footer_of(h, x) \in Int /\ footer_of(h, x) \in Addr
                    /\ after(h, x) \in Int /\ h.size[x] \in Nat
                    /\ footer_of(h, x) = x + 1 + h.size[x]
                    /\ after(h, x) = x + 2 + h.size[x]
  BY Cells, CellInts
<1>2. h.p_brk_ \in Int /\ start >= 1 /\ r.p_brk_ > h.p_brk_ /\ r.p_brk_ \in Int
  BY CellInts
<1>3. ASSUME NEW x \in bs, x # c
      PROVE  x < c /\ footer_of(h, x) < c /\ c < h.p_brk_ - 1
  <2>1. x < c => footer_of(h, x) < c BY DEF Tiled
  <2>2. c < x => footer_of(h, c) < x BY DEF Tiled
  <2>3. after(h, x) < h.p_brk_ BY DEF Tiled
  <2> QED BY <2>1, <2>2, <2>3, <1>1, <1>2, <1>3
<1>4. ASSUME NEW x \in bs, x # c
      PROVE  /\ r.size[x] = h.size[x]
             /\ footer_of(r, x) = footer_of(h, x) /\ after(r, x) = after(h, x)
             /\ r.size[footer_of(r, x)] = h.size[footer_of(h, x)]
  <2>1. /\ x \in Addr /\ x < h.p_brk_ - 1 /\ x # c /\ x # footer_of(h, c)
        /\ footer_of(h, x) \in Addr /\ footer_of(h, x) < h.p_brk_ - 1
        /\ footer_of(h, x) # c /\ footer_of(h, x) # footer_of(h, c)
    BY <1>1, <1>2, <1>3, <1>4
  <2>2. r.size[x] = h.size[x] /\ r.size[footer_of(h, x)] = h.size[footer_of(h, x)]
    BY <2>1
  <2> QED BY <2>2 DEF footer_of, after
<1>5. footer_of(r, c) = footer_of(h, c) + delta /\ after(r, c) = r.p_brk_ - 1
  BY <1>1, <1>2 DEF footer_of, after
<1>6. ASSUME NEW x \in bs
      PROVE  /\ x > start /\ r.size[x] >= 0 /\ after(r, x) < r.p_brk_
             /\ r.size[footer_of(r, x)] = r.size[x]
             /\ after(r, x) \in bs \cup {r.p_brk_ - 1}
  <2>0. /\ x > start /\ h.size[x] >= 0 /\ after(h, x) < h.p_brk_
        /\ h.size[footer_of(h, x)] = h.size[x]
        /\ after(h, x) \in bs \cup {h.p_brk_ - 1}
    BY DEF Tiled
  <2>1. CASE x # c
    <3>1. after(h, x) # h.p_brk_ - 1
      BY <1>1, <1>2, <1>3, <2>1
    <3>2. after(h, x) < r.p_brk_ BY <2>0, <1>1, <1>2
    <3> QED BY <3>1, <3>2, <2>0, <2>1, <1>4
  <2>2. CASE x = c
    BY <2>0, <2>2, <1>5, <1>1, <1>2
  <2> QED BY <2>1, <2>2
<1>7. ASSUME NEW x \in bs \cup {r.p_brk_ - 1}, x # start + 1
      PROVE  /\ header_of(r, x - 1) \in bs
             /\ after(r, header_of(r, x - 1)) = x
  <2>1. CASE x = r.p_brk_ - 1
    <3>1. x - 1 = footer_of(h, c) + delta
      <4>1. x = h.p_brk_ + delta - 1 BY <2>1, <1>2
      <4>2. footer_of(h, c) + 1 = h.p_brk_ - 1 BY DEF after
      <4>3. footer_of(h, c) \in Int BY <1>1
      <4> QED BY <4>1, <4>2, <4>3, <1>2
    <3>2. header_of(r, x - 1) = c
      <4>1. r.size[x - 1] = h.size[c] + delta BY <3>1
      <4>2. /\ c \in Int /\ h.size[c] \in Nat /\ delta \in Int
            /\ footer_of(h, c) = c + 1 + h.size[c]
        BY <1>1
      <4> QED BY <3>1, <4>1, <4>2 DEF header_of
    <3> QED BY <3>2, <2>1, <1>5
  <2>2. CASE x # r.p_brk_ - 1
    <3> DEFINE q == header_of(h, x - 1)
    <3>1. q \in bs /\ after(h, q) = x /\ x \in bs BY <1>7, <2>2 DEF Tiled
    <3> HIDE DEF q
    <3>2. footer_of(h, q) = x - 1
      <4>1. footer_of(h, q) \in Int BY <3>1, <1>1
      <4> QED BY <4>1, <3>1, <1>1 DEF after
    <3>3. q # c
      <4>1. after(h, x) < h.p_brk_ BY <3>1 DEF Tiled
      <4> QED BY <4>1, <3>1, <1>1, <1>2
    <3>4. r.size[x - 1] = h.size[x - 1] /\ after(r, q) = x BY <3>1, <3>2, <3>3, <1>4
    <3> QED BY <3>4, <3>1 DEF header_of, q
  <2> QED BY <2>1, <2>2
<1>8. ASSUME NEW x \in bs, NEW y \in bs, x < y
      PROVE  footer_of(r, x) < y
  <2>1. \A u, v \in bs : u < v => footer_of(h, u) < v BY DEF Tiled
  <2>2. x # c BY <1>3, <1>8, <1>1
  <2> QED BY <2>1, <2>2, <1>4, <1>8
<1>9. r.p_brk_ > start + 1 /\ start + 1 \in bs
  <2>1. h.p_brk_ > start + 1 /\ start + 1 \in bs BY DEF Tiled
  <2> QED BY <2>1, <1>2
<1>10. Tiled(r, start, bs)
  BY <1>2, <1>6, <1>7, <1>8, <1>9 DEF Tiled
<1> QED BY <1>4, <1>5, <1>10 DEF Lengthened

\* In r a block lies where h ended.
Appended(h, r, start, bs, delta) ==
  LET d == h.p_brk_ - 1
  IN  /\ Tiled(r, start, bs \cup {d})
      /\ d \in Addr /\ d \notin bs
      /\ footer_of(r, d) = h.p_brk_ + delta - 2
      /\ \A x \in bs : footer_of(r, x) = footer_of(h, x)

\* Placing a new block over the old dummy header when the heap grows.
LEMMA TiledAppend ==
  ASSUME NEW h \in HeapType, NEW r \in HeapType,
         NEW start \in Int, NEW bs \in SUBSET Addr, Tiled(h, start, bs),
         NEW delta \in Nat, delta >= 2,
         r.p_brk_ = h.p_brk_ + delta,
         r.size[h.p_brk_ - 1] = delta - 2,
         r.size[h.p_brk_ + delta - 2] = delta - 2,
         \A x \in Addr : x < h.p_brk_ - 1 => r.size[x] = h.size[x]
  PROVE  Appended(h, r, start, bs, delta)
<1> DEFINE d == h.p_brk_ - 1
<1>1. \A x \in bs : /\ x \in Int /\ x \in Addr
                    /\ footer_of(h, x) \in Int /\ footer_of(h, x) \in Addr
                    /\ after(h, x) \in Int /\ h.size[x] \in Nat
                    /\ footer_of(h, x) = x + 1 + h.size[x]
                    /\ after(h, x) = x + 2 + h.size[x]
  BY Cells, CellInts
<1>2. h.p_brk_ \in Int /\ start >= 1 /\ r.p_brk_ > h.p_brk_ /\ r.p_brk_ \in Int
      /\ d \in Addr /\ d \in Int
  <2>1. h.p_brk_ \in Int /\ start >= 1 BY CellInts
  <2>2. d \in Addr BY Cells
  <2> QED BY <2>1, <2>2
<1>3. ASSUME NEW x \in bs
      PROVE  x < d /\ footer_of(h, x) < d /\ after(h, x) <= d
  <2>1. after(h, x) < h.p_brk_ BY DEF Tiled
  <2> QED BY <2>1, <1>1, <1>2
<1>4. ASSUME NEW x \in bs
      PROVE  /\ r.size[x] = h.size[x]
             /\ footer_of(r, x) = footer_of(h, x) /\ after(r, x) = after(h, x)
             /\ r.size[footer_of(r, x)] = h.size[footer_of(h, x)]
  <2>2. r.size[x] = h.size[x] /\ r.size[footer_of(h, x)] = h.size[footer_of(h, x)]
    BY <1>1, <1>3
  <2> QED BY <2>2 DEF footer_of, after
<1>5. footer_of(r, d) = h.p_brk_ + delta - 2 /\ after(r, d) = r.p_brk_ - 1
  <2>1. r.size[d] = delta - 2 /\ r.p_brk_ = h.p_brk_ + delta OBVIOUS
  <2>2. d = h.p_brk_ - 1 OBVIOUS
  <2> HIDE DEF d
  <2>3. footer_of(r, d) = d + 1 + (delta - 2) BY <2>1 DEF footer_of
  <2>4. footer_of(r, d) = h.p_brk_ + delta - 2 BY <2>2, <2>3, <1>2
  <2> QED BY <2>1, <2>4, <1>2 DEF after
<1> HIDE DEF d
<1>6. ASSUME NEW x \in bs \cup {d}
      PROVE  /\ x > start /\ r.size[x] >= 0 /\ after(r, x) < r.p_brk_
             /\ r.size[footer_of(r, x)] = r.size[x]
             /\ after(r, x) \in (bs \cup {d}) \cup {r.p_brk_ - 1}
  <2>1. CASE x \in bs
    <3>1. /\ x > start /\ h.size[x] >= 0 /\ after(h, x) < h.p_brk_
          /\ h.size[footer_of(h, x)] = h.size[x]
          /\ after(h, x) \in bs \cup {d}
      BY <2>1 DEF Tiled, d
    <3>2. after(h, x) < r.p_brk_ BY <3>1, <2>1, <1>1, <1>2
    <3> QED BY <3>1, <3>2, <2>1, <1>4
  <2>2. CASE x = d
    <3>1. d > start
      <4>1. h.p_brk_ > start + 1 BY DEF Tiled
      <4> QED BY <4>1, <1>2 DEF d
    <3>2. r.size[d] = delta - 2 /\ r.size[footer_of(r, d)] = delta - 2 BY <1>5 DEF d
    <3> QED BY <3>1, <3>2, <2>2, <1>5, <1>2
  <2> QED BY <2>1, <2>2
<1>7. ASSUME NEW x \in bs \cup {d} \cup {r.p_brk_ - 1}, x # start + 1
      PROVE  /\ header_of(r, x - 1) \in bs \cup {d}
             /\ after(r, header_of(r, x - 1)) = x
  <2>1. CASE x = r.p_brk_ - 1
    <3>1. x - 1 = h.p_brk_ + delta - 2 BY <2>1, <1>1, <1>2
    <3>2. header_of(r, x - 1) = d BY <3>1, <1>2 DEF header_of, d
    <3> QED BY <3>2, <2>1, <1>5
  <2>2. CASE x # r.p_brk_ - 1
    <3> DEFINE q == header_of(h, x - 1)
    <3>1. q \in bs /\ after(h, q) = x BY <1>7, <2>2 DEF Tiled, d
    <3>0. x \in Int BY <1>7, <2>2, <1>1, <1>2
    <3> HIDE DEF q
    <3>2. footer_of(h, q) = x - 1
      <4>1. footer_of(h, q) \in Int BY <3>1, <1>1
      <4> QED BY <4>1, <3>1, <3>0 DEF after
    <3>4. r.size[x - 1] = h.size[x - 1] /\ after(r, q) = x BY <3>1, <3>2, <1>4
    <3> QED BY <3>4, <3>1 DEF header_of, q
  <2> QED BY <2>1, <2>2
<1>8. ASSUME NEW x \in bs \cup {d}, NEW y \in bs \cup {d}, x < y
      PROVE  footer_of(r, x) < y
  <2>1. \A u, v \in bs : u < v => footer_of(h, u) < v BY DEF Tiled
  <2>2. x \in bs BY <1>8, <1>3, <1>1, <1>2
  <2>3. CASE y \in bs BY <2>1, <2>2, <2>3, <1>4, <1>8
  <2>4. CASE y = d BY <2>2, <2>4, <1>3, <1>4
  <2> QED BY <2>3, <2>4
<1>9. r.p_brk_ > start + 1 /\ start + 1 \in bs
  <2>1. h.p_brk_ > start + 1 /\ start + 1 \in bs BY DEF Tiled
  <2> QED BY <2>1, <1>2
<1>10. Tiled(r, start, bs \cup {d})
  BY <1>2, <1>6, <1>7, <1>8, <1>9 DEF Tiled
<1>11. d \notin bs BY <1>3, <1>2
<1> QED BY <1>2, <1>4, <1>5, <1>10, <1>11 DEF d, Appended

-----------------------------------------------------------------------------
(* The heap between two calls: blocks bs, of which those in F are free     *)

Shape(h, start, bs, F) ==
  /\ h \in HeapType /\ start \in Int /\ bs \in SUBSET Addr /\ F \in SUBSET bs
  /\ Tiled(h, start, bs)
  /\ Linked(h, F)
  /\ h.info[start] = USED_NORMAL
  /\ h.info[h.p_brk_ - 1] = USED_NORMAL
  /\ \A b \in bs \ F : /\ h.info[b] = USED_NORMAL
                        /\ h.info[footer_of(h, b)] = USED_NORMAL

\* Memory from address a up is the same in r as in h.
Above(h, r, a) ==
  \A x \in Addr : x >= a => r.info[x] = h.info[x] /\ r.size[x] = h.size[x]

\* Two steps that leave the memory from a on alone leave it alone together.
LEMMA AboveTrans ==
  ASSUME NEW h, NEW g, NEW r, NEW a, Above(h, g, a), Above(g, r, a)
  PROVE  Above(h, r, a)
BY DEF Above

\* The words of the blocks in bs \ F, their headers and footers included, are
\* the same in r as in h.
Spared(h, r, bs, F) ==
  \A u \in bs \ F, x \in Addr :
    u <= x /\ x <= footer_of(h, u) => r.info[x] = h.info[x] /\ r.size[x] = h.size[x]

\* A word inside a block lies outside every other block.
LEMMA InsideApart ==
  ASSUME NEW h \in HeapType, NEW start \in Int, NEW bs \in SUBSET Addr,
         Tiled(h, start, bs), NEW u \in bs,
         NEW x \in Addr, u <= x, x <= footer_of(h, u)
  PROVE  /\ x \in Int /\ x < h.p_brk_ - 1
         /\ \A y \in bs \ {u} : /\ x < y \/ footer_of(h, y) < x
                                /\ x # y /\ x # footer_of(h, y)
<1>1. x \in Int BY HeapConstants DEF Addr
<1>2. \A y \in bs : /\ y \in Int /\ footer_of(h, y) \in Int
                    /\ y < footer_of(h, y) /\ footer_of(h, y) < h.p_brk_ - 1
  BY Cells, CellInts
<1>3. h.p_brk_ \in Int BY CellInts
<1>4. \A y \in bs \ {u} : footer_of(h, u) < y \/ footer_of(h, y) < u
  BY <1>2 DEF Tiled
<1> QED BY <1>1, <1>2, <1>3, <1>4

\* Two steps that spare the same blocks spare them together.
LEMMA SparedTrans ==
  ASSUME NEW h \in HeapType, NEW start \in Int, NEW bs \in SUBSET Addr,
         Tiled(h, start, bs), NEW F, NEW g, NEW r, NEW cs, NEW G,
         Spared(h, g, bs, F), Spared(g, r, cs, G), bs \ F \subseteq cs \ G
  PROVE  Spared(h, r, bs, F)
<1>1. ASSUME NEW u \in bs \ F PROVE footer_of(g, u) = footer_of(h, u)
  <2>1. u \in Addr /\ u \in Int /\ footer_of(h, u) \in Int /\ u < footer_of(h, u)
    BY Cells, CellInts
  <2>2. g.size[u] = h.size[u] BY <2>1 DEF Spared
  <2> QED BY <2>2 DEF footer_of
<1> QED BY <1>1 DEF Spared

\* A link is NULL or an address, never a magic number.
LEMMA LinksNotMagic ==
  ASSUME NEW h, NEW start, NEW bs, NEW F, Shape(h, start, bs, F), NEW b \in F
  PROVE  /\ h.info[b] # USED_NORMAL /\ h.info[footer_of(h, b)] # USED_NORMAL
         /\ b # NULL
<1>1. \A c \in F : c \in Addr BY DEF Shape
<1>2. \A c \in Addr : c # -1 BY HeapConstants DEF Addr
<1>3. start >= 1 /\ b > start /\ start \in Int BY DEF Shape, Tiled
<1>4. b # NULL BY <1>1, <1>3, HeapConstants DEF NULL, Addr
<1>5. h.info[b] = NULL \/ h.info[b] \in F BY DEF Shape, Linked
<1>6. h.info[footer_of(h, b)] = NULL \/ h.info[footer_of(h, b)] \in F BY DEF Shape, Linked
<1> QED BY <1>1, <1>2, <1>4, <1>5, <1>6 DEF NULL, USED_NORMAL

\* So the tags tell the free blocks.
LEMMA ShapeTags ==
  ASSUME NEW h, NEW start, NEW bs, NEW F, Shape(h, start, bs, F)
  PROVE  F = {b \in bs : ~is_used(h, b)} /\ Tagged(h, start, bs)
<1>1. \A b \in F : h.info[b] # USED_NORMAL /\ h.info[footer_of(h, b)] # USED_NORMAL
  BY LinksNotMagic
<1> QED BY <1>1 DEF Shape, Tagged, is_used

\* Writes outside the cells of the blocks and the dummies leave the shape.
LEMMA ShapeFrame ==
  ASSUME NEW h, NEW start, NEW bs, NEW F, Shape(h, start, bs, F),
         NEW r \in HeapType, r.head_ = h.head_, r.p_brk_ = h.p_brk_,
         \A x \in bs \cup {footer_of(h, b) : b \in bs} :
            r.size[x] = h.size[x] /\ r.info[x] = h.info[x],
         r.info[start] = h.info[start],
         r.info[h.p_brk_ - 1] = h.info[h.p_brk_ - 1]
  PROVE  Shape(r, start, bs, F)
<1>1. Tiled(r, start, bs) /\ \A b \in bs : footer_of(r, b) = footer_of(h, b)
  BY TiledFrame DEF Shape
<1>2. Linked(r, F)
  BY <1>1, LinkedFrame DEF Shape
<1> QED BY <1>1, <1>2 DEF Shape

Cell(h, start, x) ==
  /\ x \in Int /\ x \in Addr /\ x # NULL
  /\ footer_of(h, x) \in Int /\ footer_of(h, x) \in Addr
  /\ after(h, x) \in Int /\ h.size[x] \in Nat
  /\ footer_of(h, x) = x + 1 + h.size[x]
  /\ after(h, x) = x + 2 + h.size[x]
  /\ start < x /\ footer_of(h, x) < h.p_brk_ - 1
  /\ x # start /\ footer_of(h, x) # start
  /\ x # h.p_brk_ - 1 /\ footer_of(h, x) # h.p_brk_ - 1

\* Cells of a shape: in memory, different, and apart from the dummies.
LEMMA ShapeCells ==
  ASSUME NEW h, NEW start, NEW bs, NEW F, Shape(h, start, bs, F), NEW x \in bs
  PROVE  Cell(h, start, x)
<1>1. /\ h \in HeapType /\ start \in Int /\ bs \in SUBSET Addr
      /\ Tiled(h, start, bs)
  BY DEF Shape
<1>2. start >= 1 /\ h.p_brk_ \in Int /\ h.p_brk_ > start + 1
  BY <1>1, CellInts DEF Tiled
<1>3. /\ x \in Addr /\ footer_of(h, x) \in Addr
      /\ start < x /\ x < footer_of(h, x) /\ footer_of(h, x) < h.p_brk_ - 1
  BY <1>1, Cells
<1>4. /\ x \in Int /\ footer_of(h, x) \in Int /\ after(h, x) \in Int
      /\ h.size[x] \in Nat /\ footer_of(h, x) = x + 1 + h.size[x]
      /\ after(h, x) = x + 2 + h.size[x]
  BY <1>1, CellInts
<1> QED BY <1>1, <1>2, <1>3, <1>4 DEF NULL, Cell

\* Cells of two blocks differ, and so do the dummies.
LEMMA ShapeApart ==
  ASSUME NEW h, NEW start, NEW bs, NEW F, Shape(h, start, bs, F)
  PROVE  /\ \A x, y \in bs : /\ x # footer_of(h, y)
                             /\ x # y => footer_of(h, x) # footer_of(h, y)
         /\ start \in Addr /\ h.p_brk_ - 1 \in Addr /\ h.p_brk_ \in Int
         /\ start \in Int /\ start >= 1 /\ start # h.p_brk_ - 1
<1>1. /\ h \in HeapType /\ start \in Int /\ bs \in SUBSET Addr
      /\ Tiled(h, start, bs)
  BY DEF Shape
<1>2. start >= 1 /\ h.p_brk_ \in Int /\ h.p_brk_ > start + 1
  BY <1>1, CellInts DEF Tiled
<1>4. /\ \A x, y \in bs : /\ x # footer_of(h, y)
                          /\ x # y => footer_of(h, x) # footer_of(h, y)
      /\ start \in Addr /\ h.p_brk_ - 1 \in Addr
  BY <1>1, Cells
<1>5. start # h.p_brk_ - 1 BY <1>1, <1>2
<1> QED BY <1>1, <1>2, <1>4, <1>5

\* Block b is free in r, and else the heap is as in h.
Freed(h, r, start, bs, F, b) ==
  /\ Shape(r, start, bs, F \cup {b})
  /\ r.head_ = b /\ r.size = h.size /\ r.p_brk_ = h.p_brk_
  /\ Above(h, r, h.p_brk_) /\ Spared(h, r, bs, F \cup {b})

\* insert_into_list of a used block frees it: the shape of the heap is kept.
LEMMA InsertShape ==
  ASSUME NEW h, NEW start, NEW bs, NEW F, Shape(h, start, bs, F),
         NEW b \in bs \ F
  PROVE  Freed(h, insert_into_list(h, NULL, b), start, bs, F, b)
<1> DEFINE r == insert_into_list(h, NULL, b)
<1>1. /\ h \in HeapType /\ start \in Int /\ bs \in SUBSET Addr /\ F \in SUBSET bs
      /\ Tiled(h, start, bs) /\ Linked(h, F) /\ b \in Addr
  BY DEF Shape
<1>2. /\ r \in HeapType
      /\ r.size = h.size /\ r.head_ = b /\ r.p_brk_ = h.p_brk_
      /\ \A x \in Addr : r.info[x] =
           IF h.head_ # NULL /\ x = footer_of(h, h.head_) THEN b
           ELSE IF x = footer_of(h, b) THEN NULL
           ELSE IF x = b THEN h.head_ ELSE h.info[x]
  <2>1. HeadInserted(h, r, b) BY <1>1, InsertHeadEffect
  <2> QED BY <2>1 DEF HeadInserted
<1>3. Linked(r, F \cup {b})
  BY <1>1, InsertHeadLinks
<1> HIDE DEF r
<1>4. Tiled(r, start, bs) /\ \A x \in bs : footer_of(r, x) = footer_of(h, x)
  BY <1>1, <1>2, TiledFrame
<1>5. h.head_ # NULL => h.head_ \in F BY <1>1 DEF Linked
<1>6. \A x \in Addr : x # b /\ x # footer_of(h, b)
           /\ (\A y \in F : x # footer_of(h, y)) => r.info[x] = h.info[x]
  BY <1>2, <1>5
<1>7. ASSUME NEW x \in bs \ (F \cup {b})
      PROVE  /\ r.info[x] = USED_NORMAL
             /\ r.info[footer_of(r, x)] = USED_NORMAL
  <2>1. h.info[x] = USED_NORMAL /\ h.info[footer_of(h, x)] = USED_NORMAL
    BY DEF Shape
  <2>2. x \in Addr /\ footer_of(h, x) \in Addr
        /\ x # b /\ x # footer_of(h, b) /\ (\A y \in F : x # footer_of(h, y))
        /\ footer_of(h, x) # b /\ footer_of(h, x) # footer_of(h, b)
        /\ (\A y \in F : footer_of(h, x) # footer_of(h, y))
    BY <1>1, ShapeCells, ShapeApart DEF Cell
  <2> QED BY <2>1, <2>2, <1>4, <1>6
<1>8. r.info[start] = USED_NORMAL /\ r.info[r.p_brk_ - 1] = USED_NORMAL
  <2>1. h.info[start] = USED_NORMAL /\ h.info[h.p_brk_ - 1] = USED_NORMAL
    BY DEF Shape
  <2>2. /\ start \in Addr /\ start # b /\ start # footer_of(h, b)
        /\ (\A y \in F : start # footer_of(h, y))
    BY <1>1, ShapeCells, ShapeApart DEF Cell
  <2>3. /\ h.p_brk_ - 1 \in Addr /\ h.p_brk_ - 1 # b /\ h.p_brk_ - 1 # footer_of(h, b)
        /\ (\A y \in F : h.p_brk_ - 1 # footer_of(h, y))
    BY <1>1, ShapeCells, ShapeApart DEF Cell
  <2> QED BY <2>1, <2>2, <2>3, <1>2, <1>6
<1>9. F \cup {b} \in SUBSET bs BY <1>1
<1>10. Shape(r, start, bs, F \cup {b})
  BY <1>1, <1>2, <1>3, <1>4, <1>7, <1>8, <1>9 DEF Shape
<1>11. Above(h, r, h.p_brk_)
  <2>1. ASSUME NEW x \in Addr, x >= h.p_brk_ PROVE r.info[x] = h.info[x]
    <3>1. x \in Int /\ h.p_brk_ \in Int BY ShapeApart, HeapConstants DEF Addr
    <3>2. ASSUME NEW y \in bs PROVE x # y /\ x # footer_of(h, y)
      <4>1. Cell(h, start, y) BY ShapeCells
      <4> QED BY <4>1, <3>1, <2>1 DEF Cell
    <3> QED BY <3>2, <1>1, <1>6
  <2> QED BY <2>1, <1>2 DEF Above
<1>12. Spared(h, r, bs, F \cup {b})
  <2>1. ASSUME NEW u \in bs \ (F \cup {b}), NEW x \in Addr,
               u <= x, x <= footer_of(h, u)
        PROVE  r.info[x] = h.info[x]
    <3>1. \A y \in bs \ {u} : x # y /\ x # footer_of(h, y)
      BY <1>1, <2>1, InsideApart
    <3> QED BY <3>1, <1>1, <1>6
  <2> QED BY <2>1, <1>2 DEF Spared
<1> QED BY <1>2, <1>10, <1>11, <1>12 DEF r, Freed

\* Block b is used in r, and else the heap is as in h.
Occupied(h, r, start, bs, F, b) ==
  /\ Shape(r, start, bs, F \ {b})
  /\ r.size = h.size /\ r.p_brk_ = h.p_brk_
  /\ Above(h, r, h.p_brk_) /\ Spared(h, r, bs, F)

\* Removing a free block and marking it used keeps the shape of the heap.
LEMMA RemoveShape ==
  ASSUME NEW h, NEW start, NEW bs, NEW F, Shape(h, start, bs, F),
         NEW b \in F
  PROVE  Occupied(h,
                  set_info(set_info(remove_from_list(h, b), b, USED_NORMAL),
                           footer_of(h, b), USED_NORMAL),
                  start, bs, F, b)
<1> DEFINE o == remove_from_list(h, b)
           m == set_info(o, b, USED_NORMAL)
           r == set_info(m, footer_of(h, b), USED_NORMAL)
           p == h.info[footer_of(h, b)]
           n == h.info[b]
<1>1. /\ h \in HeapType /\ start \in Int /\ bs \in SUBSET Addr /\ F \in SUBSET bs
      /\ Tiled(h, start, bs) /\ Linked(h, F) /\ b \in bs /\ b \in Addr
      /\ footer_of(h, b) \in Addr /\ USED_NORMAL \in Int
  <2>1. b \in bs BY DEF Shape
  <2> QED BY <2>1, ShapeCells, ShapeApart DEF Shape, USED_NORMAL, Cell
<1>2. /\ o \in HeapType
      /\ o.size = h.size /\ o.p_brk_ = h.p_brk_
      /\ \A x \in Addr : o.info[x] =
           IF n # NULL /\ x = footer_of(h, n) THEN p
           ELSE IF p # NULL /\ x = p THEN n ELSE h.info[x]
  <2>1. Removed(h, o, b) BY <1>1, RemoveEffect
  <2> QED BY <2>1 DEF Removed
<1>3. Linked(o, F \ {b})
  BY <1>1, RemoveLinks
<1> HIDE DEF o
<1>4. /\ m \in HeapType
      /\ m.size = o.size /\ m.head_ = o.head_ /\ m.p_brk_ = o.p_brk_
      /\ \A x \in Addr : m.info[x] = IF x = b THEN USED_NORMAL ELSE o.info[x]
  BY <1>1, <1>2, SetInfo
<1> HIDE DEF m
<1>5. /\ r \in HeapType
      /\ r.size = o.size /\ r.head_ = o.head_ /\ r.p_brk_ = o.p_brk_
      /\ \A x \in Addr : r.info[x] =
           IF x = b \/ x = footer_of(h, b) THEN USED_NORMAL ELSE o.info[x]
  BY <1>1, <1>4, SetInfo
<1> HIDE DEF r
<1>6. Tiled(r, start, bs) /\ \A x \in bs : footer_of(r, x) = footer_of(h, x)
  BY <1>1, <1>2, <1>5, TiledFrame
<1>7. \A x \in bs : footer_of(o, x) = footer_of(h, x)
  BY <1>2 DEF footer_of
<1>8. Linked(r, F \ {b})
  <2>1. ASSUME NEW x \in F \ {b}
        PROVE  r.info[x] = o.info[x] /\ r.info[footer_of(r, x)] = o.info[footer_of(o, x)]
    <3>1. x \in bs /\ x \in Addr /\ footer_of(h, x) \in Addr
          /\ x # footer_of(h, b) /\ footer_of(h, x) # b
          /\ footer_of(h, x) # footer_of(h, b)
      BY <1>1, ShapeCells, ShapeApart DEF Cell
    <3> QED BY <3>1, <1>5, <1>6, <1>7
  <2> QED BY <2>1, <1>3, <1>5, LinkedFrame
<1>9. /\ n # NULL => n \in F
      /\ p # NULL => p \in F
  BY <1>1 DEF Linked
<1>10. \A x \in Addr : x \notin F /\ (\A y \in F : x # footer_of(h, y))
                        => r.info[x] = h.info[x]
  BY <1>2, <1>5, <1>9, <1>1
<1>11. ASSUME NEW x \in bs \ F
       PROVE  /\ r.info[x] = USED_NORMAL
              /\ r.info[footer_of(r, x)] = USED_NORMAL
  <2>1. h.info[x] = USED_NORMAL /\ h.info[footer_of(h, x)] = USED_NORMAL
    BY DEF Shape
  <2>2. x \in Addr /\ footer_of(h, x) \in Addr
        /\ (\A y \in F : x # footer_of(h, y))
        /\ footer_of(h, x) \notin F
        /\ (\A y \in F : footer_of(h, x) # footer_of(h, y))
    BY <1>1, ShapeCells, ShapeApart DEF Cell
  <2> QED BY <2>1, <2>2, <1>6, <1>10
<1>12. r.info[b] = USED_NORMAL /\ r.info[footer_of(r, b)] = USED_NORMAL
  BY <1>1, <1>5, <1>6
<1>13. r.info[start] = USED_NORMAL /\ r.info[r.p_brk_ - 1] = USED_NORMAL
  <2>1. h.info[start] = USED_NORMAL /\ h.info[h.p_brk_ - 1] = USED_NORMAL
    BY DEF Shape
  <2>2. /\ start \in Addr /\ start \notin F
        /\ (\A y \in F : start # footer_of(h, y))
    BY <1>1, ShapeCells, ShapeApart DEF Cell
  <2>3. /\ h.p_brk_ - 1 \in Addr /\ h.p_brk_ - 1 \notin F
        /\ (\A y \in F : h.p_brk_ - 1 # footer_of(h, y))
    BY <1>1, ShapeCells, ShapeApart DEF Cell
  <2> QED BY <2>1, <2>2, <2>3, <1>2, <1>5, <1>10
<1>14. Shape(r, start, bs, F \ {b})
  BY <1>1, <1>5, <1>6, <1>8, <1>11, <1>12, <1>13 DEF Shape
<1>15. Above(h, r, h.p_brk_)
  <2>1. ASSUME NEW x \in Addr, x >= h.p_brk_ PROVE r.info[x] = h.info[x]
    <3>1. x \in Int /\ h.p_brk_ \in Int BY ShapeApart, HeapConstants DEF Addr
    <3>2. ASSUME NEW y \in bs PROVE x # y /\ x # footer_of(h, y)
      <4>1. Cell(h, start, y) BY ShapeCells
      <4> QED BY <4>1, <3>1, <2>1 DEF Cell
    <3> QED BY <3>2, <1>1, <1>10
  <2> QED BY <2>1, <1>2, <1>5 DEF Above
<1>16. Spared(h, r, bs, F)
  <2>1. ASSUME NEW u \in bs \ F, NEW x \in Addr, u <= x, x <= footer_of(h, u)
        PROVE  r.info[x] = h.info[x]
    <3>1. \A y \in bs \ {u} : x # y /\ x # footer_of(h, y)
      BY <1>1, <2>1, InsideApart
    <3> QED BY <3>1, <1>1, <1>10
  <2> QED BY <2>1, <1>2, <1>5 DEF Spared
<1> QED BY <1>2, <1>5, <1>14, <1>15, <1>16 DEF r, m, o, Occupied

\* The new block d is free in r, and else the heap is as in h.
NewFreed(h, r, start, bs, F, d) ==
  /\ Shape(r, start, bs, F \cup {d})
  /\ r.size = h.size /\ r.p_brk_ = h.p_brk_
  /\ Above(h, r, h.p_brk_) /\ Spared(h, r, bs, F \cup {d})

\* Inserting the new block d, untagged as yet, after the free block c.
LEMMA InsertNewShape ==
  ASSUME NEW h \in HeapType, NEW start \in Int, NEW bs \in SUBSET Addr,
         NEW F \in SUBSET bs, NEW d \in bs, d \notin F, NEW c \in F,
         Tiled(h, start, bs), Linked(h, F),
         h.info[start] = USED_NORMAL, h.info[h.p_brk_ - 1] = USED_NORMAL,
         \A b \in bs \ (F \cup {d}) : /\ h.info[b] = USED_NORMAL
                                     /\ h.info[footer_of(h, b)] = USED_NORMAL
  PROVE  NewFreed(h, insert_into_list(h, c, d), start, bs, F, d)
<1> DEFINE r == insert_into_list(h, c, d)
<1>0. start >= 1 /\ start \in Addr /\ h.p_brk_ - 1 \in Addr
  BY Cells DEF Tiled
<1>1. ASSUME NEW x \in bs
      PROVE  /\ x \in Addr /\ footer_of(h, x) \in Addr /\ x # NULL
             /\ start < x /\ x < footer_of(h, x)
             /\ footer_of(h, x) < h.p_brk_ - 1
             /\ x \in Int /\ footer_of(h, x) \in Int
  <2>1. /\ x \in Addr /\ footer_of(h, x) \in Addr
        /\ start < x /\ x < footer_of(h, x)
        /\ footer_of(h, x) < h.p_brk_ - 1
    BY Cells
  <2>2. x \in Int /\ footer_of(h, x) \in Int BY CellInts
  <2> QED BY <2>1, <2>2, <1>0 DEF NULL
<1>9. /\ \A x, y \in bs : /\ x # footer_of(h, y)
                          /\ x # y => footer_of(h, x) # footer_of(h, y)
      /\ h.p_brk_ \in Int
  BY Cells, CellInts
<1>2. /\ r \in HeapType
      /\ r.size = h.size /\ r.head_ = h.head_ /\ r.p_brk_ = h.p_brk_
      /\ \A x \in Addr : r.info[x] =
           IF h.info[c] # NULL /\ x = footer_of(h, h.info[c]) THEN d
           ELSE IF x = c THEN d
           ELSE IF x = footer_of(h, d) THEN c
           ELSE IF x = d THEN h.info[c] ELSE h.info[x]
  <2>1. InsertedAfter(h, r, c, d) BY <1>1, InsertAfterEffect
  <2> QED BY <2>1 DEF InsertedAfter
<1>3. Linked(r, F \cup {d}) BY InsertAfterLinks
<1> HIDE DEF r
<1>4. Tiled(r, start, bs) /\ \A x \in bs : footer_of(r, x) = footer_of(h, x)
  BY <1>2, TiledFrame
<1>5. h.info[c] # NULL => h.info[c] \in F BY DEF Linked
<1>6. \A x \in Addr : x \notin F \cup {d} /\ (\A y \in F \cup {d} : x # footer_of(h, y))
           => r.info[x] = h.info[x]
  BY <1>2, <1>5
<1>7. ASSUME NEW x \in bs \ (F \cup {d})
      PROVE  /\ r.info[x] = USED_NORMAL
             /\ r.info[footer_of(r, x)] = USED_NORMAL
  <2>2. x \in Addr /\ footer_of(h, x) \in Addr
        /\ (\A y \in F \cup {d} : x # footer_of(h, y))
        /\ footer_of(h, x) \notin F \cup {d}
        /\ (\A y \in F \cup {d} : footer_of(h, x) # footer_of(h, y))
    BY <1>1, <1>9
  <2> QED BY <2>2, <1>4, <1>6
<1>8. r.info[start] = USED_NORMAL /\ r.info[r.p_brk_ - 1] = USED_NORMAL
  <2>2. /\ start \notin F \cup {d}
        /\ (\A y \in F \cup {d} : start # footer_of(h, y))
    BY <1>1, <1>9
  <2>3. /\ h.p_brk_ - 1 \notin F \cup {d}
        /\ (\A y \in F \cup {d} : h.p_brk_ - 1 # footer_of(h, y))
    BY <1>1, <1>9
  <2> QED BY <2>2, <2>3, <1>0, <1>2, <1>6
<1>10. Shape(r, start, bs, F \cup {d})
  BY <1>2, <1>3, <1>4, <1>7, <1>8 DEF Shape
<1>11. Above(h, r, h.p_brk_)
  <2>1. ASSUME NEW x \in Addr, x >= h.p_brk_ PROVE r.info[x] = h.info[x]
    <3>1. x \in Int BY HeapConstants DEF Addr
    <3>2. ASSUME NEW y \in bs PROVE x # y /\ x # footer_of(h, y)
      BY <1>1, <1>9, <3>1, <2>1
    <3> QED BY <3>2, <1>6
  <2> QED BY <2>1, <1>2 DEF Above
<1>12. Spared(h, r, bs, F \cup {d})
  <2>1. ASSUME NEW u \in bs \ (F \cup {d}), NEW x \in Addr,
               u <= x, x <= footer_of(h, u)
        PROVE  r.info[x] = h.info[x]
    <3>1. \A y \in bs \ {u} : x # y /\ x # footer_of(h, y)
      BY <2>1, InsideApart
    <3> QED BY <3>1, <1>6
  <2> QED BY <2>1, <1>2 DEF Spared
<1> QED BY <1>2, <1>10, <1>11, <1>12 DEF r, NewFreed

\* The free block c of h is two free blocks in r, the first of n granules.
Divided(h, r, start, bs, F, c, n) ==
  LET d == c + 2 + n
  IN  /\ Shape(r, start, bs \cup {d}, F \cup {d})
      /\ d \in Addr /\ d \notin bs
      /\ r.size[c] = n /\ r.p_brk_ = h.p_brk_
      /\ footer_of(r, c) = c + 1 + n
      /\ footer_of(r, d) = footer_of(h, c)
      /\ \A b \in bs \ {c} : footer_of(r, b) = footer_of(h, b)
      /\ \A b \in bs \ {c} : r.size[b] = h.size[b]
      /\ Above(h, r, h.p_brk_) /\ Spared(h, r, bs, F)

\* The split of malloc cuts one free block into two that tile its place, both
\* on the free list: the footer that moves into payload carries its prev link.
LEMMA SplitShape ==
  ASSUME NEW h, NEW start, NEW bs, NEW F, Shape(h, start, bs, F),
         NEW c \in F, NEW n \in Nat, h.size[c] - n > 2
  PROVE  Divided(h, split(h, c, n), start, bs, F, c, n)
<1> DEFINE total == h.size[c]
           prev  == h.info[footer_of(h, c)]
           d     == c + 2 + n
           cut   == set_size(h, c, n)
           front == set_info(cut, c + 1 + n, prev)
           rest  == set_size(front, d, total - n - 2)
           r     == insert_into_list(rest, c, d)
<1>1. /\ h \in HeapType /\ start \in Int /\ bs \in SUBSET Addr /\ F \in SUBSET bs
      /\ Tiled(h, start, bs) /\ Linked(h, F) /\ c \in bs
      /\ h.info[start] = USED_NORMAL /\ h.info[h.p_brk_ - 1] = USED_NORMAL
      /\ \A b \in bs \ F : /\ h.info[b] = USED_NORMAL
                            /\ h.info[footer_of(h, b)] = USED_NORMAL
  BY DEF Shape
<1>2. /\ c \in Int /\ c \in Addr /\ total \in Nat /\ footer_of(h, c) = c + 1 + total
      /\ footer_of(h, c) \in Addr /\ d \in Int
      /\ start < c /\ footer_of(h, c) < h.p_brk_ - 1
      /\ start \in Addr /\ h.p_brk_ - 1 \in Addr /\ h.p_brk_ \in Int
  <2>1. Cell(h, start, c) BY <1>1, ShapeCells
  <2> QED BY <2>1, ShapeApart DEF Cell
<1>3. prev \in Int
  <2>1. h.info \in [Addr -> Int] BY <1>1 DEF HeapType
  <2> QED BY <2>1, <1>2
<1>4. /\ cut \in HeapType
      /\ cut.info = h.info /\ cut.head_ = h.head_ /\ cut.p_brk_ = h.p_brk_
      /\ \A x \in Addr : cut.size[x] = IF x = c \/ x = c + 1 + n THEN n ELSE h.size[x]
  BY <1>1, <1>2, SetSize
<1> HIDE DEF cut
<1>5. /\ front \in HeapType
      /\ front.size = cut.size /\ front.head_ = h.head_ /\ front.p_brk_ = h.p_brk_
      /\ \A x \in Addr : front.info[x] = IF x = c + 1 + n THEN prev ELSE h.info[x]
  BY <1>3, <1>4, SetInfo
<1> HIDE DEF front
<1>6. /\ rest \in HeapType
      /\ rest.info = front.info /\ rest.head_ = h.head_ /\ rest.p_brk_ = h.p_brk_
      /\ \A x \in Addr : rest.size[x] =
           IF x = d \/ x = d + 1 + (total - n - 2) THEN total - n - 2 ELSE front.size[x]
  <2>1. total - n - 2 \in Int BY <1>2
  <2> QED BY <1>2, <1>5, <2>1, SetSize
<1> HIDE DEF rest
<1>7. \A x \in Addr : rest.size[x] =
            IF x \in {c + 2 + n, footer_of(h, c)} THEN h.size[c] - n - 2
            ELSE IF x \in {c, c + 1 + n} THEN n ELSE h.size[x]
  <2>1. d + 1 + (total - n - 2) = footer_of(h, c) BY <1>2
  <2> QED BY <2>1, <1>4, <1>5, <1>6
<1>8. /\ Tiled(rest, start, bs \cup {d})
      /\ d \in Addr /\ d \notin bs
      /\ footer_of(rest, c) = c + 1 + n
      /\ footer_of(rest, d) = footer_of(h, c)
      /\ \A b \in bs \ {c} : footer_of(rest, b) = footer_of(h, b)
  <2>1. Cut(h, rest, start, bs, c, n)
    <3>1. rest.p_brk_ = h.p_brk_ BY <1>4, <1>5, <1>6
    <3>2. h.size[c] - n > 2 OBVIOUS
    <3> HIDE DEF d, total, prev
    <3> QED BY <1>1, <1>6, <1>7, <3>1, <3>2, TiledSplit
  <2> QED BY <2>1 DEF Cut
<1> HIDE DEF d, total, prev
<1>9. c + 1 + n \in Addr /\ c + 1 + n \notin bs
      /\ c + 1 + n # c /\ c + 1 + n # footer_of(h, c)
      /\ c + 1 + n # start /\ c + 1 + n # h.p_brk_ - 1
      /\ \A b \in bs \ {c} : footer_of(h, b) # c + 1 + n
  <2>1. c + 1 + n \in Addr BY <1>2, HeapConstants DEF Addr, total
  <2>2. \A x, y \in bs \cup {d} : /\ x # footer_of(rest, y)
                                  /\ x # y => footer_of(rest, x) # footer_of(rest, y)
    <3>1. bs \cup {d} \in SUBSET Addr BY <1>1, <1>8
    <3> QED BY <3>1, <1>1, <1>6, <1>8, Cells
  <2>3. c + 1 + n \notin bs BY <2>2, <1>8, <1>1
  <2>4. c + 1 + n # footer_of(h, c) BY <1>2 DEF total
  <2>5. \A b \in bs \ {c} : footer_of(h, b) # c + 1 + n
    BY <2>2, <1>8, <1>1
  <2>6. c + 1 + n # c /\ c + 1 + n # start /\ c + 1 + n # h.p_brk_ - 1
    BY <1>1, <1>2 DEF total
  <2> QED BY <2>1, <2>3, <2>4, <2>5, <2>6
<1>10. /\ \A b \in bs : rest.info[b] = h.info[b]
       /\ \A b \in bs : rest.info[footer_of(rest, b)] = h.info[footer_of(h, b)]
  <2>1. \A b \in bs : b \in Addr /\ footer_of(h, b) \in Addr
    BY ShapeCells DEF Cell
  <2>2. \A b \in bs : rest.info[b] = h.info[b] BY <2>1, <1>5, <1>6, <1>9
  <2>3. \A b \in bs \ {c} : rest.info[footer_of(rest, b)] = h.info[footer_of(h, b)]
    BY <2>1, <1>5, <1>6, <1>8, <1>9
  <2>4. rest.info[footer_of(rest, c)] = h.info[footer_of(h, c)]
    BY <1>5, <1>6, <1>8, <1>9 DEF prev
  <2> QED BY <2>2, <2>3, <2>4
<1>11. Linked(rest, F) BY <1>1, <1>6, <1>10, LinkedFrame
<1>12. rest.info[start] = USED_NORMAL /\ rest.info[rest.p_brk_ - 1] = USED_NORMAL
  BY <1>1, <1>2, <1>5, <1>6, <1>9
<1>13. \A b \in (bs \cup {d}) \ (F \cup {d}) :
          rest.info[b] = USED_NORMAL /\ rest.info[footer_of(rest, b)] = USED_NORMAL
  BY <1>1, <1>8, <1>10
<1>14. /\ Shape(r, start, bs \cup {d}, F \cup {d})
       /\ r.size = rest.size /\ r.p_brk_ = rest.p_brk_
       /\ Above(rest, r, rest.p_brk_)
       /\ Spared(rest, r, bs \cup {d}, F \cup {d})
  <2>1. bs \cup {d} \in SUBSET Addr /\ F \in SUBSET (bs \cup {d})
        /\ d \in bs \cup {d} /\ d \notin F
    BY <1>1, <1>8
  <2>2. NewFreed(rest, r, start, bs \cup {d}, F, d)
    BY <2>1, <1>1, <1>6, <1>8, <1>11, <1>12, <1>13, InsertNewShape
  <2> QED BY <2>2 DEF NewFreed
<1>15. r = split(h, c, n)
  BY DEF split, r, rest, front, cut, d, prev, total
<1> HIDE DEF r
<1>16. /\ \A b \in bs \cup {d} : footer_of(r, b) = footer_of(rest, b)
       /\ r.size[c] = n
  <2>1. \A b \in bs \cup {d} : footer_of(r, b) = footer_of(rest, b)
    BY <1>14 DEF footer_of
  <2>2. c # c + 2 + n /\ c # footer_of(h, c) BY <1>2
  <2> QED BY <2>1, <2>2, <1>2, <1>7, <1>14
<1>17. \A b \in bs \ {c} : r.size[b] = h.size[b]
  <2>1. ASSUME NEW b \in bs \ {c} PROVE r.size[b] = h.size[b]
    <3>1. b \in Addr /\ b # c + 2 + n /\ b # footer_of(h, c) /\ b # c + 1 + n
      BY <1>1, <1>8, <1>9, ShapeCells, ShapeApart DEF Cell, d
    <3> QED BY <3>1, <1>7, <1>14
  <2> QED BY <2>1
<1>18. Above(h, rest, h.p_brk_)
  <2>1. ASSUME NEW x \in Addr, x >= h.p_brk_
        PROVE  rest.info[x] = h.info[x] /\ rest.size[x] = h.size[x]
    <3>1. x \in Int BY HeapConstants DEF Addr
    <3>2. x # c + 2 + n /\ x # footer_of(h, c) /\ x # c /\ x # c + 1 + n
      BY <2>1, <3>1, <1>2 DEF total
    <3> QED BY <3>2, <1>5, <1>6, <1>7
  <2> QED BY <2>1 DEF Above
<1>19. Above(h, r, h.p_brk_) BY <1>6, <1>14, <1>18, AboveTrans
<1>20. Spared(h, rest, bs, F)
  <2>1. ASSUME NEW u \in bs \ F, NEW x \in Addr, u <= x, x <= footer_of(h, u)
        PROVE  rest.info[x] = h.info[x] /\ rest.size[x] = h.size[x]
    <3>1. x \in Int /\ (x < c \/ footer_of(h, c) < x)
      BY <1>1, <2>1, InsideApart
    <3>2. x # c + 2 + n /\ x # footer_of(h, c) /\ x # c /\ x # c + 1 + n
      BY <3>1, <1>2 DEF total
    <3> QED BY <3>2, <1>5, <1>6, <1>7
  <2> QED BY <2>1 DEF Spared
<1>21. Spared(h, r, bs, F)
  <2>1. bs \ F \subseteq (bs \cup {d}) \ (F \cup {d}) BY <1>8
  <2> QED BY <2>1, <1>1, <1>14, <1>20, SparedTrans
<1> QED BY <1>1, <1>6, <1>8, <1>14, <1>15, <1>16, <1>17, <1>19, <1>21 DEF d, Divided

\* The first n granules of block c of h are used in t, and the rest is free.
FrontTaken(h, t, start, bs, F, c, n) ==
  LET d == c + 2 + n
  IN  /\ Shape(t, start, bs \cup {d}, (F \ {c}) \cup {d})
      /\ d \in Addr /\ d \notin bs
      /\ t.p_brk_ = h.p_brk_ /\ Above(h, t, h.p_brk_)
      /\ Spared(h, t, bs, F) /\ t.size[c] = n

\* The take of malloc splits a block that is longer than it needs.
LEMMA TakeSplitShape ==
  ASSUME NEW h, NEW start, NEW bs, NEW F, Shape(h, start, bs, F),
         NEW c \in F, NEW n \in Nat, splits(h, c, n)
  PROVE  FrontTaken(h, take(h, c, n), start, bs, F, c, n)
<1> DEFINE d == c + 2 + n
           r == split(h, c, n)
           t == take(h, c, n)
           bd == bs \cup {d}
           fd == F \cup {d}
<1>1. h.size[c] - n > 2 BY DEF splits
<1>2. /\ Shape(r, start, bd, fd)
      /\ d \in Addr /\ d \notin bs
      /\ r.p_brk_ = h.p_brk_ /\ Above(h, r, h.p_brk_)
      /\ Spared(h, r, bs, F) /\ r.size[c] = n
  <2>1. Divided(h, r, start, bs, F, c, n) BY <1>1, SplitShape
  <2> QED BY <2>1 DEF Divided
<1>3. F \in SUBSET bs BY DEF Shape
<1>4. t = set_info(set_info(remove_from_list(r, c), c, USED_NORMAL),
                   footer_of(r, c), USED_NORMAL)
  BY DEF take
<1> HIDE DEF d, r, t
<1>5. c \in fd /\ fd \ {c} = (F \ {c}) \cup {d} BY <1>2, <1>3
<1>6. bs \ F \subseteq bd \ fd BY <1>2
<1> HIDE DEF bd, fd
<1>7. Occupied(r, t, start, bd, fd, c) BY <1>2, <1>4, <1>5, RemoveShape
<1>8. /\ Shape(t, start, bd, fd \ {c})
      /\ t.size = r.size /\ t.p_brk_ = r.p_brk_
      /\ Above(r, t, r.p_brk_) /\ Spared(r, t, bd, fd)
  BY <1>7 DEF Occupied
<1>9. Above(h, t, h.p_brk_) BY <1>2, <1>8, AboveTrans
<1>10. Spared(h, t, bs, F)
  <2>1. h \in HeapType /\ start \in Int /\ bs \in SUBSET Addr /\ Tiled(h, start, bs)
    BY DEF Shape
  <2> QED BY <2>1, <1>2, <1>6, <1>8, SparedTrans
<1>11. Shape(t, start, bs \cup {d}, (F \ {c}) \cup {d}) BY <1>5, <1>8 DEF bd
<1>12. t.size[c] = n /\ t.p_brk_ = h.p_brk_ BY <1>2, <1>8
<1> QED BY <1>2, <1>9, <1>10, <1>11, <1>12 DEF d, t, FrontTaken

\* All of block c of h is used in t.
WholeTaken(h, t, start, bs, F, c) ==
  /\ Shape(t, start, bs, F \ {c})
  /\ t.p_brk_ = h.p_brk_ /\ Above(h, t, h.p_brk_)
  /\ Spared(h, t, bs, F) /\ t.size = h.size

\* The take of malloc leaves a block that fits in one piece.
LEMMA TakeWholeShape ==
  ASSUME NEW h, NEW start, NEW bs, NEW F, Shape(h, start, bs, F),
         NEW c \in F, NEW n \in Nat, ~splits(h, c, n)
  PROVE  WholeTaken(h, take(h, c, n), start, bs, F, c)
<1>1. take(h, c, n) =
        set_info(set_info(remove_from_list(h, c), c, USED_NORMAL),
                 footer_of(h, c), USED_NORMAL)
  BY DEF take
<1>2. Occupied(h, take(h, c, n), start, bs, F, c) BY <1>1, RemoveShape
<1> QED BY <1>2 DEF Occupied, WholeTaken

-----------------------------------------------------------------------------
(* Growing the heap                                                        *)

\* The last block and the footer extend() reads.
LEMMA LastBlock ==
  ASSUME NEW h, NEW start, NEW bs, NEW F, Shape(h, start, bs, F)
  PROVE  LET last == header_of(h, h.p_brk_ - 2)
         IN  /\ last \in bs
             /\ after(h, last) = h.p_brk_ - 1
             /\ footer_of(h, last) = h.p_brk_ - 2
<1> DEFINE last == header_of(h, h.p_brk_ - 2)
<1>1. h.p_brk_ \in Int /\ (h.p_brk_ - 1) - 1 = h.p_brk_ - 2
  BY ShapeApart
<1>2. h.p_brk_ - 1 # start + 1
  <2>1. start + 1 \in bs /\ start \in Int BY DEF Shape, Tiled
  <2> QED BY <2>1, ShapeCells DEF Cell
<1>3. header_of(h, (h.p_brk_ - 1) - 1) \in bs
      /\ after(h, header_of(h, (h.p_brk_ - 1) - 1)) = h.p_brk_ - 1
  BY <1>2 DEF Shape, Tiled
<1>4. last \in bs /\ after(h, last) = h.p_brk_ - 1 BY <1>1, <1>3
<1> HIDE DEF last
<1>5. footer_of(h, last) \in Int BY <1>4, ShapeCells DEF Cell
<1>6. footer_of(h, last) = h.p_brk_ - 2 BY <1>1, <1>4, <1>5 DEF after
<1> QED BY <1>4, <1>6 DEF last

\* The heap r ends at e, and its blocks are those of h.
Stretched(h, r, start, bs, F, e) ==
  /\ Shape(r, start, bs, F) /\ r.p_brk_ = e
  /\ Above(h, r, e) /\ Spared(h, r, bs, F)

\* The last block is free: it grows in place.
LEMMA ExtendFreeShape ==
  ASSUME NEW h, NEW start, NEW bs, NEW F, Shape(h, start, bs, F),
         NEW e \in Nat, e > h.p_brk_, e <= BrkLimit,
         h.info[h.p_brk_ - 2] # USED_NORMAL
  PROVE  Stretched(h, extend(h, e), start, bs, F, e)
<1> DEFINE bottom == h.p_brk_ - 2
           delta == e - h.p_brk_
           c == header_of(h, bottom)
           I == [h.info EXCEPT ![bottom + delta] = h.info[bottom],
                               ![bottom + delta + 1] = h.info[bottom + 1]]
           S == [h.size EXCEPT ![bottom + delta] = h.size[bottom],
                               ![bottom + delta + 1] = h.size[bottom + 1]]
           m == [h EXCEPT !.p_brk_ = e, !.info = I, !.size = S]
           r == set_size(m, c, h.size[c] + delta)
<1>1. /\ h \in HeapType /\ start \in Int /\ bs \in SUBSET Addr /\ F \in SUBSET bs
      /\ Tiled(h, start, bs) /\ Linked(h, F)
      /\ h.info[start] = USED_NORMAL /\ h.info[h.p_brk_ - 1] = USED_NORMAL
      /\ \A b \in bs \ F : /\ h.info[b] = USED_NORMAL
                            /\ h.info[footer_of(h, b)] = USED_NORMAL
  BY DEF Shape
<1>2. c \in bs /\ after(h, c) = h.p_brk_ - 1 /\ footer_of(h, c) = bottom
  BY LastBlock
<1>3. extend(h, e) = r
  BY DEF extend, last_is_free
<1>4. /\ h.p_brk_ \in Int /\ bottom \in Addr /\ bottom + 1 \in Addr
      /\ delta \in Nat \ {0} /\ bottom + 1 = h.p_brk_ - 1
      /\ bottom + delta \in Int /\ bottom \in Int
      /\ bottom + delta = e - 2 /\ bottom + delta + 1 = e - 1
      /\ bottom + delta > bottom
  <2>1. h.p_brk_ \in Int /\ h.p_brk_ - 1 \in Addr BY ShapeApart
  <2>2. bottom \in Addr BY <1>2, ShapeCells DEF Cell
  <2> QED BY <2>1, <2>2
<1> HIDE DEF c, bottom, delta
<1>5. /\ h.info \in [Addr -> Int] /\ h.size \in [Addr -> Int]
      /\ h.info[bottom] \in Int /\ h.info[bottom + 1] \in Int
      /\ h.size[bottom] \in Int /\ h.size[bottom + 1] \in Int
  <2>1. h.info \in [Addr -> Int] /\ h.size \in [Addr -> Int] BY <1>1 DEF HeapType
  <2> QED BY <2>1, <1>4
<1>6. /\ I \in [Addr -> Int]
      /\ \A x \in Addr : I[x] = IF x = bottom + delta + 1 THEN h.info[bottom + 1]
                                ELSE IF x = bottom + delta THEN h.info[bottom]
                                ELSE h.info[x]
  BY <1>5
<1>7. /\ S \in [Addr -> Int]
      /\ \A x \in Addr : S[x] = IF x = bottom + delta + 1 THEN h.size[bottom + 1]
                                ELSE IF x = bottom + delta THEN h.size[bottom]
                                ELSE h.size[x]
  BY <1>5
<1> HIDE DEF I, S
<1>8. /\ m \in HeapType /\ m.p_brk_ = e /\ m.info = I /\ m.size = S
      /\ m.head_ = h.head_
  <2>1. e \in 0 .. BrkLimit /\ h.head_ \in Int BY <1>1, HeapConstants DEF HeapType
  <2>2. m.p_brk_ = e /\ m.info = I /\ m.size = S /\ m.head_ = h.head_
    BY <1>1 DEF HeapType
  <2>3. m \in HeapType BY <2>1, <1>1, <1>6, <1>7 DEF HeapType
  <2> QED BY <2>2, <2>3
<1> HIDE DEF m
<1>9. /\ r \in HeapType /\ r.info = I /\ r.head_ = h.head_ /\ r.p_brk_ = e
      /\ \A x \in Addr : r.size[x] =
           IF x = c \/ x = c + 1 + (h.size[c] + delta) THEN h.size[c] + delta ELSE S[x]
  <2>1. h.size[c] + delta \in Int /\ c \in Int BY <1>2, <1>4, ShapeCells DEF Cell
  <2> QED BY <2>1, <1>8, SetSize
<1> HIDE DEF r
<1>10. /\ c \in Addr /\ c \in Int /\ h.size[c] \in Nat /\ bottom = c + 1 + h.size[c]
       /\ c + 1 + (h.size[c] + delta) = bottom + delta
  BY <1>2, <1>4, ShapeCells DEF Cell
<1>11. bottom + delta \in Addr /\ bottom + delta + 1 \in Addr
  BY <1>4, HeapConstants DEF Addr
<1>12. /\ Tiled(r, start, bs)
       /\ footer_of(r, c) = footer_of(h, c) + delta
       /\ \A x \in bs \ {c} : footer_of(r, x) = footer_of(h, x)
  <2>1. r.p_brk_ = h.p_brk_ + delta BY <1>9, <1>4 DEF delta
  <2>2. r.size[c] = h.size[c] + delta BY <1>9, <1>10
  <2>3. r.size[footer_of(h, c) + delta] = h.size[c] + delta
    BY <1>2, <1>9, <1>10, <1>11
  <2>4. ASSUME NEW x \in Addr, x < h.p_brk_ - 1, x # c, x # footer_of(h, c)
        PROVE  r.size[x] = h.size[x]
    <3>1. x \in Int /\ x < bottom BY <2>4, <1>2, <1>4, HeapConstants DEF Addr
    <3>2. x # bottom + delta /\ x # bottom + delta + 1 BY <3>1, <1>4
    <3> QED BY <2>4, <3>2, <1>7, <1>9, <1>10
  <2>5. Lengthened(h, r, start, bs, c, delta)
    BY <2>1, <2>2, <2>3, <2>4, <1>1, <1>2, <1>4, <1>9, TiledGrow
  <2> QED BY <2>5 DEF Lengthened
<1>13. ASSUME NEW x \in Addr, x <= bottom
       PROVE  I[x] = h.info[x]
  <2>1. x \in Int BY HeapConstants DEF Addr
  <2>2. x # bottom + delta /\ x # bottom + delta + 1 BY <2>1, <1>4, <1>13
  <2> QED BY <2>2, <1>6
<1>14. ASSUME NEW x \in bs
       PROVE  /\ r.info[x] = h.info[x]
              /\ r.info[footer_of(r, x)] = h.info[footer_of(h, x)]
  <2>1. x \in Addr /\ footer_of(h, x) \in Addr /\ x <= bottom /\ footer_of(h, x) <= bottom
    BY <1>4, ShapeCells DEF Cell
  <2>2. r.info[x] = h.info[x] BY <2>1, <1>13, <1>9
  <2>3. CASE x # c BY <2>1, <2>3, <1>12, <1>13, <1>9
  <2>4. CASE x = c
    <3>1. bottom + delta # bottom + delta + 1 BY <1>4
    <3> QED BY <3>1, <2>2, <2>4, <1>12, <1>2, <1>9, <1>11, <1>6
  <2> QED BY <2>2, <2>3, <2>4
<1>15. Linked(r, F) BY <1>1, <1>9, <1>14, LinkedFrame
<1>16. r.info[start] = USED_NORMAL /\ r.info[r.p_brk_ - 1] = USED_NORMAL
  <2>1. start \in Addr /\ start <= bottom
    BY <1>2, <1>10, <1>4, ShapeCells, ShapeApart DEF Cell
  <2>2. r.p_brk_ - 1 = bottom + delta + 1 BY <1>4, <1>9
  <2> QED BY <2>1, <2>2, <1>1, <1>4, <1>6, <1>9, <1>11, <1>13
<1>17. Shape(r, start, bs, F)
  BY <1>1, <1>9, <1>12, <1>14, <1>15, <1>16 DEF Shape
<1>18. Above(h, r, e)
  <2>1. ASSUME NEW x \in Addr, x >= e
        PROVE  r.info[x] = h.info[x] /\ r.size[x] = h.size[x]
    <3>1. x \in Int BY HeapConstants DEF Addr
    <3>2. x # bottom + delta /\ x # bottom + delta + 1 /\ x # c
      BY <2>1, <3>1, <1>4, <1>10
    <3> QED BY <3>2, <1>6, <1>7, <1>9, <1>10
  <2> QED BY <2>1 DEF Above
<1>19. Spared(h, r, bs, F)
  <2>0. c \in F BY <1>1, <1>2 DEF bottom
  <2>1. ASSUME NEW u \in bs \ F, NEW x \in Addr, u <= x, x <= footer_of(h, u)
        PROVE  r.info[x] = h.info[x] /\ r.size[x] = h.size[x]
    <3>1. x \in Int /\ x < h.p_brk_ - 1 /\ x # c /\ x # footer_of(h, c)
      BY <1>1, <1>2, <2>0, <2>1, InsideApart
    <3>2. x # bottom + delta /\ x # bottom + delta + 1
      BY <3>1, <1>2, <1>4
    <3> QED BY <3>1, <3>2, <1>6, <1>7, <1>9, <1>10
  <2> QED BY <2>1 DEF Spared
<1> QED BY <1>3, <1>9, <1>17, <1>18, <1>19 DEF Stretched

\* The heap r ends at e, and has a free block more than h.
Extended(h, r, start, bs, F, e) ==
  LET d == h.p_brk_ - 1
  IN  /\ Shape(r, start, bs \cup {d}, F \cup {d})
      /\ d \in Addr /\ d \notin bs
      /\ r.p_brk_ = e
      /\ Above(h, r, e) /\ Spared(h, r, bs, F)

\* The last block is used: the new memory is a block of its own.
LEMMA ExtendUsedShape ==
  ASSUME NEW h, NEW start, NEW bs, NEW F, Shape(h, start, bs, F),
         NEW e \in Nat, e >= h.p_brk_ + 2, e <= BrkLimit,
         h.info[h.p_brk_ - 2] = USED_NORMAL
  PROVE  Extended(h, extend(h, e), start, bs, F, e)
<1> DEFINE bottom == h.p_brk_ - 2
           delta == e - h.p_brk_
           d == bottom + 1
           g == [h EXCEPT !.p_brk_ = e]
           f == set_size(g, d, delta - 2)
           i == insert_into_list(f, NULL, d)
           r == set_info(i, e - 1, USED_NORMAL)
<1>1. /\ h \in HeapType /\ start \in Int /\ bs \in SUBSET Addr /\ F \in SUBSET bs
      /\ Tiled(h, start, bs) /\ Linked(h, F)
      /\ h.info[start] = USED_NORMAL /\ h.info[h.p_brk_ - 1] = USED_NORMAL
      /\ \A b \in bs \ F : /\ h.info[b] = USED_NORMAL
                            /\ h.info[footer_of(h, b)] = USED_NORMAL
  BY DEF Shape
<1>2. extend(h, e) = r
  BY DEF extend, last_is_free
<1>3. /\ h.p_brk_ \in Int /\ d \in Addr /\ d \in Int /\ d = h.p_brk_ - 1
      /\ delta \in Nat /\ delta >= 2 /\ e = h.p_brk_ + delta
      /\ e \in 0 .. BrkLimit /\ d + 1 + (delta - 2) = e - 2
      /\ e - 1 \in Addr /\ e - 2 \in Addr
  <2>1. h.p_brk_ \in Int /\ h.p_brk_ - 1 \in Addr BY ShapeApart
  <2>2. d = h.p_brk_ - 1 BY <2>1
  <2>3. delta \in Nat /\ delta >= 2 /\ e = h.p_brk_ + delta BY <2>1
  <2>4. d + 1 + (delta - 2) = e - 2 BY <2>1
  <2>5. e - 1 \in Addr /\ e - 2 \in Addr BY <2>1, HeapConstants DEF Addr
  <2> QED BY <2>1, <2>2, <2>3, <2>4, <2>5, HeapConstants
<1> HIDE DEF delta, d, bottom
<1>4. /\ g \in HeapType /\ g.p_brk_ = e /\ g.info = h.info /\ g.size = h.size
      /\ g.head_ = h.head_
  <2>1. g.p_brk_ = e /\ g.info = h.info /\ g.size = h.size /\ g.head_ = h.head_
    BY <1>1 DEF HeapType
  <2>2. g \in HeapType BY <1>1, <1>3 DEF HeapType
  <2> QED BY <2>1, <2>2
<1> HIDE DEF g
<1>5. /\ f \in HeapType /\ f.p_brk_ = e /\ f.info = h.info /\ f.head_ = h.head_
      /\ \A x \in Addr : f.size[x] =
           IF x = d \/ x = e - 2 THEN delta - 2 ELSE h.size[x]
  <2>1. delta - 2 \in Int BY <1>3
  <2> QED BY <2>1, <1>3, <1>4, SetSize
<1> HIDE DEF f
<1>6. /\ Tiled(f, start, bs \cup {d}) /\ d \notin bs
      /\ footer_of(f, d) = e - 2
      /\ \A x \in bs : footer_of(f, x) = footer_of(h, x)
  <2>1. f.size[h.p_brk_ - 1] = delta - 2 /\ f.size[h.p_brk_ + delta - 2] = delta - 2
    <3>1. h.p_brk_ + delta - 2 = e - 2 BY <1>3
    <3> QED BY <3>1, <1>3, <1>5
  <2>2. ASSUME NEW x \in Addr, x < h.p_brk_ - 1 PROVE f.size[x] = h.size[x]
    <3>1. x # d /\ x # e - 2 BY <2>2, <1>3, HeapConstants DEF Addr
    <3> QED BY <3>1, <1>5
  <2>3. f.p_brk_ = h.p_brk_ + delta BY <1>3, <1>5
  <2>4. Appended(h, f, start, bs, delta)
    BY <2>1, <2>2, <2>3, <1>1, <1>3, <1>5, TiledAppend
  <2>5. /\ Tiled(f, start, bs \cup {h.p_brk_ - 1}) /\ h.p_brk_ - 1 \notin bs
        /\ footer_of(f, h.p_brk_ - 1) = h.p_brk_ + delta - 2
        /\ \A x \in bs : footer_of(f, x) = footer_of(h, x)
    BY <2>4 DEF Appended
  <2> QED BY <2>5, <1>3
<1>7. Linked(f, F)
  BY <1>1, <1>5, <1>6, LinkedFrame
<1>8. bs \cup {d} \in SUBSET Addr /\ F \in SUBSET (bs \cup {d}) /\ d \notin F
      /\ d \in bs \cup {d}
  BY <1>1, <1>3, <1>6
<1>9. Linked(i, F \cup {d})
  BY <1>1, <1>5, <1>6, <1>7, <1>8, InsertHeadLinks
<1>10. /\ i \in HeapType
       /\ i.size = f.size /\ i.head_ = d /\ i.p_brk_ = e
       /\ \A x \in Addr : i.info[x] =
           IF h.head_ # NULL /\ x = footer_of(f, h.head_) THEN d
           ELSE IF x = footer_of(f, d) THEN NULL
           ELSE IF x = d THEN h.head_ ELSE h.info[x]
  <2>1. /\ i \in HeapType
        /\ i.size = f.size /\ i.head_ = d /\ i.p_brk_ = f.p_brk_
        /\ \A x \in Addr : i.info[x] =
             IF f.head_ # NULL /\ x = footer_of(f, f.head_) THEN d
             ELSE IF x = footer_of(f, d) THEN NULL
             ELSE IF x = d THEN f.head_ ELSE f.info[x]
    <3>1. f \in HeapType /\ d \in Addr BY <1>3, <1>5
    <3>2. HeadInserted(f, i, d) BY <3>1, InsertHeadEffect
    <3> QED BY <3>2 DEF HeadInserted
  <2> QED BY <2>1, <1>5
<1> HIDE DEF i
<1>11. /\ r \in HeapType
       /\ r.size = f.size /\ r.head_ = i.head_ /\ r.p_brk_ = e
       /\ \A x \in Addr : r.info[x] = IF x = e - 1 THEN USED_NORMAL ELSE i.info[x]
  <2>1. USED_NORMAL \in Int BY DEF USED_NORMAL
  <2> QED BY <2>1, <1>10, SetInfo
<1> HIDE DEF r
<1>12. \A x \in bs \cup {d} : footer_of(r, x) = footer_of(f, x) /\ footer_of(i, x) = footer_of(f, x)
  BY <1>10, <1>11 DEF footer_of
<1>13. Tiled(r, start, bs \cup {d})
  BY <1>1, <1>5, <1>6, <1>8, <1>11, TiledFrame
<1>14. ASSUME NEW x \in bs \cup {d}
       PROVE  /\ x \in Addr /\ footer_of(f, x) \in Addr
              /\ x < footer_of(f, x) /\ footer_of(f, x) < e - 1
              /\ x # e - 1 /\ footer_of(f, x) # e - 1
  <2>1. x \in Addr /\ footer_of(f, x) \in Addr
        /\ x < footer_of(f, x) /\ footer_of(f, x) < e - 1
    BY <1>1, <1>5, <1>6, <1>8, Cells
  <2>2. x \in Int /\ footer_of(f, x) \in Int BY <1>1, <1>5, <1>6, <1>8, CellInts
  <2> QED BY <2>1, <2>2, <1>3
<1>15. Linked(r, F \cup {d})
  <2>1. ASSUME NEW x \in F \cup {d}
        PROVE  r.info[x] = i.info[x] /\ r.info[footer_of(r, x)] = i.info[footer_of(i, x)]
    <3>1. x \in bs \cup {d} BY <1>8
    <3> QED BY <3>1, <1>11, <1>12, <1>14
  <2> QED BY <2>1, <1>9, <1>11, LinkedFrame
<1>16. ASSUME NEW x \in bs \ F
       PROVE  r.info[x] = USED_NORMAL /\ r.info[footer_of(r, x)] = USED_NORMAL
  <2>1. h.head_ # NULL => h.head_ \in F BY <1>1 DEF Linked
  <2>2. \A u, v \in bs \cup {d} : /\ u # footer_of(f, v)
                                  /\ u # v => footer_of(f, u) # footer_of(f, v)
    BY <1>1, <1>5, <1>6, <1>8, Cells
  <2>3. x \in bs \cup {d} /\ x # d /\ F \subseteq bs \cup {d} BY <1>6, <1>8
  <2>4. r.info[x] = h.info[x] BY <2>1, <2>2, <2>3, <1>10, <1>11, <1>14
  <2>5. r.info[footer_of(f, x)] = h.info[footer_of(f, x)]
    BY <2>1, <2>2, <2>3, <1>10, <1>11, <1>14
  <2> QED BY <2>3, <2>4, <2>5, <1>1, <1>6, <1>12
<1>17. r.info[start] = USED_NORMAL /\ r.info[r.p_brk_ - 1] = USED_NORMAL
  <2>1. r.info[r.p_brk_ - 1] = USED_NORMAL BY <1>3, <1>11
  <2>2. h.head_ # NULL => h.head_ \in F BY <1>1 DEF Linked
  <2>3. ASSUME NEW x \in bs \cup {d} PROVE start # x /\ start # footer_of(f, x)
    <3>1. start < x /\ x < footer_of(f, x) BY <1>1, <1>5, <1>6, <1>8, Cells
    <3>2. x \in Int /\ footer_of(f, x) \in Int BY <1>1, <1>5, <1>6, <1>8, CellInts
    <3> QED BY <3>1, <3>2, <1>1
  <2>4. start \in Addr BY ShapeApart
  <2>5. r.info[start] = h.info[start]
    BY <2>2, <2>3, <2>4, <1>8, <1>10, <1>11, <1>1
  <2> QED BY <2>1, <2>5, <1>1
<1>18. Shape(r, start, bs \cup {d}, F \cup {d})
  BY <1>1, <1>8, <1>11, <1>13, <1>15, <1>16, <1>17 DEF Shape
<1>19. Above(h, r, e)
  <2>1. ASSUME NEW x \in Addr, x >= e
        PROVE  r.info[x] = h.info[x] /\ r.size[x] = h.size[x]
    <3>1. x \in Int BY HeapConstants DEF Addr
    <3>2. x # d /\ x # e - 2 /\ x # e - 1 BY <2>1, <3>1, <1>3
    <3>3. h.head_ # NULL => h.head_ \in bs \cup {d} BY <1>1 DEF Linked
    <3>4. ASSUME NEW y \in bs \cup {d} PROVE x # footer_of(f, y)
      <4>1. footer_of(f, y) < e - 1 /\ footer_of(f, y) \in Addr BY <1>14
      <4> QED BY <4>1, <2>1, <3>1, <1>3, HeapConstants DEF Addr
    <3> QED BY <3>2, <3>3, <3>4, <1>5, <1>10, <1>11
  <2> QED BY <2>1 DEF Above
<1>20. Spared(h, r, bs, F)
  <2>1. ASSUME NEW u \in bs \ F, NEW x \in Addr, u <= x, x <= footer_of(h, u)
        PROVE  r.info[x] = h.info[x] /\ r.size[x] = h.size[x]
    <3>1. /\ x \in Int /\ x < h.p_brk_ - 1
          /\ \A y \in bs \ {u} : x # footer_of(h, y)
      BY <1>1, <2>1, InsideApart
    <3>2. x # d /\ x # e - 2 /\ x # e - 1 BY <3>1, <1>3
    <3>3. h.head_ # NULL => h.head_ \in bs \ {u} BY <1>1, <2>1 DEF Linked
    <3> QED BY <3>1, <3>2, <3>3, <1>5, <1>6, <1>10, <1>11
  <2> QED BY <2>1 DEF Spared
<1> QED BY <1>2, <1>3, <1>6, <1>11, <1>18, <1>19, <1>20 DEF Extended

-----------------------------------------------------------------------------
(* Coalescing                                                              *)

\* Block d of h is in r part of the block before it.
NextMerged(h, r, start, bs, F, d) ==
  /\ Shape(r, start, bs \ {d}, F \ {d})
  /\ r.p_brk_ = h.p_brk_ /\ Above(h, r, h.p_brk_)
  /\ Spared(h, r, bs, F)

\* free()'s merge with the block behind keeps the shape of the heap.
LEMMA MergeNextShape ==
  ASSUME NEW h, NEW start, NEW bs, NEW F, Shape(h, start, bs, F),
         h.head_ \in F, NEW d \in F, after(h, h.head_) = d
  PROVE  NextMerged(h, merge_next(h, d), start, bs, F, d)
<1> DEFINE b == h.head_
           o == remove_from_list(h, d)
           t == h.size[b] + h.size[d] + 2
           g == set_size(o, b, t)
           r == set_info(g, footer_of(h, d), NULL)
<1>1. /\ h \in HeapType /\ start \in Int /\ bs \in SUBSET Addr /\ F \in SUBSET bs
      /\ Tiled(h, start, bs) /\ Linked(h, F)
      /\ h.info[start] = USED_NORMAL /\ h.info[h.p_brk_ - 1] = USED_NORMAL
      /\ \A x \in bs \ F : /\ h.info[x] = USED_NORMAL
                            /\ h.info[footer_of(h, x)] = USED_NORMAL
  BY DEF Shape
<1>2. Cell(h, start, b) /\ Cell(h, start, d) /\ b \in bs /\ d \in bs
  BY <1>1, ShapeCells
<1>3. b # d /\ t \in Int /\ b + 1 + t = footer_of(h, d) /\ footer_of(h, d) \in Addr
      /\ d \in Addr /\ b \in Addr /\ b \in Int /\ d # NULL
  BY <1>2 DEF Cell
<1>4. /\ o \in HeapType
      /\ o.size = h.size /\ o.p_brk_ = h.p_brk_ /\ o.head_ = b
      /\ \A x \in Addr : x \notin F /\ (\A y \in F : x # footer_of(h, y))
            => o.info[x] = h.info[x]
  <2> DEFINE p == h.info[footer_of(h, d)]
             n == h.info[d]
  <2>1. /\ o \in HeapType
        /\ o.size = h.size /\ o.p_brk_ = h.p_brk_
        /\ o.head_ = IF p = NULL THEN n ELSE h.head_
        /\ \A x \in Addr : o.info[x] =
             IF n # NULL /\ x = footer_of(h, n) THEN p
             ELSE IF p # NULL /\ x = p THEN n ELSE h.info[x]
    <3>1. Removed(h, o, d) BY <1>1, <1>3, RemoveEffect
    <3> QED BY <3>1 DEF Removed
  <2>2. p # NULL BY <1>1, <1>3 DEF Linked
  <2>3. (n # NULL => n \in F) /\ p \in F BY <1>1, <2>2 DEF Linked
  <2> HIDE DEF p, n, o
  <2> QED BY <2>1, <2>2, <2>3
<1>5. Linked(o, F \ {d})
  BY <1>1, RemoveLinks
<1> HIDE DEF o, t, b
<1>6. /\ g \in HeapType
      /\ g.info = o.info /\ g.head_ = b /\ g.p_brk_ = h.p_brk_
      /\ \A x \in Addr : g.size[x] =
           IF x = b \/ x = footer_of(h, d) THEN t ELSE h.size[x]
  BY <1>3, <1>4, SetSize
<1> HIDE DEF g
<1>7. /\ r \in HeapType
      /\ r.size = g.size /\ r.head_ = b /\ r.p_brk_ = h.p_brk_
      /\ \A x \in Addr : r.info[x] = IF x = footer_of(h, d) THEN NULL ELSE o.info[x]
  <2>1. NULL \in Int BY DEF NULL
  <2> QED BY <2>1, <1>6, SetInfo
<1> HIDE DEF r
<1>8. r = merge_next(h, d)
  <2>1. footer_of(g, b) = footer_of(h, d)
    BY <1>3, <1>6 DEF footer_of
  <2> DEFINE oo == remove_from_list(h, d)
             gg == set_size(oo, oo.head_, oo.size[oo.head_] + oo.size[d] + 2)
  <2>2. merge_next(h, d) = set_info(gg, footer_of(gg, oo.head_), NULL)
    BY DEF merge_next
  <2>3. gg = g BY <1>4 DEF g, t, o
  <2>4. oo.head_ = b BY <1>4 DEF o
  <2> QED BY <2>1, <2>2, <2>3, <2>4 DEF r
<1>9. /\ Tiled(r, start, bs \ {d})
      /\ footer_of(r, b) = footer_of(h, d)
      /\ \A x \in bs \ {d, b} : footer_of(r, x) = footer_of(h, x)
  <2>1. \A x \in Addr : r.size[x] =
            IF x \in {b, footer_of(h, d)} THEN h.size[b] + h.size[d] + 2
            ELSE h.size[x]
    BY <1>6, <1>7 DEF t
  <2>2. after(h, b) = d BY DEF b
  <2>3. /\ h \in HeapType /\ r \in HeapType /\ start \in Int /\ bs \in SUBSET Addr
        /\ Tiled(h, start, bs) /\ b \in bs /\ d \in bs /\ r.p_brk_ = h.p_brk_
    BY <1>1, <1>2, <1>7
  <2>4. Joined(h, r, start, bs, b, d) BY <2>1, <2>2, <2>3, TiledJoin
  <2> QED BY <2>4 DEF Joined
<1>10. \A x, y \in bs : /\ x # footer_of(h, y)
                        /\ x # y => footer_of(h, x) # footer_of(h, y)
  BY ShapeApart
<1>11. \A x \in bs : x \in Addr /\ footer_of(h, x) \in Addr
  BY ShapeCells DEF Cell
<1>12. \A x \in bs : footer_of(o, x) = footer_of(h, x)
  BY <1>4 DEF footer_of
<1>13. ASSUME NEW x \in F \ {d}
       PROVE  r.info[x] = o.info[x] /\ r.info[footer_of(r, x)] = o.info[footer_of(o, x)]
  <2>0. x \in bs BY <1>1
  <2>1. r.info[x] = o.info[x] BY <2>0, <1>2, <1>7, <1>10, <1>11
  <2>2. CASE x # b
    BY <2>0, <2>2, <1>2, <1>7, <1>9, <1>10, <1>11, <1>12
  <2>3. CASE x = b
    <3>1. o.info[footer_of(o, b)] = NULL
      <4>1. o.head_ # NULL BY <1>2, <1>4 DEF Cell
      <4> QED BY <4>1, <1>4, <1>5 DEF Linked
    <3>2. r.info[footer_of(r, b)] = NULL BY <1>3, <1>7, <1>9
    <3> QED BY <3>1, <3>2, <2>1, <2>3
  <2> QED BY <2>1, <2>2, <2>3
<1>14. Linked(r, F \ {d})
  BY <1>4, <1>5, <1>7, <1>13, LinkedFrame
<1>15. ASSUME NEW x \in Addr, x \notin F, \A y \in F : x # footer_of(h, y)
       PROVE  r.info[x] = h.info[x]
  BY <1>15, <1>4, <1>7
<1>16. ASSUME NEW x \in bs \ F
       PROVE  r.info[x] = USED_NORMAL /\ r.info[footer_of(r, x)] = USED_NORMAL
  <2>1. x # b /\ x # d BY DEF b
  <2>2. footer_of(r, x) = footer_of(h, x) BY <2>1, <1>9
  <2>3. /\ x \in Addr /\ \A y \in F : x # footer_of(h, y)
        /\ footer_of(h, x) \in Addr /\ footer_of(h, x) \notin F
        /\ \A y \in F : footer_of(h, x) # footer_of(h, y)
    BY <1>1, <1>10, <1>11
  <2> QED BY <2>2, <2>3, <1>1, <1>15
<1>17. r.info[start] = USED_NORMAL /\ r.info[r.p_brk_ - 1] = USED_NORMAL
  <2>1. /\ start \in Addr /\ start \notin F /\ \A y \in F : start # footer_of(h, y)
    BY <1>1, ShapeCells, ShapeApart DEF Cell
  <2>2. /\ h.p_brk_ - 1 \in Addr /\ h.p_brk_ - 1 \notin F
        /\ \A y \in F : h.p_brk_ - 1 # footer_of(h, y)
    BY <1>1, ShapeCells, ShapeApart DEF Cell
  <2> QED BY <2>1, <2>2, <1>1, <1>7, <1>15
<1>18. Shape(r, start, bs \ {d}, F \ {d})
  <2>1. bs \ {d} \in SUBSET Addr /\ F \ {d} \in SUBSET (bs \ {d}) BY <1>1
  <2>2. (bs \ {d}) \ (F \ {d}) = bs \ F OBVIOUS
  <2> QED BY <2>1, <2>2, <1>1, <1>7, <1>9, <1>14, <1>16, <1>17 DEF Shape
<1>19. Above(h, r, h.p_brk_)
  <2>1. ASSUME NEW x \in Addr, x >= h.p_brk_
        PROVE  r.info[x] = h.info[x] /\ r.size[x] = h.size[x]
    <3>1. x \in Int /\ h.p_brk_ \in Int BY ShapeApart, HeapConstants DEF Addr
    <3>2. ASSUME NEW y \in bs PROVE x # y /\ x # footer_of(h, y)
      <4>1. Cell(h, start, y) BY ShapeCells
      <4> QED BY <4>1, <3>1, <2>1 DEF Cell
    <3> QED BY <3>2, <1>1, <1>2, <1>6, <1>7, <1>15
  <2> QED BY <2>1 DEF Above
<1>20. Spared(h, r, bs, F)
  <2>1. ASSUME NEW u \in bs \ F, NEW x \in Addr, u <= x, x <= footer_of(h, u)
        PROVE  r.info[x] = h.info[x] /\ r.size[x] = h.size[x]
    <3>1. \A y \in bs \ {u} : x # y /\ x # footer_of(h, y)
      BY <1>1, <2>1, InsideApart
    <3>2. b \in F BY DEF b
    <3> QED BY <3>1, <3>2, <1>1, <1>2, <1>6, <1>7, <1>15
  <2> QED BY <2>1 DEF Spared
<1> QED BY <1>7, <1>8, <1>18, <1>19, <1>20 DEF NextMerged

\* Block b of h is in r part of block c before it, the head of the list.
PrevMerged(h, r, start, bs, F, b, c) ==
  /\ Shape(r, start, bs \ {b}, F \ {b})
  /\ r.head_ = c /\ footer_of(r, c) = footer_of(h, b)
  /\ r.p_brk_ = h.p_brk_ /\ Above(h, r, h.p_brk_)
  /\ Spared(h, r, bs, F)

\* free()'s merge with the block in front keeps the shape of the heap and makes
\* the joined block the head of the list.
LEMMA MergePrevShape ==
  ASSUME NEW h, NEW start, NEW bs, NEW F, Shape(h, start, bs, F),
         NEW b \in F, h.head_ = b, NEW c \in F, after(h, c) = b,
         header_of(h, b - 1) = c
  PROVE  PrevMerged(h, merge_prev(h, b - 1), start, bs, F, b, c)
<1> DEFINE o == remove_from_list(h, c)
           t == h.size[c] + h.size[b] + 2
           g == set_size(o, c, t)
           fb == footer_of(h, b)
           k == set_info(g, fb, NULL)
           n == o.info[b]
           j == set_info(k, c, n)
           jj == [j EXCEPT !.head_ = c]
           r == IF n = NULL THEN jj ELSE set_info(jj, footer_of(h, n), c)
<1>1. /\ h \in HeapType /\ start \in Int /\ bs \in SUBSET Addr /\ F \in SUBSET bs
      /\ Tiled(h, start, bs) /\ Linked(h, F)
      /\ h.info[start] = USED_NORMAL /\ h.info[h.p_brk_ - 1] = USED_NORMAL
      /\ \A x \in bs \ F : /\ h.info[x] = USED_NORMAL
                            /\ h.info[footer_of(h, x)] = USED_NORMAL
  BY DEF Shape
<1>2. Cell(h, start, b) /\ Cell(h, start, c) /\ b \in bs /\ c \in bs
  BY <1>1, ShapeCells
<1>3. b # c /\ t \in Int /\ c + 1 + t = fb /\ fb \in Addr /\ fb \in Int
      /\ c \in Addr /\ b \in Addr /\ b \in Int /\ c \in Int /\ b # NULL /\ c # NULL
      /\ footer_of(h, c) \in Addr
  <2>1. /\ b \in Int /\ b \in Addr /\ b # NULL /\ h.size[b] \in Nat
        /\ footer_of(h, b) \in Int /\ footer_of(h, b) \in Addr
        /\ footer_of(h, b) = b + 1 + h.size[b]
    BY <1>2 DEF Cell
  <2>2. /\ c \in Int /\ c \in Addr /\ c # NULL /\ h.size[c] \in Nat
        /\ footer_of(h, c) \in Addr /\ b = c + 2 + h.size[c]
    BY <1>2 DEF Cell
  <2>3. b # c /\ t \in Int /\ c + 1 + t = fb BY <2>1, <2>2
  <2> QED BY <2>1, <2>2, <2>3
<1>4. /\ \A x, y \in bs : /\ x # footer_of(h, y)
                          /\ x # y => footer_of(h, x) # footer_of(h, y)
      /\ \A x \in bs : x \in Addr /\ footer_of(h, x) \in Addr /\ x # NULL
  BY ShapeApart, ShapeCells DEF Cell
<1>5. /\ o \in HeapType
      /\ o.size = h.size /\ o.p_brk_ = h.p_brk_ /\ o.head_ = b
      /\ \A x \in Addr : x \notin F /\ (\A y \in F : x # footer_of(h, y))
            => o.info[x] = h.info[x]
  <2> DEFINE p == h.info[footer_of(h, c)]
             m == h.info[c]
  <2>1. /\ o \in HeapType
        /\ o.size = h.size /\ o.p_brk_ = h.p_brk_
        /\ o.head_ = IF p = NULL THEN m ELSE h.head_
        /\ \A x \in Addr : o.info[x] =
             IF m # NULL /\ x = footer_of(h, m) THEN p
             ELSE IF p # NULL /\ x = p THEN m ELSE h.info[x]
    <3>1. Removed(h, o, c) BY <1>1, <1>3, RemoveEffect
    <3> QED BY <3>1 DEF Removed
  <2>2. p # NULL BY <1>1, <1>3 DEF Linked
  <2>3. (m # NULL => m \in F) /\ p \in F BY <1>1, <2>2 DEF Linked
  <2> HIDE DEF p, m, o
  <2> QED BY <2>1, <2>2, <2>3
<1>6. Linked(o, F \ {c})
  BY <1>1, RemoveLinks
<1> HIDE DEF o, t
<1>7. \A x \in bs : footer_of(o, x) = footer_of(h, x)
  BY <1>5 DEF footer_of
<1>8. /\ o.info[fb] = NULL
      /\ n # NULL => n \in F /\ n # c /\ n # b /\ o.info[footer_of(h, n)] = b
      /\ n \in Int
  <2>1. o.info[fb] = NULL BY <1>2, <1>3, <1>5, <1>6, <1>7 DEF Linked
  <2>2. n # NULL => n \in F \ {c} /\ o.info[footer_of(o, n)] = b
    BY <1>3, <1>6 DEF Linked
  <2>3. n # NULL => n # b BY <2>1, <2>2, <1>2, <1>3, <1>7
  <2>4. o.info \in [Addr -> Int] BY <1>5 DEF HeapType
  <2> QED BY <2>1, <2>2, <2>3, <2>4, <1>1, <1>3, <1>7
<1>9. /\ g \in HeapType
      /\ g.info = o.info /\ g.head_ = b /\ g.p_brk_ = h.p_brk_
      /\ \A x \in Addr : g.size[x] = IF x = c \/ x = fb THEN t ELSE h.size[x]
  BY <1>3, <1>5, SetSize
<1> HIDE DEF g
<1>10. /\ k \in HeapType
       /\ k.size = g.size /\ k.head_ = b /\ k.p_brk_ = h.p_brk_
       /\ \A x \in Addr : k.info[x] = IF x = fb THEN NULL ELSE o.info[x]
  <2>1. NULL \in Int BY DEF NULL
  <2> QED BY <2>1, <1>9, SetInfo
<1> HIDE DEF k
<1>11. k.info[b] = n /\ footer_of(g, c) = fb
  <2>1. b # fb BY <1>2, <1>4
  <2> QED BY <2>1, <1>3, <1>9, <1>10 DEF footer_of
<1> HIDE DEF n
<1>12. /\ j \in HeapType
       /\ j.size = g.size /\ j.head_ = b /\ j.p_brk_ = h.p_brk_
       /\ \A x \in Addr : j.info[x] =
            IF x = c THEN n ELSE IF x = fb THEN NULL ELSE o.info[x]
  BY <1>8, <1>10, SetInfo
<1> HIDE DEF j
<1>13. jj \in HeapType /\ jj.info = j.info /\ jj.size = g.size /\ jj.head_ = c
       /\ jj.p_brk_ = h.p_brk_
  <2>1. jj.info = j.info /\ jj.size = g.size /\ jj.head_ = c /\ jj.p_brk_ = h.p_brk_
    BY <1>12 DEF HeapType
  <2>2. jj \in HeapType BY <1>3, <1>12 DEF HeapType
  <2> QED BY <2>1, <2>2
<1> HIDE DEF jj
<1>14. /\ r \in HeapType
       /\ r.size = g.size /\ r.head_ = c /\ r.p_brk_ = h.p_brk_
       /\ \A x \in Addr : r.info[x] =
            IF n # NULL /\ x = footer_of(h, n) THEN c
            ELSE IF x = c THEN n ELSE IF x = fb THEN NULL ELSE o.info[x]
  <2>1. CASE n = NULL BY <2>1, <1>12, <1>13
  <2>2. CASE n # NULL
    <3> DEFINE q == set_info(jj, footer_of(h, n), c)
    <3>1. /\ q \in HeapType
          /\ q.size = jj.size /\ q.head_ = jj.head_ /\ q.p_brk_ = jj.p_brk_
          /\ \A x \in Addr : q.info[x] = IF x = footer_of(h, n) THEN c ELSE jj.info[x]
      BY <1>3, <1>13, SetInfo
    <3>2. r = q BY <2>2
    <3> HIDE DEF q, r
    <3> QED BY <3>1, <3>2, <2>2, <1>12, <1>13
  <2> QED BY <2>1, <2>2
<1>15. r = merge_prev(h, b - 1)
  <2> DEFINE oo == remove_from_list(h, header_of(h, b - 1))
             gg == set_size(oo, c, oo.size[c] + oo.size[oo.head_] + 2)
             kk == set_info(gg, footer_of(gg, c), NULL)
             nn == kk.info[oo.head_]
             ll == [set_info(kk, c, nn) EXCEPT !.head_ = c]
  <2>1. merge_prev(h, b - 1) =
          IF nn = NULL THEN ll ELSE set_info(ll, footer_of(ll, nn), c)
    BY DEF merge_prev
  <2>2. oo = o BY DEF o
  <2>3. gg = g BY <1>5, <2>2 DEF g, t
  <2>4. kk = k BY <1>11, <2>3 DEF k
  <2>5. nn = n BY <1>5, <1>11, <2>2, <2>4
  <2>6. ll = jj BY <2>4, <2>5 DEF jj, j
  <2>7. n # NULL => footer_of(jj, n) = footer_of(h, n)
    <3> SUFFICES ASSUME n # NULL PROVE footer_of(jj, n) = footer_of(h, n) OBVIOUS
    <3>1. n \in bs /\ n # c /\ n # fb /\ n \in Addr BY <1>1, <1>2, <1>4, <1>8
    <3>2. jj.size[n] = h.size[n] BY <3>1, <1>9, <1>13
    <3> QED BY <3>2 DEF footer_of
  <2> HIDE DEF oo, gg, kk, nn, ll
  <2> QED BY <2>1, <2>5, <2>6, <2>7
<1> HIDE DEF r
<1>16. /\ Tiled(r, start, bs \ {b})
       /\ footer_of(r, c) = fb
       /\ \A x \in bs \ {b, c} : footer_of(r, x) = footer_of(h, x)
  <2>1. \A x \in Addr : r.size[x] =
            IF x \in {c, footer_of(h, b)} THEN h.size[c] + h.size[b] + 2
            ELSE h.size[x]
    BY <1>9, <1>14 DEF t
  <2>2. /\ h \in HeapType /\ r \in HeapType /\ start \in Int /\ bs \in SUBSET Addr
        /\ Tiled(h, start, bs) /\ c \in bs /\ b \in bs /\ after(h, c) = b
        /\ r.p_brk_ = h.p_brk_
    BY <1>1, <1>2, <1>14
  <2>3. Joined(h, r, start, bs, c, b) BY <2>1, <2>2, TiledJoin
  <2> QED BY <2>3 DEF Joined
<1>17. r.info[c] = n /\ r.info[footer_of(r, c)] = NULL
       /\ (n # NULL => r.info[footer_of(r, n)] = c)
  <2>1. n # NULL => c # footer_of(h, n) /\ fb # footer_of(h, n) /\ footer_of(h, n) \in Addr
                    /\ footer_of(r, n) = footer_of(h, n)
    BY <1>1, <1>2, <1>4, <1>8, <1>16
  <2>2. fb # c BY <1>2, <1>4
  <2> QED BY <2>1, <2>2, <1>3, <1>14, <1>16
<1>18. ASSUME NEW x \in F \ {b, c}
       PROVE  /\ r.info[x] = o.info[x]
              /\ footer_of(r, x) = footer_of(h, x)
              /\ r.info[footer_of(r, x)] = IF n # NULL /\ x = n THEN c
                                          ELSE o.info[footer_of(o, x)]
  <2>1. x \in bs /\ x \in Addr /\ footer_of(h, x) \in Addr /\ x # fb
        /\ footer_of(h, x) # fb /\ footer_of(h, x) # c
        /\ (n # NULL => x # footer_of(h, n))
        /\ (n # NULL => (footer_of(h, x) = footer_of(h, n) <=> x = n))
    BY <1>1, <1>2, <1>4, <1>8
  <2>2. footer_of(r, x) = footer_of(h, x) BY <2>1, <1>16
  <2> QED BY <2>1, <2>2, <1>7, <1>14
<1>19. ASSUME NEW x \in F \ {b, c}
       PROVE  r.info[x] # NULL => /\ r.info[x] \in F \ {b}
                                  /\ r.info[footer_of(r, r.info[x])] = x
  <2> SUFFICES ASSUME r.info[x] # NULL
               PROVE r.info[x] \in F \ {b} /\ r.info[footer_of(r, r.info[x])] = x
    OBVIOUS
  <2> DEFINE y == o.info[x]
  <2>1. r.info[x] = y /\ y \in F \ {c} /\ o.info[footer_of(o, y)] = x
    BY <1>6, <1>18 DEF Linked
  <2>2. x # NULL /\ x # b BY <1>1, <1>4
  <2>3. y # b BY <2>1, <2>2, <1>2, <1>7, <1>8
  <2>4. ~(n # NULL /\ y = n) BY <2>1, <2>2, <1>1, <1>7, <1>8
  <2> HIDE DEF y
  <2> QED BY <2>1, <2>3, <2>4, <1>18
<1>20. ASSUME NEW x \in F \ {b, c}
       PROVE  LET prev == r.info[footer_of(r, x)]
              IN  /\ prev # NULL => prev \in F \ {b} /\ r.info[prev] = x
                  /\ prev = NULL => r.head_ = x
  <2>1. CASE n # NULL /\ x = n
    BY <2>1, <1>3, <1>17, <1>18
  <2>2. CASE ~(n # NULL /\ x = n)
    <3> DEFINE y == o.info[footer_of(o, x)]
    <3>1. r.info[footer_of(r, x)] = y BY <2>2, <1>18
    <3>2. /\ y # NULL => y \in F \ {c} /\ o.info[y] = x
          /\ y = NULL => o.head_ = x
      BY <1>6 DEF Linked
    <3> HIDE DEF y
    <3>3. y # NULL BY <3>2, <1>5
    <3>4. y # b BY <3>2, <3>3, <2>2, <1>1, <1>4 DEF n
    <3> QED BY <3>1, <3>2, <3>3, <3>4, <1>18
  <2> QED BY <2>1, <2>2
<1>28. Reached(r, F \ {b})
  <2> SUFFICES ASSUME NEW P \in SUBSET (F \ {b}),
                      r.head_ # NULL => r.head_ \in P,
                      \A x \in P : r.info[x] # NULL => r.info[x] \in P
               PROVE  P = F \ {b}
    BY DEF Reached
  <2> DEFINE Q == (P \ {c}) \cup {b}
  <2>1. c \in P BY <1>3, <1>14
  <2>2. Q \in SUBSET (F \ {c}) /\ o.head_ \in Q BY <1>3, <1>5
  <2>3. ASSUME NEW x \in Q, o.info[x] # NULL
        PROVE  o.info[x] \in Q
    <3>1. CASE x = b
      <4>1. o.info[x] = n /\ n # NULL BY <3>1, <2>3 DEF n
      <4>2. n \in P /\ n # c BY <4>1, <2>1, <1>8, <1>17
      <4> QED BY <4>1, <4>2
    <3>2. CASE x # b
      <4>1. x \in P /\ x \in F \ {b, c} BY <3>2, <2>3
      <4>2. r.info[x] = o.info[x] BY <4>1, <1>18
      <4>3. o.info[x] \in P BY <4>1, <4>2, <2>3
      <4>4. o.info[x] # c BY <4>1, <2>3, <1>6 DEF Linked
      <4> QED BY <4>3, <4>4
    <3> QED BY <3>1, <3>2
  <2> HIDE DEF Q
  <2>4. Q = F \ {c} BY <2>2, <2>3, <1>6 DEF Linked, Reached
  <2> QED BY <2>1, <2>4, <1>3 DEF Q
<1>21. Linked(r, F \ {b})
  <2>1. r.head_ \in F \ {b} /\ r.info[footer_of(r, r.head_)] = NULL
    BY <1>3, <1>14, <1>17
  <2>2. ASSUME NEW x \in F \ {b}
        PROVE  LET next == r.info[x]
                   prev == r.info[footer_of(r, x)]
               IN  /\ next # NULL => next \in F \ {b} /\ r.info[footer_of(r, next)] = x
                   /\ prev # NULL => prev \in F \ {b} /\ r.info[prev] = x
                   /\ prev = NULL => r.head_ = x
    <3>1. CASE x = c BY <3>1, <1>8, <1>14, <1>17
    <3>2. CASE x # c BY <3>2, <1>19, <1>20
    <3> QED BY <3>1, <3>2
  <2> QED BY <2>1, <2>2, <1>28 DEF Linked
<1>22. ASSUME NEW x \in Addr, x \notin F, \A y \in F : x # footer_of(h, y)
       PROVE  r.info[x] = h.info[x]
  BY <1>22, <1>5, <1>8, <1>14
<1>23. ASSUME NEW x \in bs \ F
       PROVE  r.info[x] = USED_NORMAL /\ r.info[footer_of(r, x)] = USED_NORMAL
  <2>2. footer_of(r, x) = footer_of(h, x) BY <1>16
  <2>3. /\ x \in Addr /\ \A y \in F : x # footer_of(h, y)
        /\ footer_of(h, x) \in Addr /\ footer_of(h, x) \notin F
        /\ \A y \in F : footer_of(h, x) # footer_of(h, y)
    BY <1>1, <1>4
  <2> QED BY <2>2, <2>3, <1>1, <1>22
<1>24. r.info[start] = USED_NORMAL /\ r.info[r.p_brk_ - 1] = USED_NORMAL
  <2>1. /\ start \in Addr /\ start \notin F /\ \A y \in F : start # footer_of(h, y)
    BY <1>1, ShapeCells, ShapeApart DEF Cell
  <2>2. /\ h.p_brk_ - 1 \in Addr /\ h.p_brk_ - 1 \notin F
        /\ \A y \in F : h.p_brk_ - 1 # footer_of(h, y)
    BY <1>1, ShapeCells, ShapeApart DEF Cell
  <2> QED BY <2>1, <2>2, <1>1, <1>14, <1>22
<1>25. Shape(r, start, bs \ {b}, F \ {b})
  <2>1. bs \ {b} \in SUBSET Addr /\ F \ {b} \in SUBSET (bs \ {b}) BY <1>1
  <2>2. (bs \ {b}) \ (F \ {b}) = bs \ F OBVIOUS
  <2> QED BY <2>1, <2>2, <1>1, <1>14, <1>16, <1>21, <1>23, <1>24 DEF Shape
<1>26. Above(h, r, h.p_brk_)
  <2>1. ASSUME NEW x \in Addr, x >= h.p_brk_
        PROVE  r.info[x] = h.info[x] /\ r.size[x] = h.size[x]
    <3>1. x \in Int /\ h.p_brk_ \in Int BY ShapeApart, HeapConstants DEF Addr
    <3>2. ASSUME NEW y \in bs PROVE x # y /\ x # footer_of(h, y)
      <4>1. Cell(h, start, y) BY ShapeCells
      <4> QED BY <4>1, <3>1, <2>1 DEF Cell
    <3> QED BY <3>2, <1>1, <1>2, <1>9, <1>14, <1>22
  <2> QED BY <2>1 DEF Above
<1>27. Spared(h, r, bs, F)
  <2>1. ASSUME NEW u \in bs \ F, NEW x \in Addr, u <= x, x <= footer_of(h, u)
        PROVE  r.info[x] = h.info[x] /\ r.size[x] = h.size[x]
    <3>1. \A y \in bs \ {u} : x # y /\ x # footer_of(h, y)
      BY <1>1, <2>1, InsideApart
    <3> QED BY <3>1, <1>1, <1>2, <1>9, <1>14, <1>22
  <2> QED BY <2>1 DEF Spared
<1> QED BY <1>14, <1>15, <1>16, <1>25, <1>26, <1>27 DEF PrevMerged

\* The tag below a header tells whether the block before it is free.
LEMMA PrevTag ==
  ASSUME NEW h, NEW start, NEW bs, NEW F, Shape(h, start, bs, F), NEW b \in bs
  PROVE  LET c == header_of(h, b - 1)
         IN  /\ h.info[b - 1] # USED_NORMAL <=> b # start + 1 /\ c \in F
             /\ b # start + 1 => c \in bs /\ c # b /\ after(h, c) = b
                                /\ footer_of(h, c) = b - 1
<1> DEFINE c == header_of(h, b - 1)
<1>1. b \in Int /\ start \in Int BY ShapeCells, ShapeApart DEF Cell
<1>2. CASE b = start + 1
  <2>1. b - 1 = start BY <1>1, <1>2
  <2>2. h.info[b - 1] = USED_NORMAL BY <2>1 DEF Shape
  <2> QED BY <1>2, <2>2
<1>3. CASE b # start + 1
  <2>1. c \in bs /\ after(h, c) = b BY <1>3 DEF Shape, Tiled
  <2> HIDE DEF c
  <2>2. /\ footer_of(h, c) \in Int /\ c \in Int /\ h.size[c] \in Nat
        /\ after(h, c) = c + 2 + h.size[c]
    BY <2>1, ShapeCells DEF Cell
  <2>3. footer_of(h, c) = b - 1 /\ c # b
    BY <2>1, <2>2, <1>1 DEF after
  <2>4. c \in F => h.info[footer_of(h, c)] # USED_NORMAL BY LinksNotMagic
  <2>5. c \notin F => h.info[footer_of(h, c)] = USED_NORMAL BY <2>1 DEF Shape
  <2> QED BY <1>3, <2>1, <2>3, <2>4, <2>5 DEF c
<1> QED BY <1>2, <1>3

\* The tag above a footer tells whether the block after it is free.
LEMMA NextTag ==
  ASSUME NEW h, NEW start, NEW bs, NEW F, Shape(h, start, bs, F), NEW b \in bs
  PROVE  /\ h.info[after(h, b)] # USED_NORMAL <=> after(h, b) \in F
         /\ after(h, b) # b
<1> DEFINE d == after(h, b)
<1>1. d \in bs \cup {h.p_brk_ - 1} BY DEF Shape, Tiled
<1>2. h.p_brk_ - 1 \notin bs BY ShapeCells DEF Cell
<1>3. d # b BY ShapeCells DEF Cell
<1> HIDE DEF d
<1>4. d \in F => h.info[d] # USED_NORMAL BY LinksNotMagic
<1>5. d \notin F => h.info[d] = USED_NORMAL BY <1>1 DEF Shape
<1> QED BY <1>3, <1>4, <1>5 DEF d

\* What free() takes off the set of blocks.
Merged(h, b) == (IF prev_is_free(h, b) THEN {b} ELSE {}) \cup
                (IF next_is_free(h, b) THEN {footer_of(h, b) + 1} ELSE {})

\* Block b of h is free in r, joined to its free neighbours.
Released(h, r, start, bs, F, b) ==
  /\ Shape(r, start, bs \ Merged(h, b), (F \cup {b}) \ Merged(h, b))
  /\ r.p_brk_ = h.p_brk_
  /\ Above(h, r, h.p_brk_)
  /\ Spared(h, r, bs, F \cup {b})

\* free() keeps the shape of the heap, whichever of its neighbours are free.
LEMMA ReleaseShape ==
  ASSUME NEW h, NEW start, NEW bs, NEW F, Shape(h, start, bs, F), NEW b \in bs \ F
  PROVE  Released(h, release(h, b), start, bs, F, b)
<1> DEFINE c == header_of(h, b - 1)
           d == after(h, b)
           i == insert_into_list(h, NULL, b)
           k == IF prev_is_free(h, b) THEN merge_prev(i, b - 1) ELSE i
           bk == bs \ (IF prev_is_free(h, b) THEN {b} ELSE {})
           fk == (F \cup {b}) \ (IF prev_is_free(h, b) THEN {b} ELSE {})
<1>1. /\ Shape(i, start, bs, F \cup {b})
      /\ i.head_ = b /\ i.size = h.size /\ i.p_brk_ = h.p_brk_
      /\ Above(h, i, h.p_brk_) /\ Spared(h, i, bs, F \cup {b})
  <2>1. Freed(h, i, start, bs, F, b) BY InsertShape
  <2> QED BY <2>1 DEF Freed
<1>0. h \in HeapType /\ start \in Int /\ bs \in SUBSET Addr /\ Tiled(h, start, bs)
  BY DEF Shape
<1> HIDE DEF i
<1>2. /\ footer_of(i, b) = footer_of(h, b) /\ after(i, b) = d
      /\ header_of(i, b - 1) = c /\ after(i, c) = after(h, c)
  BY <1>1 DEF footer_of, after, header_of
<1>3. /\ prev_is_free(h, b) <=> b # start + 1 /\ c \in F
      /\ b # start + 1 => c \in bs /\ c # b /\ after(h, c) = b
  BY PrevTag DEF prev_is_free
<1>4. i.info[b - 1] # USED_NORMAL <=> prev_is_free(h, b)
  <2>1. i.info[b - 1] # USED_NORMAL <=> b # start + 1 /\ header_of(i, b - 1) \in F \cup {b}
    BY <1>1, PrevTag
  <2> QED BY <2>1, <1>2, <1>3
<1>5. next_is_free(h, b) <=> d \in F
  <2>1. h.info[d] # USED_NORMAL <=> d \in F BY NextTag
  <2> QED BY <2>1 DEF next_is_free, after
<1>6. d # b BY NextTag
<1> HIDE DEF c
<1>7. /\ Shape(k, start, bk, fk)
      /\ k.head_ \in fk /\ after(k, k.head_) = d /\ k.p_brk_ = h.p_brk_
      /\ Above(h, k, h.p_brk_) /\ Spared(h, k, bs, F \cup {b})
  <2>1. CASE prev_is_free(h, b)
    <3> DEFINE m == merge_prev(i, b - 1)
    <3>1. b \in F \cup {b} /\ c \in F \cup {b} /\ after(i, c) = b BY <1>2, <1>3, <2>1
    <3>0. PrevMerged(i, m, start, bs, F \cup {b}, b, c)
      BY <1>1, <1>2, <3>1, MergePrevShape
    <3>2. /\ Shape(m, start, bs \ {b}, (F \cup {b}) \ {b})
          /\ m.head_ = c /\ footer_of(m, c) = footer_of(i, b) /\ m.p_brk_ = i.p_brk_
          /\ Above(i, m, i.p_brk_) /\ Spared(i, m, bs, F \cup {b})
      BY <3>0 DEF PrevMerged
    <3>3. k = m /\ bk = bs \ {b} /\ fk = (F \cup {b}) \ {b} BY <2>1
    <3> HIDE DEF k, m, bk, fk
    <3>4. c \in fk BY <3>3, <1>3, <2>1
    <3>5. after(m, c) = d BY <3>2, <1>2 DEF after
    <3>6. Above(h, m, h.p_brk_) BY <1>1, <3>2, AboveTrans
    <3>7. Spared(h, m, bs, F \cup {b}) BY <1>0, <1>1, <3>2, SparedTrans
    <3> QED BY <3>2, <3>3, <3>4, <3>5, <3>6, <3>7, <1>1
  <2>2. CASE ~prev_is_free(h, b)
    <3>1. k = i /\ bk = bs /\ fk = F \cup {b} BY <2>2
    <3> HIDE DEF k, bk, fk
    <3> QED BY <3>1, <1>1, <1>2
  <2> QED BY <2>1, <2>2
<1>8. d \in fk <=> d \in F BY <1>6
<1>9. bs \ Merged(h, b) = bk \ (IF d \in F THEN {d} ELSE {})
      /\ (F \cup {b}) \ Merged(h, b) = fk \ (IF d \in F THEN {d} ELSE {})
  BY <1>5 DEF Merged, after
<1>10. release(h, b) = IF k.info[d] # USED_NORMAL THEN merge_next(k, d) ELSE k
  BY <1>4 DEF release, after, i
<1> HIDE DEF k, bk, fk, d
<1>11. k.info[d] # USED_NORMAL <=> d \in fk
  <2>1. k.head_ \in bk BY <1>7 DEF Shape
  <2> QED BY <2>1, <1>7, NextTag
<1>12. CASE d \in F
  <2>0. NextMerged(k, merge_next(k, d), start, bk, fk, d)
    BY <1>7, <1>8, <1>12, MergeNextShape
  <2>1. /\ Shape(merge_next(k, d), start, bk \ {d}, fk \ {d})
        /\ merge_next(k, d).p_brk_ = k.p_brk_ /\ Above(k, merge_next(k, d), k.p_brk_)
        /\ Spared(k, merge_next(k, d), bk, fk)
    BY <2>0 DEF NextMerged
  <2>2. Above(h, merge_next(k, d), h.p_brk_) BY <2>1, <1>7, AboveTrans
  <2>3. bs \ (F \cup {b}) \subseteq bk \ fk BY DEF bk, fk
  <2>4. Spared(h, merge_next(k, d), bs, F \cup {b})
    BY <2>1, <2>3, <1>0, <1>7, SparedTrans
  <2>5. release(h, b) = merge_next(k, d) BY <1>8, <1>10, <1>11, <1>12
  <2>6. bs \ Merged(h, b) = bk \ {d} /\ (F \cup {b}) \ Merged(h, b) = fk \ {d}
    BY <1>9, <1>12
  <2>7. merge_next(k, d).p_brk_ = h.p_brk_ BY <2>1, <1>7
  <2> QED BY <2>1, <2>2, <2>4, <2>5, <2>6, <2>7 DEF Released
<1>13. CASE d \notin F
  <2>1. release(h, b) = k BY <1>8, <1>10, <1>11, <1>13
  <2>2. bs \ Merged(h, b) = bk /\ (F \cup {b}) \ Merged(h, b) = fk BY <1>9, <1>13
  <2> QED BY <2>1, <2>2, <1>7 DEF Released
<1> QED BY <1>12, <1>13

-----------------------------------------------------------------------------
(* The first heap                                                          *)

\* The heap r is one free block between the two dummies.
Initialised(r, s, z) ==
  /\ Shape(r, s, {s + 1}, {s + 1})
  /\ r.p_brk_ = s + z

\* init() builds a heap in shape: one free block between the dummies.
LEMMA InitShape ==
  ASSUME NEW h \in HeapType, NEW s \in Nat \ {0}, NEW z \in Nat, z >= 4,
         s + z <= BrkLimit
  PROVE  Initialised(init(h, s, z), s, z)
<1> DEFINE f == s + 1
           e == s + z - 1
           a1 == set_info(h, s, USED_NORMAL)
           a2 == set_info(a1, e, USED_NORMAL)
           a3 == set_info(a2, f, NULL)
           a4 == set_info(a3, e - 1, NULL)
           a5 == set_size(a4, f, z - 4)
           r == [a5 EXCEPT !.head_ = f, !.p_brk_ = s + z]
<1>1. USED_NORMAL \in Int /\ NULL \in Int /\ NULL = 0 /\ USED_NORMAL = -1
  BY DEF USED_NORMAL, NULL
<1>2. /\ f \in Int /\ e \in Int /\ z - 4 \in Int /\ f + 1 + (z - 4) = e - 1
      /\ s \in Addr /\ f \in Addr /\ e \in Addr /\ e - 1 \in Addr
      /\ s < f /\ f < e - 1 /\ e = s + z - 1
  BY HeapConstants DEF Addr
<1>3. a1 \in HeapType /\ \A x \in Addr : a1.info[x] = IF x = s THEN USED_NORMAL ELSE h.info[x]
  BY <1>1, SetInfo
<1> HIDE DEF a1
<1>4. a2 \in HeapType /\ \A x \in Addr : a2.info[x] = IF x = e THEN USED_NORMAL ELSE a1.info[x]
  BY <1>1, <1>3, SetInfo
<1> HIDE DEF a2
<1>5. a3 \in HeapType /\ \A x \in Addr : a3.info[x] = IF x = f THEN NULL ELSE a2.info[x]
  BY <1>1, <1>4, SetInfo
<1> HIDE DEF a3
<1>6. a4 \in HeapType /\ \A x \in Addr : a4.info[x] = IF x = e - 1 THEN NULL ELSE a3.info[x]
  BY <1>1, <1>5, SetInfo
<1> HIDE DEF a4
<1>7. /\ a5 \in HeapType /\ a5.info = a4.info
      /\ \A x \in Addr : a5.size[x] = IF x = f \/ x = f + 1 + (z - 4) THEN z - 4 ELSE a4.size[x]
  BY <1>2, <1>6, SetSize
<1> HIDE DEF a5
<1>8. r.info = a4.info /\ r.size = a5.size /\ r.head_ = f /\ r.p_brk_ = s + z
  BY <1>7 DEF HeapType
<1>9. r \in HeapType
  <2>1. s + z \in 0 .. BrkLimit BY HeapConstants
  <2> QED BY <2>1, <1>2, <1>7 DEF HeapType
<1>10. r = init(h, s, z)
  BY DEF init, a5, a4, a3, a2, a1
<1> HIDE DEF r, f, e
<1>11. /\ r.info[s] = USED_NORMAL /\ r.info[e] = USED_NORMAL
       /\ r.info[f] = NULL /\ r.info[e - 1] = NULL
       /\ r.size[f] = z - 4 /\ r.size[e - 1] = z - 4
  BY <1>2, <1>3, <1>4, <1>5, <1>6, <1>7, <1>8
<1>12. /\ footer_of(r, f) = e - 1 /\ after(r, f) = e /\ r.p_brk_ - 1 = e
       /\ header_of(r, e - 1) = f
  BY <1>2, <1>8, <1>11 DEF footer_of, after, header_of
<1>13. Tiled(r, s, {f})
  <2>1. s >= 1 /\ r.p_brk_ > s + 1 /\ s + 1 \in {f} BY <1>8 DEF f
  <2>2. \A b \in {f} : /\ b > s /\ r.size[b] >= 0 /\ after(r, b) < r.p_brk_
                       /\ r.size[footer_of(r, b)] = r.size[b]
                       /\ after(r, b) \in {f} \cup {r.p_brk_ - 1}
    BY <1>2, <1>8, <1>11, <1>12
  <2>3. \A b \in {f} \cup {r.p_brk_ - 1} : b # s + 1 =>
           header_of(r, b - 1) \in {f} /\ after(r, header_of(r, b - 1)) = b
    BY <1>12 DEF f
  <2>4. \A b, c \in {f} : b < c => footer_of(r, b) < c BY <1>2
  <2> QED BY <2>1, <2>2, <2>3, <2>4 DEF Tiled
<1>14. Linked(r, {f})
  <2>1. f # NULL BY <1>2 DEF NULL
  <2>2. Reached(r, {f}) BY <2>1, <1>8 DEF Reached
  <2> QED BY <2>2, <1>8, <1>11, <1>12 DEF Linked
<1>15. Shape(r, s, {f}, {f})
  BY <1>2, <1>9, <1>11, <1>12, <1>13, <1>14 DEF Shape
<1> QED BY <1>8, <1>10, <1>15 DEF f, Initialised

-----------------------------------------------------------------------------
(* Arithmetic of sizes                                                     *)

\* Integer division rounds down by less than the divisor.
LEMMA DivBounds ==
  ASSUME NEW a \in Nat, NEW d \in Nat \ {0}
  PROVE  /\ a \div d \in Nat
         /\ (a \div d) * d \in Nat
         /\ (a \div d) * d <= a /\ a < (a \div d) * d + d
OBVIOUS

\* Rounding up to a page gives a natural number that is not smaller.
LEMMA RoundUp ==
  ASSUME NEW n \in Nat
  PROVE  /\ round_to_page(n) \in Nat /\ round_to_page(n) >= n
<1> DEFINE a == n + PAGE - 1
           m == (a \div PAGE) * PAGE
<1>1. PAGE \in Nat \ {0} /\ a \in Nat /\ round_to_page(n) = m
  BY HeapConstants DEF round_to_page
<1> HIDE DEF a
<1>2. m \in Nat /\ a < m + PAGE BY <1>1, DivBounds
<1> HIDE DEF m
<1> QED BY <1>1, <1>2 DEF a

-----------------------------------------------------------------------------
(* The invariant                                                           *)

\* The invariant and the shape of the heap say the same of a heap that is up.
LEMMA Unpack ==
  ASSUME HeapInv, phase = "ready"
  PROVE  Shape(heap, heap_start_, blocks, FreeBlocks)
<1>1. heap \in HeapType /\ heap_start_ \in Int /\ blocks \in SUBSET Addr
  BY HeapConstants DEF HeapInv, TypeOK, HeapType
<1>2. /\ Tiled(heap, heap_start_, blocks) /\ Tagged(heap, heap_start_, blocks)
      /\ Linked(heap, FreeBlocks)
  BY DEF HeapInv, HeapIntact
<1>3. FreeBlocks \in SUBSET blocks
      /\ \A b \in blocks \ FreeBlocks : heap.info[b] = USED_NORMAL
  BY DEF FreeBlocks, is_used
<1>4. \A b \in blocks \ FreeBlocks : heap.info[footer_of(heap, b)] = USED_NORMAL
  BY <1>2, <1>3 DEF Tagged, is_used
<1> QED BY <1>1, <1>2, <1>3, <1>4 DEF Shape, Tagged

\* A heap in shape is intact, with the free blocks the shape names.
LEMMA Pack ==
  ASSUME NEW F, Shape(heap', heap_start_', blocks', F)
  PROVE  HeapIntact' /\ FreeBlocks' = F
<1>1. F = {b \in blocks' : ~is_used(heap', b)} /\ Tagged(heap', heap_start_', blocks')
  BY ShapeTags
<1>2. FreeBlocks' = F BY <1>1 DEF FreeBlocks
<1> QED BY <1>1, <1>2 DEF HeapIntact, Shape

\* The program holds the used blocks and the maps.
Held(bs, F, ms) == {b + 1 : b \in bs \ F} \cup {m.base + 1 : m \in ms}

\* The maps stay headed when memory above the heap is left alone.
LEMMA MapsFrame ==
  ASSUME HeapInv, maps' = maps, NEW a, a <= BrkLimit, a \in Int,
         Above(heap, heap', a)
  PROVE  MapsHeaded' /\ MapsApart'
<1>1. MapsApart' BY DEF HeapInv, MapsApart
<1>2. ASSUME NEW m \in maps
      PROVE  heap'.info[m.base] = USED_MMAP /\ heap'.size[m.base] = m.len
  <2>1. heap.info[m.base] = USED_MMAP /\ heap.size[m.base] = m.len
    BY DEF HeapInv, MapsHeaded
  <2>2. m.len > 0 /\ m.base .. m.base + m.len - 1 \subseteq BrkLimit .. MemTop - 1
        /\ m \in [base: Addr, len: Nat]
    BY DEF HeapInv, MapsApart, TypeOK, Region
  <2>3. m.base \in Addr /\ m.base \in Int /\ m.len \in Nat BY <2>2 DEF Addr
  <2>4. m.base \in m.base .. m.base + m.len - 1 BY <2>2, <2>3
  <2>5. m.base >= a BY <2>2, <2>4, <2>3, HeapConstants
  <2> QED BY <2>1, <2>3, <2>5 DEF Above
<1> QED BY <1>1, <1>2 DEF MapsHeaded

\* The invariant holds before __heap_init.
LEMMA InitInv == Init => HeapInv
<1> SUFFICES ASSUME Init PROVE HeapInv OBVIOUS
<1> USE DEF Init
<1>1. TypeOK
  <2>1. [a \in Addr |-> 0] \in [Addr -> Int] OBVIOUS
  <2>2. NULL \in 0 .. BrkLimit /\ NULL \in Int BY HeapConstants DEF NULL
  <2>3. DOMAIN live = {} OBVIOUS
  <2>4. call \in [pc: {"idle", "scan"}, n: Nat, asked: Nat, current: Int]
    BY <2>2 DEF idle
  <2> QED BY <2>1, <2>2, <2>3, <2>4 DEF TypeOK
<1>2. HeapIntact BY DEF HeapIntact
<1>3. Accounted BY DEF Accounted, FreeBlocks
<1>4. MapsHeaded /\ MapsApart BY DEF MapsHeaded, MapsApart
<1>5. CursorOnFreeList BY DEF CursorOnFreeList, idle
<1>6. NothingYet BY DEF NothingYet
<1> QED BY <1>1, <1>2, <1>3, <1>4, <1>5, <1>6 DEF HeapInv

\* __heap_init establishes the heap part of the invariant.
LEMMA BootInv ==
  ASSUME HeapInv, NEW break \in InitialBreaks, heap_init(break)
  PROVE  HeapInv'
<1> DEFINE s == (break + ALIGN - 1) \div ALIGN
           top == initial_top(s)
           z == top - s
<1>1. s \in Nat \ {0}
  <2> DEFINE a == break + ALIGN - 1
  <2>1. break \in Nat \ {0} /\ ALIGN \in Nat \ {0} BY HeapConstants
  <2>2. a \in Nat /\ a >= ALIGN BY <2>1
  <2> HIDE DEF a
  <2>3. a \div ALIGN \in Nat /\ a < (a \div ALIGN) * ALIGN + ALIGN BY <2>1, <2>2, DivBounds
  <2>4. a \div ALIGN # 0
    <3> SUFFICES ASSUME a \div ALIGN = 0 PROVE FALSE OBVIOUS
    <3>1. (a \div ALIGN) * ALIGN = 0 BY <2>1
    <3> QED BY <2>1, <2>2, <2>3, <3>1
  <2> QED BY <2>3, <2>4 DEF a
<1> HIDE DEF s
<1>2. top \in Nat /\ top >= s + INITIAL
  <2>1. s + INITIAL \in Nat BY <1>1, HeapConstants
  <2>2. top = round_to_page(s + INITIAL) BY DEF initial_top, round_to_page
  <2> QED BY <2>1, <2>2, RoundUp
<1>3. /\ top <= BrkLimit /\ heap' = init(heap, s, z) /\ heap_start_' = s
      /\ blocks' = {s + 1} /\ phase' = "ready" /\ phase = "boot"
      /\ maps' = maps /\ call' = call /\ live' = live
  BY DEF heap_init, s
<1> HIDE DEF top
<1>4. z \in Nat /\ z >= 4 /\ s + z <= BrkLimit /\ heap \in HeapType
  <2>1. heap \in HeapType BY DEF HeapInv, TypeOK, HeapType
  <2> QED BY <2>1, <1>1, <1>2, <1>3, HeapConstants
<1>5. Shape(heap', s, {s + 1}, {s + 1})
  <2>1. Initialised(heap', s, z) BY <1>1, <1>3, <1>4, InitShape
  <2> QED BY <2>1 DEF Initialised
<1> HIDE DEF z
<1>6. HeapIntact' /\ FreeBlocks' = {s + 1} BY <1>3, <1>5, Pack
<1>7. blocks = {} /\ maps = {} /\ live = [p \in {} |-> 0] /\ call = idle
  BY <1>3 DEF HeapInv, NothingYet
<1>8. TypeOK'
  <2>1. heap' \in HeapType /\ {s + 1} \subseteq Addr BY <1>5 DEF Shape
  <2>2. s \in 0 .. BrkLimit BY <1>1, <1>2, <1>3, HeapConstants
  <2> QED BY <2>1, <2>2, <1>3 DEF HeapInv, TypeOK, HeapType
<1>9. Accounted' BY <1>3, <1>6, <1>7 DEF Accounted
<1>10. MapsHeaded' /\ MapsApart' BY <1>3, <1>7 DEF MapsHeaded, MapsApart
<1>11. CursorOnFreeList' BY <1>3, <1>7 DEF CursorOnFreeList, idle
<1>12. NothingYet' BY <1>3 DEF NothingYet
<1> QED BY <1>6, <1>8, <1>9, <1>10, <1>11, <1>12 DEF HeapInv

\* A failed __heap_init keeps the invariant.
LEMMA BootFailsInv ==
  ASSUME HeapInv, heap_init_fails
  PROVE  HeapInv'
<1> USE DEF heap_init_fails
<1>1. TypeOK' BY DEF HeapInv, TypeOK
<1>2. HeapIntact' BY DEF HeapIntact
<1>3. Accounted' BY DEF HeapInv, Accounted, FreeBlocks
<1>4. MapsHeaded' /\ MapsApart' BY DEF HeapInv, MapsHeaded, MapsApart
<1>5. NothingYet' BY DEF HeapInv, NothingYet
<1>6. CursorOnFreeList' BY <1>5 DEF NothingYet, CursorOnFreeList, idle
<1> QED BY <1>1, <1>2, <1>3, <1>4, <1>5, <1>6 DEF HeapInv

\* Steps that only move the cursor of a malloc.
LEMMA CursorInv ==
  ASSUME HeapInv, UNCHANGED <<heap, heap_start_, maps, phase, live, blocks>>,
         phase = "ready",
         call' \in [pc: {"idle", "scan"}, n: Nat, asked: Nat, current: Int],
         call'.pc = "scan" => call'.current \in FreeBlocks \cup {NULL}
  PROVE  HeapInv'
<1>1. TypeOK' BY DEF HeapInv, TypeOK
<1>2. FreeBlocks' = FreeBlocks BY DEF FreeBlocks
<1>3. HeapIntact' BY <1>2 DEF HeapInv, HeapIntact
<1>4. Accounted' BY <1>2 DEF HeapInv, Accounted
<1>5. MapsHeaded' /\ MapsApart' BY DEF HeapInv, MapsHeaded, MapsApart
<1>6. NothingYet' BY DEF NothingYet
<1>7. CursorOnFreeList' BY <1>2 DEF CursorOnFreeList
<1> QED BY <1>1, <1>3, <1>4, <1>5, <1>6, <1>7 DEF HeapInv

\* The request of a call, rounded to granules, is a natural number.
LEMMA AlignNat == \A n \in Nat : align(n) \in Nat
<1> SUFFICES ASSUME NEW n \in Nat PROVE align(n) \in Nat OBVIOUS
<1> DEFINE a == (n + ALIGN - 1) % SIZE_RANGE
<1>1. a \in Nat BY HeapConstants
<1> HIDE DEF a
<1>2. a \div ALIGN \in Nat BY <1>1, HeapConstants, DivBounds
<1> QED BY <1>2 DEF align, a

\* A call of malloc puts the cursor on the head of the free list.
LEMMA MallocInv ==
  ASSUME HeapInv, NEW n \in Requests, malloc(n)
  PROVE  HeapInv'
<1>1. n \in Nat /\ align(n) \in Nat BY HeapConstants, AlignNat
<1>2. phase = "ready" BY DEF malloc, ready
<1>3. heap.head_ \in FreeBlocks \cup {NULL} /\ heap.head_ \in Int
  BY <1>2 DEF HeapInv, HeapIntact, Linked, TypeOK
<1> QED BY <1>1, <1>2, <1>3, CursorInv DEF malloc

\* The search loop moves the cursor from a free block to a free block.
LEMMA MallocNextInv ==
  ASSUME HeapInv, malloc_next
  PROVE  HeapInv'
<1>1. phase = "ready" /\ call.current \in FreeBlocks
  BY DEF HeapInv, CursorOnFreeList, malloc_next
<1>2. Shape(heap, heap_start_, blocks, FreeBlocks) BY <1>1, Unpack
<1>3. heap.info[call.current] \in FreeBlocks \cup {NULL}
  BY <1>1, <1>2 DEF Shape, Linked
<1>4. heap.info[call.current] \in Int
  <2>1. heap.info \in [Addr -> Int] /\ call.current \in Addr BY <1>1, <1>2 DEF Shape, HeapType
  <2> QED BY <2>1
<1>5. call \in [pc: {"idle", "scan"}, n: Nat, asked: Nat, current: Int]
  BY DEF HeapInv, TypeOK
<1>6. /\ call' \in [pc: {"idle", "scan"}, n: Nat, asked: Nat, current: Int]
      /\ call'.current = heap.info[call.current]
  BY <1>4, <1>5 DEF malloc_next
<1> QED BY <1>1, <1>3, <1>6, CursorInv DEF malloc_next

\* A malloc that returns NULL keeps the invariant.
LEMMA MallocFailInv ==
  ASSUME HeapInv, malloc_fail
  PROVE  HeapInv'
<1>1. phase = "ready" BY DEF HeapInv, CursorOnFreeList, malloc_fail
<1>2. call' = idle /\ idle \in [pc: {"idle", "scan"}, n: Nat, asked: Nat, current: Int]
  BY DEF malloc_fail, idle, NULL
<1> QED BY <1>1, <1>2, CursorInv DEF malloc_fail, idle

\* Steps that rebuild the heap and leave the maps alone.
LEMMA RebuiltInv ==
  ASSUME HeapInv, phase = "ready", phase' = "ready",
         NEW F, Shape(heap', heap_start_', blocks', F),
         heap_start_' = heap_start_, maps' = maps,
         NEW a \in Int, a <= BrkLimit, Above(heap, heap', a),
         DOMAIN live' = Held(blocks', F, maps),
         \A p \in DOMAIN live' : live'[p] \in Nat,
         call' \in [pc: {"idle", "scan"}, n: Nat, asked: Nat, current: Int],
         call'.pc = "scan" => call'.current \in F \cup {NULL}
  PROVE  HeapInv'
<1>1. HeapIntact' /\ FreeBlocks' = F BY Pack
<1>2. MapsHeaded' /\ MapsApart' BY MapsFrame
<1>3. Accounted' BY <1>1 DEF Accounted, Held
<1>4. CursorOnFreeList' BY <1>1 DEF CursorOnFreeList
<1>5. NothingYet' BY DEF NothingYet
<1>6. DOMAIN live' \subseteq Addr
  <2>1. ASSUME NEW b \in blocks' PROVE b + 1 \in Addr
    <3>1. Cell(heap', heap_start_', b) BY ShapeCells
    <3> QED BY <3>1, HeapConstants DEF Cell, Addr
  <2>2. ASSUME NEW m \in maps PROVE m.base + 1 \in Addr
    <3>1. m.base + 1 \in DOMAIN live BY DEF HeapInv, Accounted
    <3> QED BY <3>1 DEF HeapInv, TypeOK
  <2> QED BY <2>1, <2>2 DEF Held
<1>7. TypeOK'
  <2>1. heap' \in HeapType /\ blocks' \subseteq Addr BY DEF Shape
  <2> QED BY <2>1, <1>6 DEF HeapInv, TypeOK, HeapType
<1> QED BY <1>1, <1>2, <1>3, <1>4, <1>5, <1>7 DEF HeapInv

\* Splitting and taking a block keeps the invariant and gives the program
\* exactly that block.
LEMMA MallocTakeInv ==
  ASSUME HeapInv, malloc_take
  PROVE  HeapInv'
<1> DEFINE b == call.current
           n == call.n
           d == b + 2 + n
           sp == splits(heap, b, n)
           F == IF sp THEN (FreeBlocks \ {b}) \cup {d} ELSE FreeBlocks \ {b}
<1>1. phase = "ready" /\ b \in FreeBlocks /\ heap.size[b] >= n
      /\ n \in Nat /\ call.asked \in Nat
  BY DEF HeapInv, CursorOnFreeList, malloc_take, TypeOK
<1>2. Shape(heap, heap_start_, blocks, FreeBlocks) BY <1>1, Unpack
<1>3. /\ heap' = take(heap, b, n) /\ live' = hold(b + 1, call.asked) /\ call' = idle
      /\ blocks' = IF sp THEN blocks \cup {d} ELSE blocks
      /\ heap_start_' = heap_start_ /\ maps' = maps /\ phase' = phase
  BY DEF malloc_take
<1>4. /\ sp => /\ Shape(heap', heap_start_, blocks \cup {d},
                        (FreeBlocks \ {b}) \cup {d})
               /\ d \in Addr /\ d \notin blocks
      /\ ~sp => Shape(heap', heap_start_, blocks, FreeBlocks \ {b})
      /\ heap'.p_brk_ = heap.p_brk_ /\ Above(heap, heap', heap.p_brk_)
  <2>1. CASE sp
    <3>1. FrontTaken(heap, heap', heap_start_, blocks, FreeBlocks, b, n)
      <4>1. splits(heap, b, n) BY <2>1
      <4>2. FrontTaken(heap, take(heap, b, n), heap_start_, blocks, FreeBlocks, b, n)
        <5> HIDE DEF b, n
        <5> QED BY <4>1, <1>1, <1>2, TakeSplitShape
      <4> QED BY <4>2, <1>3
    <3> QED BY <3>1, <2>1 DEF FrontTaken
  <2>2. CASE ~sp
    <3>1. WholeTaken(heap, heap', heap_start_, blocks, FreeBlocks, b)
      <4>1. ~splits(heap, b, n) BY <2>2
      <4>2. WholeTaken(heap, take(heap, b, n), heap_start_, blocks, FreeBlocks, b)
        <5> HIDE DEF b, n
        <5> QED BY <4>1, <1>1, <1>2, TakeWholeShape
      <4> QED BY <4>2, <1>3
    <3> QED BY <3>1, <2>2 DEF WholeTaken
  <2> QED BY <2>1, <2>2
<1> HIDE DEF sp, d
<1>5. Shape(heap', heap_start_', blocks', F) /\ Above(heap, heap', heap.p_brk_)
  BY <1>3, <1>4
<1>6. b \in blocks /\ FreeBlocks \subseteq blocks BY <1>1 DEF FreeBlocks
<1>7. blocks' \ F = (blocks \ FreeBlocks) \cup {b}
  <2>1. CASE sp BY <2>1, <1>1, <1>3, <1>4, <1>6
  <2>2. CASE ~sp BY <2>2, <1>1, <1>3, <1>6
  <2> QED BY <2>1, <2>2
<1> HIDE DEF F
<1>8. DOMAIN live' = Held(blocks', F, maps)
  <2>1. DOMAIN live' = DOMAIN live \cup {b + 1} BY <1>3 DEF hold
  <2>2. DOMAIN live = {x + 1 : x \in blocks \ FreeBlocks} \cup {m.base + 1 : m \in maps}
    BY DEF HeapInv, Accounted
  <2> QED BY <2>1, <2>2, <1>7 DEF Held
<1>9. \A p \in DOMAIN live' : live'[p] \in Nat
  BY <1>1, <1>3 DEF hold, HeapInv, TypeOK
<1>10. call' \in [pc: {"idle", "scan"}, n: Nat, asked: Nat, current: Int]
       /\ call'.pc # "scan"
  BY <1>3 DEF idle, NULL
<1>11. heap.p_brk_ \in Int /\ heap.p_brk_ <= BrkLimit
  BY HeapConstants DEF HeapInv, TypeOK
<1> QED BY <1>1, <1>3, <1>5, <1>8, <1>9, <1>10, <1>11, RebuiltInv

\* Growing the heap keeps the invariant, whether its last block is free or used.
LEMMA MallocGrowInv ==
  ASSUME HeapInv, malloc_grow
  PROVE  HeapInv'
<1> DEFINE e == round_to_page(heap.p_brk_ + grow_size(call.n))
           d == heap.p_brk_ - 1
           nofree == heap.info[heap.p_brk_ - 2] = USED_NORMAL
           F == IF nofree THEN FreeBlocks \cup {d} ELSE FreeBlocks
<1>1. phase = "ready" /\ call.n \in Nat /\ heap.p_brk_ \in Nat
      /\ call \in [pc: {"idle", "scan"}, n: Nat, asked: Nat, current: Int]
  BY HeapConstants DEF HeapInv, CursorOnFreeList, malloc_grow, TypeOK
<1>2. Shape(heap, heap_start_, blocks, FreeBlocks) BY <1>1, Unpack
<1>3. /\ heap' = extend(heap, e) /\ e <= BrkLimit
      /\ blocks' = IF nofree THEN blocks \cup {d} ELSE blocks
      /\ call' = [call EXCEPT !.n = at_least(call.n, 2), !.current = heap'.head_]
      /\ heap_start_' = heap_start_ /\ maps' = maps /\ phase' = phase /\ live' = live
  BY DEF malloc_grow, extended_blocks, last_is_free
<1>4. e \in Nat /\ e >= heap.p_brk_ + 4
  <2>1. grow_size(call.n) \in Nat /\ grow_size(call.n) >= 4
    BY <1>1 DEF grow_size, at_least
  <2>2. e >= heap.p_brk_ + grow_size(call.n) /\ e \in Nat BY <1>1, <2>1, RoundUp
  <2> HIDE DEF e
  <2> QED BY <1>1, <2>1, <2>2
<1> HIDE DEF e
<1>5. IF nofree
      THEN /\ Shape(heap', heap_start_, blocks \cup {d}, FreeBlocks \cup {d})
           /\ d \notin blocks /\ heap'.p_brk_ = e /\ Above(heap, heap', e)
      ELSE /\ Shape(heap', heap_start_, blocks, FreeBlocks)
           /\ heap'.p_brk_ = e /\ Above(heap, heap', e)
  <2>1. e >= heap.p_brk_ + 2 /\ e > heap.p_brk_ BY <1>1, <1>4
  <2>2. CASE nofree
    <3>1. Extended(heap, heap', heap_start_, blocks, FreeBlocks, e)
      BY <2>1, <2>2, <1>2, <1>3, <1>4, ExtendUsedShape
    <3> QED BY <3>1, <2>2 DEF Extended
  <2>3. CASE ~nofree
    <3>1. Stretched(heap, heap', heap_start_, blocks, FreeBlocks, e)
      BY <2>1, <2>3, <1>2, <1>3, <1>4, ExtendFreeShape
    <3> QED BY <3>1, <2>3 DEF Stretched
  <2> QED BY <2>2, <2>3
<1> HIDE DEF nofree, d
<1>6. Shape(heap', heap_start_', blocks', F) /\ Above(heap, heap', e)
  BY <1>3, <1>5
<1>7. blocks' \ F = blocks \ FreeBlocks
  <2>1. CASE nofree BY <2>1, <1>3, <1>5
  <2>2. CASE ~nofree BY <2>2, <1>3
  <2> QED BY <2>1, <2>2
<1> HIDE DEF F
<1>8. DOMAIN live' = Held(blocks', F, maps)
  BY <1>3, <1>7 DEF Held, HeapInv, Accounted
<1>9. \A p \in DOMAIN live' : live'[p] \in Nat
  BY <1>3 DEF HeapInv, TypeOK
<1>10. /\ call' \in [pc: {"idle", "scan"}, n: Nat, asked: Nat, current: Int]
       /\ call'.current \in F \cup {NULL}
  <2>1. heap'.head_ \in Int BY <1>6 DEF Shape, HeapType
  <2>2. heap'.head_ \in F \cup {NULL} BY <1>6 DEF Shape, Linked
  <2>3. at_least(call.n, 2) \in Nat BY <1>1 DEF at_least
  <2> QED BY <2>1, <2>2, <2>3, <1>1, <1>3
<1>11. e \in Int /\ e <= BrkLimit BY <1>3, <1>4
<1>12. phase = "ready" /\ phase' = "ready" BY <1>1, <1>3
<1> HIDE DEF e
<1> QED BY <1>3, <1>6, <1>8, <1>9, <1>10, <1>11, <1>12, RebuiltInv

\* A pointer the program holds is of one of two kinds, told by the magic.
LEMMA HeldKinds ==
  ASSUME HeapInv, phase = "ready", NEW p \in DOMAIN live
  PROVE  /\ heap.info[p - 1] # USED_MMAP => p - 1 \in blocks \ FreeBlocks
         /\ heap.info[p - 1] = USED_MMAP =>
              \E m \in maps : p = m.base + 1 /\ m = [base |-> p - 1, len |-> heap.size[p - 1]]
         /\ p \in Nat
<1>1. p \in Nat BY HeapConstants DEF HeapInv, TypeOK, Addr
<1>2. \/ \E b \in blocks \ FreeBlocks : p = b + 1
      \/ \E m \in maps : p = m.base + 1
  BY DEF HeapInv, Accounted
<1>3. CASE \E b \in blocks \ FreeBlocks : p = b + 1
  <2>1. PICK b \in blocks \ FreeBlocks : p = b + 1 BY <1>3
  <2>2. b \in Int BY HeapConstants DEF HeapInv, TypeOK, Addr
  <2>3. p - 1 = b BY <2>1, <2>2
  <2>4. heap.info[b] = USED_NORMAL BY DEF FreeBlocks, is_used
  <2> QED BY <1>1, <2>3, <2>4 DEF USED_NORMAL, USED_MMAP
<1>4. CASE \E m \in maps : p = m.base + 1
  <2>1. PICK m \in maps : p = m.base + 1 BY <1>4
  <2>2. m \in [base: Addr, len: Nat] BY DEF HeapInv, TypeOK
  <2>3. m.base \in Int BY <2>2, HeapConstants DEF Addr
  <2>4. p - 1 = m.base BY <2>1, <2>3
  <2>5. heap.info[m.base] = USED_MMAP /\ heap.size[m.base] = m.len
    BY DEF HeapInv, MapsHeaded
  <2>6. m = [base |-> m.base, len |-> m.len] BY <2>2
  <2> QED BY <1>1, <2>1, <2>4, <2>5, <2>6
<1> QED BY <1>2, <1>3, <1>4

\* free() of a heap block keeps the invariant, the merges included.
LEMMA FreeInv ==
  ASSUME HeapInv, NEW p \in DOMAIN live, free(p)
  PROVE  HeapInv'
<1> DEFINE b == p - 1
           F == (FreeBlocks \cup {b}) \ Merged(heap, b)
<1>1. phase = "ready" /\ call.pc = "idle" /\ heap.info[b] # USED_MMAP
  BY DEF free, ready
<1>2. Shape(heap, heap_start_, blocks, FreeBlocks) BY <1>1, Unpack
<1>3. b \in blocks \ FreeBlocks /\ p \in Nat BY <1>1, HeldKinds
<1>4. /\ heap' = release(heap, b) /\ blocks' = blocks \ Merged(heap, b)
      /\ live' = drop(p)
      /\ heap_start_' = heap_start_ /\ maps' = maps /\ phase' = phase /\ call' = call
  BY DEF free, Merged
<1>5. /\ Shape(heap', heap_start_', blocks', F)
      /\ Above(heap, heap', heap.p_brk_)
  <2>1. Released(heap, heap', heap_start_, blocks, FreeBlocks, b)
    BY <1>2, <1>3, <1>4, ReleaseShape
  <2> QED BY <2>1, <1>4 DEF Released
<1>6. blocks' \ F = (blocks \ FreeBlocks) \ {b}
  <2>1. Merged(heap, b) \subseteq FreeBlocks \cup {b}
    <3>1. next_is_free(heap, b) => footer_of(heap, b) + 1 \in FreeBlocks
      BY <1>2, <1>3, NextTag DEF next_is_free, after
    <3> QED BY <3>1 DEF Merged
  <2> QED BY <2>1, <1>4
<1> HIDE DEF F
<1>7. DOMAIN live' = Held(blocks', F, maps)
  <2>1. DOMAIN live' = DOMAIN live \ {p} BY <1>4 DEF drop
  <2>2. DOMAIN live = {x + 1 : x \in blocks \ FreeBlocks} \cup {m.base + 1 : m \in maps}
    BY DEF HeapInv, Accounted
  <2>3. ASSUME NEW m \in maps PROVE m.base + 1 # p
    <3>1. m.base \in Int BY HeapConstants DEF HeapInv, TypeOK, Addr
    <3>2. heap.info[m.base] = USED_MMAP BY DEF HeapInv, MapsHeaded
    <3>3. m.base # b BY <1>1, <3>2
    <3> QED BY <3>1, <3>3, <1>3
  <2>4. ASSUME NEW x \in blocks PROVE x + 1 = p <=> x = b
    <3>1. x \in Int BY HeapConstants DEF HeapInv, TypeOK, Addr
    <3> QED BY <3>1, <1>3
  <2> HIDE DEF b
  <2> QED BY <2>1, <2>2, <2>3, <2>4, <1>6 DEF Held
<1>8. \A q \in DOMAIN live' : live'[q] \in Nat
  BY <1>4 DEF drop, HeapInv, TypeOK
<1>9. call' \in [pc: {"idle", "scan"}, n: Nat, asked: Nat, current: Int]
      /\ call'.pc # "scan"
  BY <1>1, <1>4 DEF HeapInv, TypeOK
<1>10. heap.p_brk_ \in Int /\ heap.p_brk_ <= BrkLimit
  BY HeapConstants DEF HeapInv, TypeOK
<1> QED BY <1>1, <1>4, <1>5, <1>7, <1>8, <1>9, <1>10, RebuiltInv

-----------------------------------------------------------------------------
(* Mapped regions and the program's own stores                             *)

\* Writes that spare every cell of the heap leave it intact.
LEMMA SparedIntact ==
  ASSUME HeapInv, phase = "ready", phase' = "ready", heap' \in HeapType,
         heap'.head_ = heap.head_, heap'.p_brk_ = heap.p_brk_,
         heap_start_' = heap_start_, blocks' = blocks,
         \A x \in {heap_start_, heap.p_brk_ - 1} \cup blocks
                    \cup {footer_of(heap, b) : b \in blocks} :
            heap'.size[x] = heap.size[x] /\ heap'.info[x] = heap.info[x]
  PROVE  HeapIntact' /\ FreeBlocks' = FreeBlocks
<1>1. Shape(heap, heap_start_, blocks, FreeBlocks) BY Unpack
<1>2. Shape(heap', heap_start_, blocks, FreeBlocks)
  BY <1>1, ShapeFrame
<1> QED BY <1>2, Pack

\* Where a map is.
LEMMA MapPlace ==
  ASSUME HeapInv, NEW m \in maps
  PROVE  /\ m \in [base: Addr, len: Nat] /\ m.base \in Int /\ m.len \in Nat
         /\ m.len > 0 /\ m.base >= BrkLimit /\ m.base + m.len <= MemTop
<1>1. m \in [base: Addr, len: Nat] BY DEF HeapInv, TypeOK
<1>2. m.base \in Int /\ m.len \in Nat BY <1>1, HeapConstants DEF Addr
<1>3. m.len > 0 /\ m.base .. m.base + m.len - 1 \subseteq BrkLimit .. MemTop - 1
  BY DEF HeapInv, MapsApart, Region
<1>4. m.base \in m.base .. m.base + m.len - 1
      /\ m.base + m.len - 1 \in m.base .. m.base + m.len - 1
  BY <1>2, <1>3
<1>5. m.base \in BrkLimit .. MemTop - 1 /\ m.base + m.len - 1 \in BrkLimit .. MemTop - 1
  BY <1>3, <1>4
<1> QED BY <1>1, <1>2, <1>3, <1>5, HeapConstants

\* free() of a mapped block keeps the invariant: munmap gets the whole region.
LEMMA FreeMmapInv ==
  ASSUME HeapInv, NEW p \in DOMAIN live, free_mmap(p)
  PROVE  HeapInv'
<1>1. phase = "ready" /\ call.pc = "idle" /\ heap.info[p - 1] = USED_MMAP
  BY DEF free_mmap, ready
<1>2. PICK m \in maps : p = m.base + 1 /\ m = [base |-> p - 1, len |-> heap.size[p - 1]]
  BY <1>1, HeldKinds
<1>3. /\ maps' = maps \ {m} /\ live' = drop(p)
      /\ heap' = heap /\ heap_start_' = heap_start_ /\ call' = call /\ phase' = phase
      /\ blocks' = blocks
  BY <1>2 DEF free_mmap
<1>4. FreeBlocks' = FreeBlocks BY <1>3 DEF FreeBlocks
<1>5. HeapIntact' BY <1>3, <1>4 DEF HeapInv, HeapIntact
<1>6. MapsHeaded' /\ MapsApart' BY <1>3 DEF HeapInv, MapsHeaded, MapsApart
<1>7. CursorOnFreeList' /\ NothingYet' BY <1>1, <1>3 DEF CursorOnFreeList, NothingYet
<1>8. TypeOK'
  <2>1. DOMAIN live' \subseteq DOMAIN live /\ \A q \in DOMAIN live' : live'[q] = live[q]
    BY <1>3 DEF drop
  <2> QED BY <2>1, <1>3 DEF HeapInv, TypeOK
<1>9. Accounted'
  <2>1. DOMAIN live' = DOMAIN live \ {p} BY <1>3 DEF drop
  <2>2. DOMAIN live = {x + 1 : x \in blocks \ FreeBlocks} \cup {k.base + 1 : k \in maps}
    BY DEF HeapInv, Accounted
  <2>3. ASSUME NEW x \in blocks \ FreeBlocks PROVE x + 1 # p
    <3>1. x \in Int BY HeapConstants DEF HeapInv, TypeOK, Addr
    <3>2. heap.info[x] = USED_NORMAL BY DEF FreeBlocks, is_used
    <3>3. heap.info[m.base] = USED_MMAP /\ m.base \in Int BY MapPlace DEF HeapInv, MapsHeaded
    <3> QED BY <3>1, <3>2, <3>3, <1>2 DEF USED_NORMAL, USED_MMAP
  <2>4. ASSUME NEW k \in maps \ {m} PROVE k.base + 1 # p
    <3>1. Region(m.base, m.len) \cap Region(k.base, k.len) = {} BY DEF HeapInv, MapsApart
    <3>2. m.base \in Region(m.base, m.len) /\ k.base \in Region(k.base, k.len)
      BY MapPlace DEF Region
    <3> QED BY <3>1, <3>2, <1>2, MapPlace
  <2>5. {k.base + 1 : k \in maps \ {m}} = {k.base + 1 : k \in maps} \ {p}
    BY <2>4, <1>2
  <2> QED BY <2>1, <2>2, <2>3, <2>5, <1>3, <1>4 DEF Accounted
<1> QED BY <1>5, <1>6, <1>7, <1>8, <1>9 DEF HeapInv

\* A mapped block keeps the invariant: it lies apart from all other memory.
LEMMA MallocMmapInv ==
  ASSUME HeapInv, NEW n \in Requests, malloc_mmap(n)
  PROVE  HeapInv'
<1> DEFINE len == map_length(align(n))
<1>1. phase = "ready" /\ call.pc = "idle" /\ n \in Nat
  BY HeapConstants DEF malloc_mmap, ready
<1>2. PICK base \in BrkLimit .. MemTop - 1 :
        /\ mappable(base, len)
        /\ heap' = [heap EXCEPT
             !.info = [a \in Addr |->
                IF a = base THEN USED_MMAP
                ELSE IF a \in Region(base, len) THEN 0 ELSE heap.info[a]],
             !.size = [a \in Addr |->
                IF a = base THEN len
                ELSE IF a \in Region(base, len) THEN 0 ELSE heap.size[a]]]
        /\ maps' = maps \cup {[base |-> base, len |-> len]}
        /\ live' = hold(base + 1, n)
  BY DEF malloc_mmap
<1>3. /\ heap_start_' = heap_start_ /\ call' = call /\ phase' = phase
      /\ blocks' = blocks
  BY DEF malloc_mmap
<1>4. len \in Nat /\ (len > 0 => len > 1)
  <2>1. align(n) \in Nat BY <1>1, AlignNat
  <2> DEFINE r == SIZE_RANGE \div ALIGN
             a == (align(n) + PAGE) % r
  <2>2. r \in Nat \ {0}
    <3>1. r \in Nat /\ SIZE_RANGE < r * ALIGN + ALIGN BY HeapConstants, DivBounds
    <3>2. r # 0
      <4> SUFFICES ASSUME r = 0 PROVE FALSE OBVIOUS
      <4>1. r * ALIGN = 0 BY HeapConstants
      <4> QED BY <3>1, <4>1, HeapConstants
    <3> QED BY <3>1, <3>2
  <2> HIDE DEF r
  <2>3. a \in Nat BY <2>1, <2>2, HeapConstants
  <2> HIDE DEF a
  <2> DEFINE q == a \div PAGE
  <2>4. q \in Nat /\ q * PAGE \in Nat BY <2>3, HeapConstants, DivBounds
  <2>5. len = q * PAGE BY DEF map_length, a, r
  <2> HIDE DEF q, len
  <2>6. CASE q = 0
    <3>1. q * PAGE = 0 BY <2>6, HeapConstants
    <3> QED BY <3>1, <2>5
  <2>7. CASE q # 0
    <3>1. q * PAGE >= PAGE BY <2>4, <2>7, HeapConstants
    <3> QED BY <3>1, <2>4, <2>5, HeapConstants
  <2> QED BY <2>6, <2>7
<1> HIDE DEF len
<1>5. /\ len > 0 /\ Region(base, len) \subseteq BrkLimit .. MemTop - 1
      /\ \A m \in maps : Region(base, len) \cap Region(m.base, m.len) = {}
      /\ base \in Addr /\ base \in Nat /\ base >= BrkLimit
  BY <1>2, HeapConstants DEF mappable, Addr
<1> DEFINE I == [a \in Addr |->
                IF a = base THEN USED_MMAP
                ELSE IF a \in Region(base, len) THEN 0 ELSE heap.info[a]]
           S == [a \in Addr |->
                IF a = base THEN len
                ELSE IF a \in Region(base, len) THEN 0 ELSE heap.size[a]]
<1>6. heap \in HeapType /\ heap.info \in [Addr -> Int] /\ heap.size \in [Addr -> Int]
  BY DEF HeapInv, TypeOK, HeapType
<1>7. I \in [Addr -> Int] /\ S \in [Addr -> Int]
  BY <1>4, <1>6 DEF USED_MMAP
<1>8. /\ heap' = [heap EXCEPT !.info = I, !.size = S]
      /\ heap'.info = I /\ heap'.size = S
      /\ heap'.head_ = heap.head_ /\ heap'.p_brk_ = heap.p_brk_
  BY <1>2, <1>6 DEF HeapType
<1>9. heap' \in HeapType BY <1>6, <1>7, <1>8 DEF HeapType
<1>10. /\ heap'.info[base] = USED_MMAP /\ heap'.size[base] = len
       /\ \A x \in Addr : x \notin Region(base, len) =>
             heap'.info[x] = heap.info[x] /\ heap'.size[x] = heap.size[x]
  <2>1. base \in Region(base, len) BY <1>4, <1>5 DEF Region
  <2> QED BY <2>1, <1>5, <1>8
<1> HIDE DEF I, S
<1>11. ASSUME NEW x \in Addr, x < BrkLimit
       PROVE  heap'.info[x] = heap.info[x] /\ heap'.size[x] = heap.size[x]
  <2>1. x \notin Region(base, len) BY <1>5, <1>11, HeapConstants DEF Addr
  <2> QED BY <2>1, <1>10
<1>12. HeapIntact' /\ FreeBlocks' = FreeBlocks
  <2>1. Shape(heap, heap_start_, blocks, FreeBlocks) BY <1>1, Unpack
  <2>2. /\ heap.p_brk_ \in Int /\ heap.p_brk_ <= BrkLimit /\ heap.p_brk_ - 1 \in Addr
        /\ heap_start_ \in Addr /\ heap_start_ < BrkLimit
    <3>1. heap.p_brk_ \in 0 .. BrkLimit BY <1>6 DEF HeapType
    <3>2. heap_start_ \in Addr /\ heap.p_brk_ - 1 \in Addr /\ heap_start_ \in Int
      BY <2>1, ShapeApart
    <3>3. heap.p_brk_ > heap_start_ + 1 BY <2>1 DEF Shape, Tiled
    <3> QED BY <3>1, <3>2, <3>3, HeapConstants
  <2>3. ASSUME NEW b \in blocks
        PROVE  /\ b \in Addr /\ b < BrkLimit
               /\ footer_of(heap, b) \in Addr /\ footer_of(heap, b) < BrkLimit
    <3>1. Cell(heap, heap_start_, b) BY <2>1, ShapeCells
    <3> QED BY <3>1, <2>2, HeapConstants DEF Cell
  <2>4. heap.p_brk_ - 1 < BrkLimit BY <2>2, HeapConstants
  <2> QED BY <2>2, <2>3, <2>4, <1>1, <1>3, <1>8, <1>9, <1>11, SparedIntact
<1> DEFINE new == [base |-> base, len |-> len]
<1>13. MapsHeaded'
  <2>1. ASSUME NEW m \in maps
        PROVE  heap'.info[m.base] = USED_MMAP /\ heap'.size[m.base] = m.len
    <3>1. m.base \in Addr /\ m.base \in Region(m.base, m.len)
      BY MapPlace DEF Region
    <3>2. m.base \notin Region(base, len) BY <3>1, <1>5
    <3> QED BY <3>1, <3>2, <1>10 DEF HeapInv, MapsHeaded
  <2>2. new.base = base /\ new.len = len OBVIOUS
  <2>3. maps' = maps \cup {new} BY <1>2
  <2> HIDE DEF new
  <2> QED BY <2>1, <2>2, <2>3, <1>10 DEF MapsHeaded
<1>14. MapsApart'
  <2>1. new.base = base /\ new.len = len OBVIOUS
  <2>2. maps' = maps \cup {new} BY <1>2
  <2> HIDE DEF new
  <2>3. ASSUME NEW m \in maps', NEW k \in maps' \ {m}
        PROVE  Region(m.base, m.len) \cap Region(k.base, k.len) = {}
    <3>1. CASE m \in maps /\ k \in maps BY <3>1, <2>3 DEF HeapInv, MapsApart
    <3>2. CASE m = new BY <3>2, <2>1, <2>2, <2>3, <1>5
    <3>3. CASE k = new BY <3>3, <2>1, <2>2, <2>3, <1>5
    <3> QED BY <3>1, <3>2, <3>3, <2>2
  <2>4. ASSUME NEW m \in maps'
        PROVE  m.len > 0 /\ Region(m.base, m.len) \subseteq BrkLimit .. MemTop - 1
    BY <2>1, <2>2, <1>5 DEF HeapInv, MapsApart
  <2> QED BY <2>3, <2>4 DEF MapsApart
<1>15. DOMAIN live' = DOMAIN live \cup {base + 1} /\ \A q \in DOMAIN live' : live'[q] \in Nat
  BY <1>1, <1>2 DEF hold, HeapInv, TypeOK
<1>16. Accounted'
  <2>1. {m.base + 1 : m \in maps'} = {m.base + 1 : m \in maps} \cup {base + 1}
    <3>1. new.base = base OBVIOUS
    <3>2. maps' = maps \cup {new} BY <1>2
    <3> HIDE DEF new
    <3> QED BY <3>1, <3>2
  <2> QED BY <2>1, <1>3, <1>12, <1>15 DEF HeapInv, Accounted
<1>17. TypeOK'
  <2>1. base + 1 \in Addr
    <3>1. len > 1 BY <1>4, <1>5
    <3>2. base + 1 \in Region(base, len) BY <3>1, <1>4, <1>5 DEF Region
    <3> QED BY <3>2, <1>5, HeapConstants DEF Addr
  <2>2. new \in [base: Addr, len: Nat] BY <1>4, <1>5
  <2>3. maps' \subseteq [base: Addr, len: Nat] BY <2>2, <1>2 DEF HeapInv, TypeOK
  <2> HIDE DEF new
  <2> QED BY <2>1, <2>3, <1>3, <1>9, <1>15 DEF HeapInv, TypeOK, HeapType
<1>18. CursorOnFreeList' /\ NothingYet'
  BY <1>1, <1>3 DEF CursorOnFreeList, NothingYet
<1> QED BY <1>12, <1>13, <1>14, <1>16, <1>17, <1>18 DEF HeapInv

\* The payload behind a pointer holds no word the allocator relies on.
LEMMA PayloadClear ==
  ASSUME HeapInv, phase = "ready", NEW p \in DOMAIN live
  PROVE  Payload(heap, p) \cap Metadata = {}
<1>1. Shape(heap, heap_start_, blocks, FreeBlocks) BY Unpack
<1>2. p \in Nat BY HeldKinds
<1>3. /\ heap_start_ \in Int /\ heap.p_brk_ \in Int /\ heap.p_brk_ <= BrkLimit
      /\ heap_start_ < heap.p_brk_ - 1
  <2>1. heap_start_ \in Int /\ heap.p_brk_ \in Int BY <1>1, ShapeApart
  <2>2. heap.p_brk_ <= BrkLimit BY HeapConstants DEF HeapInv, TypeOK
  <2>3. heap.p_brk_ > heap_start_ + 1 BY <1>1 DEF Shape, Tiled
  <2> QED BY <2>1, <2>2, <2>3
<1>4. CASE heap.info[p - 1] # USED_MMAP
  <2> DEFINE b == p - 1
  <2>1. b \in blocks BY <1>4, HeldKinds
  <2>2. Cell(heap, heap_start_, b) BY <1>1, <2>1, ShapeCells
  <2>3. Payload(heap, p) = b + 1 .. b + heap.size[b]
    <3>1. payload_len(heap, p) = heap.size[b] BY <1>4 DEF payload_len
    <3>2. p = b + 1 /\ p + heap.size[b] - 1 = b + heap.size[b] BY <1>2, <2>2 DEF Cell
    <3> HIDE DEF b
    <3> QED BY <3>1, <3>2 DEF Payload
  <2> HIDE DEF b
  <2>4. ASSUME NEW x \in Payload(heap, p)
        PROVE  x \in Int /\ b < x /\ x < footer_of(heap, b)
    BY <2>2, <2>3 DEF Cell
  <2>5. ASSUME NEW x \in Payload(heap, p), NEW c \in blocks
        PROVE  x # c /\ x # footer_of(heap, c)
    <3>1. /\ b < c => footer_of(heap, b) < c
          /\ c < b => footer_of(heap, c) < b
      BY <1>1, <2>1 DEF Shape, Tiled
    <3>2. Cell(heap, heap_start_, c) BY <1>1, ShapeCells
    <3>3. /\ c \in Int /\ b \in Int /\ footer_of(heap, c) \in Int
          /\ footer_of(heap, b) \in Int /\ c < footer_of(heap, c)
      BY <2>2, <3>2 DEF Cell
    <3>4. x \in Int /\ b < x /\ x < footer_of(heap, b) BY <2>4
    <3>5. CASE b = c BY <3>3, <3>4, <3>5
    <3>6. CASE b # c BY <3>1, <3>3, <3>4, <3>6
    <3> QED BY <3>5, <3>6
  <2>6. ASSUME NEW x \in Payload(heap, p)
        PROVE  x # heap_start_ /\ x # heap.p_brk_ - 1 /\ x < BrkLimit
    BY <2>2, <2>4, <1>3, HeapConstants DEF Cell
  <2>7. ASSUME NEW x \in Payload(heap, p), NEW m \in maps
        PROVE  x # m.base
    BY <2>4, <2>6, MapPlace, HeapConstants
  <2> QED BY <2>5, <2>6, <2>7 DEF Metadata
<1>5. CASE heap.info[p - 1] = USED_MMAP
  <2>1. PICK m \in maps : p = m.base + 1 /\ m = [base |-> p - 1, len |-> heap.size[p - 1]]
    BY <1>5, HeldKinds
  <2>2. /\ m.base \in Int /\ m.len \in Nat /\ m.len > 0 /\ m.base >= BrkLimit
        /\ m.base = p - 1 /\ m.len = heap.size[p - 1]
    BY <2>1, <1>2, MapPlace
  <2>3. Payload(heap, p) = m.base + 1 .. m.base + m.len - 1
    <3>1. payload_len(heap, p) = m.len - 1 BY <1>5, <2>2 DEF payload_len
    <3>2. p + (m.len - 1) - 1 = m.base + m.len - 1 BY <2>1, <2>2, <1>2
    <3> QED BY <3>1, <3>2, <2>1 DEF Payload
  <2>4. ASSUME NEW x \in Payload(heap, p)
        PROVE  x \in Int /\ m.base < x /\ x >= BrkLimit /\ x \in Region(m.base, m.len)
    BY <2>2, <2>3, HeapConstants DEF Region
  <2>5. ASSUME NEW x \in Payload(heap, p), NEW c \in blocks
        PROVE  x # c /\ x # footer_of(heap, c)
    <3>1. Cell(heap, heap_start_, c) BY <1>1, ShapeCells
    <3> QED BY <3>1, <2>4, <1>3, HeapConstants DEF Cell
  <2>6. ASSUME NEW x \in Payload(heap, p)
        PROVE  x # heap_start_ /\ x # heap.p_brk_ - 1
    BY <2>4, <1>3, HeapConstants
  <2>7. ASSUME NEW x \in Payload(heap, p), NEW k \in maps
        PROVE  x # k.base
    <3>1. CASE k = m BY <3>1, <2>4, <2>2
    <3>2. CASE k # m
      <4>1. Region(m.base, m.len) \cap Region(k.base, k.len) = {}
        BY <3>2 DEF HeapInv, MapsApart
      <4>2. k.base \in Region(k.base, k.len) BY MapPlace DEF Region
      <4> QED BY <4>1, <4>2, <2>4
    <3> QED BY <3>1, <3>2
  <2> QED BY <2>5, <2>6, <2>7 DEF Metadata
<1> QED BY <1>4, <1>5

\* A program that stores anything into its payload cannot break the heap.
LEMMA StoreInv ==
  ASSUME HeapInv, NEW p \in DOMAIN live, NEW w \in Junk, write(p, w)
  PROVE  HeapInv'
<1> DEFINE I == [a \in Addr |-> IF a \in Payload(heap, p) THEN w ELSE heap.info[a]]
           S == [a \in Addr |-> IF a \in Payload(heap, p) THEN w ELSE heap.size[a]]
<1>1. /\ phase = "ready" /\ phase' = phase /\ heap_start_' = heap_start_
      /\ maps' = maps /\ call' = call /\ live' = live /\ blocks' = blocks
  BY DEF write
<1>2. heap \in HeapType /\ heap.info \in [Addr -> Int] /\ heap.size \in [Addr -> Int]
      /\ w \in Int
  BY HeapConstants DEF HeapInv, TypeOK, HeapType
<1>3. heap' = [heap EXCEPT !.info = I, !.size = S]
  BY DEF write
<1>4. I \in [Addr -> Int] /\ S \in [Addr -> Int] BY <1>2
<1>5. /\ heap'.info = I /\ heap'.size = S
      /\ heap'.head_ = heap.head_ /\ heap'.p_brk_ = heap.p_brk_
  BY <1>2, <1>3 DEF HeapType
<1>6. heap' \in HeapType
  <2> HIDE DEF I, S
  <2> QED BY <1>2, <1>3, <1>4 DEF HeapType
<1>7. ASSUME NEW x \in Metadata, x \in Addr
      PROVE  heap'.info[x] = heap.info[x] /\ heap'.size[x] = heap.size[x]
  <2>1. x \notin Payload(heap, p) BY <1>1, PayloadClear
  <2> QED BY <2>1, <1>5, <1>7
<1> HIDE DEF I, S
<1>8. Shape(heap, heap_start_, blocks, FreeBlocks) BY <1>1, Unpack
<1>9. HeapIntact' /\ FreeBlocks' = FreeBlocks
  <2>1. heap_start_ \in Addr /\ heap.p_brk_ - 1 \in Addr BY <1>8, ShapeApart
  <2>2. ASSUME NEW b \in blocks PROVE b \in Addr /\ footer_of(heap, b) \in Addr
    BY <1>8, ShapeCells DEF Cell
  <2>3. {heap_start_, heap.p_brk_ - 1} \cup blocks
           \cup {footer_of(heap, b) : b \in blocks} \subseteq Metadata \cap Addr
    BY <2>1, <2>2 DEF Metadata
  <2> QED BY <2>3, <1>1, <1>5, <1>6, <1>7, SparedIntact
<1>10. MapsHeaded' /\ MapsApart'
  <2>1. ASSUME NEW m \in maps
        PROVE  heap'.info[m.base] = USED_MMAP /\ heap'.size[m.base] = m.len
    <3>1. m.base \in Addr BY MapPlace
    <3>2. m.base \in Metadata BY DEF Metadata
    <3> QED BY <3>1, <3>2, <1>7 DEF HeapInv, MapsHeaded
  <2> QED BY <2>1, <1>1 DEF HeapInv, MapsHeaded, MapsApart
<1>11. Accounted' BY <1>1, <1>9 DEF HeapInv, Accounted
<1>12. TypeOK' BY <1>1, <1>6 DEF HeapInv, TypeOK, HeapType
<1>13. CursorOnFreeList' /\ NothingYet'
  BY <1>1, <1>9 DEF HeapInv, CursorOnFreeList, NothingYet
<1> QED BY <1>9, <1>10, <1>11, <1>12, <1>13 DEF HeapInv

\* A step that changes nothing keeps the invariant.
LEMMA StutterInv ==
  ASSUME HeapInv, UNCHANGED vars
  PROVE  HeapInv'
<1> USE DEF vars
<1>1. FreeBlocks' = FreeBlocks BY DEF FreeBlocks
<1>2. TypeOK' BY DEF HeapInv, TypeOK
<1>3. HeapIntact' BY <1>1 DEF HeapInv, HeapIntact
<1>4. Accounted' BY <1>1 DEF HeapInv, Accounted
<1>5. MapsHeaded' /\ MapsApart' BY DEF HeapInv, MapsHeaded, MapsApart
<1>6. CursorOnFreeList' /\ NothingYet' BY <1>1 DEF HeapInv, CursorOnFreeList, NothingYet
<1> QED BY <1>2, <1>3, <1>4, <1>5, <1>6 DEF HeapInv

\* Every step keeps the invariant.
LEMMA NextInv == HeapInv /\ [Next]_vars => HeapInv'
<1> SUFFICES ASSUME HeapInv, [Next]_vars PROVE HeapInv' OBVIOUS
<1>1. ASSUME NEW break \in InitialBreaks, heap_init(break) PROVE HeapInv'
  BY <1>1, BootInv
<1>2. CASE heap_init_fails BY <1>2, BootFailsInv
<1>3. ASSUME NEW n \in Requests, malloc(n) PROVE HeapInv' BY <1>3, MallocInv
<1>4. ASSUME NEW n \in Requests, malloc_mmap(n) PROVE HeapInv' BY <1>4, MallocMmapInv
<1>5. CASE malloc_next BY <1>5, MallocNextInv
<1>6. CASE malloc_take BY <1>6, MallocTakeInv
<1>7. CASE malloc_grow BY <1>7, MallocGrowInv
<1>8. CASE malloc_fail BY <1>8, MallocFailInv
<1>9. ASSUME NEW p \in DOMAIN live, free(p) PROVE HeapInv' BY <1>9, FreeInv
<1>10. ASSUME NEW p \in DOMAIN live, free_mmap(p) PROVE HeapInv' BY <1>10, FreeMmapInv
<1>11. ASSUME NEW p \in DOMAIN live, NEW w \in Junk, store(p, w) PROVE HeapInv'
  BY <1>11, StoreInv DEF store
<1>12. CASE exited BY <1>12, StutterInv DEF exited
<1>13. CASE UNCHANGED vars BY <1>13, StutterInv
<1>14. ASSUME NEW n \in Requests, malloc_mmap_fails(n) PROVE HeapInv'
  BY <1>14, StutterInv DEF malloc_mmap_fails
<1>15. CASE free_null BY <1>15, StutterInv DEF free_null
<1> QED
  BY <1>1, <1>2, <1>3, <1>4, <1>5, <1>6, <1>7, <1>8, <1>9, <1>10, <1>11, <1>12,
     <1>13, <1>14, <1>15
  DEF Next, malloc_step

\* The inductive invariant: at every step of every program the heap that malloc,
\* free and extend maintain is intact, accounted for and apart from the maps.
THEOREM Invariance == Spec => []HeapInv
BY InitInv, NextInv, PTL DEF Spec

\* Type correctness.
THEOREM TypeCorrect == Spec => []TypeOK
<1>1. HeapInv => TypeOK BY DEF HeapInv
<1> QED BY <1>1, Invariance, PTL

\* Whatever the program asks for, frees and stores, the blocks tile the heap,
\* tags agree and the links of the free list are inverse to each other.
THEOREM Intact == Spec => []HeapIntact
<1>1. HeapInv => HeapIntact BY DEF HeapInv
<1> QED BY <1>1, Invariance, PTL

\* Where the payload behind a pointer lies.
LEMMA PayloadPlace ==
  ASSUME HeapInv, phase = "ready", NEW p \in DOMAIN live, NEW x \in Payload(heap, p)
  PROVE  \/ /\ p - 1 \in blocks /\ x \in Int /\ x < BrkLimit
            /\ p - 1 < x /\ x < footer_of(heap, p - 1)
         \/ \E m \in maps : /\ p = m.base + 1 /\ x \in Int /\ x >= BrkLimit
                            /\ x \in Region(m.base, m.len)
<1>1. Shape(heap, heap_start_, blocks, FreeBlocks) BY Unpack
<1>2. p \in Nat BY HeldKinds
<1>3. CASE heap.info[p - 1] # USED_MMAP
  <2> DEFINE b == p - 1
  <2>1. b \in blocks BY <1>3, HeldKinds
  <2>2. Cell(heap, heap_start_, b) BY <1>1, <2>1, ShapeCells
  <2>3. payload_len(heap, p) = heap.size[b] BY <1>3 DEF payload_len
  <2>4. heap.p_brk_ \in Int /\ heap.p_brk_ <= BrkLimit BY HeapConstants DEF HeapInv, TypeOK
  <2>5. x \in p .. p + heap.size[b] - 1 BY <2>3 DEF Payload
  <2>6. x \in Int /\ b < x /\ x < footer_of(heap, b) BY <2>5, <2>2, <1>2 DEF Cell
  <2>7. x < BrkLimit BY <2>2, <2>4, <2>6, HeapConstants DEF Cell
  <2> QED BY <2>1, <2>6, <2>7
<1>4. CASE heap.info[p - 1] = USED_MMAP
  <2>1. PICK m \in maps : p = m.base + 1 /\ m = [base |-> p - 1, len |-> heap.size[p - 1]]
    BY <1>4, HeldKinds
  <2>2. /\ m.base \in Int /\ m.len \in Nat /\ m.len > 0 /\ m.base >= BrkLimit
        /\ m.len = heap.size[p - 1]
    BY <2>1, MapPlace
  <2>3. payload_len(heap, p) = m.len - 1 BY <1>4, <2>2 DEF payload_len
  <2>4. x \in p .. p + (m.len - 1) - 1 BY <2>3 DEF Payload
  <2>5. x \in Int /\ x >= BrkLimit /\ x \in Region(m.base, m.len)
    BY <2>1, <2>2, <2>4, HeapConstants DEF Region
  <2> QED BY <2>1, <2>5
<1> QED BY <1>3, <1>4

\* The payloads of two pointers share no granule.
LEMMA PayloadsApart ==
  ASSUME HeapInv, phase = "ready", NEW p \in DOMAIN live, NEW q \in DOMAIN live, p # q,
         NEW x \in Payload(heap, p), x \in Payload(heap, q)
  PROVE  FALSE
<1>1. Shape(heap, heap_start_, blocks, FreeBlocks) BY Unpack
<1>2. p \in Nat /\ q \in Nat BY HeldKinds
<1>3. CASE p - 1 \in blocks /\ q - 1 \in blocks /\ x \in Int
           /\ p - 1 < x /\ x < footer_of(heap, p - 1)
           /\ q - 1 < x /\ x < footer_of(heap, q - 1)
  <2> DEFINE b == p - 1
             c == q - 1
  <2>1. /\ b < c => footer_of(heap, b) < c
        /\ c < b => footer_of(heap, c) < b
    BY <1>1, <1>3 DEF Shape, Tiled
  <2>2. footer_of(heap, b) \in Int /\ footer_of(heap, c) \in Int
    BY <1>1, <1>3, ShapeCells DEF Cell
  <2>3. b \in Int /\ c \in Int /\ b # c BY <1>2
  <2>4. b < x /\ x < footer_of(heap, b) /\ c < x /\ x < footer_of(heap, c) /\ x \in Int
    BY <1>3
  <2> HIDE DEF b, c
  <2> QED BY <2>1, <2>2, <2>3, <2>4
<1>4. ASSUME NEW m \in maps, NEW k \in maps, p = m.base + 1, q = k.base + 1,
             x \in Region(m.base, m.len), x \in Region(k.base, k.len)
      PROVE  FALSE
  BY <1>4 DEF HeapInv, MapsApart
<1>5. ~(x < BrkLimit /\ x >= BrkLimit /\ x \in Int) BY HeapConstants
<1> QED BY <1>3, <1>4, <1>5, PayloadPlace

\* The program holds exactly the used blocks and the mapped regions.
THEOREM NothingLost == Spec => []Accounted
<1>1. HeapInv => Accounted BY DEF HeapInv
<1> QED BY <1>1, Invariance, PTL

\* The search of malloc never stands on a block that is not free.
THEOREM CursorSafe == Spec => []CursorOnFreeList
<1>1. HeapInv => CursorOnFreeList BY DEF HeapInv
<1> QED BY <1>1, Invariance, PTL

\* munmap is always given a region that mmap returned, with its length.
THEOREM MapsKept == Spec => []MapsHeaded
<1>1. HeapInv => MapsHeaded BY DEF HeapInv
<1> QED BY <1>1, Invariance, PTL

\* What the program writes through one pointer reaches neither the words the
\* allocator relies on nor the payload behind another pointer.
THEOREM Separation == Spec => []PayloadsDisjoint
<1>1. HeapInv => PayloadsDisjoint
  BY PayloadClear, PayloadsApart DEF PayloadsDisjoint
<1> QED BY <1>1, Invariance, PTL

-----------------------------------------------------------------------------
(* Free blocks are always coalesced, and growth makes room.  That no free  *)
(* block follows a free block is not inductive in terms of footers, which  *)
(* every merge moves: the proof keeps instead that a used block lies       *)
(* between any two free ones, which speaks of the set of headers only.     *)

\* Between two of the free blocks F lies a used one of bs.
Parted(bs, F) ==
  \A x, y \in F : x < y => \E u \in bs \ F : x < u /\ u < y

FreeParted == Parted(blocks, FreeBlocks)

-----------------------------------------------------------------------------
(* Tilings                                                                 *)

\* What lies behind a block lies behind its footer, and nothing lies between a
\* block and the one that follows it.
LEMMA NothingBetween ==
  ASSUME NEW h, NEW start, NEW bs, NEW F, Shape(h, start, bs, F),
         NEW b \in bs, NEW u \in bs
  PROVE  /\ b \in Int /\ u \in Int /\ start < b /\ footer_of(h, b) \in Int
         /\ b < footer_of(h, b) /\ footer_of(h, b) < h.p_brk_ - 1
         /\ b < u => footer_of(h, b) < u /\ after(h, b) <= u
         /\ after(h, b) = footer_of(h, b) + 1
         /\ u < h.p_brk_ - 1 /\ h.p_brk_ \in Int
<1>1. Cell(h, start, b) /\ Cell(h, start, u) BY ShapeCells
<1>2. h.p_brk_ \in Int BY ShapeApart
<1>3. b < u => footer_of(h, b) < u BY DEF Shape, Tiled
<1> QED BY <1>1, <1>2, <1>3 DEF Cell

\* A free block that follows a free block would leave no place for a used one.
LEMMA PartedApart ==
  ASSUME NEW h, NEW start, NEW bs, NEW F, Shape(h, start, bs, F), Parted(bs, F),
         NEW b \in F
  PROVE  after(h, b) \notin F
<1> SUFFICES ASSUME after(h, b) \in F PROVE FALSE
  OBVIOUS
<1>1. b \in bs /\ after(h, b) \in bs BY DEF Shape
<1>2. b < after(h, b) BY <1>1, NothingBetween
<1>3. PICK u \in bs \ F : b < u /\ u < after(h, b) BY <1>2 DEF Parted
<1>4. after(h, b) <= u /\ u \in Int /\ after(h, b) \in Int BY <1>1, <1>3, NothingBetween
<1> QED BY <1>3, <1>4

\* The rest of a block that malloc splits follows the front, which is used.
LEMMA SplitParted ==
  ASSUME NEW h, NEW start, NEW bs, NEW F, Shape(h, start, bs, F), Parted(bs, F),
         NEW c \in F, NEW n \in Nat, h.size[c] - n > 2, c + 2 + n \notin bs
  PROVE  Parted(bs \cup {c + 2 + n}, (F \ {c}) \cup {c + 2 + n})
<1> DEFINE d == c + 2 + n
           G == (F \ {c}) \cup {d}
<1>1. F \subseteq bs /\ c \in bs BY DEF Shape
<1>2. c \in Int /\ d \in Int /\ c < d /\ d < footer_of(h, c) /\ footer_of(h, c) \in Int
  BY <1>1, ShapeCells DEF Cell
<1>3. d \notin bs OBVIOUS
<1> HIDE DEF d
<1>4. bs \ F \subseteq (bs \cup {d}) \ G /\ c \in (bs \cup {d}) \ G BY <1>1, <1>2, <1>3
<1>5. ASSUME NEW x \in G, NEW y \in G, x < y
      PROVE  \E u \in (bs \cup {d}) \ G : x < u /\ u < y
  <2>1. CASE x \in F /\ y \in F
    <3>1. PICK u \in bs \ F : x < u /\ u < y BY <2>1, <1>5 DEF Parted
    <3> QED BY <3>1, <1>4
  <2>2. CASE x = d /\ y \in F
    <3>0. y \in bs BY <2>2, <1>1
    <3>1. y \in Int /\ c < y
      <4>1. y \in Int BY <3>0, <1>1, NothingBetween
      <4>2. d < y BY <2>2, <1>5
      <4> QED BY ONLY <4>1, <4>2, <1>2
    <3>2. PICK u \in bs \ F : c < u /\ u < y BY <3>1, <2>2 DEF Parted
    <3>3. u \in Int /\ footer_of(h, c) < u BY <3>2, <1>1, NothingBetween
    <3>4. x < u BY <3>3, <2>2, <1>2
    <3> QED BY <3>2, <3>4, <1>4
  <2>3. CASE x \in F \ {c} /\ y = d
    <3>1. x \in Int /\ (c < x => footer_of(h, c) < x) BY <2>3, <1>1, NothingBetween
    <3>2. x < c BY <3>1, <2>3, <1>2, <1>5
    <3> QED BY <3>2, <2>3, <1>2, <1>4
  <2>4. ~(x = d /\ y = d) BY <1>2, <1>5
  <2> QED BY <2>1, <2>2, <2>3, <2>4, <1>5
<1>6. Parted(bs \cup {d}, G) BY <1>5 DEF Parted
<1> QED BY <1>6 DEF d

\* A block that is used from now on parts more than before.
LEMMA TakeParted ==
  ASSUME NEW bs, NEW F, Parted(bs, F), NEW c
  PROVE  Parted(bs, F \ {c})
BY DEF Parted

\* free() joins the block with every free neighbour.
LEMMA ReleaseParted ==
  ASSUME NEW h, NEW start, NEW bs, NEW F, Shape(h, start, bs, F), Parted(bs, F),
         NEW b \in bs \ F
  PROVE  Parted(bs \ Merged(h, b), (F \cup {b}) \ Merged(h, b))
<1> DEFINE M == Merged(h, b)
           G == (F \cup {b}) \ M
           d == after(h, b)
           c == header_of(h, b - 1)
<1>1. F \subseteq bs /\ b \in bs BY DEF Shape
<1>2. /\ next_is_free(h, b) <=> d \in F
      /\ d \in bs \cup {h.p_brk_ - 1}
  <2>1. h.info[d] # USED_NORMAL <=> d \in F BY NextTag
  <2> QED BY <2>1 DEF next_is_free, after, Shape, Tiled
<1>3. /\ prev_is_free(h, b) <=> b # start + 1 /\ c \in F
      /\ b # start + 1 => c \in bs /\ c # b /\ after(h, c) = b
  BY PrevTag DEF prev_is_free
<1>4. /\ prev_is_free(h, b) => b \in M
      /\ d \in F => d \in M
      /\ M \subseteq F \cup {b}
  BY <1>2 DEF Merged, after
<1>5. b \in Int /\ d \in Int /\ b < d
  BY <1>1, ShapeCells DEF Cell
<1>6. (bs \ F) \ {b} \subseteq (bs \ M) \ G BY <1>4
<1> HIDE DEF M, c, d
\* Between b and a free block that is left behind it.
<1>7. ASSUME NEW y \in G, b < y
      PROVE  \E u \in (bs \ M) \ G : b < u /\ u < y
  <2>1. y \in F /\ y \in bs /\ y \in Int /\ d <= y /\ y < h.p_brk_ - 1
    BY <1>1, <1>5, <1>7, NothingBetween DEF d
  <2>2. CASE d \in F
    <3>1. d < y BY <2>1, <2>2, <1>4, <1>5
    <3>2. PICK u \in bs \ F : d < u /\ u < y BY <2>1, <2>2, <3>1 DEF Parted
    <3>3. u \in Int /\ b < u BY <3>2, <1>1, <1>5, NothingBetween
    <3> QED BY <3>2, <3>3, <1>5, <1>6
  <2>3. CASE d \notin F
    <3>1. d < y BY <2>1, <2>3, <1>5
    <3>2. d \in bs
      <4>1. h.p_brk_ \in Int BY ShapeApart
      <4> QED BY <4>1, <2>1, <3>1, <1>2, <1>5
    <3> QED BY <3>1, <3>2, <2>3, <1>5, <1>6
  <2> QED BY <2>2, <2>3
\* Between a free block and b, when b is not joined to the one before it.
<1>8. ASSUME NEW x \in F, x < b, b \notin M
      PROVE  \E u \in (bs \ M) \ G : x < u /\ u < b
  <2>1. x \in Int /\ start < x /\ start \in Int
    BY <1>1, <1>8, NothingBetween, ShapeApart
  <2>2. b # start + 1 BY <2>1, <1>5, <1>8
  <2>3. c \in bs /\ c # b /\ after(h, c) = b /\ c \notin F BY <2>2, <1>3, <1>4, <1>8
  <2>4. c \in Int /\ c < b /\ (c < x => b <= x)
    BY <2>3, <1>1, <1>5, NothingBetween
  <2>5. x < c BY <2>1, <2>3, <2>4, <1>5, <1>8
  <2> QED BY <2>3, <2>4, <2>5, <1>6
<1>9. ASSUME NEW x \in G, NEW y \in G, x < y
      PROVE  \E u \in (bs \ M) \ G : x < u /\ u < y
  <2>1. x \in Int /\ y \in Int BY <1>1, ShapeCells DEF Cell
  <2>2. CASE x = b BY <2>2, <1>7, <1>9
  <2>3. CASE y = b BY <2>3, <1>5, <1>8, <1>9
  <2>4. CASE x \in F /\ y \in F
    <3>1. PICK u \in bs \ F : x < u /\ u < y BY <2>4, <1>9 DEF Parted
    <3>2. CASE u # b BY <3>1, <3>2, <1>6
    <3>3. CASE u = b
      <4>1. PICK v \in (bs \ M) \ G : b < v /\ v < y BY <3>1, <3>3, <1>7
      <4>2. v \in Int BY <4>1, ShapeCells DEF Cell
      <4>3. x < v BY <4>1, <4>2, <3>1, <3>3, <2>1, <1>5
      <4> QED BY <4>1, <4>3
    <3> QED BY <3>2, <3>3
  <2> QED BY <2>2, <2>3, <2>4, <1>9
<1>10. Parted(bs \ M, G) BY <1>9 DEF Parted
<1> QED BY <1>10 DEF M

\* New memory behind a used block is parted from all other free blocks.
LEMMA AppendParted ==
  ASSUME NEW h, NEW start, NEW bs, NEW F, Shape(h, start, bs, F), Parted(bs, F),
         h.info[h.p_brk_ - 2] = USED_NORMAL
  PROVE  Parted(bs \cup {h.p_brk_ - 1}, F \cup {h.p_brk_ - 1})
<1> DEFINE d == h.p_brk_ - 1
           l == header_of(h, h.p_brk_ - 2)
<1>1. F \subseteq bs BY DEF Shape
<1>2. l \in bs /\ footer_of(h, l) = h.p_brk_ - 2 BY LastBlock
<1>3. l \notin F BY <1>2, LinksNotMagic
<1>4. d \in Int /\ h.p_brk_ \in Int BY ShapeApart
<1> HIDE DEF l
<1>5. ASSUME NEW x \in bs PROVE x \in Int /\ x < d /\ x <= l
  <2>1. x \in Int /\ x < d /\ (l < x => footer_of(h, l) < x) /\ l \in Int
    BY <1>2, NothingBetween
  <2> QED BY <2>1, <1>2, <1>4
<1> HIDE DEF d
<1>6. l \in (bs \cup {d}) \ (F \cup {d}) /\ bs \ F \subseteq (bs \cup {d}) \ (F \cup {d})
  <2>1. d \notin bs BY <1>4, <1>5
  <2> QED BY <2>1, <1>2, <1>3
<1>7. ASSUME NEW x \in F \cup {d}, NEW y \in F \cup {d}, x < y
      PROVE  \E u \in (bs \cup {d}) \ (F \cup {d}) : x < u /\ u < y
  <2>1. x \in F BY <1>1, <1>4, <1>5, <1>7
  <2>2. CASE y = d
    <3>1. x < l /\ l < d BY <2>1, <1>1, <1>2, <1>3, <1>5
    <3> QED BY <3>1, <2>2, <1>6
  <2>3. CASE y \in F
    <3>1. PICK u \in bs \ F : x < u /\ u < y BY <2>1, <2>3, <1>7 DEF Parted
    <3> QED BY <3>1, <1>6
  <2> QED BY <2>2, <2>3
<1>8. Parted(bs \cup {d}, F \cup {d}) BY <1>7 DEF Parted
<1> QED BY <1>8 DEF d

\* The block with the highest header reaches to the dummy header.
LEMMA HighestIsLast ==
  ASSUME NEW h, NEW start, NEW bs, NEW F, Shape(h, start, bs, F),
         NEW m \in bs, \A x \in bs : x <= m
  PROVE  /\ m \in Int /\ h.p_brk_ \in Int
         /\ h.size[m] = h.p_brk_ - 3 - m
<1> DEFINE l == header_of(h, h.p_brk_ - 2)
<1>1. l \in bs /\ footer_of(h, l) = h.p_brk_ - 2 BY LastBlock
<1> HIDE DEF l
<1>2. /\ m \in Int /\ l \in Int /\ h.p_brk_ \in Int /\ m < h.p_brk_ - 1
      /\ footer_of(h, m) \in Int /\ m < footer_of(h, m)
      /\ footer_of(h, m) < h.p_brk_ - 1
      /\ l < m => footer_of(h, l) < m
  BY <1>1, NothingBetween
<1>3. l = m
  <2>1. l <= m BY <1>1
  <2> QED BY <2>1, <1>1, <1>2
<1>4. footer_of(h, m) = m + 1 + h.size[m] /\ h.size[m] \in Nat BY ShapeCells DEF Cell
<1> QED BY <1>1, <1>2, <1>3, <1>4

-----------------------------------------------------------------------------
(* The actions                                                             *)

\* Steps that leave the headers and the tags of the blocks alone.
LEMMA SameParted ==
  ASSUME FreeParted, blocks' = blocks, FreeBlocks' = FreeBlocks
  PROVE  FreeParted'
BY DEF FreeParted, Parted

\* The block that malloc takes no longer counts as free, the rest of it does.
LEMMA TakeStep ==
  ASSUME HeapInv, FreeParted, malloc_take
  PROVE  FreeParted' /\ heap'.p_brk_ = heap.p_brk_
<1> DEFINE b == call.current
           n == call.n
           d == b + 2 + n
           G == (FreeBlocks \ {b}) \cup {d}
<1>1. phase = "ready" /\ b \in FreeBlocks /\ n \in Nat
  BY DEF HeapInv, CursorOnFreeList, malloc_take, TypeOK
<1>2. Shape(heap, heap_start_, blocks, FreeBlocks) BY <1>1, Unpack
<1>3. Parted(blocks, FreeBlocks) BY DEF FreeParted
<1>4. /\ heap' = take(heap, b, n) /\ heap_start_' = heap_start_
      /\ blocks' = IF splits(heap, b, n) THEN blocks \cup {d} ELSE blocks
  BY DEF malloc_take
<1> HIDE DEF b, n
<1>5. CASE splits(heap, b, n)
  <2>1. FrontTaken(heap, heap', heap_start_, blocks, FreeBlocks, b, n)
    BY <1>1, <1>2, <1>4, <1>5, TakeSplitShape
  <2>2. /\ Shape(heap', heap_start_, blocks \cup {d}, G) /\ d \notin blocks
        /\ heap'.p_brk_ = heap.p_brk_
    BY <2>1 DEF FrontTaken
  <2>3. heap.size[b] - n > 2 BY <1>5 DEF splits
  <2>4. Parted(blocks \cup {d}, G)
    BY <1>1, <1>2, <1>3, <2>2, <2>3, SplitParted
  <2>5. blocks' = blocks \cup {d} BY <1>4, <1>5
  <2> HIDE DEF d, G
  <2>6. FreeBlocks' = G BY <2>2, <2>5, <1>4, Pack
  <2> QED BY <2>2, <2>4, <2>5, <2>6 DEF FreeParted
<1>6. CASE ~splits(heap, b, n)
  <2>1. WholeTaken(heap, heap', heap_start_, blocks, FreeBlocks, b)
    BY <1>1, <1>2, <1>4, <1>6, TakeWholeShape
  <2>2. /\ Shape(heap', heap_start_, blocks, FreeBlocks \ {b})
        /\ heap'.p_brk_ = heap.p_brk_
    BY <2>1 DEF WholeTaken
  <2>3. Parted(blocks, FreeBlocks \ {b}) BY <1>3, TakeParted
  <2>4. blocks' = blocks BY <1>4, <1>6
  <2>5. FreeBlocks' = FreeBlocks \ {b} BY <2>2, <2>4, <1>4, Pack
  <2> QED BY <2>2, <2>3, <2>4, <2>5 DEF FreeParted
<1> QED BY <1>5, <1>6

\* Growing joins the new memory to a free last block; either way the last block
\* is then free and holds what the call needs.
LEMMA GrowStep ==
  ASSUME HeapInv, FreeParted, malloc_grow
  PROVE  FreeParted' /\ \E b \in FreeBlocks' : heap'.size[b] >= call'.n
<1> DEFINE room == at_least(call.n, 2)
           e == round_to_page(heap.p_brk_ + grow_size(call.n))
           d == heap.p_brk_ - 1
           l == header_of(heap, heap.p_brk_ - 2)
           nofree == heap.info[heap.p_brk_ - 2] = USED_NORMAL
<1>1. phase = "ready" /\ call.n \in Nat /\ heap.p_brk_ \in Nat
  BY HeapConstants DEF HeapInv, CursorOnFreeList, malloc_grow, TypeOK
<1>2. Shape(heap, heap_start_, blocks, FreeBlocks) BY <1>1, Unpack
<1>3. Parted(blocks, FreeBlocks) BY DEF FreeParted
<1>4. /\ heap' = extend(heap, e) /\ e <= BrkLimit
      /\ blocks' = IF nofree THEN blocks \cup {d} ELSE blocks
      /\ call'.n = room /\ heap_start_' = heap_start_
  BY DEF malloc_grow, extended_blocks, last_is_free, HeapInv, TypeOK
<1>5. e \in Nat /\ room \in Nat /\ e >= heap.p_brk_ + room + 2
      /\ e >= heap.p_brk_ + 2 /\ e > heap.p_brk_
  <2>1. room \in Nat /\ grow_size(call.n) = room + 2
    BY <1>1 DEF grow_size, at_least
  <2> HIDE DEF room
  <2>2. e \in Nat /\ e >= heap.p_brk_ + grow_size(call.n) BY <1>1, <2>1, RoundUp
  <2> HIDE DEF e
  <2> QED BY <1>1, <2>1, <2>2
<1> HIDE DEF e, room
<1>6. l \in blocks /\ footer_of(heap, l) = heap.p_brk_ - 2 BY <1>2, LastBlock
<1> HIDE DEF l
<1>7. ASSUME NEW x \in blocks PROVE x \in Int /\ x <= l /\ l \in Int /\ l <= d
  <2>1. Cell(heap, heap_start_, x) /\ Cell(heap, heap_start_, l) BY <1>2, <1>6, ShapeCells
  <2>2. l < x => footer_of(heap, l) < x BY <1>2, <1>6 DEF Shape, Tiled
  <2> QED BY <2>1, <2>2, <1>1, <1>6 DEF Cell
<1>8. CASE nofree
  <2> DEFINE bs == blocks \cup {d}
             F == FreeBlocks \cup {d}
  <2>1. Extended(heap, heap', heap_start_, blocks, FreeBlocks, e)
    BY <1>2, <1>4, <1>5, <1>8, ExtendUsedShape
  <2>2. Shape(heap', heap_start_, bs, F) /\ heap'.p_brk_ = e BY <2>1 DEF Extended
  <2>3. Parted(bs, F) BY <1>2, <1>3, <1>8, AppendParted
  <2>4. d \in bs /\ d \in F /\ \A x \in bs : x <= d
    <3>1. d \in Int BY <1>1
    <3>2. ASSUME NEW x \in blocks PROVE x <= d BY <1>7, <3>1
    <3> QED BY <3>1, <3>2
  <2>5. blocks' = bs BY <1>4, <1>8
  <2> HIDE DEF bs, F, d
  <2>6. FreeBlocks' = F BY <2>2, <2>5, <1>4, Pack
  <2>7. heap'.size[d] = e - 3 - d BY <2>2, <2>4, HighestIsLast
  <2>8. heap'.size[d] >= room BY <2>7, <1>1, <1>5 DEF d
  <2> QED BY <2>3, <2>4, <2>5, <2>6, <2>8, <1>4 DEF FreeParted
<1>9. CASE ~nofree
  <2>1. Stretched(heap, heap', heap_start_, blocks, FreeBlocks, e)
    BY <1>2, <1>4, <1>5, <1>9, ExtendFreeShape
  <2>2. Shape(heap', heap_start_, blocks, FreeBlocks) /\ heap'.p_brk_ = e
    BY <2>1 DEF Stretched
  <2>3. l \in FreeBlocks BY <1>2, <1>6, <1>9 DEF Shape
  <2>4. blocks' = blocks BY <1>4, <1>9
  <2>5. FreeBlocks' = FreeBlocks BY <2>2, <2>4, <1>4, Pack
  <2>6. l \in Int /\ l <= d /\ heap'.size[l] = e - 3 - l
    BY <2>2, <1>6, <1>7, HighestIsLast
  <2>7. heap'.size[l] >= room BY <2>6, <1>1, <1>5
  <2> QED BY <2>3, <2>4, <2>5, <2>7, <1>4, SameParted
<1> QED BY <1>8, <1>9

\* free() coalesces both ways.
LEMMA FreeStays ==
  ASSUME HeapInv, FreeParted, NEW p \in DOMAIN live, free(p)
  PROVE  FreeParted' /\ heap'.p_brk_ = heap.p_brk_
<1> DEFINE b == p - 1
           F == (FreeBlocks \cup {b}) \ Merged(heap, b)
<1>1. phase = "ready" /\ heap.info[b] # USED_MMAP BY DEF free, ready
<1>2. Shape(heap, heap_start_, blocks, FreeBlocks) BY <1>1, Unpack
<1>3. b \in blocks \ FreeBlocks BY <1>1, HeldKinds
<1>4. /\ heap' = release(heap, b) /\ blocks' = blocks \ Merged(heap, b)
      /\ heap_start_' = heap_start_
  BY DEF free, Merged
<1> HIDE DEF b
<1>5. Released(heap, heap', heap_start_, blocks, FreeBlocks, b)
  BY <1>2, <1>3, <1>4, ReleaseShape
<1>6. Shape(heap', heap_start_', blocks', F) /\ heap'.p_brk_ = heap.p_brk_
  BY <1>4, <1>5 DEF Released
<1>7. Parted(blocks', F)
  <2>1. Parted(blocks, FreeBlocks) BY DEF FreeParted
  <2> QED BY <2>1, <1>2, <1>3, <1>4, ReleaseParted
<1> HIDE DEF F
<1>8. FreeBlocks' = F BY <1>6, Pack
<1> QED BY <1>6, <1>7, <1>8 DEF FreeParted

\* A map lies above the heap.
LEMMA MapStep ==
  ASSUME HeapInv, FreeParted, NEW n \in Requests, malloc_mmap(n)
  PROVE  FreeParted' /\ heap'.p_brk_ = heap.p_brk_
<1>1. phase = "ready" /\ blocks' = blocks BY DEF malloc_mmap, ready
<1>2. heap \in HeapType BY DEF HeapInv, TypeOK, HeapType
<1>3. PICK base \in BrkLimit .. MemTop - 1 :
        /\ mappable(base, map_length(align(n)))
        /\ heap'.p_brk_ = heap.p_brk_
        /\ heap'.info = [a \in Addr |->
             IF a = base THEN USED_MMAP
             ELSE IF a \in Region(base, map_length(align(n))) THEN 0 ELSE heap.info[a]]
  BY <1>2 DEF malloc_mmap, HeapType
<1>4. ASSUME NEW b \in blocks PROVE heap'.info[b] = heap.info[b]
  <2>1. Cell(heap, heap_start_, b)
    <3>1. Shape(heap, heap_start_, blocks, FreeBlocks) BY <1>1, Unpack
    <3> QED BY <3>1, ShapeCells
  <2>2. heap.p_brk_ \in 0 .. BrkLimit BY <1>2 DEF HeapType
  <2>3. b \in Addr /\ b < BrkLimit /\ b \in Int BY <2>1, <2>2, HeapConstants DEF Cell
  <2>4. b \notin BrkLimit .. MemTop - 1 BY <2>3, HeapConstants
  <2>5. b # base /\ b \notin Region(base, map_length(align(n)))
    BY <2>4, <1>3 DEF mappable
  <2> QED BY <2>3, <2>5, <1>3
<1>5. FreeBlocks' = FreeBlocks BY <1>1, <1>4 DEF FreeBlocks, is_used
<1> QED BY <1>1, <1>3, <1>5, SameParted

\* A store reaches no header.
LEMMA StoreStays ==
  ASSUME HeapInv, FreeParted, NEW p \in DOMAIN live, NEW w \in Junk, write(p, w)
  PROVE  FreeParted' /\ heap'.p_brk_ = heap.p_brk_
<1>1. phase = "ready" /\ blocks' = blocks BY DEF write
<1>2. /\ heap'.p_brk_ = heap.p_brk_
      /\ heap'.info = [a \in Addr |-> IF a \in Payload(heap, p) THEN w ELSE heap.info[a]]
  BY DEF write, HeapInv, TypeOK
<1>3. ASSUME NEW b \in blocks PROVE heap'.info[b] = heap.info[b]
  <2>1. b \in Addr /\ b \in Metadata BY DEF HeapInv, TypeOK, Metadata
  <2>2. b \notin Payload(heap, p) BY <2>1, <1>1, PayloadClear
  <2> QED BY <2>1, <2>2, <1>2
<1>4. FreeBlocks' = FreeBlocks BY <1>1, <1>3 DEF FreeBlocks, is_used
<1> QED BY <1>1, <1>2, <1>4, SameParted

\* The first heap is a single free block.
LEMMA BootStep ==
  ASSUME NEW break \in InitialBreaks, heap_init(break), HeapInv'
  PROVE  FreeParted' /\ phase # "ready"
<1>1. PICK s : blocks' = {s} BY DEF heap_init
<1>2. FreeBlocks' \subseteq {s} BY <1>1 DEF FreeBlocks
<1>3. phase = "boot" BY DEF heap_init
<1>4. ASSUME NEW x \in FreeBlocks', NEW y \in FreeBlocks' PROVE ~(x < y)
  <2>1. x \in Int BY HeapConstants DEF HeapInv, TypeOK, Addr, FreeBlocks
  <2>2. x = s /\ y = s BY <1>2
  <2> QED BY <2>1, <2>2
<1>5. FreeParted' BY <1>4 DEF FreeParted, Parted
<1> QED BY <1>3, <1>5

\* What a step of the heap does to the free blocks, and to the break.
LEMMA PartedStep ==
  ASSUME HeapInv, FreeParted, [Next]_vars
  PROVE  /\ FreeParted'
         /\ heap'.p_brk_ # heap.p_brk_ /\ phase = "ready" =>
              \E b \in FreeBlocks' : heap'.size[b] >= call'.n
<1>1. CASE heap' = heap /\ blocks' = blocks
  <2>1. FreeBlocks' = FreeBlocks BY <1>1 DEF FreeBlocks
  <2> QED BY <1>1, <2>1, SameParted
<1>2. ASSUME NEW break \in InitialBreaks, heap_init(break)
      PROVE  FreeParted' /\ phase # "ready"
  BY <1>2, NextInv, BootStep
<1>3. CASE malloc_take BY <1>3, TakeStep
<1>4. CASE malloc_grow BY <1>4, GrowStep
<1>5. ASSUME NEW n \in Requests, malloc_mmap(n)
      PROVE  FreeParted' /\ heap'.p_brk_ = heap.p_brk_
  BY <1>5, MapStep
<1>6. ASSUME NEW p \in DOMAIN live, free(p)
      PROVE  FreeParted' /\ heap'.p_brk_ = heap.p_brk_
  BY <1>6, FreeStays
<1>7. ASSUME NEW p \in DOMAIN live, NEW w \in Junk, store(p, w)
      PROVE  FreeParted' /\ heap'.p_brk_ = heap.p_brk_
  BY <1>7, StoreStays DEF store
<1>8. CASE heap_init_fails \/ malloc_next \/ malloc_fail \/ free_null \/ exited
           \/ UNCHANGED vars
  <2>1. heap' = heap /\ blocks' = blocks
    BY <1>8 DEF heap_init_fails, malloc_next, malloc_fail, free_null, exited, vars
  <2> QED BY <2>1, <1>1
<1>9. ASSUME NEW n \in Requests, malloc(n) \/ malloc_mmap_fails(n)
      PROVE  heap' = heap /\ blocks' = blocks
  BY <1>9 DEF malloc, malloc_mmap_fails, vars
<1>10. ASSUME NEW p \in DOMAIN live, free_mmap(p)
       PROVE  heap' = heap /\ blocks' = blocks
  BY <1>10 DEF free_mmap
<1> QED
  BY <1>1, <1>2, <1>3, <1>4, <1>5, <1>6, <1>7, <1>8, <1>9, <1>10
  DEF Next, malloc_step

LEMMA InitParted == Init => FreeParted
BY DEF Init, FreeBlocks, FreeParted, Parted

\* At every step a used block lies between any two free ones.
LEMMA AlwaysParted == Spec => [](HeapInv /\ FreeParted)
<1>1. Init => HeapInv /\ FreeParted BY InitInv, InitParted
<1>2. HeapInv /\ FreeParted /\ [Next]_vars => (HeapInv /\ FreeParted)'
  BY NextInv, PartedStep
<1> QED BY <1>1, <1>2, PTL DEF Spec

\* free() and extend() always coalesce: no free block ever follows another,
\* whatever is freed and in whatever order.
THEOREM AlwaysCoalesced == Spec => []Coalesced
<1>1. HeapInv /\ FreeParted => Coalesced
  <2> SUFFICES ASSUME HeapInv, FreeParted, NEW b \in FreeBlocks
               PROVE  after(heap, b) \notin FreeBlocks
    BY DEF Coalesced
  <2>1. phase = "ready" BY DEF HeapInv, NothingYet, FreeBlocks
  <2>2. Shape(heap, heap_start_, blocks, FreeBlocks) BY <2>1, Unpack
  <2> QED BY <2>2, PartedApart DEF FreeParted
<1> QED BY <1>1, AlwaysParted, PTL

\* When malloc has moved the break, a free block is large enough: the search
\* that starts again does not come back for more memory.
THEOREM RoomAfterGrowth == Spec => GrowthMakesRoom
<1>1. HeapInv /\ FreeParted /\ [Next]_vars =>
        [heap'.p_brk_ # heap.p_brk_ /\ phase = "ready" =>
           \E b \in FreeBlocks' : heap'.size[b] >= call'.n]_vars
  BY PartedStep
<1> QED BY <1>1, AlwaysParted, PTL DEF Spec, GrowthMakesRoom

-----------------------------------------------------------------------------
(* What malloc relies on when it searches the free list: a walk along the  *)
(* next links from head_ ends and visits every free block, and the loop    *)
(* has looked at all of them when it gives up.                             *)

\* The blocks a search has passed over are the front of the list, up to the
\* cursor, and all are too small.
Passed ==
  call.pc = "scan" =>
    \E P \in SUBSET FreeBlocks :
      /\ heap.head_ \in P \cup {call.current}
      /\ \A b \in P : /\ heap.size[b] < call.n
                      /\ heap.info[b] \in P \cup {call.current}

\* Before __heap_init the free list is empty.
NoListYet == phase # "ready" => heap.head_ = NULL

LEMMA InitList == Init => Passed /\ NoListYet
BY DEF Init, Passed, NoListYet, idle

\* A call that is idle has passed nothing.
LEMMA IdlePassed ==
  ASSUME call'.pc = "idle"
  PROVE  Passed'
BY DEF Passed

\* The search starts at head_, before all blocks.
LEMMA HeadPassed ==
  ASSUME call'.current = heap'.head_
  PROVE  Passed'
<1>1. {} \in SUBSET FreeBlocks' /\ heap'.head_ \in {} \cup {call'.current} OBVIOUS
<1> QED BY <1>1 DEF Passed

\* The loop of malloc passes over one block that is too small.
LEMMA NextPassed ==
  ASSUME HeapInv, Passed, malloc_next
  PROVE  Passed'
<1>1. /\ call.pc = "scan" /\ heap' = heap /\ blocks' = blocks
      /\ heap.size[call.current] < call.n
      /\ call \in [pc: {"idle", "scan"}, n: Nat, asked: Nat, current: Int]
      /\ call' = [call EXCEPT !.current = heap.info[call.current]]
  BY DEF malloc_next, HeapInv, TypeOK
<1>2. call'.n = call.n /\ call'.current = heap.info[call.current] BY <1>1
<1>3. FreeBlocks' = FreeBlocks BY <1>1 DEF FreeBlocks
<1>4. call.current \in FreeBlocks
  BY DEF malloc_next, HeapInv, CursorOnFreeList
<1>5. PICK P \in SUBSET FreeBlocks :
        /\ heap.head_ \in P \cup {call.current}
        /\ \A b \in P : /\ heap.size[b] < call.n
                        /\ heap.info[b] \in P \cup {call.current}
  BY <1>1 DEF Passed
<1> DEFINE Q == P \cup {call.current}
<1>6. Q \in SUBSET FreeBlocks' /\ heap'.head_ \in Q \cup {call'.current}
  BY <1>1, <1>3, <1>4, <1>5
<1>7. \A b \in Q : /\ heap'.size[b] < call'.n
                   /\ heap'.info[b] \in Q \cup {call'.current}
  BY <1>1, <1>2, <1>5
<1> HIDE DEF Q
<1> QED BY <1>6, <1>7 DEF Passed

\* Every step of the heap keeps the front of the list passed over.
LEMMA ListStep == HeapInv /\ Passed /\ NoListYet /\ [Next]_vars => (Passed /\ NoListYet)'
<1> SUFFICES ASSUME HeapInv, Passed, NoListYet, [Next]_vars PROVE (Passed /\ NoListYet)'
  OBVIOUS
<1>1. CASE \E break \in InitialBreaks : heap_init(break)
  <2>1. phase = "boot" /\ phase' = "ready" /\ call' = call BY <1>1 DEF heap_init
  <2>2. call.pc = "idle" BY <2>1 DEF HeapInv, NothingYet, idle
  <2> QED BY <2>1, <2>2, IdlePassed DEF NoListYet
<1>2. CASE UNCHANGED <<heap, call, blocks>> /\ (phase = "ready" => phase' = "ready")
  <2>1. FreeBlocks' = FreeBlocks BY <1>2 DEF FreeBlocks
  <2> QED BY <1>2, <2>1 DEF Passed, NoListYet
<1>3. CASE heap_init_fails BY <1>2, <1>3 DEF heap_init_fails
<1>4. ASSUME NEW n \in Requests, malloc(n) PROVE (Passed /\ NoListYet)'
  <2>1. call'.current = heap'.head_ /\ phase' = "ready" BY <1>4 DEF malloc, ready
  <2> QED BY <2>1, HeadPassed DEF NoListYet
<1>5. ASSUME call.pc = "idle", call' = call, phase' = "ready" PROVE (Passed /\ NoListYet)'
  BY <1>5, IdlePassed DEF NoListYet
<1>6. ASSUME NEW n \in Requests, malloc_mmap(n) PROVE (Passed /\ NoListYet)'
  BY <1>5, <1>6 DEF malloc_mmap, ready
<1>7. ASSUME NEW n \in Requests, malloc_mmap_fails(n) PROVE (Passed /\ NoListYet)'
  BY <1>2, <1>7 DEF malloc_mmap_fails, vars
<1>8. ASSUME call.pc = "scan" PROVE phase = "ready"
  BY <1>8 DEF HeapInv, CursorOnFreeList
<1>9. CASE malloc_next
  <2>1. Passed' BY <1>9, NextPassed
  <2>2. phase' = "ready" BY <1>8, <1>9 DEF malloc_next
  <2> QED BY <2>1, <2>2 DEF NoListYet
<1>10. CASE malloc_take
  BY <1>8, <1>10, IdlePassed DEF malloc_take, idle, NoListYet
<1>11. CASE malloc_grow
  <2>1. call \in [pc: {"idle", "scan"}, n: Nat, asked: Nat, current: Int]
    BY DEF HeapInv, TypeOK
  <2>2. call' = [call EXCEPT !.n = at_least(call.n, 2), !.current = heap'.head_]
        /\ phase' = "ready"
    BY <1>8, <1>11 DEF malloc_grow
  <2>3. call'.current = heap'.head_ BY <2>1, <2>2
  <2> QED BY <2>2, <2>3, HeadPassed DEF NoListYet
<1>12. CASE malloc_fail
  BY <1>8, <1>12, IdlePassed DEF malloc_fail, idle, NoListYet
<1>13. ASSUME NEW p \in DOMAIN live, free(p) PROVE (Passed /\ NoListYet)'
  BY <1>5, <1>13 DEF free, ready
<1>14. ASSUME NEW p \in DOMAIN live, free_mmap(p) PROVE (Passed /\ NoListYet)'
  BY <1>5, <1>14 DEF free_mmap, ready
<1>15. ASSUME NEW p \in DOMAIN live, NEW w \in Junk, store(p, w)
       PROVE  (Passed /\ NoListYet)'
  BY <1>5, <1>15 DEF store, write, ready
<1>16. CASE free_null \/ exited \/ UNCHANGED vars
  BY <1>2, <1>16 DEF free_null, exited, vars
<1> QED BY <1>1, <1>3, <1>4, <1>6, <1>7, <1>9, <1>10, <1>11, <1>12, <1>13, <1>14,
           <1>15, <1>16 DEF Next, malloc_step

\* The search is never ahead of what it has looked at.
LEMMA AlwaysPassed == Spec => [](HeapInv /\ Passed /\ NoListYet)
<1>1. Init => HeapInv /\ Passed /\ NoListYet BY InitInv, InitList
<1>2. HeapInv /\ Passed /\ NoListYet /\ [Next]_vars => (HeapInv /\ Passed /\ NoListYet)'
  BY NextInv, ListStep
<1> QED BY <1>1, <1>2, PTL DEF Spec

\* The search gives up only when no free block anywhere is large enough.
LEMMA FullWhenPassed ==
  ASSUME HeapInv, Passed
  PROVE  GivesUpOnlyWhenFull
<1> SUFFICES ASSUME call.pc = "scan", call.current = NULL
             PROVE  \A b \in FreeBlocks : heap.size[b] < call.n
  BY DEF GivesUpOnlyWhenFull
<1>1. PICK P \in SUBSET FreeBlocks :
        /\ heap.head_ \in P \cup {call.current}
        /\ \A b \in P : /\ heap.size[b] < call.n
                        /\ heap.info[b] \in P \cup {call.current}
  BY DEF Passed
<1>2. Reached(heap, FreeBlocks)
  BY DEF HeapInv, CursorOnFreeList, HeapIntact, Linked
<1>3. P = FreeBlocks BY <1>1, <1>2 DEF Reached
<1> QED BY <1>1, <1>3

\* Property GivesUpOnlyWhenFull of Heap: malloc grows the heap, or returns
\* NULL, only when every block of the free list is smaller than the request.
THEOREM SearchesAll == Spec => []GivesUpOnlyWhenFull
<1>1. HeapInv /\ Passed => GivesUpOnlyWhenFull BY FullWhenPassed
<1> QED BY <1>1, AlwaysPassed, PTL

-----------------------------------------------------------------------------
(* The walk along the list                                                 *)

\* w is a walk along the next links from head_, and NULL once the list ends.
Walk(w) ==
  LET n == Cardinality(blocks)
  IN  /\ n \in Nat /\ w \in [0 .. n -> FreeBlocks \cup {NULL}]
      /\ w[0] = heap.head_
      /\ \A k \in 1 .. n :
           w[k] = IF w[k - 1] \in FreeBlocks THEN heap.info[w[k - 1]] ELSE NULL

\* The next of a free block is a free block or NULL.
LEMMA NextFree ==
  ASSUME HeapInv
  PROVE  /\ NULL \notin FreeBlocks
         /\ phase = "ready" => /\ heap.head_ \in FreeBlocks \cup {NULL}
                               /\ \A b \in FreeBlocks :
                                    heap.info[b] \in FreeBlocks \cup {NULL}
         /\ phase # "ready" => FreeBlocks = {}
<1>1. CASE phase = "ready"
  <2>1. Shape(heap, heap_start_, blocks, FreeBlocks) BY <1>1, Unpack
  <2>2. \A b \in FreeBlocks : Cell(heap, heap_start_, b)
    <3>1. FreeBlocks \subseteq blocks BY DEF FreeBlocks
    <3> QED BY <2>1, <3>1, ShapeCells
  <2>3. NULL \notin FreeBlocks BY <2>2 DEF Cell
  <2>4. Linked(heap, FreeBlocks) BY <2>1 DEF Shape
  <2> QED BY <1>1, <2>3, <2>4 DEF Linked
<1>2. CASE phase # "ready"
  <2>1. FreeBlocks = {} BY <1>2 DEF HeapInv, NothingYet, FreeBlocks
  <2> QED BY <1>2, <2>1
<1> QED BY <1>1, <1>2

\* free_list is that walk.
LEMMA ListWalk ==
  ASSUME HeapInv, NoListYet
  PROVE  Walk(free_list)
<1> DEFINE n == Cardinality(blocks)
           S == FreeBlocks \cup {NULL}
           next == [x \in S |-> IF x \in FreeBlocks THEN heap.info[x] ELSE NULL]
           step == [k \in 1 .. n |-> next]
           Nth(f) == f = [k \in 0 .. n |->
                            IF k = 0 THEN heap.head_
                            ELSE IF f[k - 1] \in FreeBlocks THEN heap.info[f[k - 1]]
                            ELSE NULL]
<1>1. n \in Nat
  <2>1. blocks \subseteq 0 .. MemTop - 1 BY DEF HeapInv, TypeOK, Addr
  <2>2. MemTop - 1 \in Int /\ 0 \in Int BY HeapConstants
  <2>3. IsFiniteSet(0 .. MemTop - 1) BY <2>2, FS_Interval
  <2>4. IsFiniteSet(blocks) BY <2>1, <2>3, FS_Subset
  <2> QED BY <2>4, FS_CardinalityType
<1>2. heap.head_ \in S /\ step \in [1 .. n -> [S -> S]]
  <2>1. heap.head_ \in S /\ next \in [S -> S] BY NextFree DEF NoListYet
  <2> HIDE DEF next, S
  <2> QED BY <2>1
<1>3. free_list = CHOOSE f : Nth(f) BY DEF free_list
<1> HIDE DEF n
<1>4. PICK g \in [0 .. n -> S] : Iterated(g, heap.head_, step, n)
  <2> HIDE DEF S, step
  <2> QED BY <1>1, <1>2, Iterates
<1>5. Nth(g)
  <2>1. ASSUME NEW k \in 0 .. n, k # 0
        PROVE  step[k][g[k - 1]] = IF g[k - 1] \in FreeBlocks THEN heap.info[g[k - 1]]
                                   ELSE NULL
    <3>1. k - 1 \in 0 .. n /\ k \in 1 .. n BY <2>1, <1>1
    <3>2. g[k - 1] \in S BY <3>1
    <3> QED BY <3>1, <3>2
  <2>2. \A k \in 0 .. n :
          g[k] = IF k = 0 THEN heap.head_
                 ELSE IF g[k - 1] \in FreeBlocks THEN heap.info[g[k - 1]] ELSE NULL
    <3> HIDE DEF step, S
    <3> QED BY <1>4, <2>1 DEF Iterated
  <2> HIDE DEF step, S
  <2> QED BY <2>2
<1>6. Nth(free_list) BY <1>3, <1>5
<1> DEFINE w == free_list
<1> HIDE DEF w
<1>7. w = [k \in 0 .. n |->
             IF k = 0 THEN heap.head_
             ELSE IF w[k - 1] \in FreeBlocks THEN heap.info[w[k - 1]] ELSE NULL]
  BY <1>6 DEF w
<1>8. /\ w[0] = heap.head_
      /\ \A k \in 1 .. n :
           w[k] = IF w[k - 1] \in FreeBlocks THEN heap.info[w[k - 1]] ELSE NULL
  BY <1>1, <1>7
<1>9. \A k \in 0 .. n : w[k] \in S
  <2>1. ASSUME NEW k \in 1 .. n PROVE w[k] \in S
    <3>1. CASE w[k - 1] \in FreeBlocks
      <4>1. phase = "ready" BY <3>1, NextFree
      <4> QED BY <3>1, <4>1, <1>8, NextFree
    <3>2. CASE w[k - 1] \notin FreeBlocks BY <3>2, <1>8
    <3> QED BY <3>1, <3>2
  <2> HIDE DEF S
  <2> QED BY <2>1, <1>1, <1>2, <1>8
<1>10. w \in [0 .. n -> S]
  <2> HIDE DEF S
  <2> QED BY <1>7, <1>9
<1> QED BY <1>1, <1>8, <1>10 DEF Walk, n, w

\* Once at NULL the walk stays there.
LEMMA StaysAtEnd ==
  ASSUME NEW w, Walk(w), NULL \notin FreeBlocks,
         NEW i \in DOMAIN w, w[i] = NULL, NEW j \in DOMAIN w, i <= j
  PROVE  w[j] = NULL
<1> DEFINE n == Cardinality(blocks)
           S == {k \in Nat : i + k <= n => w[i + k] = NULL}
<1>1. n \in Nat /\ i \in 0 .. n /\ j \in 0 .. n
      /\ \A k \in 1 .. n :
           w[k] = IF w[k - 1] \in FreeBlocks THEN heap.info[w[k - 1]] ELSE NULL
  BY DEF Walk
<1> HIDE DEF n
<1>2. 0 \in S BY <1>1
<1>3. ASSUME NEW k \in Nat, k \in S PROVE k + 1 \in S
  <2> SUFFICES ASSUME i + (k + 1) <= n PROVE w[i + (k + 1)] = NULL OBVIOUS
  <2>1. i + (k + 1) \in 1 .. n /\ (i + (k + 1)) - 1 = i + k /\ w[i + k] = NULL
    BY <1>1, <1>3
  <2> QED BY <2>1, <1>1
<1> HIDE DEF S
<1>4. Nat \subseteq S BY <1>2, <1>3, Induct
<1>5. j - i \in S /\ i + (j - i) = j BY <1>1, <1>4
<1> QED BY <1>1, <1>5 DEF S

\* A walk that has not ended meets no block twice.
LEMMA NoRepeats ==
  ASSUME HeapInv, phase = "ready", NEW w, Walk(w),
         \A k \in DOMAIN w : w[k] # NULL,
         NEW i \in DOMAIN w, NEW j \in DOMAIN w, i < j
  PROVE  w[i] # w[j]
<1> DEFINE n == Cardinality(blocks)
           S == {k \in Nat : \A m \in 0 .. n : k < m => w[k] # w[m]}
           prev(b) == heap.info[footer_of(heap, b)]
<1>1. n \in Nat /\ DOMAIN w = 0 .. n /\ \A k \in 0 .. n : w[k] \in FreeBlocks
  BY DEF Walk
<1>2. Linked(heap, FreeBlocks) BY DEF HeapInv, HeapIntact
<1>3. \A k \in 1 .. n : w[k] = heap.info[w[k - 1]]
  BY <1>1 DEF Walk
<1>4. \A k \in 1 .. n : prev(w[k]) = w[k - 1]
  <2> TAKE k \in 1 .. n
  <2>1. k - 1 \in 0 .. n /\ k \in 0 .. n BY <1>1
  <2>2. w[k - 1] \in FreeBlocks /\ heap.info[w[k - 1]] # NULL BY <2>1, <1>1, <1>3
  <2> QED BY <2>2, <1>2, <1>3 DEF Linked
<1>5. prev(w[0]) = NULL
  BY <1>1, <1>2 DEF Linked, Walk
<1> HIDE DEF n, prev
<1>6. 0 \in S
  <2>1. ASSUME NEW m \in 0 .. n, 0 < m, w[0] = w[m] PROVE FALSE
    <3>1. m \in 1 .. n /\ m - 1 \in 0 .. n BY <2>1, <1>1
    <3>2. w[m - 1] = NULL BY <2>1, <3>1, <1>4, <1>5
    <3> QED BY <3>1, <3>2, <1>1
  <2> QED BY <2>1
<1>7. ASSUME NEW k \in Nat, k \in S PROVE k + 1 \in S
  <2>1. ASSUME NEW m \in 0 .. n, k + 1 < m, w[k + 1] = w[m] PROVE FALSE
    <3>1. k + 1 \in 1 .. n /\ m \in 1 .. n /\ m - 1 \in 0 .. n /\ k < m - 1
          /\ (k + 1) - 1 = k
      BY <2>1, <1>1
    <3>2. w[k] = w[m - 1] BY <2>1, <3>1, <1>4
    <3> QED BY <3>1, <3>2, <1>7
  <2> QED BY <2>1
<1> HIDE DEF S
<1>8. i \in S BY <1>1, <1>6, <1>7, Induct
<1> QED BY <1>1, <1>8 DEF S

\* There are not enough blocks for the walk not to end.
LEMMA WalkEnds ==
  ASSUME HeapInv, phase = "ready", NEW w, Walk(w)
  PROVE  \E k \in DOMAIN w : w[k] = NULL
<1> SUFFICES ASSUME \A k \in DOMAIN w : w[k] # NULL PROVE FALSE OBVIOUS
<1> DEFINE n == Cardinality(blocks)
           D == 0 .. n
<1>1. n \in Nat /\ DOMAIN w = D /\ w \in [D -> FreeBlocks] BY DEF Walk
<1>2. IsFiniteSet(blocks)
  <2>1. blocks \subseteq 0 .. MemTop - 1 BY DEF HeapInv, TypeOK, Addr
  <2>2. MemTop - 1 \in Int /\ 0 \in Int BY HeapConstants
  <2>3. IsFiniteSet(0 .. MemTop - 1) BY <2>2, FS_Interval
  <2> QED BY <2>1, <2>3, FS_Subset
<1>3. FreeBlocks \in SUBSET blocks BY DEF FreeBlocks
<1>4. w \in [D -> blocks] BY <1>1, <1>3
<1>5. IsFiniteSet(D) /\ Cardinality(D) = n + 1
  <2>1. n \in Int /\ 0 \in Int /\ ~(0 > n) /\ n - 0 + 1 = n + 1 BY <1>1
  <2> HIDE DEF n
  <2> QED BY <2>1, FS_Interval
<1>6. Cardinality(blocks) < Cardinality(D) BY <1>1, <1>5
<1> HIDE DEF D
<1>7. \E x, y \in D : x # y /\ w[x] = w[y]
  BY <1>2, <1>4, <1>5, <1>6, FS_PigeonHole
<1>8. PICK x \in D, y \in D : x # y /\ w[x] = w[y] BY <1>7
<1>9. x \in DOMAIN w /\ y \in DOMAIN w /\ (x < y \/ y < x) BY <1>1, <1>8 DEF D
<1> QED BY <1>8, <1>9, NoRepeats

\* A walk that ends has been everywhere.
LEMMA WalkCovers ==
  ASSUME HeapInv, phase = "ready", NEW w, Walk(w)
  PROVE  {w[k] : k \in {j \in DOMAIN w : w[j] # NULL}} = FreeBlocks
<1> DEFINE n == Cardinality(blocks)
           P == {w[k] : k \in {j \in DOMAIN w : w[j] # NULL}}
<1>1. /\ n \in Nat /\ DOMAIN w = 0 .. n
      /\ \A k \in 0 .. n : w[k] \in FreeBlocks \cup {NULL}
      /\ w[0] = heap.head_
      /\ \A k \in 1 .. n :
           w[k] = IF w[k - 1] \in FreeBlocks THEN heap.info[w[k - 1]] ELSE NULL
  BY DEF Walk
<1>2. w[n] = NULL
  <2>1. PICK k \in DOMAIN w : w[k] = NULL BY WalkEnds
  <2>2. NULL \notin FreeBlocks BY NextFree
  <2>3. n \in DOMAIN w /\ k <= n BY <1>1
  <2> HIDE DEF n
  <2> QED BY <2>1, <2>2, <2>3, StaysAtEnd
<1> HIDE DEF n
<1>3. P \in SUBSET FreeBlocks BY <1>1
<1>4. heap.head_ # NULL => heap.head_ \in P BY <1>1
<1>5. ASSUME NEW b \in P, heap.info[b] # NULL PROVE heap.info[b] \in P
  <2>1. PICK k \in 0 .. n : w[k] = b /\ b # NULL BY <1>1
  <2>2. k # n BY <2>1, <1>2
  <2>3. k + 1 \in 1 .. n /\ (k + 1) - 1 = k /\ k + 1 \in DOMAIN w BY <2>2, <1>1
  <2>4. w[k + 1] = heap.info[b] BY <2>1, <2>3, <1>1, <1>3
  <2> QED BY <2>3, <2>4, <1>5
<1>6. Reached(heap, FreeBlocks) BY DEF HeapInv, HeapIntact, Linked
<1> HIDE DEF P
<1>7. P = FreeBlocks BY <1>3, <1>4, <1>5, <1>6 DEF Reached
<1> QED BY <1>7 DEF P

\* The list is complete, also before there is a heap.
LEMMA ListComplete ==
  ASSUME HeapInv, NoListYet
  PROVE  FreeListComplete
<1> DEFINE w == free_list
           ends == {k \in DOMAIN w : w[k] = NULL}
<1>1. Walk(w) BY ListWalk
<1> HIDE DEF w
<1>2. DOMAIN w \ ends = {k \in DOMAIN w : w[k] # NULL} OBVIOUS
<1>3. CASE phase = "ready"
  <2>1. ends # {} BY <1>1, <1>3, WalkEnds
  <2>2. {w[k] : k \in DOMAIN w \ ends} = FreeBlocks
    BY <1>1, <1>2, <1>3, WalkCovers
  <2> QED BY <2>1, <2>2 DEF FreeListComplete, w
<1>4. CASE phase # "ready"
  <2>1. FreeBlocks = {} BY <1>4, NextFree
  <2>2. \A k \in DOMAIN w : w[k] = NULL BY <1>1, <2>1 DEF Walk
  <2>3. 0 \in DOMAIN w BY <1>1 DEF Walk
  <2>4. ends # {} /\ {w[k] : k \in DOMAIN w \ ends} = {} BY <2>2, <2>3
  <2> QED BY <2>1, <2>4 DEF FreeListComplete, w
<1> QED BY <1>3, <1>4

\* Property FreeListComplete of Heap: the walk of __heap_free_list_length
\* ends, within as many steps as there are blocks, and visits every free one.
THEOREM ListKept == Spec => []FreeListComplete
<1>1. HeapInv /\ NoListYet => FreeListComplete BY ListComplete
<1> QED BY <1>1, AlwaysPassed, PTL

-----------------------------------------------------------------------------
(* Threads                                                                 *)

\* Who holds the lock, and what the threads ask for.
ThreadInv ==
  /\ wants \in [Threads -> Requests \cup {IDLE}]
  /\ LockOfCaller

\* The thread that holds the lock asks for one of the sizes that programs do.
LEMMA HolderAsks ==
  ASSUME ThreadInv, NEW t \in Threads, holder = t
  PROVE  wants[t] \in Requests
<1>1. wants[t] # IDLE BY ThreadConstants DEF ThreadInv, LockOfCaller
<1> QED BY <1>1 DEF ThreadInv

\* What a thread does to the heap, one thread at a time could have done, but
\* for stores.
LEMMA ThreadStep ==
  ASSUME ThreadInv, [ThreadsNext]_tvars
  PROVE  [Next]_vars \/ \E p \in DOMAIN live, w \in Junk : write(p, w)
<1>1. CASE boot BY <1>1 DEF boot, Next
<1>2. CASE UNCHANGED tvars BY <1>2 DEF tvars
<1>3. CASE exited BY <1>3 DEF Next
<1>4. ASSUME NEW t \in Threads, NEW n \in Requests, calls(t, n)
      PROVE  UNCHANGED vars
  BY <1>4 DEF calls
<1>5. ASSUME NEW t \in Threads, __malloc_lock(t) PROVE UNCHANGED vars
  BY <1>5 DEF __malloc_lock
<1>6. ASSUME NEW t \in Threads, begins(t) PROVE Next
  BY <1>6, HolderAsks DEF begins, Next
<1>7. ASSUME NEW t \in Threads, maps_or_fails(t) PROVE Next
  BY <1>7, HolderAsks DEF maps_or_fails, Next
<1>8. ASSUME NEW t \in Threads, searches(t) PROVE Next
  BY <1>8 DEF searches, Next, malloc_step
<1>9. ASSUME NEW t \in Threads, returns(t) PROVE Next
  BY <1>9 DEF returns, Next, malloc_step
<1>10. ASSUME NEW t \in Threads, frees(t) PROVE Next
  BY <1>10 DEF frees, Next
<1>11. ASSUME NEW t \in Threads, writes(t)
       PROVE  \E p \in DOMAIN live, w \in Junk : write(p, w)
  BY <1>11 DEF writes
<1> QED
  BY <1>1, <1>2, <1>3, <1>4, <1>5, <1>6, <1>7, <1>8, <1>9, <1>10, <1>11
  DEF ThreadsNext, malloc_of

\* Every step of every thread keeps the invariant of the heap.
LEMMA HeapKept ==
  ASSUME HeapInv, ThreadInv, [ThreadsNext]_tvars
  PROVE  HeapInv'
<1>1. CASE [Next]_vars BY <1>1, NextInv
<1>2. ASSUME NEW p \in DOMAIN live, NEW w \in Junk, write(p, w) PROVE HeapInv'
  BY <1>2, StoreInv
<1> QED BY <1>1, <1>2, ThreadStep

\* Every path through malloc gives the lock back, and gives it back once.
LEMMA LockKeptInv ==
  ASSUME HeapInv, ThreadInv, [ThreadsNext]_tvars
  PROVE  ThreadInv'
<1> USE DEF ThreadInv, LockOfCaller
<1>1. IDLE \notin Requests BY HeapConstants DEF IDLE
<1>2. call \in [pc: {"idle", "scan"}, n: Nat, asked: Nat, current: Int]
  BY DEF HeapInv, TypeOK
<1>3. CASE boot
  <2>1. UNCHANGED <<call, holder, wants>> BY <1>3 DEF boot, heap_init, heap_init_fails
  <2> QED BY <2>1
<1>4. CASE UNCHANGED tvars BY <1>4 DEF tvars, vars
<1>5. CASE exited /\ UNCHANGED <<holder, wants>> BY <1>5 DEF exited, vars
<1>6. ASSUME NEW t \in Threads, NEW n \in Requests, calls(t, n) PROVE ThreadInv'
  <2>1. UNCHANGED <<call, holder>> /\ wants' = [wants EXCEPT ![t] = n] /\ wants[t] = IDLE
    BY <1>6 DEF calls, vars
  <2>2. holder # t BY <2>1, ThreadConstants
  <2>3. holder # NOBODY => wants'[holder] = wants[holder] BY <2>1, <2>2
  <2> QED BY <2>1, <2>3, <1>1
<1>7. ASSUME NEW t \in Threads, __malloc_lock(t) PROVE ThreadInv'
  BY <1>7 DEF __malloc_lock, vars
<1>8. ASSUME NEW t \in Threads, begins(t) PROVE ThreadInv'
  <2>1. UNCHANGED <<holder, wants>> /\ holder = t
    BY <1>8 DEF begins, keeps_lock
  <2>2. call'.asked = wants[t] BY <1>8 DEF begins, malloc
  <2> QED BY <2>1, <2>2, ThreadConstants
<1>9. ASSUME NEW t \in Threads, maps_or_fails(t) PROVE ThreadInv'
  <2>1. call' = call /\ call.pc = "idle"
    BY <1>9 DEF maps_or_fails, malloc_mmap, malloc_mmap_fails, ready, vars
  <2> QED BY <1>9, <2>1 DEF maps_or_fails, unlocks
<1>10. ASSUME NEW t \in Threads, searches(t) PROVE ThreadInv'
  <2>1. UNCHANGED <<holder, wants>> BY <1>10 DEF searches, keeps_lock
  <2>2. call'.asked = call.asked /\ call.pc = "scan"
    BY <1>10, <1>2 DEF searches, malloc_next, malloc_grow
  <2> QED BY <2>1, <2>2
<1>11. ASSUME NEW t \in Threads, returns(t) PROVE ThreadInv'
  <2>1. call'.pc = "idle"
    BY <1>11 DEF returns, malloc_take, malloc_fail, idle
  <2> QED BY <1>11, <2>1 DEF returns, unlocks
<1>12. ASSUME NEW t \in Threads, frees(t) PROVE ThreadInv'
  <2>1. UNCHANGED <<holder, wants>> BY <1>12 DEF frees
  <2>2. call' = call BY <1>12 DEF frees, free_null, free, free_mmap, vars
  <2> QED BY <2>1, <2>2
<1>13. ASSUME NEW t \in Threads, writes(t) PROVE ThreadInv'
  <2>1. UNCHANGED <<holder, wants, call>> BY <1>13 DEF writes, write
  <2> QED BY <2>1
<1> QED
  BY <1>3, <1>4, <1>5, <1>6, <1>7, <1>8, <1>9, <1>10, <1>11, <1>12, <1>13
  DEF ThreadsNext, malloc_of

\* Whatever the threads do at the same time, the heap under one lock is as
\* intact as with one thread: every theorem of HeapProofs holds for threads.
THEOREM ThreadsInvariance == ThreadsSpec => [](HeapInv /\ ThreadInv)
<1>1. ThreadsInit => HeapInv /\ ThreadInv
  BY InitInv DEF ThreadsInit, ThreadInv, LockOfCaller, Init, idle
<1>2. HeapInv /\ ThreadInv /\ [ThreadsNext]_tvars => (HeapInv /\ ThreadInv)'
  BY HeapKept, LockKeptInv
<1> QED BY <1>1, <1>2, PTL DEF ThreadsSpec

\* The lock belongs to a thread inside malloc or to nobody, and no search runs
\* without it.
THEOREM LockSafe == ThreadsSpec => []LockOfCaller
<1>1. ThreadInv => LockOfCaller BY DEF ThreadInv
<1> QED BY <1>1, ThreadsInvariance, PTL

\* No thread's payload overlaps another's or the allocator's own words, also
\* while some thread is in the middle of malloc.
THEOREM ThreadsApart == ThreadsSpec => []PayloadsDisjoint
<1>1. HeapInv => PayloadsDisjoint
  BY PayloadClear, PayloadsApart DEF PayloadsDisjoint
<1> QED BY <1>1, ThreadsInvariance, PTL

-----------------------------------------------------------------------------
(* The refinement of Allocator                                             *)

\* No request wraps around in n += 15.
RequestsFit ==
  /\ SIZE_RANGE % ALIGN = 0
  /\ \A n \in Requests : n + ALIGN <= SIZE_RANGE

\* The search looks for the bytes that the caller asked for, or for more.
AskedCovered == call.pc = "scan" => call.asked <= ALIGN * call.n

-----------------------------------------------------------------------------
(* Sizes                                                                   *)

\* Dividing by a divisor is exact.
LEMMA Exact ==
  ASSUME NEW a \in Nat, NEW d \in Nat \ {0}, a % d = 0
  PROVE  d * (a \div d) = a
OBVIOUS

\* The granules that malloc looks for hold the bytes asked for.
LEMMA AlignCovers ==
  ASSUME RequestsFit, NEW n \in Requests
  PROVE  /\ n \in Nat /\ align(n) \in Nat /\ n <= ALIGN * align(n)
         /\ align(n) < SIZE_RANGE \div ALIGN
<1> DEFINE a == n + ALIGN - 1
           w == SIZE_RANGE \div ALIGN
           k == a \div ALIGN
<1>1. n \in Nat /\ ALIGN \in Nat \ {0} /\ a \in Nat /\ SIZE_RANGE \in Nat
      /\ a < SIZE_RANGE
  BY HeapConstants DEF RequestsFit
<1>2. align(n) = k
  <2>1. a % SIZE_RANGE = a BY <1>1
  <2> QED BY <2>1 DEF align
<1>3. w \in Nat /\ ALIGN * w = SIZE_RANGE BY <1>1, Exact DEF RequestsFit
<1>4. k \in Nat /\ k * ALIGN <= a /\ a < k * ALIGN + ALIGN
  <2> HIDE DEF a
  <2> QED BY <1>1, DivBounds
<1> HIDE DEF k, w
<1>5. n <= ALIGN * k BY <1>1, <1>4
<1>6. k < w
  <2>1. k * ALIGN < w * ALIGN BY <1>1, <1>3, <1>4
  <2> QED BY <2>1, <1>1, <1>3, <1>4
<1> QED BY <1>1, <1>2, <1>4, <1>5, <1>6 DEF w

\* A larger number of granules holds as many bytes.
LEMMA MoreGranules ==
  ASSUME NEW a \in Nat, NEW k \in Nat, NEW n \in Nat, a <= ALIGN * k, k <= n
  PROVE  a <= ALIGN * n
<1>1. ALIGN \in Nat BY HeapConstants
<1>2. ALIGN * k <= ALIGN * n BY <1>1
<1> QED BY <1>1, <1>2

\* A mapping that is not empty holds the granules asked for and its header.
LEMMA MapCovers ==
  ASSUME NEW k \in Nat, k < SIZE_RANGE \div ALIGN, map_length(k) > 0
  PROVE  map_length(k) - 1 >= k
<1> DEFINE w == SIZE_RANGE \div ALIGN
           r == (k + PAGE) % w
           q == r \div PAGE
<1>1. PAGE \in Nat \ {0} /\ w \in Nat \ {0} /\ k < w
  <2>1. SIZE_RANGE \in Nat /\ ALIGN \in Nat \ {0} BY HeapConstants
  <2>2. w \in Nat BY <2>1, DivBounds
  <2> QED BY <2>2, HeapConstants
<1>2. map_length(k) = q * PAGE BY DEF map_length
<1> HIDE DEF w
<1>3. r \in Nat /\ (k + PAGE < w => r = k + PAGE)
  BY <1>1
<1>4. k + PAGE >= w => r < PAGE
  <2>1. CASE w <= PAGE BY <1>1, <2>1
  <2>2. CASE w > PAGE /\ k + PAGE >= w
    <3>1. k + PAGE - w \in 0 .. w - 1 BY <1>1, <2>2
    <3>2. r = k + PAGE - w BY <1>1, <2>2, <3>1
    <3> QED BY <1>1, <3>2
  <2> QED BY <1>1, <2>1, <2>2
<1> HIDE DEF r
<1>5. q \in Nat /\ q * PAGE <= r /\ r < q * PAGE + PAGE
  BY <1>1, <1>3, DivBounds
<1> HIDE DEF q
<1>6. r < PAGE => q = 0
  <2>1. ASSUME q >= 1 PROVE q * PAGE >= PAGE BY <2>1, <1>1, <1>5
  <2> QED BY <2>1, <1>1, <1>3, <1>5
<1>7. q # 0 BY <1>1, <1>2
<1>8. r = k + PAGE BY <1>1, <1>3, <1>4, <1>6, <1>7
<1> QED BY <1>1, <1>2, <1>5, <1>8

-----------------------------------------------------------------------------
(* What the program sees behind one pointer                                *)

\* The words behind the pointer p in the memory h.
Entry(h, p) == [a \in Payload(h, p) |-> <<h.info[a], h.size[a]>>]

LEMMA ViewIsEntries ==
  /\ DOMAIN view_of_program = DOMAIN live
  /\ \A p \in DOMAIN live : /\ view_of_program[p] = Entry(heap, p)
                            /\ DOMAIN view_of_program[p] = Payload(heap, p)
BY DEF view_of_program, Entry

\* A payload has a size, its pointer is not NULL, and it lies in memory.
LEMMA PayloadFacts ==
  ASSUME HeapInv, phase = "ready", NEW p \in DOMAIN live
  PROVE  p \in Nat /\ p > 0 /\ payload_len(heap, p) \in 0 .. MemTop
<1>1. p \in Nat /\ Shape(heap, heap_start_, blocks, FreeBlocks)
  BY HeldKinds, Unpack
<1>2. CASE heap.info[p - 1] # USED_MMAP
  <2> DEFINE b == p - 1
  <2>1. b \in blocks BY <1>2, HeldKinds
  <2>2. Cell(heap, heap_start_, b) BY <1>1, <2>1, ShapeCells
  <2>3. payload_len(heap, p) = heap.size[b] BY <1>2 DEF payload_len
  <2>4. heap.p_brk_ \in Int /\ heap.p_brk_ <= BrkLimit BY HeapConstants DEF HeapInv, TypeOK
  <2>5. heap_start_ \in Nat BY HeapConstants DEF HeapInv, TypeOK
  <2> QED BY <1>1, <2>2, <2>3, <2>4, <2>5, HeapConstants DEF Cell
<1>3. CASE heap.info[p - 1] = USED_MMAP
  <2>1. PICK m \in maps : p = m.base + 1 /\ m = [base |-> p - 1, len |-> heap.size[p - 1]]
    BY <1>3, HeldKinds
  <2>2. /\ m.base \in Int /\ m.len \in Nat /\ m.len > 0 /\ m.base >= BrkLimit
        /\ m.base + m.len <= MemTop /\ m.len = heap.size[p - 1]
    BY <2>1, MapPlace
  <2>3. payload_len(heap, p) = m.len - 1 BY <1>3, <2>2 DEF payload_len
  <2> QED BY <2>1, <2>2, <2>3, HeapConstants
<1> QED BY <1>2, <1>3

\* A payload lies in memory.
LEMMA PayloadInMemory ==
  ASSUME HeapInv, phase = "ready", NEW p \in DOMAIN live, NEW x \in Payload(heap, p)
  PROVE  x \in Addr
<1>1. p \in Nat /\ p > 0 BY PayloadFacts
<1>2. x \in Int /\ x >= p /\ x < MemTop
  <2>1. x \in p .. p + payload_len(heap, p) - 1 /\ payload_len(heap, p) \in 0 .. MemTop
    BY PayloadFacts DEF Payload
  <2>2. CASE x < BrkLimit BY <1>1, <2>1, <2>2, HeapConstants
  <2>3. ASSUME NEW m \in maps, x \in Region(m.base, m.len) PROVE x < MemTop
    BY <2>3, MapPlace, HeapConstants DEF Region
  <2> QED BY <1>1, <2>1, <2>2, <2>3, PayloadPlace
<1> QED BY <1>1, <1>2, HeapConstants DEF Addr

\* Where the payloads lie.
PayloadsPlaced ==
  phase = "ready" =>
    \A p \in DOMAIN live : p \in Nat /\ p > 0 /\ payload_len(heap, p) \in 0 .. MemTop

\* What the invariant says of the payloads, in this state and in the next.
LEMMA HeapFacts == HeapInv => PayloadsPlaced /\ PayloadsDisjoint
BY PayloadFacts, PayloadClear, PayloadsApart DEF PayloadsDisjoint, PayloadsPlaced

\* The length of a payload by the magic in the header in front of it.
LEMMA LengthByMagic ==
  ASSUME NEW h, NEW b \in Int
  PROVE  /\ h.info[b] = USED_NORMAL => payload_len(h, b + 1) = h.size[b]
         /\ h.info[b] = USED_MMAP => payload_len(h, b + 1) = h.size[b] - 1
<1> DEFINE p == b + 1
<1>1. p - 1 = b OBVIOUS
<1>2. USED_NORMAL # USED_MMAP BY DEF USED_NORMAL, USED_MMAP
<1> HIDE DEF p
<1>3. /\ h.info[b] = USED_NORMAL => payload_len(h, p) = h.size[b]
      /\ h.info[b] = USED_MMAP => payload_len(h, p) = h.size[b] - 1
  BY <1>1, <1>2 DEF payload_len
<1> QED BY <1>3 DEF p

\* A header and a payload left alone: the program sees the same words.
LEMMA EntrySame ==
  ASSUME NEW h, NEW r, NEW p,
         r.info[p - 1] = h.info[p - 1], r.size[p - 1] = h.size[p - 1],
         \A x \in Payload(h, p) : r.info[x] = h.info[x] /\ r.size[x] = h.size[x]
  PROVE  Payload(r, p) = Payload(h, p) /\ Entry(r, p) = Entry(h, p)
<1>1. payload_len(r, p) = payload_len(h, p) BY DEF payload_len
<1>2. Payload(r, p) = Payload(h, p) BY <1>1 DEF Payload
<1> QED BY <1>2 DEF Entry

\* A change that spares the used blocks but those in G, and memory above the
\* heap, leaves alone what the program sees through its other pointers.
LEMMA EntryKept ==
  ASSUME HeapInv, phase = "ready", NEW p \in DOMAIN live, NEW G, p - 1 \notin G,
         NEW r, Spared(heap, r, blocks, FreeBlocks \cup G),
         NEW a \in Int, a <= BrkLimit, Above(heap, r, a)
  PROVE  Payload(r, p) = Payload(heap, p) /\ Entry(r, p) = Entry(heap, p)
<1>1. p \in Nat /\ Shape(heap, heap_start_, blocks, FreeBlocks)
  BY HeldKinds, Unpack
<1>2. CASE heap.info[p - 1] # USED_MMAP
  <2> DEFINE b == p - 1
  <2>1. b \in blocks \ (FreeBlocks \cup G) BY <1>2, HeldKinds
  <2>2. Cell(heap, heap_start_, b) BY <1>1, <2>1, ShapeCells
  <2>3. payload_len(heap, p) = heap.size[b] BY <1>2 DEF payload_len
  <2>4. \A x \in Payload(heap, p) \cup {b} :
          x \in Addr /\ b <= x /\ x <= footer_of(heap, b)
    <3>1. heap.p_brk_ \in Int /\ heap.p_brk_ <= BrkLimit
      BY HeapConstants DEF HeapInv, TypeOK
    <3> QED BY <1>1, <2>2, <2>3, <3>1, HeapConstants DEF Cell, Payload, Addr
  <2>5. \A x \in Payload(heap, p) \cup {b} :
          r.info[x] = heap.info[x] /\ r.size[x] = heap.size[x]
    BY <2>1, <2>4 DEF Spared
  <2> QED BY <2>5, EntrySame
<1>3. CASE heap.info[p - 1] = USED_MMAP
  <2>1. PICK m \in maps : p = m.base + 1 /\ m = [base |-> p - 1, len |-> heap.size[p - 1]]
    BY <1>3, HeldKinds
  <2>2. /\ m.base \in Int /\ m.len \in Nat /\ m.len > 0 /\ m.base >= BrkLimit
        /\ m.base + m.len <= MemTop /\ m.len = heap.size[p - 1]
    BY <2>1, MapPlace
  <2>3. payload_len(heap, p) = m.len - 1 BY <1>3, <2>2 DEF payload_len
  <2>4. \A x \in Payload(heap, p) \cup {p - 1} : x \in Addr /\ x >= a
    BY <1>1, <2>1, <2>2, <2>3, HeapConstants DEF Payload, Addr
  <2>5. \A x \in Payload(heap, p) \cup {p - 1} :
          r.info[x] = heap.info[x] /\ r.size[x] = heap.size[x]
    BY <2>4 DEF Above
  <2> QED BY <2>5, EntrySame
<1> QED BY <1>2, <1>3

-----------------------------------------------------------------------------
(* Each step of the heap is a step of the allocator, or none               *)

AbstractNext == [Abstract!Next]_(Abstract!avars)

\* Nothing the program holds changes.
LEMMA Unseen ==
  ASSUME live' = live,
         \A p \in DOMAIN live :
           Payload(heap', p) = Payload(heap, p) /\ Entry(heap', p) = Entry(heap, p)
  PROVE  UNCHANGED Abstract!avars
<1>1. view_of_program = [p \in DOMAIN live |-> Entry(heap, p)]
  BY DEF view_of_program, Entry
<1>2. view_of_program' = [p \in DOMAIN live' |-> Entry(heap', p)]
  BY DEF view_of_program, Entry
<1> QED BY <1>1, <1>2 DEF Abstract!avars

\* The program gets a pointer to a payload that is large enough, and what it
\* sees through its other pointers stays.
LEMMA AllocStep ==
  ASSUME HeapInv, HeapInv', phase = "ready", phase' = "ready",
         NEW p, NEW n, p \notin DOMAIN live, live' = hold(p, n),
         n <= ALIGN * payload_len(heap', p),
         \A q \in DOMAIN live :
           Payload(heap', q) = Payload(heap, q) /\ Entry(heap', q) = Entry(heap, q)
  PROVE  AbstractNext
<1>1. /\ DOMAIN live' = DOMAIN live \cup {p} /\ live'[p] = n
      /\ \A q \in DOMAIN live : live'[q] = live[q]
  BY DEF hold
<1>2. PayloadsPlaced' /\ PayloadsDisjoint' BY HeapFacts, PTL
<1>3. /\ p \in Nat /\ p > 0 /\ payload_len(heap', p) \in 0 .. MemTop
      /\ \A q \in DOMAIN live : Payload(heap', p) \cap Payload(heap', q) = {}
  BY <1>1, <1>2 DEF PayloadsDisjoint, PayloadsPlaced
<1>4. /\ DOMAIN view_of_program = DOMAIN live
      /\ \A q \in DOMAIN live : /\ view_of_program[q] = Entry(heap, q)
                                /\ DOMAIN view_of_program[q] = Payload(heap, q)
  BY ViewIsEntries
<1>5. /\ DOMAIN view_of_program' = DOMAIN live'
      /\ \A q \in DOMAIN live' : /\ view_of_program'[q] = Entry(heap', q)
                                 /\ DOMAIN view_of_program'[q] = Payload(heap', q)
  BY DEF view_of_program, Entry
<1>6. DOMAIN view_of_program'[p] = p .. p + payload_len(heap', p) - 1
  BY <1>1, <1>5 DEF Payload
<1>7. Abstract!Alloc(p)
  <2>1. \A q \in DOMAIN live : DOMAIN view_of_program'[p] \cap DOMAIN view_of_program[q] = {}
    BY <1>1, <1>3, <1>4, <1>5
  <2>2. \A q \in DOMAIN live : view_of_program'[q] = view_of_program[q]
    BY <1>1, <1>4, <1>5
  <2>3. \E len \in 0 .. MemTop :
          /\ DOMAIN view_of_program'[p] = p .. p + len - 1
          /\ live'[p] <= ALIGN * len
    BY <1>1, <1>3, <1>6
  <2> HIDE DEF view_of_program
  <2> QED BY <1>1, <1>3, <1>5, <2>1, <2>2, <2>3
        DEF Abstract!Alloc, Abstract!Holds, Abstract!Keeps
<1>8. p \in DOMAIN live' \ DOMAIN live BY <1>1
<1> QED BY <1>7, <1>8 DEF AbstractNext, Abstract!Next

\* The program gives a pointer back, and its other pointers keep their words.
LEMMA FreeStep ==
  ASSUME NEW p \in DOMAIN live, live' = drop(p),
         \A q \in DOMAIN live \ {p} :
           Payload(heap', q) = Payload(heap, q) /\ Entry(heap', q) = Entry(heap, q)
  PROVE  AbstractNext
<1>1. DOMAIN live' = DOMAIN live \ {p} /\ \A q \in DOMAIN live' : live'[q] = live[q]
  BY DEF drop
<1>2. \A q \in DOMAIN live : view_of_program[q] = Entry(heap, q)
  BY ViewIsEntries
<1>3. /\ DOMAIN view_of_program' = DOMAIN live'
      /\ \A q \in DOMAIN live' : view_of_program'[q] = Entry(heap', q)
  BY DEF view_of_program, Entry
<1>4. \A q \in DOMAIN live \ {p} : view_of_program'[q] = view_of_program[q]
  BY <1>1, <1>2, <1>3
<1>5. Abstract!Free(p)
  BY <1>1, <1>3, <1>4 DEF Abstract!Free, Abstract!Holds, Abstract!Keeps
<1> QED BY <1>5 DEF AbstractNext, Abstract!Next

\* A store changes only the words behind the pointer it goes through.
LEMMA StoreStep ==
  ASSUME HeapInv, NEW p \in DOMAIN live, NEW w \in Junk, write(p, w)
  PROVE  AbstractNext
<1>1. phase = "ready" /\ live' = live BY DEF write
<1>2. PayloadsDisjoint BY <1>1, HeapFacts
<1>3. heap \in HeapType BY DEF HeapInv, TypeOK, HeapType
<1>4. \A a \in Addr : a \notin Payload(heap, p) =>
        heap'.info[a] = heap.info[a] /\ heap'.size[a] = heap.size[a]
  BY <1>3 DEF write, HeapType
<1>5. \A q \in DOMAIN live : q - 1 \in Addr /\ q - 1 \notin Payload(heap, p)
  <2> SUFFICES ASSUME NEW q \in DOMAIN live
               PROVE  q - 1 \in Addr /\ q - 1 \notin Payload(heap, p)
    OBVIOUS
  <2>1. q \in Nat /\ q > 0 /\ q \in Addr
    BY <1>1, PayloadFacts DEF HeapInv, TypeOK
  <2>2. q - 1 \in Addr BY <2>1, HeapConstants DEF Addr
  <2>3. q - 1 \in Metadata
    <3>1. CASE heap.info[q - 1] # USED_MMAP BY <3>1, <1>1, HeldKinds DEF Metadata
    <3>2. CASE heap.info[q - 1] = USED_MMAP
      <4>1. PICK m \in maps : m = [base |-> q - 1, len |-> heap.size[q - 1]]
        BY <3>2, <1>1, HeldKinds
      <4>2. m.base = q - 1 BY <4>1
      <4> QED BY <4>2 DEF Metadata
    <3> QED BY <3>1, <3>2
  <2> QED BY <2>2, <2>3, <1>1, <1>2 DEF PayloadsDisjoint
<1>6. \A q \in DOMAIN live : payload_len(heap', q) = payload_len(heap, q)
  BY <1>4, <1>5 DEF payload_len
<1>7. \A q \in DOMAIN live : Payload(heap', q) = Payload(heap, q)
  BY <1>6 DEF Payload
<1>8. \A q \in DOMAIN live \ {p} : Entry(heap', q) = Entry(heap, q)
  <2> SUFFICES ASSUME NEW q \in DOMAIN live \ {p}
               PROVE  Entry(heap', q) = Entry(heap, q)
    OBVIOUS
  <2>1. \A x \in Payload(heap, q) : x \in Addr /\ x \notin Payload(heap, p)
    <3>1. q \in DOMAIN live /\ Payload(heap, p) \cap Payload(heap, q) = {}
      BY <1>1, <1>2 DEF PayloadsDisjoint
    <3>2. ASSUME NEW x \in Payload(heap, q) PROVE x \in Addr
      BY <3>1, <1>1, PayloadInMemory
    <3> QED BY <3>1, <3>2
  <2> QED BY <2>1, <1>4, <1>5, EntrySame
<1>9. /\ DOMAIN view_of_program = DOMAIN live
      /\ \A q \in DOMAIN live : /\ view_of_program[q] = Entry(heap, q)
                                /\ DOMAIN view_of_program[q] = Payload(heap, q)
  BY ViewIsEntries
<1>10. /\ DOMAIN view_of_program' = DOMAIN live'
       /\ \A q \in DOMAIN live' : /\ view_of_program'[q] = Entry(heap', q)
                                  /\ DOMAIN view_of_program'[q] = Payload(heap', q)
  BY DEF view_of_program, Entry
<1>11. Abstract!Store(p)
  <2>1. \A q \in DOMAIN live \ {p} : view_of_program'[q] = view_of_program[q]
    BY <1>1, <1>8, <1>9, <1>10
  <2>2. DOMAIN view_of_program'[p] = DOMAIN view_of_program[p]
    BY <1>1, <1>7, <1>9, <1>10
  <2> HIDE DEF view_of_program
  <2> QED BY <2>1, <2>2, <1>1, <1>10 DEF Abstract!Store, Abstract!Keeps
<1> QED BY <1>11 DEF AbstractNext, Abstract!Next

\* Taking a free block is an allocation.
LEMMA TakeIsAlloc ==
  ASSUME HeapInv, HeapInv', AskedCovered, malloc_take
  PROVE  AbstractNext
<1> DEFINE b == call.current
           n == call.n
           t == take(heap, b, n)
<1>1. /\ phase = "ready" /\ b \in FreeBlocks /\ b \in blocks /\ heap.size[b] >= n
      /\ n \in Nat /\ call.asked \in Nat /\ call.asked <= ALIGN * n
  BY DEF HeapInv, CursorOnFreeList, malloc_take, TypeOK, AskedCovered, FreeBlocks
<1>2. /\ heap' = t /\ live' = hold(b + 1, call.asked)
      /\ phase' = phase /\ blocks \subseteq blocks'
  BY DEF malloc_take
<1>3. Shape(heap, heap_start_, blocks, FreeBlocks) BY <1>1, Unpack
<1> HIDE DEF b, n, t
<1>4. /\ Above(heap, t, heap.p_brk_) /\ Spared(heap, t, blocks, FreeBlocks)
      /\ t.size[b] >= n /\ t.size[b] \in Int /\ t.info[b] = USED_NORMAL
  <2> DEFINE T == take(heap, b, n)
  <2>1. /\ T \in HeapType /\ T.info[b] = USED_NORMAL
        /\ Above(heap, T, heap.p_brk_) /\ Spared(heap, T, blocks, FreeBlocks)
        /\ T.size[b] >= n
    <3>1. CASE splits(heap, b, n)
      <4>1. FrontTaken(heap, T, heap_start_, blocks, FreeBlocks, b, n)
        BY <3>1, <1>1, <1>3, TakeSplitShape
      <4> DEFINE d == b + 2 + n
      <4> HIDE DEF T
      <4>2. /\ Shape(T, heap_start_, blocks \cup {d}, (FreeBlocks \ {b}) \cup {d})
            /\ d \notin blocks /\ T.size[b] = n
            /\ Above(heap, T, heap.p_brk_) /\ Spared(heap, T, blocks, FreeBlocks)
        BY <4>1 DEF FrontTaken
      <4> HIDE DEF d
      <4>3. b \in (blocks \cup {d}) \ ((FreeBlocks \ {b}) \cup {d}) BY <4>2, <1>1
      <4>4. T \in HeapType /\ T.info[b] = USED_NORMAL BY <4>2, <4>3 DEF Shape
      <4> QED BY <4>2, <4>4, <1>1
    <3>2. CASE ~splits(heap, b, n)
      <4>1. WholeTaken(heap, T, heap_start_, blocks, FreeBlocks, b)
        BY <3>2, <1>1, <1>3, TakeWholeShape
      <4> HIDE DEF T
      <4>2. /\ Shape(T, heap_start_, blocks, FreeBlocks \ {b}) /\ T.size = heap.size
            /\ Above(heap, T, heap.p_brk_) /\ Spared(heap, T, blocks, FreeBlocks)
        BY <4>1 DEF WholeTaken
      <4>3. T \in HeapType /\ T.info[b] = USED_NORMAL BY <4>2, <1>1 DEF Shape
      <4> QED BY <4>2, <4>3, <1>1
    <3> QED BY <3>1, <3>2
  <2> HIDE DEF T
  <2>3. T.size[b] \in Int BY <1>1, <2>1 DEF HeapType, HeapInv, TypeOK
  <2>4. t = T BY DEF t, T
  <2> QED BY <2>1, <2>3, <2>4
<1>5. heap.p_brk_ \in Int /\ heap.p_brk_ <= BrkLimit
  BY HeapConstants DEF HeapInv, TypeOK
<1>6. \A q \in DOMAIN live :
        Payload(heap', q) = Payload(heap, q) /\ Entry(heap', q) = Entry(heap, q)
  <2>1. Spared(heap, t, blocks, FreeBlocks \cup {})
    <3>1. FreeBlocks \cup {} = FreeBlocks OBVIOUS
    <3> QED BY <3>1, <1>4
  <2> QED BY <1>1, <1>2, <1>4, <1>5, <2>1, EntryKept
<1>7. b \in Int BY <1>1, HeapConstants DEF HeapInv, TypeOK, Addr
<1>8. b + 1 \notin DOMAIN live
  <2>1. ASSUME NEW c \in blocks \ FreeBlocks PROVE c + 1 # b + 1
    BY <1>1, <1>7, HeapConstants DEF HeapInv, TypeOK, Addr
  <2>2. ASSUME NEW m \in maps PROVE m.base + 1 # b + 1
    <3>1. m.base \in Int /\ m.base >= BrkLimit BY MapPlace
    <3>2. Cell(heap, heap_start_, b) BY <1>1, <1>3, ShapeCells
    <3> QED BY <3>1, <3>2, <1>5, <1>7, HeapConstants DEF Cell
  <2> QED BY <2>1, <2>2 DEF HeapInv, Accounted
<1>9. call.asked <= ALIGN * payload_len(heap', b + 1)
  <2>2. payload_len(t, b + 1) = t.size[b] BY <1>4, <1>7, LengthByMagic
  <2>1. t.size[b] \in Nat BY <1>1, <1>4
  <2> QED BY <1>1, <1>2, <1>4, <2>2, <2>1, MoreGranules
<1> QED BY <1>1, <1>2, <1>6, <1>8, <1>9, AllocStep

\* Growing the heap is not seen by the program.
LEMMA GrowUnseen ==
  ASSUME HeapInv, malloc_grow
  PROVE  UNCHANGED Abstract!avars
<1> DEFINE e == round_to_page(heap.p_brk_ + grow_size(call.n))
<1>1. phase = "ready" /\ call.n \in Nat /\ heap.p_brk_ \in Nat
  BY HeapConstants DEF HeapInv, CursorOnFreeList, malloc_grow, TypeOK
<1>2. Shape(heap, heap_start_, blocks, FreeBlocks) BY <1>1, Unpack
<1>3. heap' = extend(heap, e) /\ e <= BrkLimit /\ live' = live BY DEF malloc_grow
<1>4. e \in Nat /\ e >= heap.p_brk_ + 4
  <2>1. grow_size(call.n) \in Nat /\ grow_size(call.n) >= 4
    BY <1>1 DEF grow_size, at_least
  <2>2. e >= heap.p_brk_ + grow_size(call.n) /\ e \in Nat BY <1>1, <2>1, RoundUp
  <2> HIDE DEF e
  <2> QED BY <1>1, <2>1, <2>2
<1> HIDE DEF e
<1>5. Above(heap, heap', e) /\ Spared(heap, heap', blocks, FreeBlocks)
  <2>1. e >= heap.p_brk_ + 2 /\ e > heap.p_brk_ BY <1>1, <1>4
  <2>2. CASE heap.info[heap.p_brk_ - 2] = USED_NORMAL
    <3>1. Extended(heap, heap', heap_start_, blocks, FreeBlocks, e)
      BY <2>1, <2>2, <1>2, <1>3, <1>4, ExtendUsedShape
    <3> QED BY <3>1 DEF Extended
  <2>3. CASE heap.info[heap.p_brk_ - 2] # USED_NORMAL
    <3>1. Stretched(heap, heap', heap_start_, blocks, FreeBlocks, e)
      BY <2>1, <2>3, <1>2, <1>3, <1>4, ExtendFreeShape
    <3> QED BY <3>1 DEF Stretched
  <2> QED BY <2>2, <2>3
<1>6. Spared(heap, heap', blocks, FreeBlocks \cup {})
  <2>1. FreeBlocks \cup {} = FreeBlocks OBVIOUS
  <2> QED BY <2>1, <1>5
<1>7. ASSUME NEW p \in DOMAIN live
      PROVE  Payload(heap', p) = Payload(heap, p) /\ Entry(heap', p) = Entry(heap, p)
  <2>1. e \in Int /\ e <= BrkLimit /\ p - 1 \notin {} BY <1>3, <1>4
  <2> QED BY <2>1, <1>1, <1>5, <1>6, EntryKept
<1> QED BY <1>3, <1>7, Unseen

\* Mapping a region is an allocation.
LEMMA MapIsAlloc ==
  ASSUME RequestsFit, HeapInv, HeapInv', NEW n \in Requests, malloc_mmap(n)
  PROVE  AbstractNext
<1> DEFINE len == map_length(align(n))
<1>1. phase = "ready" /\ phase' = phase BY DEF malloc_mmap, ready
<1>2. PICK base \in BrkLimit .. MemTop - 1 :
        /\ mappable(base, len)
        /\ heap' = [heap EXCEPT
             !.info = [a \in Addr |->
                IF a = base THEN USED_MMAP
                ELSE IF a \in Region(base, len) THEN 0 ELSE heap.info[a]],
             !.size = [a \in Addr |->
                IF a = base THEN len
                ELSE IF a \in Region(base, len) THEN 0 ELSE heap.size[a]]]
        /\ live' = hold(base + 1, n)
  BY DEF malloc_mmap
<1>3. n \in Nat /\ align(n) \in Nat /\ n <= ALIGN * align(n) /\ len > 0
      /\ len - 1 >= align(n)
  <2>1. len > 0 BY <1>2 DEF mappable
  <2> QED BY <2>1, AlignCovers, MapCovers
<1> HIDE DEF len
<1>4. /\ Region(base, len) \subseteq BrkLimit .. MemTop - 1
      /\ \A m \in maps : Region(base, len) \cap Region(m.base, m.len) = {}
  BY <1>2 DEF mappable
<1>5. heap \in HeapType BY DEF HeapInv, TypeOK, HeapType
<1>6. base \in Int /\ base \in Addr /\ len \in Int /\ base \in Region(base, len)
  <2>1. base \in Int /\ base \in Addr BY HeapConstants DEF Addr
  <2>3. heap'.size[base] = len BY <1>2, <1>5, <2>1 DEF HeapType
  <2>4. len \in Int BY <2>1, <2>3 DEF HeapInv, TypeOK
  <2> QED BY <2>1, <2>4, <1>3 DEF Region
<1>7. \A x \in Addr : x \notin Region(base, len) =>
        heap'.info[x] = heap.info[x] /\ heap'.size[x] = heap.size[x]
  BY <1>2, <1>5, <1>6 DEF HeapType
<1>8. ASSUME NEW q \in DOMAIN live
      PROVE  /\ Payload(heap', q) = Payload(heap, q) /\ Entry(heap', q) = Entry(heap, q)
             /\ q # base + 1
  <2>1. q \in Nat /\ q > 0 /\ q \in Addr /\ q - 1 \in Addr
    <3>1. q \in Nat /\ q > 0 BY <1>1, PayloadFacts
    <3>2. q \in Addr BY DEF HeapInv, TypeOK
    <3> QED BY <3>1, <3>2, HeapConstants DEF Addr
  <2>2. q - 1 \notin Region(base, len)
    <3>1. CASE heap.info[q - 1] # USED_MMAP
      <4>1. q - 1 \in blocks BY <3>1, <1>1, HeldKinds
      <4>2. Cell(heap, heap_start_, q - 1) BY <4>1, <1>1, Unpack, ShapeCells
      <4>3. heap.p_brk_ \in Int /\ heap.p_brk_ <= BrkLimit
        BY HeapConstants DEF HeapInv, TypeOK
      <4> QED BY <4>2, <4>3, <1>4, HeapConstants DEF Cell
    <3>2. CASE heap.info[q - 1] = USED_MMAP
      <4>1. PICK m \in maps : q = m.base + 1 /\ m = [base |-> q - 1, len |-> heap.size[q - 1]]
        BY <3>2, <1>1, HeldKinds
      <4>2. m.base \in Int /\ m.len \in Nat /\ m.len > 0 BY MapPlace
      <4>3. q - 1 \in Region(m.base, m.len) BY <4>1, <4>2 DEF Region
      <4> QED BY <4>3, <1>4
    <3> QED BY <3>1, <3>2
  <2>3. ASSUME NEW x \in Payload(heap, q) PROVE x \in Addr /\ x \notin Region(base, len)
    <3>1. x \in Addr BY <1>1, PayloadInMemory
    <3>2. CASE x \in Int /\ x < BrkLimit BY <3>1, <3>2, <1>4, HeapConstants
    <3>3. ASSUME NEW m \in maps, x \in Region(m.base, m.len)
          PROVE  x \notin Region(base, len)
      BY <3>3, <1>4
    <3> QED BY <3>1, <3>2, <3>3, <1>1, PayloadPlace
  <2>4. q # base + 1 BY <2>1, <2>2, <1>6
  <2> QED BY <2>1, <2>2, <2>3, <2>4, <1>7, EntrySame
<1>9. n <= ALIGN * payload_len(heap', base + 1)
  <2>1. heap'.info[base] = USED_MMAP /\ heap'.size[base] = len
    BY <1>2, <1>5, <1>6 DEF HeapType
  <2>2. payload_len(heap', base + 1) = len - 1 BY <2>1, <1>6, LengthByMagic
  <2>3. len - 1 \in Nat BY <1>3, <1>6
  <2> QED BY <2>2, <2>3, <1>3, MoreGranules
<1>10. base + 1 \notin DOMAIN live BY <1>8
<1> QED BY <1>1, <1>2, <1>8, <1>9, <1>10, AllocStep

\* Giving a block of the heap back is a free.
LEMMA FreeIsFree ==
  ASSUME HeapInv, NEW p \in DOMAIN live, free(p)
  PROVE  AbstractNext
<1> DEFINE b == p - 1
<1>1. /\ phase = "ready" /\ heap.info[b] # USED_MMAP
      /\ heap' = release(heap, b) /\ live' = drop(p)
  BY DEF free, ready
<1>2. Shape(heap, heap_start_, blocks, FreeBlocks) BY <1>1, Unpack
<1>3. b \in blocks \ FreeBlocks /\ p \in Nat BY <1>1, HeldKinds
<1>4. /\ Above(heap, heap', heap.p_brk_)
      /\ Spared(heap, heap', blocks, FreeBlocks \cup {b})
  <2>1. Released(heap, heap', heap_start_, blocks, FreeBlocks, b)
    BY <1>1, <1>2, <1>3, ReleaseShape
  <2> QED BY <2>1 DEF Released
<1>5. heap.p_brk_ \in Int /\ heap.p_brk_ <= BrkLimit
  BY HeapConstants DEF HeapInv, TypeOK
<1>6. ASSUME NEW q \in DOMAIN live \ {p}
      PROVE  Payload(heap', q) = Payload(heap, q) /\ Entry(heap', q) = Entry(heap, q)
  <2>1. q \in Nat BY <1>1, PayloadFacts
  <2>2. q - 1 \notin {b} BY <2>1, <1>3
  <2> HIDE DEF b
  <2> QED BY <2>2, <1>1, <1>4, <1>5, EntryKept
<1> QED BY <1>1, <1>6, FreeStep

\* Unmapping a region is a free.
LEMMA UnmapIsFree ==
  ASSUME NEW p \in DOMAIN live, free_mmap(p)
  PROVE  AbstractNext
<1>1. heap' = heap /\ live' = drop(p) BY DEF free_mmap
<1> QED BY <1>1, FreeStep

\* A step that leaves the heap and the program's pointers alone is not seen.
LEMMA Idle ==
  ASSUME heap' = heap, live' = live
  PROVE  AbstractNext
BY Unseen DEF AbstractNext

\* The heap comes up before the program holds anything.
LEMMA BootUnseen ==
  ASSUME HeapInv, NEW break \in InitialBreaks, heap_init(break)
  PROVE  AbstractNext
<1>1. live' = live /\ DOMAIN live = {}
  BY DEF heap_init, HeapInv, NothingYet
<1> QED BY <1>1, Unseen DEF AbstractNext

\* Every step of the heap is one of the allocator, or is not seen.
LEMMA HeapStep ==
  ASSUME RequestsFit, HeapInv, HeapInv', AskedCovered, [Next]_vars
  PROVE  AbstractNext
<1>1. ASSUME NEW break \in InitialBreaks, heap_init(break) PROVE AbstractNext
  BY <1>1, BootUnseen
<1>2. CASE heap_init_fails BY <1>2, Idle DEF heap_init_fails
<1>3. ASSUME NEW n \in Requests, malloc(n) PROVE AbstractNext
  BY <1>3, Idle DEF malloc
<1>4. ASSUME NEW n \in Requests, malloc_mmap(n) PROVE AbstractNext
  BY <1>4, MapIsAlloc
<1>5. ASSUME NEW n \in Requests, malloc_mmap_fails(n) PROVE AbstractNext
  BY <1>5, Idle DEF malloc_mmap_fails, vars
<1>6. CASE malloc_next BY <1>6, Idle DEF malloc_next
<1>7. CASE malloc_take BY <1>7, TakeIsAlloc
<1>8. CASE malloc_grow BY <1>8, GrowUnseen DEF AbstractNext
<1>9. CASE malloc_fail BY <1>9, Idle DEF malloc_fail
<1>10. CASE free_null \/ exited \/ UNCHANGED vars
  BY <1>10, Idle DEF free_null, exited, vars
<1>11. ASSUME NEW p \in DOMAIN live, free(p) PROVE AbstractNext
  BY <1>11, FreeIsFree
<1>12. ASSUME NEW p \in DOMAIN live, free_mmap(p) PROVE AbstractNext
  BY <1>12, UnmapIsFree
<1>13. ASSUME NEW p \in DOMAIN live, NEW w \in Junk, store(p, w) PROVE AbstractNext
  BY <1>13, StoreStep DEF store
<1> QED
  BY <1>1, <1>2, <1>3, <1>4, <1>5, <1>6, <1>7, <1>8, <1>9, <1>10, <1>11, <1>12, <1>13
  DEF Next, malloc_step

\* The search never looks for less than the program asked for.
LEMMA AskedKept ==
  ASSUME RequestsFit, HeapInv, AskedCovered, [Next]_vars
  PROVE  AskedCovered'
<1> USE DEF AskedCovered
<1>1. call \in [pc: {"idle", "scan"}, n: Nat, asked: Nat, current: Int]
  BY DEF HeapInv, TypeOK
<1>2. ASSUME NEW n \in Requests, malloc(n) PROVE AskedCovered'
  BY <1>2, AlignCovers DEF malloc
<1>3. CASE malloc_next BY <1>1, <1>3 DEF malloc_next
<1>4. CASE malloc_take \/ malloc_fail
  BY <1>4 DEF malloc_take, malloc_fail, idle
<1>5. CASE malloc_grow
  <2>1. /\ call.asked \in Nat /\ call.n \in Nat /\ at_least(call.n, 2) \in Nat
        /\ call.n <= at_least(call.n, 2) /\ call.asked <= ALIGN * call.n
    BY <1>1, <1>5 DEF malloc_grow, at_least
  <2>2. call'.asked = call.asked /\ call'.n = at_least(call.n, 2)
    BY <1>1, <1>5 DEF malloc_grow
  <2> QED BY <2>1, <2>2, MoreGranules
<1>6. CASE call' = call BY <1>6
<1>7. ASSUME NEW n \in Requests, malloc_mmap(n) \/ malloc_mmap_fails(n)
      PROVE  call' = call
  BY <1>7 DEF malloc_mmap, malloc_mmap_fails, vars
<1>8. ASSUME NEW p \in DOMAIN live, free(p) \/ free_mmap(p) PROVE call' = call
  BY <1>8 DEF free, free_mmap
<1>9. ASSUME NEW p \in DOMAIN live, NEW w \in Junk, store(p, w) PROVE call' = call
  BY <1>9 DEF store, write
<1>10. ASSUME NEW break \in InitialBreaks, heap_init(break) PROVE call' = call
  BY <1>10 DEF heap_init
<1>11. CASE heap_init_fails \/ free_null \/ exited \/ UNCHANGED vars
  BY <1>11 DEF heap_init_fails, free_null, exited, vars
<1> QED
  BY <1>2, <1>3, <1>4, <1>5, <1>6, <1>7, <1>8, <1>9, <1>10, <1>11
  DEF Next, malloc_step

\* Every pointer stands for a run of granules as long as asked for.
Covered ==
  \A p \in DOMAIN live :
    \E len \in Nat : /\ DOMAIN view_of_program[p] = p .. p + len - 1
                    /\ live[p] <= ALIGN * len

\* No step of the allocator takes granules away from a pointer.
LEMMA CoveredKept ==
  ASSUME Covered, [Abstract!Next]_(Abstract!avars)
  PROVE  Covered'
<1> USE DEF Covered
<1> HIDE DEF view_of_program
<1>1. CASE UNCHANGED Abstract!avars BY <1>1 DEF Abstract!avars
<1>2. ASSUME NEW p, Abstract!Alloc(p) PROVE Covered'
  <2>1. \E len \in Nat : /\ DOMAIN view_of_program'[p] = p .. p + len - 1
                        /\ live'[p] <= ALIGN * len
    BY <1>2, HeapConstants DEF Abstract!Alloc
  <2>2. \A q \in DOMAIN live :
          view_of_program'[q] = view_of_program[q] /\ live'[q] = live[q]
    BY <1>2 DEF Abstract!Alloc, Abstract!Holds, Abstract!Keeps
  <2>3. DOMAIN live' = DOMAIN live \cup {p} BY <1>2 DEF Abstract!Alloc
  <2> QED BY <2>1, <2>2, <2>3
<1>3. ASSUME NEW p \in DOMAIN live, Abstract!Free(p) PROVE Covered'
  BY <1>3 DEF Abstract!Free, Abstract!Holds, Abstract!Keeps
<1>4. ASSUME NEW p \in DOMAIN live, Abstract!Store(p) PROVE Covered'
  <2>1. \A q \in DOMAIN live : DOMAIN view_of_program'[q] = DOMAIN view_of_program[q]
    BY <1>4 DEF Abstract!Store, Abstract!Keeps
  <2> QED BY <2>1, <1>4 DEF Abstract!Store
<1> QED BY <1>1, <1>2, <1>3, <1>4 DEF Abstract!Next

\* A run of granules has one length.
LEMMA CoveredPayloads == HeapInv /\ Covered => PayloadCovers
<1> SUFFICES ASSUME HeapInv, Covered, NEW p \in DOMAIN live
             PROVE  live[p] <= ALIGN * payload_len(heap, p)
  BY DEF PayloadCovers
<1> DEFINE k == payload_len(heap, p)
<1>1. phase = "ready" BY DEF HeapInv, NothingYet
<1>2. p \in Nat /\ k \in Nat BY <1>1, PayloadFacts, HeapConstants
<1>3. PICK len \in Nat : /\ DOMAIN view_of_program[p] = p .. p + len - 1
                         /\ live[p] <= ALIGN * len
  BY DEF Covered
<1>4. p .. p + len - 1 = p .. p + k - 1 BY <1>3, ViewIsEntries DEF Payload
<1> HIDE DEF k
<1>5. len = k
  <2>1. p + len - 1 \in p .. p + len - 1 \/ len = 0 BY <1>2
  <2>2. p + k - 1 \in p .. p + k - 1 \/ k = 0 BY <1>2
  <2> QED BY <2>1, <2>2, <1>2, <1>4
<1> QED BY <1>3, <1>5 DEF k

-----------------------------------------------------------------------------
(* The theorems                                                            *)

\* The heap starts as the allocator does.
LEMMA InitRefines == Init => Abstract!Init /\ AskedCovered /\ Covered
BY DEF Init, Abstract!Init, AskedCovered, Covered, view_of_program, idle

\* malloc gives the program fresh, separate and large enough memory, and
\* nothing but the program's own stores changes what is in it.
THEOREM Implements == ASSUME RequestsFit PROVE Spec => ImplementsAllocator
<1>1. HeapInv /\ AskedCovered /\ [Next]_vars => AskedCovered' BY AskedKept
<1>2. HeapInv /\ HeapInv' /\ AskedCovered /\ [Next]_vars
        => [Abstract!Next]_(Abstract!avars)
  BY HeapStep DEF AbstractNext
<1> QED BY <1>1, <1>2, InitRefines, Invariance, PTL
        DEF Spec, ImplementsAllocator, Abstract!Spec

\* No pointer that malloc returns stands for fewer bytes than were asked for.
THEOREM LargeEnough == ASSUME RequestsFit PROVE Spec => []PayloadCovers
<1>1. HeapInv /\ AskedCovered /\ [Next]_vars => AskedCovered' BY AskedKept
<1>2. HeapInv /\ HeapInv' /\ AskedCovered /\ Covered /\ [Next]_vars => Covered'
  BY HeapStep, CoveredKept DEF AbstractNext
<1> QED BY <1>1, <1>2, InitRefines, Invariance, CoveredPayloads, PTL DEF Spec

\* Several threads with one lock around malloc and free see the same allocator.
THEOREM ThreadsImplement == ASSUME RequestsFit PROVE ThreadsSpec => ImplementsAllocator
<1>1. ThreadsInit => Abstract!Init /\ AskedCovered
  BY InitRefines DEF ThreadsInit
<1>2. ASSUME HeapInv, ThreadInv, HeapInv', AskedCovered, [ThreadsNext]_tvars
      PROVE  AskedCovered' /\ [Abstract!Next]_(Abstract!avars)
  <2>1. CASE [Next]_vars BY <1>2, <2>1, AskedKept, HeapStep DEF AbstractNext
  <2>2. ASSUME NEW p \in DOMAIN live, NEW w \in Junk, write(p, w)
        PROVE  AskedCovered' /\ [Abstract!Next]_(Abstract!avars)
    <3>1. AskedCovered' BY <1>2, <2>2 DEF write, AskedCovered
    <3> QED BY <3>1, <1>2, <2>2, StoreStep DEF AbstractNext
  <2> QED BY <1>2, <2>1, <2>2, ThreadStep
<1>3. (HeapInv /\ ThreadInv) /\ (HeapInv /\ ThreadInv)' /\ AskedCovered /\ [ThreadsNext]_tvars
        => AskedCovered' /\ [Abstract!Next]_(Abstract!avars)
  BY <1>2
<1> QED BY <1>1, <1>3, ThreadsInvariance, PTL
        DEF ThreadsSpec, ImplementsAllocator, Abstract!Spec
============================================================================
