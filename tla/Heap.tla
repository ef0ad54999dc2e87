-------------------------------- MODULE Heap --------------------------------
(***************************************************************************)
(* The boundary-tag heap of src/stdlib.c: __heap_init, malloc, free and    *)
(* extend, at the level of the words of memory they read and write.        *)
(*                                                                         *)
(* Every address the allocator computes is a multiple of 16 bytes, and a   *)
(* header_t and a footer_t are 16 bytes each, so memory is modelled in     *)
(* granules of 16 bytes.  A granule is two words: the union `info' (next   *)
(* or prev link, or a magic number) and `size' (here in granules).         *)
(*                                                                         *)
(*   [dummy footer][header|payload|footer]...[header|payload|footer][dummy *)
(*   header]                                                               *)
(*                                                                         *)
(* A malloc call is a step per iteration of its search loop; free and the  *)
(* list surgery are one step each.                                         *)
(***************************************************************************)
EXTENDS Integers, FiniteSets

CONSTANTS
  ALIGN,           \* bytes in a granule (16)
  SIZE_RANGE,      \* number of values of size_t (2^64)
  PAGE,            \* granules in a page (4096 / 16)
  INITIAL,         \* __HEAP_INITIAL_SIZE in granules (1024 / 16)
  MMAP_THRESHOLD,  \* granules from which malloc uses mmap (2^17 / 16)
  BrkLimit,        \* the kernel refuses a program break above this granule
  MemTop,          \* granules BrkLimit .. MemTop-1 are where mmap places maps
  InitialBreaks,   \* bytes: the program breaks the process may start with
  Requests,        \* bytes: the sizes the program asks malloc for
  Junk             \* words the program stores in its payloads

NULL == 0
USED_NORMAL == -1   \* __HEAP_MEMORY_USED_NORMAL: not a user address
USED_MMAP   == -2   \* __HEAP_MEMORY_USED_MMAP

Addr == 0 .. MemTop - 1

ASSUME HeapConstants ==
  /\ ALIGN \in Nat \ {0} /\ PAGE \in Nat \ {0, 1}
  /\ SIZE_RANGE \in Nat /\ SIZE_RANGE >= ALIGN
  /\ INITIAL \in Nat /\ INITIAL >= 4
  /\ MMAP_THRESHOLD \in Nat /\ MMAP_THRESHOLD > 2
  /\ BrkLimit \in Nat /\ MemTop \in Nat /\ BrkLimit <= MemTop
  /\ InitialBreaks \subseteq Nat \ {0}
  /\ Requests \subseteq 0 .. SIZE_RANGE - 1
  /\ Junk \subseteq Int

VARIABLES
  heap,         \* [info, size: Addr -> Int, head_, p_brk_: Addr]
  heap_start_,  \* the granule of the dummy footer
  maps,         \* the kernel's mmap regions: set of [base, len]
  call,         \* the malloc call in progress
  phase,        \* "boot" before __heap_init, "exited" when it fails
  live,         \* history: payload pointers the program holds -> bytes asked
  blocks        \* history: header addresses of the blocks between the dummies

vars == <<heap, heap_start_, maps, call, phase, live, blocks>>

-----------------------------------------------------------------------------
(* Pointer arithmetic and the free list.  Each operator takes the memory   *)
(* before and returns the memory after.                                    *)

header_of(h, footer) == footer - 1 - h.size[footer]

footer_of(h, header) == header + 1 + h.size[header]

\* Mutant: head_ is not moved to a block put in front.
insert_without_head(h, prev, curr) ==
  LET next   == IF prev = NULL THEN h.head_ ELSE h.info[prev]
      own    == [h.info EXCEPT ![curr] = next, ![footer_of(h, curr)] = prev]
      linked == IF prev = NULL THEN own ELSE [own EXCEPT ![prev] = curr]
  IN  [h EXCEPT !.info = IF next = NULL THEN linked
                         ELSE [linked EXCEPT ![footer_of(h, next)] = curr]]

insert_into_list(h, prev, curr) ==
  LET next   == IF prev = NULL THEN h.head_ ELSE h.info[prev]
      own    == [h.info EXCEPT ![curr] = next, ![footer_of(h, curr)] = prev]
      linked == IF prev = NULL THEN own ELSE [own EXCEPT ![prev] = curr]
  IN  [h EXCEPT
        !.head_ = IF prev = NULL THEN curr ELSE @,
        !.info  = IF next = NULL THEN linked
                  ELSE [linked EXCEPT ![footer_of(h, next)] = curr]]

\* Mutant: the next block keeps its old prev link.
remove_without_prev(h, header) ==
  LET prev == h.info[footer_of(h, header)]
      next == h.info[header]
  IN  [h EXCEPT
        !.head_ = IF prev = NULL THEN next ELSE @,
        !.info  = IF prev = NULL THEN @ ELSE [@ EXCEPT ![prev] = next]]

remove_from_list(h, header) ==
  LET prev   == h.info[footer_of(h, header)]
      next   == h.info[header]
      behind == IF prev = NULL THEN h.info ELSE [h.info EXCEPT ![prev] = next]
  IN  [h EXCEPT
        !.head_ = IF prev = NULL THEN next ELSE @,
        !.info  = IF next = NULL THEN behind
                  ELSE [behind EXCEPT ![footer_of(h, next)] = prev]]

\* Write one size in a header and in the footer it leads to.
set_size(h, header, n) ==
  [h EXCEPT !.size = [@ EXCEPT ![header] = n, ![header + 1 + n] = n]]

set_info(h, a, v) == [h EXCEPT !.info = [@ EXCEPT ![a] = v]]

-----------------------------------------------------------------------------
(* malloc                                                                  *)

\* Mutant: rounded down.
align_down(n) == n \div ALIGN

\* n += 15; n &= ~0xF in size_t arithmetic, as a number of granules.
align(n) == ((n + ALIGN - 1) % SIZE_RANGE) \div ALIGN

round_to_page(n) == ((n + PAGE - 1) \div PAGE) * PAGE

\* Length of the mapping for a request of n granules and its header.
map_length(n) ==
  (((n + PAGE) % (SIZE_RANGE \div ALIGN)) \div PAGE) * PAGE

splits(h, current, n) == h.size[current] - n > 2

\* Mutant: the front block's size counts its header and footer.
split_with_overhead(h, current, n) ==
  LET total == h.size[current]
      prev  == h.info[footer_of(h, current)]
      front == set_info(set_size(h, current, n + 2), current + 3 + n, prev)
      rest  == set_size(front, current + 2 + n, total - n - 2)
  IN  insert_into_list(rest, current, current + 2 + n)

\* Cut the block after n granules; the rest becomes the next free block.
split(h, current, n) ==
  LET total == h.size[current]
      prev  == h.info[footer_of(h, current)]
      front == set_info(set_size(h, current, n), current + 1 + n, prev)
      rest  == set_size(front, current + 2 + n, total - n - 2)
  IN  insert_into_list(rest, current, current + 2 + n)

\* Take the block at current out of the list and mark it used.
take(h, current, n) ==
  LET cut     == IF splits(h, current, n) THEN split(h, current, n) ELSE h
      removed == remove_from_list(cut, current)
  IN  set_info(set_info(removed, current, USED_NORMAL),
               footer_of(cut, current), USED_NORMAL)

\* Mutant: the space gained is never joined with a free last block.
last_is_never_free(h) == FALSE

\* Is the last block of the heap free?
last_is_free(h) == h.info[h.p_brk_ - 2] # USED_NORMAL

\* The bookkeeping of extend() once the kernel has moved the break.
extend(h, new_end) ==
  LET bottom == h.p_brk_ - 2
      delta  == new_end - h.p_brk_
      last   == header_of(h, bottom)
      moved  == [h EXCEPT
                  !.p_brk_ = new_end,
                  !.info = [@ EXCEPT ![bottom + delta] = h.info[bottom],
                                     ![bottom + delta + 1] = h.info[bottom + 1]],
                  !.size = [@ EXCEPT ![bottom + delta] = h.size[bottom],
                                     ![bottom + delta + 1] = h.size[bottom + 1]]]
      fresh  == set_size([h EXCEPT !.p_brk_ = new_end], bottom + 1, delta - 2)
  IN  IF last_is_free(h)
      THEN set_size(moved, last, h.size[last] + delta)
      ELSE set_info(insert_into_list(fresh, NULL, bottom + 1),
                    new_end - 1, USED_NORMAL)

extended_blocks(h) ==
  IF last_is_free(h) THEN blocks ELSE blocks \cup {h.p_brk_ - 1}

-----------------------------------------------------------------------------
(* free                                                                    *)

\* Join the block whose footer is prev_footer with the one at the list head.
merge_prev(h, prev_footer) ==
  LET new_head == header_of(h, prev_footer)
      out      == remove_from_list(h, new_head)
      grown    == set_size(out, new_head,
                           out.size[new_head] + out.size[out.head_] + 2)
      cleared  == set_info(grown, footer_of(grown, new_head), NULL)
      next     == cleared.info[out.head_]
      joined   == [set_info(cleared, new_head, next) EXCEPT !.head_ = new_head]
  IN  IF next = NULL THEN joined
      ELSE set_info(joined, footer_of(joined, next), new_head)

\* Join the block at the list head with the one that follows it.
merge_next(h, next_header) ==
  LET out   == remove_from_list(h, next_header)
      grown == set_size(out, out.head_,
                        out.size[out.head_] + out.size[next_header] + 2)
  IN  set_info(grown, footer_of(grown, out.head_), NULL)

prev_is_free(h, header) == h.info[header - 1] # USED_NORMAL

next_is_free(h, header) == h.info[footer_of(h, header) + 1] # USED_NORMAL

\* The free list part of free(): insert, then coalesce both ways.
release(h, header) ==
  LET next_header == footer_of(h, header) + 1
      inserted    == insert_into_list(h, NULL, header)
      back        == IF inserted.info[header - 1] # USED_NORMAL
                     THEN merge_prev(inserted, header - 1) ELSE inserted
  IN  IF back.info[next_header] # USED_NORMAL
      THEN merge_next(back, next_header) ELSE back

-----------------------------------------------------------------------------
(* The actions                                                             *)

idle == [pc |-> "idle", n |-> 0, asked |-> 0, current |-> NULL]

Init ==
  /\ heap = [info |-> [a \in Addr |-> 0], size |-> [a \in Addr |-> 0],
             head_ |-> NULL, p_brk_ |-> NULL]
  /\ heap_start_ = NULL
  /\ maps = {}
  /\ call = idle
  /\ phase = "boot"
  /\ live = [p \in {} |-> 0]
  /\ blocks = {}

\* The memory after init(head, size): the dummies and one free block.
init(h, head, size) ==
  LET bottom == head + size - 1
      first  == head + 1
      tagged == set_info(set_info(h, head, USED_NORMAL), bottom, USED_NORMAL)
      linked == set_info(set_info(tagged, first, NULL), bottom - 1, NULL)
  IN  [set_size(linked, first, size - 4) EXCEPT
         !.head_ = first, !.p_brk_ = head + size]

initial_top(bottom) == ((bottom + INITIAL + PAGE - 1) \div PAGE) * PAGE

heap_init(break) ==
  LET bottom == (break + ALIGN - 1) \div ALIGN
      top    == initial_top(bottom)
  IN  /\ phase = "boot"
      /\ top <= BrkLimit
      /\ heap' = init(heap, bottom, top - bottom)
      /\ heap_start_' = bottom
      /\ blocks' = {bottom + 1}
      /\ phase' = "ready"
      /\ UNCHANGED <<maps, call, live>>

\* brk did not return the top asked for: exit(2).
heap_init_fails ==
  /\ phase = "boot"
  /\ phase' = "exited"
  /\ UNCHANGED <<heap, heap_start_, maps, call, live, blocks>>

ready == phase = "ready" /\ call.pc = "idle"

hold(p, n) == [q \in DOMAIN live \cup {p} |-> IF q = p THEN n ELSE live[q]]

drop(p) == [q \in DOMAIN live \ {p} |-> live[q]]

\* malloc(n) below the mmap threshold: start at the head of the free list.
malloc(n) ==
  /\ ready
  /\ align(n) < MMAP_THRESHOLD
  /\ call' = [pc |-> "scan", n |-> align(n), asked |-> n, current |-> heap.head_]
  /\ UNCHANGED <<heap, heap_start_, maps, phase, live, blocks>>

\* Mutant: walk the blocks by address.
malloc_next_by_address ==
  /\ call.pc = "scan"
  /\ call.current # NULL
  /\ heap.size[call.current] < call.n
  /\ call' = [call EXCEPT !.current = footer_of(heap, call.current) + 1]
  /\ UNCHANGED <<heap, heap_start_, maps, phase, live, blocks>>

\* Mutant: a block that fits exactly is passed over too.
malloc_next_exact ==
  /\ call.pc = "scan"
  /\ call.current # NULL
  /\ heap.size[call.current] <= call.n
  /\ call' = [call EXCEPT !.current = heap.info[call.current]]
  /\ UNCHANGED <<heap, heap_start_, maps, phase, live, blocks>>

\* The loop passes over a block that is too small.
malloc_next ==
  /\ call.pc = "scan"
  /\ call.current # NULL
  /\ heap.size[call.current] < call.n
  /\ call' = [call EXCEPT !.current = heap.info[call.current]]
  /\ UNCHANGED <<heap, heap_start_, maps, phase, live, blocks>>

\* The loop finds a block that fits: split it, take it and return it.
malloc_take ==
  LET b == call.current
  IN  /\ call.pc = "scan"
      /\ b # NULL
      /\ heap.size[b] >= call.n
      /\ heap' = take(heap, b, call.n)
      /\ blocks' = IF splits(heap, b, call.n)
                   THEN blocks \cup {b + 2 + call.n} ELSE blocks
      /\ live' = hold(b + 1, call.asked)
      /\ call' = idle
      /\ UNCHANGED <<heap_start_, maps, phase>>

at_least(n, low) == IF n < low THEN low ELSE n

\* Mutant: no room for the header and the footer of the new block.
grow_size_bare(n) == at_least(n, 2)

grow_size(n) == at_least(n, 2) + 2

\* Mutant: the answer of brk is not looked at.
malloc_grow_unchecked ==
  LET new_end == round_to_page(heap.p_brk_ + grow_size(call.n))
  IN  /\ call.pc = "scan"
      /\ call.current = NULL
      /\ heap' = extend(heap, new_end)
      /\ blocks' = extended_blocks(heap)
      /\ call' = [call EXCEPT !.n = at_least(call.n, 2), !.current = heap'.head_]
      /\ UNCHANGED <<heap_start_, maps, phase, live>>

\* End of the list: move the break and search again from the head.
malloc_grow ==
  LET new_end == round_to_page(heap.p_brk_ + grow_size(call.n))
  IN  /\ call.pc = "scan"
      /\ call.current = NULL
      /\ new_end <= BrkLimit
      /\ heap' = extend(heap, new_end)
      /\ blocks' = extended_blocks(heap)
      /\ call' = [call EXCEPT !.n = at_least(call.n, 2), !.current = heap'.head_]
      /\ UNCHANGED <<heap_start_, maps, phase, live>>

\* End of the list and brk refuses: return NULL.
malloc_fail ==
  /\ call.pc = "scan"
  /\ call.current = NULL
  /\ call' = idle
  /\ UNCHANGED <<heap, heap_start_, maps, phase, live, blocks>>

Region(base, len) == base .. base + len - 1

\* mmap gives a zeroed page-aligned region that overlaps no other.
mappable(base, len) ==
  /\ len > 0
  /\ base % PAGE = 0
  /\ Region(base, len) \subseteq BrkLimit .. MemTop - 1
  /\ \A m \in maps : Region(base, len) \cap Region(m.base, m.len) = {}

\* Mutant: the header of a map holds the payload's length.
malloc_mmap_payload(n) ==
  LET len == map_length(align(n))
  IN  /\ ready
      /\ align(n) >= MMAP_THRESHOLD
      /\ \E base \in BrkLimit .. MemTop - 1 :
           /\ mappable(base, len)
           /\ heap' = [set_info(heap, base, USED_MMAP) EXCEPT !.size[base] = len - 1]
           /\ maps' = maps \cup {[base |-> base, len |-> len]}
           /\ live' = hold(base + 1, n)
      /\ UNCHANGED <<heap_start_, call, phase, blocks>>

\* malloc(n) at or above the threshold: map a region and head it.
malloc_mmap(n) ==
  LET len == map_length(align(n))
  IN  /\ ready
      /\ align(n) >= MMAP_THRESHOLD
      /\ \E base \in BrkLimit .. MemTop - 1 :
           /\ mappable(base, len)
           /\ heap' = [heap EXCEPT
                !.info = [a \in Addr |->
                   IF a = base THEN USED_MMAP
                   ELSE IF a \in Region(base, len) THEN 0 ELSE heap.info[a]],
                !.size = [a \in Addr |->
                   IF a = base THEN len
                   ELSE IF a \in Region(base, len) THEN 0 ELSE heap.size[a]]]
           /\ maps' = maps \cup {[base |-> base, len |-> len]}
           /\ live' = hold(base + 1, n)
      /\ UNCHANGED <<heap_start_, call, phase, blocks>>

\* The kernel refuses the mapping: return NULL.
malloc_mmap_fails(n) ==
  /\ ready
  /\ align(n) >= MMAP_THRESHOLD
  /\ UNCHANGED vars

\* free(NULL) returns at once.
free_null == ready /\ UNCHANGED vars

\* Mutant: munmap is given the length without the header.
free_mmap_payload(p) ==
  /\ ready
  /\ heap.info[p - 1] = USED_MMAP
  /\ maps' = maps \ {[base |-> p - 1, len |-> heap.size[p - 1] - 1]}
  /\ live' = drop(p)
  /\ UNCHANGED <<heap, heap_start_, call, phase, blocks>>

\* free(p) of a mapped block.
free_mmap(p) ==
  /\ ready
  /\ heap.info[p - 1] = USED_MMAP
  /\ maps' = maps \ {[base |-> p - 1, len |-> heap.size[p - 1]]}
  /\ live' = drop(p)
  /\ UNCHANGED <<heap, heap_start_, call, phase, blocks>>

\* free(p) of a heap block.
free(p) ==
  LET header == p - 1
  IN  /\ ready
      /\ heap.info[header] # USED_MMAP
      /\ heap' = release(heap, header)
      /\ blocks' = blocks
           \ ((IF prev_is_free(heap, header) THEN {header} ELSE {}) \cup
              (IF next_is_free(heap, header) THEN {footer_of(heap, header) + 1}
               ELSE {}))
      /\ live' = drop(p)
      /\ UNCHANGED <<heap_start_, maps, call, phase>>

\* Granules of the payload behind a live pointer.
payload_len(h, p) ==
  IF h.info[p - 1] = USED_MMAP THEN h.size[p - 1] - 1 ELSE h.size[p - 1]

Payload(h, p) == p .. p + payload_len(h, p) - 1

\* Words change only behind a pointer the program holds.
write(p, w) ==
  /\ phase = "ready"
  /\ heap' = [heap EXCEPT
       !.info = [a \in Addr |-> IF a \in Payload(heap, p) THEN w ELSE @[a]],
       !.size = [a \in Addr |-> IF a \in Payload(heap, p) THEN w ELSE @[a]]]
  /\ UNCHANGED <<heap_start_, maps, call, phase, live, blocks>>

\* The program stores into a payload.
store(p, w) == ready /\ write(p, w)

exited == phase = "exited" /\ UNCHANGED vars

malloc_step == malloc_next \/ malloc_take \/ malloc_grow \/ malloc_fail

Next ==
  \/ \E break \in InitialBreaks : heap_init(break)
  \/ heap_init_fails
  \/ \E n \in Requests : malloc(n) \/ malloc_mmap(n) \/ malloc_mmap_fails(n)
  \/ malloc_step
  \/ free_null
  \/ \E p \in DOMAIN live : free(p) \/ free_mmap(p)
  \/ \E p \in DOMAIN live, w \in Junk : store(p, w)
  \/ exited

Spec == Init /\ [][Next]_vars

-----------------------------------------------------------------------------
(* What makes the heap correct                                             *)

is_used(h, b) == h.info[b] = USED_NORMAL

FreeBlocks == {b \in blocks : ~is_used(heap, b)}

after(h, b) == footer_of(h, b) + 1

\* Type invariant: where the words, links, calls and pointers live.
TypeOK ==
  /\ heap \in [info: [Addr -> Int], size: [Addr -> Int],
               head_: Int, p_brk_: 0 .. BrkLimit]
  /\ heap_start_ \in 0 .. BrkLimit
  /\ maps \subseteq [base: Addr, len: Nat]
  /\ call \in [pc: {"idle", "scan"}, n: Nat, asked: Nat, current: Int]
  /\ phase \in {"boot", "ready", "exited"}
  /\ DOMAIN live \subseteq Addr /\ \A p \in DOMAIN live : live[p] \in Nat
  /\ blocks \subseteq Addr

\* The blocks lie end to end between the two dummies, without overlap, and
\* header and footer of a block agree on its size.
Tiled(h, start, bs) ==
  /\ start >= 1
  /\ h.p_brk_ > start + 1
  /\ start + 1 \in bs
  /\ \A b \in bs :
       /\ b > start
       /\ h.size[b] >= 0
       /\ after(h, b) < h.p_brk_
       /\ h.size[footer_of(h, b)] = h.size[b]
       /\ after(h, b) \in bs \cup {h.p_brk_ - 1}
  /\ \A b \in bs \cup {h.p_brk_ - 1} :
       b # start + 1 => /\ header_of(h, b - 1) \in bs
                        /\ after(h, header_of(h, b - 1)) = b
  /\ \A b, c \in bs : b < c => footer_of(h, b) < c

\* The dummies are marked used, and header and footer of a block agree on
\* whether it is used.
Tagged(h, start, bs) ==
  /\ h.info[start] = USED_NORMAL
  /\ h.info[h.p_brk_ - 1] = USED_NORMAL
  /\ \A b \in bs : is_used(h, b) <=> h.info[footer_of(h, b)] = USED_NORMAL

\* No free block is off the list: a set of them that holds head_ and the next
\* of each of its members holds them all.
Reached(h, fs) ==
  \A P \in SUBSET fs :
    /\ h.head_ # NULL => h.head_ \in P
    /\ \A b \in P : h.info[b] # NULL => h.info[b] \in P
    => P = fs

\* The next links in the headers and the prev links in the footers of the
\* free blocks are inverse to each other, head_ has no prev, and following the
\* next links from head_ leads to every free block.
Linked(h, fs) ==
  /\ Reached(h, fs)
  /\ h.head_ # NULL => h.head_ \in fs /\ h.info[footer_of(h, h.head_)] = NULL
  /\ \A b \in fs :
       LET next == h.info[b]
           prev == h.info[footer_of(h, b)]
       IN  /\ next # NULL => next \in fs /\ h.info[footer_of(h, next)] = b
           /\ prev # NULL => prev \in fs /\ h.info[prev] = b
           /\ prev = NULL => h.head_ = b

\* Blocks tile the heap and the free list links are consistent, also between
\* the iterations of a malloc: what heap_check of the test suite walks.
HeapIntact ==
  phase = "ready" =>
    /\ Tiled(heap, heap_start_, blocks)
    /\ Tagged(heap, heap_start_, blocks)
    /\ Linked(heap, FreeBlocks)

\* free() and extend() always coalesce: no free block follows a free block.
Coalesced ==
  \A b \in FreeBlocks : after(heap, b) \notin FreeBlocks

\* The program holds exactly the used blocks and the mapped regions: nothing
\* it holds is on the free list, nothing it gave back stays used or mapped.
Accounted ==
  DOMAIN live = {b + 1 : b \in blocks \ FreeBlocks} \cup {m.base + 1 : m \in maps}

\* A mapped region is headed by the magic and the length munmap will be given,
\* whatever the heap and the other regions do.
MapsHeaded ==
  \A m \in maps : heap.info[m.base] = USED_MMAP /\ heap.size[m.base] = m.len

\* Mapped regions are not empty, lie above the heap and do not overlap.
MapsApart ==
  \A m \in maps :
    /\ m.len > 0 /\ Region(m.base, m.len) \subseteq BrkLimit .. MemTop - 1
    /\ \A k \in maps \ {m} : Region(m.base, m.len) \cap Region(k.base, k.len) = {}

\* The search stands on a free block or at the end of the list: the cursor
\* that the loop of malloc keeps never goes stale.
CursorOnFreeList ==
  call.pc = "scan" => phase = "ready" /\ call.current \in FreeBlocks \cup {NULL}

\* Before __heap_init nothing is allocated.
NothingYet ==
  phase # "ready" => blocks = {} /\ maps = {} /\ live = [p \in {} |-> 0] /\ call = idle

\* The inductive invariant.
HeapInv ==
  /\ TypeOK /\ HeapIntact /\ Accounted /\ MapsHeaded /\ MapsApart
  /\ CursorOnFreeList /\ NothingYet

\* Every payload is as long as the program asked for.
PayloadCovers ==
  \A p \in DOMAIN live : live[p] <= ALIGN * payload_len(heap, p)

\* The granules the allocator itself reads and writes.
Metadata ==
  {heap_start_, heap.p_brk_ - 1} \cup {m.base : m \in maps}
    \cup blocks \cup {footer_of(heap, b) : b \in blocks}

\* Two payloads never share a granule, and no payload holds metadata.
PayloadsDisjoint ==
  phase = "ready" =>
    \A p \in DOMAIN live :
      /\ Payload(heap, p) \cap Metadata = {}
      /\ \A q \in DOMAIN live \ {p} : Payload(heap, p) \cap Payload(heap, q) = {}

\* k-th block of the free list, as __heap_free_list_length walks it.
free_list ==
  LET nth[k \in 0 .. Cardinality(blocks)] ==
        IF k = 0 THEN heap.head_
        ELSE IF nth[k - 1] \in FreeBlocks THEN heap.info[nth[k - 1]] ELSE NULL
  IN  nth

\* Walking the list from head_ ends, and visits every free block.
FreeListComplete ==
  LET walk == free_list
      ends == {k \in DOMAIN walk : walk[k] = NULL}
  IN  /\ ends # {}
      /\ {walk[k] : k \in DOMAIN walk \ ends} = FreeBlocks

\* The search gives up only when no free block anywhere is large enough, so
\* malloc grows the heap or returns NULL only then.
GivesUpOnlyWhenFull ==
  call.pc = "scan" /\ call.current = NULL =>
    \A b \in FreeBlocks : heap.size[b] < call.n

\* Growing the heap leaves a free block for the request, header and footer
\* counted, so that the retry of malloc succeeds without growing again.
GrowthMakesRoom ==
  [][heap'.p_brk_ # heap.p_brk_ /\ phase = "ready" =>
       \E b \in FreeBlocks' : heap'.size[b] >= call'.n]_vars

\* What the program sees of the heap: the words behind its pointers.
view_of_program ==
  [p \in DOMAIN live |->
     [a \in Payload(heap, p) |-> <<heap.info[a], heap.size[a]>>]]

Abstract == INSTANCE Allocator WITH data <- view_of_program

\* The heap implements the allocator: fresh, separate, large enough payloads
\* whose words change only when the program stores into them.
ImplementsAllocator == Abstract!Spec
=============================================================================
