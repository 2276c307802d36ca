-------------------------------- MODULE Heap -------------------------------
(***************************************************************************)
(* The kernel heap (mm/memory.c): blocks in address order, each a header   *)
(* and a payload, in runs of frames that the page allocator gave and that  *)
(* the heap never gives back.                                              *)
(*                                                                         *)
(* m.heap is the list the C code calls free_list: a sequence of records,   *)
(* at the address of the header, size that of the payload.  A block is     *)
(* named by the address of its header.  Sizes are multiples of ALIGN, the  *)
(* unit of every address here.                                             *)
(***************************************************************************)
EXTENDS Pmm

CONSTANT BLOCK_HEADER_SIZE, ALIGN

ASSUME HeapAssumption ==
    BLOCK_HEADER_SIZE \in 1 .. PAGE_SIZE - 1 /\ ALIGN \in Nat \ {0}

MIN_SPLIT == BLOCK_HEADER_SIZE + ALIGN

adjacent(a, b) == a.at + BLOCK_HEADER_SIZE + a.size = b.at

k_heap_init(m) ==
    LET f == pmm_find(m, 1) IN
    IF f = NONE THEN m
    ELSE [pmm_take(m, f, 1) EXCEPT
            !.heap = <<[at |-> f * PAGE_SIZE, size |-> PAGE_SIZE - BLOCK_HEADER_SIZE,
                        free |-> TRUE]>>]

\* First fit; 0 when no block will do.
k_find_free_block(h, size) == SelectInSeq(h, LAMBDA b : b.free /\ b.size >= size)

\* Block i takes in the one after it.
Merge(h, i) ==
    RemoveAt([h EXCEPT ![i].size = @ + h[i + 1].size + BLOCK_HEADER_SIZE], i + 1)

(***************************************************************************)
(* A new run of frames becomes one block, put in its place in the list and *)
(* given to a free block that ends where it starts.  The result is the     *)
(* allocator and the place of the block, 0 when there are no frames.       *)
(***************************************************************************)
expand(m, n, f, i) ==
    LET block == [at |-> f * PAGE_SIZE, size |-> n * PAGE_SIZE - BLOCK_HEADER_SIZE, free |-> FALSE]
        into  == i > 0 /\ m.heap[i].free /\ adjacent(m.heap[i], block)
    IN  [m |-> [pmm_take(m, f, n) EXCEPT
                    !.heap = IF into THEN Merge(InsertAt(@, i + 1, block), i)
                             ELSE InsertAt(@, i + 1, block)],
         i |-> IF into THEN i ELSE i + 1]

expand_at(m, n, f) ==
    IF f = NONE THEN [m |-> m, i |-> 0]
    ELSE expand(m, n, f, Cardinality({j \in DOMAIN m.heap : m.heap[j].at < f * PAGE_SIZE}))

pages_for(size) == (size + BLOCK_HEADER_SIZE + PAGE_SIZE - 1) \div PAGE_SIZE

k_expand_heap(m, size) == expand_at(m, pages_for(size), pmm_find(m, pages_for(size)))

\* A bug to catch: the header of the rest is not taken off its size.
split_headless(h, i, size) ==
    IF h[i].size < size + MIN_SPLIT THEN h
    ELSE InsertAt([h EXCEPT ![i].size = size], i + 1,
                  [at |-> h[i].at + BLOCK_HEADER_SIZE + size,
                   size |-> h[i].size - size, free |-> TRUE])

split(h, i, size) ==
    IF h[i].size < size + MIN_SPLIT THEN h
    ELSE InsertAt([h EXCEPT ![i].size = size], i + 1,
                  [at |-> h[i].at + BLOCK_HEADER_SIZE + size,
                   size |-> h[i].size - size - BLOCK_HEADER_SIZE, free |-> TRUE])

\* Block r.i of the heap r.m is given out, and what it does not need split off.
give(r, size) ==
    IF r.i = 0 THEN [m |-> r.m, at |-> NONE]
    ELSE [m  |-> [r.m EXCEPT !.heap = split([@ EXCEPT ![r.i].free = FALSE], r.i, size)],
          at |-> r.m.heap[r.i].at]

fit(m, size, i) == IF i # 0 THEN [m |-> m, i |-> i] ELSE k_expand_heap(m, size)

align_up(bytes) == ((bytes + ALIGN - 1) \div ALIGN) * ALIGN

\* The result is the allocator and the block, NONE when there is no memory.
k_malloc(m, bytes) ==
    LET size == align_up(bytes)
    IN  IF bytes = 0 THEN [m |-> m, at |-> NONE]
        ELSE give(fit(m, size, k_find_free_block(m.heap, size)), size)

MergeIfFree(h, i) ==
    IF i \in 1 .. Len(h) - 1 /\ h[i].free /\ h[i + 1].free /\ adjacent(h[i], h[i + 1])
    THEN Merge(h, i) ELSE h

\* The block merges with a free neighbour after it, then into one before it.
free_block(h, i) == MergeIfFree(MergeIfFree([h EXCEPT ![i].free = TRUE], i), i - 1)

k_free(m, at) ==
    IF at = NONE THEN m
    ELSE [m EXCEPT !.heap = free_block(@, SelectInSeq(@, LAMBDA b : b.at = at))]
=============================================================================
