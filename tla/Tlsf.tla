-------------------------------- MODULE Tlsf --------------------------------
(***************************************************************************)
(* The kernel heap: the two-level segregated fit allocator of              *)
(* lib/tlsf/tlsf.c behind the wrappers of kernel/kmalloc.c.                *)
(*                                                                         *)
(* Memory is the function hdr from the address of a block's header to what *)
(* the header holds; a header that is merged into another block leaves its *)
(* domain, so that reading it would be an error.  A free list is the       *)
(* sequence of its blocks and a bitmap the set of its bits.  Calls come    *)
(* one at a time.                                                          *)
(***************************************************************************)
EXTENDS Integers, SequencesExt, FiniteSetsExt

CONSTANTS
    WORD,           \* 2^32, where size_t wraps
    PTR,            \* sizeof(void *)
    MAX_FLI, MAX_LOG2_SLI, FLI_OFFSET,
    TLSF_SIZE,      \* sizeof(tlsf_t)
    POOL,           \* mem_pool_size
    Sizes,          \* sizes callers ask for
    Aligns          \* alignments callers ask for

BLOCK_ALIGN == 2 * PTR
MIN_BLOCK_SIZE == 2 * PTR
BHDR_SIZE == 4 * PTR                       \* sizeof(bhdr_t)
BHDR_OVERHEAD == BHDR_SIZE - MIN_BLOCK_SIZE
Pow2[k \in Nat] == IF k = 0 THEN 1 ELSE 2 * Pow2[k - 1]
MAX_SLI == Pow2[MAX_LOG2_SLI]
SMALL_BLOCK == Pow2[FLI_OFFSET + 1]
REAL_FLI == MAX_FLI - FLI_OFFSET

ASSUME PoolAssumption ==
    /\ {WORD, PTR, MAX_FLI, MAX_LOG2_SLI, FLI_OFFSET, TLSF_SIZE, POOL} \subseteq Nat \ {0}
    /\ MAX_LOG2_SLI <= FLI_OFFSET + 1 /\ FLI_OFFSET < MAX_FLI
    \* A pointer has a power of two bytes; a list of small blocks is for one size.
    /\ PTR \in {Pow2[k] : k \in 0 .. MAX_FLI} /\ BLOCK_ALIGN % (SMALL_BLOCK \div MAX_SLI) = 0
    \* The pool is whole pages, or its last header would lie behind it.
    /\ POOL % BLOCK_ALIGN = 0 /\ TLSF_SIZE + 8 * BHDR_OVERHEAD <= POOL
    /\ POOL < Pow2[MAX_FLI] /\ 4 * Pow2[MAX_FLI] <= WORD
    \* Above, sizes wrap when they are rounded up.
    /\ Sizes \subseteq 0 .. Pow2[MAX_FLI] - 1
    /\ Aligns \subseteq Nat \ {0}
    /\ \A bytes \in Sizes, align \in Aligns : bytes + align - 1 + PTR < Pow2[MAX_FLI]

NULL == -1
Wrap(x) == x % WORD
ROUNDDOWN_SIZE(r) == r - (r % BLOCK_ALIGN)
ROUNDUP_SIZE(r) == ROUNDDOWN_SIZE(Wrap(r + BLOCK_ALIGN - 1))
Shr(x, k) == IF k < 0 THEN 0 ELSE x \div Pow2[k]   \* a register shift by 32 or more gives 0

VARIABLES
    heap,    \* hdr, and tlsf_t: matrix, fl_bitmap, sl_bitmap
    given    \* what callers hold: pointer -> what was asked for, and its alignment

vars == <<heap, given>>
-----------------------------------------------------------------------------
(* The index of the free lists.                                            *)

ms_bit(x) == IF x = 0 THEN -1 ELSE CHOOSE k \in 0 .. x : Pow2[k] <= x /\ x < Pow2[k + 1]
ls_bit(bits) == IF bits = {} THEN -1 ELSE Min(bits)

\* The list a free block of r bytes belongs to.
MAPPING_INSERT(r) ==
    IF r < SMALL_BLOCK THEN <<0, r \div (SMALL_BLOCK \div MAX_SLI)>>
    ELSE LET fl == ms_bit(r)
         IN  <<fl - FLI_OFFSET, Shr(r, fl - MAX_LOG2_SLI) - MAX_SLI>>

\* The first list all of whose blocks have r bytes, and r rounded up to it.
RoundUpTo(r) == IF r < SMALL_BLOCK THEN r
                ELSE LET width == Pow2[ms_bit(r) - MAX_LOG2_SLI]
                         s == Wrap(r + width - 1)
                     IN  s - (s % width)
MAPPING_SEARCH(r) == [size |-> RoundUpTo(r), at |-> MAPPING_INSERT(RoundUpTo(r))]

\* sl_bitmap[REAL_FLI + k] is matrix[0][k] to the processor; for the k a size can
\* lead to, a list of blocks smaller than any, always empty.
SlBits(h, fl) == IF fl < REAL_FLI THEN h.sl_bitmap[fl] ELSE {}

\* The first levels above fl that have a block.
LevelsAfterNext(h, fl) == {f \in h.fl_bitmap : f > fl + 1}
LevelsAbove(h, fl) == {f \in h.fl_bitmap : f > fl}

\* The list to take a block from, or NULL.
FIND_SUITABLE_BLOCK(h, at) ==
    LET sls == {sl \in SlBits(h, at[1]) : sl >= at[2]}
        fl == ls_bit(LevelsAbove(h, at[1]))
    IN  IF sls # {} THEN <<at[1], ls_bit(sls)>>
        ELSE IF fl > 0 THEN <<fl, ls_bit(h.sl_bitmap[fl])>>
        ELSE <<NULL, NULL>>
-----------------------------------------------------------------------------
(* Blocks and lists.                                                       *)

SizeAt(h, b) == h.hdr[b].size
NextOf(h, b) == b + BHDR_OVERHEAD + SizeAt(h, b)      \* GET_NEXT_BLOCK
Store(h, b, x) == [h EXCEPT !.hdr = [a \in DOMAIN h.hdr \cup {b} |-> IF a = b THEN x ELSE h.hdr[a]]]
Forget(h, b) == [h EXCEPT !.hdr = [a \in DOMAIN h.hdr \ {b} |-> h.hdr[a]]]

INSERT_BLOCK(h, b) ==
    LET at == MAPPING_INSERT(SizeAt(h, b))
    IN  [h EXCEPT !.matrix[at] = <<b>> \o @,
                  !.sl_bitmap[at[1]] = @ \cup {at[2]},
                  !.fl_bitmap = @ \cup {at[1]}]

\* The bits of a list that has become empty.
KeepBits(h, at) == h
ClearBits(h, at) ==
    IF h.matrix[at] # <<>> THEN h
    ELSE LET sls == h.sl_bitmap[at[1]] \ {at[2]}
         IN  [h EXCEPT !.sl_bitmap[at[1]] = sls,
                       !.fl_bitmap = IF sls = {} THEN @ \ {at[1]} ELSE @]

EXTRACT_BLOCK(h, b) ==
    LET at == MAPPING_INSERT(SizeAt(h, b))
        i == CHOOSE j \in DOMAIN h.matrix[at] : h.matrix[at][j] = b
    IN  ClearBits([h EXCEPT !.matrix[at] = RemoveAt(@, i)], at)
EXTRACT_BLOCK_HDR(h, at) == ClearBits([h EXCEPT !.matrix[at] = Tail(@)], at)

\* Used block b, followed by next_b, keeps size bytes; what is left over, if a
\* header fits in it, becomes a free block.
RestFree(h, b, size, next_b) ==
    LET b2 == b + BHDR_OVERHEAD + size
        rest == SizeAt(h, b) - size - BHDR_OVERHEAD
        h1 == Store(h, b2, [size |-> rest, free |-> TRUE, prev_free |-> FALSE, prev_hdr |-> NULL])
        h2 == [h1 EXCEPT !.hdr[next_b].prev_hdr = b2, !.hdr[next_b].prev_free = TRUE,
                         !.hdr[b].size = size, !.hdr[b].free = FALSE]
    IN  INSERT_BLOCK(h2, b2)
ShouldSplit(h, b, size) == SizeAt(h, b) - size >= BHDR_SIZE

Result(h, p) == [heap |-> h, ptr |-> p]
HdrOf(p) == p - BHDR_OVERHEAD
BufferOf(b) == b + BHDR_OVERHEAD

\* The size a request is rounded to.
Requested(size) == IF size < MIN_BLOCK_SIZE THEN MIN_BLOCK_SIZE ELSE ROUNDUP_SIZE(size)

malloc_ex(h, bytes) ==
    LET want == MAPPING_SEARCH(Requested(bytes))
        at == FIND_SUITABLE_BLOCK(h, want.at)
        b == Head(h.matrix[at])
        h1 == EXTRACT_BLOCK_HDR(h, at)
        next_b == NextOf(h1, b)
    IN  IF at[1] = NULL THEN Result(h, NULL)
        ELSE Result(IF ShouldSplit(h1, b, want.size) THEN RestFree(h1, b, want.size, next_b)
                    ELSE [h1 EXCEPT !.hdr[next_b].prev_free = FALSE, !.hdr[b].free = FALSE],
                    BufferOf(b))

\* Block a absorbs the block behind it, which is on no list.
Merged(h, a, b) == Forget([h EXCEPT !.hdr[a].size = @ + SizeAt(h, b) + BHDR_OVERHEAD], b)
NeverNext(h, b) == h
MergeNext(h, b) == LET n == NextOf(h, b)
                   IN  IF h.hdr[n].free THEN Merged(EXTRACT_BLOCK(h, n), b, n) ELSE h

free_ex(h, p) ==
    LET b == HdrOf(p)
        h1 == MergeNext([h EXCEPT !.hdr[b].free = TRUE], b)
        prev == h1.hdr[b].prev_hdr
        a == IF h1.hdr[b].prev_free THEN prev ELSE b
        h2 == INSERT_BLOCK(IF a = b THEN h1 ELSE Merged(EXTRACT_BLOCK(h1, a), a, b), a)
        n == NextOf(h2, a)
    IN  IF p = NULL THEN h
        ELSE [h2 EXCEPT !.hdr[n].prev_free = TRUE, !.hdr[n].prev_hdr = a]

\* A block that may shrink absorbs the free block behind it and gives back what
\* it does not need; one that has to grow does the same if the two suffice.
Resized(h, b, size) ==
    LET h1 == MergeNext(h, b)
        n == NextOf(h1, b)
    IN  IF ShouldSplit(h1, b, size) THEN RestFree(h1, b, size, n)
        ELSE IF h1 = h THEN h
        ELSE [h1 EXCEPT !.hdr[n].prev_hdr = b, !.hdr[n].prev_free = FALSE]

FitsWithAnyNext(h, b, size) == size <= SizeAt(h, b) + SizeAt(h, NextOf(h, b))
FitsWithNext(h, b, size) ==
    LET n == NextOf(h, b)
    IN  h.hdr[n].free /\ size <= SizeAt(h, b) + SizeAt(h, n)

realloc_ex(h, p, bytes) ==
    LET b == HdrOf(p)
        size == Requested(bytes)
        moved == malloc_ex(h, size)
    IN  IF p = NULL THEN (IF bytes # 0 THEN malloc_ex(h, bytes) ELSE Result(h, NULL))
        ELSE IF bytes = 0 THEN Result(free_ex(h, p), NULL)
        ELSE IF size <= SizeAt(h, b) \/ FitsWithNext(h, b, size) THEN Result(Resized(h, b, size), p)
        ELSE IF moved.ptr = NULL THEN moved
        ELSE Result(free_ex(moved.heap, p), moved.ptr)
-----------------------------------------------------------------------------
(* The pool.                                                               *)

ib == ROUNDUP_SIZE(TLSF_SIZE)                            \* process_area's area
first == BufferOf(ib) + ROUNDUP_SIZE(2 * PTR)            \* behind area_info_t
FirstSize == ROUNDDOWN_SIZE(ROUNDDOWN_SIZE(POOL - TLSF_SIZE) - 3 * BHDR_OVERHEAD - ROUNDUP_SIZE(2 * PTR))
last == BufferOf(first) + FirstSize

\* process_area: one used block and, behind it, one of size 0 that stays used.
process_area ==
    [hdr |-> [a \in {first, last} |->
                IF a = first THEN [size |-> FirstSize, free |-> FALSE, prev_free |-> FALSE, prev_hdr |-> NULL]
                ELSE [size |-> 0, free |-> FALSE, prev_free |-> TRUE, prev_hdr |-> first]],
     matrix |-> [at \in (0 .. REAL_FLI - 1) \X (0 .. MAX_SLI - 1) |-> <<>>],
     fl_bitmap |-> {},
     sl_bitmap |-> [fl \in 0 .. REAL_FLI - 1 |-> {}]]

\* init_memory_pool
Init == /\ heap = free_ex(process_area, BufferOf(first))
        /\ given = [p \in {} |-> {}]

Give(p, r) == [q \in DOMAIN given \cup {p} |-> IF q = p THEN r ELSE given[q]]
Without(p) == [q \in DOMAIN given \ {p} |-> given[q]]
Ask(bytes, ptr, align) == [asked |-> bytes, ptr |-> ptr, align |-> align]

kmalloc(bytes) ==
    LET r == malloc_ex(heap, bytes)
    IN  /\ heap' = r.heap
        /\ given' = IF r.ptr = NULL THEN given ELSE Give(r.ptr, Ask(bytes, r.ptr, 1))

kfree(p) == heap' = free_ex(heap, p) /\ given' = Without(p)

krealloc(p, bytes) ==
    LET r == realloc_ex(heap, p, bytes)
    IN  /\ heap' = r.heap
        /\ given' = IF bytes = 0 THEN Without(p)
                    ELSE IF r.ptr = NULL THEN given
                    ELSE [q \in (DOMAIN given \ {p}) \cup {r.ptr} |->
                             IF q = r.ptr THEN Ask(bytes, r.ptr, 1) ELSE given[q]]

\* The caller gets an aligned address inside the block, in front of which the
\* block's own address is kept for aligned_kfree.
SlackShort(align) == align - 1
Slack(align) == align - 1 + PTR
AlignUp(p, align) == LET q == p + PTR + align - 1 IN q - (q % align)
aligned_kmalloc(bytes, align) ==
    LET r == malloc_ex(heap, Wrap(bytes + Slack(align)))
    IN  /\ heap' = r.heap
        /\ given' = IF r.ptr = NULL THEN given
                    ELSE Give(r.ptr, Ask(bytes, AlignUp(r.ptr, align), align))
aligned_kfree(p) == kfree(p)

\* The blocks whose callers hold their address, not one inside.
Plain == {p \in DOMAIN given : given[p].ptr = p}

Next == \/ \E bytes \in Sizes : kmalloc(bytes)
        \/ \E bytes \in Sizes, align \in Aligns : aligned_kmalloc(bytes, align)
        \/ \E p \in Plain \cup {NULL} : kfree(p)
        \/ \E p \in DOMAIN given \ Plain : aligned_kfree(p)
        \/ \E p \in Plain \cup {NULL}, bytes \in Sizes : krealloc(p, bytes)

Spec == Init /\ [][Next]_vars
-----------------------------------------------------------------------------
Blocks == DOMAIN heap.hdr
FreeBlocks == {b \in Blocks : heap.hdr[b].free}

TypeOK ==
    /\ heap.hdr \in [Blocks -> [size : 0 .. POOL, free : BOOLEAN, prev_free : BOOLEAN, prev_hdr : Nat \cup {NULL}]]
    /\ \A b \in Blocks : b % BLOCK_ALIGN = 0 /\ heap.hdr[b].size % BLOCK_ALIGN = 0
    /\ heap.matrix \in [(0 .. REAL_FLI - 1) \X (0 .. MAX_SLI - 1) -> Seq(Blocks)]
    /\ heap.fl_bitmap \subseteq 0 .. REAL_FLI - 1
    /\ heap.sl_bitmap \in [0 .. REAL_FLI - 1 -> SUBSET (0 .. MAX_SLI - 1)]

\* The blocks tile the pool up to the last header, which lies inside it; every
\* header knows whether the block before it is free, and where it starts; and
\* two free blocks are never neighbours.
BlocksTile ==
    /\ TypeOK
    /\ {first, last} \subseteq Blocks /\ last + BHDR_OVERHEAD <= POOL
    /\ \A b \in Blocks \ {last} :
          LET n == NextOf(heap, b)
          IN  /\ n \in Blocks /\ \A c \in Blocks : c <= b \/ n <= c
              /\ heap.hdr[b].size >= MIN_BLOCK_SIZE
              /\ heap.hdr[n].prev_free = heap.hdr[b].free
              /\ heap.hdr[b].free => heap.hdr[n].prev_hdr = b /\ ~heap.hdr[n].free

\* The free blocks are on the list of their size, once, nothing else is on a
\* list, and the bitmaps say which lists are not empty.
ListsMatch ==
    /\ \A at \in DOMAIN heap.matrix :
          LET L == heap.matrix[at]
          IN  /\ ToSet(L) = {b \in FreeBlocks : MAPPING_INSERT(SizeAt(heap, b)) = at}
              /\ IsInjective(L)
              /\ L # <<>> <=> at[2] \in heap.sl_bitmap[at[1]]
    /\ heap.fl_bitmap = {fl \in 0 .. REAL_FLI - 1 : heap.sl_bitmap[fl] # {}}

\* kmalloc fails only for want of a block that is large enough for the request
\* rounded up to a list's smallest size.
GoodFit ==
    \A bytes \in Sizes :
        malloc_ex(heap, bytes).ptr = NULL =>
            \A b \in FreeBlocks : SizeAt(heap, b) < MAPPING_SEARCH(Requested(bytes)).size

\* What aligned_kmalloc returns is aligned, leaves room in front of it for the
\* address of its block, and is as long as was asked for.
AlignedFits ==
    \A p \in DOMAIN given :
        LET g == given[p]
        IN  /\ g.ptr % g.align = 0
            /\ g.ptr # p => p + PTR <= g.ptr
            /\ g.ptr + g.asked <= p + SizeAt(heap, HdrOf(p))

\* The heap implements an allocator that gives no byte to two callers and moves
\* nobody's block but the one being resized.
A == INSTANCE Heap WITH
       Area <- BufferOf(first) .. last - 1,
       held <- [p \in DOMAIN given |-> [len |-> SizeAt(heap, HdrOf(p)), asked |-> given[p].asked]]
ImplementsHeap == A!Spec
=============================================================================
