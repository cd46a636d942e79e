-------------------------------- MODULE Heap --------------------------------
(***************************************************************************)
(* The first-fit heap allocator of src/mm/mm.c, shared by kmalloc/kfree   *)
(* (src/mm/memory.c, pool grown by kernel_mock_sbrk) and malloc/free      *)
(* (src/usr/stdlib.c, pool grown by the brk system call).                 *)
(*                                                                         *)
(* The pool is the sequence of its blocks in address order; a block is    *)
(* its header fields blk_len, in_use and user_len.  The tail of a block   *)
(* (a pointer back to its header) is what prev_mem_blk follows, so walking *)
(* the sequence backwards stands for following the tails.  alloc_mem and  *)
(* free_mem each run whole under the pool lock (kmalloc) or in the single *)
(* thread of a user process (malloc), so each is one action.              *)
(***************************************************************************)
EXTENDS Integers, Sequences, FiniteSets

CONSTANTS
    HDR,        \* sizeof (struct mem_blk): 32 on ARM64
    TAIL,       \* sizeof (struct mem_blk_tail): 8
    PoolMax,    \* MEM_POOL_SIZE, the most kernel_mock_sbrk hands out
    Requests    \* sizes callers pass to alloc_mem

ASSUME HDR \in Nat /\ TAIL \in Nat /\ PoolMax >= HDR + TAIL
ASSUME Requests \subseteq Nat \ {0}

VARIABLES
    blks,          \* the blocks of the pool, lowest address first
    total_length,  \* pool->total_length
    ret            \* the pointer the last alloc_mem returned, or NULL

vars == <<blks, total_length, ret>>

NULL == -1

Blk == [len : Nat, in_use : {0, 1}, user_len : Nat]

(* init_free_blk(p, size): the block is zeroed, then its header is set.    *)
FreeBlk(size) == [len |-> size, in_use |-> 0, user_len |-> 0]

SumLen(b, lo, hi) ==
    LET RECURSIVE S(_)
        S(i) == IF i > hi THEN 0 ELSE b[i].len + S(i + 1)
    IN  S(lo)

PoolLen(b) == SumLen(b, 1, Len(b))

(* The address of block i from the pool start.                            *)
BlkAddr(b, i) == SumLen(b, 1, i - 1)

ALIGNED_TO_8BYTES(v) == ((v + 7) \div 8) * 8

(* big_mem_blk, mm.c:95-106.                                                 *)
BigMemBlk(blk, size) == blk.len - HDR - TAIL >= size

(* The forward first-fit scan of find_a_free_blk, mm.c:168-173; 0 if none. *)
FirstFit(b, size) ==
    LET fits == {i \in 1 .. Len(b) : b[i].in_use = 0 /\ BigMemBlk(b[i], size)}
    IN  IF fits = {} THEN 0 ELSE CHOOSE i \in fits : \A j \in fits : i <= j

(* Mutants: merge_free_blk without its backward walk, or without its      *)
(* forward walk.                                                          *)
MergeFreeBlkNoPrev(b, i) ==
    LET hi == CHOOSE h \in i .. Len(b) :
                  /\ \A j \in i .. h : b[j].in_use = 0
                  /\ (h = Len(b) \/ b[h + 1].in_use = 1)
    IN  SubSeq(b, 1, i - 1) \o << FreeBlk(SumLen(b, i, hi)) >> \o SubSeq(b, hi + 1, Len(b))

MergeFreeBlkNoNext(b, i) ==
    LET lo == CHOOSE l \in 1 .. i :
                  /\ \A j \in l .. i : b[j].in_use = 0
                  /\ (l = 1 \/ b[l - 1].in_use = 1)
    IN  SubSeq(b, 1, lo - 1) \o << FreeBlk(SumLen(b, lo, i)) >> \o SubSeq(b, i + 1, Len(b))

(***************************************************************************)
(* merge_free_blk(pool, free), mm.c:113-142: walk back from block i while *)
(* blocks are free, forward while they are free, and make the whole span  *)
(* one free block (init_free_blk zeroes it).                              *)
(***************************************************************************)
MergeFreeBlk(b, i) ==
    LET lo == CHOOSE l \in 1 .. i :
                  /\ \A j \in l .. i : b[j].in_use = 0
                  /\ (l = 1 \/ b[l - 1].in_use = 1)
        hi == CHOOSE h \in i .. Len(b) :
                  /\ \A j \in i .. h : b[j].in_use = 0
                  /\ (h = Len(b) \/ b[h + 1].in_use = 1)
    IN  SubSeq(b, 1, lo - 1) \o << FreeBlk(SumLen(b, lo, hi)) >>
            \o SubSeq(b, hi + 1, Len(b))

(* kernel_mock_sbrk(increment), memory.c:13-27: refuses to go past PoolMax. *)
SbrkOk(b, increment) == PoolLen(b) + increment <= PoolMax

(* enlarge_mem_pool, mm.c:144-161: double the pool, append the new free   *)
(* block and merge it with a free block before it.                        *)
EnlargeMemPool(b) ==
    LET increment == PoolLen(b)
    IN  MergeFreeBlk(Append(b, FreeBlk(increment)), Len(b) + 1)

(***************************************************************************)
(* find_a_free_blk, mm.c:164-180: scan; when nothing fits, grow the pool  *)
(* and scan again, for as long as the pool can grow.  The result is the   *)
(* pool after any growth, the index found (0 for NULL) and how many times *)
(* the pool grew.                                                         *)
(***************************************************************************)
RECURSIVE FindAFreeBlk(_, _, _)
FindAFreeBlk(b, size, grows) ==
    IF FirstFit(b, size) # 0
    THEN [blks |-> b, idx |-> FirstFit(b, size), grows |-> grows]
    ELSE IF SbrkOk(b, PoolLen(b))
         THEN FindAFreeBlk(EnlargeMemPool(b), size, grows + 1)
         ELSE [blks |-> b, idx |-> 0, grows |-> grows]

(* should_split, mm.c:186-195.                                             *)
ShouldSplit(blk, size) == blk.len > HDR + size + TAIL + HDR + TAIL

(***************************************************************************)
(* mark_mem_blk, mm.c:198-235: split off the unused rest as a new free    *)
(* block when it can hold a header and a tail, then mark block i in use.  *)
(***************************************************************************)
MarkMemBlk(b, i, size) ==
    LET used == HDR + size + TAIL
        mark(len) == [len |-> len, in_use |-> 1, user_len |-> size]
    IN  IF ShouldSplit(b[i], size)
        THEN SubSeq(b, 1, i - 1) \o << mark(used), FreeBlk(b[i].len - used) >>
                 \o SubSeq(b, i + 1, Len(b))
        ELSE [b EXCEPT ![i] = mark(b[i].len)]

(* Mutant: alloc_mem without `p->user_len = size` (mm.c:369), so the block *)
(* keeps the aligned length mark_mem_blk stored.                          *)
AllocResultNoUserLen(b, size) ==
    LET found == FindAFreeBlk(b, ALIGNED_TO_8BYTES(size), 0)
    IN  IF found.idx = 0
        THEN [blks |-> found.blks, idx |-> 0, grows |-> found.grows]
        ELSE [blks |-> MarkMemBlk(found.blks, found.idx, ALIGNED_TO_8BYTES(size)),
              idx |-> found.idx, grows |-> found.grows]

(* The whole of alloc_mem(pool, size) for size > 0, mm.c:345-384: the pool *)
(* after the call, the block handed out (0 for NULL) and the growth count. *)
AllocResult(b, size) ==
    LET aligned == ALIGNED_TO_8BYTES(size)
        found   == FindAFreeBlk(b, aligned, 0)
        i       == found.idx
    IN  IF i = 0
        THEN [blks |-> found.blks, idx |-> 0, grows |-> found.grows]
        ELSE [blks |-> [MarkMemBlk(found.blks, i, aligned)
                            EXCEPT ![i].user_len = size],
              idx |-> i, grows |-> found.grows]

(* free_mem_blk, mm.c:338-343.                                             *)
FreeMemBlk(b, i) == MergeFreeBlk([b EXCEPT ![i].in_use = 0], i)

(* init_mm, mm.c:272-309: the pool starts as one free header-and-tail block. *)
Init ==
    /\ blks = << FreeBlk(HDR + TAIL) >>
    /\ total_length = 0
    /\ ret = NULL

AllocMem(size) ==
    LET r == AllocResult(blks, size)
    IN  /\ blks' = r.blks
        /\ total_length' = IF r.idx = 0 THEN total_length
                           ELSE total_length + size
        /\ ret' = IF r.idx = 0 THEN NULL ELSE BlkAddr(r.blks, r.idx) + HDR

(* free_mem(pool, user_start), mm.c:386-415, on a pointer alloc_mem       *)
(* returned and not yet freed: mem_blk_ok holds and the block is merged.   *)
FreeMem(i) ==
    /\ blks[i].in_use = 1
    /\ total_length' = total_length - blks[i].user_len
    /\ blks' = FreeMemBlk(blks, i)
    /\ UNCHANGED ret

Next ==
    \/ \E n \in Requests : AllocMem(n)
    \/ \E i \in 1 .. Len(blks) : FreeMem(i)

Spec == Init /\ [][Next]_vars

-----------------------------------------------------------------------------

TypeOK ==
    /\ blks \in Seq(Blk)
    /\ total_length \in Nat
    /\ ret \in Int

(* Coalescing is complete: no two neighbouring blocks are both free, so a  *)
(* free run of memory is always one block a request can use.  It needs    *)
(* free_mem to merge both ways, enlarge_mem_pool to merge the new block   *)
(* backwards, and splitting to leave the rest next to a used block.       *)
NoAdjacentFree ==
    \A i \in 1 .. (Len(blks) - 1) : ~(blks[i].in_use = 0 /\ blks[i + 1].in_use = 0)

(* Section 8, heap round trip: from any reachable pool, alloc_mem(n) that *)
(* does not grow the pool followed by free_mem of the pointer it returned *)
(* gives back the pool exactly, so a single-size alloc/free loop reuses   *)
(* one address and never fragments.                                      *)
AllocFreeRoundTrip ==
    \A n \in Requests :
        LET r == AllocResult(blks, n)
        IN  (r.idx # 0 /\ r.grows = 0) => FreeMemBlk(r.blks, r.idx) = blks


(* The room left for one more block at the end of the heap range: what    *)
(* sbrk has not handed out yet, plus a free block at the end of the pool  *)
(* that a grown pool would merge with.                                    *)
RoomAtEnd(b) ==
    PoolMax - PoolLen(b) + (IF b[Len(b)].in_use = 0 THEN b[Len(b)].len ELSE 0)

=============================================================================
