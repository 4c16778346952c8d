---------------------------- MODULE BoundaryTags ----------------------------
(***************************************************************************)
(* The block format shared by the allocators of the repository: a block    *)
(* carries its size and its allocation bit in a header word before the     *)
(* payload and in a footer word at its end.  Every operator is a function  *)
(* of a memory m (word address -> word) and returns a word, an address or  *)
(* the memory after the writes, in the order in which the code makes them. *)
(* The mapped lines are those of donguk/malloc-lab-main/mm.c.              *)
(***************************************************************************)
EXTENDS Integers

WSIZE == 4
DSIZE == 8

MAX(x, y) == IF x > y THEN x ELSE y

\* size | alloc: every size that is packed is a multiple of eight.
PACK(size, alloc) == size + alloc

PUT(m, p, val) == [m EXCEPT ![p] = val]

GET_SIZE(m, p)  == m[p] - (m[p] % 8)
GET_ALLOC(m, p) == m[p] % 2

HDRP(bp)         == bp - WSIZE
FTRP(m, bp)      == bp + GET_SIZE(m, HDRP(bp)) - DSIZE
NEXT_BLKP(m, bp) == bp + GET_SIZE(m, bp - WSIZE)
PREV_BLKP(m, bp) == bp - GET_SIZE(m, bp - DSIZE)

\* Header first: the footer's address depends on the size just written.
Mark(m, bp, size, alloc) ==
    LET h == PUT(m, HDRP(bp), PACK(size, alloc))
    IN  PUT(h, FTRP(h, bp), PACK(size, alloc))

\* Mutant: the allocation bit is not looked at.
FitsAnyBlock(m, bp, asize) == GET_SIZE(m, HDRP(bp)) >= asize

\* A free block big enough for asize bytes, tags included.
Fits(m, bp, asize) ==
    /\ GET_ALLOC(m, HDRP(bp)) = 0
    /\ GET_SIZE(m, HDRP(bp)) >= asize

\* The block size for a request: payload and both tags, rounded up to 8.
AdjustedSize(size) ==
    IF size <= DSIZE THEN 2 * DSIZE
    ELSE DSIZE * ((size + DSIZE + DSIZE - 1) \div DSIZE)

(***************************************************************************)
(* Freeing: coalesce merges the free block bp with its free neighbours.    *)
(***************************************************************************)
PrevAlloc(m, bp) == GET_ALLOC(m, FTRP(m, PREV_BLKP(m, bp))) = 1
NextAlloc(m, bp) == GET_ALLOC(m, HDRP(NEXT_BLKP(m, bp))) = 1

CoalescedBp(m, bp) == IF PrevAlloc(m, bp) THEN bp ELSE PREV_BLKP(m, bp)

Coalesce(m, bp) ==
    LET prev == PREV_BLKP(m, bp)
        next == NEXT_BLKP(m, bp)
        size == GET_SIZE(m, HDRP(bp))
        withNext == size + GET_SIZE(m, HDRP(next))
        withPrev == size + GET_SIZE(m, HDRP(prev))
        withBoth == withPrev + GET_SIZE(m, FTRP(m, next))
    IN  CASE PrevAlloc(m, bp) /\ NextAlloc(m, bp) -> m
          [] PrevAlloc(m, bp) /\ ~NextAlloc(m, bp) -> Mark(m, bp, withNext, 0)
          [] ~PrevAlloc(m, bp) /\ NextAlloc(m, bp) ->
               PUT(PUT(m, HDRP(prev), withPrev), FTRP(m, bp), withPrev)
          [] OTHER ->
               PUT(PUT(m, HDRP(prev), withBoth), FTRP(m, next), withBoth)

MarkFree(m, bp) == Mark(m, bp, GET_SIZE(m, HDRP(bp)), 0)

(***************************************************************************)
(* Allocating: place takes asize bytes of the free block bp and leaves the *)
(* rest as a free block when the rest can be one (header, footer, 8 bytes).*)
(***************************************************************************)
\* Mutant: the rest may be too small for its own tags and payload.
SplitsTooSmall(csize, asize) == csize - asize >= DSIZE

Splits(csize, asize) == csize - asize >= 2 * DSIZE

Place(m, bp, asize) ==
    LET csize == GET_SIZE(m, HDRP(bp))
    IN  IF Splits(csize, asize)
        THEN LET used == Mark(m, bp, asize, 1)
             IN  Mark(used, NEXT_BLKP(used, bp), csize - asize, 0)
        ELSE Mark(m, bp, csize, 1)

(***************************************************************************)
(* Growing: the words of an empty heap, and the free block that extend_heap*)
(* makes of size new bytes at the old break bp, its header written over the*)
(* old epilogue, followed by a new epilogue.                               *)
(***************************************************************************)
EmptyHeap(m, lo) ==
    PUT(PUT(PUT(PUT(m, lo, 0), lo + WSIZE, PACK(DSIZE, 1)),
            lo + 2 * WSIZE, PACK(DSIZE, 1)),
        lo + 3 * WSIZE, PACK(0, 1))

ExtendBytes(words) ==
    IF words % 2 = 1 THEN (words + 1) * WSIZE ELSE words * WSIZE

NewBlock(m, bp, size) ==
    LET marked == Mark(m, bp, size, 0)
    IN  PUT(marked, HDRP(NEXT_BLKP(marked, bp)), PACK(0, 1))

(***************************************************************************)
(* The libc calls on payloads.  Requests are whole words.                  *)
(***************************************************************************)
memcpy(m, dst, src, n) ==
    [a \in DOMAIN m |->
        IF dst <= a /\ a < dst + n THEN m[src + (a - dst)] ELSE m[a]]

memset(m, dst, val, n) ==
    [a \in DOMAIN m |-> IF dst <= a /\ a < dst + n THEN val ELSE m[a]]
=============================================================================
