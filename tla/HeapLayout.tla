----------------------------- MODULE HeapLayout -----------------------------
(***************************************************************************)
(* What a well formed heap is: the specification that every allocator's    *)
(* tag writes must respect.  It models no code; it is stated with the      *)
(* macros of BoundaryTags so that each conjunct says that a macro applied  *)
(* to a block does what its name promises.                                 *)
(*                                                                         *)
(* B is the set of block pointers, L the allocated ones, brk the break.    *)
(***************************************************************************)
EXTENDS BoundaryTags

FirstBlock == 16     \* after padding, prologue header, prologue footer, header

\* The prologue is an allocated block of 8 bytes, the epilogue an allocated
\* header of size 0: the two sentinels that stop coalesce and the scans.
SentinelsOK(m, brk) ==
    /\ m[4] = PACK(DSIZE, 1)
    /\ m[8] = PACK(DSIZE, 1)
    /\ m[brk - WSIZE] = PACK(0, 1)

\* Block b is aligned, lies in the heap, and its two tags agree.
BlockOK(m, brk, b) ==
    /\ b % 8 = 0
    /\ b >= FirstBlock /\ b + 2 * DSIZE <= brk
    /\ GET_SIZE(m, HDRP(b)) >= 2 * DSIZE
    /\ NEXT_BLKP(m, b) <= brk
    /\ m[HDRP(b)] % 8 \in {0, 1}
    /\ m[FTRP(m, b)] = m[HDRP(b)]

\* The blocks follow one another without gap or overlap up to the break, and
\* walking back over footers undoes walking forward over headers.
ChainOK(m, brk, B) ==
    /\ FirstBlock \in B
    /\ \A b \in B : NEXT_BLKP(m, b) \in B \cup {brk}
    /\ \A b, c \in B : b < c => NEXT_BLKP(m, b) <= c
    /\ \A e \in B \cup {brk} : e # FirstBlock =>
          /\ PREV_BLKP(m, e) \in B
          /\ NEXT_BLKP(m, PREV_BLKP(m, e)) = e

\* Exactly the blocks of L are marked allocated.
AllocOK(m, B, L) ==
    /\ L \subseteq B
    /\ \A b \in B : GET_ALLOC(m, HDRP(b)) = 1 <=> b \in L

\* Immediate coalescing: no two adjacent blocks are both free.
Coalesced(m, brk, B, L) ==
    \A b \in B : b \notin L /\ NEXT_BLKP(m, b) # brk => NEXT_BLKP(m, b) \in L

Layout(m, brk, B) ==
    /\ SentinelsOK(m, brk)
    /\ \A b \in B : BlockOK(m, brk, b)
    /\ ChainOK(m, brk, B)

Tiling(m, brk, B, L) ==
    /\ Layout(m, brk, B)
    /\ AllocOK(m, B, L)
    /\ Coalesced(m, brk, B, L)

\* In a coalesced heap the allocated blocks determine all the others: a free
\* block is the first one or follows an allocated one.
BlocksOf(m, brk, L) ==
    ({FirstBlock} \cup L \cup {NEXT_BLKP(m, p) : p \in L}) \ {brk}

WellFormed(m, brk, L) == Tiling(m, brk, BlocksOf(m, brk, L), L)
=============================================================================
