----------------------------- MODULE SanglimMm ------------------------------
(***************************************************************************)
(* sanglim/malloc-lab-main/mm.c: next fit from NF_pointer itself, and an   *)
(* mm_realloc that keeps the block when it is large enough and otherwise   *)
(* first tries to absorb the free block that follows.                      *)
(*                                                                         *)
(* pc is as in DongukMm, "wrap" being the second loop of find_fit, and     *)
(*   "crashed"  find_fit has followed a size out of the heap's storage.    *)
(***************************************************************************)
EXTENDS MmClient

VARIABLE NF_pointer

vars == <<memVars, clientVars, NF_pointer>>

heap_listp == mem_start_brk + 2 * WSIZE

PCs == {"init", "failed", "idle", "scan", "wrap", "extend", "copy", "return",
        "crashed"}

\* The type invariant.
TypeOK ==
    /\ MemTypeOK
    /\ ClientTypeOK
    /\ pc \in PCs
    /\ NF_pointer \in Nat

Init ==
    /\ mem_init
    /\ ClientInit
    /\ NF_pointer = NULL

(***************************************************************************)
(* mm_init leaves NF_pointer on the prologue block.                        *)
(***************************************************************************)
mm_init ==
    /\ pc = "init"
    /\ \/ /\ SbrkFails(mem_brk, 4 * WSIZE)
          /\ pc' = "failed"
          /\ UNCHANGED <<mem, mem_brk, NF_pointer>>
       \/ LET brk == mem_brk + 4 * WSIZE
              size == ExtendBytes(CHUNKSIZE \div WSIZE)
              m == NewBlock(EmptyHeap(mem, mem_brk), brk, size)
          IN  /\ ~SbrkFails(mem_brk, 4 * WSIZE)
              /\ \/ /\ SbrkFails(brk, size)
                    /\ pc' = "failed"
                    /\ mem' = EmptyHeap(mem, mem_brk)
                    /\ mem_brk' = brk
                    /\ UNCHANGED NF_pointer
                 \/ /\ ~SbrkFails(brk, size)
                    /\ pc' = "idle"
                    /\ mem' = Coalesce(m, brk)
                    /\ mem_brk' = brk + size
                    /\ NF_pointer' = heap_listp
    /\ UNCHANGED <<owned, reqsize, call, bp, ptr, ret, mem_max_addr>>

(***************************************************************************)
(* mm_free and the entry of mm_malloc                                      *)
(***************************************************************************)
\* Mutant: coalesce leaves the rover where it was.
FreeInKeepsRover(m, b) ==
    \E f \in {MarkFree(m, b)} : mem' = Coalesce(f, b) /\ UNCHANGED NF_pointer

FreeIn(m, b) ==
    \E f \in {MarkFree(m, b)} :
        /\ mem' = Coalesce(f, b)
        /\ NF_pointer' = CoalescedBp(f, b)

mm_free(id) ==
    /\ pc = "idle"
    /\ owned[id] # NULL
    /\ FreeIn(mem, owned[id])
    /\ owned' = [owned EXCEPT ![id] = NULL]
    /\ reqsize' = [reqsize EXCEPT ![id] = 0]
    /\ UNCHANGED <<pc, call, bp, ptr, ret, mem_brk, mem_max_addr>>

mm_malloc(id, size) ==
    /\ CallStarts(id, size, NULL)
    /\ IF size = 0
       THEN pc' = "return" /\ bp' = NULL
       ELSE pc' = "scan" /\ bp' = NF_pointer
    /\ UNCHANGED <<reqsize, ptr, ret, NF_pointer, memVars>>

(***************************************************************************)
(* mm_realloc: the block is kept, or grown over the free block after it,   *)
(* or replaced by a block that mm_malloc finds for size + DSIZE bytes.     *)
(* NF_pointer is not touched.  Its size 0 is a request like any other.     *)
(***************************************************************************)
NewSize(size) == size + DSIZE

Merged(p) == GET_SIZE(mem, HDRP(p)) + GET_SIZE(mem, HDRP(NEXT_BLKP(mem, p)))

Keeps(p, size) == NewSize(size) <= GET_SIZE(mem, HDRP(p))

Absorbs(p, size) ==
    /\ ~Keeps(p, size)
    /\ GET_ALLOC(mem, HDRP(NEXT_BLKP(mem, p))) = 0
    /\ NewSize(size) <= Merged(p)

mm_realloc(id, size) ==
    /\ owned[id] # NULL
    /\ CallStarts(id, size, owned[id])
    /\ \/ /\ Keeps(owned[id], size)
          /\ pc' = "return"
          /\ ret' = owned[id]
          /\ UNCHANGED <<mem, bp, ptr>>
       \/ /\ Absorbs(owned[id], size)
          /\ pc' = "return"
          /\ ret' = owned[id]
          /\ mem' = Mark(mem, owned[id], Merged(owned[id]), 1)
          /\ UNCHANGED <<bp, ptr>>
       \/ /\ ~Keeps(owned[id], size)
          /\ ~Absorbs(owned[id], size)
          /\ pc' = "scan"
          /\ bp' = NF_pointer
          /\ ptr' = owned[id]
          /\ UNCHANGED <<mem, ret>>
    /\ UNCHANGED <<reqsize, mem_brk, mem_max_addr, NF_pointer>>

(***************************************************************************)
(* find_fit, and mm_malloc after it                                        *)
(***************************************************************************)
get_adjusted_size(old_size) ==
    IF old_size <= DSIZE THEN 2 * DSIZE
    ELSE 8 * ((old_size + DSIZE + 7) \div 8)

\* The size mm_malloc was called with, by the client or by mm_realloc.
asize ==
    get_adjusted_size(IF ptr = NULL THEN call.size ELSE NewSize(call.size))

Allocated(m, b) ==
    /\ mem' = Place(m, b, asize)
    /\ NF_pointer' = b
    /\ ret' = b
    /\ bp' = NULL
    /\ pc' = IF ptr = NULL THEN "return" ELSE "copy"

Searching(next, b) ==
    /\ pc' = next
    /\ bp' = b
    /\ UNCHANGED <<mem, NF_pointer, ret>>

Examine ==
    \/ /\ Fits(mem, bp, asize)
       /\ Allocated(mem, bp)
    \/ /\ ~Fits(mem, bp, asize)
       /\ Searching(pc, NEXT_BLKP(mem, bp))

\* A header outside the storage cannot be read.
Crash ==
    /\ pc \in {"scan", "wrap"}
    /\ HDRP(bp) \notin WordAddr
    /\ Searching("crashed", NULL)
    /\ UNCHANGED <<owned, reqsize, call, ptr, mem_brk, mem_max_addr>>

\* search1: from NF_pointer to the epilogue.
Scan ==
    /\ pc = "scan"
    /\ HDRP(bp) \in WordAddr
    /\ \/ /\ GET_SIZE(mem, HDRP(bp)) = 0
          /\ Searching("wrap", heap_listp)
       \/ /\ GET_SIZE(mem, HDRP(bp)) > 0
          /\ Examine
    /\ UNCHANGED <<owned, reqsize, call, ptr, mem_brk, mem_max_addr>>

\* Mutants of search2's condition: a wrong comparison, and none.
WrapsBackwards == bp > NF_pointer
WrapsForever == TRUE

WrapGoesOn == bp < NF_pointer

\* search2: from the start of the heap up to NF_pointer.
Wrap ==
    /\ pc = "wrap"
    /\ HDRP(bp) \in WordAddr
    /\ \/ /\ ~WrapGoesOn
          /\ Searching("extend", NULL)
       \/ /\ WrapGoesOn
          /\ Examine
    /\ UNCHANGED <<owned, reqsize, call, ptr, mem_brk, mem_max_addr>>

Extend ==
    /\ pc = "extend"
    /\ LET size == ExtendBytes(MAX(asize, CHUNKSIZE) \div WSIZE)
       IN  \/ /\ SbrkFails(mem_brk, size)
              /\ pc' = "return"
              /\ UNCHANGED <<mem, mem_brk, NF_pointer, bp, ret>>
           \/ /\ ~SbrkFails(mem_brk, size)
              /\ mem_brk' = mem_brk + size
              /\ \E m \in {NewBlock(mem, mem_brk, size)} :
                 \E c \in {Coalesce(m, mem_brk)} :
                    Allocated(c, CoalescedBp(m, mem_brk))
    /\ UNCHANGED <<owned, reqsize, call, ptr, mem_max_addr>>

\* Mutant: the memcpy of mm_realloc is forgotten.
NotCopied(m, n, forward) == m

(***************************************************************************)
(* The copy of mm_realloc: memcpy of newsize bytes, more than the old      *)
(* block holds, then mm_free.  The words read past the old block are what  *)
(* memory holds; or, where the new block follows the old one and memcpy    *)
(* (undefined on such an overlap) has written first, the words it copied;  *)
(* past the end of the storage, anything (0 here).                         *)
(***************************************************************************)
Copied(m, n, forward) ==
    LET WordAt(a) == IF a \in DOMAIN m THEN m[a] ELSE 0
        Source(k) == IF forward /\ ret > ptr THEN ptr + (k % (ret - ptr)) ELSE ptr + k
    IN  [a \in DOMAIN m |->
            IF ret <= a /\ a < ret + n THEN WordAt(Source(a - ret)) ELSE m[a]]

Copy ==
    /\ pc = "copy"
    /\ \E forward \in BOOLEAN :
       \E m \in {Copied(mem, NewSize(call.size), forward)} : FreeIn(m, ptr)
    /\ ptr' = NULL
    /\ pc' = "return"
    /\ UNCHANGED <<owned, reqsize, call, bp, ret, mem_brk, mem_max_addr>>

(***************************************************************************)
(* The specification.                                                      *)
(***************************************************************************)
Run == mm_init \/ Scan \/ Wrap \/ Extend \/ Copy

Calls ==
    \/ \E id \in Ids : mm_free(id)
    \/ \E id \in Ids, size \in Sizes : mm_malloc(id, size)
    \/ Return /\ UNCHANGED NF_pointer
    \/ NewTrace /\ UNCHANGED NF_pointer

Next ==
    \/ Run
    \/ Crash
    \/ Calls
    \/ \E id \in Ids, size \in Sizes : mm_realloc(id, size)

Spec == Init /\ [][Next]_vars

(***************************************************************************)
(* The same program with a client that never grows a block over the free   *)
(* block NF_pointer is at: the case that mm_realloc leaves out.            *)
(***************************************************************************)
AbsorbsRover(id, size) ==
    /\ owned[id] # NULL
    /\ Absorbs(owned[id], size)
    /\ NF_pointer = NEXT_BLKP(mem, owned[id])

CarefulNext ==
    \/ Run
    \/ Calls
    \/ \E id \in Ids, size \in Sizes :
          ~AbsorbsRover(id, size) /\ mm_realloc(id, size)

CarefulSpec == Init /\ [][CarefulNext]_vars /\ WF_vars(Run)

(***************************************************************************)
(* Properties.                                                             *)
(***************************************************************************)
\* NF_pointer, which find_fit dereferences first of all, is at a block (the
\* prologue after mm_init); mm_realloc must not take that block away.
RoverOnBlock == HeapReady => NF_pointer \in Blocks \cup {heap_listp}

\* The heap grows only when no free block is large enough.
SearchComplete ==
    pc = "extend" => \A b \in Blocks : ~Fits(mem, b, asize)

\* Every call returns: both loops of find_fit end.
CallsReturn == pc = "scan" ~> pc = "return"
=============================================================================
