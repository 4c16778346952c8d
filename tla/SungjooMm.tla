----------------------------- MODULE SungjooMm ------------------------------
(***************************************************************************)
(* sungjoo/malloc-lab-main/mm.c: the same heap as DongukMm with another    *)
(* search.  next_fit walks from the block after last_bp to the epilogue    *)
(* and then calls find_fit, a first fit over the whole list; last_bp is    *)
(* set by coalesce, by place and by mm_malloc.                             *)
(*                                                                         *)
(* pc is as in DongukMm, "first" being the loop of find_fit.               *)
(***************************************************************************)
EXTENDS MmClient

VARIABLE last_bp

vars == <<memVars, clientVars, last_bp>>

heap_listp == mem_start_brk + 2 * WSIZE

PCs == {"init", "failed", "idle", "scan", "first", "extend", "copy", "return"}

\* The type invariant.
TypeOK ==
    /\ MemTypeOK
    /\ ClientTypeOK
    /\ pc \in PCs
    /\ last_bp \in Nat

Init ==
    /\ mem_init
    /\ ClientInit
    /\ last_bp = NULL

asize == AdjustedSize(call.size)

(***************************************************************************)
(* mm_init sets last_bp before extend_heap, so even when that fails.       *)
(***************************************************************************)
mm_init ==
    /\ pc = "init"
    /\ \/ /\ SbrkFails(mem_brk, 4 * WSIZE)
          /\ pc' = "failed"
          /\ UNCHANGED <<mem, mem_brk, last_bp>>
       \/ LET brk == mem_brk + 4 * WSIZE
              size == ExtendBytes(CHUNKSIZE \div WSIZE)
              m == NewBlock(EmptyHeap(mem, mem_brk), brk, size)
          IN  /\ ~SbrkFails(mem_brk, 4 * WSIZE)
              /\ \/ /\ SbrkFails(brk, size)
                    /\ pc' = "failed"
                    /\ mem' = EmptyHeap(mem, mem_brk)
                    /\ mem_brk' = brk
                    /\ last_bp' = heap_listp
                 \/ /\ ~SbrkFails(brk, size)
                    /\ pc' = "idle"
                    /\ mem' = Coalesce(m, brk)
                    /\ mem_brk' = brk + size
                    /\ last_bp' = CoalescedBp(m, brk)
    /\ UNCHANGED <<owned, reqsize, call, bp, ptr, ret, mem_max_addr>>

(***************************************************************************)
(* mm_free, and the calls that enter mm_malloc and mm_realloc              *)
(***************************************************************************)
\* Mutant: coalesce leaves the rover where it was.
FreeInKeepsRover(m, b) ==
    \E f \in {MarkFree(m, b)} : mem' = Coalesce(f, b) /\ UNCHANGED last_bp

FreeIn(m, b) ==
    \E f \in {MarkFree(m, b)} :
        /\ mem' = Coalesce(f, b)
        /\ last_bp' = CoalescedBp(f, b)

mm_free(id) ==
    /\ pc = "idle"
    /\ owned[id] # NULL
    /\ FreeIn(mem, owned[id])
    /\ owned' = [owned EXCEPT ![id] = NULL]
    /\ reqsize' = [reqsize EXCEPT ![id] = 0]
    /\ UNCHANGED <<pc, call, bp, ptr, ret, mem_brk, mem_max_addr>>

\* Mutant: the search starts at last_bp instead of after it.
mm_mallocFromRover(id, size) ==
    /\ CallStarts(id, size, NULL)
    /\ IF size = 0
       THEN pc' = "return" /\ bp' = NULL
       ELSE pc' = "scan" /\ bp' = last_bp
    /\ UNCHANGED <<reqsize, ptr, ret, last_bp, memVars>>

mm_malloc(id, size) ==
    /\ CallStarts(id, size, NULL)
    /\ IF size = 0
       THEN pc' = "return" /\ bp' = NULL
       ELSE pc' = "scan" /\ bp' = NEXT_BLKP(mem, last_bp)
    /\ UNCHANGED <<reqsize, ptr, ret, last_bp, memVars>>

mm_realloc(id, size) ==
    /\ owned[id] # NULL
    /\ CallStarts(id, size, owned[id])
    /\ IF size = 0
       THEN /\ FreeIn(mem, owned[id])
            /\ pc' = "return"
            /\ UNCHANGED <<bp, ptr>>
       ELSE /\ ptr' = owned[id]
            /\ pc' = "scan"
            /\ bp' = NEXT_BLKP(mem, last_bp)
            /\ UNCHANGED <<mem, last_bp>>
    /\ UNCHANGED <<reqsize, ret, mem_brk, mem_max_addr>>

(***************************************************************************)
(* next_fit, find_fit, and mm_malloc after them                            *)
(***************************************************************************)
\* place, which also sets last_bp.
Allocated(m, b) ==
    /\ mem' = Place(m, b, asize)
    /\ last_bp' = b
    /\ ret' = b
    /\ bp' = NULL
    /\ pc' = IF ptr = NULL THEN "return" ELSE "copy"

Searching(next, b) ==
    /\ pc' = next
    /\ bp' = b
    /\ UNCHANGED <<mem, last_bp, ret>>

\* One iteration of a loop that runs to the epilogue, which then goes to
\* `after`, starting at block `start`.
Step(after, start) ==
    /\ \/ /\ GET_SIZE(mem, HDRP(bp)) = 0
          /\ Searching(after, start)
       \/ /\ GET_SIZE(mem, HDRP(bp)) > 0
          /\ Fits(mem, bp, asize)
          /\ Allocated(mem, bp)
       \/ /\ GET_SIZE(mem, HDRP(bp)) > 0
          /\ ~Fits(mem, bp, asize)
          /\ Searching(pc, NEXT_BLKP(mem, bp))
    /\ UNCHANGED <<owned, reqsize, call, ptr, mem_brk, mem_max_addr>>

\* Mutant: next_fit gives up without calling find_fit.
next_fitAlone == pc = "scan" /\ Step("extend", NULL)

next_fit == pc = "scan" /\ Step("first", heap_listp)

\* Mutant: find_fit starts over instead of returning NULL.
find_fitAgain == pc = "first" /\ Step("first", heap_listp)

find_fit == pc = "first" /\ Step("extend", NULL)

extend_heap ==
    /\ pc = "extend"
    /\ LET size == ExtendBytes(MAX(asize, CHUNKSIZE) \div WSIZE)
       IN  \/ /\ SbrkFails(mem_brk, size)
              /\ pc' = "return"
              /\ UNCHANGED <<mem, mem_brk, last_bp, bp, ret>>
           \/ /\ ~SbrkFails(mem_brk, size)
              /\ mem_brk' = mem_brk + size
              /\ \E m \in {NewBlock(mem, mem_brk, size)} :
                 \E c \in {Coalesce(m, mem_brk)} :
                    Allocated(c, CoalescedBp(m, mem_brk))
    /\ UNCHANGED <<owned, reqsize, call, ptr, mem_max_addr>>

(***************************************************************************)
(* mm_realloc after its mm_malloc succeeded: memcpy, then mm_free(ptr)     *)
(***************************************************************************)
CopySize ==
    LET payload == GET_SIZE(mem, HDRP(ptr)) - DSIZE
    IN  IF call.size < payload THEN call.size ELSE payload

Copy ==
    /\ pc = "copy"
    /\ \E m \in {memcpy(mem, ret, ptr, CopySize)} : FreeIn(m, ptr)
    /\ ptr' = NULL
    /\ pc' = "return"
    /\ UNCHANGED <<owned, reqsize, call, bp, ret, mem_brk, mem_max_addr>>

Run == mm_init \/ next_fit \/ find_fit \/ extend_heap \/ Copy

Next ==
    \/ Run
    \/ \E id \in Ids : mm_free(id)
    \/ \E id \in Ids, size \in Sizes : mm_malloc(id, size) \/ mm_realloc(id, size)
    \/ Return /\ UNCHANGED last_bp
    \/ NewTrace /\ UNCHANGED last_bp

\* A call, once made, runs until it returns (see DongukMm).
Spec == Init /\ [][Next]_vars /\ WF_vars(Run)

(***************************************************************************)
(* Properties.                                                             *)
(***************************************************************************)
\* next_fit dereferences last_bp unchecked: it is always a block.
RoverOnBlock == HeapReady => last_bp \in Blocks

\* The heap grows only when no free block is large enough.
SearchComplete ==
    pc = "extend" => \A b \in Blocks : ~Fits(mem, b, asize)

\* Every call returns: both searches reach a fit or the epilogue.
CallsReturn == pc = "scan" ~> pc = "return"

(***************************************************************************)
(* The search of this allocator makes the choices of DongukMm's: the part  *)
(* of the list that find_fit walks again beyond last_bp holds no fit.      *)
(* DongukMm looks at the block after its cursor, this one at the cursor.   *)
(***************************************************************************)
DongukPc == IF pc = "first" THEN "wrap" ELSE pc

DongukBp ==
    CASE pc = "first" /\ bp > last_bp -> last_bp
      [] pc = "first" /\ FirstBlock <= bp /\ bp <= last_bp -> PREV_BLKP(mem, bp)
      [] OTHER -> bp

Donguk == INSTANCE DongukMm WITH
    recently_visited <- last_bp, pc <- DongukPc, bp <- DongukBp

\* mm_init sets last_bp before its second mem_sbrk, donguk's after it: where
\* that call fails the two differ, in a rover that is never read.
ChunkFits == ~SbrkFails(mem_start_brk + 4 * WSIZE, CHUNKSIZE)

\* Every block this allocator hands out is the one DongukMm would.
SameChoicesAsDonguk ==
    Donguk!Init /\ [][ChunkFits => Donguk!Next \/ UNCHANGED Donguk!vars]_vars
=============================================================================
