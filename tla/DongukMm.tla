------------------------------ MODULE DongukMm ------------------------------
(***************************************************************************)
(* donguk/malloc-lab-main/mm.c: implicit free list, boundary tags,         *)
(* immediate coalescing, next fit.                                         *)
(*                                                                         *)
(* The search of find_fit follows the block headers one at a time, so each *)
(* iteration of its two loops is a step; the straight-line code around it  *)
(* is one step per call that changes the heap.  (\E x \in {e} names the    *)
(* value of e once: the memory between two writes of the same call.)  pc is*)
(*   "init"   before mm_init            "failed" after mm_init returned -1 *)
(*   "idle"   between calls                                                *)
(*   "scan"   find_fit's for loop       "wrap"   its while loop            *)
(*   "extend" find_fit returned NULL    "copy"   mm_realloc has a block    *)
(*   "return" about to return ret                                          *)
(***************************************************************************)
EXTENDS MmClient

VARIABLE recently_visited

vars == <<memVars, clientVars, recently_visited>>

heap_listp == mem_start_brk + DSIZE    \* set by mm_init, the prologue block

PCs == {"init", "failed", "idle", "scan", "wrap", "extend", "copy", "return"}

\* The type invariant.
TypeOK ==
    /\ MemTypeOK
    /\ ClientTypeOK
    /\ pc \in PCs
    /\ recently_visited \in Nat

Init ==
    /\ mem_init
    /\ ClientInit
    /\ recently_visited = NULL

asize == AdjustedSize(call.size)

(***************************************************************************)
(* mm_init                                                                 *)
(***************************************************************************)
InitFails ==
    /\ pc' = "failed"
    /\ UNCHANGED <<owned, reqsize, call, bp, ptr, ret, recently_visited,
                   mem_max_addr>>

mm_init ==
    /\ pc = "init"
    /\ \/ /\ SbrkFails(mem_brk, 4 * WSIZE)
          /\ InitFails
          /\ UNCHANGED <<mem, mem_brk>>
       \/ LET brk == mem_brk + 4 * WSIZE
              size == ExtendBytes(CHUNKSIZE \div WSIZE)
              m == NewBlock(EmptyHeap(mem, mem_brk), brk, size)
          IN  /\ ~SbrkFails(mem_brk, 4 * WSIZE)
              /\ \/ /\ SbrkFails(brk, size)
                    /\ InitFails
                    /\ mem' = EmptyHeap(mem, mem_brk)
                    /\ mem_brk' = brk
                 \/ /\ ~SbrkFails(brk, size)
                    /\ mem' = Coalesce(m, brk)
                    /\ mem_brk' = brk + size
                    /\ recently_visited' = CoalescedBp(m, brk)
                    /\ pc' = "idle"
                    /\ UNCHANGED <<owned, reqsize, call, bp, ptr, ret,
                                   mem_max_addr>>

(***************************************************************************)
(* mm_free, and the calls that enter mm_malloc and mm_realloc              *)
(***************************************************************************)
\* Mutant: coalesce leaves the rover where it was.
FreeInKeepsRover(m, b) ==
    \E f \in {MarkFree(m, b)} : mem' = Coalesce(f, b) /\ UNCHANGED recently_visited

\* The header and footer are marked free, then coalesce moves the rover.
FreeIn(m, b) ==
    \E f \in {MarkFree(m, b)} :
        /\ mem' = Coalesce(f, b)
        /\ recently_visited' = CoalescedBp(f, b)

mm_free(id) ==
    /\ pc = "idle"
    /\ owned[id] # NULL
    /\ FreeIn(mem, owned[id])
    /\ owned' = [owned EXCEPT ![id] = NULL]
    /\ reqsize' = [reqsize EXCEPT ![id] = 0]
    /\ UNCHANGED <<pc, call, bp, ptr, ret, mem_brk, mem_max_addr>>

\* mm_malloc(size), also reached as mm_realloc(NULL, size): find_fit starts
\* after the rover.
mm_malloc(id, size) ==
    /\ CallStarts(id, size, NULL)
    /\ IF size = 0
       THEN pc' = "return" /\ bp' = NULL
       ELSE pc' = "scan" /\ bp' = NEXT_BLKP(mem, recently_visited)
    /\ UNCHANGED <<reqsize, ptr, ret, recently_visited, memVars>>

mm_realloc(id, size) ==
    /\ owned[id] # NULL
    /\ CallStarts(id, size, owned[id])
    /\ IF size = 0
       THEN /\ FreeIn(mem, owned[id])
            /\ pc' = "return"
            /\ UNCHANGED <<bp, ptr>>
       ELSE /\ ptr' = owned[id]
            /\ pc' = "scan"
            /\ bp' = NEXT_BLKP(mem, recently_visited)
            /\ UNCHANGED <<mem, recently_visited>>
    /\ UNCHANGED <<reqsize, ret, mem_brk, mem_max_addr>>

(***************************************************************************)
(* find_fit, and mm_malloc after it                                        *)
(***************************************************************************)
Allocated(m, b) ==
    /\ mem' = Place(m, b, asize)
    /\ recently_visited' = b
    /\ ret' = b
    /\ bp' = NULL
    /\ pc' = IF ptr = NULL THEN "return" ELSE "copy"

Found(b) == Allocated(mem, b) /\ UNCHANGED mem_brk

Searching(next, b) ==
    /\ pc' = next
    /\ bp' = b
    /\ UNCHANGED <<mem, mem_brk, recently_visited, ret>>

\* for (bp = NEXT_BLKP(bp); GET_SIZE(HDRP(bp)) != 0; bp = NEXT_BLKP(bp))
Scan ==
    /\ pc = "scan"
    /\ \/ /\ GET_SIZE(mem, HDRP(bp)) = 0
          /\ Searching("wrap", heap_listp)
       \/ /\ GET_SIZE(mem, HDRP(bp)) # 0
          /\ Fits(mem, bp, asize)
          /\ Found(bp)
       \/ /\ GET_SIZE(mem, HDRP(bp)) # 0
          /\ ~Fits(mem, bp, asize)
          /\ Searching("scan", NEXT_BLKP(mem, bp))
    /\ UNCHANGED <<owned, reqsize, call, ptr, mem_max_addr>>

\* Mutants of the while condition: a wrong comparison, an off-by-one, none.
WrapsBackwards == bp > recently_visited
WrapsPastRover == bp <= recently_visited
WrapsForever == TRUE

\* while (bp < recently_visited)
WrapGoesOn == bp < recently_visited

Wrap ==
    /\ pc = "wrap"
    /\ \/ /\ ~WrapGoesOn
          /\ Searching("extend", NULL)
       \/ /\ WrapGoesOn
          /\ Fits(mem, NEXT_BLKP(mem, bp), asize)
          /\ Found(NEXT_BLKP(mem, bp))
       \/ /\ WrapGoesOn
          /\ ~Fits(mem, NEXT_BLKP(mem, bp), asize)
          /\ Searching("wrap", NEXT_BLKP(mem, bp))
    /\ UNCHANGED <<owned, reqsize, call, ptr, mem_max_addr>>

\* No fit: extend_heap, coalesce, place.
Extend ==
    /\ pc = "extend"
    /\ LET size == ExtendBytes(MAX(asize, CHUNKSIZE) \div WSIZE)
       IN  \/ /\ SbrkFails(mem_brk, size)
              /\ pc' = "return"
              /\ UNCHANGED <<mem, mem_brk, recently_visited, bp, ret>>
           \/ /\ ~SbrkFails(mem_brk, size)
              /\ mem_brk' = mem_brk + size
              /\ \E m \in {NewBlock(mem, mem_brk, size)} :
                 \E c \in {Coalesce(m, mem_brk)} :
                    Allocated(c, CoalescedBp(m, mem_brk))
    /\ UNCHANGED <<owned, reqsize, call, ptr, mem_max_addr>>

(***************************************************************************)
(* mm_realloc after its mm_malloc succeeded: memcpy, then mm_free(ptr)     *)
(***************************************************************************)
\* Mutant: the tags of the old block are subtracted twice.
CopySizeShort ==
    LET payload == GET_SIZE(mem, HDRP(ptr)) - 2 * DSIZE
    IN  IF call.size < payload THEN call.size ELSE payload

CopySize ==
    LET payload == GET_SIZE(mem, HDRP(ptr)) - DSIZE
    IN  IF call.size < payload THEN call.size ELSE payload

Copy ==
    /\ pc = "copy"
    /\ \E m \in {memcpy(mem, ret, ptr, CopySize)} : FreeIn(m, ptr)
    /\ ptr' = NULL
    /\ pc' = "return"
    /\ UNCHANGED <<owned, reqsize, call, bp, ret, mem_brk, mem_max_addr>>

(***************************************************************************)
(* The specification.  The program is sequential: a call, once made, runs  *)
(* until it returns, so its own steps are fair; the client owes nothing.   *)
(***************************************************************************)
Run == mm_init \/ Scan \/ Wrap \/ Extend \/ Copy

Next ==
    \/ Run
    \/ \E id \in Ids : mm_free(id)
    \/ \E id \in Ids, size \in Sizes : mm_malloc(id, size) \/ mm_realloc(id, size)
    \/ Return /\ UNCHANGED recently_visited
    \/ NewTrace /\ UNCHANGED recently_visited

Safety == Init /\ [][Next]_vars

Spec == Safety /\ WF_vars(Run)

(***************************************************************************)
(* Properties of this allocator.                                           *)
(***************************************************************************)
\* The rover always points at a block: after coalesce has swallowed the block
\* it pointed to, after place has split it, after extend_heap has moved the
\* epilogue.  find_fit reads the rover's header without any check.
RoverOnBlock == HeapReady => recently_visited \in Blocks

\* find_fit gives up, and the heap grows, only when no free block of the heap
\* is large enough: the two loops together visit every block.
SearchComplete ==
    pc = "extend" => \A b \in Blocks : ~Fits(mem, b, asize)

\* What find_fit has already looked at: the for loop everything between the
\* rover and bp, the while loop also everything from the prologue to bp.  No
\* free block is ever passed over, none is looked at outside the heap, and the
\* while loop, which tests the block after bp, stops at the rover.
SearchProgress ==
    /\ pc = "scan" =>
         /\ bp \in Blocks \cup {mem_brk}
         /\ bp > recently_visited
         /\ \A b \in Blocks : recently_visited < b /\ b < bp => ~Fits(mem, b, asize)
    /\ pc = "wrap" =>
         /\ bp \in Blocks \cup {heap_listp}
         /\ bp <= recently_visited
         /\ \A b \in Blocks : b > recently_visited \/ b <= bp => ~Fits(mem, b, asize)

\* Every call returns: both loops of find_fit end.
CallsReturn == pc = "scan" ~> pc = "return"
=============================================================================
