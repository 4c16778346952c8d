------------------------------ MODULE PolicyMm ------------------------------
(***************************************************************************)
(* The other allocators of sanglim/malloc-lab-main, which differ in how    *)
(* find_fit chooses a block and share the rest:                            *)
(*    "FF", "BF", "WF", "NF+WF"   the files _depricated/mm_imp_*.c         *)
(*    "jongmun_FF", "jongmun_BF", "jongmun_NF"   zzzzjongmunCode.c with    *)
(*                                each of its three macros; it has BF.     *)
(* pc is as in SanglimMm: "scan" is find_fit's first loop and "wrap" its   *)
(* second, which those have that start from the rover.  Here "lost" is a   *)
(* search that starts from a rover that is at no block, and reads a        *)
(* payload as a header; SanglimMm shows what comes of that.  There is one  *)
(* trace: mm_init runs once.                                               *)
(***************************************************************************)
EXTENDS MmClient

VARIABLES
    policy,      \* which of the allocators this is
    rover,       \* NF_pointer or last_bp
    best         \* best_block_bp, largest_block_bp or best_bp of a search

vars == <<memVars, clientVars, policy, rover, best>>

PCs == {"init", "failed", "idle", "scan", "wrap", "extend", "copy", "return", "lost"}

Policies == {"FF", "BF", "WF", "NF+WF", "jongmun_FF", "jongmun_BF", "jongmun_NF"}

Roving == Policies \ {"FF", "WF"}                 \* there is a rover to keep
Searching == {"BF", "NF+WF", "jongmun_NF"}        \* find_fit starts from it
Copying == {"WF", "NF+WF"}                        \* mm_realloc always copies
Jongmun == {"jongmun_FF", "jongmun_BF", "jongmun_NF"}

heap_listp == mem_start_brk + 2 * WSIZE

\* mm_realloc of "FF", "BF" and of jongmun is that of sanglim's mm.c.
Sanglim == INSTANCE SanglimMm WITH NF_pointer <- rover

Init ==
    /\ mem_init
    /\ ClientInit
    /\ policy \in Policies
    /\ rover = NULL
    /\ best = NULL

RoverAt(b) == rover' = IF policy \in Roving THEN b ELSE rover

mm_init ==
    /\ pc = "init"
    /\ \/ /\ SbrkFails(mem_brk, 4 * WSIZE)
          /\ pc' = "failed"
          /\ UNCHANGED <<mem, mem_brk, rover>>
       \/ LET brk == mem_brk + 4 * WSIZE
              size == ExtendBytes(CHUNKSIZE \div WSIZE)
              m == NewBlock(EmptyHeap(mem, mem_brk), brk, size)
          IN  /\ ~SbrkFails(mem_brk, 4 * WSIZE)
              /\ \/ /\ SbrkFails(brk, size)
                    /\ pc' = "failed"
                    /\ mem' = EmptyHeap(mem, mem_brk)
                    /\ mem_brk' = brk
                    /\ UNCHANGED rover
                 \/ /\ ~SbrkFails(brk, size)
                    /\ pc' = "idle"
                    /\ mem' = Coalesce(m, brk)
                    /\ mem_brk' = brk + size
                    /\ RoverAt(heap_listp)
    /\ UNCHANGED <<owned, reqsize, call, bp, ptr, ret, mem_max_addr, policy, best>>

(***************************************************************************)
(* mm_free and the entries of mm_malloc and mm_realloc                     *)
(***************************************************************************)
\* Mutants: the block is not coalesced; the rover stays where it was.
FreeInAlone(m, b) == mem' = MarkFree(m, b) /\ RoverAt(b)
FreeInKeepsRover(m, b) ==
    \E f \in {MarkFree(m, b)} : mem' = Coalesce(f, b) /\ UNCHANGED rover

\* coalesce moves the rover to the block it returns.
FreeIn(m, b) ==
    \E f \in {MarkFree(m, b)} :
        /\ mem' = Coalesce(f, b)
        /\ RoverAt(CoalescedBp(f, b))

mm_free(id) ==
    /\ pc = "idle"
    /\ owned[id] # NULL
    /\ FreeIn(mem, owned[id])
    /\ owned' = [owned EXCEPT ![id] = NULL]
    /\ reqsize' = [reqsize EXCEPT ![id] = 0]
    /\ UNCHANGED <<pc, call, bp, ptr, ret, mem_brk, mem_max_addr, policy, best>>

RoverOnBlock == rover \in Blocks \cup {heap_listp}

\* find_fit begins at the rover, or at the prologue.
Searches ==
    /\ IF policy \notin Searching THEN pc' = "scan" /\ bp' = heap_listp
       ELSE IF RoverOnBlock THEN pc' = "scan" /\ bp' = rover
       ELSE pc' = "lost" /\ UNCHANGED bp
    /\ UNCHANGED <<mem, ret>>

mm_malloc(id, size) ==
    /\ CallStarts(id, size, NULL)
    /\ IF size = 0 THEN pc' = "return" /\ UNCHANGED <<mem, bp, ret>> ELSE Searches
    /\ UNCHANGED <<reqsize, ptr, rover, policy, best, mem_brk, mem_max_addr>>

\* "WF" and "NF+WF": mm_malloc, which refuses size 0, and then a copy.
ReallocByCopy(id, size) ==
    /\ policy \in Copying
    /\ owned[id] # NULL
    /\ CallStarts(id, size, owned[id])
    /\ IF size = 0 THEN pc' = "return" /\ UNCHANGED <<mem, bp, ret>> ELSE Searches
    /\ ptr' = owned[id]
    /\ UNCHANGED <<reqsize, rover, policy, best, mem_brk, mem_max_addr>>

\* The others keep the block, or grow it over the free block behind it, and
\* leave the rover alone; or search.
ReallocInPlace(id, size) ==
    /\ policy \notin Copying
    /\ owned[id] # NULL
    /\ CallStarts(id, size, owned[id])
    /\ \/ /\ Sanglim!Keeps(owned[id], size)
          /\ pc' = "return"
          /\ ret' = owned[id]
          /\ UNCHANGED <<mem, bp, ptr>>
       \/ /\ Sanglim!Absorbs(owned[id], size)
          /\ pc' = "return"
          /\ ret' = owned[id]
          /\ mem' = Mark(mem, owned[id], Sanglim!Merged(owned[id]), 1)
          /\ UNCHANGED <<bp, ptr>>
       \/ /\ ~Sanglim!Keeps(owned[id], size)
          /\ ~Sanglim!Absorbs(owned[id], size)
          /\ Searches
          /\ ptr' = owned[id]
    /\ UNCHANGED <<reqsize, rover, policy, best, mem_brk, mem_max_addr>>

(***************************************************************************)
(* find_fit: what its loops do with the block they look at                 *)
(***************************************************************************)
\* What mm_malloc was asked for, by the client or by mm_realloc.
asize ==
    Sanglim!get_adjusted_size(
        IF ptr = NULL \/ policy \in Copying THEN call.size ELSE Sanglim!NewSize(call.size))

SizeAt(b) == GET_SIZE(mem, HDRP(b))

FitsNow(b) == Fits(mem, b, asize)

\* largest_block_size starts as -1, which no unsigned size is larger than.
MinusOne == MAX_HEAP + 1

\* First and next fit return the first block that fits, best fit an exact one;
\* "NF+WF" returns at the first block that is larger than -1.
Stops(b) ==
    /\ FitsNow(b)
    /\ CASE policy \in {"FF", "jongmun_FF", "jongmun_NF"} -> TRUE
         [] policy = "BF" -> SizeAt(b) = asize
         [] policy = "NF+WF" -> SizeAt(b) > MinusOne
         [] OTHER -> FALSE

\* Mutant: best fit's comparison is the wrong way round.
BetterLarger(b) ==
    /\ FitsNow(b)
    /\ CASE policy \in {"BF", "jongmun_BF"} -> best = NULL \/ SizeAt(b) > SizeAt(best)
         [] policy = "WF" -> SizeAt(b) > IF best = NULL THEN MinusOne ELSE SizeAt(best)
         [] OTHER -> FALSE

\* Best and worst fit go on, and remember the first of the best.
Better(b) ==
    /\ FitsNow(b)
    /\ CASE policy \in {"BF", "jongmun_BF"} -> best = NULL \/ SizeAt(b) < SizeAt(best)
         [] policy = "WF" -> SizeAt(b) > IF best = NULL THEN MinusOne ELSE SizeAt(best)
         [] OTHER -> FALSE

\* Mutant: the second loop of next fit looks before it steps, and misses the
\* rover's block.
StepsFirstOnce == pc = "scan" /\ policy \in {"BF", "jongmun_NF"}

\* The loops that step to the next block before they look: so the rover's own
\* block is the last to be looked at, or for "BF", whose second loop looks
\* first, is not looked at.
StepsFirst == policy = "jongmun_NF" \/ (policy = "BF" /\ pc = "scan")

Looked == IF StepsFirst THEN NEXT_BLKP(mem, bp) ELSE bp

(***************************************************************************)
(* mm_malloc after it                                                      *)
(***************************************************************************)
\* jongmun's place coalesces the rest of a block it splits.
place(m, b) ==
    LET placed == Place(m, b, asize)
    IN  IF policy \in Jongmun /\ Splits(GET_SIZE(m, HDRP(b)), asize)
        THEN Coalesce(placed, NEXT_BLKP(placed, b))
        ELSE placed

Allocated(m, b) ==
    /\ mem' = place(m, b)
    /\ RoverAt(b)
    /\ ret' = b
    /\ bp' = NULL
    /\ best' = NULL
    /\ pc' = IF ptr = NULL THEN "return" ELSE "copy"

(***************************************************************************)
(* The steps of find_fit                                                   *)
(***************************************************************************)
GoesOn(next, b) ==
    /\ pc' = next
    /\ bp' = b
    /\ UNCHANGED <<mem, rover, ret>>

\* One iteration of either loop.
Look ==
    \/ /\ Stops(Looked)
       /\ Allocated(mem, Looked)
    \/ /\ ~Stops(Looked)
       /\ best' = IF Better(Looked) THEN Looked ELSE best
       /\ GoesOn(pc, NEXT_BLKP(mem, bp))

\* The blocks are exhausted.
Finish ==
    \/ /\ best = NULL
       /\ GoesOn("extend", NULL)
       /\ UNCHANGED best
    \/ /\ best # NULL
       /\ Allocated(mem, best)

\* To the epilogue; then, from a rover, once more from the prologue.
Scan ==
    /\ pc = "scan"
    /\ \/ SizeAt(bp) > 0 /\ Look
       \/ SizeAt(bp) = 0 /\ policy \notin Searching /\ Finish
       \/ /\ SizeAt(bp) = 0 /\ policy \in Searching
          /\ GoesOn("wrap", heap_listp)
          /\ UNCHANGED best
    /\ UNCHANGED <<owned, reqsize, call, ptr, mem_brk, mem_max_addr, policy>>

Wrap ==
    /\ pc = "wrap"
    /\ IF bp < rover THEN Look ELSE Finish
    /\ UNCHANGED <<owned, reqsize, call, ptr, mem_brk, mem_max_addr, policy>>

Extend ==
    /\ pc = "extend"
    /\ LET size == ExtendBytes(MAX(asize, CHUNKSIZE) \div WSIZE)
       IN  \/ /\ SbrkFails(mem_brk, size)
              /\ pc' = "return"
              /\ UNCHANGED <<mem, mem_brk, rover, ret, bp, best>>
           \/ /\ ~SbrkFails(mem_brk, size)
              /\ mem_brk' = mem_brk + size
              /\ \E m \in {NewBlock(mem, mem_brk, size)} :
                    Allocated(Coalesce(m, mem_brk), CoalescedBp(m, mem_brk))
    /\ UNCHANGED <<owned, reqsize, call, ptr, mem_max_addr, policy>>

(***************************************************************************)
(* mm_realloc after its mm_malloc succeeded                                *)
(***************************************************************************)
\* Mutant: the old content is not copied.
CopySizeNone == 0
CopySize ==
    LET payload == GET_SIZE(mem, HDRP(ptr)) - DSIZE
    IN  IF call.size < payload THEN call.size ELSE payload

Copy ==
    /\ pc = "copy"
    /\ \/ /\ policy \in Copying
          /\ FreeIn(memcpy(mem, ret, ptr, CopySize), ptr)
       \/ /\ policy \notin Copying
          /\ \E forward \in BOOLEAN :
             \E m \in {Sanglim!Copied(mem, Sanglim!NewSize(call.size), forward)} : FreeIn(m, ptr)
    /\ ptr' = NULL
    /\ pc' = "return"
    /\ UNCHANGED <<owned, reqsize, call, bp, ret, mem_brk, mem_max_addr, policy, best>>

Stopped == pc \in {"failed", "lost"} /\ UNCHANGED vars

Next ==
    \/ mm_init \/ Scan \/ Wrap \/ Extend \/ Copy \/ Stopped
    \/ \E id \in Ids : mm_free(id)
    \/ \E id \in Ids, size \in Sizes :
          mm_malloc(id, size) \/ ReallocByCopy(id, size) \/ ReallocInPlace(id, size)
    \/ Return /\ UNCHANGED <<rover, policy, best>>

Spec == Init /\ [][Next]_vars

(***************************************************************************)
(* Properties.                                                             *)
(***************************************************************************)
\* The heap grows only when no free block is large enough, but for worst fit,
\* whose comparison with an unsigned -1 refuses every block, and for best fit,
\* which never looks at the block its rover is at, the one just freed.
SearchComplete ==
    pc = "extend" => \A b \in Blocks : FitsNow(b) =>
        policy \in {"WF", "NF+WF"} \/ (policy = "BF" /\ b = rover)

\* Going round the heap from the rover's block, b comes before c.
RoundBefore(b, c) ==
    IF (b > rover) = (c > rover) THEN b < c ELSE b > rover

\* What a policy's name promises of the block c it chooses, when b fits as well:
\* c is the first, a smallest (of those that best fit looks at) or the next one
\* round the heap.
Prefers(c, b) ==
    CASE policy \in {"FF", "jongmun_FF"} -> c < b
      [] policy = "BF" -> b = rover \/ SizeAt(c) <= SizeAt(b)
      [] policy = "jongmun_BF" -> SizeAt(c) <= SizeAt(b)
      [] policy = "jongmun_NF" -> RoundBefore(c, b)

\* find_fit chooses, of the blocks that fit, the one its policy prefers; worst
\* fit, of which LargestFound below says what it should do, chooses none.
PolicyKept ==
    [][(pc \in {"scan", "wrap"} /\ pc' \in {"return", "copy"}) =>
        /\ policy \notin {"WF", "NF+WF"}
        /\ ret' \in Blocks /\ FitsNow(ret')
        /\ \A b \in Blocks \ {ret'} : FitsNow(b) => Prefers(ret', b)]_vars

\* What the comment at mm_imp_WF.c:228 says of its loop: of the blocks that are
\* free and large enough, it finds a largest, if there is one.  The code does not:
\* no size is larger than the unsigned -1 that its comparison starts from.
LargestFound ==
    [][policy = "WF" /\ pc = "scan" /\ pc' # "scan" /\ (\E b \in Blocks : FitsNow(b)) =>
        /\ ret' \in Blocks /\ FitsNow(ret')
        /\ \A b \in Blocks : FitsNow(b) => SizeAt(b) <= SizeAt(ret')]_vars

\* The rover, once set, leaves the block boundaries by one kind of step only:
\* mm_realloc grows a block over the free block the rover is at, and does not
\* move it.  mm_free, place and coalesce always take it along.
RoverLostOnlyInPlace ==
    [][HeapReady /\ HeapReady' /\ policy \in Roving /\ RoverOnBlock /\ ~RoverOnBlock' =>
        /\ pc = "idle" /\ pc' = "return"
        /\ rover = NEXT_BLKP(mem, ret') /\ rover' = rover]_vars
=============================================================================
