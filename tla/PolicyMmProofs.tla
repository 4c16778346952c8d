--------------------------- MODULE PolicyMmProofs ---------------------------
(***************************************************************************)
(* The inductive invariant of PolicyMm, for the seven policies at once,    *)
(* and its theorems.  What the steps common to the allocators do is in     *)
(* MmClientProofs; here are the rover, the loops of find_fit and what they *)
(* have looked at, and jongmun's place, which coalesces what needs no      *)
(* coalescing.                                                             *)
(***************************************************************************)
EXTENDS PolicyMm, MmClientProofs

\* What is known of the operators of SanglimMm.
SanglimProofs == INSTANCE SanglimMmProofs WITH NF_pointer <- rover

\* The blocks that the loops have looked at: from the first one, from the one
\* behind the rover, or from the rover's own, to the cursor.
Behind(b) == IF StepsFirst THEN b <= bp ELSE b < bp

FromRover(b) == IF policy = "NF+WF" THEN b >= rover ELSE b > rover

Passed(b) ==
    \/ policy \notin Searching /\ Behind(b)
    \/ policy \in Searching /\ pc = "scan" /\ FromRover(b) /\ Behind(b)
    \/ policy \in Searching /\ pc = "wrap" /\ (FromRover(b) \/ Behind(b))

\* Why find_fit has gone on after a block that fits: there is a smaller one, or
\* worst fit does not think it larger than -1.
Judged(b) ==
    \/ policy \in Copying
    \/ policy \in {"BF", "jongmun_BF"} /\ best # NULL /\ SizeAt(best) <= SizeAt(b)

Searched ==
    /\ pc \notin {"scan", "wrap"} => best = NULL
    /\ best # NULL =>
         /\ policy \in {"BF", "jongmun_BF"}
         /\ best \in Blocks
         /\ FitsNow(best)
    /\ pc \in {"scan", "wrap"} =>
         /\ bp \in Blocks \cup {heap_listp, mem_brk}
         /\ policy \in Searching => RoverOnBlock
         /\ \A b \in Blocks : Passed(b) /\ FitsNow(b) => Judged(b)
    /\ pc = "wrap" => policy \in Searching
    /\ pc = "scan" /\ policy \in Searching => bp >= rover

\* The new block of mm_realloc holds the size + DSIZE bytes that it copies.
CopyFits ==
    pc = "copy" /\ policy \notin Copying =>
        GET_SIZE(mem, HDRP(ret)) >= Sanglim!NewSize(call.size) + DSIZE

IInv ==
    /\ ClientInv
    /\ pc \in PCs
    /\ policy \in Policies
    /\ rover \in Nat
    /\ Searched
    /\ SearchComplete
    /\ CopyFits

(***************************************************************************)
(* Sizes, and jongmun's place                                              *)
(***************************************************************************)
LEMMA AdjustedOK ==
    ASSUME NEW s \in Nat
    PROVE  /\ BlockSize(Sanglim!get_adjusted_size(s))
           /\ Sanglim!get_adjusted_size(s) >= s + 8
  BY DEF Sanglim!get_adjusted_size, Sanglim!DSIZE, BlockSize

LEMMA CallSize ==
    ASSUME ClientInv
    PROVE  /\ BlockSize(asize) /\ asize \in Nat /\ asize >= call.size + 8
           /\ ptr # NULL /\ policy \notin Copying => asize >= call.size + 16
<1>1. call.size \in Nat /\ Sanglim!NewSize(call.size) = call.size + 8
  BY CallType DEF Sanglim!NewSize, Sanglim!DSIZE
<1>2. CASE ptr = NULL \/ policy \in Copying
  <2>1. asize = Sanglim!get_adjusted_size(call.size)
    BY <1>2 DEF asize
  <2> QED
    BY <1>1, <1>2, <2>1, AdjustedOK DEF BlockSize
<1>3. CASE ~(ptr = NULL \/ policy \in Copying)
  <2> DEFINE s == call.size + 8
  <2>1. s \in Nat /\ asize = Sanglim!get_adjusted_size(s) /\ s = call.size + 8
    BY <1>1, <1>3 DEF asize
  <2> HIDE DEF s
  <2>2. BlockSize(asize) /\ asize >= s + 8
    BY <2>1, AdjustedOK
  <2> QED
    BY <1>1, <2>1, <2>2 DEF BlockSize
<1> QED
  BY <1>2, <1>3

\* jongmun's place does what the others do.
LEMMA PlaceSame ==
    ASSUME ClientInv, NEW m, NEW brk, NEW L, Heap(m, brk, L),
           NEW b \in BlocksOf(m, brk, L), Fits(m, b, asize)
    PROVE  place(m, b) = Place(m, b, asize)
<1> DEFINE p == Place(m, b, asize)
<1>1. BlockSize(asize) /\ asize \in Nat
  BY CallSize
<1>2. ASSUME Splits(GET_SIZE(m, HDRP(b)), asize)
      PROVE  Coalesce(p, NEXT_BLKP(p, b)) = p
  <2>1. Heap(p, brk, L \cup {b})
    BY <1>1, AllocatedStep
  <2>2. NEXT_BLKP(p, b) \in BlocksOf(p, brk, L \cup {b}) \ (L \cup {b})
    BY <1>1, <1>2, SplitRest
  <2> HIDE DEF p
  <2> QED
    BY <2>1, <2>2, CoalescedOnce
<1> QED
  BY <1>2 DEF place

(***************************************************************************)
(* The steps of the search                                                 *)
(***************************************************************************)
\* The rover stays at the blocks; the steps below keep that and IInv.
RoverKept == policy \in Roving /\ RoverOnBlock => RoverOnBlock'

LEMMA RoverAtBlock ==
    ASSUME NEW b \in Blocks', b \in Nat, RoverAt(b), rover \in Nat
    PROVE  RoverKept /\ rover' \in Nat
  BY DEF RoverKept, RoverAt, RoverOnBlock

LEMMA RoverStill ==
    ASSUME UNCHANGED rover, Blocks' = Blocks
    PROVE  RoverKept
<1>1. heap_listp' = heap_listp
  BY DEF heap_listp
<1> QED
  BY <1>1 DEF RoverKept, RoverOnBlock

\* After a step that leaves the search only the common invariant is to check.
LEMMA Elsewhere ==
    ASSUME IInv, ClientInv', pc' \in PCs \ {"scan", "wrap", "extend", "copy"},
           rover' \in Nat, best' = NULL, UNCHANGED policy
    PROVE  IInv'
  BY DEF IInv, Searched, SearchComplete, CopyFits

\* A block has been placed: what Allocated leaves.
LEMMA PlacedKeeps ==
    ASSUME IInv, ClientInv', NEW b \in Blocks', b \in Nat,
           GET_SIZE(mem', HDRP(b)) \in Nat, GET_SIZE(mem', HDRP(b)) >= asize,
           ret' = b, best' = NULL, RoverAt(b), UNCHANGED <<call, ptr, policy>>,
           pc' = IF ptr = NULL THEN "return" ELSE "copy"
    PROVE  IInv' /\ RoverKept
<1>1. CopyFits'
  <2>1. SUFFICES ASSUME pc' = "copy", policy \notin Copying
                 PROVE  GET_SIZE(mem', HDRP(ret')) >= Sanglim!NewSize(call.size) + DSIZE
    BY DEF CopyFits, Sanglim!NewSize, Sanglim!DSIZE
  <2>2. asize >= call.size + 16 /\ call.size \in Nat /\ asize \in Nat
    BY <2>1, CallSize, CallType DEF IInv
  <2> QED
    BY <2>2 DEF Sanglim!NewSize, Sanglim!DSIZE, DSIZE
<1>2. RoverKept /\ rover' \in Nat
  BY RoverAtBlock DEF IInv
<1> QED
  BY <1>1, <1>2 DEF IInv, PCs, Searched, SearchComplete

LEMMA FoundKeeps ==
    ASSUME IInv, pc \in {"scan", "wrap"}, NEW b \in Blocks, FitsNow(b), Allocated(mem, b),
           UNCHANGED <<owned, reqsize, call, ptr, mem_brk, mem_max_addr, policy>>
    PROVE  IInv' /\ RoverKept
<1>1. BlockSize(asize) /\ asize >= call.size + 8 /\ ClientInv /\ InSearch /\ HeapReady
  BY CallSize DEF IInv, InSearch, HeapReady
<1>2. place(mem, b) = Place(mem, b, asize)
  BY <1>1, HeapFacts, PlaceSame DEF Blocks, FitsNow
<1>3. /\ mem' = Place(mem, b, asize) /\ ret' = b /\ bp' = NULL /\ best' = NULL /\ RoverAt(b)
      /\ pc' = IF ptr = NULL THEN "return" ELSE "copy"
  BY <1>2 DEF Allocated
<1>4. /\ ClientInv' /\ b \in Blocks' /\ b \in Nat
      /\ GET_SIZE(mem', HDRP(b)) \in Nat /\ GET_SIZE(mem', HDRP(b)) >= asize
  BY <1>1, <1>3, FoundStep DEF FitsNow
<1> QED
  BY <1>3, <1>4, PlacedKeeps

LEMMA ExtendKeeps ==
    ASSUME IInv, Extend
    PROVE  IInv' /\ RoverKept
<1> DEFINE size == ExtendBytes(MAX(asize, CHUNKSIZE) \div WSIZE)
           n == NewBlock(mem, mem_brk, size)
           c == Coalesce(n, mem_brk)
           b == CoalescedBp(n, mem_brk)
<1>1. /\ ClientInv /\ pc = "extend" /\ InSearch
      /\ UNCHANGED <<owned, reqsize, call, ptr, mem_max_addr, policy>>
  BY DEF Extend, InSearch, IInv
<1>2. BlockSize(asize) /\ asize >= call.size + 8
  BY CallSize DEF IInv
<1>3. CASE pc' = "return" /\ UNCHANGED <<mem, mem_brk, rover, bp, ret, best>>
  <2>1. bp' \in Nat
    BY <1>1, <1>3 DEF ClientInv, ClientTypeOK
  <2>2. ClientInv' /\ Blocks' = Blocks
    BY <1>1, <1>3, <2>1, SearchStep
  <2> QED
    BY <1>1, <1>3, <2>2, Elsewhere, RoverStill DEF IInv, Searched, PCs
<1>4. CASE /\ ~SbrkFails(mem_brk, size) /\ mem_brk' = mem_brk + size
           /\ Allocated(c, b)
  <2>1. Heap(c, mem_brk + size, Live) /\ b \in BlocksOf(c, mem_brk + size, Live)
        /\ Fits(c, b, asize)
    BY <1>1, <1>2, <1>4, GrownHeap
  <2>2. place(c, b) = Place(c, b, asize)
    <3> HIDE DEF b, c, size
    <3> QED
      BY <1>1, <2>1, PlaceSame
  <2>3. /\ mem' = Place(Coalesce(n, mem_brk), b, asize)
        /\ ret' = b /\ bp' = NULL /\ best' = NULL /\ RoverAt(b)
        /\ pc' = IF ptr = NULL THEN "return" ELSE "copy"
    BY <1>4, <2>2 DEF Allocated
  <2>4. /\ ClientInv' /\ b \in Blocks' /\ b \in Nat
        /\ GET_SIZE(mem', HDRP(b)) \in Nat /\ GET_SIZE(mem', HDRP(b)) >= asize
    BY <1>1, <1>2, <1>4, <2>3, ExtendStep
  <2> HIDE DEF b
  <2> QED
    BY <1>1, <2>3, <2>4, PlacedKeeps
<1> QED
  <2> HIDE DEF size
  <2> QED
    BY <1>3, <1>4 DEF Extend, size

\* The heap as the loops see it, and the sizes, which are all below the largest
\* unsigned one.
LEMMA ListFacts ==
    ASSUME ClientInv, HeapReady
    PROVE  /\ heap_listp = 8 /\ mem_brk \in Nat /\ mem_brk >= 16 /\ Blocks \in SUBSET Nat
           /\ \A b \in Blocks :
                /\ b \in Nat /\ b >= 16 /\ b < mem_brk /\ b # NULL
                /\ SizeAt(b) \in Nat /\ SizeAt(b) > 0 /\ ~(SizeAt(b) > MinusOne)
           /\ SizeAt(mem_brk) = 0 /\ SizeAt(8) = 8
           /\ ~FitsNow(8) /\ ~FitsNow(mem_brk)
<1>1. heap_listp = 8
  BY DEF heap_listp, mem_start_brk, WSIZE
<1>2. mem_brk <= MAX_HEAP /\ mem_brk \in Nat /\ MAX_HEAP \in Nat
  <2>1. mem_brk <= mem_max_addr /\ mem_max_addr \in 0..MAX_HEAP /\ mem_brk \in Nat
    BY HeapFacts, MemlibAssumption DEF Heap
  <2> QED
    BY <2>1, MemlibAssumption
<1>3. /\ Blocks \in SUBSET Nat /\ 16 \in Blocks
      /\ \A b \in Blocks : /\ b \in Nat /\ b >= 16 /\ b < mem_brk
                           /\ SizeAt(b) \in Nat /\ SizeAt(b) >= 16 /\ b + SizeAt(b) <= mem_brk
      /\ SizeAt(mem_brk) = 0 /\ SizeAt(8) = 8 /\ GET_ALLOC(mem, HDRP(8)) = 1
  BY BlockFacts DEF SizeAt
<1>4. \A b \in Blocks : ~(SizeAt(b) > MinusOne) /\ b # NULL /\ SizeAt(b) > 0
  BY <1>2, <1>3 DEF MinusOne, NULL
<1>5. ~FitsNow(8) /\ ~FitsNow(mem_brk)
  <2>1. asize \in Nat /\ asize >= 16
    BY CallSize DEF BlockSize
  <2> QED
    BY <1>3, <2>1 DEF FitsNow, Fits, SizeAt
<1> QED
  BY <1>1, <1>2, <1>3, <1>4, <1>5

\* The step to the next block, and which blocks it adds to those looked at.
LEMMA LookFacts ==
    ASSUME ClientInv, HeapReady, bp \in Blocks \cup {8}, NEW next, next = NEXT_BLKP(mem, bp)
    PROVE  /\ next \in Blocks \cup {mem_brk} /\ next \in Nat /\ bp < next /\ bp \in Nat
           /\ FitsNow(Looked) => Looked \in Blocks
           /\ \A b \in Blocks : IF StepsFirst THEN b <= next => b <= bp \/ b = Looked
                                              ELSE b < next => b < bp \/ b = Looked
<1>1. /\ next \in Blocks \cup {mem_brk} /\ next \in Nat /\ bp < next /\ bp \in Nat
      /\ \A c \in Blocks : c < next => c < bp \/ c = bp
  BY NextFacts
<1>2. Looked = IF StepsFirst THEN next ELSE bp
  BY DEF Looked
<1>3. FitsNow(Looked) => Looked \in Blocks
  BY <1>1, <1>2, ListFacts
<1>4. \A b \in Blocks : b \in Nat
  BY ListFacts
<1> QED
  BY <1>1, <1>2, <1>3, <1>4

LEMMA SearchKeeps ==
    ASSUME IInv, pc \in {"scan", "wrap"}, pc' \in {"scan", "wrap", "extend"}, bp' \in Nat,
           UNCHANGED <<owned, reqsize, call, ptr, ret, mem, mem_brk, mem_max_addr, rover, policy>>,
           Searched', SearchComplete'
    PROVE  IInv' /\ RoverKept
<1>1. ClientInv' /\ Blocks' = Blocks
  BY SearchStep DEF IInv, InSearch
<1> QED
  BY <1>1, RoverStill DEF IInv, PCs, CopyFits

\* The two comparisons, policy by policy: a block that fits is taken at once, or
\* remembered for best fit, or there is a better one, or worst fit refuses it.
LEMMA Verdict ==
    ASSUME policy \in Policies, NEW b, FitsNow(b), ~Stops(b),
           SizeAt(b) \in Nat, ~(SizeAt(b) > MinusOne),
           best # NULL => policy \in {"BF", "jongmun_BF"} /\ SizeAt(best) \in Nat
    PROVE  IF Better(b)
           THEN /\ policy \in {"BF", "jongmun_BF"}
                /\ best = NULL \/ SizeAt(b) < SizeAt(best)
           ELSE Judged(b)
<1>1. CASE policy \in {"FF", "jongmun_FF", "jongmun_NF"}
  BY <1>1 DEF Stops
<1>2. CASE policy \in {"BF", "jongmun_BF"}
  <2>1. Better(b) <=> best = NULL \/ SizeAt(b) < SizeAt(best)
    BY <1>2 DEF Better
  <2>2. best # NULL => SizeAt(best) \in Nat
    OBVIOUS
  <2>3. CASE Better(b)
    BY <1>2, <2>1, <2>3
  <2>4. CASE ~Better(b)
    <3>1. best # NULL /\ ~(SizeAt(b) < SizeAt(best))
      BY <2>1, <2>4
    <3>2. SizeAt(best) <= SizeAt(b)
      BY <2>2, <3>1
    <3> QED
      BY <1>2, <2>4, <3>1, <3>2 DEF Judged
  <2> QED
    BY <2>3, <2>4
<1>3. CASE policy \in {"WF", "NF+WF"}
  <2>1. best = NULL
    BY <1>3
  <2>2. ~Better(b)
    BY <1>3, <2>1 DEF Better
  <2> QED
    BY <1>3, <2>2 DEF Judged, Copying
<1> QED
  BY <1>1, <1>2, <1>3 DEF Policies

\* b is what a search may remember after a block that fits.
Remembers(b) ==
    /\ b # NULL => policy \in {"BF", "jongmun_BF"} /\ b \in Blocks /\ FitsNow(b)
    /\ \A c \in Blocks : FitsNow(c) /\ (Judged(c) \/ c = Looked) =>
          \/ policy \in Copying
          \/ policy \in {"BF", "jongmun_BF"} /\ b # NULL /\ SizeAt(b) <= SizeAt(c)

\* One iteration of either loop: the block it looks at has been judged.
LEMMA LookKeeps ==
    ASSUME IInv, pc \in {"scan", "wrap"}, bp \in Blocks \cup {8},
           pc = "wrap" => bp < rover, Look,
           UNCHANGED <<owned, reqsize, call, ptr, mem_brk, mem_max_addr, policy>>
    PROVE  IInv' /\ RoverKept
<1> DEFINE next == NEXT_BLKP(mem, bp)
<1>1. ClientInv /\ HeapReady /\ policy \in Policies /\ rover \in Nat
  BY DEF IInv, HeapReady
<1>2. /\ next \in Blocks \cup {mem_brk} /\ next \in Nat /\ bp < next /\ bp \in Nat
      /\ FitsNow(Looked) => Looked \in Blocks
      /\ \A b \in Blocks : IF StepsFirst THEN b <= next => b <= bp \/ b = Looked
                                         ELSE b < next => b < bp \/ b = Looked
  BY <1>1, LookFacts
<1>3. CASE Stops(Looked) /\ Allocated(mem, Looked)
  <2>1. FitsNow(Looked) /\ Looked \in Blocks
    BY <1>2, <1>3 DEF Stops
  <2> QED
    BY <1>3, <2>1, FoundKeeps
<1>4. CASE /\ ~Stops(Looked) /\ best' = (IF Better(Looked) THEN Looked ELSE best)
           /\ GoesOn(pc, next)
  <2>1. /\ pc' = pc /\ bp' = next /\ UNCHANGED <<mem, rover, ret>>
    BY <1>4 DEF GoesOn
  <2>2. /\ Blocks' = Blocks /\ asize' = asize /\ heap_listp' = heap_listp
        /\ StepsFirst' = StepsFirst /\ RoverOnBlock' = RoverOnBlock
        /\ \A b : (SizeAt(b)' = SizeAt(b)) /\ (FitsNow(b)' = FitsNow(b))
                  /\ (FromRover(b)' = FromRover(b))
    BY <2>1 DEF Blocks, Live, BlocksOf, asize, Sanglim!NewSize, heap_listp, StepsFirst,
                RoverOnBlock, SizeAt, FitsNow, FromRover
  <2>3. /\ \A b \in Blocks : b \in Nat /\ b # NULL /\ SizeAt(b) \in Nat
                             /\ ~(SizeAt(b) > MinusOne)
        /\ heap_listp = 8
    BY <1>1, ListFacts
  <2>4. /\ best # NULL => policy \in {"BF", "jongmun_BF"} /\ best \in Blocks /\ FitsNow(best)
        /\ policy \in Searching => RoverOnBlock
        /\ \A b \in Blocks : Passed(b) /\ FitsNow(b) => Judged(b)
        /\ pc = "wrap" => policy \in Searching
        /\ pc = "scan" /\ policy \in Searching => bp >= rover
    BY DEF IInv, Searched
  <2> HIDE DEF next
  <2>5. FitsNow(Looked) =>
            IF Better(Looked)
            THEN /\ policy \in {"BF", "jongmun_BF"}
                 /\ best = NULL \/ SizeAt(Looked) < SizeAt(best)
            ELSE Judged(Looked)
    BY <1>1, <1>2, <1>4, <2>3, <2>4, Verdict
  <2>6. Remembers(best')
    <3>1. CASE Better(Looked)
      <4>1. FitsNow(Looked) /\ Looked \in Blocks /\ best' = Looked
        BY <1>2, <1>4, <3>1 DEF Better
      <4>2. /\ policy \in {"BF", "jongmun_BF"} /\ policy \notin Copying
            /\ best = NULL \/ SizeAt(Looked) < SizeAt(best)
        BY <2>5, <3>1, <4>1 DEF Copying
      <4>3. ASSUME NEW c \in Blocks, Judged(c) \/ c = Looked
            PROVE  SizeAt(Looked) <= SizeAt(c)
        <5>1. SizeAt(c) \in Nat /\ SizeAt(Looked) \in Nat
          BY <2>3, <4>1
        <5>2. c # Looked => /\ best # NULL /\ SizeAt(best) <= SizeAt(c)
                            /\ SizeAt(best) \in Nat
          BY <2>3, <2>4, <4>2, <4>3 DEF Judged
        <5> QED
          BY <4>2, <5>1, <5>2
      <4> QED
        BY <2>3, <4>1, <4>2, <4>3 DEF Remembers
    <3>2. CASE ~Better(Looked)
      <4>1. best' = best
        BY <1>4, <3>2
      <4> QED
        BY <2>4, <2>5, <3>2, <4>1 DEF Judged, Remembers
    <3> QED
      BY <3>1, <3>2
  <2>7. \A b \in Blocks : Passed(b)' => Passed(b) \/ b = Looked
    <3>1. ASSUME NEW b \in Blocks, Behind(b)'
          PROVE  Behind(b) \/ b = Looked
      BY <1>2, <2>1, <2>2, <3>1 DEF Behind
    <3>2. ASSUME NEW b \in Blocks, Passed(b)'
          PROVE  Passed(b) \/ b = Looked
      BY <2>1, <2>2, <3>1, <3>2 DEF Passed
    <3> QED
      BY <3>2
  <2>8. Searched'
    <3>1. \A b \in Blocks : Passed(b)' /\ FitsNow(b)' => Judged(b)'
      BY <2>1, <2>2, <2>4, <2>6, <2>7 DEF Remembers, Judged, SizeAt
    <3>2. best' # NULL => /\ policy \in {"BF", "jongmun_BF"}
                          /\ best' \in Blocks /\ FitsNow(best)'
      BY <2>1, <2>2, <2>6 DEF Remembers
    <3>3. ASSUME pc = "scan", policy \in Searching
          PROVE  next >= rover
      <4>1. bp >= rover /\ bp < next /\ bp \in Nat /\ next \in Nat /\ rover \in Nat
        BY <1>1, <1>2, <2>4, <3>3
      <4> QED
        BY <4>1
    <3> QED
      BY <1>2, <2>1, <2>2, <2>4, <3>1, <3>2, <3>3 DEF Searched
  <2> QED
    BY <1>2, <2>1, <2>8, SearchKeeps DEF SearchComplete
<1> QED
  BY <1>3, <1>4 DEF Look

\* The blocks are exhausted: all that fit have been judged, or best fit, which
\* starts behind the rover's block, has missed that one.
LEMMA FinishKeeps ==
    ASSUME IInv, pc \in {"scan", "wrap"}, Finish,
           \A b \in Blocks : Passed(b) \/ (policy = "BF" /\ b = rover),
           UNCHANGED <<owned, reqsize, call, ptr, mem_brk, mem_max_addr, policy>>
    PROVE  IInv' /\ RoverKept
<1>1. CASE best = NULL /\ GoesOn("extend", NULL) /\ UNCHANGED best
  <2>1. pc' = "extend" /\ bp' = 0 /\ UNCHANGED <<mem, rover, ret>>
    BY <1>1 DEF GoesOn, NULL
  <2>2. Blocks' = Blocks /\ asize' = asize
    BY <2>1 DEF Blocks, Live, BlocksOf, asize, Sanglim!NewSize
  <2>3. ASSUME NEW b \in Blocks, FitsNow(b)
        PROVE  policy \in {"WF", "NF+WF"} \/ (policy = "BF" /\ b = rover)
    <3>1. Passed(b) => Judged(b)
      BY <2>3 DEF IInv, Searched
    <3> QED
      BY <1>1, <3>1 DEF Judged, Copying
  <2>4. SearchComplete'
    BY <2>1, <2>2, <2>3 DEF SearchComplete, FitsNow
  <2>5. Searched'
    BY <1>1, <2>1 DEF Searched
  <2> QED
    BY <2>1, <2>4, <2>5, SearchKeeps
<1>2. CASE best # NULL /\ Allocated(mem, best)
  <2>1. best \in Blocks /\ FitsNow(best)
    BY <1>2 DEF IInv, Searched
  <2> QED
    BY <1>2, <2>1, FoundKeeps
<1> QED
  BY <1>1, <1>2 DEF Finish

\* The loops have come to their ends.
Ended ==
    \/ pc = "scan" /\ SizeAt(bp) = 0 /\ policy \notin Searching
    \/ pc = "wrap" /\ ~(bp < rover)

\* Then every block has been looked at, but for the one that best fit misses.
LEMMA Exhausted ==
    ASSUME IInv, Ended
    PROVE  \A b \in Blocks : Passed(b) \/ (policy = "BF" /\ b = rover)
<1>1. ClientInv /\ HeapReady /\ pc \in {"scan", "wrap"}
  BY DEF Ended, IInv, HeapReady
<1>2. /\ heap_listp = 8 /\ mem_brk \in Nat /\ mem_brk >= 16
      /\ \A b \in Blocks : b \in Nat /\ b < mem_brk /\ b >= 16 /\ SizeAt(b) > 0
      /\ SizeAt(8) = 8
  BY <1>1, ListFacts
<1>3. /\ bp \in Blocks \cup {8, mem_brk} /\ bp \in Nat
      /\ policy \in Searching => rover \in Blocks \cup {8} /\ rover \in Nat
      /\ pc = "wrap" => policy \in Searching
  <2>1. /\ bp \in Blocks \cup {8, mem_brk} /\ (pc = "wrap" => policy \in Searching)
        /\ policy \in Searching => rover \in Blocks \cup {8}
    BY <1>1, <1>2 DEF IInv, Searched, RoverOnBlock
  <2> QED
    BY <1>2, <2>1
<1>4. CASE pc = "scan"
  <2>1. bp = mem_brk /\ policy \notin Searching
    BY <1>2, <1>3, <1>4 DEF Ended
  <2> QED
    BY <1>2, <2>1 DEF Passed, Behind, StepsFirst, Searching
<1>5. CASE pc = "wrap"
  <2>1. ~(bp < rover) /\ rover \in Nat /\ policy \in Searching
    BY <1>3, <1>5 DEF Ended
  <2>2. ASSUME NEW b \in Blocks
        PROVE  Passed(b) \/ (policy = "BF" /\ b = rover)
    <3>1. b \in Nat /\ (b > rover \/ b = rover \/ b < rover)
      BY <1>2, <2>1
    <3>2. b < rover => Behind(b)
      BY <1>2, <1>3, <2>1 DEF Behind
    <3>3. b > rover => FromRover(b)
      BY <2>1, <3>1 DEF FromRover
    <3>4. CASE b = rover
      <4>1. policy = "NF+WF" => FromRover(b)
        BY <2>1, <3>4 DEF FromRover
      <4>2. policy = "jongmun_NF" => Behind(b)
        BY <1>3, <2>1, <3>4 DEF Behind, StepsFirst
      <4> QED
        BY <1>5, <2>1, <3>4, <4>1, <4>2 DEF Passed, Searching
    <3> QED
      BY <1>5, <2>1, <3>1, <3>2, <3>3, <3>4 DEF Passed
  <2> QED
    BY <2>2
<1> QED
  BY <1>1, <1>4, <1>5

LEMMA ScanKeeps ==
    ASSUME IInv, Scan
    PROVE  IInv' /\ RoverKept
<1>1. /\ ClientInv /\ pc = "scan" /\ HeapReady
      /\ UNCHANGED <<owned, reqsize, call, ptr, mem_brk, mem_max_addr, policy>>
  BY DEF Scan, HeapReady, IInv
<1>2. /\ heap_listp = 8 /\ mem_brk \in Nat
      /\ \A b \in Blocks : b \in Nat /\ b < mem_brk /\ b >= 16 /\ SizeAt(b) > 0
      /\ SizeAt(mem_brk) = 0 /\ SizeAt(8) = 8
  BY <1>1, ListFacts
<1>3. /\ bp \in Blocks \cup {8, mem_brk}
      /\ policy \in Searching => RoverOnBlock
      /\ \A b \in Blocks : Passed(b) /\ FitsNow(b) => Judged(b)
  BY <1>1, <1>2 DEF IInv, Searched
<1>4. CASE SizeAt(bp) > 0 /\ Look
  <2>1. bp \in Blocks \cup {8}
    BY <1>2, <1>3, <1>4
  <2> QED
    BY <1>1, <1>4, <2>1, LookKeeps
<1>5. CASE SizeAt(bp) = 0 /\ policy \notin Searching /\ Finish
  BY <1>1, <1>5, Exhausted, FinishKeeps DEF Ended
<1>6. CASE SizeAt(bp) = 0 /\ policy \in Searching /\ GoesOn("wrap", heap_listp) /\ UNCHANGED best
  <2>1. bp = mem_brk
    BY <1>2, <1>3, <1>6
  <2>2. pc' = "wrap" /\ bp' = 8 /\ UNCHANGED <<mem, rover, ret>>
    BY <1>2, <1>6 DEF GoesOn
  <2>3. /\ Blocks' = Blocks /\ asize' = asize /\ heap_listp' = 8 /\ RoverOnBlock' = RoverOnBlock
        /\ best' = best
    BY <1>1, <1>2, <1>6, <2>2
       DEF Blocks, Live, BlocksOf, asize, Sanglim!NewSize, heap_listp, RoverOnBlock
  <2>4. ASSUME NEW b \in Blocks, Passed(b)'
        PROVE  Passed(b)
    <3>1. b \in Nat /\ b >= 16 /\ b < mem_brk
      BY <1>2
    <3>2. ~Behind(b)'
      BY <2>2, <3>1 DEF Behind
    <3>3. FromRover(b)
      BY <1>1, <2>2, <2>4, <3>2 DEF Passed, FromRover
    <3>4. Behind(b)
      BY <1>2, <2>1, <3>1 DEF Behind
    <3> QED
      BY <1>1, <1>6, <3>3, <3>4 DEF Passed
  <2>5. Searched'
    <3>1. \A b \in Blocks : Passed(b)' /\ FitsNow(b)' => Judged(b)'
      BY <1>1, <1>3, <2>2, <2>3, <2>4 DEF Judged, FitsNow, SizeAt
    <3>2. best # NULL => /\ policy \in {"BF", "jongmun_BF"}
                         /\ best \in Blocks /\ Fits(mem, best, asize)
      BY DEF IInv, Searched, FitsNow
    <3> QED
      BY <1>1, <1>3, <1>6, <2>2, <2>3, <3>1, <3>2 DEF Searched, FitsNow
  <2>6. SearchComplete'
    BY <2>2 DEF SearchComplete
  <2> QED
    BY <1>1, <2>2, <2>5, <2>6, SearchKeeps
<1> QED
  BY <1>4, <1>5, <1>6 DEF Scan

LEMMA WrapKeeps ==
    ASSUME IInv, Wrap
    PROVE  IInv' /\ RoverKept
<1>1. /\ ClientInv /\ pc = "wrap" /\ HeapReady
      /\ UNCHANGED <<owned, reqsize, call, ptr, mem_brk, mem_max_addr, policy>>
  BY DEF Wrap, HeapReady, IInv
<1>2. /\ heap_listp = 8 /\ mem_brk \in Nat /\ mem_brk >= 16
      /\ \A b \in Blocks : b \in Nat /\ b < mem_brk
  BY <1>1, ListFacts
<1>3. /\ bp \in Blocks \cup {8, mem_brk} /\ bp \in Nat /\ policy \in Searching
      /\ rover \in Blocks \cup {8} /\ rover \in Nat
  <2>1. bp \in Blocks \cup {8, mem_brk} /\ policy \in Searching /\ rover \in Blocks \cup {8}
    BY <1>1, <1>2 DEF IInv, Searched, RoverOnBlock
  <2> QED
    BY <1>2, <2>1
<1>4. CASE bp < rover /\ Look
  <2>1. bp \in Blocks \cup {8}
    BY <1>2, <1>3, <1>4
  <2> QED
    BY <1>1, <1>4, <2>1, LookKeeps
<1>5. CASE ~(bp < rover) /\ Finish
  BY <1>1, <1>5, Exhausted, FinishKeeps DEF Ended
<1> QED
  BY <1>4, <1>5 DEF Wrap

(***************************************************************************)
(* The calls and the returns                                               *)
(***************************************************************************)
LEMMA mm_freeKeeps ==
    ASSUME IInv, NEW id \in Ids, mm_free(id)
    PROVE  IInv' /\ RoverKept
<1>1. PICK f : /\ f = MarkFree(mem, owned[id]) /\ mem' = Coalesce(f, owned[id])
               /\ RoverAt(CoalescedBp(f, owned[id]))
  BY DEF mm_free, FreeIn
<1> DEFINE b == CoalescedBp(f, owned[id])
<1>2. ClientInv' /\ b \in Blocks' /\ b \in Nat
  BY <1>1, FreeStep DEF mm_free, IInv
<1> HIDE DEF b
<1>3. RoverKept /\ rover' \in Nat
  BY <1>1, <1>2, RoverAtBlock DEF IInv, b
<1> QED
  BY <1>2, <1>3, Elsewhere DEF mm_free, PCs, IInv, Searched

\* The search starts where nothing has been looked at, or loses its way.
LEMMA SearchStarts ==
    ASSUME IInv, pc = "idle", Searches, ClientInv', Blocks' = Blocks,
           UNCHANGED <<mem_brk, rover, policy, best>>
    PROVE  IInv' /\ RoverKept
<1>1. ClientInv /\ HeapReady /\ best = NULL /\ RoverKept /\ rover \in Nat /\ best' = NULL
  BY RoverStill DEF IInv, HeapReady, Searched
<1>2. heap_listp = 8 /\ heap_listp' = heap_listp /\ \A b \in Blocks : b \in Nat /\ b >= 16
  BY <1>1, ListFacts DEF heap_listp
<1>3. CASE pc' = "lost"
  BY <1>1, <1>3, Elsewhere DEF PCs
<1>4. CASE /\ pc' = "scan"
           /\ IF policy \in Searching THEN RoverOnBlock /\ bp' = rover ELSE bp' = heap_listp
  <2>1. bp' \in Blocks \cup {heap_listp} /\ (policy \in Searching => RoverOnBlock')
    BY <1>2, <1>4 DEF RoverOnBlock
  <2>2. \A b \in Blocks : ~Passed(b)'
    <3>1. SUFFICES ASSUME NEW b \in Blocks, Behind(b)'
                   PROVE  policy \in Searching /\ ~FromRover(b)'
      BY <1>4 DEF Passed
    <3>2. b \in Nat /\ b >= 16 /\ IF StepsFirst' THEN b <= bp' ELSE b < bp'
      BY <1>2, <3>1 DEF Behind
    <3>3. policy \in Searching /\ bp' = rover
      <4>1. policy \notin Searching => ~StepsFirst'
        BY DEF StepsFirst, Searching
      <4> QED
        BY <1>2, <1>4, <3>2, <4>1
    <3>4. policy = "NF+WF" => ~StepsFirst'
      BY DEF StepsFirst
    <3> QED
      BY <1>1, <3>2, <3>3, <3>4 DEF FromRover
  <2>3. Searched'
    BY <1>1, <1>2, <1>4, <2>1, <2>2 DEF Searched
  <2> QED
    BY <1>1, <1>4, <2>3 DEF IInv, PCs, SearchComplete, CopyFits
<1> QED
  BY <1>3, <1>4 DEF Searches

\* What a call knows that begins to search.
LEMMA SearchesFacts ==
    ASSUME ClientInv, pc = "idle", Searches, rover \in Nat
    PROVE  pc' \in {"scan", "lost"} /\ bp' \in Nat /\ UNCHANGED <<mem, ret>>
  BY DEF Searches, heap_listp, mem_start_brk, WSIZE, ClientInv, ClientTypeOK

LEMMA mm_mallocKeeps ==
    ASSUME IInv, NEW id \in Ids, NEW size \in Sizes, mm_malloc(id, size)
    PROVE  IInv' /\ RoverKept
<1>1. /\ ClientInv /\ rover \in Nat /\ pc = "idle" /\ CallStarts(id, size, NULL)
      /\ UNCHANGED <<reqsize, ptr, rover, policy, best, mem_brk, mem_max_addr>>
  BY DEF mm_malloc, CallStarts, IInv
<1>2. CASE pc' = "return" /\ UNCHANGED <<mem, bp, ret>>
  <2>1. bp' \in Nat
    BY <1>1, <1>2 DEF ClientInv, ClientTypeOK
  <2>2. ClientInv' /\ Blocks' = Blocks
    BY <1>1, <1>2, <2>1, MallocStep
  <2> QED
    BY <1>1, <1>2, <2>2, Elsewhere, RoverStill DEF IInv, Searched, PCs
<1>3. CASE Searches
  <2>1. pc' \in {"scan", "lost"} /\ bp' \in Nat /\ UNCHANGED <<mem, ret>>
    BY <1>1, <1>3, SearchesFacts
  <2>2. ClientInv' /\ Blocks' = Blocks
    BY <1>1, <2>1, MallocStep
  <2> QED
    BY <1>1, <1>3, <2>2, SearchStarts
<1> QED
  BY <1>2, <1>3 DEF mm_malloc

\* mm_realloc asks for another block, or refuses size 0.
LEMMA ReallocSearchKeeps ==
    ASSUME IInv, NEW id \in Ids, NEW size \in Sizes, owned[id] # NULL,
           CallStarts(id, size, owned[id]), ptr' = owned[id],
           \/ pc' = "return" /\ UNCHANGED <<mem, bp, ret>>
           \/ Searches,
           UNCHANGED <<reqsize, rover, policy, best, mem_brk, mem_max_addr>>
    PROVE  IInv' /\ RoverKept
<1>1. ClientInv /\ rover \in Nat /\ pc = "idle"
  BY DEF CallStarts, IInv
<1>2. CASE pc' = "return" /\ UNCHANGED <<mem, bp, ret>>
  <2>1. bp' \in Nat
    BY <1>1, <1>2 DEF ClientInv, ClientTypeOK
  <2>2. ClientInv' /\ Blocks' = Blocks
    BY <1>1, <1>2, <2>1, ReallocStep
  <2> QED
    BY <1>1, <1>2, <2>2, Elsewhere, RoverStill DEF IInv, Searched, PCs
<1>3. CASE Searches
  <2>1. pc' \in {"scan", "lost"} /\ bp' \in Nat /\ UNCHANGED <<mem, ret>>
    BY <1>1, <1>3, SearchesFacts
  <2>2. ClientInv' /\ Blocks' = Blocks
    BY <1>1, <2>1, ReallocStep
  <2> QED
    BY <1>1, <1>3, <2>2, SearchStarts
<1> QED
  BY <1>2, <1>3

\* The tests of mm_realloc are about the macros of this module.
LEMMA InPlaceFacts ==
    ASSUME NEW p, NEW size
    PROVE  /\ Sanglim!Keeps(p, size) => size + DSIZE <= GET_SIZE(mem, HDRP(p))
           /\ Sanglim!Absorbs(p, size) =>
                /\ GET_ALLOC(mem, HDRP(NEXT_BLKP(mem, p))) = 0
                /\ size + DSIZE <= Sanglim!Merged(p)
           /\ Sanglim!Merged(p) = GET_SIZE(mem, HDRP(p)) + GET_SIZE(mem, HDRP(NEXT_BLKP(mem, p)))
  BY DEF Sanglim!Keeps, Sanglim!Absorbs, Sanglim!Merged, Sanglim!NewSize, Sanglim!DSIZE,
         Sanglim!GET_SIZE, Sanglim!GET_ALLOC, Sanglim!HDRP, Sanglim!NEXT_BLKP, Sanglim!WSIZE,
         DSIZE, GET_SIZE, GET_ALLOC, HDRP, NEXT_BLKP, WSIZE

\* The one way to lose the rover.
RoverTaken ==
    pc = "idle" /\ pc' = "return" /\ rover = NEXT_BLKP(mem, ret') /\ rover' = rover

LEMMA ReallocInPlaceKeeps ==
    ASSUME IInv, NEW id \in Ids, NEW size \in Sizes, ReallocInPlace(id, size)
    PROVE  IInv' /\ (RoverKept \/ RoverTaken)
<1> DEFINE p == owned[id]
           next == NEXT_BLKP(mem, p)
<1>1. /\ pc = "idle" /\ p # NULL /\ CallStarts(id, size, p)
      /\ UNCHANGED <<reqsize, rover, policy, best, mem_brk, mem_max_addr>>
  BY DEF ReallocInPlace, CallStarts
<1>2. /\ ClientInv /\ HeapReady /\ rover \in Nat /\ best = NULL
      /\ Heap(mem, mem_brk, Live) /\ p \in Live /\ size \in Nat
  <2>1. ClientInv /\ HeapReady /\ rover \in Nat /\ best = NULL
    BY <1>1 DEF IInv, HeapReady, Searched
  <2> QED
    BY <1>1, <2>1, HeapFacts, ClientAssumption DEF Live
<1>3. /\ Blocks = BlocksOf(mem, mem_brk, Live) /\ Live \in SUBSET Blocks
      /\ \A b \in Blocks : GET_SIZE(mem, HDRP(b)) \in Nat
  BY <1>2, BlockFacts DEF Blocks
<1>4. CASE Sanglim!Keeps(p, size) /\ pc' = "return" /\ ret' = p /\ UNCHANGED <<mem, bp, ptr>>
  <2>1. GET_SIZE(mem, HDRP(p)) >= size + DSIZE
    BY <1>2, <1>3, <1>4, InPlaceFacts DEF DSIZE
  <2>2. ClientInv' /\ Live' = Live
    BY <1>1, <1>2, <1>4, <2>1, KeptStep
  <2>3. Blocks' = Blocks
    BY <1>1, <1>4, <2>2 DEF Blocks
  <2> QED
    BY <1>1, <1>2, <1>4, <2>2, <2>3, Elsewhere, RoverStill DEF PCs
<1>5. CASE /\ Sanglim!Absorbs(p, size) /\ pc' = "return" /\ ret' = p
           /\ mem' = Mark(mem, p, Sanglim!Merged(p), 1) /\ UNCHANGED <<bp, ptr>>
  <2>1. /\ GET_ALLOC(mem, HDRP(next)) = 0
        /\ size + DSIZE <= Sanglim!Merged(p)
        /\ Sanglim!Merged(p) = GET_SIZE(mem, HDRP(p)) + GET_SIZE(mem, HDRP(next))
    BY <1>5, InPlaceFacts
  <2>2. /\ Heap(mem', mem_brk, Live)
        /\ BlocksOf(mem', mem_brk, Live) = Blocks \ {next}
        /\ GET_SIZE(mem', HDRP(p)) = Sanglim!Merged(p) /\ Sanglim!Merged(p) \in Nat
        /\ \A q \in Live \ {p} : GET_SIZE(mem', HDRP(q)) = GET_SIZE(mem, HDRP(q))
    BY <1>2, <1>3, <1>5, <2>1, AbsorbStep
  <2>3. GET_SIZE(mem', HDRP(p)) >= size + DSIZE
    BY <1>2, <2>1, <2>2 DEF DSIZE
  <2>4. ClientInv' /\ Live' = Live
    BY <1>1, <1>2, <1>5, <2>2, <2>3, KeptStep
  <2>5. Blocks' = Blocks \ {next} /\ heap_listp' = heap_listp
    BY <1>1, <2>2, <2>4 DEF Blocks, heap_listp
  <2>6. RoverKept \/ RoverTaken
    BY <1>1, <1>5, <2>5 DEF RoverKept, RoverTaken, RoverOnBlock
  <2> QED
    BY <1>1, <1>2, <1>5, <2>4, <2>6, Elsewhere DEF PCs
<1>6. CASE Searches /\ ptr' = p
  BY <1>1, <1>6, ReallocSearchKeeps
<1> QED
  BY <1>4, <1>5, <1>6 DEF ReallocInPlace

\* What the copy of sanglim's mm_realloc leaves, from SanglimMm's own proofs.
LEMMA SanglimCopies ==
    ASSUME ClientInv, NEW n \in Nat, NEW forward
    PROVE  /\ OnlyWrites(mem, Sanglim!Copied(mem, n, forward), ret, n)
           /\ \A k \in Nat :
                k < n /\ ret + k \in W /\ ptr + k \in W /\ (ret > ptr => k < ret - ptr) =>
                   Sanglim!Copied(mem, n, forward)[ret + k] = mem[ptr + k]
<1>1. mem \in [W -> Nat] /\ ret \in Nat /\ ptr \in Nat
  BY DEF ClientInv, MemTypeOK, ClientTypeOK, W
<1>2. SanglimProofs!W = W
  BY DEF SanglimProofs!W, SanglimProofs!WordAddr, W, WordAddr
<1>3. SanglimProofs!Copied(mem, n, forward) = Sanglim!Copied(mem, n, forward)
  BY DEF SanglimProofs!Copied, Sanglim!Copied
<1>4. OnlyWrites(mem, Sanglim!Copied(mem, n, forward), ret, n)
  BY <1>1, <1>2, <1>3, SanglimProofs!CopiedOK, MemlibAssumption, ClientAssumption
     DEF OnlyWrites, SanglimProofs!OnlyWrites, SanglimProofs!WSIZE, WSIZE,
         SanglimProofs!DSIZE, DSIZE
<1>5. ASSUME NEW k \in Nat, k < n, ret + k \in W, ptr + k \in W, ret > ptr => k < ret - ptr
      PROVE  Sanglim!Copied(mem, n, forward)[ret + k] = mem[ptr + k]
  BY <1>1, <1>2, <1>3, <1>5, SanglimProofs!CopiedWord, MemlibAssumption, ClientAssumption
     DEF SanglimProofs!WSIZE, WSIZE, SanglimProofs!DSIZE, DSIZE
<1> QED
  BY <1>4, <1>5

\* Either copy stays inside the new block, and keeps what the client had.
Copies(m, n) ==
    /\ n \in Nat /\ n + 8 <= GET_SIZE(mem, HDRP(ret))
    /\ OnlyWrites(mem, m, ret, n)
    /\ PrefixKept(m, ptr, ret, reqsize[call.id], call.size)

LEMMA CopyFound ==
    ASSUME IInv, Copy
    PROVE  \E m, n : Copies(m, n) /\ FreeIn(m, ptr)
<1>1. ClientInv /\ pc = "copy"
  BY DEF Copy, IInv
<1>2. CASE policy \in Copying /\ FreeIn(memcpy(mem, ret, ptr, CopySize), ptr)
  <2>1. Copies(memcpy(mem, ret, ptr, CopySize), CopySize)
    BY <1>1, CopyInside, memcpyPrefix DEF Copies, CopySize
  <2> QED
    BY <1>2, <2>1
<1>3. CASE /\ policy \notin Copying
           /\ \E forward \in BOOLEAN :
                FreeIn(Sanglim!Copied(mem, Sanglim!NewSize(call.size), forward), ptr)
  <2> DEFINE n == Sanglim!NewSize(call.size)
  <2>1. PICK forward \in BOOLEAN : FreeIn(Sanglim!Copied(mem, n, forward), ptr)
    BY <1>3
  <2> DEFINE m == Sanglim!Copied(mem, n, forward)
  <2>2. call.size \in Nat /\ n = call.size + 8
    BY <1>1, CallType DEF Sanglim!NewSize, Sanglim!DSIZE
  <2>3. n \in Nat /\ n + 8 <= GET_SIZE(mem, HDRP(ret))
    <3>1. GET_SIZE(mem, HDRP(ret)) >= n + 8 /\ GET_SIZE(mem, HDRP(ret)) \in Nat
      BY <1>1, <1>3, CopyFacts DEF IInv, CopyFits, DSIZE
    <3> QED
      BY <2>2, <3>1
  <2> HIDE DEF n
  <2>4. /\ OnlyWrites(mem, m, ret, n)
        /\ \A k \in Nat :
             k < n /\ ret + k \in W /\ ptr + k \in W /\ (ret > ptr => k < ret - ptr) =>
                m[ret + k] = mem[ptr + k]
    BY <1>1, <2>3, SanglimCopies
  <2> HIDE DEF m
  <2>5. PrefixKept(m, ptr, ret, reqsize[call.id], call.size)
    BY <1>1, <2>2, <2>4, PrefixBefore
  <2>6. Copies(m, n)
    BY <2>3, <2>4, <2>5 DEF Copies
  <2> QED
    BY <2>1, <2>6 DEF m
<1> QED
  BY <1>2, <1>3 DEF Copy

LEMMA CopyKeeps ==
    ASSUME IInv, Copy
    PROVE  IInv' /\ RoverKept
<1>1. /\ ClientInv /\ pc = "copy" /\ ptr' = NULL /\ pc' = "return" /\ best = NULL
      /\ UNCHANGED <<owned, reqsize, call, bp, ret, mem_brk, mem_max_addr, policy, best>>
  BY DEF Copy, IInv, Searched
<1>2. PICK m, n : Copies(m, n) /\ FreeIn(m, ptr)
  BY CopyFound
<1>3. PICK f : /\ f = MarkFree(m, ptr) /\ mem' = Coalesce(f, ptr)
               /\ RoverAt(CoalescedBp(f, ptr))
  BY <1>2 DEF FreeIn
<1> DEFINE b == CoalescedBp(f, ptr)
<1>4. ClientInv' /\ b \in Blocks' /\ b \in Nat
  BY <1>1, <1>2, <1>3, CopyStep DEF Copies
<1> HIDE DEF b
<1>5. RoverKept /\ rover' \in Nat
  BY <1>3, <1>4, RoverAtBlock DEF IInv, b
<1> QED
  BY <1>1, <1>4, <1>5, Elsewhere DEF PCs

LEMMA mm_initKeeps ==
    ASSUME IInv, mm_init
    PROVE  IInv' /\ (HeapReady => RoverKept)
<1> DEFINE brk == mem_brk + 4 * WSIZE
           size == ExtendBytes(CHUNKSIZE \div WSIZE)
           n == NewBlock(EmptyHeap(mem, mem_brk), brk, size)
<1>1. /\ ClientInv /\ pc = "init" /\ rover \in Nat /\ best = NULL /\ ~HeapReady
      /\ UNCHANGED <<owned, reqsize, call, bp, ptr, ret, mem_max_addr, policy, best>>
  BY DEF mm_init, IInv, Searched, HeapReady
<1>2. CASE /\ pc' = "failed" /\ UNCHANGED rover
           /\ \/ UNCHANGED <<mem, mem_brk>>
              \/ /\ ~SbrkFails(mem_brk, 4 * WSIZE)
                 /\ mem' = EmptyHeap(mem, mem_brk) /\ mem_brk' = brk
  <2>1. ClientInv'
    BY <1>1, <1>2, InitFailsStep
  <2> QED
    BY <1>1, <1>2, <2>1, Elsewhere DEF PCs
<1>3. CASE /\ ~SbrkFails(brk, size) /\ mem' = Coalesce(n, brk) /\ mem_brk' = brk + size
           /\ RoverAt(heap_listp) /\ pc' = "idle"
  <2>1. ClientInv'
    BY <1>1, <1>3, InitStep
  <2>2. rover' \in Nat
    BY <1>1, <1>3 DEF RoverAt, heap_listp, mem_start_brk, WSIZE
  <2> QED
    BY <1>1, <1>3, <2>1, <2>2, Elsewhere DEF PCs
<1> QED
  <2> HIDE DEF size
  <2> QED
    BY <1>2, <1>3 DEF mm_init, size

LEMMA ReturnKeeps ==
    ASSUME IInv, Return, UNCHANGED <<rover, policy, best>>
    PROVE  IInv' /\ RoverKept
<1>1. /\ ClientInv' /\ Blocks' = Blocks /\ pc = "return" /\ pc' = "idle"
      /\ rover \in Nat /\ best = NULL
  BY ReturnStep DEF IInv, Return, Returns, Searched
<1> QED
  BY <1>1, Elsewhere, RoverStill DEF PCs

LEMMA StutterKeeps ==
    ASSUME IInv, UNCHANGED vars
    PROVE  IInv' /\ RoverKept
<1>1. UNCHANGED <<memVars, clientVars, policy, rover, best>>
  BY DEF vars
<1>2. ClientInv' /\ Blocks' = Blocks
  BY <1>1, StutterStep DEF IInv
<1>3. UNCHANGED <<mem, mem_brk, pc, call, bp, ptr, ret, policy, rover, best>>
  BY <1>1 DEF memVars, clientVars
<1>4. /\ asize' = asize /\ heap_listp' = heap_listp /\ RoverOnBlock' = RoverOnBlock
      /\ RoverKept
      /\ \A b : /\ FitsNow(b)' = FitsNow(b) /\ Passed(b)' = Passed(b)
                /\ Judged(b)' = Judged(b)
  BY <1>2, <1>3, RoverStill
     DEF asize, heap_listp, Sanglim!NewSize, RoverOnBlock, FitsNow, Passed, Judged, SizeAt,
         Behind, FromRover, StepsFirst
<1> QED
  BY <1>2, <1>3, <1>4
     DEF IInv, Searched, SearchComplete, CopyFits, FitsNow, Sanglim!NewSize, Sanglim!DSIZE

(***************************************************************************)
(* The invariant and its theorems                                          *)
(***************************************************************************)
LEMMA InitIInv ==
    ASSUME Init
    PROVE  IInv
<1>1. ClientInv /\ pc = "init" /\ rover = 0 /\ best = NULL /\ policy \in Policies
  BY InitialState DEF Init, ClientInit, NULL
<1> QED
  BY <1>1 DEF IInv, Searched, SearchComplete, CopyFits, PCs

\* Every step keeps the invariant, and the rover at the blocks, but for the one
\* that takes its block.
LEMMA NextKeeps ==
    ASSUME IInv, [Next]_vars
    PROVE  IInv' /\ (HeapReady => RoverKept \/ RoverTaken)
<1>1. CASE mm_init
  BY <1>1, mm_initKeeps
<1>2. CASE Scan
  BY <1>2, ScanKeeps
<1>3. CASE Wrap
  BY <1>3, WrapKeeps
<1>4. CASE Extend
  BY <1>4, ExtendKeeps
<1>5. CASE Copy
  BY <1>5, CopyKeeps
<1>6. CASE Stopped \/ UNCHANGED vars
  BY <1>6, StutterKeeps DEF Stopped
<1>7. CASE \E id \in Ids : mm_free(id)
  BY <1>7, mm_freeKeeps
<1>8. CASE \E id \in Ids, size \in Sizes : mm_malloc(id, size)
  BY <1>8, mm_mallocKeeps
<1>9. CASE \E id \in Ids, size \in Sizes : ReallocByCopy(id, size)
  <2>1. PICK id \in Ids, size \in Sizes : ReallocByCopy(id, size)
    BY <1>9
  <2> QED
    BY <2>1, ReallocSearchKeeps DEF ReallocByCopy
<1>10. CASE \E id \in Ids, size \in Sizes : ReallocInPlace(id, size)
  BY <1>10, ReallocInPlaceKeeps
<1>11. CASE Return /\ UNCHANGED <<rover, policy, best>>
  BY <1>11, ReturnKeeps
<1> QED
  BY <1>1, <1>2, <1>3, <1>4, <1>5, <1>6, <1>7, <1>8, <1>9, <1>10, <1>11 DEF Next

\* The inductive invariant holds in every reachable state, of the seven policies.
THEOREM PolicyInvariant == Spec => []IInv
<1>1. Init => IInv
  BY InitIInv
<1>2. IInv /\ [Next]_vars => IInv'
  BY NextKeeps
<1> QED
  BY <1>1, <1>2, PTL DEF Spec

\* Every call leaves a heap of well formed, coalesced blocks, allocated exactly
\* where the client owns one, whichever block find_fit chooses.
THEOREM PolicyHeapOK == Spec => []HeapOK
<1>1. IInv => HeapOK
  BY DEF IInv, ClientInv
<1> QED
  BY <1>1, PolicyInvariant, PTL

\* The payloads in use are aligned, inside the heap and disjoint.
THEOREM PolicyPayloadsDisjoint == Spec => []PayloadsDisjoint
<1>1. IInv => PayloadsDisjoint
  BY BlocksHoldPayloads DEF IInv
<1> QED
  BY <1>1, PolicyInvariant, PTL

\* Each of the loops of find_fit looks at every block before the heap is grown,
\* but for best fit's, which misses the rover's; worst fit refuses what it sees.
THEOREM PolicySearchComplete == Spec => []SearchComplete
<1>1. IInv => SearchComplete
  BY DEF IInv
<1> QED
  BY <1>1, PolicyInvariant, PTL

\* Only mm_realloc, growing a block over the free block the rover is at, takes
\* the rover off the block boundaries.
THEOREM PolicyRoverLost == Spec => RoverLostOnlyInPlace
<1>1. IInv /\ [Next]_vars =>
          (HeapReady /\ HeapReady' /\ policy \in Roving /\ RoverOnBlock /\ ~RoverOnBlock' =>
             /\ pc = "idle" /\ pc' = "return"
             /\ rover = NEXT_BLKP(mem, ret') /\ rover' = rover)
  BY NextKeeps DEF RoverKept, RoverTaken
<1> QED
  BY <1>1, PolicyInvariant, PTL DEF Spec, RoverLostOnlyInPlace

(***************************************************************************)
(* Which block is chosen                                                   *)
(***************************************************************************)
RightChoice(c) ==
    /\ policy \notin {"WF", "NF+WF"}
    /\ c \in Blocks /\ FitsNow(c)
    /\ \A b \in Blocks \ {c} : FitsNow(b) => Prefers(c, b)

\* A loop that stops at a block: those before it in the round do not fit, or it
\* is a perfect fit.
LEMMA StopsRight ==
    ASSUME IInv, pc \in {"scan", "wrap"}, bp \in Blocks \cup {8},
           pc = "wrap" => bp < rover, Stops(Looked)
    PROVE  RightChoice(Looked)
<1> DEFINE c == Looked
           next == NEXT_BLKP(mem, bp)
<1>1. ClientInv /\ HeapReady /\ policy \in Policies /\ rover \in Nat
  BY DEF IInv, HeapReady
<1>2. FitsNow(c) /\ c \in Blocks
  BY <1>1, LookFacts DEF Stops
<1>3. \A b \in Blocks : b \in Nat /\ SizeAt(b) \in Nat /\ ~(SizeAt(b) > MinusOne)
  BY <1>1, ListFacts
<1>4. /\ bp \in Nat /\ next \in Nat /\ bp < next
      /\ \A b \in Blocks : bp < b => next <= b
  BY <1>1, NextFacts
<1>5. /\ \A b \in Blocks : Passed(b) /\ FitsNow(b) => Judged(b)
      /\ policy \in Searching => rover \in Blocks \cup {8}
      /\ pc = "scan" /\ policy \in Searching => bp >= rover
      /\ pc = "wrap" => policy \in Searching
  BY <1>1, ListFacts DEF IInv, Searched, RoverOnBlock
<1> HIDE DEF c, next
<1>6. policy \notin {"WF", "NF+WF"}
  BY <1>2, <1>3 DEF Stops, c
<1>7. ASSUME NEW b \in Blocks \ {c}, FitsNow(b)
      PROVE  Prefers(c, b)
  <2>1. b \in Nat /\ c \in Nat /\ b # c /\ b \in Blocks
    BY <1>2, <1>3
  <2>2. CASE policy \in {"FF", "jongmun_FF"}
    <3>1. ~Passed(b)
      BY <1>5, <1>7, <2>1, <2>2 DEF Judged, Copying
    <3>2. ~StepsFirst /\ policy \notin Searching
      BY <2>2 DEF StepsFirst, Searching
    <3>3. b >= bp /\ c = bp
      BY <1>4, <2>1, <3>1, <3>2 DEF Passed, Behind, Looked, c
    <3>4. c < b
      BY <2>1, <3>3
    <3> QED
      BY <2>2, <3>4 DEF Prefers
  <2>3. CASE policy = "BF"
    <3>1. SizeAt(c) = asize
      BY <2>3 DEF Stops, c
    <3>2. SizeAt(b) >= asize
      BY <1>7 DEF FitsNow, Fits, SizeAt
    <3>3. SizeAt(c) <= SizeAt(b)
      BY <1>2, <1>3, <2>1, <3>1, <3>2
    <3> QED
      BY <2>3, <3>3 DEF Prefers
  <2>4. CASE policy = "jongmun_NF"
    <3>1. ~Passed(b)
      BY <1>5, <1>7, <2>1, <2>4 DEF Judged, Copying
    <3>2. StepsFirst /\ policy \in Searching /\ c = next
      BY <2>4 DEF StepsFirst, Searching, Looked, c, next
    <3>3. RoundBefore(c, b)
      <4>1. CASE pc = "scan"
        <5>1. ~(b > rover) \/ ~(b <= bp)
          BY <2>4, <3>1, <3>2, <4>1 DEF Passed, Behind, FromRover
        <5>2. bp >= rover
          BY <1>5, <3>2, <4>1
        <5>3. c > rover /\ (b > rover => c < b)
          BY <1>1, <1>4, <2>1, <3>2, <5>1, <5>2
        <5> QED
          BY <5>3 DEF RoundBefore
      <4>2. CASE pc = "wrap"
        <5>1. ~(b > rover) /\ ~(b <= bp)
          BY <2>4, <3>1, <3>2, <4>2 DEF Passed, Behind, FromRover
        <5>2. c < b
          BY <1>4, <2>1, <3>2, <5>1
        <5>3. ~(c > rover)
          BY <1>1, <2>1, <5>1, <5>2
        <5> QED
          BY <5>1, <5>2, <5>3 DEF RoundBefore
      <4> QED
        BY <4>1, <4>2
    <3> QED
      BY <2>4, <3>3 DEF Prefers
  <2>5. CASE policy = "jongmun_BF"
    BY <2>5 DEF Stops, c
  <2> QED
    BY <1>1, <1>6, <2>2, <2>3, <2>4, <2>5 DEF Policies
<1> QED
  BY <1>2, <1>7, <1>6 DEF RightChoice, c

\* The end of best fit's search: it remembers a smallest of those it looked at.
LEMMA FinishRight ==
    ASSUME IInv, pc \in {"scan", "wrap"}, best # NULL,
           \A b \in Blocks : Passed(b) \/ (policy = "BF" /\ b = rover)
    PROVE  RightChoice(best)
<1>1. /\ policy \in {"BF", "jongmun_BF"} /\ best \in Blocks /\ FitsNow(best)
      /\ \A b \in Blocks : Passed(b) /\ FitsNow(b) => Judged(b)
  BY DEF IInv, Searched
<1>2. ASSUME NEW b \in Blocks, FitsNow(b)
      PROVE  (policy = "BF" /\ b = rover) \/ SizeAt(best) <= SizeAt(b)
  BY <1>1, <1>2 DEF Judged, Copying
<1> QED
  BY <1>1, <1>2 DEF RightChoice, Prefers

LEMMA ChoiceKept ==
    ASSUME IInv, Scan \/ Wrap, pc' \in {"return", "copy"}
    PROVE  RightChoice(ret')
<1>1. /\ pc \in {"scan", "wrap"} /\ heap_listp = 8
      /\ bp \in Blocks \cup {8, mem_brk}
      /\ SizeAt(mem_brk) = 0
      /\ \A b \in Blocks : b < mem_brk /\ b \in Nat
      /\ mem_brk \in Nat /\ mem_brk >= 16
      /\ pc = "wrap" => rover \in Blocks \cup {8}
  <2>1. pc \in {"scan", "wrap"} /\ ClientInv /\ HeapReady
    BY DEF Scan, Wrap, IInv, HeapReady
  <2> QED
    BY <2>1, ListFacts DEF IInv, Searched, RoverOnBlock
<1>2. CASE Stops(Looked) /\ ret' = Looked /\ (pc = "scan" => SizeAt(bp) > 0)
           /\ (pc = "wrap" => bp < rover)
  <2>1. bp \in Blocks \cup {8}
    BY <1>1, <1>2
  <2> QED
    BY <1>1, <1>2, <2>1, StopsRight
<1>3. CASE best # NULL /\ ret' = best /\ Ended
  BY <1>1, <1>3, Exhausted, FinishRight
<1>4. CASE Scan
  <2>1. CASE SizeAt(bp) > 0 /\ Look
    BY <1>1, <1>2, <1>4, <2>1 DEF Scan, Look, GoesOn, Allocated
  <2>2. CASE SizeAt(bp) = 0 /\ policy \notin Searching /\ Finish
    BY <1>1, <1>3, <1>4, <2>2 DEF Scan, Finish, GoesOn, Allocated, Ended
  <2> QED
    BY <1>4, <2>1, <2>2 DEF Scan, GoesOn
<1>5. CASE Wrap
  <2>1. CASE bp < rover /\ Look
    BY <1>1, <1>2, <1>5, <2>1 DEF Wrap, Look, GoesOn, Allocated
  <2>2. CASE ~(bp < rover) /\ Finish
    BY <1>1, <1>3, <1>5, <2>2 DEF Wrap, Finish, GoesOn, Allocated, Ended
  <2> QED
    BY <1>5, <2>1, <2>2 DEF Wrap
<1> QED
  BY <1>4, <1>5

LEMMA OnlySearchesEnd ==
    ASSUME [Next]_vars, pc \in {"scan", "wrap"}, pc' # pc
    PROVE  Scan \/ Wrap
<1>1. UNCHANGED vars => pc' = pc
  BY DEF vars, clientVars
<1> QED
  BY <1>1 DEF Next, mm_init, Extend, Copy, Stopped, mm_free, mm_malloc, ReallocByCopy,
              ReallocInPlace, CallStarts, Return, Returns

\* Each policy takes the block that its name promises: of the blocks that fit the
\* first, a smallest or the next one round the heap from the rover, whichever of
\* its two loops finds it and whatever it has remembered on the way; worst fit never
\* takes one.
THEOREM PolicyChoice == Spec => PolicyKept
<1>1. ASSUME IInv, [Next]_vars, pc \in {"scan", "wrap"}, pc' \in {"return", "copy"}
      PROVE  RightChoice(ret')
  BY <1>1, ChoiceKept, OnlySearchesEnd
<1>2. IInv /\ [Next]_vars =>
          ((pc \in {"scan", "wrap"} /\ pc' \in {"return", "copy"}) =>
             /\ policy \notin {"WF", "NF+WF"}
             /\ ret' \in Blocks /\ FitsNow(ret')
             /\ \A b \in Blocks \ {ret'} : FitsNow(b) => Prefers(ret', b))
  BY <1>1 DEF RightChoice
<1> QED
  BY <1>2, PolicyInvariant, PTL DEF Spec, PolicyKept

(***************************************************************************)
(* The refinement                                                          *)
(***************************************************************************)
LEMMA SearchImplements ==
    ASSUME IInv, IInv', Scan \/ Wrap
    PROVE  ContractStep
<1>1. /\ ClientInv /\ ClientInv' /\ BlockSize(asize) /\ InSearch /\ HeapReady
      /\ pc \in {"scan", "wrap"} /\ Heap(mem, mem_brk, Live)
      /\ UNCHANGED <<owned, reqsize, call, ptr, mem_brk, mem_max_addr>>
  BY CallSize, HeapFacts DEF IInv, Scan, Wrap, InSearch, HeapReady
<1>2. CASE \E b : Allocated(mem, b)
  <2>1. PICK b : Allocated(mem, b)
    BY <1>2
  <2>2. ret' = b /\ pc' = (IF ptr = NULL THEN "return" ELSE "copy") /\ mem' = place(mem, b)
    BY <2>1 DEF Allocated
  <2>3. b \in Blocks /\ FitsNow(b)
    BY <2>2, ChoiceKept DEF RightChoice
  <2>4. place(mem, b) = Place(mem, b, asize)
    BY <1>1, <2>3, PlaceSame DEF FitsNow, Blocks
  <2> QED
    BY <1>1, <2>2, <2>3, <2>4, FoundContract DEF FitsNow
<1>3. CASE \E next, b : next \in {"scan", "wrap", "extend"} /\ GoesOn(next, b)
  BY <1>1, <1>3, SearchContract DEF GoesOn, HeapReady
<1> QED
  BY <1>1, <1>2, <1>3 DEF Scan, Wrap, Look, Finish

LEMMA ExtendImplements ==
    ASSUME IInv, IInv', Extend
    PROVE  ContractStep
<1> DEFINE size == ExtendBytes(MAX(asize, CHUNKSIZE) \div WSIZE)
           n == NewBlock(mem, mem_brk, size)
           c == Coalesce(n, mem_brk)
           b == CoalescedBp(n, mem_brk)
<1>1. /\ ClientInv /\ ClientInv' /\ BlockSize(asize) /\ pc = "extend" /\ InSearch /\ HeapReady
      /\ UNCHANGED <<owned, reqsize, call, ptr, mem_max_addr>>
  BY CallSize DEF Extend, InSearch, HeapReady, IInv
<1>2. CASE pc' = "return" /\ UNCHANGED <<mem, ret>>
  BY <1>1, <1>2, SearchContract DEF HeapReady
<1>3. CASE ~SbrkFails(mem_brk, size) /\ Allocated(c, b)
  <2>1. Heap(c, mem_brk + size, Live) /\ b \in BlocksOf(c, mem_brk + size, Live)
        /\ Fits(c, b, asize)
    BY <1>1, <1>3, GrownHeap
  <2>2. place(c, b) = Place(c, b, asize)
    <3> HIDE DEF b, c, size
    <3> QED
      BY <1>1, <2>1, PlaceSame
  <2>3. /\ mem' = Place(Coalesce(n, mem_brk), b, asize) /\ ret' = b
        /\ pc' = IF ptr = NULL THEN "return" ELSE "copy"
    BY <1>3, <2>2 DEF Allocated
  <2> QED
    BY <1>1, <1>3, <2>3, ExtendContract
<1> QED
  <2> HIDE DEF size
  <2> QED
    BY <1>2, <1>3 DEF Extend, size

LEMMA CopyImplements ==
    ASSUME IInv, IInv', Copy
    PROVE  ContractStep
<1>1. /\ ClientInv /\ ClientInv' /\ pc = "copy" /\ ptr' = NULL /\ pc' = "return"
      /\ UNCHANGED <<owned, reqsize, call, ret>>
  BY DEF Copy, IInv
<1>2. PICK m, n : Copies(m, n) /\ FreeIn(m, ptr)
  BY CopyFound
<1>3. PICK f : f = MarkFree(m, ptr) /\ mem' = Coalesce(f, ptr)
  BY <1>2 DEF FreeIn
<1> QED
  BY <1>1, <1>2, <1>3, CopyContract DEF Copies

LEMMA FreeImplements ==
    ASSUME IInv, NEW id \in Ids, mm_free(id)
    PROVE  ContractStep
<1>1. PICK f : f = MarkFree(mem, owned[id]) /\ mem' = Coalesce(f, owned[id])
  BY DEF mm_free, FreeIn
<1>2. \A i \in Ids : /\ owned'[i] = IF i = id THEN NULL ELSE owned[i]
                     /\ i # id => reqsize'[i] = reqsize[i]
  BY DEF mm_free, IInv, ClientInv, ClientTypeOK
<1> QED
  BY <1>1, <1>2, FreeContract DEF mm_free, IInv

\* mm_malloc and the ways of mm_realloc that ask it for a block.
LEMMA CallImplements ==
    ASSUME IInv, NEW id \in Ids, NEW size \in Sizes,
           \/ pc' = "return" /\ UNCHANGED <<mem, ret>>
           \/ Searches,
           UNCHANGED reqsize,
           \/ CallStarts(id, size, NULL) /\ UNCHANGED ptr
           \/ owned[id] # NULL /\ CallStarts(id, size, owned[id]) /\ ptr' = owned[id]
    PROVE  ContractStep
<1>1. pc' \in {"scan", "lost", "return"} /\ UNCHANGED <<mem, ret>> /\ ClientInv
  BY SearchesFacts DEF IInv, CallStarts
<1> QED
  BY <1>1, MallocContract, ReallocContract

LEMMA ReallocInPlaceImplements ==
    ASSUME IInv, IInv', NEW id \in Ids, NEW size \in Sizes, ReallocInPlace(id, size)
    PROVE  ContractStep
<1> DEFINE p == owned[id]
<1>1. /\ ClientInv /\ ClientInv' /\ p # NULL /\ CallStarts(id, size, p)
      /\ UNCHANGED reqsize /\ size \in Nat
  BY ClientAssumption DEF IInv, ReallocInPlace
<1>2. CASE pc' = "return" /\ ret' = p /\ UNCHANGED <<mem, ptr>>
  <2>1. Preserves(W, mem, mem', Live \ {p}) /\ PrefixKept(mem', p, p, reqsize[id], size)
    BY <1>2, PreservesItself DEF PrefixKept
  <2> QED
    BY <1>1, <1>2, <2>1, KeptContract
<1>3. CASE /\ Sanglim!Absorbs(p, size) /\ pc' = "return" /\ ret' = p /\ UNCHANGED ptr
           /\ mem' = Mark(mem, p, Sanglim!Merged(p), 1)
  BY <1>1, <1>3, InPlaceFacts, AbsorbContract
<1>4. CASE Searches /\ ptr' = p
  BY <1>1, <1>4, CallImplements
<1> QED
  BY <1>2, <1>3, <1>4 DEF ReallocInPlace

LEMMA NextContract ==
    ASSUME IInv, IInv', [Next]_vars
    PROVE  ContractStep
<1>1. ClientInv
  BY DEF IInv
<1>2. CASE mm_init
  BY <1>1, <1>2, InitContract DEF mm_init
<1>3. CASE Scan \/ Wrap
  BY <1>3, SearchImplements
<1>4. CASE Extend
  BY <1>4, ExtendImplements
<1>5. CASE Copy
  BY <1>5, CopyImplements
<1>6. CASE Stopped \/ UNCHANGED vars
  BY <1>6, StutterContract DEF Stopped, vars
<1>7. CASE \E id \in Ids : mm_free(id)
  BY <1>7, FreeImplements
<1>8. CASE \E id \in Ids, size \in Sizes : mm_malloc(id, size)
  <2>1. PICK id \in Ids, size \in Sizes : mm_malloc(id, size)
    BY <1>8
  <2> QED
    BY <2>1, CallImplements DEF mm_malloc
<1>9. CASE \E id \in Ids, size \in Sizes : ReallocByCopy(id, size)
  <2>1. PICK id \in Ids, size \in Sizes : ReallocByCopy(id, size)
    BY <1>9
  <2> QED
    BY <2>1, CallImplements DEF ReallocByCopy
<1>10. CASE \E id \in Ids, size \in Sizes : ReallocInPlace(id, size)
  BY <1>10, ReallocInPlaceImplements
<1>11. CASE Return
  BY <1>1, <1>11, ReturnContract
<1> QED
  BY <1>2, <1>3, <1>4, <1>5, <1>6, <1>7, <1>8, <1>9, <1>10, <1>11 DEF Next

\* All seven implement the contract of malloc, free and realloc, whatever block
\* they choose and whichever way mm_realloc takes, until a search starts from a
\* rover that is at no block.
THEOREM PolicyImplementsContract == Spec => ImplementsContract
<1>1. Init => Contract!Init
  BY ContractInit DEF Init
<1>2. IInv /\ IInv' /\ [Next]_vars => [Contract!Next]_(Contract!vars)
  BY NextContract DEF ContractStep
<1> QED
  BY <1>1, <1>2, PolicyInvariant, PTL DEF Spec, ImplementsContract, Contract!Spec
=============================================================================
