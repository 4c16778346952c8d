--------------------------- MODULE SanglimMmProofs --------------------------
(***************************************************************************)
(* The inductive invariant of SanglimMm under CarefulSpec, where the       *)
(* client never makes mm_realloc absorb the block NF_pointer is at, and    *)
(* the safety theorems: that one case is all that goes wrong with the      *)
(* rover.  What the steps common to the allocators do is in                *)
(* MmClientProofs; here are NF_pointer, the two searches, and the three    *)
(* ways of mm_realloc.                                                     *)
(***************************************************************************)
EXTENDS SanglimMm, MmClientProofs

\* What the searches have looked at: the first loop everything from NF_pointer
\* to before bp, the second also everything before bp.
Searched ==
    /\ pc = "scan" =>
         /\ bp \in Blocks \cup {heap_listp, mem_brk}
         /\ bp >= NF_pointer
         /\ \A b \in Blocks : NF_pointer <= b /\ b < bp => ~Fits(mem, b, asize)
    /\ pc = "wrap" =>
         /\ bp \in Blocks \cup {heap_listp}
         /\ bp <= NF_pointer
         /\ \A b \in Blocks : b >= NF_pointer \/ b < bp => ~Fits(mem, b, asize)

\* The new block of mm_realloc holds the size + DSIZE bytes that it copies.
CopyFits == pc = "copy" => GET_SIZE(mem, HDRP(ret)) >= NewSize(call.size) + DSIZE

IInv ==
    /\ ClientInv
    /\ pc \in PCs \ {"crashed"}
    /\ NF_pointer \in Nat
    /\ RoverOnBlock
    /\ Searched
    /\ SearchComplete
    /\ CopyFits

LEMMA AdjustedOK ==
    ASSUME NEW s \in Nat
    PROVE  BlockSize(get_adjusted_size(s)) /\ get_adjusted_size(s) >= s + 8
  BY DEF get_adjusted_size, DSIZE, BlockSize

LEMMA CallSize ==
    ASSUME ClientInv
    PROVE  /\ BlockSize(asize) /\ asize \in Nat /\ asize >= call.size + 8
           /\ ptr # NULL => asize >= call.size + 16
<1>1. call.size \in Nat /\ NewSize(call.size) = call.size + 8
  BY CallType DEF NewSize, DSIZE
<1>2. CASE ptr = NULL
  <2>1. asize = get_adjusted_size(call.size)
    BY <1>2 DEF asize
  <2> QED
    BY <1>1, <1>2, <2>1, AdjustedOK DEF BlockSize
<1>3. CASE ptr # NULL
  <2> DEFINE s == call.size + 8
  <2>1. s \in Nat /\ asize = get_adjusted_size(s) /\ s = call.size + 8
    BY <1>1, <1>3 DEF asize
  <2> HIDE DEF s
  <2>2. BlockSize(asize) /\ asize >= s + 8
    BY <2>1, AdjustedOK
  <2> QED
    BY <1>1, <2>1, <2>2 DEF BlockSize
<1> QED
  BY <1>2, <1>3

\* After a step that leaves the search, only the rover is left to check.
LEMMA Elsewhere ==
    ASSUME ClientInv', pc' \in PCs \ {"scan", "wrap", "extend", "copy", "crashed"},
           NF_pointer' \in Nat, RoverOnBlock'
    PROVE  IInv'
  BY DEF IInv, Searched, SearchComplete, CopyFits

(***************************************************************************)
(* The steps of the search                                                 *)
(***************************************************************************)
LEMMA SearchKeeps ==
    ASSUME IInv, pc \in {"scan", "wrap"}, pc' \in {"scan", "wrap", "extend"}, bp' \in Nat,
           UNCHANGED <<owned, reqsize, call, ptr, ret, mem, mem_brk, mem_max_addr, NF_pointer>>,
           Searched', SearchComplete'
    PROVE  IInv'
<1>1. ClientInv' /\ Blocks' = Blocks
  BY SearchStep DEF IInv, InSearch
<1>2. heap_listp' = heap_listp
  BY DEF heap_listp
<1> QED
  BY <1>1, <1>2 DEF IInv, RoverOnBlock, HeapReady, PCs, CopyFits

\* A block has been placed: what Allocated leaves.
LEMMA PlacedKeeps ==
    ASSUME ClientInv, ClientInv', NEW b \in Blocks', b \in Nat,
           GET_SIZE(mem', HDRP(b)) \in Nat, GET_SIZE(mem', HDRP(b)) >= asize,
           ret' = b, NF_pointer' = b, UNCHANGED <<call, ptr>>,
           pc' = IF ptr = NULL THEN "return" ELSE "copy"
    PROVE  IInv'
<1>1. CopyFits'
  <2>1. SUFFICES ASSUME pc' = "copy"
                 PROVE  GET_SIZE(mem', HDRP(ret')) >= NewSize(call.size) + DSIZE
    BY DEF CopyFits, NewSize
  <2>2. asize >= call.size + 16 /\ call.size \in Nat /\ asize \in Nat
    BY <2>1, CallSize, CallType
  <2> QED
    BY <2>2 DEF NewSize, DSIZE
<1> QED
  BY <1>1 DEF IInv, RoverOnBlock, PCs, Searched, SearchComplete

LEMMA FoundKeeps ==
    ASSUME IInv, pc \in {"scan", "wrap"}, NEW b \in Blocks, Fits(mem, b, asize),
           Allocated(mem, b),
           UNCHANGED <<owned, reqsize, call, ptr, mem_brk, mem_max_addr>>
    PROVE  IInv'
<1>1. BlockSize(asize) /\ asize >= call.size + 8
  BY CallSize DEF IInv
<1>2. /\ mem' = Place(mem, b, asize) /\ ret' = b /\ bp' = NULL
      /\ pc' = IF ptr = NULL THEN "return" ELSE "copy"
      /\ NF_pointer' = b
  BY DEF Allocated
<1>3. /\ ClientInv' /\ b \in Blocks' /\ b \in Nat
      /\ GET_SIZE(mem', HDRP(b)) \in Nat /\ GET_SIZE(mem', HDRP(b)) >= asize
  BY <1>1, <1>2, FoundStep DEF IInv, InSearch
<1> QED
  BY <1>2, <1>3, PlacedKeeps DEF IInv

\* The heap as the searches see it: the prologue before the blocks, the
\* epilogue after them.
LEMMA ListFacts ==
    ASSUME IInv, HeapReady
    PROVE  /\ ClientInv /\ NF_pointer \in Blocks \cup {8} /\ NF_pointer \in Nat
           /\ NF_pointer < mem_brk
           /\ Blocks \in SUBSET Nat /\ mem_brk \in Nat /\ 16 \in Blocks
           /\ \A b \in Blocks :
                /\ b \in Nat /\ b >= 16 /\ b < mem_brk
                /\ GET_SIZE(mem, HDRP(b)) > 0 /\ GET_SIZE(mem, HDRP(b)) \in Nat
                /\ NEXT_BLKP(mem, b) \in Blocks \cup {mem_brk}
                /\ b < NEXT_BLKP(mem, b)
           /\ \A b, c \in Blocks : b < c => NEXT_BLKP(mem, b) <= c
           /\ GET_SIZE(mem, HDRP(mem_brk)) = 0 /\ heap_listp = 8
           /\ GET_SIZE(mem, HDRP(8)) = 8 /\ NEXT_BLKP(mem, 8) = 16
           /\ \A a : ~Fits(mem, 8, a)
<1>1. heap_listp = 8
  BY DEF heap_listp, mem_start_brk, WSIZE
<1>2. ClientInv /\ NF_pointer \in Blocks \cup {8} /\ NF_pointer \in Nat
  BY <1>1 DEF IInv, RoverOnBlock
<1>3. \A a : ~Fits(mem, 8, a)
  BY <1>2, BlockFacts DEF Fits
<1> QED
  BY <1>1, <1>2, <1>3, BlockFacts

LEMMA ScanKeeps ==
    ASSUME IInv, Scan
    PROVE  IInv'
<1>1. /\ ClientInv /\ pc = "scan" /\ HeapReady
      /\ UNCHANGED <<owned, reqsize, call, ptr, mem_brk, mem_max_addr>>
  BY DEF Scan, HeapReady, IInv
<1>2. /\ bp \in Blocks \cup {8, mem_brk} /\ bp >= NF_pointer /\ bp \in Nat
      /\ \A b \in Blocks : NF_pointer <= b /\ b < bp => ~Fits(mem, b, asize)
  <2>1. bp \in Blocks \cup {8, mem_brk} /\ bp >= NF_pointer
        /\ \A b \in Blocks : NF_pointer <= b /\ b < bp => ~Fits(mem, b, asize)
    BY <1>1, ListFacts DEF IInv, Searched
  <2> QED
    BY <1>1, <2>1, ListFacts
<1>3. /\ Blocks \in SUBSET Nat /\ mem_brk \in Nat /\ heap_listp = 8
      /\ NF_pointer \in Nat /\ NF_pointer \in Blocks \cup {8}
      /\ \A b \in Blocks : b \in Nat /\ b >= 16 /\ b < mem_brk
                           /\ GET_SIZE(mem, HDRP(b)) > 0
      /\ GET_SIZE(mem, HDRP(mem_brk)) = 0 /\ GET_SIZE(mem, HDRP(8)) = 8
      /\ \A a : ~Fits(mem, 8, a)
  BY <1>1, ListFacts
<1>4. CASE GET_SIZE(mem, HDRP(bp)) = 0 /\ Searching("wrap", heap_listp)
  <2>1. bp = mem_brk
    BY <1>2, <1>3, <1>4
  <2>2. /\ pc' = "wrap" /\ bp' = 8 /\ UNCHANGED <<mem, NF_pointer, ret>>
    BY <1>3, <1>4 DEF Searching
  <2>3. Blocks' = Blocks /\ asize' = asize /\ heap_listp' = 8
    BY <1>1, <1>3, <2>2 DEF Blocks, Live, BlocksOf, asize, heap_listp, NewSize
  <2>4. /\ \A b \in Blocks : b >= NF_pointer \/ b < 8 => ~Fits(mem, b, asize)
        /\ 8 <= NF_pointer
    BY <1>2, <1>3, <2>1
  <2>5. Searched' /\ SearchComplete'
    BY <2>2, <2>3, <2>4 DEF Searched, SearchComplete
  <2> QED
    BY <1>1, <2>2, <2>5, SearchKeeps
<1>5. CASE GET_SIZE(mem, HDRP(bp)) > 0 /\ Fits(mem, bp, asize) /\ Allocated(mem, bp)
  <2>1. bp \in Blocks
    BY <1>2, <1>3, <1>5
  <2> QED
    BY <1>1, <1>5, <2>1, FoundKeeps
<1>6. CASE /\ GET_SIZE(mem, HDRP(bp)) > 0 /\ ~Fits(mem, bp, asize)
           /\ Searching(pc, NEXT_BLKP(mem, bp))
  <2> DEFINE next == NEXT_BLKP(mem, bp)
  <2>1. /\ pc' = "scan" /\ bp' = next /\ UNCHANGED <<mem, NF_pointer, ret>>
    BY <1>1, <1>6 DEF Searching
  <2>2. Blocks' = Blocks /\ asize' = asize
    BY <1>1, <2>1 DEF Blocks, Live, BlocksOf, asize, NewSize
  <2>3. bp \in Blocks \cup {8}
    BY <1>2, <1>3, <1>6
  <2>4. /\ next \in Blocks \cup {mem_brk} /\ next \in Nat /\ bp < next
        /\ \A c \in Blocks : c < next => c < bp \/ c = bp
    BY <1>1, <2>3, NextFacts
  <2> HIDE DEF next
  <2>5. \A b \in Blocks : NF_pointer <= b /\ b < next => ~Fits(mem, b, asize)
    BY <1>2, <1>6, <2>4
  <2>6. next >= NF_pointer
    BY <1>2, <1>3, <2>4
  <2>7. Searched' /\ SearchComplete'
    BY <1>1, <2>1, <2>2, <2>4, <2>5, <2>6 DEF Searched, SearchComplete
  <2> QED
    BY <1>1, <2>1, <2>4, <2>7, SearchKeeps
<1> QED
  BY <1>4, <1>5, <1>6 DEF Scan, Examine

LEMMA WrapKeeps ==
    ASSUME IInv, Wrap
    PROVE  IInv'
<1>1. /\ ClientInv /\ pc = "wrap" /\ HeapReady
      /\ UNCHANGED <<owned, reqsize, call, ptr, mem_brk, mem_max_addr>>
  BY DEF Wrap, HeapReady, IInv
<1>2. /\ Blocks \in SUBSET Nat /\ heap_listp = 8
      /\ NF_pointer \in Nat /\ NF_pointer \in Blocks \cup {8}
      /\ \A a : ~Fits(mem, 8, a)
  BY <1>1, ListFacts
<1>3. /\ bp \in Blocks \cup {8} /\ bp <= NF_pointer /\ bp \in Nat
      /\ \A b \in Blocks : b >= NF_pointer \/ b < bp => ~Fits(mem, b, asize)
  <2>1. /\ bp \in Blocks \cup {heap_listp} /\ bp <= NF_pointer
        /\ \A b \in Blocks : b >= NF_pointer \/ b < bp => ~Fits(mem, b, asize)
    BY <1>1 DEF IInv, Searched
  <2> QED
    BY <1>2, <2>1
<1>4. CASE ~WrapGoesOn /\ Searching("extend", NULL)
  <2>1. bp = NF_pointer
    BY <1>2, <1>3, <1>4 DEF WrapGoesOn
  <2>2. /\ pc' = "extend" /\ bp' = 0 /\ UNCHANGED <<mem, NF_pointer, ret>>
    BY <1>4 DEF Searching, NULL
  <2>3. Blocks' = Blocks /\ asize' = asize
    BY <1>1, <2>2 DEF Blocks, Live, BlocksOf, asize, NewSize
  <2>4. \A b \in Blocks : ~Fits(mem, b, asize)
    BY <1>2, <1>3, <2>1
  <2>5. Searched' /\ SearchComplete'
    BY <2>2, <2>3, <2>4 DEF Searched, SearchComplete
  <2> QED
    BY <1>1, <2>2, <2>5, SearchKeeps
<1>5. CASE Fits(mem, bp, asize) /\ Allocated(mem, bp)
  <2>1. bp \in Blocks
    BY <1>2, <1>3, <1>5
  <2> QED
    BY <1>1, <1>5, <2>1, FoundKeeps
<1>6. CASE WrapGoesOn /\ ~Fits(mem, bp, asize) /\ Searching(pc, NEXT_BLKP(mem, bp))
  <2> DEFINE next == NEXT_BLKP(mem, bp)
  <2>1. /\ pc' = "wrap" /\ bp' = next /\ UNCHANGED <<mem, NF_pointer, ret>>
    BY <1>1, <1>6 DEF Searching
  <2>2. Blocks' = Blocks /\ asize' = asize
    BY <1>1, <2>1 DEF Blocks, Live, BlocksOf, asize, NewSize
  <2>3. /\ next \in Blocks \cup {mem_brk} /\ next \in Nat /\ bp < next
        /\ \A c \in Blocks : c < next => c < bp \/ c = bp
        /\ \A c \in Blocks : bp < c => next <= c
    BY <1>1, <1>3, NextFacts
  <2> HIDE DEF next
  <2>4. bp < NF_pointer
    BY <1>6 DEF WrapGoesOn
  <2>5. NF_pointer \in Blocks /\ NF_pointer < mem_brk /\ mem_brk \in Nat
    <3>1. NF_pointer < mem_brk /\ mem_brk \in Nat /\ \A b \in Blocks : b \in Nat /\ b >= 16
      BY <1>1, ListFacts
    <3> QED
      BY <1>2, <1>3, <2>4, <3>1
  <2>6. next <= NF_pointer
    BY <2>3, <2>4, <2>5
  <2>7. next \in Blocks
    BY <1>2, <2>3, <2>5, <2>6
  <2>8. \A b \in Blocks : b >= NF_pointer \/ b < next => ~Fits(mem, b, asize)
    BY <1>3, <1>6, <2>3
  <2>9. Searched' /\ SearchComplete'
    BY <1>1, <2>1, <2>2, <2>6, <2>7, <2>8 DEF Searched, SearchComplete
  <2> QED
    BY <1>1, <2>1, <2>3, <2>9, SearchKeeps
<1> QED
  BY <1>4, <1>5, <1>6 DEF Wrap, Examine
LEMMA ExtendKeeps ==
    ASSUME IInv, Extend
    PROVE  IInv'
<1> DEFINE size == ExtendBytes(MAX(asize, CHUNKSIZE) \div WSIZE)
           n == NewBlock(mem, mem_brk, size)
           b == CoalescedBp(n, mem_brk)
<1>1. /\ ClientInv /\ pc = "extend" /\ InSearch
      /\ UNCHANGED <<owned, reqsize, call, ptr, mem_max_addr>>
  BY DEF Extend, InSearch, IInv
<1>2. BlockSize(asize) /\ asize >= call.size + 8
  BY CallSize DEF IInv
<1>3. CASE pc' = "return" /\ UNCHANGED <<mem, mem_brk, NF_pointer, bp, ret>>
  <2>1. bp' \in Nat
    BY <1>1, <1>3 DEF ClientInv, ClientTypeOK
  <2>2. ClientInv' /\ Blocks' = Blocks
    BY <1>1, <1>3, <2>1, SearchStep
  <2>3. heap_listp' = heap_listp
    BY DEF heap_listp
  <2> QED
    BY <1>1, <1>3, <2>2, <2>3, Elsewhere DEF IInv, RoverOnBlock, HeapReady, PCs
<1>4. CASE /\ ~SbrkFails(mem_brk, size) /\ mem_brk' = mem_brk + size
           /\ Allocated(Coalesce(n, mem_brk), b)
  <2>1. /\ mem' = Place(Coalesce(n, mem_brk), b, asize)
        /\ ret' = b /\ bp' = NULL /\ NF_pointer' = b
        /\ pc' = IF ptr = NULL THEN "return" ELSE "copy"
    BY <1>4 DEF Allocated
  <2>2. /\ ClientInv' /\ b \in Blocks' /\ b \in Nat
        /\ GET_SIZE(mem', HDRP(b)) \in Nat /\ GET_SIZE(mem', HDRP(b)) >= asize
    BY <1>1, <1>2, <1>4, <2>1, ExtendStep
  <2> HIDE DEF b
  <2> QED
    BY <1>1, <2>1, <2>2, PlacedKeeps
<1> QED
  <2> HIDE DEF size
  <2> QED
    BY <1>3, <1>4 DEF Extend, size

(***************************************************************************)
(* The calls and the returns                                               *)
(***************************************************************************)
LEMMA mm_freeKeeps ==
    ASSUME IInv, NEW id \in Ids, mm_free(id)
    PROVE  IInv'
<1>1. PICK f : /\ f = MarkFree(mem, owned[id]) /\ mem' = Coalesce(f, owned[id])
               /\ NF_pointer' = CoalescedBp(f, owned[id])
  BY DEF mm_free, FreeIn
<1>2. ClientInv' /\ NF_pointer' \in Blocks' /\ NF_pointer' \in Nat
  BY <1>1, FreeStep DEF mm_free, IInv
<1> QED
  BY <1>2, Elsewhere DEF mm_free, RoverOnBlock, PCs

\* The search starts at the rover: nothing is before it.
LEMMA SearchStarts ==
    ASSUME IInv, HeapReady, Blocks' = Blocks, ClientInv',
           UNCHANGED <<mem, mem_brk, NF_pointer>>,
           pc' = "scan", bp' = NF_pointer
    PROVE  IInv'
<1>1. heap_listp' = heap_listp
  BY DEF heap_listp
<1>2. /\ bp' \in Blocks \cup {heap_listp} /\ NF_pointer \in Nat
      /\ \A b \in Blocks : b \in Nat
  BY ListFacts DEF IInv, RoverOnBlock
<1>3. \A b \in Blocks : ~(NF_pointer <= b /\ b < NF_pointer)
  BY <1>2
<1>4. Searched'
  BY <1>1, <1>2, <1>3 DEF Searched
<1> QED
  BY <1>1, <1>2, <1>4 DEF IInv, RoverOnBlock, HeapReady, SearchComplete, CopyFits, PCs

LEMMA mm_mallocKeeps ==
    ASSUME IInv, NEW id \in Ids, NEW size \in Sizes, mm_malloc(id, size)
    PROVE  IInv'
<1>1. /\ pc = "idle" /\ CallStarts(id, size, NULL)
      /\ UNCHANGED <<reqsize, ptr, ret, NF_pointer, mem, mem_brk, mem_max_addr>>
  BY DEF mm_malloc, CallStarts, memVars
<1>2. ClientInv /\ HeapReady /\ NF_pointer \in Blocks \cup {heap_listp} /\ NF_pointer \in Nat
  BY <1>1 DEF IInv, HeapReady, RoverOnBlock
<1>3. CASE pc' = "return" /\ bp' = NULL
  <2>1. ClientInv' /\ Blocks' = Blocks
    BY <1>1, <1>2, <1>3, MallocStep DEF NULL
  <2>2. heap_listp' = heap_listp
    BY DEF heap_listp
  <2> QED
    BY <1>1, <1>2, <1>3, <2>1, <2>2, Elsewhere DEF RoverOnBlock, PCs
<1>4. CASE pc' = "scan" /\ bp' = NF_pointer
  <2>1. ClientInv' /\ Blocks' = Blocks
    BY <1>1, <1>2, <1>4, MallocStep
  <2> QED
    BY <1>1, <1>2, <1>4, <2>1, SearchStarts
<1> QED
  BY <1>3, <1>4 DEF mm_malloc

\* mm_realloc returns the block it was given, which is large enough now: all
\* the blocks are where they were but the one it may have absorbed.
LEMMA ReturnsOld ==
    ASSUME IInv, NEW id \in Ids, NEW size \in Sizes,
           owned[id] # NULL, CallStarts(id, size, owned[id]),
           ret' = owned[id], pc' = "return",
           Heap(mem', mem_brk, Live),
           \A q \in Live \ {owned[id]} : GET_SIZE(mem', HDRP(q)) = GET_SIZE(mem, HDRP(q)),
           GET_SIZE(mem', HDRP(owned[id])) >= NewSize(size),
           NF_pointer \in BlocksOf(mem', mem_brk, Live) \cup {heap_listp},
           UNCHANGED <<reqsize, bp, ptr, mem_brk, mem_max_addr, NF_pointer>>
    PROVE  IInv'
<1>1. ClientInv' /\ Live' = Live /\ NF_pointer \in Nat
  BY KeptStep DEF IInv, NewSize
<1>2. heap_listp' = heap_listp
  BY DEF heap_listp
<1>3. RoverOnBlock'
  BY <1>1, <1>2 DEF RoverOnBlock, Blocks
<1> QED
  BY <1>1, <1>3, Elsewhere DEF PCs

LEMMA mm_reallocKeeps ==
    ASSUME IInv, NEW id \in Ids, NEW size \in Sizes,
           ~AbsorbsRover(id, size), mm_realloc(id, size)
    PROVE  IInv'
<1> DEFINE p == owned[id]
           next == NEXT_BLKP(mem, p)
<1>1. /\ pc = "idle" /\ p # NULL /\ CallStarts(id, size, p)
      /\ UNCHANGED <<reqsize, mem_brk, mem_max_addr, NF_pointer>>
  BY DEF mm_realloc, CallStarts
<1>2. /\ ClientInv /\ HeapReady /\ NF_pointer \in Blocks \cup {heap_listp}
      /\ NF_pointer \in Nat
      /\ Heap(mem, mem_brk, Live) /\ p \in Live /\ size \in Nat
  <2>1. ClientInv /\ HeapReady /\ NF_pointer \in Blocks \cup {heap_listp}
        /\ NF_pointer \in Nat
    BY <1>1 DEF IInv, HeapReady, RoverOnBlock
  <2> QED
    BY <1>1, <2>1, HeapFacts, ClientAssumption DEF Live
<1>3. /\ Blocks = BlocksOf(mem, mem_brk, Live) /\ Live \in SUBSET Blocks
      /\ \A b \in Blocks : GET_SIZE(mem, HDRP(b)) \in Nat
  BY <1>2, BlockFacts DEF Blocks
<1>4. CASE /\ Keeps(p, size) /\ pc' = "return" /\ ret' = p
           /\ UNCHANGED <<mem, bp, ptr>>
  <2>1. GET_SIZE(mem, HDRP(p)) >= NewSize(size)
    BY <1>2, <1>3, <1>4 DEF Keeps, NewSize, DSIZE
  <2> QED
    BY <1>1, <1>2, <1>3, <1>4, <2>1, ReturnsOld
<1>5. CASE /\ Absorbs(p, size) /\ pc' = "return" /\ ret' = p
           /\ mem' = Mark(mem, p, Merged(p), 1) /\ UNCHANGED <<bp, ptr>>
  <2>1. /\ GET_ALLOC(mem, HDRP(next)) = 0 /\ NewSize(size) <= Merged(p)
        /\ NF_pointer # next
    BY <1>1, <1>5 DEF Absorbs, AbsorbsRover
  <2>2. Merged(p) = GET_SIZE(mem, HDRP(p)) + GET_SIZE(mem, HDRP(next))
    BY DEF Merged
  <2>3. /\ Heap(mem', mem_brk, Live)
        /\ BlocksOf(mem', mem_brk, Live) = Blocks \ {next}
        /\ GET_SIZE(mem', HDRP(p)) = Merged(p) /\ Merged(p) \in Nat
        /\ \A q \in Live \ {p} : GET_SIZE(mem', HDRP(q)) = GET_SIZE(mem, HDRP(q))
    BY <1>2, <1>3, <1>5, <2>1, <2>2, AbsorbStep
  <2>4. GET_SIZE(mem', HDRP(p)) >= NewSize(size)
    BY <1>2, <2>1, <2>3 DEF NewSize, DSIZE
  <2>5. NF_pointer \in BlocksOf(mem', mem_brk, Live) \cup {heap_listp}
    BY <1>2, <2>1, <2>3
  <2> QED
    BY <1>1, <1>5, <2>3, <2>4, <2>5, ReturnsOld
<1>6. CASE pc' = "scan" /\ bp' = NF_pointer /\ ptr' = p /\ UNCHANGED <<mem, ret>>
  <2>1. ClientInv' /\ Blocks' = Blocks
    BY <1>1, <1>2, <1>6, ReallocStep
  <2> QED
    BY <1>1, <1>2, <1>6, <2>1, SearchStarts
<1> QED
  BY <1>4, <1>5, <1>6 DEF mm_realloc
\* memcpy writes to the new block only, whatever it reads.
LEMMA CopiedOK ==
    ASSUME NEW m \in [W -> Nat], NEW n \in Nat, NEW forward, ret \in Nat
    PROVE  OnlyWrites(m, Copied(m, n, forward), ret, n)
<1> DEFINE WordAt(a) == IF a \in DOMAIN m THEN m[a] ELSE 0
           Src(k) == IF forward /\ ret > ptr THEN ptr + (k % (ret - ptr)) ELSE ptr + k
           m2 == Copied(m, n, forward)
<1>1. DOMAIN m = W
  OBVIOUS
<1>2. m2 = [a \in W |-> IF ret <= a /\ a < ret + n THEN WordAt(Src(a - ret)) ELSE m[a]]
  BY <1>1 DEF Copied
<1>3. \A a : WordAt(a) \in Nat
  BY <1>1
<1> HIDE DEF WordAt, Src
<1>4. m2 \in [W -> Nat]
  BY <1>2, <1>3
<1>5. \A a \in W : a \in Nat
  BY DEF W, WordAddr
<1>6. ASSUME NEW a \in W, a < ret \/ a >= ret + n
      PROVE  ~(ret <= a /\ a < ret + n)
  BY <1>5, <1>6
<1> QED
  BY <1>2, <1>4, <1>6 DEF OnlyWrites

LEMMA CopyKeeps ==
    ASSUME IInv, Copy
    PROVE  IInv'
<1> DEFINE n == NewSize(call.size)
<1>1. /\ ClientInv /\ pc = "copy" /\ ptr' = NULL /\ pc' = "return"
      /\ UNCHANGED <<owned, reqsize, call, bp, ret, mem_brk, mem_max_addr>>
  BY DEF Copy, IInv
<1>2. PICK forward \in BOOLEAN : FreeIn(Copied(mem, n, forward), ptr)
  BY DEF Copy
<1> DEFINE m == Copied(mem, n, forward)
<1>3. PICK f : /\ f = MarkFree(m, ptr) /\ mem' = Coalesce(f, ptr)
               /\ NF_pointer' = CoalescedBp(f, ptr)
  BY <1>2 DEF FreeIn
<1>4. n \in Nat /\ n + 8 <= GET_SIZE(mem, HDRP(ret))
  <2>1. call.size \in Nat /\ n = call.size + 8
    BY <1>1, CallType DEF NewSize, DSIZE
  <2>2. GET_SIZE(mem, HDRP(ret)) >= n + 8 /\ GET_SIZE(mem, HDRP(ret)) \in Nat
    BY <1>1, CopyFacts DEF IInv, CopyFits, DSIZE
  <2> QED
    BY <2>1, <2>2
<1>5. OnlyWrites(mem, m, ret, n)
  <2>1. mem \in [W -> Nat] /\ ret \in Nat
    BY <1>1 DEF ClientInv, MemTypeOK, ClientTypeOK, W
  <2> QED
    BY <1>4, <2>1, CopiedOK
<1> HIDE DEF n, m
<1>6. ClientInv' /\ NF_pointer' \in Blocks' /\ NF_pointer' \in Nat
  BY <1>1, <1>3, <1>4, <1>5, CopyStep
<1> QED
  BY <1>1, <1>6, Elsewhere DEF RoverOnBlock, PCs

LEMMA mm_initKeeps ==
    ASSUME IInv, mm_init
    PROVE  IInv'
<1> DEFINE brk == mem_brk + 4 * WSIZE
           size == ExtendBytes(CHUNKSIZE \div WSIZE)
           n == NewBlock(EmptyHeap(mem, mem_brk), brk, size)
<1>1. /\ ClientInv /\ pc = "init" /\ NF_pointer \in Nat
      /\ UNCHANGED <<owned, reqsize, call, bp, ptr, ret, mem_max_addr>>
  BY DEF mm_init, IInv
<1>2. CASE /\ pc' = "failed" /\ UNCHANGED NF_pointer
           /\ \/ UNCHANGED <<mem, mem_brk>>
              \/ /\ ~SbrkFails(mem_brk, 4 * WSIZE)
                 /\ mem' = EmptyHeap(mem, mem_brk) /\ mem_brk' = brk
  <2>1. ClientInv'
    BY <1>1, <1>2, InitFailsStep
  <2> QED
    BY <1>1, <1>2, <2>1, Elsewhere DEF RoverOnBlock, HeapReady, PCs
<1>3. CASE /\ ~SbrkFails(brk, size) /\ mem' = Coalesce(n, brk) /\ mem_brk' = brk + size
           /\ NF_pointer' = heap_listp /\ pc' = "idle"
  <2>1. ClientInv'
    BY <1>1, <1>3, InitStep
  <2>2. heap_listp \in Nat /\ heap_listp' = heap_listp
    BY DEF heap_listp, mem_start_brk, WSIZE
  <2> QED
    BY <1>3, <2>1, <2>2, Elsewhere DEF RoverOnBlock, PCs
<1> QED
  <2> HIDE DEF size
  <2> QED
    BY <1>2, <1>3 DEF mm_init, size

(***************************************************************************)
(* The theorems                                                            *)
(***************************************************************************)
LEMMA InitIInv ==
    ASSUME Init
    PROVE  IInv
<1>1. ClientInv /\ pc = "init" /\ NF_pointer = 0
  BY InitialState DEF Init, ClientInit, NULL
<1> QED
  BY <1>1 DEF IInv, RoverOnBlock, HeapReady, Searched, SearchComplete, CopyFits, PCs

LEMMA ReturnKeeps ==
    ASSUME IInv, Return \/ Returns(mem), UNCHANGED NF_pointer
    PROVE  IInv'
<1>1. ClientInv' /\ Blocks' = Blocks /\ pc = "return" /\ pc' = "idle"
  BY ReturnStep DEF IInv, Return, Returns
<1>2. heap_listp' = heap_listp
  BY DEF heap_listp
<1> QED
  BY <1>1, <1>2, Elsewhere DEF IInv, RoverOnBlock, HeapReady, PCs

LEMMA NewTraceKeeps ==
    ASSUME IInv, NewTrace, UNCHANGED NF_pointer
    PROVE  IInv'
<1>1. ClientInv' /\ pc' = "init"
  BY NewTraceStep DEF IInv
<1> QED
  BY <1>1, Elsewhere DEF IInv, RoverOnBlock, HeapReady, PCs

LEMMA StutterKeeps ==
    ASSUME IInv, UNCHANGED vars
    PROVE  IInv'
<1>1. UNCHANGED <<memVars, clientVars, NF_pointer>>
  BY DEF vars
<1>2. ClientInv' /\ Blocks' = Blocks /\ HeapReady' = HeapReady
  BY <1>1, StutterStep DEF IInv
<1>3. UNCHANGED <<mem, mem_brk, pc, call, bp, ptr, ret>>
  BY <1>1 DEF memVars, clientVars
<1>4. asize' = asize /\ heap_listp' = heap_listp
  BY <1>3 DEF asize, heap_listp, NewSize
<1> QED
  BY <1>1, <1>2, <1>3, <1>4
     DEF IInv, RoverOnBlock, Searched, SearchComplete, CopyFits, NewSize

LEMMA RunKeeps ==
    ASSUME IInv, Run
    PROVE  IInv' /\ PackageStep
<1> DEFINE size == ExtendBytes(MAX(asize, CHUNKSIZE) \div WSIZE)
<1>1. ClientInv /\ mem_brk \in Nat /\ size \in Nat
  BY CallSize, ExtensionOK, BreakGrows DEF IInv, BlockSize
<1> HIDE DEF size
<1>2. CASE mm_init
  BY <1>1, <1>2, BreakGrows, mm_initKeeps DEF mm_init, PackageStep
<1>3. CASE Scan
  BY <1>1, <1>3, ScanKeeps DEF Scan, Examine, Searching, Allocated, PackageStep
<1>4. CASE Wrap
  BY <1>1, <1>4, WrapKeeps DEF Wrap, Examine, Searching, Allocated, PackageStep
<1>5. CASE Extend
  BY <1>1, <1>5, ExtendKeeps DEF Extend, Allocated, PackageStep, size
<1>6. CASE Copy
  BY <1>1, <1>6, CopyKeeps DEF Copy, PackageStep
<1> QED
  BY <1>2, <1>3, <1>4, <1>5, <1>6 DEF Run

LEMMA NextIInv ==
    ASSUME IInv, [CarefulNext]_vars
    PROVE  IInv'
<1>1. CASE Run
  BY <1>1, RunKeeps
<1>2. CASE \E id \in Ids : mm_free(id)
  BY <1>2, mm_freeKeeps
<1>3. CASE \E id \in Ids, size \in Sizes : mm_malloc(id, size)
  BY <1>3, mm_mallocKeeps
<1>4. CASE \E id \in Ids, size \in Sizes : ~AbsorbsRover(id, size) /\ mm_realloc(id, size)
  BY <1>4, mm_reallocKeeps
<1>5. CASE Return /\ UNCHANGED NF_pointer
  BY <1>5, ReturnKeeps
<1>6. CASE NewTrace /\ UNCHANGED NF_pointer
  BY <1>6, NewTraceKeeps
<1>7. CASE UNCHANGED vars
  BY <1>7, StutterKeeps
<1> QED
  BY <1>1, <1>2, <1>3, <1>4, <1>5, <1>6, <1>7 DEF CarefulNext, Calls

\* The inductive invariant holds in every reachable state, as long as
\* mm_realloc never absorbs the block that NF_pointer is at.
THEOREM SanglimInvariant == CarefulSpec => []IInv
<1>1. Init => IInv
  BY InitIInv
<1>2. IInv /\ [CarefulNext]_vars => IInv'
  BY NextIInv
<1> QED
  BY <1>1, <1>2, PTL DEF CarefulSpec

\* Every call leaves a heap of well formed, coalesced blocks, allocated exactly
\* where the client owns one: also a mm_realloc that grows a block in place, and
\* the one that copies more than the old block holds.
THEOREM SanglimHeapOK == CarefulSpec => []HeapOK
<1>1. IInv => HeapOK
  BY DEF IInv, ClientInv
<1> QED
  BY <1>1, SanglimInvariant, PTL

\* The payloads in use are aligned, inside the heap and disjoint.
THEOREM SanglimPayloadsDisjoint == CarefulSpec => []PayloadsDisjoint
<1>1. IInv => PayloadsDisjoint
  BY BlocksHoldPayloads DEF IInv
<1> QED
  BY <1>1, SanglimInvariant, PTL

\* NF_pointer is always at a block or at the prologue: coalesce, place and
\* extend_heap keep it there, and absorbing a block other than its own does.
THEOREM SanglimRoverOnBlock == CarefulSpec => []RoverOnBlock
<1>1. IInv => RoverOnBlock
  BY DEF IInv
<1> QED
  BY <1>1, SanglimInvariant, PTL

\* The heap grows only when no free block is large enough.
THEOREM SanglimSearchComplete == CarefulSpec => []SearchComplete
<1>1. IInv => SearchComplete
  BY DEF IInv
<1> QED
  BY <1>1, SanglimInvariant, PTL

\* find_fit reads headers inside the storage only: Crash, which CarefulNext
\* leaves out, could not be taken.
THEOREM SanglimReadsInside ==
    CarefulSpec => [](pc \in {"scan", "wrap"} => HDRP(bp) \in WordAddr)
<1>1. ASSUME IInv, pc \in {"scan", "wrap"}
      PROVE  HDRP(bp) \in WordAddr
  <2>1. bp \in Blocks \cup {8, mem_brk}
    BY <1>1, ListFacts DEF IInv, Searched, HeapReady
  <2>2. Heap(mem, mem_brk, Live) /\ mem_brk > 16 /\ mem_brk \in Nat
    BY <1>1, HeapFacts, ListFacts DEF IInv, HeapReady
  <2>3. \A b \in Blocks : b \in Nat /\ b % 8 = 0 /\ b >= 16 /\ b < mem_brk
    BY <1>1, BlockFacts DEF IInv, HeapReady
  <2>4. bp \in Nat /\ bp % 8 = 0 /\ bp >= 8 /\ bp <= mem_brk
    BY <2>1, <2>2, <2>3 DEF Heap
  <2> QED
    BY <2>2, <2>4 DEF Heap, Covers, W, HDRP, WSIZE
<1>2. IInv => (pc \in {"scan", "wrap"} => HDRP(bp) \in WordAddr)
  BY <1>1
<1> QED
  BY <1>2, SanglimInvariant, PTL

(***************************************************************************)
(* The refinement                                                          *)
(***************************************************************************)
\* A word that is read before the copy overwrites it is copied as it was.
LEMMA CopiedWord ==
    ASSUME NEW m \in [W -> Nat], NEW n \in Nat, NEW forward, ret \in Nat, ptr \in Nat,
           NEW k \in Nat, k < n, ret + k \in W, ptr + k \in W, ret > ptr => k < ret - ptr
    PROVE  Copied(m, n, forward)[ret + k] = m[ptr + k]
<1> DEFINE a == ret + k
           Source(j) == IF forward /\ ret > ptr THEN ptr + (j % (ret - ptr)) ELSE ptr + j
<1>1. ret <= a /\ a < ret + n /\ a - ret = k
  OBVIOUS
<1>2. Source(k) = ptr + k
  <2>1. CASE ret > ptr
    <3> DEFINE d == ret - ptr
    <3>1. d \in Nat /\ 0 <= k /\ k < d
      BY <2>1
    <3> HIDE DEF d
    <3>2. k % d = k
      BY <3>1
    <3> QED
      BY <3>2 DEF d
  <2>2. CASE ~(ret > ptr)
    BY <2>2
  <2> QED
    BY <2>1, <2>2
<1>3. a \in W /\ DOMAIN m = W
  OBVIOUS
<1> HIDE DEF a, Source
<1>4. Copied(m, n, forward)[a] =
          IF Source(a - ret) \in DOMAIN m THEN m[Source(a - ret)] ELSE 0
  BY <1>1, <1>3 DEF Copied, Source
<1>5. Copied(m, n, forward)[a] = m[ptr + k]
  BY <1>1, <1>2, <1>3, <1>4
<1> QED
  BY <1>5 DEF a

\* Of the size + DSIZE bytes that mm_realloc copies, those that the client had
\* in the old block are the same in the new one, in whichever order they are
\* copied.
LEMMA CopiedPrefix ==
    ASSUME ClientInv, pc = "copy", NEW forward \in BOOLEAN
    PROVE  PrefixKept(Copied(mem, NewSize(call.size), forward), ptr, ret,
                      reqsize[call.id], call.size)
<1> DEFINE n == NewSize(call.size)
           m == Copied(mem, n, forward)
<1>1. n \in Nat /\ n >= call.size
  BY CallType DEF NewSize, DSIZE
<1>2. mem \in [W -> Nat] /\ ret \in Nat /\ ptr \in Nat
  BY DEF ClientInv, MemTypeOK, ClientTypeOK, W
<1> HIDE DEF n
<1>3. ASSUME NEW k \in Nat, k < call.size, ret + k \in W, ptr + k \in W,
             ret > ptr => k < ret - ptr
      PROVE  m[ret + k] = mem[ptr + k]
  <2>1. k < n
    BY <1>1, <1>3, CallType
  <2> QED
    BY <1>1, <1>2, <1>3, <2>1, CopiedWord
<1> HIDE DEF m
<1> QED
  BY <1>3, PrefixBefore DEF n, m

\* mm_realloc keeps the block, grows it in place, or asks mm_malloc for another.
LEMMA ReallocImplements ==
    ASSUME IInv, IInv', NEW id \in Ids, NEW size \in Sizes, mm_realloc(id, size)
    PROVE  ContractStep
<1> DEFINE p == owned[id]
           next == NEXT_BLKP(mem, p)
<1>1. /\ ClientInv /\ ClientInv' /\ pc = "idle" /\ p # NULL /\ CallStarts(id, size, p)
      /\ UNCHANGED reqsize /\ size \in Nat
  BY ClientAssumption DEF IInv, mm_realloc, CallStarts
<1>2. CASE pc' = "return" /\ ret' = p /\ UNCHANGED <<mem, ptr>>
  <2>1. Preserves(W, mem, mem', Live \ {p})
    BY <1>2, PreservesItself
  <2>2. PrefixKept(mem', p, p, reqsize[id], size)
    BY <1>2 DEF PrefixKept
  <2> QED
    BY <1>1, <1>2, <2>1, <2>2, KeptContract
<1>3. CASE /\ Absorbs(p, size) /\ pc' = "return" /\ ret' = p
           /\ mem' = Mark(mem, p, Merged(p), 1) /\ UNCHANGED ptr
  <2>1. /\ GET_ALLOC(mem, HDRP(next)) = 0
        /\ Merged(p) = GET_SIZE(mem, HDRP(p)) + GET_SIZE(mem, HDRP(next))
    BY <1>3 DEF Absorbs, Merged
  <2> QED
    BY <1>1, <1>3, <2>1, AbsorbContract
<1>4. CASE pc' = "scan" /\ ptr' = p /\ UNCHANGED <<mem, ret>>
  BY <1>1, <1>4, ReallocContract
<1> QED
  BY <1>2, <1>3, <1>4 DEF mm_realloc

LEMMA NextContract ==
    ASSUME IInv, IInv', [CarefulNext]_vars
    PROVE  ContractStep
<1>1. ClientInv /\ ClientInv' /\ BlockSize(asize)
  BY CallSize DEF IInv
<1>2. CASE mm_init
  BY <1>1, <1>2, InitContract DEF mm_init
<1>3. CASE Scan \/ Wrap
  <2>1. /\ pc \in {"scan", "wrap"} /\ InSearch /\ HeapReady
        /\ UNCHANGED <<owned, reqsize, call, ptr, mem_brk, mem_max_addr>>
    BY <1>3 DEF Scan, Wrap, InSearch, HeapReady
  <2>2. CASE \E next, b : next \in {"scan", "wrap", "extend"} /\ Searching(next, b)
    BY <1>1, <2>1, <2>2, SearchContract DEF Searching, HeapReady
  <2>3. CASE Fits(mem, bp, asize) /\ Allocated(mem, bp) /\ (pc = "scan" => GET_SIZE(mem, HDRP(bp)) > 0)
    <3>1. bp \in Blocks
      BY <2>1, <2>3, ListFacts DEF IInv, Searched
    <3> QED
      BY <1>1, <2>1, <2>3, <3>1, FoundContract DEF Allocated
  <2> QED
    BY <1>3, <2>1, <2>2, <2>3 DEF Scan, Wrap, Examine
<1>5. CASE Extend
  <2> DEFINE size == ExtendBytes(MAX(asize, CHUNKSIZE) \div WSIZE)
             n == NewBlock(mem, mem_brk, size)
             b == CoalescedBp(n, mem_brk)
  <2>1. /\ pc = "extend" /\ InSearch /\ HeapReady
        /\ UNCHANGED <<owned, reqsize, call, ptr, mem_max_addr>>
    BY <1>5 DEF Extend, InSearch, HeapReady
  <2>2. CASE pc' = "return" /\ UNCHANGED <<mem, ret>>
    BY <1>1, <2>1, <2>2, SearchContract DEF HeapReady
  <2>3. CASE ~SbrkFails(mem_brk, size) /\ Allocated(Coalesce(n, mem_brk), b)
    BY <1>1, <2>1, <2>3, ExtendContract DEF Allocated
  <2> HIDE DEF size
  <2> QED
    BY <1>5, <2>2, <2>3 DEF Extend, size
<1>6. CASE Copy
  <2> DEFINE n == NewSize(call.size)
  <2>1. /\ pc = "copy" /\ ptr' = NULL /\ pc' = "return"
        /\ UNCHANGED <<owned, reqsize, call, ret>>
    BY <1>6 DEF Copy
  <2>2. PICK forward \in BOOLEAN : FreeIn(Copied(mem, n, forward), ptr)
    BY <1>6 DEF Copy
  <2> DEFINE m == Copied(mem, n, forward)
  <2>3. PICK f : f = MarkFree(m, ptr) /\ mem' = Coalesce(f, ptr)
    BY <2>2 DEF FreeIn
  <2>4. n \in Nat /\ n + 8 <= GET_SIZE(mem, HDRP(ret))
    <3>1. call.size \in Nat /\ n = call.size + 8
      BY <1>1, CallType DEF NewSize, DSIZE
    <3>2. GET_SIZE(mem, HDRP(ret)) >= n + 8 /\ GET_SIZE(mem, HDRP(ret)) \in Nat
      BY <1>1, <2>1, CopyFacts DEF IInv, CopyFits, DSIZE
    <3> QED
      BY <3>1, <3>2
  <2>5. OnlyWrites(mem, m, ret, n)
    <3>1. mem \in [W -> Nat] /\ ret \in Nat
      BY <1>1 DEF ClientInv, MemTypeOK, ClientTypeOK, W
    <3> QED
      BY <2>4, <3>1, CopiedOK
  <2>6. PrefixKept(m, ptr, ret, reqsize[call.id], call.size)
    BY <1>1, <2>1, CopiedPrefix
  <2> HIDE DEF n, m
  <2> QED
    BY <1>1, <2>1, <2>3, <2>4, <2>5, <2>6, CopyContract
<1>7. CASE \E id \in Ids : mm_free(id)
  <2>1. PICK id \in Ids : mm_free(id)
    BY <1>7
  <2>2. PICK f : f = MarkFree(mem, owned[id]) /\ mem' = Coalesce(f, owned[id])
    BY <2>1 DEF mm_free, FreeIn
  <2>3. \A i \in Ids : /\ owned'[i] = IF i = id THEN NULL ELSE owned[i]
                       /\ i # id => reqsize'[i] = reqsize[i]
    BY <1>1, <2>1 DEF mm_free, ClientInv, ClientTypeOK
  <2> QED
    BY <1>1, <2>1, <2>2, <2>3, FreeContract DEF mm_free
<1>8. CASE \E id \in Ids, size \in Sizes : mm_malloc(id, size)
  <2>1. PICK id \in Ids, size \in Sizes : mm_malloc(id, size)
    BY <1>8
  <2>2. /\ CallStarts(id, size, NULL) /\ pc' \in {"return", "scan"}
        /\ UNCHANGED <<reqsize, ptr, ret, mem>>
    BY <2>1 DEF mm_malloc, memVars
  <2> QED
    BY <1>1, <2>2, MallocContract
<1>9. CASE \E id \in Ids, size \in Sizes : ~AbsorbsRover(id, size) /\ mm_realloc(id, size)
  BY <1>9, ReallocImplements
<1>10. CASE Return
  BY <1>1, <1>10, ReturnContract
<1>11. CASE NewTrace
  BY <1>11, NewTraceContract
<1>12. CASE UNCHANGED vars
  BY <1>12, StutterContract DEF vars
<1> QED
  BY <1>2, <1>3, <1>5, <1>6, <1>7, <1>8, <1>9, <1>10, <1>11, <1>12 DEF CarefulNext, Calls, Run

\* The allocator implements the contract of malloc, free and realloc, also when
\* mm_realloc grows the block in place or copies more than the old block held,
\* as long as it never absorbs the block NF_pointer is at.
THEOREM SanglimImplementsContract == CarefulSpec => ImplementsContract
<1>1. Init => Contract!Init
  BY ContractInit DEF Init
<1>2. IInv /\ IInv' /\ [CarefulNext]_vars => [Contract!Next]_(Contract!vars)
  BY NextContract DEF ContractStep
<1> QED
  BY <1>1, <1>2, SanglimInvariant, PTL DEF CarefulSpec, ImplementsContract, Contract!Spec

(***************************************************************************)
(* The view                                                                *)
(***************************************************************************)
View == ViewOf(NF_pointer)

\* asize.
Asked(v) == get_adjusted_size(IF v.ptr = NULL THEN v.call.size ELSE NewSize(v.call.size))

Examines(v) ==
    IF Fits(MemOf(v), v.bp, Asked(v)) THEN Finds(v, v.bp, Asked(v))
    ELSE SearchesAt(v, v.pc, NEXT_BLKP(MemOf(v), v.bp))

Runs(v) ==
    CASE v.pc = "init" -> Inits(v, heap_listp)
      [] v.pc = "scan" -> IF GET_SIZE(MemOf(v), HDRP(v.bp)) = 0
                          THEN SearchesAt(v, "wrap", heap_listp)
                          ELSE Examines(v)
      [] v.pc = "wrap" -> IF v.bp < v.rover THEN Examines(v)
                          ELSE SearchesAt(v, "extend", NULL)
      [] v.pc = "extend" -> Grows(v, Asked(v))
      [] v.pc = "copy" -> Frees(v, "return", v.call, v.owned, v.ptr)
      [] OTHER -> v

\* What a request of the client does: mm_malloc, mm_realloc or mm_free.
Mallocs(v, id, size) ==
    IF size = 0 THEN Enters(v, id, size, "return", NULL, NULL, NULL, v.sizes)
    ELSE Enters(v, id, size, "scan", NULL, NULL, v.rover, v.sizes)

Reallocs(v, id, size) ==
    LET m == MemOf(v)
        p == v.owned[id]
        next == NEXT_BLKP(m, p)
        total == GET_SIZE(m, HDRP(p)) + GET_SIZE(m, HDRP(next))
    IN  IF NewSize(size) <= GET_SIZE(m, HDRP(p))
        THEN Enters(v, id, size, "return", NULL, p, NULL, v.sizes)
        ELSE IF GET_ALLOC(m, HDRP(next)) = 0 /\ NewSize(size) <= total
        THEN Enters(v, id, size, "return", NULL, p, NULL, Enlarged(v.sizes, p, total))
        ELSE Enters(v, id, size, "scan", p, NULL, v.rover, v.sizes)

LEMMA FoundSeen ==
    ASSUME IInv, pc \in {"scan", "wrap"}, NEW b \in Blocks, Fits(mem, b, asize), Allocated(mem, b),
           UNCHANGED <<owned, reqsize, call, ptr, mem_brk, mem_max_addr>>
    PROVE  ViewNext(NF_pointer') = Finds(View, b, asize)
<1>1. ClientInv /\ InSearch /\ BlockSize(asize)
  BY CallSize DEF IInv, InSearch
<1>2. /\ mem' = Place(mem, b, asize) /\ ret' = b
      /\ pc' = IF ptr = NULL THEN "return" ELSE "copy"
      /\ NF_pointer' = b /\ mem_brk' = mem_brk
  BY DEF Allocated
<1>3. PICK a : a = asize
  OBVIOUS
<1>4. ViewNext(b) = Finds(View, b, a)
  BY <1>1, <1>2, <1>3, FoundView DEF View
<1> QED
  BY <1>2, <1>3, <1>4

LEMMA SearchSeen ==
    ASSUME IInv, pc \in {"scan", "wrap"}, NEW next \in {"scan", "wrap", "extend"}, NEW b,
           Searching(next, b),
           UNCHANGED <<owned, reqsize, call, ptr, mem_brk, mem_max_addr>>
    PROVE  ViewNext(NF_pointer') = SearchesAt(View, next, b)
<1>1. /\ ClientInv /\ InSearch /\ InSearch' /\ pc' = next /\ bp' = b
      /\ UNCHANGED <<mem, mem_brk, NF_pointer, ret>>
  BY DEF IInv, InSearch, Searching
<1>2. ViewNext(NF_pointer) = SearchesAt(View, pc', bp')
  BY <1>1, SearchView DEF View
<1> QED
  BY <1>1, <1>2

\* What a search reads at its cursor.
LEMMA CursorSeen ==
    ASSUME IInv, pc \in {"scan", "wrap"}, NEW v, v = View
    PROVE  /\ v.pc = pc /\ v.bp = bp /\ v.rover = NF_pointer /\ Asked(v) = asize
           /\ GET_SIZE(mem, HDRP(bp)) = GET_SIZE(MemOf(v), HDRP(bp))
           /\ NEXT_BLKP(mem, bp) = NEXT_BLKP(MemOf(v), bp)
           /\ Fits(mem, bp, asize) <=> Fits(MemOf(v), bp, asize)
<1>1. ClientInv /\ HeapReady /\ InSearch /\ bp \in Blocks \cup {8, mem_brk}
  BY DEF IInv, HeapReady, InSearch, Searched, heap_listp, mem_start_brk, WSIZE
<1>2. /\ v.pc = pc /\ v.call = call /\ v.bp = bp /\ v.ptr = ptr
      /\ v.rover = NF_pointer /\ Alike(mem, MemOf(v), mem_brk, Live)
  BY <1>1, ViewNow DEF View, HeapReady
<1>3. Asked(v) = asize
  BY <1>2 DEF Asked, asize
<1> QED
  BY <1>1, <1>2, <1>3, SameHeaders DEF Blocks

LEMMA ExamineSeen ==
    ASSUME IInv, pc \in {"scan", "wrap"}, Examine, pc = "scan" => GET_SIZE(mem, HDRP(bp)) > 0,
           UNCHANGED <<owned, reqsize, call, ptr, mem_brk, mem_max_addr>>
    PROVE  ViewNext(NF_pointer') = Examines(View)
<1>1. HeapReady /\ bp \in Blocks \cup {8, mem_brk} /\ (pc = "wrap" => bp \in Blocks \cup {8})
  BY DEF IInv, HeapReady, Searched, heap_listp, mem_start_brk, WSIZE
<1>2. GET_SIZE(mem, HDRP(mem_brk)) = 0 /\ \A a : ~Fits(mem, 8, a)
  BY <1>1, ListFacts
<1> DEFINE v == View
<1>3. /\ v.pc = pc /\ v.bp = bp /\ Asked(v) = asize
      /\ NEXT_BLKP(mem, bp) = NEXT_BLKP(MemOf(v), bp)
      /\ Fits(mem, bp, asize) <=> Fits(MemOf(v), bp, asize)
  BY CursorSeen
<1> HIDE DEF v
<1>4. CASE Fits(mem, bp, asize) /\ Allocated(mem, bp)
  <2>1. bp \in Blocks
    BY <1>1, <1>2, <1>4
  <2>2. Examines(v) = Finds(v, bp, asize)
    BY <1>3, <1>4 DEF Examines
  <2> QED
    BY <1>4, <2>1, <2>2, FoundSeen DEF v
<1>5. CASE ~Fits(mem, bp, asize) /\ Searching(pc, NEXT_BLKP(mem, bp))
  <2>1. Examines(v) = SearchesAt(v, pc, NEXT_BLKP(mem, bp))
    BY <1>3, <1>5 DEF Examines
  <2> QED
    BY <1>5, <2>1, SearchSeen DEF v
<1> QED
  BY <1>4, <1>5 DEF Examine, v

LEMMA ScanSeen ==
    ASSUME IInv, Scan
    PROVE  ViewNext(NF_pointer') = Runs(View)
<1>1. pc = "scan" /\ UNCHANGED <<owned, reqsize, call, ptr, mem_brk, mem_max_addr>>
  BY DEF Scan
<1> DEFINE v == View
<1>2. /\ v.pc = "scan" /\ v.bp = bp
      /\ GET_SIZE(mem, HDRP(bp)) = GET_SIZE(MemOf(v), HDRP(bp))
  BY <1>1, CursorSeen
<1> HIDE DEF v
<1>3. Runs(v) = IF GET_SIZE(mem, HDRP(bp)) = 0 THEN SearchesAt(v, "wrap", heap_listp)
                ELSE Examines(v)
  BY <1>2 DEF Runs
<1>4. CASE GET_SIZE(mem, HDRP(bp)) = 0 /\ Searching("wrap", heap_listp)
  BY <1>1, <1>3, <1>4, SearchSeen DEF v
<1>5. CASE GET_SIZE(mem, HDRP(bp)) > 0 /\ Examine
  <2>1. GET_SIZE(mem, HDRP(bp)) # 0
    BY <1>5
  <2> QED
    BY <1>1, <1>3, <1>5, <2>1, ExamineSeen DEF v
<1> QED
  BY <1>4, <1>5 DEF Scan, v

LEMMA WrapSeen ==
    ASSUME IInv, Wrap
    PROVE  ViewNext(NF_pointer') = Runs(View)
<1>1. pc = "wrap" /\ UNCHANGED <<owned, reqsize, call, ptr, mem_brk, mem_max_addr>>
  BY DEF Wrap
<1> DEFINE v == View
<1>2. v.pc = "wrap" /\ v.bp = bp /\ v.rover = NF_pointer
  BY <1>1, CursorSeen
<1> HIDE DEF v
<1>3. Runs(v) = IF bp < NF_pointer THEN Examines(v) ELSE SearchesAt(v, "extend", NULL)
  BY <1>2 DEF Runs
<1>4. CASE ~(bp < NF_pointer) /\ Searching("extend", NULL)
  BY <1>1, <1>3, <1>4, SearchSeen DEF v
<1>5. CASE bp < NF_pointer /\ Examine
  BY <1>1, <1>3, <1>5, ExamineSeen DEF v
<1> QED
  BY <1>4, <1>5 DEF Wrap, WrapGoesOn, v

LEMMA ExtendSeen ==
    ASSUME IInv, Extend
    PROVE  ViewNext(NF_pointer') = Grows(View, asize)
<1> DEFINE size == ExtendBytes(MAX(asize, CHUNKSIZE) \div WSIZE)
           n == NewBlock(mem, mem_brk, size)
           b == CoalescedBp(n, mem_brk)
<1>1. /\ ClientInv /\ pc = "extend" /\ InSearch /\ BlockSize(asize)
      /\ UNCHANGED <<owned, reqsize, call, ptr, mem_max_addr>>
  BY CallSize DEF Extend, InSearch, IInv
<1>2. PICK a : a = asize
  OBVIOUS
<1>3. size = ExtendBytes(MAX(a, CHUNKSIZE) \div WSIZE)
  BY <1>2
<1> HIDE DEF size
<1>4. CASE /\ SbrkFails(mem_brk, size) /\ pc' = "return"
           /\ UNCHANGED <<mem, mem_brk, NF_pointer, bp, ret>>
  <2>1. ViewNext(NF_pointer) = Grows(View, a)
    BY <1>1, <1>3, <1>4, GivesUpView DEF View
  <2> QED
    BY <1>2, <1>4, <2>1
<1>5. CASE /\ ~SbrkFails(mem_brk, size) /\ mem_brk' = mem_brk + size
           /\ Allocated(Coalesce(n, mem_brk), b)
  <2>1. /\ mem' = Place(Coalesce(n, mem_brk), b, a)
        /\ ret' = b /\ NF_pointer' = b
        /\ pc' = IF ptr = NULL THEN "return" ELSE "copy"
    BY <1>2, <1>5 DEF Allocated
  <2>2. n = NewBlock(mem, mem_brk, size) /\ b = CoalescedBp(n, mem_brk)
    OBVIOUS
  <2> HIDE DEF n, b
  <2>3. ViewNext(b) = Grows(View, a)
    BY <1>1, <1>2, <1>3, <1>5, <2>1, <2>2, GrowsView DEF View
  <2> QED
    BY <1>2, <2>1, <2>3
<1> QED
  BY <1>4, <1>5 DEF Extend, size

LEMMA CopySeen ==
    ASSUME IInv, Copy
    PROVE  LET v == View
           IN  ViewNext(NF_pointer') = Frees(v, "return", v.call, v.owned, v.ptr)
<1> DEFINE n == NewSize(call.size)
<1>1. /\ ClientInv /\ pc = "copy" /\ ptr' = NULL /\ pc' = "return"
      /\ UNCHANGED <<owned, call, ret, mem_brk, mem_max_addr>>
  BY DEF Copy, IInv
<1>2. PICK forward \in BOOLEAN : FreeIn(Copied(mem, n, forward), ptr)
  BY DEF Copy
<1> DEFINE m == Copied(mem, n, forward)
<1>3. PICK f : /\ f = MarkFree(m, ptr) /\ mem' = Coalesce(f, ptr)
               /\ NF_pointer' = CoalescedBp(f, ptr)
  BY <1>2 DEF FreeIn
<1>4. n \in Nat /\ n + 8 <= GET_SIZE(mem, HDRP(ret))
  <2>1. call.size \in Nat /\ n = call.size + 8
    BY <1>1, CallType DEF NewSize, DSIZE
  <2>2. GET_SIZE(mem, HDRP(ret)) >= n + 8 /\ GET_SIZE(mem, HDRP(ret)) \in Nat
    BY <1>1, CopyFacts DEF IInv, CopyFits, DSIZE
  <2> QED
    BY <2>1, <2>2
<1>5. OnlyWrites(mem, m, ret, n)
  <2>1. mem \in [W -> Nat] /\ ret \in Nat
    BY <1>1 DEF ClientInv, MemTypeOK, ClientTypeOK, W
  <2> QED
    BY <1>4, <2>1, CopiedOK
<1> HIDE DEF n, m
<1>6. PICK v : v = View
  OBVIOUS
<1>7. ViewNext(CoalescedBp(f, ptr)) = Frees(v, "return", v.call, v.owned, v.ptr)
  BY <1>1, <1>3, <1>4, <1>5, <1>6, CopyView DEF View
<1> QED
  BY <1>3, <1>6, <1>7

LEMMA mm_initSeen ==
    ASSUME IInv, mm_init
    PROVE  ViewNext(NF_pointer') = Inits(View, heap_listp)
<1> DEFINE brk == mem_brk + 4 * WSIZE
           size == ExtendBytes(CHUNKSIZE \div WSIZE)
<1>1. ClientInv /\ pc = "init" /\ UNCHANGED <<owned, reqsize, call, bp, ptr, ret, mem_max_addr>>
  BY DEF IInv, mm_init
<1>2. \/ SbrkFails(mem_brk, 4 * WSIZE) /\ pc' = "failed" /\ mem_brk' = mem_brk
      \/ /\ ~SbrkFails(mem_brk, 4 * WSIZE) /\ SbrkFails(brk, size)
         /\ pc' = "failed" /\ mem_brk' = brk
      \/ /\ ~SbrkFails(mem_brk, 4 * WSIZE) /\ ~SbrkFails(brk, size)
         /\ pc' = "idle" /\ mem_brk' = brk + size /\ NF_pointer' = heap_listp
  <2> HIDE DEF size
  <2> QED
    BY DEF mm_init, size
<1>3. ViewNext(heap_listp) = Inits(View, heap_listp)
  <2>1. brk = mem_brk + 4 * WSIZE /\ size = ExtendBytes(CHUNKSIZE \div WSIZE)
    OBVIOUS
  <2> HIDE DEF brk, size
  <2> QED
    BY <1>1, <1>2, <2>1, InitView DEF View
<1>4. pc' # "idle" => ~HeapReady'
  BY <1>2 DEF HeapReady
<1>5. ViewNext(NF_pointer') = ViewNext(heap_listp)
  BY <1>2, <1>4 DEF ViewNext
<1> QED
  BY <1>3, <1>5

LEMMA RunSeen ==
    ASSUME IInv, Run
    PROVE  ViewNext(NF_pointer') = Runs(View)
<1> DEFINE v == View
<1>1. v.pc = pc
  <2>1. v = Seen(pc, CallSeen, owned, ptr, ret, BpSeen,
                 IF HeapReady THEN NF_pointer ELSE NULL, mem_brk, mem_max_addr, SizesSeen)
    BY DEF View, ViewOf
  <2> QED
    BY <2>1, SeenFields
<1> HIDE DEF v
<1>2. CASE mm_init
  BY <1>1, <1>2, mm_initSeen DEF Runs, mm_init, v
<1>3. CASE Scan
  BY <1>3, ScanSeen DEF v
<1>4. CASE Wrap
  BY <1>4, WrapSeen DEF v
<1>5. CASE Extend
  <2>1. pc = "extend" /\ ClientInv /\ HeapReady /\ InSearch
    BY <1>5 DEF Extend, InSearch, HeapReady, IInv
  <2>2. v.call = call /\ v.ptr = ptr
    BY <2>1, ViewNow DEF v, View
  <2>3. Asked(v) = asize
    BY <2>2 DEF Asked, asize
  <2> QED
    BY <1>1, <1>5, <2>1, <2>3, ExtendSeen DEF Runs, v
<1>6. CASE Copy
  BY <1>1, <1>6, CopySeen DEF Runs, Copy, v
<1> QED
  BY <1>2, <1>3, <1>4, <1>5, <1>6 DEF Run, v

LEMMA mm_freeSeen ==
    ASSUME IInv, NEW id \in Ids, mm_free(id)
    PROVE  ViewNext(NF_pointer') = FreesBlock(View, id)
<1>1. PICK f : /\ f = MarkFree(mem, owned[id]) /\ mem' = Coalesce(f, owned[id])
               /\ NF_pointer' = CoalescedBp(f, owned[id])
  BY DEF mm_free, FreeIn
<1>2. /\ ClientInv /\ pc = "idle" /\ owned[id] # NULL
      /\ owned' = [owned EXCEPT ![id] = NULL]
      /\ UNCHANGED <<pc, ptr, ret, mem_brk, mem_max_addr>>
  BY DEF mm_free, IInv
<1>3. ViewNext(CoalescedBp(f, owned[id])) = FreesBlock(View, id)
  BY <1>1, <1>2, FreeView DEF View
<1> QED
  BY <1>1, <1>3

\* The search starts at the rover.
LEMMA StartSeen ==
    ASSUME IInv, pc = "idle", NEW v, v = View
    PROVE  /\ ClientInv /\ HeapReady /\ v.owned = owned /\ ptr = NULL /\ ret = NULL
           /\ v.rover = NF_pointer /\ Alike(mem, MemOf(v), mem_brk, Live)
  BY ViewNow DEF View, IInv, HeapReady, ClientInv, CallOK

LEMMA mm_mallocSeen ==
    ASSUME IInv, NEW id \in Ids, NEW size \in Sizes, mm_malloc(id, size)
    PROVE  ViewNext(NF_pointer') = Mallocs(View, id, size)
<1>1. /\ pc = "idle" /\ CallStarts(id, size, NULL) /\ owned[id] = NULL
      /\ UNCHANGED <<ptr, ret, NF_pointer, mem, mem_brk, mem_max_addr>>
  BY DEF mm_malloc, CallStarts, memVars
<1> DEFINE v == View
<1>2. /\ ClientInv /\ v.owned = owned /\ ptr = NULL /\ ret = NULL /\ v.rover = NF_pointer
  BY <1>1, StartSeen
<1>3. v = ViewOf(NF_pointer)
  BY DEF View
<1> HIDE DEF v
<1>4. ptr' = owned[id] /\ ret' = NULL /\ ptr' = NULL /\ CallStarts(id, size, owned[id])
  BY <1>1, <1>2
<1>5. CASE size = 0
  <2>1. pc' = "return" /\ HeapReady' /\ ~InSearch'
    BY <1>5 DEF mm_malloc, HeapReady, InSearch
  <2>2. ViewNext(NF_pointer) = Enters(v, id, size, pc', ptr', ret', NULL, v.sizes)
    BY <1>1, <1>2, <1>3, <1>4, <2>1, EntersView
  <2> QED
    BY <1>1, <1>4, <1>5, <2>1, <2>2 DEF Mallocs, v
<1>6. CASE size # 0
  <2>1. pc' = "scan" /\ HeapReady' /\ InSearch' /\ bp' = NF_pointer
    BY <1>6 DEF mm_malloc, HeapReady, InSearch
  <2>2. ViewNext(NF_pointer) = Enters(v, id, size, pc', ptr', ret', bp', v.sizes)
    BY <1>1, <1>2, <1>3, <1>4, <2>1, EntersView
  <2> QED
    BY <1>1, <1>2, <1>4, <1>6, <2>1, <2>2 DEF Mallocs, v
<1> QED
  BY <1>5, <1>6

LEMMA mm_reallocSeen ==
    ASSUME IInv, NEW id \in Ids, NEW size \in Sizes, mm_realloc(id, size)
    PROVE  ViewNext(NF_pointer') = Reallocs(View, id, size)
<1> DEFINE p == owned[id]
           next == NEXT_BLKP(mem, p)
           total == Merged(p)
<1>1. /\ pc = "idle" /\ p # NULL /\ CallStarts(id, size, p)
      /\ owned' = [owned EXCEPT ![id] = NULL]
      /\ UNCHANGED <<reqsize, mem_brk, mem_max_addr, NF_pointer>>
  BY DEF mm_realloc, CallStarts
<1> DEFINE v == View
<1>2. /\ ClientInv /\ HeapReady /\ v.owned = owned /\ ptr = NULL /\ ret = NULL
      /\ v.rover = NF_pointer /\ Alike(mem, MemOf(v), mem_brk, Live)
  BY <1>1, StartSeen
<1>3. v = ViewOf(NF_pointer)
  BY DEF View
<1> HIDE DEF v
<1>4. total = GET_SIZE(mem, HDRP(p)) + GET_SIZE(mem, HDRP(next))
  BY DEF Merged
<1>5. p \in Blocks /\ next \in Blocks \cup {mem_brk}
  <2>1. p \in Live /\ Live \in SUBSET Blocks
    BY <1>1, <1>2, BlockFacts DEF Live
  <2> QED
    BY <1>2, <2>1, ListFacts
<1>6. /\ GET_SIZE(mem, HDRP(p)) = GET_SIZE(MemOf(v), HDRP(p))
      /\ next = NEXT_BLKP(MemOf(v), p)
      /\ GET_SIZE(mem, HDRP(next)) = GET_SIZE(MemOf(v), HDRP(next))
      /\ GET_ALLOC(mem, HDRP(next)) = GET_ALLOC(MemOf(v), HDRP(next))
  <2> HIDE DEF next
  <2>1. /\ GET_SIZE(mem, HDRP(p)) = GET_SIZE(MemOf(v), HDRP(p))
        /\ NEXT_BLKP(mem, p) = NEXT_BLKP(MemOf(v), p)
    BY <1>2, <1>5, SameHeaders DEF Blocks
  <2>2. /\ GET_SIZE(mem, HDRP(next)) = GET_SIZE(MemOf(v), HDRP(next))
        /\ GET_ALLOC(mem, HDRP(next)) = GET_ALLOC(MemOf(v), HDRP(next))
    BY <1>2, <1>5, SameHeaders DEF Blocks
  <2> QED
    BY <2>1, <2>2 DEF next
<1> HIDE DEF next, total
<1>7. Reallocs(v, id, size) =
        IF NewSize(size) <= GET_SIZE(mem, HDRP(p))
        THEN Enters(v, id, size, "return", NULL, p, NULL, v.sizes)
        ELSE IF GET_ALLOC(mem, HDRP(next)) = 0 /\ NewSize(size) <= total
        THEN Enters(v, id, size, "return", NULL, p, NULL, Enlarged(v.sizes, p, total))
        ELSE Enters(v, id, size, "scan", p, NULL, NF_pointer, v.sizes)
  BY <1>2, <1>4, <1>6 DEF Reallocs
<1>8. CASE /\ Keeps(p, size) /\ pc' = "return" /\ ret' = p
           /\ UNCHANGED <<mem, bp, ptr>>
  <2>1. HeapReady' /\ ~InSearch' /\ ptr' = NULL
    BY <1>2, <1>8 DEF HeapReady, InSearch
  <2>2. ViewNext(NF_pointer) = Enters(v, id, size, pc', ptr', ret', NULL, v.sizes)
    BY <1>1, <1>2, <1>3, <1>8, <2>1, EntersView
  <2> QED
    BY <1>1, <1>7, <1>8, <2>1, <2>2 DEF Keeps, v
<1>9. CASE /\ Absorbs(p, size) /\ pc' = "return" /\ ret' = p
           /\ mem' = Mark(mem, p, Merged(p), 1) /\ UNCHANGED <<bp, ptr>>
  <2>1. /\ ~(NewSize(size) <= GET_SIZE(mem, HDRP(p)))
        /\ GET_ALLOC(mem, HDRP(next)) = 0 /\ NewSize(size) <= total
        /\ mem' = Mark(mem, p, total, 1)
    BY <1>9 DEF Absorbs, Keeps, next, total
  <2>2. next = NEXT_BLKP(mem, p)
    BY DEF next
  <2>3. ViewNext(NF_pointer) = Enters(v, id, size, "return", NULL, p, NULL,
                                      Enlarged(v.sizes, p, total))
    BY <1>1, <1>2, <1>3, <1>4, <1>9, <2>1, <2>2, AbsorbView
  <2> QED
    BY <1>1, <1>7, <2>1, <2>3 DEF v
<1>10. CASE /\ ~Keeps(p, size) /\ ~Absorbs(p, size)
            /\ pc' = "scan" /\ bp' = NF_pointer /\ ptr' = p /\ UNCHANGED <<mem, ret>>
  <2>1. /\ ~(NewSize(size) <= GET_SIZE(mem, HDRP(p)))
        /\ ~(GET_ALLOC(mem, HDRP(next)) = 0 /\ NewSize(size) <= total)
    BY <1>10 DEF Absorbs, Keeps, next, total
  <2>2. HeapReady' /\ InSearch' /\ ret' = NULL
    BY <1>2, <1>10 DEF HeapReady, InSearch
  <2>3. ViewNext(NF_pointer) = Enters(v, id, size, pc', ptr', ret', bp', v.sizes)
    BY <1>1, <1>2, <1>3, <1>10, <2>2, EntersView
  <2> QED
    BY <1>1, <1>7, <1>10, <2>1, <2>2, <2>3 DEF v
<1> QED
  BY <1>8, <1>9, <1>10 DEF mm_realloc

(***************************************************************************)
(* What the view becomes is a function of the view, of the request and of  *)
(* nothing else.                                                           *)
(***************************************************************************)
Determined ==
    /\ Run => View' = Runs(View)
    /\ \A id \in Ids : mm_free(id) => View' = FreesBlock(View, id)
    /\ \A id \in Ids, size \in Sizes : mm_malloc(id, size) => View' = Mallocs(View, id, size)
    /\ \A id \in Ids, size \in Sizes : mm_realloc(id, size) => View' = Reallocs(View, id, size)
    /\ (Return \/ Returns(mem)) /\ UNCHANGED NF_pointer => View' = Answers(View)
    /\ NewTrace /\ UNCHANGED NF_pointer => View' = Fresh(mem_max_addr)
    /\ UNCHANGED vars => View' = View

LEMMA ViewStart ==
    ASSUME IInv
    PROVE  View.pc = pc /\ View.ret = ret /\ (pc = "init" => View = Fresh(mem_max_addr))
<1>1. View = Seen(pc, CallSeen, owned, ptr, ret, BpSeen,
                  IF HeapReady THEN NF_pointer ELSE NULL, mem_brk, mem_max_addr, SizesSeen)
  BY DEF View, ViewOf
<1>2. View.pc = pc /\ View.ret = ret
  BY <1>1, SeenFields
<1>3. pc = "init" => View = Fresh(mem_max_addr)
  BY FreshView DEF View, IInv
<1> QED
  BY <1>2, <1>3

LEMMA StepDetermined ==
    ASSUME IInv
    PROVE  Determined
<1>1. View' = ViewNext(NF_pointer')
  BY Zenon DEF View, ViewOf, ViewNext
<1>2. View = ViewOf(NF_pointer) /\ ClientInv
  BY DEF View, IInv
<1>3. Run => View' = Runs(View)
  BY <1>1, RunSeen
<1>4. \A id \in Ids : mm_free(id) => View' = FreesBlock(View, id)
  BY <1>1, mm_freeSeen
<1>5. \A id \in Ids, size \in Sizes : mm_malloc(id, size) => View' = Mallocs(View, id, size)
  BY <1>1, mm_mallocSeen
<1>6. \A id \in Ids, size \in Sizes : mm_realloc(id, size) => View' = Reallocs(View, id, size)
  BY <1>1, mm_reallocSeen
<1>7. ASSUME UNCHANGED NF_pointer
      PROVE  /\ Return \/ Returns(mem) => View' = Answers(View)
             /\ NewTrace => View' = Fresh(mem_max_addr)
  <2>1. View' = ViewNext(NF_pointer)
    BY <1>1, <1>7
  <2>2. Return \/ Returns(mem) => ViewNext(NF_pointer) = Answers(View)
    BY <1>2, ReturnView
  <2>3. NewTrace => ViewNext(NF_pointer) = Fresh(mem_max_addr)
    BY <1>2, NewTraceView
  <2> QED
    BY <2>1, <2>2, <2>3
<1>8. UNCHANGED vars => View' = View
  <2>1. SUFFICES ASSUME UNCHANGED vars PROVE View' = View
    OBVIOUS
  <2>2. UNCHANGED memVars /\ UNCHANGED clientVars /\ NF_pointer' = NF_pointer
    BY <2>1 DEF vars
  <2>3. ViewNext(NF_pointer) = ViewOf(NF_pointer)
    BY <2>2, StutterView
  <2> QED
    BY <1>1, <1>2, <2>2, <2>3
<1> QED
  BY <1>3, <1>4, <1>5, <1>6, <1>7, <1>8 DEF Determined

\* Where sanglim's allocator puts a block does not depend on what earlier traces or
\* the client have left in the storage: every step takes the view, in which the
\* sizes of the allocated blocks stand for the words, to one that only the view
\* and the request determine.
THEOREM SanglimDetermined == CarefulSpec => [][Determined]_vars
<1>1. IInv => Determined
  BY StepDetermined
<1> QED
  BY <1>1, SanglimInvariant, PTL
=============================================================================
