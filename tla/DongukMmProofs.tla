--------------------------- MODULE DongukMmProofs ---------------------------
(***************************************************************************)
(* The inductive invariant of DongukMm and the safety theorems.  What each *)
(* step does to the heap, to the client's blocks and to the contract of    *)
(* malloc is in MmClientProofs; here are the rover and the search.         *)
(***************************************************************************)
EXTENDS DongukMm, MmClientProofs

IInv ==
    /\ ClientInv
    /\ pc \in PCs
    /\ recently_visited \in Nat
    /\ RoverOnBlock
    /\ SearchProgress
    /\ SearchComplete

LEMMA CallSize ==
    ASSUME ClientInv
    PROVE  BlockSize(asize) /\ asize >= call.size + 8
  BY CallType, AdjustedSizeOK DEF asize

\* After a step that leaves the search, only the rover is left to check.
LEMMA Elsewhere ==
    ASSUME ClientInv', pc' \in PCs \ {"scan", "wrap", "extend"},
           recently_visited' \in Nat, RoverOnBlock'
    PROVE  IInv'
  BY DEF IInv, SearchProgress, SearchComplete

(***************************************************************************)
(* The steps of the search                                                 *)
(***************************************************************************)
LEMMA SearchKeeps ==
    ASSUME IInv, pc \in {"scan", "wrap"}, pc' \in {"scan", "wrap", "extend"}, bp' \in Nat,
           UNCHANGED <<owned, reqsize, call, ptr, ret, mem, mem_brk, mem_max_addr,
                       recently_visited>>,
           SearchProgress', SearchComplete'
    PROVE  IInv'
<1>1. ClientInv' /\ Blocks' = Blocks
  BY SearchStep DEF IInv, InSearch
<1> QED
  BY <1>1 DEF IInv, RoverOnBlock, HeapReady, PCs

LEMMA FoundKeeps ==
    ASSUME IInv, pc \in {"scan", "wrap"}, NEW b \in Blocks, Fits(mem, b, asize), Found(b),
           UNCHANGED <<owned, reqsize, call, ptr, mem_max_addr>>
    PROVE  IInv'
<1>1. BlockSize(asize) /\ asize >= call.size + 8
  BY CallSize DEF IInv
<1>2. /\ mem' = Place(mem, b, asize) /\ ret' = b /\ bp' = NULL
      /\ pc' = IF ptr = NULL THEN "return" ELSE "copy"
      /\ recently_visited' = b /\ mem_brk' = mem_brk
  BY DEF Found, Allocated
<1>3. ClientInv' /\ b \in Blocks' /\ b \in Nat
  BY <1>1, <1>2, FoundStep DEF IInv, InSearch
<1> QED
  BY <1>2, <1>3, Elsewhere DEF RoverOnBlock, PCs

LEMMA ScanKeeps ==
    ASSUME IInv, Scan
    PROVE  IInv'
<1>1. pc = "scan" /\ UNCHANGED <<owned, reqsize, call, ptr, mem_max_addr>>
  BY DEF Scan
<1>2. ClientInv /\ HeapReady /\ recently_visited \in Blocks
  BY <1>1 DEF IInv, HeapReady, RoverOnBlock
<1>3. /\ bp \in Blocks \cup {mem_brk} /\ bp > recently_visited
      /\ \A b \in Blocks : recently_visited < b /\ b < bp => ~Fits(mem, b, asize)
  BY <1>1 DEF IInv, SearchProgress
<1>4. /\ Blocks \in SUBSET Nat /\ mem_brk \in Nat
      /\ \A b \in Blocks :
           /\ b \in Nat /\ b >= 16 /\ b < mem_brk
           /\ GET_SIZE(mem, HDRP(b)) >= 16 /\ GET_SIZE(mem, HDRP(b)) \in Nat
           /\ NEXT_BLKP(mem, b) \in Blocks \cup {mem_brk}
           /\ b < NEXT_BLKP(mem, b)
      /\ \A b, c \in Blocks : b < c => NEXT_BLKP(mem, b) <= c
      /\ GET_SIZE(mem, HDRP(mem_brk)) = 0 /\ heap_listp = 8
  BY <1>2, BlockFacts DEF heap_listp, mem_start_brk, DSIZE
<1>5. CASE GET_SIZE(mem, HDRP(bp)) = 0 /\ Searching("wrap", heap_listp)
  <2>1. bp = mem_brk
    BY <1>3, <1>4, <1>5
  <2>2. /\ pc' = "wrap" /\ bp' = 8
        /\ UNCHANGED <<mem, mem_brk, recently_visited, ret>>
    BY <1>4, <1>5 DEF Searching
  <2>3. Blocks' = Blocks /\ asize' = asize /\ heap_listp' = 8
    BY <1>1, <1>4, <2>2 DEF Blocks, Live, BlocksOf, asize, heap_listp
  <2>4. \A b \in Blocks : b > recently_visited \/ b <= 8 => ~Fits(mem, b, asize)
    BY <1>2, <1>3, <1>4, <2>1
  <2>5. 8 <= recently_visited
    BY <1>2, <1>4
  <2>6. SearchProgress' /\ SearchComplete'
    BY <2>2, <2>3, <2>4, <2>5 DEF SearchProgress, SearchComplete
  <2> QED
    BY <1>1, <2>2, <2>6, SearchKeeps
<1>6. CASE GET_SIZE(mem, HDRP(bp)) # 0 /\ Fits(mem, bp, asize) /\ Found(bp)
  <2>1. bp \in Blocks
    BY <1>3, <1>4, <1>6
  <2> QED
    BY <1>1, <1>6, <2>1, FoundKeeps
<1>7. CASE /\ GET_SIZE(mem, HDRP(bp)) # 0 /\ ~Fits(mem, bp, asize)
           /\ Searching("scan", NEXT_BLKP(mem, bp))
  <2>1. bp \in Blocks
    BY <1>3, <1>4, <1>7
  <2>2. /\ pc' = "scan" /\ bp' = NEXT_BLKP(mem, bp)
        /\ UNCHANGED <<mem, mem_brk, recently_visited, ret>>
    BY <1>7 DEF Searching
  <2>3. Blocks' = Blocks /\ asize' = asize
    BY <1>1, <2>2 DEF Blocks, Live, BlocksOf, asize
  <2> DEFINE next == NEXT_BLKP(mem, bp)
  <2>4. /\ next \in Blocks \cup {mem_brk} /\ bp < next
        /\ \A b \in Blocks : bp < b => next <= b
    BY <1>4, <2>1
  <2> HIDE DEF next
  <2>5. next \in Nat /\ next > recently_visited
    BY <1>2, <1>3, <1>4, <2>1, <2>4
  <2>6. \A b \in Blocks : recently_visited < b /\ b < next => ~Fits(mem, b, asize)
    <3>1. TAKE b \in Blocks
    <3>2. CASE b < bp
      BY <3>2, <1>3
    <3>3. CASE b = bp
      BY <3>3, <1>7
    <3>4. CASE bp < b
      BY <3>4, <1>4, <2>4, <2>5
    <3> QED
      BY <3>2, <3>3, <3>4, <1>4, <2>1
  <2>7. SearchProgress' /\ SearchComplete'
    BY <2>2, <2>3, <2>4, <2>5, <2>6 DEF SearchProgress, SearchComplete, next
  <2> QED
    BY <1>1, <2>2, <2>5, <2>7, SearchKeeps DEF next
<1> QED
  BY <1>5, <1>6, <1>7 DEF Scan

\* The block that the while loop looks at: the one after bp, up to the rover.
LEMMA WrapNext ==
    ASSUME IInv, pc = "wrap", bp < recently_visited, NEW next, next = NEXT_BLKP(mem, bp)
    PROVE  /\ next \in Blocks /\ next <= recently_visited /\ next \in Nat
           /\ \A b \in Blocks : b <= bp \/ b >= next
<1>1. ClientInv /\ HeapReady /\ recently_visited \in Blocks
  BY DEF IInv, HeapReady, RoverOnBlock
<1>2. bp \in Blocks \cup {heap_listp}
  BY DEF IInv, SearchProgress
<1>3. /\ Blocks \in SUBSET Nat /\ 16 \in Blocks /\ mem_brk \in Nat
      /\ \A b \in Blocks :
           /\ b \in Nat /\ b >= 16 /\ b < mem_brk
           /\ NEXT_BLKP(mem, b) \in Blocks \cup {mem_brk}
           /\ b < NEXT_BLKP(mem, b)
      /\ \A b, c \in Blocks : b < c => NEXT_BLKP(mem, b) <= c
      /\ heap_listp = 8 /\ NEXT_BLKP(mem, 8) = 16
  BY <1>1, BlockFacts DEF heap_listp, mem_start_brk, DSIZE
<1>4. CASE bp \in Blocks
  <2>1. /\ next \in Blocks \cup {mem_brk} /\ next <= recently_visited
        /\ \A b \in Blocks : bp < b => next <= b
        /\ bp \in Nat /\ recently_visited < mem_brk
    BY <1>1, <1>3, <1>4
  <2>2. next # mem_brk
    BY <1>1, <1>3, <2>1
  <2> QED
    BY <1>3, <2>1, <2>2
<1>5. CASE bp = 8
  <2>1. next = 16
    BY <1>3, <1>5
  <2> QED
    BY <1>1, <1>3, <2>1
<1> QED
  BY <1>2, <1>3, <1>4, <1>5

LEMMA WrapKeeps ==
    ASSUME IInv, Wrap
    PROVE  IInv'
<1>1. pc = "wrap" /\ UNCHANGED <<owned, reqsize, call, ptr, mem_max_addr>>
  BY DEF Wrap
<1>2. ClientInv /\ HeapReady /\ recently_visited \in Blocks
  BY <1>1 DEF IInv, HeapReady, RoverOnBlock
<1>3. /\ bp \in Blocks \cup {heap_listp} /\ bp <= recently_visited
      /\ \A b \in Blocks : b > recently_visited \/ b <= bp => ~Fits(mem, b, asize)
  BY <1>1 DEF IInv, SearchProgress
<1>4. /\ Blocks \in SUBSET Nat /\ 16 \in Blocks /\ mem_brk \in Nat
      /\ \A b \in Blocks :
           /\ b \in Nat /\ b >= 16 /\ b < mem_brk
           /\ NEXT_BLKP(mem, b) \in Blocks \cup {mem_brk}
           /\ b < NEXT_BLKP(mem, b)
      /\ \A b, c \in Blocks : b < c => NEXT_BLKP(mem, b) <= c
      /\ heap_listp = 8 /\ NEXT_BLKP(mem, 8) = 16
  BY <1>2, BlockFacts DEF heap_listp, mem_start_brk, DSIZE
<1>5. bp \in Nat /\ recently_visited \in Nat
  BY <1>2, <1>3, <1>4
<1>6. CASE bp >= recently_visited /\ Searching("extend", NULL)
  <2>1. /\ pc' = "extend" /\ bp' = 0
        /\ UNCHANGED <<mem, mem_brk, recently_visited, ret>>
    BY <1>6 DEF Searching, NULL
  <2>2. Blocks' = Blocks /\ asize' = asize
    BY <1>1, <2>1 DEF Blocks, Live, BlocksOf, asize
  <2>3. \A b \in Blocks : ~Fits(mem, b, asize)
    BY <1>3, <1>4, <1>5, <1>6
  <2>4. SearchProgress' /\ SearchComplete'
    BY <2>1, <2>2, <2>3 DEF SearchProgress, SearchComplete
  <2> QED
    BY <1>1, <2>1, <2>4, SearchKeeps
<1> DEFINE next == NEXT_BLKP(mem, bp)
<1>7. ASSUME bp < recently_visited
      PROVE  /\ next \in Blocks /\ next <= recently_visited /\ next \in Nat
             /\ \A b \in Blocks : b <= bp \/ b >= next
  BY <1>1, <1>7, WrapNext
<1>8. CASE bp < recently_visited /\ Fits(mem, next, asize) /\ Found(next)
  BY <1>1, <1>7, <1>8, FoundKeeps
<1>9. CASE /\ bp < recently_visited /\ ~Fits(mem, next, asize)
           /\ Searching("wrap", next)
  <2>1. /\ pc' = "wrap" /\ bp' = next
        /\ UNCHANGED <<mem, mem_brk, recently_visited, ret>>
    BY <1>9 DEF Searching
  <2>2. Blocks' = Blocks /\ asize' = asize
    BY <1>1, <2>1 DEF Blocks, Live, BlocksOf, asize
  <2>3. /\ next \in Blocks /\ next <= recently_visited /\ next \in Nat
        /\ \A b \in Blocks : b <= bp \/ b >= next
    BY <1>7, <1>9
  <2>4. ~Fits(mem, next, asize)
    BY <1>9
  <2> HIDE DEF next
  <2>5. \A b \in Blocks : b > recently_visited \/ b <= next => ~Fits(mem, b, asize)
    BY <1>3, <1>4, <1>5, <2>3, <2>4
  <2>6. SearchProgress' /\ SearchComplete'
    BY <2>1, <2>2, <2>3, <2>5 DEF SearchProgress, SearchComplete
  <2> QED
    BY <1>1, <2>1, <2>3, <2>6, SearchKeeps
<1> QED
  BY <1>5, <1>6, <1>8, <1>9 DEF Wrap, WrapGoesOn

LEMMA ExtendKeeps ==
    ASSUME IInv, Extend
    PROVE  IInv'
<1> DEFINE size == ExtendBytes(MAX(asize, CHUNKSIZE) \div WSIZE)
           n == NewBlock(mem, mem_brk, size)
           b == CoalescedBp(n, mem_brk)
<1>1. /\ ClientInv /\ pc = "extend" /\ InSearch
      /\ UNCHANGED <<owned, reqsize, call, ptr, mem_max_addr>>
  BY DEF Extend, InSearch, IInv
<1>2. BlockSize(asize) /\ asize >= call.size + 8
  BY CallSize DEF IInv
<1>3. CASE pc' = "return" /\ UNCHANGED <<mem, mem_brk, recently_visited, bp, ret>>
  <2>1. bp' \in Nat
    BY <1>1, <1>3 DEF ClientInv, ClientTypeOK
  <2>2. ClientInv' /\ Blocks' = Blocks
    BY <1>1, <1>3, <2>1, SearchStep
  <2> QED
    BY <1>1, <1>3, <2>2, Elsewhere DEF IInv, RoverOnBlock, HeapReady, PCs
<1>4. CASE /\ ~SbrkFails(mem_brk, size) /\ mem_brk' = mem_brk + size
           /\ Allocated(Coalesce(n, mem_brk), b)
  <2>1. /\ mem' = Place(Coalesce(n, mem_brk), b, asize)
        /\ ret' = b /\ bp' = NULL /\ recently_visited' = b
        /\ pc' = IF ptr = NULL THEN "return" ELSE "copy"
    BY <1>4 DEF Allocated
  <2>2. ClientInv' /\ b \in Blocks' /\ b \in Nat
    BY <1>1, <1>2, <1>4, <2>1, ExtendStep
  <2> HIDE DEF b
  <2> QED
    BY <2>1, <2>2, Elsewhere DEF RoverOnBlock, PCs
<1> QED
  <2> HIDE DEF size
  <2> QED
    BY <1>3, <1>4 DEF Extend, size

(***************************************************************************)
(* The calls and the returns                                               *)
(***************************************************************************)
LEMMA mm_freeKeeps ==
    ASSUME IInv, NEW id \in Ids, mm_free(id)
    PROVE  IInv'
<1>1. PICK f : /\ f = MarkFree(mem, owned[id]) /\ mem' = Coalesce(f, owned[id])
               /\ recently_visited' = CoalescedBp(f, owned[id])
  BY DEF mm_free, FreeIn
<1>2. ClientInv' /\ recently_visited' \in Blocks' /\ recently_visited' \in Nat
  BY <1>1, FreeStep DEF mm_free, IInv
<1> QED
  BY <1>2, Elsewhere DEF mm_free, RoverOnBlock, PCs

\* The search starts at the block after the rover: nothing is between.
LEMMA SearchStarts ==
    ASSUME IInv, HeapReady, Blocks' = Blocks,
           UNCHANGED <<mem, mem_brk, recently_visited>>,
           pc' = "scan", bp' = NEXT_BLKP(mem, recently_visited)
    PROVE  SearchProgress' /\ SearchComplete' /\ bp' \in Nat
<1>1. ClientInv /\ recently_visited \in Blocks
  BY DEF IInv, RoverOnBlock
<1> DEFINE next == NEXT_BLKP(mem, recently_visited)
<1>2. /\ next \in Blocks \cup {mem_brk} /\ next > recently_visited /\ next \in Nat
      /\ \A b \in Blocks : recently_visited < b => next <= b
      /\ \A b \in Blocks : b \in Nat
  <2>1. /\ \A b \in Blocks :
             /\ b \in Nat /\ NEXT_BLKP(mem, b) \in Blocks \cup {mem_brk}
             /\ b < NEXT_BLKP(mem, b)
        /\ \A b, c \in Blocks : b < c => NEXT_BLKP(mem, b) <= c
        /\ mem_brk \in Nat
    BY <1>1, BlockFacts
  <2>2. /\ next \in Blocks \cup {mem_brk} /\ recently_visited < next
        /\ \A b \in Blocks : recently_visited < b => next <= b
        /\ recently_visited \in Nat
    BY <1>1, <2>1
  <2> HIDE DEF next
  <2> QED
    BY <2>1, <2>2
<1> HIDE DEF next
<1>3. \A b \in Blocks : ~(recently_visited < b /\ b < next)
  BY <1>2
<1> QED
  BY <1>2, <1>3 DEF SearchProgress, SearchComplete, next

LEMMA mm_mallocKeeps ==
    ASSUME IInv, NEW id \in Ids, NEW size \in Sizes, mm_malloc(id, size)
    PROVE  IInv'
<1>1. /\ pc = "idle" /\ CallStarts(id, size, NULL)
      /\ UNCHANGED <<reqsize, ptr, ret, recently_visited, mem, mem_brk, mem_max_addr>>
  BY DEF mm_malloc, CallStarts, memVars
<1>2. ClientInv /\ HeapReady /\ recently_visited \in Blocks /\ recently_visited \in Nat
  BY <1>1 DEF IInv, HeapReady, RoverOnBlock
<1>3. CASE pc' = "return" /\ bp' = NULL
  <2>1. ClientInv' /\ Blocks' = Blocks
    BY <1>1, <1>2, <1>3, MallocStep DEF NULL
  <2> QED
    BY <1>1, <1>2, <1>3, <2>1, Elsewhere DEF RoverOnBlock, PCs
<1>4. CASE pc' = "scan" /\ bp' = NEXT_BLKP(mem, recently_visited)
  <2>1. bp' \in Nat
    BY <1>2, <1>4, BlockFacts
  <2>2. ClientInv' /\ Blocks' = Blocks
    BY <1>1, <1>2, <1>4, <2>1, MallocStep
  <2>3. SearchProgress' /\ SearchComplete'
    BY <1>1, <1>2, <1>4, <2>2, SearchStarts
  <2> QED
    BY <1>1, <1>2, <1>4, <2>2, <2>3 DEF IInv, RoverOnBlock, PCs
<1> QED
  BY <1>3, <1>4 DEF mm_malloc

LEMMA mm_reallocKeeps ==
    ASSUME IInv, NEW id \in Ids, NEW size \in Sizes, mm_realloc(id, size)
    PROVE  IInv'
<1>1. /\ pc = "idle" /\ owned[id] # NULL /\ CallStarts(id, size, owned[id])
      /\ UNCHANGED <<reqsize, ret, mem_brk, mem_max_addr>>
  BY DEF mm_realloc, CallStarts
<1>2. ClientInv /\ HeapReady /\ recently_visited \in Blocks /\ recently_visited \in Nat
  BY <1>1 DEF IInv, HeapReady, RoverOnBlock
<1>3. CASE FreeIn(mem, owned[id]) /\ pc' = "return" /\ UNCHANGED <<bp, ptr>>
  <2>1. PICK f : /\ f = MarkFree(mem, owned[id]) /\ mem' = Coalesce(f, owned[id])
                 /\ recently_visited' = CoalescedBp(f, owned[id])
    BY <1>3 DEF FreeIn
  <2>2. ClientInv' /\ recently_visited' \in Blocks' /\ recently_visited' \in Nat
    BY <1>1, <1>2, <1>3, <2>1, ReallocFreesStep
  <2> QED
    BY <1>3, <2>2, Elsewhere DEF RoverOnBlock, PCs
<1>4. CASE /\ ptr' = owned[id] /\ pc' = "scan"
           /\ bp' = NEXT_BLKP(mem, recently_visited)
           /\ UNCHANGED <<mem, recently_visited>>
  <2>1. bp' \in Nat
    BY <1>2, <1>4, BlockFacts
  <2>2. ClientInv' /\ Blocks' = Blocks
    BY <1>1, <1>2, <1>4, <2>1, ReallocStep
  <2>3. SearchProgress' /\ SearchComplete'
    BY <1>1, <1>2, <1>4, <2>2, SearchStarts
  <2> QED
    BY <1>2, <1>4, <2>2, <2>3 DEF IInv, RoverOnBlock, PCs
<1> QED
  BY <1>3, <1>4 DEF mm_realloc

LEMMA CopyKeeps ==
    ASSUME IInv, Copy
    PROVE  IInv'
<1> DEFINE n == CopySize
           m == memcpy(mem, ret, ptr, n)
<1>1. /\ ClientInv /\ pc = "copy" /\ ptr' = NULL /\ pc' = "return" /\ FreeIn(m, ptr)
      /\ UNCHANGED <<owned, reqsize, call, bp, ret, mem_brk, mem_max_addr>>
  BY DEF Copy, IInv
<1>2. PICK f : /\ f = MarkFree(m, ptr) /\ mem' = Coalesce(f, ptr)
               /\ recently_visited' = CoalescedBp(f, ptr)
  BY <1>1 DEF FreeIn
<1>3. n \in Nat /\ n + 8 <= GET_SIZE(mem, HDRP(ret)) /\ OnlyWrites(mem, m, ret, n)
  BY <1>1, CopyInside DEF CopySize
<1> HIDE DEF n, m
<1>4. ClientInv' /\ recently_visited' \in Blocks' /\ recently_visited' \in Nat
  BY <1>1, <1>2, <1>3, CopyStep
<1> QED
  BY <1>1, <1>4, Elsewhere DEF RoverOnBlock, PCs

LEMMA mm_initKeeps ==
    ASSUME IInv, mm_init
    PROVE  IInv'
<1> DEFINE brk == mem_brk + 4 * WSIZE
           size == ExtendBytes(CHUNKSIZE \div WSIZE)
           n == NewBlock(EmptyHeap(mem, mem_brk), brk, size)
<1>1. ClientInv /\ pc = "init" /\ recently_visited \in Nat
  BY DEF mm_init, IInv
<1>2. CASE /\ InitFails
           /\ \/ UNCHANGED <<mem, mem_brk>>
              \/ /\ ~SbrkFails(mem_brk, 4 * WSIZE)
                 /\ mem' = EmptyHeap(mem, mem_brk) /\ mem_brk' = brk
  <2>1. /\ pc' = "failed"
        /\ UNCHANGED <<owned, reqsize, call, bp, ptr, ret, recently_visited, mem_max_addr>>
    BY <1>2 DEF InitFails
  <2>2. ClientInv'
    BY <1>1, <1>2, <2>1, InitFailsStep
  <2> QED
    BY <1>1, <2>1, <2>2, Elsewhere DEF RoverOnBlock, HeapReady, PCs
<1>3. CASE /\ ~SbrkFails(brk, size) /\ mem' = Coalesce(n, brk) /\ mem_brk' = brk + size
           /\ recently_visited' = CoalescedBp(n, brk) /\ pc' = "idle"
           /\ UNCHANGED <<owned, reqsize, call, bp, ptr, ret, mem_max_addr>>
  <2>1. ClientInv' /\ recently_visited' \in Blocks' /\ recently_visited' \in Nat
    BY <1>1, <1>3, InitStep
  <2> QED
    BY <1>3, <2>1, Elsewhere DEF RoverOnBlock, PCs
<1> QED
  <2> HIDE DEF size
  <2> QED
    BY <1>2, <1>3 DEF mm_init, size

(***************************************************************************)
(* The theorems                                                            *)
(***************************************************************************)
LEMMA InitIInv ==
    ASSUME Init
    PROVE  IInv
<1>1. ClientInv /\ pc = "init" /\ recently_visited = 0
  BY InitialState DEF Init, ClientInit, NULL
<1> QED
  BY <1>1 DEF IInv, RoverOnBlock, HeapReady, SearchProgress, SearchComplete, PCs

LEMMA ReturnKeeps ==
    ASSUME IInv, Return \/ Returns(mem), UNCHANGED recently_visited
    PROVE  IInv'
<1>1. ClientInv' /\ Blocks' = Blocks /\ pc = "return" /\ pc' = "idle"
  BY ReturnStep DEF IInv, Return, Returns
<1> QED
  BY <1>1, Elsewhere DEF IInv, RoverOnBlock, HeapReady, PCs

LEMMA NewTraceKeeps ==
    ASSUME IInv, NewTrace, UNCHANGED recently_visited
    PROVE  IInv'
<1>1. ClientInv' /\ pc' = "init"
  BY NewTraceStep DEF IInv
<1> QED
  BY <1>1, Elsewhere DEF IInv, RoverOnBlock, HeapReady, PCs

LEMMA StutterKeeps ==
    ASSUME IInv, UNCHANGED vars
    PROVE  IInv'
<1>1. UNCHANGED <<memVars, clientVars, recently_visited>>
  BY DEF vars
<1>2. ClientInv' /\ Blocks' = Blocks /\ HeapReady' = HeapReady
  BY <1>1, StutterStep DEF IInv
<1>3. UNCHANGED <<mem, mem_brk, pc, call, bp>>
  BY <1>1 DEF memVars, clientVars
<1>4. asize' = asize /\ heap_listp' = heap_listp
  BY <1>3 DEF asize, heap_listp
<1> QED
  BY <1>1, <1>2, <1>3, <1>4 DEF IInv, RoverOnBlock, SearchProgress, SearchComplete

LEMMA RunKeeps ==
    ASSUME IInv, Run
    PROVE  IInv' /\ PackageStep
<1> DEFINE size == ExtendBytes(MAX(asize, CHUNKSIZE) \div WSIZE)
<1>1. ClientInv /\ mem_brk \in Nat /\ size \in Nat
  BY CallSize, ExtensionOK, BreakGrows DEF IInv, BlockSize
<1> HIDE DEF size
<1>2. CASE mm_init
  BY <1>1, <1>2, BreakGrows, mm_initKeeps DEF mm_init, PackageStep, InitFails
<1>3. CASE Scan
  BY <1>1, <1>3, ScanKeeps DEF Scan, Found, Searching, Allocated, PackageStep
<1>4. CASE Wrap
  BY <1>1, <1>4, WrapKeeps DEF Wrap, Found, Searching, Allocated, PackageStep
<1>5. CASE Extend
  BY <1>1, <1>5, ExtendKeeps DEF Extend, Allocated, PackageStep, size
<1>6. CASE Copy
  BY <1>1, <1>6, CopyKeeps DEF Copy, PackageStep
<1> QED
  BY <1>2, <1>3, <1>4, <1>5, <1>6 DEF Run

LEMMA NextIInv ==
    ASSUME IInv, [Next]_vars
    PROVE  IInv'
<1>1. CASE Run
  BY <1>1, RunKeeps
<1>2. CASE \E id \in Ids : mm_free(id)
  BY <1>2, mm_freeKeeps
<1>3. CASE \E id \in Ids, size \in Sizes : mm_malloc(id, size)
  BY <1>3, mm_mallocKeeps
<1>4. CASE \E id \in Ids, size \in Sizes : mm_realloc(id, size)
  BY <1>4, mm_reallocKeeps
<1>5. CASE Return /\ UNCHANGED recently_visited
  BY <1>5, ReturnKeeps
<1>6. CASE NewTrace /\ UNCHANGED recently_visited
  BY <1>6, NewTraceKeeps
<1>7. CASE UNCHANGED vars
  BY <1>7, StutterKeeps
<1> QED
  BY <1>1, <1>2, <1>3, <1>4, <1>5, <1>6, <1>7 DEF Next

\* The inductive invariant holds in every reachable state.
THEOREM DongukInvariant == Spec => []IInv
<1>1. Init => IInv
  BY InitIInv
<1>2. IInv /\ [Next]_vars => IInv'
  BY NextIInv
<1> QED
  BY <1>1, <1>2, PTL DEF Safety, Spec

\* The variables of the allocator, of memlib and of the client keep their types.
THEOREM DongukTypeCorrect == Spec => []TypeOK
<1>1. IInv => TypeOK
  BY DEF IInv, ClientInv, TypeOK
<1> QED
  BY <1>1, DongukInvariant, PTL

\* Every call leaves a heap of well formed, coalesced blocks, allocated exactly
\* where the client owns one.
THEOREM DongukHeapOK == Spec => []HeapOK
<1>1. IInv => HeapOK
  BY DEF IInv, ClientInv
<1> QED
  BY <1>1, DongukInvariant, PTL

\* The rover recently_visited never points into the middle of a block.
THEOREM DongukRoverOnBlock == Spec => []RoverOnBlock
<1>1. IInv => RoverOnBlock
  BY DEF IInv
<1> QED
  BY <1>1, DongukInvariant, PTL

\* The heap grows only when no free block is large enough.
THEOREM DongukSearchComplete == Spec => []SearchComplete
<1>1. IInv => SearchComplete
  BY DEF IInv
<1> QED
  BY <1>1, DongukInvariant, PTL

\* Neither loop of find_fit passes over a free block that is large enough, or
\* looks at anything but a block.
THEOREM DongukSearchProgress == Spec => []SearchProgress
<1>1. IInv => SearchProgress
  BY DEF IInv
<1> QED
  BY <1>1, DongukInvariant, PTL

\* What mdriver checks after every call: no two payloads overlap, all are
\* aligned and inside the heap.
THEOREM DongukPayloadsDisjoint == Spec => []PayloadsDisjoint
<1>1. IInv => PayloadsDisjoint
  BY BlocksHoldPayloads DEF IInv
<1> QED
  BY <1>1, DongukInvariant, PTL

(***************************************************************************)
(* The refinement                                                          *)
(***************************************************************************)
LEMMA NextContract ==
    ASSUME IInv, IInv', [Next]_vars
    PROVE  ContractStep
<1>1. ClientInv /\ ClientInv' /\ BlockSize(asize)
  BY CallSize DEF IInv
<1>2. CASE mm_init
  BY <1>1, <1>2, InitContract DEF mm_init, InitFails
<1>3. CASE Scan
  <2>1. /\ pc = "scan" /\ InSearch /\ HeapReady
        /\ UNCHANGED <<owned, reqsize, call, ptr, mem_max_addr>>
    BY <1>3 DEF Scan, InSearch, HeapReady
  <2>2. CASE \E next, b : next \in {"scan", "wrap"} /\ Searching(next, b)
    BY <1>1, <2>1, <2>2, SearchContract DEF Searching, HeapReady
  <2>3. CASE GET_SIZE(mem, HDRP(bp)) # 0 /\ Fits(mem, bp, asize) /\ Found(bp)
    <3>1. bp \in Blocks
      BY <1>1, <2>1, <2>3, BlockFacts DEF IInv, SearchProgress
    <3> QED
      BY <1>1, <2>1, <2>3, <3>1, FoundContract DEF Found, Allocated
  <2> QED
    BY <1>3, <2>2, <2>3 DEF Scan
<1>4. CASE Wrap
  <2>1. /\ pc = "wrap" /\ InSearch /\ HeapReady
        /\ UNCHANGED <<owned, reqsize, call, ptr, mem_max_addr>>
    BY <1>4 DEF Wrap, InSearch, HeapReady
  <2>2. CASE \E next, b : next \in {"wrap", "extend"} /\ Searching(next, b)
    BY <1>1, <2>1, <2>2, SearchContract DEF Searching, HeapReady
  <2>3. CASE /\ WrapGoesOn /\ Fits(mem, NEXT_BLKP(mem, bp), asize)
             /\ Found(NEXT_BLKP(mem, bp))
    <3>1. NEXT_BLKP(mem, bp) \in Blocks
      BY <2>1, <2>3, WrapNext DEF WrapGoesOn
    <3> QED
      BY <1>1, <2>1, <2>3, <3>1, FoundContract DEF Found, Allocated
  <2> QED
    BY <1>4, <2>2, <2>3 DEF Wrap
<1>5. CASE Extend
  <2> DEFINE size == ExtendBytes(MAX(asize, CHUNKSIZE) \div WSIZE)
             n == NewBlock(mem, mem_brk, size)
             b == CoalescedBp(n, mem_brk)
  <2>1. /\ pc = "extend" /\ InSearch /\ HeapReady
        /\ UNCHANGED <<owned, reqsize, call, ptr, mem_max_addr>>
    BY <1>5 DEF Extend, InSearch, HeapReady
  <2>2. CASE pc' = "return" /\ UNCHANGED <<mem, ret>>
    BY <1>1, <2>1, <2>2, SearchContract DEF HeapReady
  <2>3. CASE ~SbrkFails(mem_brk, size) /\ Allocated(Coalesce(n, mem_brk), b)
    BY <1>1, <2>1, <2>3, ExtendContract DEF Allocated
  <2> HIDE DEF size
  <2> QED
    BY <1>5, <2>2, <2>3 DEF Extend, size
<1>6. CASE Copy
  <2>1. PICK f : f = MarkFree(memcpy(mem, ret, ptr, CopySize), ptr) /\ mem' = Coalesce(f, ptr)
    BY <1>6 DEF Copy, FreeIn
  <2>2. /\ pc = "copy" /\ ptr' = NULL /\ pc' = "return"
        /\ UNCHANGED <<owned, reqsize, call, ret>>
    BY <1>6 DEF Copy
  <2>3. /\ CopySize \in Nat /\ CopySize + 8 <= GET_SIZE(mem, HDRP(ret))
        /\ OnlyWrites(mem, memcpy(mem, ret, ptr, CopySize), ret, CopySize)
        /\ PrefixKept(memcpy(mem, ret, ptr, CopySize), ptr, ret, reqsize[call.id], call.size)
    BY <1>1, <2>2, CopyInside, memcpyPrefix DEF CopySize
  <2> QED
    BY <1>1, <2>1, <2>2, <2>3, CopyContract
<1>7. CASE \E id \in Ids : mm_free(id)
  <2>1. PICK id \in Ids : mm_free(id)
    BY <1>7
  <2>2. PICK f : f = MarkFree(mem, owned[id]) /\ mem' = Coalesce(f, owned[id])
    BY <2>1 DEF mm_free, FreeIn
  <2>3. \A i \in Ids : /\ owned'[i] = IF i = id THEN NULL ELSE owned[i]
                       /\ i # id => reqsize'[i] = reqsize[i]
    BY <1>1, <2>1 DEF mm_free, ClientInv, ClientTypeOK
  <2> QED
    BY <1>1, <2>1, <2>2, <2>3, FreeContract DEF mm_free
<1>8. CASE \E id \in Ids, size \in Sizes : mm_malloc(id, size)
  <2>1. PICK id \in Ids, size \in Sizes : mm_malloc(id, size)
    BY <1>8
  <2>2. /\ CallStarts(id, size, NULL) /\ pc' \in {"return", "scan"}
        /\ UNCHANGED <<reqsize, ptr, ret, mem>>
    BY <2>1 DEF mm_malloc, memVars
  <2> QED
    BY <1>1, <2>2, MallocContract
<1>9. CASE \E id \in Ids, size \in Sizes : mm_realloc(id, size)
  <2>1. PICK id \in Ids, size \in Sizes : mm_realloc(id, size)
    BY <1>9
  <2>2. /\ owned[id] # NULL /\ CallStarts(id, size, owned[id])
        /\ UNCHANGED <<reqsize, ret>>
    BY <2>1 DEF mm_realloc
  <2>3. CASE FreeIn(mem, owned[id]) /\ pc' = "return" /\ UNCHANGED ptr
    <3>1. PICK f : f = MarkFree(mem, owned[id]) /\ mem' = Coalesce(f, owned[id])
      BY <2>3 DEF FreeIn
    <3>2. /\ pc = "idle" /\ call'.id = id
          /\ \A i \in Ids : owned'[i] = IF i = id THEN NULL ELSE owned[i]
      BY <1>1, <2>2 DEF CallStarts, ClientInv, ClientTypeOK
    <3> QED
      BY <1>1, <2>2, <2>3, <3>1, <3>2, FreeContract
  <2>4. CASE ptr' = owned[id] /\ pc' = "scan" /\ UNCHANGED mem
    BY <1>1, <2>2, <2>4, ReallocContract
  <2> QED
    BY <2>1, <2>3, <2>4 DEF mm_realloc
<1>10. CASE Return
  BY <1>1, <1>10, ReturnContract
<1>11. CASE NewTrace
  BY <1>11, NewTraceContract
<1>12. CASE UNCHANGED vars
  BY <1>12, StutterContract DEF vars
<1> QED
  BY <1>2, <1>3, <1>4, <1>5, <1>6, <1>7, <1>8, <1>9, <1>10, <1>11, <1>12 DEF Next, Run

\* The allocator implements the contract of malloc, free and realloc: no call
\* moves, resizes or overwrites the block of another id, and mm_realloc keeps
\* the words that fit in both sizes.
THEOREM DongukImplementsContract == Spec => ImplementsContract
<1>1. Init => Contract!Init
  BY ContractInit DEF Init
<1>2. IInv /\ IInv' /\ [Next]_vars => [Contract!Next]_(Contract!vars)
  BY NextContract DEF ContractStep
<1> QED
  BY <1>1, <1>2, DongukInvariant, PTL DEF Spec, Safety, ImplementsContract, Contract!Spec

(***************************************************************************)
(* The view                                                                *)
(***************************************************************************)
View == ViewOf(recently_visited)

ScanRuns(v) ==
    LET m == MemOf(v)
        a == AdjustedSize(v.call.size)
    IN  IF GET_SIZE(m, HDRP(v.bp)) = 0 THEN SearchesAt(v, "wrap", heap_listp)
        ELSE IF Fits(m, v.bp, a) THEN Finds(v, v.bp, a)
        ELSE SearchesAt(v, "scan", NEXT_BLKP(m, v.bp))

WrapRuns(v) ==
    LET next == NEXT_BLKP(MemOf(v), v.bp)
        a == AdjustedSize(v.call.size)
    IN  IF ~(v.bp < v.rover) THEN SearchesAt(v, "extend", NULL)
        ELSE IF Fits(MemOf(v), next, a) THEN Finds(v, next, a)
        ELSE SearchesAt(v, "wrap", next)

Runs(v) ==
    CASE v.pc = "init" -> Inits(v, FirstBlock)
      [] v.pc = "scan" -> ScanRuns(v)
      [] v.pc = "wrap" -> WrapRuns(v)
      [] v.pc = "extend" -> Grows(v, AdjustedSize(v.call.size))
      [] v.pc = "copy" -> Frees(v, "return", v.call, v.owned, v.ptr)
      [] OTHER -> v

\* What a request of the client does: mm_malloc, mm_realloc or mm_free.
Mallocs(v, id, size) ==
    IF size = 0 THEN Enters(v, id, size, "return", NULL, NULL, NULL, v.sizes)
    ELSE Enters(v, id, size, "scan", NULL, NULL, NEXT_BLKP(MemOf(v), v.rover), v.sizes)

Reallocs(v, id, size) ==
    IF size = 0
    THEN Frees(v, "return", CallOf(id, size), Without(v.owned, id), v.owned[id])
    ELSE Enters(v, id, size, "scan", v.owned[id], NULL, NEXT_BLKP(MemOf(v), v.rover), v.sizes)

LEMMA FoundSeen ==
    ASSUME IInv, pc \in {"scan", "wrap"}, NEW b \in Blocks, Fits(mem, b, asize), Found(b),
           UNCHANGED <<owned, reqsize, call, ptr, mem_max_addr>>
    PROVE  ViewNext(recently_visited') = Finds(View, b, asize)
<1>1. ClientInv /\ InSearch /\ BlockSize(asize)
  BY CallSize DEF IInv, InSearch
<1>2. /\ mem' = Place(mem, b, asize) /\ ret' = b
      /\ pc' = IF ptr = NULL THEN "return" ELSE "copy"
      /\ recently_visited' = b /\ mem_brk' = mem_brk
  BY DEF Found, Allocated
<1>3. PICK a : a = asize
  OBVIOUS
<1>4. ViewNext(b) = Finds(View, b, a)
  BY <1>1, <1>2, <1>3, FoundView DEF View
<1> QED
  BY <1>2, <1>3, <1>4

LEMMA SearchSeen ==
    ASSUME IInv, pc \in {"scan", "wrap"}, NEW next \in {"scan", "wrap", "extend"}, NEW b,
           Searching(next, b), UNCHANGED <<owned, reqsize, call, ptr, mem_max_addr>>
    PROVE  ViewNext(recently_visited') = SearchesAt(View, next, b)
<1>1. /\ ClientInv /\ InSearch /\ InSearch' /\ pc' = next /\ bp' = b
      /\ UNCHANGED <<mem, mem_brk, recently_visited, ret>>
  BY DEF IInv, InSearch, Searching
<1>2. ViewNext(recently_visited) = SearchesAt(View, pc', bp')
  BY <1>1, SearchView DEF View
<1> QED
  BY <1>1, <1>2

LEMMA ScanSeen ==
    ASSUME IInv, Scan
    PROVE  ViewNext(recently_visited') = ScanRuns(View)
<1>1. pc = "scan" /\ UNCHANGED <<owned, reqsize, call, ptr, mem_max_addr>>
  BY DEF Scan
<1>2. ClientInv /\ HeapReady /\ InSearch /\ bp \in Blocks \cup {mem_brk}
  BY <1>1 DEF IInv, HeapReady, InSearch, SearchProgress
<1> DEFINE v == View
           m == MemOf(v)
<1>3. /\ v.pc = pc /\ v.call = call /\ v.bp = bp /\ v.brk = mem_brk
      /\ Alike(mem, m, mem_brk, Live)
  BY <1>1, <1>2, ViewNow DEF View
<1> HIDE DEF m, v
<1>4. /\ GET_SIZE(mem, HDRP(bp)) = GET_SIZE(m, HDRP(bp))
      /\ NEXT_BLKP(mem, bp) = NEXT_BLKP(m, bp)
      /\ Fits(mem, bp, asize) <=> Fits(m, bp, asize)
  BY <1>2, <1>3, SameHeaders DEF Blocks
<1>5. ScanRuns(v) =
        IF GET_SIZE(m, HDRP(bp)) = 0 THEN SearchesAt(v, "wrap", heap_listp)
        ELSE IF Fits(m, bp, asize) THEN Finds(v, bp, asize)
        ELSE SearchesAt(v, "scan", NEXT_BLKP(m, bp))
  BY <1>3 DEF ScanRuns, asize, m
<1>6. CASE GET_SIZE(mem, HDRP(bp)) = 0 /\ Searching("wrap", heap_listp)
  BY <1>1, <1>4, <1>5, <1>6, SearchSeen DEF v
<1>7. CASE GET_SIZE(mem, HDRP(bp)) # 0 /\ Fits(mem, bp, asize) /\ Found(bp)
  <2>1. bp \in Blocks
    BY <1>2, <1>7, BlockFacts
  <2> QED
    BY <1>1, <1>4, <1>5, <1>7, <2>1, FoundSeen DEF v
<1>8. CASE /\ GET_SIZE(mem, HDRP(bp)) # 0 /\ ~Fits(mem, bp, asize)
           /\ Searching("scan", NEXT_BLKP(mem, bp))
  BY <1>1, <1>4, <1>5, <1>8, SearchSeen DEF v
<1> QED
  BY <1>6, <1>7, <1>8 DEF Scan, v

LEMMA WrapSeen ==
    ASSUME IInv, Wrap
    PROVE  ViewNext(recently_visited') = WrapRuns(View)
<1>1. pc = "wrap" /\ UNCHANGED <<owned, reqsize, call, ptr, mem_max_addr>>
  BY DEF Wrap
<1>2. /\ ClientInv /\ HeapReady /\ InSearch /\ bp \in Blocks \cup {heap_listp}
      /\ heap_listp = 8
  BY <1>1 DEF IInv, HeapReady, InSearch, SearchProgress, heap_listp, mem_start_brk, DSIZE
<1> DEFINE v == View
           m == MemOf(v)
           next == NEXT_BLKP(mem, bp)
<1>3. /\ v.pc = pc /\ v.call = call /\ v.bp = bp /\ v.brk = mem_brk
      /\ v.rover = recently_visited /\ Alike(mem, m, mem_brk, Live)
  BY <1>1, <1>2, ViewNow DEF View
<1> HIDE DEF m, v
<1>4. next = NEXT_BLKP(m, bp)
  BY <1>2, <1>3, SameHeaders DEF Blocks
<1>5. WrapRuns(v) =
        IF ~(bp < recently_visited) THEN SearchesAt(v, "extend", NULL)
        ELSE IF Fits(m, next, asize) THEN Finds(v, next, asize)
        ELSE SearchesAt(v, "wrap", next)
  BY <1>3, <1>4 DEF WrapRuns, asize, m
<1>6. ASSUME bp < recently_visited
      PROVE  next \in Blocks /\ (Fits(mem, next, asize) <=> Fits(m, next, asize))
  <2>1. next \in Blocks
    BY <1>1, <1>6, WrapNext
  <2> QED
    BY <1>3, <2>1, SameHeaders DEF Blocks
<1> HIDE DEF next
<1>7. CASE ~(bp < recently_visited) /\ Searching("extend", NULL)
  BY <1>1, <1>5, <1>7, SearchSeen DEF v
<1>8. CASE bp < recently_visited /\ Fits(mem, next, asize) /\ Found(next)
  BY <1>1, <1>5, <1>6, <1>8, FoundSeen DEF v
<1>9. CASE /\ bp < recently_visited /\ ~Fits(mem, next, asize)
           /\ Searching("wrap", next)
  BY <1>1, <1>5, <1>6, <1>9, SearchSeen DEF v
<1> QED
  BY <1>7, <1>8, <1>9 DEF Wrap, WrapGoesOn, v, next

LEMMA ExtendSeen ==
    ASSUME IInv, Extend
    PROVE  ViewNext(recently_visited') = Grows(View, asize)
<1> DEFINE size == ExtendBytes(MAX(asize, CHUNKSIZE) \div WSIZE)
           n == NewBlock(mem, mem_brk, size)
           b == CoalescedBp(n, mem_brk)
<1>1. /\ ClientInv /\ pc = "extend" /\ InSearch /\ BlockSize(asize)
      /\ UNCHANGED <<owned, reqsize, call, ptr, mem_max_addr>>
  BY CallSize DEF Extend, InSearch, IInv
<1>2. PICK a : a = asize
  OBVIOUS
<1>3. size = ExtendBytes(MAX(a, CHUNKSIZE) \div WSIZE)
  BY <1>2
<1> HIDE DEF size
<1>4. CASE /\ SbrkFails(mem_brk, size) /\ pc' = "return"
           /\ UNCHANGED <<mem, mem_brk, recently_visited, bp, ret>>
  <2>1. ViewNext(recently_visited) = Grows(View, a)
    BY <1>1, <1>3, <1>4, GivesUpView DEF View
  <2> QED
    BY <1>2, <1>4, <2>1
<1>5. CASE /\ ~SbrkFails(mem_brk, size) /\ mem_brk' = mem_brk + size
           /\ Allocated(Coalesce(n, mem_brk), b)
  <2>1. /\ mem' = Place(Coalesce(n, mem_brk), b, a)
        /\ ret' = b /\ recently_visited' = b
        /\ pc' = IF ptr = NULL THEN "return" ELSE "copy"
    BY <1>2, <1>5 DEF Allocated
  <2>2. n = NewBlock(mem, mem_brk, size) /\ b = CoalescedBp(n, mem_brk)
    OBVIOUS
  <2> HIDE DEF n, b
  <2>3. ViewNext(b) = Grows(View, a)
    BY <1>1, <1>2, <1>3, <1>5, <2>1, <2>2, GrowsView DEF View
  <2> QED
    BY <1>2, <2>1, <2>3
<1> QED
  BY <1>4, <1>5 DEF Extend, size

LEMMA CopySeen ==
    ASSUME IInv, Copy
    PROVE  LET v == View
           IN  ViewNext(recently_visited') = Frees(v, "return", v.call, v.owned, v.ptr)
<1>1. ClientInv /\ pc = "copy"
  BY DEF IInv, Copy
<1>2. PICK m, f : /\ m = memcpy(mem, ret, ptr, CopySize)
                  /\ f = MarkFree(m, ptr) /\ mem' = Coalesce(f, ptr)
                  /\ recently_visited' = CoalescedBp(f, ptr)
  BY DEF Copy, FreeIn
<1>3. /\ CopySize \in Nat /\ CopySize + 8 <= GET_SIZE(mem, HDRP(ret))
      /\ OnlyWrites(mem, m, ret, CopySize)
  BY <1>1, <1>2, CopyInside DEF CopySize
<1>4. /\ ptr' = NULL /\ pc' = "return"
      /\ UNCHANGED <<owned, call, ret, mem_brk, mem_max_addr>>
  BY DEF Copy
<1>5. PICK v : v = View
  OBVIOUS
<1>6. ViewNext(CoalescedBp(f, ptr)) = Frees(v, "return", v.call, v.owned, v.ptr)
  BY <1>1, <1>2, <1>3, <1>4, <1>5, CopyView DEF View
<1> QED
  BY <1>2, <1>5, <1>6

LEMMA mm_initSeen ==
    ASSUME IInv, mm_init
    PROVE  ViewNext(recently_visited') = Inits(View, FirstBlock)
<1> DEFINE brk == mem_brk + 4 * WSIZE
           size == ExtendBytes(CHUNKSIZE \div WSIZE)
           n == NewBlock(EmptyHeap(mem, mem_brk), brk, size)
<1>1. ClientInv /\ pc = "init" /\ UNCHANGED <<owned, reqsize, call, bp, ptr, ret, mem_max_addr>>
  BY DEF IInv, mm_init, InitFails
<1>2. \/ SbrkFails(mem_brk, 4 * WSIZE) /\ pc' = "failed" /\ mem_brk' = mem_brk
      \/ /\ ~SbrkFails(mem_brk, 4 * WSIZE) /\ SbrkFails(brk, size)
         /\ pc' = "failed" /\ mem_brk' = brk
      \/ /\ ~SbrkFails(mem_brk, 4 * WSIZE) /\ ~SbrkFails(brk, size)
         /\ pc' = "idle" /\ mem_brk' = brk + size
         /\ mem' = Coalesce(n, brk) /\ recently_visited' = CoalescedBp(n, brk)
  <2> HIDE DEF size
  <2> QED
    BY DEF mm_init, InitFails, size
<1>3. ViewNext(FirstBlock) = Inits(View, FirstBlock)
  <2>1. brk = mem_brk + 4 * WSIZE /\ size = ExtendBytes(CHUNKSIZE \div WSIZE)
    OBVIOUS
  <2> HIDE DEF brk, size
  <2> QED
    BY <1>1, <1>2, <2>1, InitView DEF View
<1>4. pc' = "idle" => recently_visited' = FirstBlock
  <2>1. HAVE pc' = "idle"
  <2>2. IInv'
    BY mm_initKeeps
  <2>3. recently_visited' \in Blocks'
    BY <2>1, <2>2 DEF IInv, RoverOnBlock, HeapReady
  <2>4. Live' = {}
    BY <1>1 DEF Live, ClientInv, CallOK, NULL
  <2>5. recently_visited' \in BlocksOf(mem', mem_brk', Live')
    BY <2>3 DEF Blocks
  <2> QED
    BY <2>4, <2>5, LoneBlock DEF FirstBlock
<1>5. pc' # "idle" => ~HeapReady'
  BY <1>2 DEF HeapReady
<1>6. ViewNext(recently_visited') = ViewNext(FirstBlock)
  BY <1>4, <1>5 DEF ViewNext
<1> QED
  BY <1>3, <1>6

LEMMA RunSeen ==
    ASSUME IInv, Run
    PROVE  ViewNext(recently_visited') = Runs(View)
<1>1. View.pc = pc /\ (InSearch => View.call = call)
  <2>1. View = Seen(pc, CallSeen, owned, ptr, ret, BpSeen,
                    IF HeapReady THEN recently_visited ELSE NULL, mem_brk, mem_max_addr,
                    SizesSeen)
    BY DEF View, ViewOf
  <2>2. View.pc = pc /\ View.call = CallSeen
    BY <2>1, SeenFields
  <2> QED
    BY <2>2 DEF CallSeen, InSearch
<1> DEFINE v == View
<1> HIDE DEF v
<1>2. v.pc = pc /\ (InSearch => v.call = call) /\ v = View
  BY <1>1 DEF v
<1>3. CASE mm_init
  BY <1>2, <1>3, mm_initSeen DEF Runs, mm_init
<1>4. CASE Scan
  BY <1>2, <1>4, ScanSeen DEF Runs, Scan
<1>5. CASE Wrap
  BY <1>2, <1>5, WrapSeen DEF Runs, Wrap
<1>6. CASE Extend
  <2>1. pc = "extend" /\ asize = AdjustedSize(v.call.size)
    BY <1>2, <1>6 DEF Extend, InSearch, asize
  <2> QED
    BY <1>2, <1>6, <2>1, ExtendSeen DEF Runs
<1>7. CASE Copy
  BY <1>2, <1>7, CopySeen DEF Runs, Copy
<1> QED
  BY <1>2, <1>3, <1>4, <1>5, <1>6, <1>7 DEF Run

LEMMA mm_freeSeen ==
    ASSUME IInv, NEW id \in Ids, mm_free(id)
    PROVE  ViewNext(recently_visited') = FreesBlock(View, id)
<1>1. PICK f : /\ f = MarkFree(mem, owned[id]) /\ mem' = Coalesce(f, owned[id])
               /\ recently_visited' = CoalescedBp(f, owned[id])
  BY DEF mm_free, FreeIn
<1>2. /\ ClientInv /\ pc = "idle" /\ owned[id] # NULL
      /\ owned' = [owned EXCEPT ![id] = NULL]
      /\ UNCHANGED <<pc, ptr, ret, mem_brk, mem_max_addr>>
  BY DEF mm_free, IInv
<1>3. ViewNext(CoalescedBp(f, owned[id])) = FreesBlock(View, id)
  BY <1>1, <1>2, FreeView DEF View
<1> QED
  BY <1>1, <1>3

\* The search starts after the rover, which is at a block.
LEMMA StartSeen ==
    ASSUME IInv, pc = "idle", NEW v, v = View
    PROVE  /\ ClientInv /\ v.owned = owned /\ ptr = NULL /\ ret = NULL
           /\ NEXT_BLKP(mem, recently_visited) = NEXT_BLKP(MemOf(v), v.rover)
<1>1. ClientInv /\ HeapReady /\ recently_visited \in Blocks
  BY DEF IInv, HeapReady, RoverOnBlock
<1>2. v.owned = owned /\ v.rover = recently_visited /\ Alike(mem, MemOf(v), mem_brk, Live)
  BY <1>1, ViewNow DEF View
<1> QED
  BY <1>1, <1>2, SameHeaders DEF Blocks, ClientInv, CallOK

LEMMA mm_mallocSeen ==
    ASSUME IInv, NEW id \in Ids, NEW size \in Sizes, mm_malloc(id, size)
    PROVE  ViewNext(recently_visited') = Mallocs(View, id, size)
<1>1. /\ pc = "idle" /\ CallStarts(id, size, NULL) /\ owned[id] = NULL
      /\ UNCHANGED <<ptr, ret, recently_visited, mem, mem_brk, mem_max_addr>>
  BY DEF mm_malloc, CallStarts, memVars
<1> DEFINE v == View
<1>2. /\ ClientInv /\ v.owned = owned /\ ptr = NULL /\ ret = NULL
      /\ NEXT_BLKP(mem, recently_visited) = NEXT_BLKP(MemOf(v), v.rover)
  BY <1>1, StartSeen
<1>3. v = ViewOf(recently_visited)
  BY DEF View
<1> HIDE DEF v
<1>4. ptr' = owned[id] /\ ret' = NULL /\ ptr' = NULL /\ CallStarts(id, size, owned[id])
  BY <1>1, <1>2
<1>5. CASE size = 0
  <2>1. pc' = "return" /\ HeapReady' /\ ~InSearch'
    BY <1>5 DEF mm_malloc, HeapReady, InSearch
  <2>2. ViewNext(recently_visited) = Enters(v, id, size, pc', ptr', ret', NULL, v.sizes)
    BY <1>1, <1>2, <1>3, <1>4, <2>1, EntersView
  <2> QED
    BY <1>1, <1>4, <1>5, <2>1, <2>2 DEF Mallocs, v
<1>6. CASE size # 0
  <2>1. /\ pc' = "scan" /\ HeapReady' /\ InSearch'
        /\ bp' = NEXT_BLKP(mem, recently_visited)
    BY <1>6 DEF mm_malloc, HeapReady, InSearch
  <2>2. ViewNext(recently_visited) = Enters(v, id, size, pc', ptr', ret', bp', v.sizes)
    BY <1>1, <1>2, <1>3, <1>4, <2>1, EntersView
  <2> QED
    BY <1>1, <1>2, <1>4, <1>6, <2>1, <2>2 DEF Mallocs, v
<1> QED
  BY <1>5, <1>6

LEMMA mm_reallocSeen ==
    ASSUME IInv, NEW id \in Ids, NEW size \in Sizes, mm_realloc(id, size)
    PROVE  ViewNext(recently_visited') = Reallocs(View, id, size)
<1>1. /\ pc = "idle" /\ owned[id] # NULL /\ CallStarts(id, size, owned[id])
      /\ UNCHANGED <<reqsize, ret, mem_brk, mem_max_addr>>
  BY DEF mm_realloc, CallStarts
<1> DEFINE v == View
<1>2. /\ ClientInv /\ v.owned = owned /\ ptr = NULL /\ ret = NULL
      /\ NEXT_BLKP(mem, recently_visited) = NEXT_BLKP(MemOf(v), v.rover)
  BY <1>1, StartSeen
<1>3. v = ViewOf(recently_visited)
  BY DEF View
<1> HIDE DEF v
<1>4. CASE size = 0
  <2>1. PICK f : /\ f = MarkFree(mem, owned[id]) /\ mem' = Coalesce(f, owned[id])
                 /\ recently_visited' = CoalescedBp(f, owned[id])
                 /\ pc' = "return" /\ UNCHANGED ptr
    BY <1>4 DEF mm_realloc, FreeIn
  <2>2. ViewNext(CoalescedBp(f, owned[id])) =
           Frees(v, "return", CallOf(id, size), Without(v.owned, id), v.owned[id])
    BY <1>1, <1>2, <1>3, <2>1, ReallocFreesView
  <2> QED
    BY <1>4, <2>1, <2>2 DEF Reallocs, v
<1>5. CASE size # 0
  <2>1. /\ pc' = "scan" /\ HeapReady' /\ InSearch' /\ ptr' = owned[id]
        /\ bp' = NEXT_BLKP(mem, recently_visited)
        /\ UNCHANGED <<mem, recently_visited>>
    BY <1>5 DEF mm_realloc, HeapReady, InSearch
  <2>2. ret' = NULL
    BY <1>1, <1>2
  <2>3. ViewNext(recently_visited) = Enters(v, id, size, pc', ptr', ret', bp', v.sizes)
    BY <1>1, <1>2, <1>3, <2>1, <2>2, EntersView
  <2> QED
    BY <1>2, <1>5, <2>1, <2>2, <2>3 DEF Reallocs, v
<1> QED
  BY <1>4, <1>5

(***************************************************************************)
(* What the view becomes is a function of the view, of the request and of  *)
(* nothing else.                                                           *)
(***************************************************************************)
Determined ==
    /\ Run => View' = Runs(View)
    /\ \A id \in Ids : mm_free(id) => View' = FreesBlock(View, id)
    /\ \A id \in Ids, size \in Sizes : mm_malloc(id, size) => View' = Mallocs(View, id, size)
    /\ \A id \in Ids, size \in Sizes : mm_realloc(id, size) => View' = Reallocs(View, id, size)
    /\ (Return \/ Returns(mem)) /\ UNCHANGED recently_visited => View' = Answers(View)
    /\ NewTrace /\ UNCHANGED recently_visited => View' = Fresh(mem_max_addr)
    /\ UNCHANGED vars => View' = View

LEMMA ViewStart ==
    ASSUME IInv
    PROVE  View.pc = pc /\ View.ret = ret /\ (pc = "init" => View = Fresh(mem_max_addr))
<1>1. View = Seen(pc, CallSeen, owned, ptr, ret, BpSeen,
                  IF HeapReady THEN recently_visited ELSE NULL, mem_brk, mem_max_addr, SizesSeen)
  BY DEF View, ViewOf
<1>2. View.pc = pc /\ View.ret = ret
  BY <1>1, SeenFields
<1>3. pc = "init" => View = Fresh(mem_max_addr)
  BY FreshView DEF View, IInv
<1> QED
  BY <1>2, <1>3

LEMMA StepDetermined ==
    ASSUME IInv
    PROVE  Determined
<1>1. View' = ViewNext(recently_visited')
  BY Zenon DEF View, ViewOf, ViewNext
<1>2. View = ViewOf(recently_visited) /\ ClientInv
  BY DEF View, IInv
<1>3. Run => View' = Runs(View)
  BY <1>1, RunSeen
<1>4. \A id \in Ids : mm_free(id) => View' = FreesBlock(View, id)
  BY <1>1, mm_freeSeen
<1>5. \A id \in Ids, size \in Sizes : mm_malloc(id, size) => View' = Mallocs(View, id, size)
  BY <1>1, mm_mallocSeen
<1>6. \A id \in Ids, size \in Sizes : mm_realloc(id, size) => View' = Reallocs(View, id, size)
  BY <1>1, mm_reallocSeen
<1>7. ASSUME UNCHANGED recently_visited
      PROVE  /\ Return \/ Returns(mem) => View' = Answers(View)
             /\ NewTrace => View' = Fresh(mem_max_addr)
  <2>1. View' = ViewNext(recently_visited)
    BY <1>1, <1>7
  <2>2. Return \/ Returns(mem) => ViewNext(recently_visited) = Answers(View)
    BY <1>2, ReturnView
  <2>3. NewTrace => ViewNext(recently_visited) = Fresh(mem_max_addr)
    BY <1>2, NewTraceView
  <2> QED
    BY <2>1, <2>2, <2>3
<1>8. UNCHANGED vars => View' = View
  <2>1. SUFFICES ASSUME UNCHANGED vars PROVE View' = View
    OBVIOUS
  <2>2. UNCHANGED memVars /\ UNCHANGED clientVars /\ recently_visited' = recently_visited
    BY <2>1 DEF vars
  <2>3. ViewNext(recently_visited) = ViewOf(recently_visited)
    BY <2>2, StutterView
  <2> QED
    BY <1>1, <1>2, <2>2, <2>3
<1> QED
  BY <1>3, <1>4, <1>5, <1>6, <1>7, <1>8 DEF Determined

\* Where donguk's allocator puts a block does not depend on what earlier traces or
\* the client have left in the storage: every step takes the view, in which the
\* sizes of the allocated blocks stand for the words, to one that only the view
\* and the request determine.
THEOREM DongukDetermined == Spec => [][Determined]_vars
<1>1. IInv => Determined
  BY StepDetermined
<1> QED
  BY <1>1, DongukInvariant, PTL
=============================================================================
