--------------------------- MODULE SungjooMmProofs --------------------------
(***************************************************************************)
(* The inductive invariant of SungjooMm, the safety theorems, and that its *)
(* searches choose as donguk's do.  What each step does to the heap and to *)
(* the client's blocks is in MmClientProofs; here are last_bp and the two  *)
(* searches.                                                               *)
(***************************************************************************)
EXTENDS SungjooMm, MmClientProofs

\* What the searches have looked at: next_fit everything between last_bp and
\* bp; find_fit, which starts at the prologue, everything before bp, and what
\* next_fit has seen.
Searched ==
    /\ pc = "scan" =>
         /\ bp \in Blocks \cup {mem_brk}
         /\ bp > last_bp
         /\ \A b \in Blocks : last_bp < b /\ b < bp => ~Fits(mem, b, asize)
    /\ pc = "first" =>
         /\ bp \in Blocks \cup {heap_listp, mem_brk}
         /\ \A b \in Blocks : b > last_bp \/ b < bp => ~Fits(mem, b, asize)

IInv ==
    /\ ClientInv
    /\ pc \in PCs
    /\ last_bp \in Nat
    /\ RoverOnBlock
    /\ Searched
    /\ SearchComplete

LEMMA CallSize ==
    ASSUME ClientInv
    PROVE  BlockSize(asize) /\ asize >= call.size + 8
  BY CallType, AdjustedSizeOK DEF asize

\* After a step that leaves the search, only the rover is left to check.
LEMMA Elsewhere ==
    ASSUME ClientInv', pc' \in PCs \ {"scan", "first", "extend"},
           last_bp' \in Nat, RoverOnBlock'
    PROVE  IInv'
  BY DEF IInv, Searched, SearchComplete

(***************************************************************************)
(* The steps of the search                                                 *)
(***************************************************************************)
LEMMA SearchKeeps ==
    ASSUME IInv, pc \in {"scan", "first"}, pc' \in {"scan", "first", "extend"}, bp' \in Nat,
           UNCHANGED <<owned, reqsize, call, ptr, ret, mem, mem_brk, mem_max_addr, last_bp>>,
           Searched', SearchComplete'
    PROVE  IInv'
<1>1. ClientInv' /\ Blocks' = Blocks
  BY SearchStep DEF IInv, InSearch
<1> QED
  BY <1>1 DEF IInv, RoverOnBlock, HeapReady, PCs

LEMMA FoundKeeps ==
    ASSUME IInv, pc \in {"scan", "first"}, NEW b \in Blocks, Fits(mem, b, asize),
           Allocated(mem, b),
           UNCHANGED <<owned, reqsize, call, ptr, mem_brk, mem_max_addr>>
    PROVE  IInv'
<1>1. BlockSize(asize) /\ asize >= call.size + 8
  BY CallSize DEF IInv
<1>2. /\ mem' = Place(mem, b, asize) /\ ret' = b /\ bp' = NULL
      /\ pc' = IF ptr = NULL THEN "return" ELSE "copy"
      /\ last_bp' = b
  BY DEF Allocated
<1>3. ClientInv' /\ b \in Blocks' /\ b \in Nat
  BY <1>1, <1>2, FoundStep DEF IInv, InSearch
<1> QED
  BY <1>2, <1>3, Elsewhere DEF RoverOnBlock, PCs

\* The heap as the searches see it: the prologue before the blocks, the
\* epilogue after them.
LEMMA ListFacts ==
    ASSUME IInv, pc \in {"scan", "first"}
    PROVE  /\ ClientInv /\ HeapReady /\ last_bp \in Blocks
           /\ Blocks \in SUBSET Nat /\ mem_brk \in Nat /\ 16 \in Blocks
           /\ \A b \in Blocks :
                /\ b \in Nat /\ b >= 16 /\ b < mem_brk
                /\ GET_SIZE(mem, HDRP(b)) > 0 /\ GET_SIZE(mem, HDRP(b)) \in Nat
                /\ NEXT_BLKP(mem, b) \in Blocks \cup {mem_brk}
                /\ b < NEXT_BLKP(mem, b)
           /\ \A b, c \in Blocks : b < c => NEXT_BLKP(mem, b) <= c
           /\ GET_SIZE(mem, HDRP(mem_brk)) = 0 /\ heap_listp = 8
           /\ GET_SIZE(mem, HDRP(8)) = 8 /\ NEXT_BLKP(mem, 8) = 16
           /\ \A a : ~Fits(mem, 8, a)
<1>1. ClientInv /\ HeapReady /\ last_bp \in Blocks
  BY DEF IInv, HeapReady, RoverOnBlock
<1>2. \A a : ~Fits(mem, 8, a)
  BY <1>1, BlockFacts DEF Fits
<1>3. heap_listp = 8
  BY DEF heap_listp, mem_start_brk, WSIZE
<1> QED
  BY <1>1, <1>2, <1>3, BlockFacts

LEMMA next_fitKeeps ==
    ASSUME IInv, next_fit
    PROVE  IInv'
<1>1. /\ pc = "scan" /\ Step("first", heap_listp)
      /\ UNCHANGED <<owned, reqsize, call, ptr, mem_brk, mem_max_addr>>
  BY DEF next_fit, Step
<1>2. /\ bp \in Blocks \cup {mem_brk} /\ bp > last_bp
      /\ \A b \in Blocks : last_bp < b /\ b < bp => ~Fits(mem, b, asize)
  BY <1>1 DEF IInv, Searched
<1>3. /\ last_bp \in Blocks /\ Blocks \in SUBSET Nat /\ mem_brk \in Nat
      /\ \A b \in Blocks :
           /\ b \in Nat /\ b >= 16 /\ b < mem_brk
           /\ GET_SIZE(mem, HDRP(b)) > 0 /\ GET_SIZE(mem, HDRP(b)) \in Nat
           /\ NEXT_BLKP(mem, b) \in Blocks \cup {mem_brk}
           /\ b < NEXT_BLKP(mem, b)
      /\ \A b, c \in Blocks : b < c => NEXT_BLKP(mem, b) <= c
      /\ GET_SIZE(mem, HDRP(mem_brk)) = 0 /\ heap_listp = 8
  BY <1>1, ListFacts
<1>4. CASE GET_SIZE(mem, HDRP(bp)) = 0 /\ Searching("first", heap_listp)
  <2>1. bp = mem_brk
    BY <1>2, <1>3, <1>4
  <2>2. /\ pc' = "first" /\ bp' = 8
        /\ UNCHANGED <<mem, last_bp, ret>>
    BY <1>3, <1>4 DEF Searching
  <2>3. Blocks' = Blocks /\ asize' = asize /\ heap_listp' = 8
    BY <1>1, <1>3, <2>2 DEF Blocks, Live, BlocksOf, asize, heap_listp
  <2>4. \A b \in Blocks : b > last_bp \/ b < 8 => ~Fits(mem, b, asize)
    BY <1>2, <1>3, <2>1
  <2>5. Searched' /\ SearchComplete'
    BY <2>2, <2>3, <2>4 DEF Searched, SearchComplete
  <2> QED
    BY <1>1, <2>2, <2>5, SearchKeeps
<1>5. CASE GET_SIZE(mem, HDRP(bp)) > 0 /\ Fits(mem, bp, asize) /\ Allocated(mem, bp)
  <2>1. bp \in Blocks
    BY <1>2, <1>3, <1>5
  <2> QED
    BY <1>1, <1>5, <2>1, FoundKeeps
<1>6. CASE /\ GET_SIZE(mem, HDRP(bp)) > 0 /\ ~Fits(mem, bp, asize)
           /\ Searching(pc, NEXT_BLKP(mem, bp))
  <2> DEFINE next == NEXT_BLKP(mem, bp)
  <2>1. bp \in Blocks
    BY <1>2, <1>3, <1>6
  <2>2. /\ pc' = "scan" /\ bp' = next
        /\ UNCHANGED <<mem, last_bp, ret>>
    BY <1>1, <1>6 DEF Searching
  <2>3. Blocks' = Blocks /\ asize' = asize
    BY <1>1, <2>2 DEF Blocks, Live, BlocksOf, asize
  <2>4. /\ next \in Blocks \cup {mem_brk} /\ bp < next
        /\ \A b \in Blocks : bp < b => next <= b
    BY <1>3, <2>1
  <2> HIDE DEF next
  <2>5. next \in Nat /\ next > last_bp
    BY <1>2, <1>3, <2>1, <2>4
  <2>6. \A b \in Blocks : last_bp < b /\ b < next => ~Fits(mem, b, asize)
    <3>1. TAKE b \in Blocks
    <3>2. CASE b < bp
      BY <3>2, <1>2
    <3>3. CASE b = bp
      BY <3>3, <1>6
    <3>4. CASE bp < b
      BY <3>4, <1>3, <2>4, <2>5
    <3> QED
      BY <3>2, <3>3, <3>4, <1>3, <2>1
  <2>7. Searched' /\ SearchComplete'
    BY <1>1, <2>2, <2>3, <2>4, <2>5, <2>6 DEF Searched, SearchComplete
  <2> QED
    BY <1>1, <2>2, <2>5, <2>7, SearchKeeps
<1> QED
  BY <1>1, <1>4, <1>5, <1>6 DEF Step

LEMMA find_fitKeeps ==
    ASSUME IInv, find_fit
    PROVE  IInv'
<1>1. /\ pc = "first" /\ Step("extend", NULL)
      /\ UNCHANGED <<owned, reqsize, call, ptr, mem_brk, mem_max_addr>>
  BY DEF find_fit, Step
<1>2. /\ bp \in Blocks \cup {8, mem_brk}
      /\ \A b \in Blocks : b > last_bp \/ b < bp => ~Fits(mem, b, asize)
  BY <1>1, ListFacts DEF IInv, Searched
<1>3. /\ Blocks \in SUBSET Nat /\ mem_brk \in Nat /\ 16 \in Blocks
      /\ \A b \in Blocks :
           /\ b \in Nat /\ b >= 16 /\ b < mem_brk
           /\ GET_SIZE(mem, HDRP(b)) > 0 /\ GET_SIZE(mem, HDRP(b)) \in Nat
           /\ NEXT_BLKP(mem, b) \in Blocks \cup {mem_brk}
           /\ b < NEXT_BLKP(mem, b)
      /\ \A b, c \in Blocks : b < c => NEXT_BLKP(mem, b) <= c
      /\ GET_SIZE(mem, HDRP(mem_brk)) = 0
      /\ GET_SIZE(mem, HDRP(8)) = 8 /\ NEXT_BLKP(mem, 8) = 16
      /\ \A a : ~Fits(mem, 8, a)
  BY <1>1, ListFacts
<1>4. CASE GET_SIZE(mem, HDRP(bp)) = 0 /\ Searching("extend", NULL)
  <2>1. bp = mem_brk
    BY <1>2, <1>3, <1>4
  <2>2. /\ pc' = "extend" /\ bp' = 0 /\ UNCHANGED <<mem, last_bp, ret>>
    BY <1>4 DEF Searching, NULL
  <2>3. Blocks' = Blocks /\ asize' = asize
    BY <1>1, <2>2 DEF Blocks, Live, BlocksOf, asize
  <2>4. \A b \in Blocks : ~Fits(mem, b, asize)
    BY <1>2, <1>3, <2>1
  <2>5. Searched' /\ SearchComplete'
    BY <2>2, <2>3, <2>4 DEF Searched, SearchComplete
  <2> QED
    BY <1>1, <2>2, <2>5, SearchKeeps
<1>5. CASE GET_SIZE(mem, HDRP(bp)) > 0 /\ Fits(mem, bp, asize) /\ Allocated(mem, bp)
  <2>1. bp \in Blocks
    BY <1>2, <1>3, <1>5
  <2> QED
    BY <1>1, <1>5, <2>1, FoundKeeps
<1>6. CASE /\ GET_SIZE(mem, HDRP(bp)) > 0 /\ ~Fits(mem, bp, asize)
           /\ Searching(pc, NEXT_BLKP(mem, bp))
  <2> DEFINE next == NEXT_BLKP(mem, bp)
  <2>1. /\ pc' = "first" /\ bp' = next /\ UNCHANGED <<mem, last_bp, ret>>
    BY <1>1, <1>6 DEF Searching
  <2>2. Blocks' = Blocks /\ asize' = asize
    BY <1>1, <2>1 DEF Blocks, Live, BlocksOf, asize
  <2>3. /\ next \in Blocks \cup {mem_brk} /\ next \in Nat
        /\ \A b \in Blocks : b < next => b < bp \/ b = bp
    <3>1. CASE bp = 8
      <4>1. next = 16
        BY <1>3, <3>1
      <4> HIDE DEF next
      <4> QED
        BY <1>3, <4>1
    <3>2. CASE bp \in Blocks
      <4>1. /\ next \in Blocks \cup {mem_brk} /\ bp < next
            /\ \A b \in Blocks : bp < b => next <= b
        BY <1>3, <3>2
      <4> HIDE DEF next
      <4> QED
        BY <1>3, <3>2, <4>1
    <3> QED
      BY <1>2, <1>3, <1>6, <3>1, <3>2
  <2> HIDE DEF next
  <2>4. \A b \in Blocks : b > last_bp \/ b < next => ~Fits(mem, b, asize)
    BY <1>2, <1>6, <2>3
  <2>5. Searched' /\ SearchComplete'
    BY <2>1, <2>2, <2>3, <2>4, <1>1 DEF Searched, SearchComplete
  <2> QED
    BY <1>1, <2>1, <2>3, <2>5, SearchKeeps
<1> QED
  BY <1>1, <1>4, <1>5, <1>6 DEF Step

LEMMA extend_heapKeeps ==
    ASSUME IInv, extend_heap
    PROVE  IInv'
<1> DEFINE size == ExtendBytes(MAX(asize, CHUNKSIZE) \div WSIZE)
           n == NewBlock(mem, mem_brk, size)
           b == CoalescedBp(n, mem_brk)
<1>1. /\ ClientInv /\ pc = "extend" /\ InSearch
      /\ UNCHANGED <<owned, reqsize, call, ptr, mem_max_addr>>
  BY DEF extend_heap, InSearch, IInv
<1>2. BlockSize(asize) /\ asize >= call.size + 8
  BY CallSize DEF IInv
<1>3. CASE pc' = "return" /\ UNCHANGED <<mem, mem_brk, last_bp, bp, ret>>
  <2>1. bp' \in Nat
    BY <1>1, <1>3 DEF ClientInv, ClientTypeOK
  <2>2. ClientInv' /\ Blocks' = Blocks
    BY <1>1, <1>3, <2>1, SearchStep
  <2> QED
    BY <1>1, <1>3, <2>2, Elsewhere DEF IInv, RoverOnBlock, HeapReady, PCs
<1>4. CASE /\ ~SbrkFails(mem_brk, size) /\ mem_brk' = mem_brk + size
           /\ Allocated(Coalesce(n, mem_brk), b)
  <2>1. /\ mem' = Place(Coalesce(n, mem_brk), b, asize)
        /\ ret' = b /\ bp' = NULL /\ last_bp' = b
        /\ pc' = IF ptr = NULL THEN "return" ELSE "copy"
    BY <1>4 DEF Allocated
  <2>2. ClientInv' /\ b \in Blocks' /\ b \in Nat
    BY <1>1, <1>2, <1>4, <2>1, ExtendStep
  <2> HIDE DEF b
  <2> QED
    BY <2>1, <2>2, Elsewhere DEF RoverOnBlock, PCs
<1> QED
  <2> HIDE DEF size
  <2> QED
    BY <1>3, <1>4 DEF extend_heap, size

(***************************************************************************)
(* The calls and the returns                                               *)
(***************************************************************************)
LEMMA mm_freeKeeps ==
    ASSUME IInv, NEW id \in Ids, mm_free(id)
    PROVE  IInv'
<1>1. PICK f : /\ f = MarkFree(mem, owned[id]) /\ mem' = Coalesce(f, owned[id])
               /\ last_bp' = CoalescedBp(f, owned[id])
  BY DEF mm_free, FreeIn
<1>2. ClientInv' /\ last_bp' \in Blocks' /\ last_bp' \in Nat
  BY <1>1, FreeStep DEF mm_free, IInv
<1> QED
  BY <1>2, Elsewhere DEF mm_free, RoverOnBlock, PCs

\* The search starts at the block after the rover: nothing is between.
LEMMA SearchStarts ==
    ASSUME IInv, HeapReady, Blocks' = Blocks,
           UNCHANGED <<mem, mem_brk, last_bp>>,
           pc' = "scan", bp' = NEXT_BLKP(mem, last_bp)
    PROVE  Searched' /\ SearchComplete' /\ bp' \in Nat
<1>1. ClientInv /\ last_bp \in Blocks
  BY DEF IInv, RoverOnBlock
<1> DEFINE next == NEXT_BLKP(mem, last_bp)
<1>2. /\ next \in Blocks \cup {mem_brk} /\ next > last_bp /\ next \in Nat
      /\ \A b \in Blocks : last_bp < b => next <= b
      /\ \A b \in Blocks : b \in Nat
  <2>1. /\ \A b \in Blocks :
             /\ b \in Nat /\ NEXT_BLKP(mem, b) \in Blocks \cup {mem_brk}
             /\ b < NEXT_BLKP(mem, b)
        /\ \A b, c \in Blocks : b < c => NEXT_BLKP(mem, b) <= c
        /\ mem_brk \in Nat
    BY <1>1, BlockFacts
  <2>2. /\ next \in Blocks \cup {mem_brk} /\ last_bp < next
        /\ \A b \in Blocks : last_bp < b => next <= b
        /\ last_bp \in Nat
    BY <1>1, <2>1
  <2> HIDE DEF next
  <2> QED
    BY <2>1, <2>2
<1> HIDE DEF next
<1>3. \A b \in Blocks : ~(last_bp < b /\ b < next)
  BY <1>2
<1> QED
  BY <1>2, <1>3 DEF Searched, SearchComplete, next

LEMMA mm_mallocKeeps ==
    ASSUME IInv, NEW id \in Ids, NEW size \in Sizes, mm_malloc(id, size)
    PROVE  IInv'
<1>1. /\ pc = "idle" /\ CallStarts(id, size, NULL)
      /\ UNCHANGED <<reqsize, ptr, ret, last_bp, mem, mem_brk, mem_max_addr>>
  BY DEF mm_malloc, CallStarts, memVars
<1>2. ClientInv /\ HeapReady /\ last_bp \in Blocks /\ last_bp \in Nat
  BY <1>1 DEF IInv, HeapReady, RoverOnBlock
<1>3. CASE pc' = "return" /\ bp' = NULL
  <2>1. ClientInv' /\ Blocks' = Blocks
    BY <1>1, <1>2, <1>3, MallocStep DEF NULL
  <2> QED
    BY <1>1, <1>2, <1>3, <2>1, Elsewhere DEF RoverOnBlock, PCs
<1>4. CASE pc' = "scan" /\ bp' = NEXT_BLKP(mem, last_bp)
  <2>1. bp' \in Nat
    BY <1>2, <1>4, BlockFacts
  <2>2. ClientInv' /\ Blocks' = Blocks
    BY <1>1, <1>2, <1>4, <2>1, MallocStep
  <2>3. Searched' /\ SearchComplete'
    BY <1>1, <1>2, <1>4, <2>2, SearchStarts
  <2> QED
    BY <1>1, <1>2, <1>4, <2>2, <2>3 DEF IInv, RoverOnBlock, PCs
<1> QED
  BY <1>3, <1>4 DEF mm_malloc

LEMMA mm_reallocKeeps ==
    ASSUME IInv, NEW id \in Ids, NEW size \in Sizes, mm_realloc(id, size)
    PROVE  IInv'
<1>1. /\ pc = "idle" /\ owned[id] # NULL /\ CallStarts(id, size, owned[id])
      /\ UNCHANGED <<reqsize, ret, mem_brk, mem_max_addr>>
  BY DEF mm_realloc, CallStarts
<1>2. ClientInv /\ HeapReady /\ last_bp \in Blocks /\ last_bp \in Nat
  BY <1>1 DEF IInv, HeapReady, RoverOnBlock
<1>3. CASE FreeIn(mem, owned[id]) /\ pc' = "return" /\ UNCHANGED <<bp, ptr>>
  <2>1. PICK f : /\ f = MarkFree(mem, owned[id]) /\ mem' = Coalesce(f, owned[id])
                 /\ last_bp' = CoalescedBp(f, owned[id])
    BY <1>3 DEF FreeIn
  <2>2. ClientInv' /\ last_bp' \in Blocks' /\ last_bp' \in Nat
    BY <1>1, <1>2, <1>3, <2>1, ReallocFreesStep
  <2> QED
    BY <1>3, <2>2, Elsewhere DEF RoverOnBlock, PCs
<1>4. CASE /\ ptr' = owned[id] /\ pc' = "scan"
           /\ bp' = NEXT_BLKP(mem, last_bp)
           /\ UNCHANGED <<mem, last_bp>>
  <2>1. bp' \in Nat
    BY <1>2, <1>4, BlockFacts
  <2>2. ClientInv' /\ Blocks' = Blocks
    BY <1>1, <1>2, <1>4, <2>1, ReallocStep
  <2>3. Searched' /\ SearchComplete'
    BY <1>1, <1>2, <1>4, <2>2, SearchStarts
  <2> QED
    BY <1>2, <1>4, <2>2, <2>3 DEF IInv, RoverOnBlock, PCs
<1> QED
  BY <1>3, <1>4 DEF mm_realloc

LEMMA CopyKeeps ==
    ASSUME IInv, Copy
    PROVE  IInv'
<1> DEFINE n == CopySize
           m == memcpy(mem, ret, ptr, n)
<1>1. /\ ClientInv /\ pc = "copy" /\ ptr' = NULL /\ pc' = "return" /\ FreeIn(m, ptr)
      /\ UNCHANGED <<owned, reqsize, call, bp, ret, mem_brk, mem_max_addr>>
  BY DEF Copy, IInv
<1>2. PICK f : /\ f = MarkFree(m, ptr) /\ mem' = Coalesce(f, ptr)
               /\ last_bp' = CoalescedBp(f, ptr)
  BY <1>1 DEF FreeIn
<1>3. n \in Nat /\ n + 8 <= GET_SIZE(mem, HDRP(ret)) /\ OnlyWrites(mem, m, ret, n)
  BY <1>1, CopyInside DEF CopySize
<1> HIDE DEF n, m
<1>4. ClientInv' /\ last_bp' \in Blocks' /\ last_bp' \in Nat
  BY <1>1, <1>2, <1>3, CopyStep
<1> QED
  BY <1>1, <1>4, Elsewhere DEF RoverOnBlock, PCs

LEMMA mm_initKeeps ==
    ASSUME IInv, mm_init
    PROVE  IInv'
<1> DEFINE brk == mem_brk + 4 * WSIZE
           size == ExtendBytes(CHUNKSIZE \div WSIZE)
           n == NewBlock(EmptyHeap(mem, mem_brk), brk, size)
<1>1. /\ ClientInv /\ pc = "init" /\ last_bp \in Nat
      /\ UNCHANGED <<owned, reqsize, call, bp, ptr, ret, mem_max_addr>>
  BY DEF mm_init, IInv
<1>2. CASE /\ pc' = "failed"
           /\ \/ UNCHANGED <<mem, mem_brk, last_bp>>
              \/ /\ ~SbrkFails(mem_brk, 4 * WSIZE)
                 /\ mem' = EmptyHeap(mem, mem_brk) /\ mem_brk' = brk
                 /\ last_bp' = heap_listp
  <2>1. ClientInv'
    BY <1>1, <1>2, InitFailsStep
  <2>2. last_bp' \in Nat
    BY <1>1, <1>2 DEF heap_listp, mem_start_brk, WSIZE
  <2> QED
    BY <1>2, <2>1, <2>2, Elsewhere DEF RoverOnBlock, HeapReady, PCs
<1>3. CASE /\ ~SbrkFails(brk, size) /\ mem' = Coalesce(n, brk) /\ mem_brk' = brk + size
           /\ last_bp' = CoalescedBp(n, brk) /\ pc' = "idle"
  <2>1. ClientInv' /\ last_bp' \in Blocks' /\ last_bp' \in Nat
    BY <1>1, <1>3, InitStep
  <2> QED
    BY <1>3, <2>1, Elsewhere DEF RoverOnBlock, PCs
<1> QED
  <2> HIDE DEF size
  <2> QED
    BY <1>2, <1>3 DEF mm_init, size

(***************************************************************************)
(* The theorems                                                            *)
(***************************************************************************)
LEMMA InitIInv ==
    ASSUME Init
    PROVE  IInv
<1>1. ClientInv /\ pc = "init" /\ last_bp = 0
  BY InitialState DEF Init, ClientInit, NULL
<1> QED
  BY <1>1 DEF IInv, RoverOnBlock, HeapReady, Searched, SearchComplete, PCs

LEMMA ReturnKeeps ==
    ASSUME IInv, Return \/ Returns(mem), UNCHANGED last_bp
    PROVE  IInv'
<1>1. ClientInv' /\ Blocks' = Blocks /\ pc = "return" /\ pc' = "idle"
  BY ReturnStep DEF IInv, Return, Returns
<1> QED
  BY <1>1, Elsewhere DEF IInv, RoverOnBlock, HeapReady, PCs

LEMMA NewTraceKeeps ==
    ASSUME IInv, NewTrace, UNCHANGED last_bp
    PROVE  IInv'
<1>1. ClientInv' /\ pc' = "init"
  BY NewTraceStep DEF IInv
<1> QED
  BY <1>1, Elsewhere DEF IInv, RoverOnBlock, HeapReady, PCs

LEMMA StutterKeeps ==
    ASSUME IInv, UNCHANGED vars
    PROVE  IInv'
<1>1. UNCHANGED <<memVars, clientVars, last_bp>>
  BY DEF vars
<1>2. ClientInv' /\ Blocks' = Blocks /\ HeapReady' = HeapReady
  BY <1>1, StutterStep DEF IInv
<1>3. UNCHANGED <<mem, mem_brk, pc, call, bp>>
  BY <1>1 DEF memVars, clientVars
<1>4. asize' = asize /\ heap_listp' = heap_listp
  BY <1>3 DEF asize, heap_listp
<1> QED
  BY <1>1, <1>2, <1>3, <1>4 DEF IInv, RoverOnBlock, Searched, SearchComplete

LEMMA RunKeeps ==
    ASSUME IInv, Run
    PROVE  IInv' /\ PackageStep
<1> DEFINE size == ExtendBytes(MAX(asize, CHUNKSIZE) \div WSIZE)
<1>1. ClientInv /\ mem_brk \in Nat /\ size \in Nat
  BY CallSize, ExtensionOK, BreakGrows DEF IInv, BlockSize
<1> HIDE DEF size
<1>2. CASE mm_init
  BY <1>1, <1>2, BreakGrows, mm_initKeeps DEF mm_init, PackageStep
<1>3. CASE next_fit
  BY <1>1, <1>3, next_fitKeeps DEF next_fit, Step, Searching, Allocated, PackageStep
<1>4. CASE find_fit
  BY <1>1, <1>4, find_fitKeeps DEF find_fit, Step, Searching, Allocated, PackageStep
<1>5. CASE extend_heap
  BY <1>1, <1>5, extend_heapKeeps DEF extend_heap, Allocated, PackageStep, size
<1>6. CASE Copy
  BY <1>1, <1>6, CopyKeeps DEF Copy, PackageStep
<1> QED
  BY <1>2, <1>3, <1>4, <1>5, <1>6 DEF Run

LEMMA NextIInv ==
    ASSUME IInv, [Next]_vars
    PROVE  IInv'
<1>1. CASE Run
  BY <1>1, RunKeeps
<1>2. CASE \E id \in Ids : mm_free(id)
  BY <1>2, mm_freeKeeps
<1>3. CASE \E id \in Ids, size \in Sizes : mm_malloc(id, size)
  BY <1>3, mm_mallocKeeps
<1>4. CASE \E id \in Ids, size \in Sizes : mm_realloc(id, size)
  BY <1>4, mm_reallocKeeps
<1>5. CASE Return /\ UNCHANGED last_bp
  BY <1>5, ReturnKeeps
<1>6. CASE NewTrace /\ UNCHANGED last_bp
  BY <1>6, NewTraceKeeps
<1>7. CASE UNCHANGED vars
  BY <1>7, StutterKeeps
<1> QED
  BY <1>1, <1>2, <1>3, <1>4, <1>5, <1>6, <1>7 DEF Next

\* The inductive invariant holds in every reachable state.
THEOREM SungjooInvariant == Spec => []IInv
<1>1. Init => IInv
  BY InitIInv
<1>2. IInv /\ [Next]_vars => IInv'
  BY NextIInv
<1> QED
  BY <1>1, <1>2, PTL DEF Spec

\* Every call leaves a heap of well formed, coalesced blocks, allocated exactly
\* where the client owns one.
THEOREM SungjooHeapOK == Spec => []HeapOK
<1>1. IInv => HeapOK
  BY DEF IInv, ClientInv
<1> QED
  BY <1>1, SungjooInvariant, PTL

\* The rover last_bp never points into the middle of a block.
THEOREM SungjooRoverOnBlock == Spec => []RoverOnBlock
<1>1. IInv => RoverOnBlock
  BY DEF IInv
<1> QED
  BY <1>1, SungjooInvariant, PTL

\* The heap grows only when no free block is large enough.
THEOREM SungjooSearchComplete == Spec => []SearchComplete
<1>1. IInv => SearchComplete
  BY DEF IInv
<1> QED
  BY <1>1, SungjooInvariant, PTL

\* What mdriver checks after every call: no two payloads overlap, all are
\* aligned and inside the heap.
THEOREM SungjooPayloadsDisjoint == Spec => []PayloadsDisjoint
<1>1. IInv => PayloadsDisjoint
  BY BlocksHoldPayloads DEF IInv
<1> QED
  BY <1>1, SungjooInvariant, PTL

(***************************************************************************)
(* The refinement                                                          *)
(***************************************************************************)
LEMMA NextContract ==
    ASSUME IInv, IInv', [Next]_vars
    PROVE  ContractStep
<1>1. ClientInv /\ ClientInv' /\ BlockSize(asize)
  BY CallSize DEF IInv
<1>2. CASE mm_init
  BY <1>1, <1>2, InitContract DEF mm_init
<1>3. CASE next_fit \/ find_fit
  <2>0. PICK after \in {"first", "extend"} : \E start : Step(after, start)
    BY <1>3 DEF next_fit, find_fit
  <2>1. PICK start : Step(after, start)
    BY <2>0
  <2>2. /\ pc \in {"scan", "first"} /\ InSearch /\ HeapReady
        /\ UNCHANGED <<owned, reqsize, call, ptr, mem_max_addr>>
    BY <1>3, <2>1 DEF next_fit, find_fit, Step, InSearch, HeapReady
  <2>3. CASE \E next, b : next \in {after, pc} /\ Searching(next, b)
    BY <1>1, <2>2, <2>3, SearchContract DEF Searching, HeapReady
  <2>4. CASE GET_SIZE(mem, HDRP(bp)) > 0 /\ Fits(mem, bp, asize) /\ Allocated(mem, bp)
    <3>1. bp \in Blocks
      BY <2>2, <2>4, ListFacts DEF IInv, Searched
    <3> QED
      BY <1>1, <2>2, <2>4, <3>1, FoundContract DEF Allocated
  <2> QED
    BY <2>1, <2>3, <2>4 DEF Step
<1>5. CASE extend_heap
  <2> DEFINE size == ExtendBytes(MAX(asize, CHUNKSIZE) \div WSIZE)
             n == NewBlock(mem, mem_brk, size)
             b == CoalescedBp(n, mem_brk)
  <2>1. /\ pc = "extend" /\ InSearch /\ HeapReady
        /\ UNCHANGED <<owned, reqsize, call, ptr, mem_max_addr>>
    BY <1>5 DEF extend_heap, InSearch, HeapReady
  <2>2. CASE pc' = "return" /\ UNCHANGED <<mem, ret>>
    BY <1>1, <2>1, <2>2, SearchContract DEF HeapReady
  <2>3. CASE ~SbrkFails(mem_brk, size) /\ Allocated(Coalesce(n, mem_brk), b)
    BY <1>1, <2>1, <2>3, ExtendContract DEF Allocated
  <2> HIDE DEF size
  <2> QED
    BY <1>5, <2>2, <2>3 DEF extend_heap, size
<1>6. CASE Copy
  <2>1. PICK f : f = MarkFree(memcpy(mem, ret, ptr, CopySize), ptr) /\ mem' = Coalesce(f, ptr)
    BY <1>6 DEF Copy, FreeIn
  <2>2. /\ pc = "copy" /\ ptr' = NULL /\ pc' = "return"
        /\ UNCHANGED <<owned, reqsize, call, ret>>
    BY <1>6 DEF Copy
  <2>3. /\ CopySize \in Nat /\ CopySize + 8 <= GET_SIZE(mem, HDRP(ret))
        /\ OnlyWrites(mem, memcpy(mem, ret, ptr, CopySize), ret, CopySize)
        /\ PrefixKept(memcpy(mem, ret, ptr, CopySize), ptr, ret, reqsize[call.id], call.size)
    BY <1>1, <2>2, CopyInside, memcpyPrefix DEF CopySize
  <2> QED
    BY <1>1, <2>1, <2>2, <2>3, CopyContract
<1>7. CASE \E id \in Ids : mm_free(id)
  <2>1. PICK id \in Ids : mm_free(id)
    BY <1>7
  <2>2. PICK f : f = MarkFree(mem, owned[id]) /\ mem' = Coalesce(f, owned[id])
    BY <2>1 DEF mm_free, FreeIn
  <2>3. \A i \in Ids : /\ owned'[i] = IF i = id THEN NULL ELSE owned[i]
                       /\ i # id => reqsize'[i] = reqsize[i]
    BY <1>1, <2>1 DEF mm_free, ClientInv, ClientTypeOK
  <2> QED
    BY <1>1, <2>1, <2>2, <2>3, FreeContract DEF mm_free
<1>8. CASE \E id \in Ids, size \in Sizes : mm_malloc(id, size)
  <2>1. PICK id \in Ids, size \in Sizes : mm_malloc(id, size)
    BY <1>8
  <2>2. /\ CallStarts(id, size, NULL) /\ pc' \in {"return", "scan"}
        /\ UNCHANGED <<reqsize, ptr, ret, mem>>
    BY <2>1 DEF mm_malloc, memVars
  <2> QED
    BY <1>1, <2>2, MallocContract
<1>9. CASE \E id \in Ids, size \in Sizes : mm_realloc(id, size)
  <2>1. PICK id \in Ids, size \in Sizes : mm_realloc(id, size)
    BY <1>9
  <2>2. /\ owned[id] # NULL /\ CallStarts(id, size, owned[id])
        /\ UNCHANGED <<reqsize, ret>>
    BY <2>1 DEF mm_realloc
  <2>3. CASE FreeIn(mem, owned[id]) /\ pc' = "return" /\ UNCHANGED ptr
    <3>1. PICK f : f = MarkFree(mem, owned[id]) /\ mem' = Coalesce(f, owned[id])
      BY <2>3 DEF FreeIn
    <3>2. /\ pc = "idle" /\ call'.id = id
          /\ \A i \in Ids : owned'[i] = IF i = id THEN NULL ELSE owned[i]
      BY <1>1, <2>2 DEF CallStarts, ClientInv, ClientTypeOK
    <3> QED
      BY <1>1, <2>2, <2>3, <3>1, <3>2, FreeContract
  <2>4. CASE ptr' = owned[id] /\ pc' = "scan" /\ UNCHANGED mem
    BY <1>1, <2>2, <2>4, ReallocContract
  <2> QED
    BY <2>1, <2>3, <2>4 DEF mm_realloc
<1>10. CASE Return
  BY <1>1, <1>10, ReturnContract
<1>11. CASE NewTrace
  BY <1>11, NewTraceContract
<1>12. CASE UNCHANGED vars
  BY <1>12, StutterContract DEF vars
<1> QED
  BY <1>2, <1>3, <1>5, <1>6, <1>7, <1>8, <1>9, <1>10, <1>11, <1>12 DEF Next, Run

\* The allocator implements the contract of malloc, free and realloc: no call
\* moves, resizes or overwrites the block of another id, and mm_realloc keeps
\* the words that fit in both sizes.
THEOREM SungjooImplementsContract == Spec => ImplementsContract
<1>1. Init => Contract!Init
  BY ContractInit DEF Init
<1>2. IInv /\ IInv' /\ [Next]_vars => [Contract!Next]_(Contract!vars)
  BY NextContract DEF ContractStep
<1> QED
  BY <1>1, <1>2, SungjooInvariant, PTL DEF Spec, ImplementsContract, Contract!Spec

(***************************************************************************)
(* The two searches make the choices of donguk's one: every step of        *)
(* SungjooMm is a step or a stutter of DongukMm under the mapping of       *)
(* SameChoicesAsDonguk.                                                    *)
(*                                                                         *)
(* All the steps but those of the searches are the same by their           *)
(* definitions.  next_fit is DongukMm's Scan.  find_fit is its Wrap where  *)
(* the walk is still behind last_bp, and a stutter at the prologue and     *)
(* beyond last_bp: there Searched, a part of the inductive invariant, says *)
(* that next_fit has seen no fit.                                          *)
(***************************************************************************)

\* The operators on memories are the same ones.
LEMMA SameOperators ==
    /\ \A m, b, a : Donguk!Place(m, b, a) = Place(m, b, a)
    /\ \A m, b : /\ Donguk!MarkFree(m, b) = MarkFree(m, b)
                 /\ Donguk!Coalesce(m, b) = Coalesce(m, b)
                 /\ Donguk!CoalescedBp(m, b) = CoalescedBp(m, b)
                 /\ Donguk!NEXT_BLKP(m, b) = NEXT_BLKP(m, b)
                 /\ Donguk!EmptyHeap(m, b) = EmptyHeap(m, b)
                 /\ Donguk!GET_SIZE(m, b) = GET_SIZE(m, b)
    /\ \A b : Donguk!HDRP(b) = HDRP(b)
    /\ \A m, b, a : Donguk!Fits(m, b, a) <=> Fits(m, b, a)
    /\ \A m, b, s : Donguk!NewBlock(m, b, s) = NewBlock(m, b, s)
    /\ \A w : Donguk!ExtendBytes(w) = ExtendBytes(w)
    /\ \A x, y : Donguk!MAX(x, y) = MAX(x, y)
    /\ \A m, d, s, n : /\ Donguk!memcpy(m, d, s, n) = memcpy(m, d, s, n)
                       /\ Donguk!memset(m, d, s, n) = memset(m, d, s, n)
    /\ Donguk!WSIZE = WSIZE /\ Donguk!DSIZE = DSIZE /\ Donguk!NULL = NULL
    /\ Donguk!asize = asize /\ Donguk!CopySize = CopySize
    /\ \A b, i : Donguk!SbrkFails(b, i) <=> SbrkFails(b, i)
    /\ Donguk!heap_listp = heap_listp /\ Donguk!NoCall = NoCall
<1> USE DEF Donguk!PUT, PUT, Donguk!PACK, PACK, Donguk!HDRP, HDRP, Donguk!FTRP, FTRP,
            Donguk!GET_SIZE, GET_SIZE, Donguk!GET_ALLOC, GET_ALLOC,
            Donguk!NEXT_BLKP, NEXT_BLKP, Donguk!PREV_BLKP, PREV_BLKP,
            Donguk!WSIZE, WSIZE, Donguk!DSIZE, DSIZE, Donguk!NULL, NULL
<1>1. \A m, b, s, x : Donguk!Mark(m, b, s, x) = Mark(m, b, s, x)
  BY DEF Donguk!Mark, Mark
<1>2. \A m, b, a : Donguk!Place(m, b, a) = Place(m, b, a)
  BY <1>1 DEF Donguk!Place, Place, Donguk!Splits, Splits
<1>3. \A m, b : Donguk!MarkFree(m, b) = MarkFree(m, b)
  BY <1>1 DEF Donguk!MarkFree, MarkFree
<1>4. \A m, b : /\ Donguk!PrevAlloc(m, b) <=> PrevAlloc(m, b)
                /\ Donguk!NextAlloc(m, b) <=> NextAlloc(m, b)
  BY DEF Donguk!PrevAlloc, PrevAlloc, Donguk!NextAlloc, NextAlloc
<1>5. \A m, b : Donguk!CoalescedBp(m, b) = CoalescedBp(m, b)
  BY <1>4 DEF Donguk!CoalescedBp, CoalescedBp
<1>6. \A m, b : Donguk!Coalesce(m, b) = Coalesce(m, b)
  BY <1>1, <1>4 DEF Donguk!Coalesce, Coalesce
<1>7. \A m, b : Donguk!EmptyHeap(m, b) = EmptyHeap(m, b)
  BY DEF Donguk!EmptyHeap, EmptyHeap
<1>8. \A m, b, s : Donguk!NewBlock(m, b, s) = NewBlock(m, b, s)
  BY <1>1 DEF Donguk!NewBlock, NewBlock
<1>9. /\ \A w : Donguk!ExtendBytes(w) = ExtendBytes(w)
      /\ \A x, y : Donguk!MAX(x, y) = MAX(x, y)
      /\ \A m, b, a : Donguk!Fits(m, b, a) <=> Fits(m, b, a)
  BY DEF Donguk!ExtendBytes, ExtendBytes, Donguk!MAX, MAX, Donguk!Fits, Fits
<1>10. \A m, d, s, n : /\ Donguk!memcpy(m, d, s, n) = memcpy(m, d, s, n)
                       /\ Donguk!memset(m, d, s, n) = memset(m, d, s, n)
  BY DEF Donguk!memcpy, memcpy, Donguk!memset, memset
<1>11. Donguk!asize = asize
  BY DEF Donguk!asize, asize, Donguk!AdjustedSize, AdjustedSize
<1>12. Donguk!CopySize = CopySize
  BY DEF Donguk!CopySize, CopySize
<1>13. \A b, i : Donguk!SbrkFails(b, i) <=> SbrkFails(b, i)
  BY DEF Donguk!SbrkFails, SbrkFails
<1>14. Donguk!heap_listp = heap_listp /\ Donguk!NoCall = NoCall
  BY DEF Donguk!heap_listp, heap_listp, Donguk!mem_start_brk, mem_start_brk, Donguk!NoCall, NoCall
<1> QED
  BY <1>2, <1>3, <1>5, <1>6, <1>7, <1>8, <1>9, <1>10, <1>11, <1>12, <1>13, <1>14

\* The refinement mapping, where the search is not in find_fit and where it is.
LEMMA Mapping ==
    /\ pc # "first" => DongukPc = pc /\ DongukBp = bp
    /\ pc = "first" => DongukPc = "wrap"
    /\ pc = "first" /\ bp \in Nat /\ last_bp \in Nat /\ bp > last_bp
         => DongukBp = last_bp
    /\ pc = "first" /\ ~(bp > last_bp) /\ 16 <= bp /\ bp <= last_bp
         => DongukBp = PREV_BLKP(mem, bp)
    /\ pc = "first" /\ ~(bp > last_bp) /\ ~(16 <= bp) => DongukBp = bp
<1>1. DongukPc = IF pc = "first" THEN "wrap" ELSE pc
  BY DEF DongukPc
<1>2. CASE pc # "first"
  <2>1. DongukBp = bp
    BY <1>2 DEF DongukBp, FirstBlock
  <2> QED
    BY <1>1, <1>2, <2>1
<1>3. CASE /\ pc = "first" /\ bp > last_bp
           /\ bp \in Nat /\ last_bp \in Nat
  <2>1. DongukBp = last_bp
    BY <1>3 DEF DongukBp, FirstBlock
  <2> QED
    BY <1>1, <1>3, <2>1
<1>4. CASE pc = "first" /\ ~(bp > last_bp) /\ 16 <= bp /\ bp <= last_bp
  <2>1. DongukBp = PREV_BLKP(mem, bp)
    BY <1>4 DEF DongukBp, FirstBlock
  <2> QED
    BY <1>1, <1>4, <2>1
<1>5. CASE pc = "first" /\ ~(bp > last_bp) /\ ~(16 <= bp /\ bp <= last_bp)
  <2>1. DongukBp = bp
    BY <1>5 DEF DongukBp, FirstBlock
  <2> QED
    BY <1>1, <1>5, <2>1
<1> QED
  BY <1>1, <1>2, <1>3, <1>4, <1>5

LEMMA MappingNext ==
    /\ pc' # "first" => DongukPc' = pc' /\ DongukBp' = bp'
    /\ pc' = "first" => DongukPc' = "wrap"
    /\ pc' = "first" /\ bp' \in Nat /\ last_bp' \in Nat /\ bp' > last_bp'
         => DongukBp' = last_bp'
    /\ pc' = "first" /\ ~(bp' > last_bp') /\ 16 <= bp' /\ bp' <= last_bp'
         => DongukBp' = PREV_BLKP(mem', bp')
    /\ pc' = "first" /\ ~(bp' > last_bp') /\ ~(16 <= bp') => DongukBp' = bp'
<1>1. DongukPc' = IF pc' = "first" THEN "wrap" ELSE pc'
  BY DEF DongukPc
<1>2. CASE pc' # "first"
  <2>1. DongukBp' = bp'
    BY <1>2 DEF DongukBp, FirstBlock
  <2> QED
    BY <1>1, <1>2, <2>1
<1>3. CASE /\ pc' = "first" /\ bp' > last_bp'
           /\ bp' \in Nat /\ last_bp' \in Nat
  <2>1. DongukBp' = last_bp'
    BY <1>3 DEF DongukBp, FirstBlock
  <2> QED
    BY <1>1, <1>3, <2>1
<1>4. CASE pc' = "first" /\ ~(bp' > last_bp') /\ 16 <= bp' /\ bp' <= last_bp'
  <2>1. DongukBp' = PREV_BLKP(mem', bp')
    BY <1>4 DEF DongukBp, FirstBlock
  <2> QED
    BY <1>1, <1>4, <2>1
<1>5. CASE pc' = "first" /\ ~(bp' > last_bp') /\ ~(16 <= bp' /\ bp' <= last_bp')
  <2>1. DongukBp' = bp'
    BY <1>5 DEF DongukBp, FirstBlock
  <2> QED
    BY <1>1, <1>5, <2>1
<1> QED
  BY <1>1, <1>2, <1>3, <1>4, <1>5

\* A block with what is placed in it is allocated in the same way.
LEMMA SameAllocated ==
    ASSUME NEW m, NEW b, Allocated(m, b)
    PROVE  Donguk!Allocated(m, b)
<1>1. /\ mem' = Place(m, b, asize) /\ last_bp' = b /\ ret' = b /\ bp' = NULL
      /\ pc' = IF ptr = NULL THEN "return" ELSE "copy"
  BY DEF Allocated
<1>2. DongukPc' = pc' /\ DongukBp' = NULL
  BY <1>1, MappingNext
<1> QED
  BY <1>1, <1>2, SameOperators DEF Donguk!Allocated

LEMMA next_fitIsScan ==
    ASSUME IInv, next_fit
    PROVE  Donguk!Scan
<1>1. /\ pc = "scan" /\ Step("first", heap_listp)
      /\ UNCHANGED <<owned, reqsize, call, ptr, mem_brk, mem_max_addr>>
  BY DEF next_fit, Step
<1>2. DongukPc = "scan" /\ DongukBp = bp
  BY <1>1, Mapping
<1>3. /\ last_bp \in Nat /\ last_bp >= 16 /\ heap_listp = 8
      /\ bp \in Nat /\ GET_SIZE(mem, HDRP(bp)) \in Nat
  <2>1. bp \in Blocks \cup {mem_brk}
    BY <1>1 DEF IInv, Searched
  <2> QED
    BY <1>1, <2>1, ListFacts
<1>4. CASE GET_SIZE(mem, HDRP(bp)) = 0 /\ Searching("first", heap_listp)
  <2>1. /\ pc' = "first" /\ bp' = heap_listp /\ UNCHANGED <<mem, last_bp, ret>>
    BY <1>4 DEF Searching
  <2>2. DongukPc' = "wrap" /\ DongukBp' = heap_listp
    BY <1>3, <2>1, MappingNext
  <2> QED
    BY <1>1, <1>2, <1>4, <2>1, <2>2, SameOperators DEF Donguk!Scan, Donguk!Searching
<1>5. CASE GET_SIZE(mem, HDRP(bp)) > 0 /\ Fits(mem, bp, asize) /\ Allocated(mem, bp)
  <2>1. Donguk!Allocated(mem, bp) /\ GET_SIZE(mem, HDRP(bp)) # 0
    BY <1>3, <1>5, SameAllocated
  <2> QED
    BY <1>1, <1>2, <1>5, <2>1, SameOperators DEF Donguk!Scan, Donguk!Found
<1>6. CASE /\ GET_SIZE(mem, HDRP(bp)) > 0 /\ ~Fits(mem, bp, asize)
           /\ Searching(pc, NEXT_BLKP(mem, bp))
  <2>1. /\ pc' = "scan" /\ bp' = NEXT_BLKP(mem, bp) /\ UNCHANGED <<mem, last_bp, ret>>
        /\ GET_SIZE(mem, HDRP(bp)) # 0
    BY <1>1, <1>3, <1>6 DEF Searching
  <2>2. DongukPc' = "scan" /\ DongukBp' = bp'
    BY <2>1, MappingNext
  <2> QED
    BY <1>1, <1>2, <1>6, <2>1, <2>2, SameOperators DEF Donguk!Scan, Donguk!Searching
<1> QED
  BY <1>1, <1>4, <1>5, <1>6 DEF Step

\* Walking back from a block other than the first.
LEMMA PrevFacts ==
    ASSUME IInv, pc = "first", NEW b \in Blocks
    PROVE  /\ PREV_BLKP(mem, b) \in Blocks \cup {8}
           /\ PREV_BLKP(mem, b) \in Nat /\ PREV_BLKP(mem, b) < b
           /\ NEXT_BLKP(mem, PREV_BLKP(mem, b)) = b
<1>1. ClientInv /\ HeapReady
  BY ListFacts
<1>2. Heap(mem, mem_brk, Live)
  BY <1>1, HeapFacts
<1>3. Layout(mem, mem_brk, Blocks)
  BY <1>2, WellFormedBlocks DEF Heap, Blocks
<1>4. CASE b = 16
  <2>1. mem[8] = 9 /\ NEXT_BLKP(mem, 8) = 16
    BY <1>3, ListFacts DEF Layout, SentinelsOK, PACK, DSIZE
  <2>2. PREV_BLKP(mem, 16) = 8
    BY <2>1 DEF PREV_BLKP, GET_SIZE, DSIZE
  <2> QED
    BY <1>4, <2>1, <2>2
<1>5. CASE b # 16
  <2> DEFINE p == PREV_BLKP(mem, b)
  <2>1. p \in Blocks /\ NEXT_BLKP(mem, p) = b
    BY <1>3, <1>5 DEF Layout, ChainOK, FirstBlock
  <2> HIDE DEF p
  <2>2. p \in Nat /\ p < b
    BY <2>1, ListFacts
  <2> QED
    BY <2>1, <2>2 DEF p
<1> QED
  BY <1>4, <1>5

LEMMA find_fitIsWrap ==
    ASSUME IInv, find_fit
    PROVE  Donguk!Wrap \/ UNCHANGED Donguk!vars
<1>1. /\ pc = "first" /\ Step("extend", NULL)
      /\ UNCHANGED <<owned, reqsize, call, ptr, mem_brk, mem_max_addr>>
  BY DEF find_fit, Step
<1>2. /\ bp \in Blocks \cup {8, mem_brk}
      /\ \A b \in Blocks : b > last_bp \/ b < bp => ~Fits(mem, b, asize)
  BY <1>1, ListFacts DEF IInv, Searched
<1>3. /\ Blocks \in SUBSET Nat /\ mem_brk \in Nat /\ 16 \in Blocks
      /\ last_bp \in Blocks /\ last_bp \in Nat /\ last_bp >= 16 /\ last_bp < mem_brk
      /\ \A b \in Blocks :
           /\ b \in Nat /\ b >= 16 /\ b < mem_brk
           /\ GET_SIZE(mem, HDRP(b)) > 0 /\ GET_SIZE(mem, HDRP(b)) \in Nat
           /\ NEXT_BLKP(mem, b) \in Blocks \cup {mem_brk}
           /\ b < NEXT_BLKP(mem, b)
      /\ \A b, c \in Blocks : b < c => NEXT_BLKP(mem, b) <= c
      /\ GET_SIZE(mem, HDRP(mem_brk)) = 0
      /\ GET_SIZE(mem, HDRP(8)) = 8 /\ NEXT_BLKP(mem, 8) = 16
      /\ \A a : ~Fits(mem, 8, a)
  BY <1>1, ListFacts
<1>4. DongukPc = "wrap" /\ bp \in Nat
  BY <1>1, <1>2, <1>3, Mapping
<1>5. CASE GET_SIZE(mem, HDRP(bp)) = 0 /\ Searching("extend", NULL)
  <2>1. bp = mem_brk
    BY <1>2, <1>3, <1>5
  <2>2. /\ pc' = "extend" /\ bp' = NULL /\ UNCHANGED <<mem, last_bp, ret>>
    BY <1>5 DEF Searching
  <2>3. DongukBp = last_bp /\ DongukPc' = "extend" /\ DongukBp' = NULL
    BY <1>1, <1>3, <2>1, <2>2, Mapping, MappingNext
  <2>4. ~Donguk!WrapGoesOn
    BY <1>3, <2>3 DEF Donguk!WrapGoesOn
  <2> QED
    BY <1>1, <1>4, <2>2, <2>3, <2>4, SameOperators DEF Donguk!Wrap, Donguk!Searching
\* A block up to the rover: DongukMm's cursor is at the block before.
<1>6. ASSUME bp \in Blocks, bp <= last_bp
      PROVE  /\ DongukBp = PREV_BLKP(mem, bp) /\ Donguk!WrapGoesOn
             /\ NEXT_BLKP(mem, DongukBp) = bp
  <2>1. DongukBp = PREV_BLKP(mem, bp)
    BY <1>1, <1>3, <1>4, <1>6, Mapping
  <2>2. DongukBp \in Nat /\ DongukBp < bp /\ NEXT_BLKP(mem, DongukBp) = bp
    BY <1>1, <1>6, <2>1, PrevFacts
  <2> QED
    BY <1>3, <1>4, <1>6, <2>1, <2>2 DEF Donguk!WrapGoesOn
<1>7. CASE GET_SIZE(mem, HDRP(bp)) > 0 /\ Fits(mem, bp, asize) /\ Allocated(mem, bp)
  <2>1. bp \in Blocks /\ bp <= last_bp
    BY <1>2, <1>3, <1>4, <1>7
  <2>2. Donguk!Allocated(mem, bp)
    BY <1>7, SameAllocated
  <2> QED
    BY <1>1, <1>4, <1>6, <1>7, <2>1, <2>2, SameOperators DEF Donguk!Wrap, Donguk!Found
<1>8. CASE /\ GET_SIZE(mem, HDRP(bp)) > 0 /\ ~Fits(mem, bp, asize)
           /\ Searching(pc, NEXT_BLKP(mem, bp))
  <2> DEFINE next == NEXT_BLKP(mem, bp)
  <2>1. /\ pc' = "first" /\ bp' = next /\ UNCHANGED <<mem, last_bp, ret>>
        /\ DongukPc' = "wrap"
    BY <1>1, <1>8, MappingNext DEF Searching
  <2>2. CASE bp = 8
    <3>1. next = 16
      BY <1>3, <2>2
    <3> HIDE DEF next
    <3>2. DongukBp = 8
      BY <1>1, <1>3, <2>2, Mapping
    <3>3. PREV_BLKP(mem, 16) = 8
      <4>1. Layout(mem, mem_brk, Blocks)
        BY <1>1, ListFacts, HeapFacts, WellFormedBlocks DEF Heap, Blocks
      <4>2. mem[8] = 9
        BY <4>1 DEF Layout, SentinelsOK, PACK, DSIZE
      <4> QED
        BY <4>2 DEF PREV_BLKP, GET_SIZE, DSIZE
    <3>4. DongukBp' = 8
      BY <1>3, <2>1, <3>1, <3>3, MappingNext
    <3> QED
      BY <1>1, <1>4, <2>1, <3>2, <3>4
         DEF Donguk!vars, Donguk!memVars, Donguk!clientVars
  <2>3. CASE bp \in Blocks
    <3>1. /\ next \in Blocks \cup {mem_brk} /\ bp < next /\ next \in Nat
          /\ \A b \in Blocks : bp < b => next <= b
      BY <1>3, <2>3
    <3>2. CASE bp <= last_bp
      <4>1. DongukBp' = bp
        <5>1. CASE next <= last_bp
          <6>1. next \in Blocks
            BY <1>3, <3>1, <5>1
          <6>2. PREV_BLKP(mem, next) \in Blocks \cup {8} /\ PREV_BLKP(mem, next) < next
                /\ PREV_BLKP(mem, next) \in Nat
                /\ NEXT_BLKP(mem, PREV_BLKP(mem, next)) = next
            BY <1>1, <6>1, PrevFacts
          <6> HIDE DEF next
          <6>3. PREV_BLKP(mem, next) = bp
            <7> DEFINE p == PREV_BLKP(mem, next)
            <7>1. p \in Blocks \cup {8} /\ p < next /\ p \in Nat /\ NEXT_BLKP(mem, p) = next
              BY <6>2
            <7> HIDE DEF p
            <7>2. p # 8
              BY <1>3, <2>3, <3>1, <7>1
            <7>3. ~(bp < p)
              BY <1>3, <3>1, <7>1, <7>2
            <7>4. ~(p < bp)
              BY <1>3, <2>3, <3>1, <7>1, <7>2
            <7> QED
              BY <1>3, <1>4, <7>1, <7>3, <7>4 DEF p
          <6> QED
            BY <1>3, <2>1, <3>1, <5>1, <6>1, <6>3, MappingNext
        <5>2. CASE next > last_bp
          <6> HIDE DEF next
          <6>1. bp = last_bp
            BY <1>3, <1>4, <3>1, <3>2, <5>2
          <6> QED
            BY <1>3, <2>1, <3>1, <5>2, <6>1, MappingNext
        <5> HIDE DEF next
        <5> QED
          BY <1>3, <3>1, <5>1, <5>2
      <4>2. /\ Donguk!WrapGoesOn /\ NEXT_BLKP(mem, DongukBp) = bp
        BY <1>6, <2>3, <3>2
      <4> QED
        BY <1>1, <1>4, <1>8, <2>1, <4>1, <4>2, SameOperators
           DEF Donguk!Wrap, Donguk!Searching
    <3>3. CASE bp > last_bp
      <4> HIDE DEF next
      <4>1. next > last_bp
        BY <1>3, <1>4, <3>1, <3>3
      <4>2. DongukBp = last_bp /\ DongukBp' = last_bp
        BY <1>1, <1>3, <1>4, <2>1, <3>1, <3>3, <4>1, Mapping, MappingNext
      <4> QED
        BY <1>1, <1>4, <2>1, <4>2
           DEF Donguk!vars, Donguk!memVars, Donguk!clientVars
    <3> QED
      BY <1>3, <1>4, <3>2, <3>3
  <2> QED
    BY <1>2, <1>3, <1>8, <2>2, <2>3
<1> QED
  BY <1>1, <1>5, <1>7, <1>8 DEF Step

(***************************************************************************)
(* The other steps: pc and bp are not those of a search                    *)
(***************************************************************************)
LEMMA mm_initIsInit ==
    ASSUME IInv, mm_init, ChunkFits
    PROVE  Donguk!mm_init
<1> DEFINE brk == mem_brk + 4 * WSIZE
           size == ExtendBytes(CHUNKSIZE \div WSIZE)
           n == NewBlock(EmptyHeap(mem, mem_brk), brk, size)
<1>1. /\ pc = "init" /\ mem_brk = 0
      /\ UNCHANGED <<owned, reqsize, call, bp, ptr, ret, mem_max_addr>>
  BY DEF mm_init, IInv, ClientInv, CallOK
<1>2. size = CHUNKSIZE
  BY ExtendBytesOK, ClientAssumption
<1>3. ~SbrkFails(brk, size)
  BY <1>1, <1>2 DEF ChunkFits, mem_start_brk, WSIZE
<1> HIDE DEF size, n
<1>4. /\ pc' # "first" /\ pc # "first"
      /\ \/ /\ SbrkFails(mem_brk, 4 * WSIZE) /\ pc' = "failed"
            /\ UNCHANGED <<mem, mem_brk, last_bp>>
         \/ /\ ~SbrkFails(mem_brk, 4 * WSIZE) /\ pc' = "idle"
            /\ mem' = Coalesce(n, brk) /\ mem_brk' = brk + size
            /\ last_bp' = CoalescedBp(n, brk)
  BY <1>1, <1>3 DEF mm_init, size, n
<1>5. DongukPc = pc /\ DongukPc' = pc' /\ DongukBp = bp /\ DongukBp' = bp'
  BY <1>4, Mapping, MappingNext
<1> QED
  BY <1>1, <1>3, <1>4, <1>5, SameOperators DEF Donguk!mm_init, Donguk!InitFails, size, n

LEMMA SameFreeIn ==
    ASSUME NEW m, NEW b, FreeIn(m, b)
    PROVE  Donguk!FreeIn(m, b)
  BY SameOperators DEF FreeIn, Donguk!FreeIn

LEMMA OutsideSearch ==
    ASSUME pc # "first", pc' # "first"
    PROVE  DongukPc = pc /\ DongukPc' = pc' /\ DongukBp = bp /\ DongukBp' = bp'
  BY Mapping, MappingNext

LEMMA FreeIsFree ==
    ASSUME NEW id \in Ids, mm_free(id)
    PROVE  Donguk!mm_free(id)
<1>1. pc = "idle" /\ pc' = pc /\ bp' = bp /\ Donguk!FreeIn(mem, owned[id])
  BY SameFreeIn DEF mm_free
<1> QED
  BY <1>1, OutsideSearch, SameOperators DEF mm_free, Donguk!mm_free

LEMMA CallsAreCalls ==
    ASSUME NEW id \in Ids, NEW size \in Sizes
    PROVE  /\ mm_malloc(id, size) => Donguk!mm_malloc(id, size)
           /\ mm_realloc(id, size) => Donguk!mm_realloc(id, size)
<1>1. ASSUME mm_malloc(id, size)
      PROVE  Donguk!mm_malloc(id, size)
  <2>1. pc = "idle" /\ pc' \in {"return", "scan"}
    BY <1>1 DEF mm_malloc, CallStarts
  <2> QED
    BY <1>1, <2>1, OutsideSearch, SameOperators
       DEF mm_malloc, CallStarts, Donguk!mm_malloc, Donguk!CallStarts, memVars, Donguk!memVars
<1>2. ASSUME mm_realloc(id, size)
      PROVE  Donguk!mm_realloc(id, size)
  <2>1. pc = "idle" /\ pc' \in {"return", "scan"}
    BY <1>2 DEF mm_realloc, CallStarts
  <2>2. FreeIn(mem, owned[id]) => Donguk!FreeIn(mem, owned[id])
    BY SameFreeIn
  <2> QED
    BY <1>2, <2>1, <2>2, OutsideSearch, SameOperators
       DEF mm_realloc, CallStarts, Donguk!mm_realloc, Donguk!CallStarts
<1> QED
  BY <1>1, <1>2

LEMMA extend_heapIsExtend ==
    ASSUME extend_heap
    PROVE  Donguk!Extend
<1> DEFINE size == ExtendBytes(MAX(asize, CHUNKSIZE) \div WSIZE)
<1>1. pc = "extend" /\ pc' \in {"return", "copy"}
  BY DEF extend_heap, Allocated
<1>2. Donguk!ExtendBytes(Donguk!MAX(Donguk!asize, CHUNKSIZE) \div Donguk!WSIZE) = size
  BY SameOperators
<1>3. \A m, b : Allocated(m, b) => Donguk!Allocated(m, b)
  BY SameAllocated
<1>4. /\ \/ /\ SbrkFails(mem_brk, size) /\ pc' = "return"
            /\ UNCHANGED <<mem, mem_brk, last_bp, bp, ret>>
         \/ /\ ~SbrkFails(mem_brk, size) /\ mem_brk' = mem_brk + size
            /\ \E m \in {NewBlock(mem, mem_brk, size)} :
               \E c \in {Coalesce(m, mem_brk)} : Allocated(c, CoalescedBp(m, mem_brk))
      /\ UNCHANGED <<owned, reqsize, call, ptr, mem_max_addr>>
  BY DEF extend_heap
<1> HIDE DEF size
<1> QED
  BY <1>1, <1>2, <1>3, <1>4, OutsideSearch, SameOperators DEF Donguk!Extend

LEMMA CopyIsCopy ==
    ASSUME Copy
    PROVE  Donguk!Copy
<1>1. pc = "copy" /\ pc' = "return"
  BY DEF Copy
<1>2. \A m, b : FreeIn(m, b) => Donguk!FreeIn(m, b)
  BY SameFreeIn
<1> QED
  BY <1>1, <1>2, OutsideSearch, SameOperators DEF Copy, Donguk!Copy

LEMMA ClientStepsAreClientSteps ==
    /\ Return => Donguk!Return
    /\ NewTrace => Donguk!NewTrace
<1>1. ASSUME Return
      PROVE  Donguk!Return
  <2>1. pc = "return" /\ pc' = "idle"
    BY <1>1 DEF Return, Returns
  <2> QED
    BY <1>1, <2>1, OutsideSearch, SameOperators DEF Return, Returns, Donguk!Return, Donguk!Returns
<1>2. ASSUME NewTrace
      PROVE  Donguk!NewTrace
  <2>1. pc \in {"idle", "failed"} /\ pc' = "init" /\ bp' = bp
    BY <1>2 DEF NewTrace
  <2> QED
    BY <1>2, <2>1, OutsideSearch, SameOperators
       DEF NewTrace, Donguk!NewTrace, mem_reset_brk, Donguk!mem_reset_brk,
           mem_start_brk, Donguk!mem_start_brk
<1> QED
  BY <1>1, <1>2

LEMMA InitIsInit ==
    ASSUME Init
    PROVE  Donguk!Init
<1>1. pc = "init" /\ mem_init /\ ClientInit /\ last_bp = NULL
  BY DEF Init, ClientInit
<1>2. DongukPc = "init" /\ DongukBp = bp
  BY <1>1, Mapping
<1> QED
  BY <1>1, <1>2, SameOperators
     DEF Donguk!Init, Donguk!mem_init, mem_init, Donguk!ClientInit, ClientInit,
         Donguk!WordAddr, WordAddr, Donguk!mem_start_brk, mem_start_brk

LEMMA StepIsStep ==
    ASSUME IInv, [Next]_vars, ChunkFits
    PROVE  Donguk!Next \/ UNCHANGED Donguk!vars
<1>1. CASE mm_init
  BY <1>1, mm_initIsInit DEF Donguk!Next, Donguk!Run
<1>2. CASE next_fit
  BY <1>2, next_fitIsScan DEF Donguk!Next, Donguk!Run
<1>3. CASE find_fit
  BY <1>3, find_fitIsWrap DEF Donguk!Next, Donguk!Run
<1>4. CASE extend_heap
  BY <1>4, extend_heapIsExtend DEF Donguk!Next, Donguk!Run
<1>5. CASE Copy
  BY <1>5, CopyIsCopy DEF Donguk!Next, Donguk!Run
<1>6. CASE \E id \in Ids : mm_free(id)
  BY <1>6, FreeIsFree DEF Donguk!Next
<1>7. CASE \E id \in Ids, size \in Sizes : mm_malloc(id, size)
  BY <1>7, CallsAreCalls DEF Donguk!Next
<1>8. CASE \E id \in Ids, size \in Sizes : mm_realloc(id, size)
  BY <1>8, CallsAreCalls DEF Donguk!Next
<1>9. CASE Return /\ UNCHANGED last_bp
  BY <1>9, ClientStepsAreClientSteps DEF Donguk!Next
<1>10. CASE NewTrace /\ UNCHANGED last_bp
  BY <1>10, ClientStepsAreClientSteps DEF Donguk!Next
<1>11. CASE UNCHANGED vars
  <2>1. UNCHANGED <<mem, mem_brk, mem_max_addr, owned, reqsize, pc, call, bp, ptr, ret, last_bp>>
    BY <1>11 DEF vars, memVars, clientVars
  <2>2. DongukPc' = DongukPc
    BY <2>1 DEF DongukPc
  <2>3. DongukBp' = DongukBp
    BY <2>1 DEF DongukBp, PREV_BLKP, GET_SIZE, DSIZE
  <2> QED
    BY <2>1, <2>2, <2>3 DEF Donguk!vars, Donguk!memVars, Donguk!clientVars
<1> QED
  BY <1>1, <1>2, <1>3, <1>4, <1>5, <1>6, <1>7, <1>8, <1>9, <1>10, <1>11 DEF Next, Run

\* For every heap limit and every sequence of calls, sungjoo's two searches
\* choose the blocks that donguk's one would: find_fit, walking again over the
\* blocks next_fit has seen, finds nothing there.
THEOREM SungjooChoosesAsDonguk == Spec => SameChoicesAsDonguk
<1>1. Init => Donguk!Init
  BY InitIsInit
<1>2. IInv /\ [Next]_vars => [ChunkFits => Donguk!Next \/ UNCHANGED Donguk!vars]_vars
  BY StepIsStep
<1> QED
  BY <1>1, <1>2, SungjooInvariant, PTL DEF Spec, SameChoicesAsDonguk

(***************************************************************************)
(* The view                                                                *)
(***************************************************************************)
View == ViewOf(last_bp)

\* One iteration of a search.
StepRuns(v, after, start) ==
    LET m == MemOf(v)
        a == AdjustedSize(v.call.size)
    IN  IF GET_SIZE(m, HDRP(v.bp)) = 0 THEN SearchesAt(v, after, start)
        ELSE IF Fits(m, v.bp, a) THEN Finds(v, v.bp, a)
        ELSE SearchesAt(v, v.pc, NEXT_BLKP(m, v.bp))

Runs(v) ==
    CASE v.pc = "init" -> Inits(v, FirstBlock)
      [] v.pc = "scan" -> StepRuns(v, "first", heap_listp)
      [] v.pc = "first" -> StepRuns(v, "extend", NULL)
      [] v.pc = "extend" -> Grows(v, AdjustedSize(v.call.size))
      [] v.pc = "copy" -> Frees(v, "return", v.call, v.owned, v.ptr)
      [] OTHER -> v

\* What a request of the client does: mm_malloc, mm_realloc or mm_free.
Mallocs(v, id, size) ==
    IF size = 0 THEN Enters(v, id, size, "return", NULL, NULL, NULL, v.sizes)
    ELSE Enters(v, id, size, "scan", NULL, NULL, NEXT_BLKP(MemOf(v), v.rover), v.sizes)

Reallocs(v, id, size) ==
    IF size = 0
    THEN Frees(v, "return", CallOf(id, size), Without(v.owned, id), v.owned[id])
    ELSE Enters(v, id, size, "scan", v.owned[id], NULL, NEXT_BLKP(MemOf(v), v.rover), v.sizes)

LEMMA FoundSeen ==
    ASSUME IInv, pc \in {"scan", "first"}, NEW b \in Blocks, Fits(mem, b, asize), Allocated(mem, b),
           UNCHANGED <<owned, reqsize, call, ptr, mem_brk, mem_max_addr>>
    PROVE  ViewNext(last_bp') = Finds(View, b, asize)
<1>1. ClientInv /\ InSearch /\ BlockSize(asize)
  BY CallSize DEF IInv, InSearch
<1>2. /\ mem' = Place(mem, b, asize) /\ ret' = b
      /\ pc' = IF ptr = NULL THEN "return" ELSE "copy"
      /\ last_bp' = b /\ mem_brk' = mem_brk
  BY DEF Allocated
<1>3. PICK a : a = asize
  OBVIOUS
<1>4. ViewNext(b) = Finds(View, b, a)
  BY <1>1, <1>2, <1>3, FoundView DEF View
<1> QED
  BY <1>2, <1>3, <1>4

LEMMA SearchSeen ==
    ASSUME IInv, pc \in {"scan", "first"}, NEW next \in {"scan", "first", "extend"}, NEW b,
           Searching(next, b),
           UNCHANGED <<owned, reqsize, call, ptr, mem_brk, mem_max_addr>>
    PROVE  ViewNext(last_bp') = SearchesAt(View, next, b)
<1>1. /\ ClientInv /\ InSearch /\ InSearch' /\ pc' = next /\ bp' = b
      /\ UNCHANGED <<mem, mem_brk, last_bp, ret>>
  BY DEF IInv, InSearch, Searching
<1>2. ViewNext(last_bp) = SearchesAt(View, pc', bp')
  BY <1>1, SearchView DEF View
<1> QED
  BY <1>1, <1>2

LEMMA StepSeen ==
    ASSUME IInv, pc \in {"scan", "first"}, NEW after \in {"first", "extend"}, NEW start,
           Step(after, start)
    PROVE  ViewNext(last_bp') = StepRuns(View, after, start)
<1>1. UNCHANGED <<owned, reqsize, call, ptr, mem_brk, mem_max_addr>>
  BY DEF Step
<1>2. /\ ClientInv /\ HeapReady /\ InSearch /\ bp \in Blocks \cup {8, mem_brk}
  BY DEF IInv, HeapReady, InSearch, Searched, heap_listp, mem_start_brk, WSIZE
<1>3. /\ \A b \in Blocks : GET_SIZE(mem, HDRP(b)) > 0
      /\ GET_SIZE(mem, HDRP(mem_brk)) = 0 /\ \A a : ~Fits(mem, 8, a)
  BY ListFacts
<1> DEFINE v == View
           m == MemOf(v)
<1>4. /\ v.pc = pc /\ v.call = call /\ v.bp = bp /\ v.brk = mem_brk
      /\ Alike(mem, m, mem_brk, Live)
  BY <1>1, <1>2, ViewNow DEF View, HeapReady
<1> HIDE DEF m, v
<1>5. /\ GET_SIZE(mem, HDRP(bp)) = GET_SIZE(m, HDRP(bp))
      /\ NEXT_BLKP(mem, bp) = NEXT_BLKP(m, bp)
      /\ Fits(mem, bp, asize) <=> Fits(m, bp, asize)
  BY <1>2, <1>4, SameHeaders DEF Blocks
<1>6. StepRuns(v, after, start) =
        IF GET_SIZE(m, HDRP(bp)) = 0 THEN SearchesAt(v, after, start)
        ELSE IF Fits(m, bp, asize) THEN Finds(v, bp, asize)
        ELSE SearchesAt(v, pc, NEXT_BLKP(m, bp))
  BY <1>4 DEF StepRuns, asize, m
<1>7. CASE GET_SIZE(mem, HDRP(bp)) = 0 /\ Searching(after, start)
  BY <1>1, <1>5, <1>6, <1>7, SearchSeen DEF v
<1>8. CASE GET_SIZE(mem, HDRP(bp)) > 0 /\ Fits(mem, bp, asize) /\ Allocated(mem, bp)
  <2>1. bp \in Blocks /\ GET_SIZE(mem, HDRP(bp)) # 0
    BY <1>2, <1>3, <1>8
  <2> QED
    BY <1>1, <1>5, <1>6, <1>8, <2>1, FoundSeen DEF v
<1>9. CASE /\ GET_SIZE(mem, HDRP(bp)) > 0 /\ ~Fits(mem, bp, asize)
           /\ Searching(pc, NEXT_BLKP(mem, bp))
  <2>1. GET_SIZE(mem, HDRP(bp)) # 0
    BY <1>9
  <2> QED
    BY <1>1, <1>5, <1>6, <1>9, <2>1, SearchSeen DEF v
<1> QED
  BY <1>7, <1>8, <1>9 DEF Step, v

LEMMA ExtendSeen ==
    ASSUME IInv, extend_heap
    PROVE  ViewNext(last_bp') = Grows(View, asize)
<1> DEFINE size == ExtendBytes(MAX(asize, CHUNKSIZE) \div WSIZE)
           n == NewBlock(mem, mem_brk, size)
           b == CoalescedBp(n, mem_brk)
<1>1. /\ ClientInv /\ pc = "extend" /\ InSearch /\ BlockSize(asize)
      /\ UNCHANGED <<owned, reqsize, call, ptr, mem_max_addr>>
  BY CallSize DEF extend_heap, InSearch, IInv
<1>2. PICK a : a = asize
  OBVIOUS
<1>3. size = ExtendBytes(MAX(a, CHUNKSIZE) \div WSIZE)
  BY <1>2
<1> HIDE DEF size
<1>4. CASE /\ SbrkFails(mem_brk, size) /\ pc' = "return"
           /\ UNCHANGED <<mem, mem_brk, last_bp, bp, ret>>
  <2>1. ViewNext(last_bp) = Grows(View, a)
    BY <1>1, <1>3, <1>4, GivesUpView DEF View
  <2> QED
    BY <1>2, <1>4, <2>1
<1>5. CASE /\ ~SbrkFails(mem_brk, size) /\ mem_brk' = mem_brk + size
           /\ Allocated(Coalesce(n, mem_brk), b)
  <2>1. /\ mem' = Place(Coalesce(n, mem_brk), b, a)
        /\ ret' = b /\ last_bp' = b
        /\ pc' = IF ptr = NULL THEN "return" ELSE "copy"
    BY <1>2, <1>5 DEF Allocated
  <2>2. n = NewBlock(mem, mem_brk, size) /\ b = CoalescedBp(n, mem_brk)
    OBVIOUS
  <2> HIDE DEF n, b
  <2>3. ViewNext(b) = Grows(View, a)
    BY <1>1, <1>2, <1>3, <1>5, <2>1, <2>2, GrowsView DEF View
  <2> QED
    BY <1>2, <2>1, <2>3
<1> QED
  BY <1>4, <1>5 DEF extend_heap, size

LEMMA CopySeen ==
    ASSUME IInv, Copy
    PROVE  LET v == View
           IN  ViewNext(last_bp') = Frees(v, "return", v.call, v.owned, v.ptr)
<1>1. ClientInv /\ pc = "copy"
  BY DEF IInv, Copy
<1>2. PICK m, f : /\ m = memcpy(mem, ret, ptr, CopySize)
                  /\ f = MarkFree(m, ptr) /\ mem' = Coalesce(f, ptr)
                  /\ last_bp' = CoalescedBp(f, ptr)
  BY DEF Copy, FreeIn
<1>3. /\ CopySize \in Nat /\ CopySize + 8 <= GET_SIZE(mem, HDRP(ret))
      /\ OnlyWrites(mem, m, ret, CopySize)
  BY <1>1, <1>2, CopyInside DEF CopySize
<1>4. /\ ptr' = NULL /\ pc' = "return"
      /\ UNCHANGED <<owned, call, ret, mem_brk, mem_max_addr>>
  BY DEF Copy
<1>5. PICK v : v = View
  OBVIOUS
<1>6. ViewNext(CoalescedBp(f, ptr)) = Frees(v, "return", v.call, v.owned, v.ptr)
  BY <1>1, <1>2, <1>3, <1>4, <1>5, CopyView DEF View
<1> QED
  BY <1>2, <1>5, <1>6

LEMMA mm_initSeen ==
    ASSUME IInv, mm_init
    PROVE  ViewNext(last_bp') = Inits(View, FirstBlock)
<1> DEFINE brk == mem_brk + 4 * WSIZE
           size == ExtendBytes(CHUNKSIZE \div WSIZE)
           n == NewBlock(EmptyHeap(mem, mem_brk), brk, size)
<1>1. ClientInv /\ pc = "init" /\ UNCHANGED <<owned, reqsize, call, bp, ptr, ret, mem_max_addr>>
  BY DEF IInv, mm_init
<1>2. \/ SbrkFails(mem_brk, 4 * WSIZE) /\ pc' = "failed" /\ mem_brk' = mem_brk
      \/ /\ ~SbrkFails(mem_brk, 4 * WSIZE) /\ SbrkFails(brk, size)
         /\ pc' = "failed" /\ mem_brk' = brk
      \/ /\ ~SbrkFails(mem_brk, 4 * WSIZE) /\ ~SbrkFails(brk, size)
         /\ pc' = "idle" /\ mem_brk' = brk + size
         /\ mem' = Coalesce(n, brk) /\ last_bp' = CoalescedBp(n, brk)
  <2> HIDE DEF size
  <2> QED
    BY DEF mm_init, size
<1>3. ViewNext(FirstBlock) = Inits(View, FirstBlock)
  <2>1. brk = mem_brk + 4 * WSIZE /\ size = ExtendBytes(CHUNKSIZE \div WSIZE)
    OBVIOUS
  <2> HIDE DEF brk, size
  <2> QED
    BY <1>1, <1>2, <2>1, InitView DEF View
<1>4. pc' = "idle" => last_bp' = FirstBlock
  <2>1. HAVE pc' = "idle"
  <2>2. IInv'
    BY mm_initKeeps
  <2>3. last_bp' \in Blocks'
    BY <2>1, <2>2 DEF IInv, RoverOnBlock, HeapReady
  <2>4. Live' = {}
    BY <1>1 DEF Live, ClientInv, CallOK, NULL
  <2>5. last_bp' \in BlocksOf(mem', mem_brk', Live')
    BY <2>3 DEF Blocks
  <2> QED
    BY <2>4, <2>5, LoneBlock DEF FirstBlock
<1>5. pc' # "idle" => ~HeapReady'
  BY <1>2 DEF HeapReady
<1>6. ViewNext(last_bp') = ViewNext(FirstBlock)
  BY <1>4, <1>5 DEF ViewNext
<1> QED
  BY <1>3, <1>6

LEMMA RunSeen ==
    ASSUME IInv, Run
    PROVE  ViewNext(last_bp') = Runs(View)
<1>1. View.pc = pc /\ (InSearch => View.call = call)
  <2>1. View = Seen(pc, CallSeen, owned, ptr, ret, BpSeen,
                    IF HeapReady THEN last_bp ELSE NULL, mem_brk, mem_max_addr,
                    SizesSeen)
    BY DEF View, ViewOf
  <2>2. View.pc = pc /\ View.call = CallSeen
    BY <2>1, SeenFields
  <2> QED
    BY <2>2 DEF CallSeen, InSearch
<1> DEFINE v == View
<1> HIDE DEF v
<1>2. v.pc = pc /\ (InSearch => v.call = call) /\ v = View
  BY <1>1 DEF v
<1>3. CASE mm_init
  BY <1>2, <1>3, mm_initSeen DEF Runs, mm_init
<1>4. CASE next_fit
  BY <1>2, <1>4, StepSeen DEF Runs, next_fit
<1>5. CASE find_fit
  BY <1>2, <1>5, StepSeen DEF Runs, find_fit
<1>6. CASE extend_heap
  <2>1. pc = "extend" /\ asize = AdjustedSize(v.call.size)
    BY <1>2, <1>6 DEF extend_heap, InSearch, asize
  <2> QED
    BY <1>2, <1>6, <2>1, ExtendSeen DEF Runs
<1>7. CASE Copy
  BY <1>2, <1>7, CopySeen DEF Runs, Copy
<1> QED
  BY <1>2, <1>3, <1>4, <1>5, <1>6, <1>7 DEF Run

LEMMA mm_freeSeen ==
    ASSUME IInv, NEW id \in Ids, mm_free(id)
    PROVE  ViewNext(last_bp') = FreesBlock(View, id)
<1>1. PICK f : /\ f = MarkFree(mem, owned[id]) /\ mem' = Coalesce(f, owned[id])
               /\ last_bp' = CoalescedBp(f, owned[id])
  BY DEF mm_free, FreeIn
<1>2. /\ ClientInv /\ pc = "idle" /\ owned[id] # NULL
      /\ owned' = [owned EXCEPT ![id] = NULL]
      /\ UNCHANGED <<pc, ptr, ret, mem_brk, mem_max_addr>>
  BY DEF mm_free, IInv
<1>3. ViewNext(CoalescedBp(f, owned[id])) = FreesBlock(View, id)
  BY <1>1, <1>2, FreeView DEF View
<1> QED
  BY <1>1, <1>3

\* The search starts after the rover, which is at a block.
LEMMA StartSeen ==
    ASSUME IInv, pc = "idle", NEW v, v = View
    PROVE  /\ ClientInv /\ v.owned = owned /\ ptr = NULL /\ ret = NULL
           /\ NEXT_BLKP(mem, last_bp) = NEXT_BLKP(MemOf(v), v.rover)
<1>1. ClientInv /\ HeapReady /\ last_bp \in Blocks
  BY DEF IInv, HeapReady, RoverOnBlock
<1>2. v.owned = owned /\ v.rover = last_bp /\ Alike(mem, MemOf(v), mem_brk, Live)
  BY <1>1, ViewNow DEF View
<1> QED
  BY <1>1, <1>2, SameHeaders DEF Blocks, ClientInv, CallOK

LEMMA mm_mallocSeen ==
    ASSUME IInv, NEW id \in Ids, NEW size \in Sizes, mm_malloc(id, size)
    PROVE  ViewNext(last_bp') = Mallocs(View, id, size)
<1>1. /\ pc = "idle" /\ CallStarts(id, size, NULL) /\ owned[id] = NULL
      /\ UNCHANGED <<ptr, ret, last_bp, mem, mem_brk, mem_max_addr>>
  BY DEF mm_malloc, CallStarts, memVars
<1> DEFINE v == View
<1>2. /\ ClientInv /\ v.owned = owned /\ ptr = NULL /\ ret = NULL
      /\ NEXT_BLKP(mem, last_bp) = NEXT_BLKP(MemOf(v), v.rover)
  BY <1>1, StartSeen
<1>3. v = ViewOf(last_bp)
  BY DEF View
<1> HIDE DEF v
<1>4. ptr' = owned[id] /\ ret' = NULL /\ ptr' = NULL /\ CallStarts(id, size, owned[id])
  BY <1>1, <1>2
<1>5. CASE size = 0
  <2>1. pc' = "return" /\ HeapReady' /\ ~InSearch'
    BY <1>5 DEF mm_malloc, HeapReady, InSearch
  <2>2. ViewNext(last_bp) = Enters(v, id, size, pc', ptr', ret', NULL, v.sizes)
    BY <1>1, <1>2, <1>3, <1>4, <2>1, EntersView
  <2> QED
    BY <1>1, <1>4, <1>5, <2>1, <2>2 DEF Mallocs, v
<1>6. CASE size # 0
  <2>1. /\ pc' = "scan" /\ HeapReady' /\ InSearch'
        /\ bp' = NEXT_BLKP(mem, last_bp)
    BY <1>6 DEF mm_malloc, HeapReady, InSearch
  <2>2. ViewNext(last_bp) = Enters(v, id, size, pc', ptr', ret', bp', v.sizes)
    BY <1>1, <1>2, <1>3, <1>4, <2>1, EntersView
  <2> QED
    BY <1>1, <1>2, <1>4, <1>6, <2>1, <2>2 DEF Mallocs, v
<1> QED
  BY <1>5, <1>6

LEMMA mm_reallocSeen ==
    ASSUME IInv, NEW id \in Ids, NEW size \in Sizes, mm_realloc(id, size)
    PROVE  ViewNext(last_bp') = Reallocs(View, id, size)
<1>1. /\ pc = "idle" /\ owned[id] # NULL /\ CallStarts(id, size, owned[id])
      /\ UNCHANGED <<reqsize, ret, mem_brk, mem_max_addr>>
  BY DEF mm_realloc, CallStarts
<1> DEFINE v == View
<1>2. /\ ClientInv /\ v.owned = owned /\ ptr = NULL /\ ret = NULL
      /\ NEXT_BLKP(mem, last_bp) = NEXT_BLKP(MemOf(v), v.rover)
  BY <1>1, StartSeen
<1>3. v = ViewOf(last_bp)
  BY DEF View
<1> HIDE DEF v
<1>4. CASE size = 0
  <2>1. PICK f : /\ f = MarkFree(mem, owned[id]) /\ mem' = Coalesce(f, owned[id])
                 /\ last_bp' = CoalescedBp(f, owned[id])
                 /\ pc' = "return" /\ UNCHANGED ptr
    BY <1>4 DEF mm_realloc, FreeIn
  <2>2. ViewNext(CoalescedBp(f, owned[id])) =
           Frees(v, "return", CallOf(id, size), Without(v.owned, id), v.owned[id])
    BY <1>1, <1>2, <1>3, <2>1, ReallocFreesView
  <2> QED
    BY <1>4, <2>1, <2>2 DEF Reallocs, v
<1>5. CASE size # 0
  <2>1. /\ pc' = "scan" /\ HeapReady' /\ InSearch' /\ ptr' = owned[id]
        /\ bp' = NEXT_BLKP(mem, last_bp)
        /\ UNCHANGED <<mem, last_bp>>
    BY <1>5 DEF mm_realloc, HeapReady, InSearch
  <2>2. ret' = NULL
    BY <1>1, <1>2
  <2>3. ViewNext(last_bp) = Enters(v, id, size, pc', ptr', ret', bp', v.sizes)
    BY <1>1, <1>2, <1>3, <2>1, <2>2, EntersView
  <2> QED
    BY <1>2, <1>5, <2>1, <2>2, <2>3 DEF Reallocs, v
<1> QED
  BY <1>4, <1>5

(***************************************************************************)
(* What the view becomes is a function of the view, of the request and of  *)
(* nothing else.                                                           *)
(***************************************************************************)
Determined ==
    /\ Run => View' = Runs(View)
    /\ \A id \in Ids : mm_free(id) => View' = FreesBlock(View, id)
    /\ \A id \in Ids, size \in Sizes : mm_malloc(id, size) => View' = Mallocs(View, id, size)
    /\ \A id \in Ids, size \in Sizes : mm_realloc(id, size) => View' = Reallocs(View, id, size)
    /\ (Return \/ Returns(mem)) /\ UNCHANGED last_bp => View' = Answers(View)
    /\ NewTrace /\ UNCHANGED last_bp => View' = Fresh(mem_max_addr)
    /\ UNCHANGED vars => View' = View

LEMMA ViewStart ==
    ASSUME IInv
    PROVE  View.pc = pc /\ View.ret = ret /\ (pc = "init" => View = Fresh(mem_max_addr))
<1>1. View = Seen(pc, CallSeen, owned, ptr, ret, BpSeen,
                  IF HeapReady THEN last_bp ELSE NULL, mem_brk, mem_max_addr, SizesSeen)
  BY DEF View, ViewOf
<1>2. View.pc = pc /\ View.ret = ret
  BY <1>1, SeenFields
<1>3. pc = "init" => View = Fresh(mem_max_addr)
  BY FreshView DEF View, IInv
<1> QED
  BY <1>2, <1>3

LEMMA StepDetermined ==
    ASSUME IInv
    PROVE  Determined
<1>1. View' = ViewNext(last_bp')
  BY Zenon DEF View, ViewOf, ViewNext
<1>2. View = ViewOf(last_bp) /\ ClientInv
  BY DEF View, IInv
<1>3. Run => View' = Runs(View)
  BY <1>1, RunSeen
<1>4. \A id \in Ids : mm_free(id) => View' = FreesBlock(View, id)
  BY <1>1, mm_freeSeen
<1>5. \A id \in Ids, size \in Sizes : mm_malloc(id, size) => View' = Mallocs(View, id, size)
  BY <1>1, mm_mallocSeen
<1>6. \A id \in Ids, size \in Sizes : mm_realloc(id, size) => View' = Reallocs(View, id, size)
  BY <1>1, mm_reallocSeen
<1>7. ASSUME UNCHANGED last_bp
      PROVE  /\ Return \/ Returns(mem) => View' = Answers(View)
             /\ NewTrace => View' = Fresh(mem_max_addr)
  <2>1. View' = ViewNext(last_bp)
    BY <1>1, <1>7
  <2>2. Return \/ Returns(mem) => ViewNext(last_bp) = Answers(View)
    BY <1>2, ReturnView
  <2>3. NewTrace => ViewNext(last_bp) = Fresh(mem_max_addr)
    BY <1>2, NewTraceView
  <2> QED
    BY <2>1, <2>2, <2>3
<1>8. UNCHANGED vars => View' = View
  <2>1. SUFFICES ASSUME UNCHANGED vars PROVE View' = View
    OBVIOUS
  <2>2. UNCHANGED memVars /\ UNCHANGED clientVars /\ last_bp' = last_bp
    BY <2>1 DEF vars
  <2>3. ViewNext(last_bp) = ViewOf(last_bp)
    BY <2>2, StutterView
  <2> QED
    BY <1>1, <1>2, <2>2, <2>3
<1> QED
  BY <1>3, <1>4, <1>5, <1>6, <1>7, <1>8 DEF Determined

\* Where sungjoo's allocator puts a block does not depend on what earlier traces or
\* the client have left in the storage: every step takes the view, in which the
\* sizes of the allocated blocks stand for the words, to one that only the view
\* and the request determine.
THEOREM SungjooDetermined == Spec => [][Determined]_vars
<1>1. IInv => Determined
  BY StepDetermined
<1> QED
  BY <1>1, SungjooInvariant, PTL
=============================================================================
