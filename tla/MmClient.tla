------------------------------ MODULE MmClient ------------------------------
(***************************************************************************)
(* The program that calls mm.h (mdriver.c is the one in the repository)    *)
(* and what it may rely on.  An allocator module EXTENDS this one, adds    *)
(* its rover and gives the steps of mm_init, mm_malloc, mm_free and        *)
(* mm_realloc; here are the client's own steps, and the properties common  *)
(* to all the allocators.                                                  *)
(*                                                                         *)
(* The client owns at most one block per id (an index of a trace).  While  *)
(* a call runs, the block passed to mm_realloc is in `ptr` instead of      *)
(* `owned`, and the block that will be returned is in `ret`.               *)
(***************************************************************************)
EXTENDS memlib, HeapLayout

CONSTANTS
    Ids,         \* names of the client's blocks
    Sizes,       \* request sizes, in bytes
    Fill,        \* the word the client fills the payload of each id with
    CHUNKSIZE    \* least extension of the heap, 4096 in the code

ASSUME ClientAssumption ==
    /\ Ids # {}
    /\ \A s \in Sizes : s \in Nat /\ s % WSIZE = 0
    /\ Fill \in [Ids -> Nat]
    /\ CHUNKSIZE \in Nat /\ CHUNKSIZE % 8 = 0 /\ CHUNKSIZE >= 2 * DSIZE
    /\ MAX_HEAP % 8 = 0

VARIABLES
    owned,       \* id -> payload address, NULL when the id has no block
    reqsize,     \* id -> bytes asked for
    pc,          \* where the allocator is; "idle" between calls
    call,        \* the id and the size of the call in progress
    bp,          \* the block pointer of the search in progress
    ptr,         \* mm_realloc's argument, until it is freed
    ret          \* the block to be returned

clientVars == <<owned, reqsize, pc, call, bp, ptr, ret>>

NoCall == [id |-> CHOOSE i \in Ids : TRUE, size |-> 0]

ClientTypeOK ==
    /\ owned \in [Ids -> Nat]
    /\ reqsize \in [Ids -> Nat]
    /\ call \in [id : Ids, size : Sizes \cup {0}]
    /\ bp \in Nat
    /\ ptr \in Nat
    /\ ret \in Nat

ClientInit ==
    /\ owned = [id \in Ids |-> NULL]
    /\ reqsize = [id \in Ids |-> 0]
    /\ pc = "init"
    /\ call = NoCall
    /\ bp = NULL
    /\ ptr = NULL
    /\ ret = NULL

\* The client's call of mm_malloc (p = NULL) or mm_realloc enters the code.
CallStarts(id, size, p) ==
    /\ pc = "idle"
    /\ p = owned[id]
    /\ call' = [id |-> id, size |-> size]
    /\ owned' = [owned EXCEPT ![id] = NULL]

\* The call returns and leaves m in the storage.  When it failed, a block passed
\* to mm_realloc is still the client's own.
Returns(m) ==
    /\ pc = "return"
    /\ pc' = "idle"
    /\ LET id == call.id
       IN  /\ owned' = [owned EXCEPT ![id] = IF ret # NULL THEN ret ELSE ptr]
           /\ reqsize' = [reqsize EXCEPT ![id] =
                            IF ret # NULL THEN call.size
                            ELSE IF ptr # NULL THEN @ ELSE 0]
    /\ mem' = m
    /\ call' = NoCall
    /\ bp' = NULL
    /\ ptr' = NULL
    /\ ret' = NULL
    /\ UNCHANGED <<mem_brk, mem_max_addr>>

\* On success the client fills the payload (memset in eval_mm_valid).
Return ==
    Returns(IF ret # NULL THEN memset(mem, ret, Fill[call.id], call.size) ELSE mem)

\* The client starts another trace: it forgets its blocks, resets the break
\* and calls mm_init on storage that still holds the last trace's words.
NewTrace ==
    /\ pc \in {"idle", "failed"}
    /\ mem_reset_brk
    /\ owned' = [id \in Ids |-> NULL]
    /\ reqsize' = [id \in Ids |-> 0]
    /\ pc' = "init"
    /\ UNCHANGED <<call, bp, ptr, ret>>

(***************************************************************************)
(* Properties common to the allocators.                                    *)
(***************************************************************************)
HeapReady == pc \notin {"init", "failed"}

\* The blocks somebody may write to: the client's, and those in transit.
Live == ({owned[id] : id \in Ids} \cup {ptr, ret}) \ {NULL}

Blocks == BlocksOf(mem, mem_brk, Live)

\* Whenever a call can be made or is searching, the heap is a sequence of
\* well formed blocks from the prologue to the epilogue, marked allocated
\* exactly where the client owns a block, with no two free neighbours.  What
\* every tag write of place, coalesce, extend_heap and mm_realloc must keep.
HeapOK == HeapReady => WellFormed(mem, mem_brk, Live)

\* The payloads in use, each with the number of bytes that were asked for.
Payloads ==
    {<<owned[id], reqsize[id]>> : id \in {i \in Ids : owned[i] # NULL}}
    \cup (IF ptr # NULL THEN {<<ptr, reqsize[call.id]>>} ELSE {})
    \cup (IF ret # NULL THEN {<<ret, call.size>>} ELSE {})

\* What add_range of mdriver.c verifies after each call: payloads are aligned
\* to 8 bytes, lie inside the heap and overlap no other payload.
PayloadsDisjoint ==
    HeapReady =>
      /\ \A x \in Payloads :
            x[1] % 8 = 0 /\ x[1] >= mem_heap_lo /\ x[1] + x[2] - 1 <= mem_heap_hi
      /\ \A x, y \in Payloads :
            x # y => x[1] + x[2] <= y[1] \/ y[1] + y[2] <= x[1]
      /\ \A i, j \in Ids : i # j /\ owned[i] # NULL => owned[i] # owned[j]

(***************************************************************************)
(* The contract of mm.h: see MemoryContract.  A block in transit belongs   *)
(* to the id of the call, and moves when the old block has been freed.     *)
(***************************************************************************)
BlockOf(id) ==
    IF HeapReady /\ pc # "idle" /\ call.id = id
    THEN IF ptr # NULL THEN ptr ELSE ret
    ELSE owned[id]

SizeOf(id) ==
    IF BlockOf(id) = NULL THEN 0
    ELSE IF BlockOf(id) = owned[id] \/ BlockOf(id) = ptr THEN reqsize[id]
    ELSE call.size

DataOf(id) ==
    [k \in {k \in 0..(SizeOf(id) - 1) : k % WSIZE = 0} |-> mem[BlockOf(id) + k]]

Contract == INSTANCE MemoryContract WITH
    lo <- [id \in Ids |-> BlockOf(id)],
    size <- [id \in Ids |-> SizeOf(id)],
    data <- [id \in Ids |-> DataOf(id)],
    busy <- pc # "idle"

\* The allocator implements the contract of malloc, free and realloc: a call
\* for one id never moves, resizes or overwrites the block of another, and
\* mm_realloc keeps the words that fit in both sizes.
ImplementsContract == Contract!Spec
=============================================================================
