--------------------------- MODULE MemoryContract ---------------------------
(***************************************************************************)
(* What malloc, free and realloc promise to a program, whatever the        *)
(* allocator: the abstract specification of mm.h, as eval_mm_valid of      *)
(* mdriver.c tests it.  A block has an address, a size and a content; no   *)
(* two blocks share a byte.                                                *)
(***************************************************************************)
EXTENDS Integers

CONSTANTS Ids

VARIABLES
    lo,     \* id -> first byte of its block, 0 for none
    size,   \* id -> bytes asked for
    data,   \* id -> content, a function of the byte offsets of its words
    busy    \* a call is in progress: the program itself writes nothing

vars == <<lo, size, data, busy>>

Others(id) == Ids \ {id}

UnchangedFor(i) == lo'[i] = lo[i] /\ size'[i] = size[i] /\ data'[i] = data[i]

\* The block that id gets overlaps no other block.
Apart(id) ==
    \A i \in Others(id) :
        lo[i] # 0 => \/ lo'[id] + size'[id] <= lo[i]
                     \/ lo[i] + size[i] <= lo'[id]

Init == \A id \in Ids : lo[id] = 0 /\ size[id] = 0

\* A call begins, or returns without having changed anything.
Turn == busy' # busy /\ UNCHANGED <<lo, size, data>>

\* malloc: a new block anywhere outside the others, with any content.
Allocate(id) ==
    /\ lo[id] = 0
    /\ lo'[id] # 0
    /\ lo'[id] % 8 = 0
    /\ Apart(id)
    /\ \A i \in Others(id) : UnchangedFor(i)

Free(id) ==
    /\ lo[id] # 0
    /\ lo'[id] = 0
    /\ \A i \in Others(id) : UnchangedFor(i)

\* realloc: the block may move and change size; the common prefix is kept.
Resize(id) ==
    /\ lo[id] # 0
    /\ lo'[id] # 0
    /\ lo'[id] % 8 = 0
    /\ Apart(id)
    /\ \A k \in DOMAIN data[id] \cap DOMAIN data'[id] : data'[id][k] = data[id][k]
    /\ \A i \in Others(id) : UnchangedFor(i)

\* The program, its call having returned, writes to its own block.
Write(id) ==
    /\ ~busy'
    /\ lo[id] # 0
    /\ lo'[id] = lo[id]
    /\ size'[id] = size[id]
    /\ \A i \in Others(id) : UnchangedFor(i)

\* The program forgets all its blocks and starts again.
Forget == \A id \in Ids : lo'[id] = 0

Next ==
    \/ Turn
    \/ \E id \in Ids : Allocate(id) \/ Free(id) \/ Resize(id) \/ Write(id)
    \/ Forget

Spec == Init /\ [][Next]_vars
=============================================================================
