----------------------------- MODULE EvalMmValid ----------------------------
(***************************************************************************)
(* mdriver.c: eval_mm_valid, which replays a trace against a malloc        *)
(* package and reports the first mistake of the package, and the range     *)
(* list (add_range, remove_range, clear_ranges) it keeps for that purpose. *)
(*                                                                         *)
(* The package under test is any program: each call may return any         *)
(* address, and mm_realloc may keep the old bytes or not.  `faultless`     *)
(* records whether the package has kept its promises since mm_init; it is  *)
(* the only variable that the driver does not have.                        *)
(***************************************************************************)
EXTENDS Integers, Sequences, SequencesExt

CONSTANTS
    Ids,         \* the block indices that the traces use
    Sizes,       \* request sizes, positive
    Addrs,       \* the addresses the package returns
    HeapLo,      \* mem_heap_lo()
    HeapHi       \* mem_heap_hi(), the package having grown its heap at once

ASSUME EvalAssumption ==
    /\ Ids \subseteq Nat
    /\ Sizes \subseteq Nat \ {0}
    /\ Addrs \subseteq Nat \ {0}
    /\ HeapLo \in Nat \ {0} /\ HeapHi \in Nat

VARIABLES
    ranges,      \* the range list, most recent first
    blocks,      \* trace->blocks
    block_sizes, \* trace->block_sizes
    live,        \* the indices allocated and not yet freed by the trace
    unused,      \* the indices the rest of the trace may still allocate
    bytes,       \* the bytes of the heap
    phase,       \* "running", or the verdict: "valid" or "invalid"
    faultless    \* the package has kept its promises so far

vars == <<ranges, blocks, block_sizes, live, unused, bytes, phase, faultless>>

NULL == 0
ALIGNMENT == 8
Heap == HeapLo..HeapHi

TypeOK ==
    /\ ranges \in Seq([lo : Addrs, hi : Nat])
    /\ blocks \in [Ids -> Addrs \cup {NULL}]
    /\ block_sizes \in [Ids -> Sizes \cup {0}]
    /\ live \subseteq Ids
    /\ unused \subseteq Ids \ live
    /\ bytes \in [Heap -> 0..255]
    /\ phase \in {"running", "valid", "invalid"}
    /\ faultless \in BOOLEAN

(***************************************************************************)
(* The range list.                                                         *)
(***************************************************************************)
Extent(lo, size) == [lo |-> lo, hi |-> lo + size - 1]

\* Mutant: only the end of the new range is tested.
ConflictAtEnd(r, p) == r.hi >= p.lo /\ r.hi <= p.hi

\* The test of add_range: does an end of r fall in p?
Conflict(r, p) ==
    \/ r.lo >= p.lo /\ r.lo <= p.hi
    \/ r.hi >= p.lo /\ r.hi <= p.hi

\* What add_range accepts into the list rs.
Accepted(rs, r) ==
    /\ r.lo % ALIGNMENT = 0
    /\ r.lo \in Heap
    /\ r.hi \in Heap
    /\ \A k \in DOMAIN rs : ~Conflict(r, rs[k])

\* Mutants: prevpp does not advance along the list; nothing is removed.
RemovedWithEarlier(rs, lo) ==
    LET at == {k \in DOMAIN rs : rs[k].lo = lo}
    IN  IF at = {} THEN rs
        ELSE SubSeq(rs, (CHOOSE k \in at : \A j \in at : k <= j) + 1, Len(rs))
NotRemoved(rs, lo) == rs

\* remove_range: the first range that starts at lo, if there is one.
Removed(rs, lo) ==
    LET at == {k \in DOMAIN rs : rs[k].lo = lo}
    IN  IF at = {} THEN rs
        ELSE RemoveAt(rs, CHOOSE k \in at : \A j \in at : k <= j)

(***************************************************************************)
(* The package's promises.                                                 *)
(***************************************************************************)
Payload(i) == Extent(blocks[i], block_sizes[i])

Overlap(r, p) == r.lo <= p.hi /\ p.lo <= r.hi

Promised(i, r) ==
    /\ r.lo % ALIGNMENT = 0
    /\ r.lo \in Heap /\ r.hi \in Heap
    /\ \A j \in live \ {i} : ~Overlap(r, Payload(j))

\* The byte a payload is filled with, and what reading it as a plain char
\* gives: char is signed with gcc on x86.
FillByte(i) == i % 256
AsChar(b) == IF b >= 128 THEN b - 256 ELSE b

memset(b, r, val) == [a \in Heap |-> IF r.lo <= a /\ a <= r.hi THEN val ELSE b[a]]

\* The package moves n bytes of its block.
Moved(to, from, n) ==
    [a \in Heap |-> IF to <= a /\ a < to + n /\ from + (a - to) \in Heap
                    THEN bytes[from + (a - to)] ELSE bytes[a]]

Remember(i, p, size) ==
    /\ blocks' = [blocks EXCEPT ![i] = p]
    /\ block_sizes' = [block_sizes EXCEPT ![i] = size]

\* "return 0" of eval_mm_valid: the trace is not replayed further.
Report ==
    /\ phase' = "invalid"
    /\ UNCHANGED <<blocks, block_sizes, live, unused>>

(***************************************************************************)
(* eval_mm_valid                                                           *)
(***************************************************************************)
Init ==
    /\ ranges = <<>>
    /\ blocks = [i \in Ids |-> NULL]
    /\ block_sizes = [i \in Ids |-> 0]
    /\ live = {}
    /\ unused = Ids
    /\ bytes = [a \in Heap |-> 0]
    /\ phase = "running"
    /\ faultless = TRUE

\* The next trace: clear_ranges, then mm_init, which may fail; the heap keeps
\* its bytes.
NextTrace ==
    /\ phase # "running"
    /\ \/ phase' = "running" /\ faultless' = TRUE
       \/ phase' = "invalid" /\ faultless' = FALSE
    /\ ranges' = <<>>
    /\ blocks' = [i \in Ids |-> NULL]
    /\ block_sizes' = [i \in Ids |-> 0]
    /\ live' = {}
    /\ unused' = Ids
    /\ UNCHANGED bytes

Alloc(i, size, p) ==
    LET r == Extent(p, size)
    IN  /\ phase = "running"
        /\ i \in unused
        /\ faultless' = (faultless /\ p # NULL /\ Promised(i, r))
        /\ \/ /\ p = NULL \/ ~Accepted(ranges, r)
              /\ Report
              /\ UNCHANGED <<ranges, bytes>>
           \/ /\ p # NULL /\ Accepted(ranges, r)
              /\ ranges' = <<r>> \o ranges
              /\ bytes' = memset(bytes, r, FillByte(i))
              /\ Remember(i, p, size)
              /\ live' = live \cup {i}
              /\ unused' = unused \ {i}
              /\ UNCHANGED phase

\* keeps: the package copies the old bytes, as many as both sizes have.
Realloc(i, size, p, keeps) ==
    LET r == Extent(p, size)
        rest == Removed(ranges, blocks[i])
        common == IF size < block_sizes[i] THEN size ELSE block_sizes[i]
        after == IF p # NULL /\ keeps THEN Moved(p, blocks[i], common) ELSE bytes
    IN  /\ phase = "running"
        /\ i \in live
        /\ faultless' = (faultless /\ p # NULL /\ keeps /\ Promised(i, r))
        /\ \/ /\ p = NULL
              /\ Report
              /\ UNCHANGED <<ranges, bytes>>
           \/ /\ p # NULL /\ ~Accepted(rest, r)
              /\ Report
              /\ ranges' = rest
              /\ bytes' = after
           \/ /\ p # NULL /\ Accepted(rest, r)
              /\ \E a \in p..(p + common - 1) : AsChar(after[a]) # FillByte(i)
              /\ Report
              /\ ranges' = <<r>> \o rest
              /\ bytes' = after
           \/ /\ p # NULL /\ Accepted(rest, r)
              /\ \A a \in p..(p + common - 1) : AsChar(after[a]) = FillByte(i)
              /\ ranges' = <<r>> \o rest
              /\ bytes' = memset(after, r, FillByte(i))
              /\ Remember(i, p, size)
              /\ UNCHANGED <<phase, live, unused>>

Free(i) ==
    /\ phase = "running"
    /\ i \in live
    /\ ranges' = Removed(ranges, blocks[i])
    /\ live' = live \ {i}
    /\ UNCHANGED <<blocks, block_sizes, unused, bytes, phase, faultless>>

\* The trace ends: "as far as we know, this is a valid malloc package".
Finish ==
    /\ phase = "running"
    /\ phase' = "valid"
    /\ UNCHANGED <<ranges, blocks, block_sizes, live, unused, bytes, faultless>>

Results == Addrs \cup {NULL}

Next ==
    \/ \E i \in Ids, s \in Sizes, p \in Results : Alloc(i, s, p)
    \/ \E i \in Ids, s \in Sizes, p \in Results, keeps \in BOOLEAN :
          Realloc(i, s, p, keeps)
    \/ \E i \in Ids : Free(i)
    \/ Finish
    \/ NextTrace

Spec == Init /\ [][Next]_vars

(***************************************************************************)
(* Properties.                                                             *)
(***************************************************************************)
\* The range list holds exactly the extents of the blocks the trace has live,
\* through every replacement by realloc and every search by remove_range.
RangesMirrorBlocks ==
    phase # "invalid" =>
      /\ {ranges[k] : k \in DOMAIN ranges} = {Payload(i) : i \in live}
      /\ \A i, j \in live : i # j => blocks[i] # blocks[j]
      /\ \A j, k \in DOMAIN ranges : j # k => ranges[j] # ranges[k]

\* A package that keeps its promises is never reported: neither add_range nor
\* the comparison of the reallocated bytes ("make sure that the new block
\* contains the data from the old block") raises a false alarm.
NoFalseAlarm == phase = "invalid" => ~faultless

\* The only overlap that add_range can miss is a new range with an older one
\* strictly inside it.
OnlyEnclosingMissed ==
    \A j, k \in DOMAIN ranges :
        j < k /\ Overlap(ranges[j], ranges[k]) =>
            ranges[j].lo < ranges[k].lo /\ ranges[k].hi < ranges[j].hi

\* "The payload must not overlap any other payloads" (mdriver.c:408): ranges
\* accepted by add_range are disjoint.
AcceptedRangesDisjoint ==
    \A j, k \in DOMAIN ranges : j # k => ~Overlap(ranges[j], ranges[k])
=============================================================================
