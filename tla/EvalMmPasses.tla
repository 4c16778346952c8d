---------------------------- MODULE EvalMmPasses ----------------------------
(***************************************************************************)
(* What mdriver.c does with one trace and the allocator it is linked with: *)
(* eval_mm_valid, then, if the trace was accepted, eval_mm_util, then      *)
(* eval_mm_speed as often as fsecs calls it.  Every pass resets the break, *)
(* calls mm_init and interprets the same requests; the storage still holds *)
(* the words of the pass before.                                           *)
(*                                                                         *)
(* owned and reqsize are the trace's arrays blocks and block_sizes.  The   *)
(* checks eval_mm_valid makes of an answer are in EvalMmValid; here it     *)
(* rejects a trace whose calls fail.                                       *)
(***************************************************************************)
EXTENDS MmClient, Fcyc, FiniteSetsExt

CONSTANT Timings     \* what a call of eval_mm_speed may take: cycles and ticks

\* The arrays of a trace are finite, and no call runs until the counter is back
\* where it was.
ASSUME PassesAssumption ==
    /\ IsFiniteSet(Ids)
    /\ Timings \subseteq [cycles : Nat \ {0}, ticks : Nat]
    /\ \A t \in Timings : t.cycles + t.ticks * cyc_per_tick < WORD * WORD

VARIABLES
    author,      \* whose mm.c the driver is linked with
    rover,       \* the static pointer of its find_fit
    ops,         \* the trace
    i,           \* requests interpreted in this pass
    pass,        \* the function that interprets them, or the outcome
    total_size, max_total_size,
    util,        \* what eval_mm_util returned: high water mark and heap size
    placed       \* the addresses the first pass was given

traceVars == <<ops, i, pass, total_size, max_total_size, util, placed>>
passVars == <<author, traceVars, fcycVars>>

Donguk == INSTANCE DongukMm WITH recently_visited <- rover
Sungjoo == INSTANCE SungjooMm WITH last_bp <- rover
Sanglim == INSTANCE SanglimMm WITH NF_pointer <- rover

(***************************************************************************)
(* Traces as read_trace leaves them.  An index is freed or reallocated     *)
(* only between its allocation and its release, as in the files of traces/ *)
(***************************************************************************)
Requests ==
    [type : {"ALLOC", "REALLOC"}, index : Ids, size : Sizes]
    \cup [type : {"FREE"}, index : Ids, size : {0}]

LiveBefore(t, k) ==
    \E j \in 1..(k - 1) :
        /\ t[j].index = t[k].index
        /\ t[j].type # "FREE"
        /\ \A l \in (j + 1)..(k - 1) : t[l].index # t[k].index

Traces(num_ops) ==
    {t \in [1..num_ops -> Requests] :
        \A k \in 1..num_ops : t[k].type = "ALLOC" <=> ~LiveBefore(t, k)}

NumOps == Len(ops)

PassesInit ==
    /\ author \in {"donguk", "sungjoo", "sanglim"}
    /\ Donguk!Init
    /\ ops = <<>>
    /\ i = 0
    /\ pass = "none"
    /\ total_size = 0
    /\ max_total_size = 0
    /\ util = <<0, 0>>
    /\ placed = <<>>

Begin(trace) ==
    /\ ops' = trace
    /\ i' = 0
    /\ pass' = "valid"
    /\ total_size' = 0
    /\ max_total_size' = 0
    /\ util' = <<0, 0>>
    /\ placed' = [k \in 1..Len(trace) |-> NULL]

(***************************************************************************)
(* The steps of a pass                                                     *)
(***************************************************************************)
Passes == {"valid", "util", "speed"}

\* max_total_size is updated after an allocation, total_size after every call.
Account(change) ==
    IF pass = "util"
    THEN /\ total_size' = total_size + change
         /\ max_total_size' = MAX(max_total_size, total_size + change)
    ELSE UNCHANGED <<total_size, max_total_size>>

\* What the switch statement calls, by the package the driver is linked with.
DongukServes(op) ==
    \/ op.type = "ALLOC" /\ Donguk!mm_malloc(op.index, op.size)
    \/ op.type = "REALLOC" /\ Donguk!mm_realloc(op.index, op.size)
    \/ op.type = "FREE" /\ Donguk!mm_free(op.index)

SungjooServes(op) ==
    \/ op.type = "ALLOC" /\ Sungjoo!mm_malloc(op.index, op.size)
    \/ op.type = "REALLOC" /\ Sungjoo!mm_realloc(op.index, op.size)
    \/ op.type = "FREE" /\ Sungjoo!mm_free(op.index)

\* The traces that make sanglim's mm_realloc lose its rover are left out.
SanglimServes(op) ==
    \/ op.type = "ALLOC" /\ Sanglim!mm_malloc(op.index, op.size)
    \/ /\ op.type = "REALLOC"
       /\ ~Sanglim!AbsorbsRover(op.index, op.size)
       /\ Sanglim!mm_realloc(op.index, op.size)
    \/ op.type = "FREE" /\ Sanglim!mm_free(op.index)

\* mm_malloc and mm_realloc are entered; mm_free is one step.
Interpret ==
    /\ pass \in Passes
    /\ pc = "idle"
    /\ i < NumOps
    /\ LET op == ops[i + 1]
       IN  /\ \/ author = "donguk" /\ DongukServes(op)
              \/ author = "sungjoo" /\ SungjooServes(op)
              \/ author = "sanglim" /\ SanglimServes(op)
           /\ IF op.type = "FREE"
              THEN i' = i + 1 /\ Account(-reqsize[op.index])
              ELSE UNCHANGED <<i, total_size, max_total_size>>
    /\ UNCHANGED <<author, fcycVars, ops, pass, util, placed>>

PackageRuns ==
    /\ pass \in Passes
    /\ \/ author = "donguk" /\ Donguk!Run
       \/ author = "sungjoo" /\ Sungjoo!Run
       \/ author = "sanglim" /\ Sanglim!Run
    /\ UNCHANGED passVars

\* Mutant: a moved block is counted again in full.
ChangeIgnoresOld == call.size

\* total_size += size, or += newsize - oldsize: block_sizes of an index that
\* mm_malloc is called for counts as 0.
Change == call.size - reqsize[call.id]

Answered ==
    /\ pass \in Passes
    /\ ret # NULL
    /\ IF pass = "valid" THEN Return ELSE Returns(mem)
    /\ i' = i + 1
    /\ Account(Change)
    /\ placed' = IF pass = "valid" THEN [placed EXCEPT ![i + 1] = ret] ELSE placed
    /\ UNCHANGED <<author, rover, fcycVars, ops, pass, util>>

\* A call of the package failed: eval_mm_valid rejects the trace, the others
\* end the program in app_error.
Outcome == IF pass = "valid" THEN "rejected" ELSE "app_error"

CallFailed ==
    /\ pass \in Passes
    /\ ret = NULL
    /\ Returns(mem)
    /\ pass' = Outcome
    /\ UNCHANGED <<author, rover, fcycVars, ops, i, total_size, max_total_size,
                   util, placed>>

InitFailed ==
    /\ pass \in Passes
    /\ pc = "failed"
    /\ pass' = Outcome
    /\ UNCHANGED <<memVars, clientVars, author, rover, fcycVars, ops, i, total_size,
                   max_total_size, util, placed>>

(***************************************************************************)
(* for (i = 0; i < num_ops; i++) has ended.  The next function of main, or *)
(* of the loop of fsecs, starts over on the same storage.                  *)
(***************************************************************************)
PassOver(p) == pass = p /\ pc = "idle" /\ i = NumOps

Restart(next) ==
    /\ NewTrace
    /\ i' = 0
    /\ pass' = next
    /\ UNCHANGED <<author, rover, ops, total_size, max_total_size, placed>>

Accepted ==
    /\ PassOver("valid")
    /\ Restart("util")
    /\ UNCHANGED <<fcycVars, util>>

\* max_total_size / mem_heapsize(), then fsecs.
UtilOver ==
    /\ PassOver("util")
    /\ Restart("speed")
    /\ util' = <<max_total_size, mem_brk>>
    /\ FirstCall

SpeedOver ==
    /\ PassOver("speed")
    /\ \E t \in Timings : CallEnds(t)
    /\ pass' = "timed"
    /\ UNCHANGED <<memVars, clientVars, author, rover, ops, i, total_size,
                   max_total_size, util, placed>>

CalledAgain ==
    /\ pass = "timed"
    /\ GoesOn
    /\ NextCall
    /\ Restart("speed")
    /\ UNCHANGED util

Measured ==
    /\ pass = "timed"
    /\ ~GoesOn
    /\ pass' = "measured"
    /\ UNCHANGED <<memVars, clientVars, author, rover, fcycVars, ops, i, total_size,
                   max_total_size, util, placed>>

Evaluate ==
    \/ PackageRuns
    \/ Interpret
    \/ Answered
    \/ CallFailed
    \/ InitFailed
    \/ Accepted
    \/ UtilOver
    \/ SpeedOver
    \/ CalledAgain
    \/ Measured

(***************************************************************************)
(* Properties                                                              *)
(***************************************************************************)
\* What is measured is what was accepted.  mem_reset_brk leaves the words of
\* the last pass in the storage and mm_init leaves whatever it does not write;
\* still the package gives every request the address it gave in the first pass,
\* and a trace that eval_mm_valid accepted never ends in an app_error.
PassesAlike ==
    /\ pass # "app_error"
    /\ pass \in {"util", "speed"} /\ pc = "return" => ret = placed[i + 1]

\* What the first k requests of the trace leave of an index (a FREE has size 0).
SizeAfter(k, id) ==
    LET last == Max({0} \cup {j \in 1..k : ops[j].index = id})
    IN  IF last = 0 THEN 0 ELSE ops[last].size

\* The bytes of blocks of these sizes.
Bytes(size) == UNION {{id} \X (1..size[id]) : id \in Ids}

InUse(k) == Cardinality(Bytes([id \in Ids |-> SizeAfter(k, id)]))

\* max_total_size / mem_heapsize() is the space utilisation: the running total,
\* corrected request by request from remembered sizes, is what the trace has in
\* use, its maximum is the true high water mark, and since payloads in use are
\* disjoint and the break never moves back within a pass, the quotient is at
\* most 1.
UtilisationTrue ==
    pass = "util" =>
      /\ total_size = InUse(i)
      /\ max_total_size = Max({InUse(k) : k \in 0..i})
      /\ max_total_size <= mem_brk
=============================================================================
