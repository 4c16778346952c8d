# A verification project for the malloc lab of Team 5

The repository holds three students' solutions of the CS:APP malloc lab
(`donguk`, `sungjoo`, `sanglim`), each with the lab's driver and memory
simulator, and four copies of a set of data-structure exercises: the handout
(`_Exercise`) and one per student.  This project models the allocators, the
memory they run on, the driver that judges them, and the exercises in TLA+,
checks the models with TLC, and proves with TLAPS that every allocator implements
the contract of `mm.h`, when the driver's verdict can be trusted, that its passes
over a trace are alike, and that the utilisation, the times and the index it
prints are what they should be.

## 1. Inventory: components, state, operations

| component | source | state | operations |
|---|---|---|---|
| memlib | `*/malloc-lab-main/memlib.c` | `mem_start_brk`, `mem_brk`, `mem_max_addr`, the storage | `mem_init`, `mem_reset_brk`, `mem_sbrk`, `mem_heap_lo/hi` |
| donguk's allocator | `donguk/malloc-lab-main/mm.c` | the tags in the heap, `heap_listp`, `recently_visited` | `mm_init`, `mm_malloc`, `mm_free`, `mm_realloc`; `extend_heap`, `coalesce`, `find_fit` (next fit), `place` |
| sungjoo's allocator | `sungjoo/malloc-lab-main/mm.c` | the same, rover `last_bp` | the same, search in `next_fit` then `find_fit` |
| sanglim's allocator | `sanglim/malloc-lab-main/mm.c` | the same, rover `NF_pointer` | the same, `mm_realloc` keeps or grows a block in place |
| jongmun's allocator | `sanglim/malloc-lab-main/zzzzjongmunCode.c` | the same, `last_bp` | first, best or next fit by preprocessor |
| superseded allocators | `sanglim/malloc-lab-main/_depricated/*.c` | the same | best, first, worst, next+worst fit |
| mdriver, correctness | `mdriver.c`: `eval_mm_valid`, `add_range`, `remove_range`, `clear_ranges` | the range list, `trace->blocks`, `trace->block_sizes` | replay of a trace with checks |
| mdriver, utilisation and speed | `mdriver.c`: `eval_mm_util`, `eval_mm_speed` | total and high-water sizes | replay without checks |
| mdriver, the rest | `mdriver.c`: `main`, `read_trace`, `free_trace`, `eval_libc_*`, `printresults` | options, team, statistics of each file, `errors` | the loop over the files, the index |
| timing | `fcyc.c`, `fsecs.c`, `ftimer.c`, `clock.c` | the K best samples, the counter's last reading | sampling until convergence |
| exercises A, C | `*/ds_template/Linked_List`, `Stack_and_Queue` | the lists, stacks and queues of a program | a menu, one function per question |
| exercises E, F | `*/ds_template/Binary_Tree`, `Binary_Search_Tree` | the trees of a program; a traversal's stacks | the same |

**How they interact.**  Everything is sequential.  `mdriver` reads a trace and
calls `mm_init`, then `mm_malloc`, `mm_realloc` and `mm_free` as the trace
says; an allocator calls `mem_sbrk` to extend the heap and otherwise reads and
writes its tags inside the heap.  Between two calls the driver writes to every
payload it owns (`memset`).  The three share one array of bytes: the driver's
data and the allocator's tags are neighbours, which is why an error of one
becomes visible in the other much later.

**What is hard.**  No threads, so the hazards are those of long call sequences:
the rover is a pointer saved in one call and believed in a later one; tags are
written in two places and must agree; a block is found by following sizes that
every earlier operation wrote; `mm_realloc` is an allocation, a copy and a free
any of which could disturb the others; `mem_sbrk` can fail in the middle;
the heap of the next trace starts on the dirty words of the last one.  Tests
replay fixed traces and see none of this unless a payload actually overlaps.
The driver replays each trace three times or more, on the storage the pass
before left, and divides sums it keeps by corrections; its timing depends on a
cycle counter of two words and on a sample that is saved in one call and
compared in a later one.  The exercises are pointer programs whose menu goes on
with whatever the last function left behind.

**What makes each component correct.**  For memlib: the break stays within its
limit.  For an allocator: the heap is a chain of well formed blocks, allocated
exactly where the client owns one and fully coalesced; the rover is at a block;
a search misses nothing and ends; payloads are disjoint and keep their content
(the contract of `mm.h`).  For the driver: its range list mirrors the live
blocks, it never accuses a correct package, and it misses no overlap; every
pass over a trace is the same, and the numbers printed are true.  For an
exercise: the function does what its question asks, and every list or tree is
whole whenever the menu waits.

## 2. Modules

| module | models | role |
|---|---|---|
| `memlib` | `memlib.c` | storage as four-byte words, the break, the limit |
| `BoundaryTags` | macros and straight-line tag writes of `mm.c` | operators from memory to memory, no state |
| `HeapLayout` | nothing: a specification | what a well formed heap is (`WellFormed`) |
| `MmClient` | the program that calls `mm.h`, after `eval_mm_valid` | client's steps; properties common to the allocators |
| `MemoryContract` | nothing: the abstract specification of `mm.h` | refined by the allocators |
| `DongukMm`, `SungjooMm`, `SanglimMm` | one `mm.c` each | the allocators; each EXTENDS `MmClient` |
| `PolicyMm` | `zzzzjongmunCode.c` and `_depricated/*.c` | seven more allocators, a variable `policy` |
| `EvalMmValid` | `eval_mm_valid` and the range list | the driver against an arbitrary package |
| `Fcyc` | `fcyc.c`, `fsecs.c`, `ftimer.c`, `clock.c` | one measurement of a function |
| `EvalMmPasses` | `eval_mm_valid`, `eval_mm_util`, `eval_mm_speed` | the passes over one trace, with any of the three allocators |
| `Mdriver` | `main` and the rest of `mdriver.c` | all files; EXTENDS `EvalMmPasses` |
| `LinkedList`, `ListSession`, `StackQueue` | the code all programs of A and C share | memory and list functions; the menus |
| `DongukLists`, `SanglimLists`, `DongukStacksQueues`, `SanglimStacksQueues` | the two authors' files | the functions and which menu calls them |
| `HandoutExercises`, `SungjooExercises` | the handed out files, unchanged in sungjoo's copy | empty functions, the same menus |
| `ListQuestions` | nothing: the questions | all programs of A and C, and what is asked |
| `BinaryTree`, `TreeSession` | the code all programs of E and F share | memory, `createTree`, menus, loops of a traversal |
| `DongukTrees`, `SanglimTrees`, `HandoutTrees`, `SungjooTrees` | the authors' files | the functions |
| `TreeQuestions` | nothing: the questions | all programs of E and F, and what is asked |
| `MmClientProofs` | | proofs all allocators share (section 5) |
| `DongukMmProofs`, `SungjooMmProofs`, `SanglimMmProofs`, `PolicyMmProofs`, `EvalMmValidProofs` | | invariants and theorems of one module each |
| `MdriverProofs` | | the same for `Mdriver`, with the `EvalMmPasses` and `Fcyc` it extends |
| `MdriverPassesProofs` | | the passes over a trace are alike, for each allocator |
| `MC*` | | finite instances for TLC |

`MmClient` EXTENDS `memlib` and `HeapLayout`, which EXTENDS `BoundaryTags`.  An
allocator module adds its rover, `mm_init`, the four operations and `Next`.
`MmClient` instantiates `MemoryContract` with a refinement mapping, and
`SungjooMm` instantiates `DongukMm` with another.  `EvalMmPasses` instantiates the
three allocators over one `rover` and composes their actions with the driver's.

The three copies of `mdriver.c`, `fcyc.c`, `clock.c` and the rest of the lab are
the same code (sanglim's `mdriver.c` differs in braces, and each in its data of
the team), so the definitions of the driver's modules are each mapped to one of
the copies.

### Memory and addresses

An address is a byte offset from `mem_start_brk`, which `malloc` aligns to 8.
`mem` maps the addresses of whole words to naturals, because the allocators
read and write their tags as words; requests are whole words too
(`ClientAssumption`), so the payload of a block is a set of words.  `NULL` is 0:
the first word of the heap is alignment padding, so no payload starts there.
`PACK(size, alloc)` is `size | alloc` in the code and a sum in the model, equal
because every packed size is a multiple of eight.  A word is a natural without a
bound: all the words the allocators compute are sums of block sizes, bounded by
the heap; the one place where 32 bits matter, a request near 2^32, is left to a
module of its own (see the plan).

### One action per operation, one step per iteration

`find_fit` reads the heap one block at a time, so each iteration of its loops is
an action (`Scan`, `Wrap`; `next_fit`, `find_fit` for sungjoo), with the cursor in
`bp`.  The straight-line rest of an operation is one action: `mm_free` is both
tag writes and the call of `coalesce`, with the rover it sets; `Extend` is
`mem_sbrk`, the new block, the new epilogue, `coalesce` and `place`; `Copy` is
`memcpy` and `mm_free`.  `pc` names the place in the code where the call is, and
each module's head comment lists its values.  While `mm_realloc` runs, the old
block is in `ptr` and the new one in `ret`; `owned` holds the client's blocks.

`Return` is the end of a call, together with what `eval_mm_valid` does next: it
fills the payload with the id's byte.  On failure the client keeps the block it
passed to `mm_realloc`.  `NewTrace` is the driver's next trace:
`mem_reset_brk`, all blocks forgotten, and `mm_init` on the words that are there.

### Differences between the allocators, kept in the models

* donguk starts after the rover; its second loop tests the block after the
  cursor and stops at the rover.
* sungjoo starts after the rover, runs to the epilogue, then searches the
  whole list again; `last_bp` is already set when `mm_init` fails late.
* sanglim starts at the rover itself, which after `mm_init` is the prologue.
  `mm_realloc` returns the old block when it is large enough (also for size 0),
  takes the following free block when that is enough, and otherwise asks
  `mm_malloc` for `size + DSIZE` bytes and copies that many, more than the old
  block holds.  The copy may overlap its source, where `memcpy` is undefined: the
  model takes either the old words or the ones the copy has already written.
* a search that has left the storage (`Crash` in `SanglimMm`) stops the program.

### The driver

`EvalMmValid` turns the arrangement round: the package may return any address,
aligned or not, inside the heap or not, and `mm_realloc` may lose the content.
`faultless` remembers whether it has kept its promises so far; the driver
cannot see it.  Bytes are kept with their width: payloads are filled with
`index & 0xFF` (`FillByte`) and read back through a plain `char`, signed with gcc
on x86 (`AsChar`).  `Report` is each `return 0` of `eval_mm_valid`.  A trace
allocates each index once, as the traces of the repository do.

`EvalMmPasses` and `Mdriver` are the same program the other way: here the driver
is linked with one of the three allocators (`author`), and each request of a
trace is that allocator's `mm_malloc`, `mm_realloc` or `mm_free`, loop iteration by
loop iteration.  `eval_mm_valid`, `eval_mm_util` and each call of `eval_mm_speed`
start with `mem_reset_brk` and `mm_init` on the storage the pass before left
(`pass` names the function).  What `eval_mm_valid` checks of an answer is left to
`EvalMmValid`; here it rejects a trace whose calls fail.  `Mdriver` adds `Start`
(every set of the options that matter and every way to fill in the team, with
sanglim's stricter test), libc's malloc as an external function that succeeds or
ends the program, the loop over the files and `Report`.  `Fcyc` is the measurement:
each call of the function takes some cycles and timer ticks (`Timings`), the
counter is read as two words modulo `WORD`, and the K-best loop inserts, keeps
and compares samples as `add_sample` and `has_converged` do.  Without `USE_FCYC`
the time is `Elapsed`, the difference of two readings of the clock around all calls.

### The other seven allocators

`PolicyMm` is one module for the five files beside sanglim's `mm.c`; one of them
has three searches, chosen by macros.  They differ in `find_fit`, in which
functions move the rover and in how `mm_realloc` looks for room; `policy` says
which one runs.  As in the other allocators, each iteration of a loop of `find_fit`
is a step (`Scan` from the first block or from the rover, `Wrap` over the blocks
before the rover), with the cursor in `bp` and the smallest or largest fit so far
in `best`; there is one trace.  Where
`mm_realloc` grows a block in place, as in sanglim's `mm.c`, the rover can be left
inside it; a search that would start from such a rover (in `mm_imp_BF.c` and with
`NEXT_FIT`) ends the behaviour (pc "lost"), because `SanglimMm` already shows what
follows.

### The exercises

A program is `<<author, section, question>>`: its menu, the function its question
asks for, and what main does with the result.  The shared code (insert, remove,
find, print; push, pop, enqueue; `createTree`, `insertBSTNode`) works on a memory of
nodes, in which following NULL or a pointer to no node sets `fault` and stops the
program ("crashed").  A function of sections A, C and E is one step, because
nothing observes it on the way; a traversal of section F is one step per loop
iteration, with its stacks in the state.  A local `Stack` that donguk's code does
not initialise starts as any of `Frames`.  Data are small integers; -1 is among
them where `%` is used, since C makes it negative for odd numbers.

`ListQuestions` and `TreeQuestions` say what each question asks, as sequences and
as quantified statements about the places of a tree, never by the author's
algorithm, and `Deviates` says for which inputs a function does something else.
The properties are equivalences, `Right <=> ~Deviates`: the model shows that the
functions are right everywhere else, and wrong there.  The deviations:

| program | input | what happens |
|---|---|---|
| sanglim A1 | the integer is there already | it is inserted once more |
| donguk A5 | even size above 2 | the back half is lost (`Q5_A_LL.c:131`) |
| donguk A6 | the maximum is in front, or the list is empty | NULL is followed (`Q6_A_LL.c:114`) |
| both, C1 and C2 | the queue or stack is not empty | the list is appended |
| donguk C2 | negative odd items, or an uninitialised `temp.ll.size` not 0 | they stay, or pops go wrong |
| donguk C3 | odd size | returns -1, which main takes for true |
| sanglim C3 | pairs that ascend and descend, or nothing | answers no |
| donguk C4 | `s.ll.size`, uninitialised, is negative | the items are lost |
| sanglim C6 | the value is at the bottom only | it is removed too |
| donguk C7 | closing brackets that close nothing | they are ignored |
| donguk E3 | a node with a left child only | it is not seen |
| both, E4 | negative odd items | they count as even |
| donguk E7 | the smallest value is not in a leaf | another one is returned |
| sanglim E7 | the smallest value is below a node without left child | another one is returned |
| donguk E8 | a node with three generations below it | one more is asked for |
| donguk F2 | any tree | prints nothing or follows NULL |
| donguk F3 | any tree but the empty one | prints the root only |

sanglim A5 answers its question, but cuts the list it was given
(`Q5_A_LL.c:138`), which `ListsInOrder` names; and the mains of E2, of every author,
keep the height in the variable their loop tests, so that a tree of one node ends
the program (`LeftOnlyWhenAsked`).  None of these contradicts a sentence of the
repository about the program as written, so they are not under Findings: the
questions are exercises, and the files are their authors' attempts.

## 3. Runs

| run | module, cfg | question | result |
|---|---|---|---|
| donguk | `MCDongukMm` | heap, payloads, rover, search, contract; do both loops end? | holds, 160,830 states |
| sungjoo | `MCSungjooMm` | heap, rover, search; is the other search the same choice; do the loops end? | holds, 218,450 states |
| sanglim | `MCSanglimMm` | as donguk, for the careful client | holds, 892,250 states |
| sanglim_stale_rover | `MCSanglimMm`, `...StaleRover.cfg` | and for every client? | payloads overlap |
| policies | `MCPolicyMm` | do the other seven keep the heap, the contract and their policy? | holds, 322,580 states |
| worst_fit_finds_none | `MCPolicyMm`, `...WorstFit.cfg` | does worst fit find the largest block? | never |
| driver_ranges | `MCEvalMmValid` | does the driver judge correctly? | holds, 109,653 states |
| driver_missed_overlap | `MCEvalMmValid`, `...Overlap.cfg` | does it see every overlap? | misses an enclosing one |
| driver_signed_byte | `MCEvalMmValid`, `...SignedByte.cfg` | for every block index? | accuses a correct package |
| driver | `MCMdriver` | are all passes alike and the numbers true? | holds, 1,201,262 states |
| list_questions | `MCListQuestions` | 42 programs: are the questions answered, and the lists whole? | holds, 104,424 states |
| tree_questions | `MCTreeQuestions` | 38 programs: the same for trees | holds, 55,079 states |

What the properties say:

* `HeapOK` (all allocators): sentinels in place; each block aligned, header and
  footer equal; blocks follow one another without gap up to the break, forwards
  over headers and backwards over footers; allocated exactly where the client
  owns a block; no two free neighbours.
* `PayloadsDisjoint`: what `add_range` verifies, with a complete overlap test.
* `RoverOnBlock`: the rover, which the searches dereference unchecked, is at
  the start of a block.
* `SearchComplete`: when the heap is about to grow, no free block is large
  enough.  `SearchProgress` (donguk) says what each loop has already examined.
* `ImplementsContract`: the refinement of `MemoryContract`; a call for one id
  never moves, resizes or rewrites another's block, and `mm_realloc` keeps the
  words that fit in both sizes, or, on failure, everything.
* `SameChoicesAsDonguk`: `SungjooMm` refines `DongukMm` under a mapping of the
  cursor, so every block it hands out is the one donguk's search would.
* `CallsReturn`: a search that has begun leads to a return.
* `PolicyKept` (policies): the block found is the first, a smallest, or the next
  round the heap; worst fit takes none, ever.  This property and the `SearchComplete`
  of `PolicyMm` describe two slips of the code and would not catch them: the best fit
  of `mm_imp_BF.c` never looks at the block its pointer is at, and worst fit,
  whose largest size so far starts as an unsigned -1, never finds a block, so
  that the heap grows at every request.
* `LargestFound` (worst_fit_finds_none): what the comment in `mm_imp_WF.c` says of its
  loop, that it finds the largest of the usable blocks; finding 4.
* `RoverLostOnlyInPlace` (policies): `mm_realloc` growing in place is the only step
  that takes a rover off the block boundaries.
* `RangesMirrorBlocks`, `NoFalseAlarm`, `OnlyEnclosingMissed` (the range list).
* `PassesAlike`: each pass gets the addresses of the first one, whatever the
  storage held, so a trace that was accepted never ends in an `app_error`.
* `UtilisationTrue`: the running total is what the trace has in use, its maximum
  the high-water mark, and the quotient is at most 1.
* `BestOfSamples`: the K-best array holds the smallest true durations of this
  measurement, across a wrap of the counter's low word.
* `ReportTrue`: the index is printed exactly when every file was accepted, from
  statistics of all of them.
* `ListsAnswered`, `StacksQueuesAnswered`, `TreesAnswered`, `TraversalsAnswered`: the
  equivalences above.  `ListsInOrder`, `TreesInOrder`: whenever a menu waits, no list
  or tree shares or loses a node, sizes are true and a search tree is sorted.

Each property of a passing run has a mutant beside the definition it changes
(comments beginning "Mutant"), a plausible slip under which TLC finds the
property violated.

### Bounds, and why they are enough

**Allocators.**  Two ids (three for sungjoo and sanglim), requests of 0, 8 and 16 bytes, `CHUNKSIZE` 16 and heaps
limited to 8, 24 and 64 bytes.  8 makes the first `mem_sbrk` of `mm_init` fail, 24
the second, and 64 leaves 48 bytes for blocks: three minimal blocks, so that a
block can have free and allocated neighbours on both sides, all four cases of
`coalesce`, the split of `place` on both sides of its boundary (16 and 8 bytes of
rest), extension with and without a free block at the end, failure of `mem_sbrk`
in `mm_malloc` and in `mm_realloc`, and a rover before, at and behind the block
found all occur.  Block sizes of the code differ from these by a factor only; the
search, the split and the coalescing compare sizes and nothing else.  Only with a
third block can sanglim's second loop be the one that finds a fit, because every
free moves `NF_pointer` to the freed block.  With three ids there is one fill word
for all: it differs from tags and from untouched storage, so that a copy forgotten
or cut short shows.  That a block is not given another id's content is checked with
distinct fills in donguk and, for sanglim's way of reallocating, in policies (`FF`,
`BF` and jongmun's share it).  sanglim_stale_rover has two ids and needs sizes 8, 12 and 24 so that a block keeps slack inside
which the rover is left.  `Garbage`, what `malloc` left in the storage, is 0 or 17,
the tag of an allocated block of 16 bytes; traces after the first start on the
words of the one before.  The proofs of section 5 remove these bounds.

**policies**: a limit of 72 bytes leaves room for two free blocks of different
size with an allocated one between them, the smallest heap on which first, best
and next fit differ; limits 24 and 72, storage of zeros, one trace.  Again the
proofs are for every heap and every set of sizes.

**driver_ranges**: a heap of 16 bytes, three aligned addresses (one outside), a
misaligned one, sizes 2, 4 and 14 so that ranges can be apart, equal at one end,
nested or leave the heap, and two indices: 1 and 2, or 1 and 200 in
driver_signed_byte.  `driver_ranges` therefore speaks of indices whose low byte is
below 128 and differ; section 5 removes the second restriction.

**driver**: every file of four requests with two ids, timed by the fixed number of
calls, and every pair of files of two requests with the cycle counter; heap
limits 24 (`mm_init` fails) and 64.  Four requests are the fewest with which a
block is freed, its space used again and reallocated; a second file is where
state left by the first could show.  `kbest` 2, `maxsamples` 3 and two calls
without the counter let the scheme converge, give up and drop a sample.  `WORD` is
4, so that the readings 2 and 13 carry from the low word to the high one and wrap
both.  The traces that make sanglim's `mm_realloc` lose its rover are left out, as in
the run sanglim.  Section 5 removes these bounds for every property of the run.

**list_questions**: at most five nodes, items -1, 1 and 2, expressions of up to
four round or square brackets.  Five nodes give lists of odd and even size with a
middle, a pair of pairs, and a list beside its copy; every branch of the functions
is about the first, last, middle or neighbouring node.  **tree_questions**: all trees
of up to four or five nodes (three for the empty functions): the last child of a
last child, one-sided trees of each depth, and two great-grandparents.  Where no
integer decides, one value stands for all.

### Fairness

A call is straight-line code and loops in the only thread, so once begun it
runs: the allocator's own steps `Run` are weakly fair.  The client's steps
(`mm_malloc`, `mm_free`, `mm_realloc`, `Return`, `NewTrace`) are not: a client may
stop.  `CallsReturn` needs no more.  The other modules have safety properties only
and assume no fairness.  Deadlock is checked everywhere but in `driver`, where the
program ends, and in `sanglim_stale_rover`, where a search may leave the storage and
crash; programs of the exercises that have ended stay as they are (`Ended`).

## 4. Findings

1. `sanglim/malloc-lab-main/mm.c:285`: `mm_realloc` takes the following free block
   without moving `NF_pointer`, which may be at that block; `find_fit` then starts in
   the middle of a payload.  Run sanglim_stale_rover; the trace
   `a 0 8, a 1 8, f 1, r 0 12, a 2 8, r 0 20` makes the repository's driver report
   an overlap.  With a client that avoids the case (`CarefulSpec`) the allocator is
   correct: run sanglim, and section 5.
2. `mdriver.c:410`: `add_range` accepts a payload that encloses an older one.  Run
   driver_missed_overlap.  `OnlyEnclosingMissed`, proved, says that nothing else is
   missed.
3. `mdriver.c:657`: the content check after `mm_realloc` compares a signed `char` with
   `index & 0xFF`; with an index of 128 it fails for a correct package.  Run
   driver_signed_byte; confirmed with the trace `a 128 16, r 128 32, f 128`.  The
   traces of the repository reallocate small indices only.  `NoFalseAlarm`, proved
   for indices whose low byte is below 128, says that this is the only false alarm.
4. `mm_imp_WF.c:224`: `largest_block_size` is a `size_t` that starts as -1, so no size is
   larger, `find_fit` always returns NULL and the heap grows at every request.  The
   comment of line 228 says that the loop finds the largest space.  Run
   worst_fit_finds_none: the first request after `mm_init` passes over a block that fits.
   `mm_imp_NF+WF.c` (line 226) has the same slip in both of its loops.

## 5. Proofs

    MmClientProofs --+--> DongukMmProofs  --+
                     +--> SungjooMmProofs --+--> MdriverProofs --> MdriverPassesProofs
                     +--> SanglimMmProofs --+
                     +--> PolicyMmProofs
    EvalMmValidProofs

`MmClientProofs` has three parts.  The first proves, for every memory, break and
set of allocated blocks, what each operation does to a well formed heap:
`CoalesceLemma` (all four cases), `FreeLemma`, `PlaceLemma`, `ExtendLemma`,
`InitLemma`, `AbsorbLemma` (a block grows over its free neighbour), and
`PayloadLemma` (writing inside a payload changes no tag).  They rest on facts
about replacing one block by two or two by one in a chain of blocks (`Retile`,
`Merge`, `Allocate`) and on `BlocksUnique`: two descriptions of the same heap are
equal.

The second proves that `ClientInv` survives each kind of step an allocator takes,
whichever its search: the type invariant, the heap with exactly the owned blocks
allocated, distinct blocks of sufficient size, and what `ptr`, `ret` and `call`
are at each `pc`.  It does the same for the refinement: each kind of step is a
step of `MemoryContract` or a stutter, because what it writes stays inside one
payload or in the tags.

An allocator's own invariant is `ClientInv` with its rover and its search:

    IInv == ClientInv /\ RoverOnBlock /\ (how far the search is) /\ SearchComplete

proved inductive action by action.  `HeapOK` alone is not: that `place` gets a free
block of sufficient size needs the cursor and the rover at a block; that the copy
and the client's writes stay inside a payload needs each block to be large
enough for its request; that a free leaves the others allocated needs them
distinct.  For sungjoo, `Searched` says that `next_fit` has seen no fit behind the
rover, which is why `find_fit` may be mapped to donguk's second loop, with stutters
where it walks over blocks already seen.  For sanglim the
statements are about `CarefulSpec`, the client that never grows a block over the
rover's: without it they are false (finding 1).

`PolicyMmProofs` has one invariant for the seven policies.  `Passed` says which
blocks the loops have looked at (from the first block, or from the rover and
round the end), and `Searched` that each of them that fits has been `Judged`: a
smaller fit is in `best`, or worst fit refused it.  From this follow
`SearchComplete` and, with what the last block looked at adds, `PolicyKept`: the
block taken is the first, a smallest or the next one, and worst fit takes none.  The rover is at a block
until `mm_realloc` grows one over it; from then on no search runs that would start
there, and the contract holds to that point.

The third part of `MmClientProofs` is about what an allocator does not look at,
because `PassesAlike` compares executions on different storage.  `Alike` heaps
have the same break and allocated blocks of the same sizes; the other words may
differ.  They have the same blocks, free ones too, with the same headers
(`SameBlocks`, `SameHeaders`), and each operation of the layout leaves alike heaps
alike (`SameFree`, `SameExtend`).  The view of an allocator (`ViewOf`) is its
state with the sizes of its allocated blocks in the place of the words, and
without what a dead variable keeps; `MemOf` is any storage that looks like that.
`Determined`, proved of each allocator as an action property, says that every step
takes the view to a function of the view and the request: nothing that earlier
traces or the client wrote can show in an address.  For this `find_fit` must be
shown to read headers of blocks only, which `RoverOnBlock` and the cursor's place
are for, `place` and `extend_heap` to change no size of another block, and
`mm_init` to start every pass with the same view.

`MdriverProofs` carries the allocators' invariants into the driver: `INSTANCE`
substitutes the driver's `rover` in their three proof modules, and the lemma of
each of their actions is cited where `author` calls it.  Its invariant has three
parts.

* `TraceInv`: the package keeps its own invariant; the requests so far leave
  the sizes that `reqsize` has (`SizeAfter`: the last request of an index decides), 0 where
  there is no block; and `total_size` is the number of bytes in
  use.  That number is a cardinality, of the set of the bytes asked for, one copy
  of each request's, so that "never more than the heap" is an injection of this set
  into the addresses below `mem_brk` (`BytesInside`): payloads are disjoint and
  inside.  Hence a utilisation of at most 1, for each allocator.
* `SamplesInv`: `values` has the K smallest durations by rank (`KthSmallest`: how many
  are smaller, how many are not larger), and `Inserted` says what one pass of the
  loop of `add_sample` does to the ranks.  That a sample is the true duration at all is
  `CounterDifference`: the difference of two readings, borrow included, is what has
  passed modulo `WORD * WORD`, and no call takes longer than that.
* `MainInv`: `mm_stats` has one entry for each file done, and `errors` counts those that
  were not accepted; `ReportTrue` is this at the end.

`MdriverPassesProofs` adds `AlikeInv`, which is kept because the three parts are.  In
the pass of `eval_mm_valid` there is a course: a set of pairs of a view and a number
of requests done that begins with the view of `mm_init` and, up to the present, is
closed under `Goes` (what `Determined` says of the allocator that is linked); on it every
call succeeds and returns what `placed` has.  In the later passes the course is
complete, it ends where all requests are done, and the present is on it; hence a
call returns what it did in the first pass, and none fails.  For sanglim this is,
like all of the driver, about traces that do not lose the rover (section 3).  A set closed under a
function stands for the induction over the length of an execution, which the
provers cannot do.

| theorem | of | statement |
|---|---|---|
| `DongukInvariant`, `SungjooInvariant`, `SanglimInvariant` | each allocator | the inductive invariant |
| `DongukTypeCorrect` | donguk | `Spec => []TypeOK` |
| `DongukHeapOK`, `SungjooHeapOK`, `SanglimHeapOK` | each | the heap is well formed |
| `...PayloadsDisjoint` | each | payloads are aligned, inside and apart |
| `...RoverOnBlock`, `...SearchComplete` | each | the rover is at a block; no fit is missed |
| `DongukSearchProgress` | donguk | what each loop has passed over |
| `...ImplementsContract` | each | `Spec => ImplementsContract` (safety of the contract) |
| `SungjooChoosesAsDonguk` | sungjoo | `Spec => SameChoicesAsDonguk` |
| `SanglimReadsInside` | sanglim | the search never leaves the storage |
| `PolicyInvariant`, `PolicyHeapOK`, `PolicyPayloadsDisjoint` | the other seven | as above, of all policies |
| `PolicySearchComplete`, `PolicyChoice` | the other seven | what the loops miss, and which block they take |
| `PolicyRoverLost` | the other seven | only growing in place loses the rover |
| `PolicyImplementsContract` | the other seven | `Spec => ImplementsContract` |
| `EvalInvariant`, `RangesTrue` | the driver | the range list mirrors the live blocks |
| `EnclosingIsAllThatIsMissed` | the driver | the only overlap it can miss |
| `VerdictTrusted` | the driver | no false alarm, for indices with a low byte below 128 |
| `DriverInvariant` | the driver and its package | the inductive invariant (this and the theorems below: sanglim's on traces that do not lose the rover) |
| `DriverUtilisationTrue` | the driver | sums, high-water mark and quotient are true |
| `DriverBestOfSamples` | timing | the array holds the smallest true durations |
| `DongukDetermined`, `SungjooDetermined`, `SanglimDetermined` | each | no step depends on what the storage held before |
| `DriverPassesAlike` | the driver and its package | every pass gets the first one's addresses; no `app_error` |
| `DriverReportTrue` | the driver | an index exactly when every file was accepted |

`EvalMmValidProofs` is independent: its `IInv` says that the range list has each
live payload once, that a later range overlaps an earlier one only around it, and
(`Kept`) what a package that kept its promises owes the trace: payloads apart and
every byte the one `memset` wrote.  The last is what `NoFalseAlarm` needs: an accusation
would contradict a promise.

The assumptions are those of the modules: `MemlibAssumption` (the heap limits
are numbers up to `MAX_HEAP`), `ClientAssumption` (whole-word requests, a
`CHUNKSIZE` that is a multiple of 8 and at least 16, `MAX_HEAP` a multiple of 8),
`EvalAssumption` (addresses and sizes are positive), `FcycAssumption` (the scheme's
parameters are numbers, `kbest` is positive and a reading fits in two words),
`PassesAssumption` (finitely many ids; a timed call takes a cycle at least and less
than the counter's period) and `MdriverAssumption` (a setup lists the number of
requests of each file).  So the theorems hold for
`CHUNKSIZE` 4096 and `MAX_HEAP` 20 MB, any number of blocks and any set of request
sizes, and for any heap and any set of addresses a package may return.

Only model-checked:

* `CallsReturn`: liveness, out of the prover's reach.
* The exercises, whose properties are about the results of folds and recursive
  functions over lists and trees.  What these compute for every input needs
  induction over data, which the provers cannot instantiate.

## 6. Not modelled

* Requests that are not whole words (they round up before any tag is written);
  32-bit wrap-around of sizes and the `int` argument of `mem_sbrk`.
* `mm_realloc(NULL, n)` of sanglim, which reads below the heap before its NULL
  test and has no caller.
* The `assert(size > 0)` of `add_range` (`mdriver.c:389`) in `EvalMmPasses`: a request of 0
  bytes that would end the driver there goes on, which adds behaviours and removes none.
* `mem_deinit`, `mem_heapsize` and `mem_pagesize` change no heap state.
* `printresults`, the verbose output, usage and error texts: they change no state.
  Trace files with more requests or larger indices than their header announces
  (`read_trace` writes beyond its arrays); no file of the repository is like that.
* Of the timers: the calibration of the counter and the estimate of the clock
  rate, which scale the result; the clearing of the cache; the Alpha counter; the
  interval timers of `ftimer.c` as devices (a duration is chosen freely).
* sanglim's `Q4_F_BST.c`, which does not compile, and an answer to sanglim's C7, whose
  program is modelled but no claim made about its result; the
  smallest value of an empty tree.
* What a search of `PolicyMm` reads once its rover is lost; sanglim's in-place loss of
  the rover in the run driver.

## 7. Plan

Done, in this order: memlib and the block format; the client and the contract;
donguk's allocator, its runs and proofs; sungjoo's and its refinement; sanglim's;
the driver's range list; the other allocators; the driver's passes, timing and
main; the exercises; the shared proof layer and the proofs of all
allocators, of the refinements, of the range list, of the driver's sums,
samples and report, and of the passes being alike.

What is left:

1. `SizeArithmetic`: `mm_malloc`'s adjusted size and `mem_sbrk`'s `int` argument modulo
   2^w against the unbounded definition.
2. Malformed trace files in `read_trace`.
