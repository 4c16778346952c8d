-------------------------------- MODULE Fcyc --------------------------------
(***************************************************************************)
(* How the driver measures a function f: fsecs.c calls it a fixed number   *)
(* of times (ftimer.c), or, with USE_FCYC, as often as the K-best scheme   *)
(* of fcyc.c asks, each time between two readings of the cycle counter     *)
(* (clock.c).  The counter is two words of the machine; the time of a call *)
(* has the cycles of f and those of the timer interrupts meanwhile.        *)
(***************************************************************************)
EXTENDS Integers, Sequences, FiniteSets

CONSTANTS
    kbest,           \* 3
    maxsamples,      \* 20
    epsilon,         \* in percent, 1
    n,               \* calls of f without USE_FCYC, 10
    cyc_per_tick,    \* cycles a timer interrupt takes, as callibrate measured them
    WORD,            \* values of an unsigned, 2^32
    Readings         \* what the cycle counter may show when a measurement starts

ASSUME FcycAssumption ==
    /\ kbest \in Nat \ {0} /\ maxsamples \in Nat /\ epsilon \in Nat /\ n \in Nat \ {0}
    /\ cyc_per_tick \in Nat /\ WORD \in Nat \ {0, 1}
    /\ Readings \subseteq 0..(WORD * WORD - 1)

VARIABLES
    USE_FCYC,        \* of config.h
    counter,         \* the cycle counter, or the clock of gettimeofday
    cyc,             \* cyc_hi and cyc_lo, what start_counter read; stv of ftimer.c
    values,          \* the smallest samples
    samplecount,     \* or the calls made so far, without USE_FCYC
    samples          \* the cycles every call of f really took

fcycVars == <<USE_FCYC, counter, cyc, values, samplecount, samples>>

access_counter(c) == [hi |-> c \div WORD, lo |-> c % WORD]

(***************************************************************************)
(* clock.c: the difference of two readings, word by word.  Cycles spent on *)
(* ticks since start_comp_counter are taken off.                           *)
(***************************************************************************)
\* Mutant: the borrow of the low word is forgotten.
NoBorrow(lo, new) == 0

Borrow(lo, new) == IF lo > new.lo THEN 1 ELSE 0

get_counter(now) ==
    LET new == access_counter(now)
        lo == (new.lo - cyc.lo) % WORD
        hi == (new.hi - cyc.hi - Borrow(lo, new)) % WORD
    IN  hi * WORD + lo

get_comp_counter(now, ticks) == get_counter(now) - ticks * cyc_per_tick

start_comp_counter == cyc' = access_counter(counter)

(***************************************************************************)
(* fcyc.c                                                                  *)
(***************************************************************************)
\* The while loop of add_sample: the sample at pos moves before those that are
\* larger, as far as they are next to each other.
Sink(vs, pos) ==
    LET to == CHOOSE q \in 1..pos :
                /\ \A p \in q..(pos - 1) : vs[p] > vs[pos]
                /\ q > 1 => vs[q - 1] <= vs[pos]
    IN  [k \in DOMAIN vs |->
            IF k < to \/ k > pos THEN vs[k] ELSE IF k = to THEN vs[pos] ELSE vs[k - 1]]

\* Values counted from 1.  A sample no smaller than values[kbest] is dropped.
AddSample(vs, count, val) ==
    IF count < kbest THEN Sink([vs EXCEPT ![count + 1] = val], count + 1)
    ELSE IF val < vs[kbest] THEN Sink([vs EXCEPT ![kbest] = val], kbest)
    ELSE vs

has_converged ==
    /\ samplecount >= kbest
    /\ (100 + epsilon) * values[1] >= 100 * values[kbest]

\* Mutant: the count of the last measurement goes on.
init_samplerKeepsCount == values' = [k \in 1..kbest |-> 0] /\ UNCHANGED samplecount

init_sampler ==
    /\ values' = [k \in 1..kbest |-> 0]
    /\ samplecount' = 0

FcycInit ==
    /\ counter = 0
    /\ cyc = access_counter(0)
    /\ values = [k \in 1..kbest |-> 0]
    /\ samplecount = 0
    /\ samples = <<>>

\* fsecs is entered; the first call of f starts.
FirstCall ==
    /\ init_sampler
    /\ counter' \in Readings
    /\ cyc' = access_counter(counter')
    /\ samples' = <<>>
    /\ UNCHANGED USE_FCYC

\* f has returned after the cycles of t and as many interrupts as t has ticks.
CallEnds(t) ==
    /\ samples' = Append(samples, t.cycles)
    /\ samplecount' = samplecount + 1
    /\ LET now == counter + t.cycles + t.ticks * cyc_per_tick
       IN  counter' = IF USE_FCYC THEN now % (WORD * WORD) ELSE now
    /\ values' = IF USE_FCYC
                 THEN AddSample(values, samplecount, get_comp_counter(counter', t.ticks))
                 ELSE values
    /\ UNCHANGED <<USE_FCYC, cyc>>

GoesOn ==
    IF USE_FCYC THEN ~has_converged /\ samplecount < maxsamples ELSE samplecount < n

NextCall ==
    /\ IF USE_FCYC THEN start_comp_counter ELSE UNCHANGED cyc
    /\ UNCHANGED <<USE_FCYC, counter, values, samplecount, samples>>

\* values is freed; samplecount keeps its value.  The counter runs on and is not
\* looked at until the next measurement.
FcycReturns ==
    /\ values' = [k \in 1..kbest |-> 0]
    /\ counter' = 0
    /\ cyc' = access_counter(0)
    /\ samples' = <<>>
    /\ UNCHANGED <<USE_FCYC, samplecount>>

\* etv - stv of ftimer_gettod, the time of all the calls, which the caller divides.
Elapsed ==
    LET etv == access_counter(counter)
    IN  (etv.hi - cyc.hi) * WORD + etv.lo - cyc.lo

fsecs == IF USE_FCYC THEN values[1] ELSE Elapsed

\* v is the k-th of the samples, in order of their size.
KthSmallest(k, v) ==
    /\ Cardinality({j \in DOMAIN samples : samples[j] < v}) < k
    /\ Cardinality({j \in DOMAIN samples : samples[j] <= v}) >= k

\* Whatever the counter shows when a call starts, wherever its words wrap and
\* whatever was measured before, the K-best scheme holds the smallest of the
\* true durations of this measurement, in order.
BestOfSamples ==
    samples # <<>> =>
      /\ samplecount = Len(samples)
      /\ USE_FCYC => \A k \in 1..kbest :
            k <= Len(samples) => KthSmallest(k, values[k])
=============================================================================
