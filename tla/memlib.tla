------------------------------- MODULE memlib -------------------------------
(***************************************************************************)
(* memlib.c: the simulated memory system that mdriver gives the allocators *)
(* instead of the operating system's.  Three identical copies exist, one   *)
(* per student; the mapped lines are those of donguk/malloc-lab-main.      *)
(*                                                                         *)
(* Addresses are byte offsets from mem_start_brk.  Memory is kept as       *)
(* four-byte words, the only unit at which the allocators read and write   *)
(* their tags.                                                             *)
(***************************************************************************)
EXTENDS Integers

CONSTANTS
    MAX_HEAP,     \* config.h: bytes of storage behind the heap
    HeapLimits,   \* the values of MAX_HEAP to consider, none above MAX_HEAP
    Garbage       \* what the words malloc(3) hands to mem_init may hold

ASSUME MemlibAssumption ==
    /\ MAX_HEAP \in Nat
    /\ HeapLimits \subseteq 0..MAX_HEAP
    /\ Garbage \subseteq Nat

VARIABLES
    mem,          \* the words of the storage
    mem_brk,      \* one past the last byte of the heap
    mem_max_addr  \* one past the largest legal heap address

memVars == <<mem, mem_brk, mem_max_addr>>

WordAddr == {a \in 0..(MAX_HEAP - 1) : a % 4 = 0}

NULL == 0                     \* no payload ever starts at the first heap byte
mem_start_brk == 0            \* aligned to 8 by malloc(3)

MemTypeOK ==
    /\ mem \in [WordAddr -> Nat]
    /\ mem_brk \in Nat
    /\ mem_max_addr \in HeapLimits
    /\ mem_brk <= mem_max_addr

mem_init ==
    /\ \E g \in Garbage : mem = [a \in WordAddr |-> g]
    /\ mem_max_addr \in HeapLimits
    /\ mem_brk = mem_start_brk

\* Mutant: the break stays where the last trace left it.
mem_reset_brkNot == UNCHANGED memVars

\* The words keep what the previous trace left in them.
mem_reset_brk ==
    /\ mem_brk' = mem_start_brk
    /\ UNCHANGED <<mem, mem_max_addr>>

\* Mutant: the break is compared before it is moved.
SbrkFailsLate(brk, incr) == incr < 0 \/ brk > mem_max_addr

SbrkFails(brk, incr) == incr < 0 \/ brk + incr > mem_max_addr

mem_heap_lo == mem_start_brk
mem_heap_hi == mem_brk - 1
=============================================================================
