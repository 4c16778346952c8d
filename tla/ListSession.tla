---------------------------- MODULE ListSession -----------------------------
(***************************************************************************)
(* The programs of sections A (linked lists) and C (stacks and queues): a  *)
(* menu that fills a list, stack or queue, calls the function a question   *)
(* asks for, prints what it left and removes all items.  A program is      *)
(* <<author, section, question>>; each uses some of the actions here.      *)
(*                                                                         *)
(* phase "menu"      the menu waits                                        *)
(*       "answered"  the same, and the last choice was a call              *)
(*       "shown"     the call's result is printed; the items go next       *)
(*       "quit"      choice 0 was taken                                    *)
(*       "crashed"   a pointer to nothing was followed                     *)
(***************************************************************************)
EXTENDS LinkedList

CONSTANTS
    Programs,      \* which of the programs run
    Items,         \* the integers a user types
    Expressions,   \* the expressions he types, as sequences of characters
    Frames,        \* what an uninitialised Stack on the stack frame may hold
    MaxNodes       \* nothing is added while so many nodes are allocated

VARIABLES
    program,
    phase,
    m,             \* the program's memory
    given,         \* what the lists held when the function was called,
    input,         \* what else the call was given,
    result         \* and the integer it returned

vars == <<program, phase, m, given, input, result>>

ASSUME SessionAssumption == Items \subseteq Int /\ MaxNodes \in Nat

NoInput == 0

Lists(p) ==
    CASE p[2] = "A" /\ p[3] = 2 -> {"ll1", "ll2"}
      [] p[2] = "A" /\ p[3] = 5 -> {"ll", "resultFrontList", "resultBackList"}
      [] p[2] = "A" /\ p[3] \notin {2, 5} -> {"ll"}
      [] p[2] = "C" /\ p[3] \in {1, 5} -> {"ll", "q"}
      [] p[2] = "C" /\ p[3] = 4 -> {"q"}
      [] p[2] = "C" /\ p[3] = 3 -> {"s"}
      [] OTHER -> {"ll", "s"}

Contents(mem) == [l \in DOMAIN mem.list |-> printList(mem, l)]
Nothing == [l \in DOMAIN m.list |-> <<>>]

Init ==
    /\ program \in Programs
    /\ phase = "menu"
    /\ m = EmptyMemory(Lists(program))
    /\ given = Nothing
    /\ input = NoInput
    /\ result = 0

AtMenu == phase \in {"menu", "answered"}
HasRoom == Cardinality(DOMAIN m.node) < MaxNodes
Phase(mem, next) == IF mem.fault THEN "crashed" ELSE next

\* Add an item at an index of a list: at its end for a list or a queue.
InsertAtIndex(l, index) ==
    /\ AtMenu /\ HasRoom
    /\ \E i \in Items : m' = insertNode(m, l, index, i)
    /\ phase' = "menu"
    /\ given' = Nothing /\ input' = NoInput /\ result' = 0
    /\ UNCHANGED program

Insert(l) == InsertAtIndex(l, m.list[l].size)

\* A call with input in leaves memory mem and returns res.
Call(in, mem, res, next) ==
    /\ AtMenu
    /\ m' = mem
    /\ phase' = Phase(mem, next)
    /\ given' = Contents(m)
    /\ input' = in
    /\ result' = res
    /\ UNCHANGED program

RemoveAll == FoldSet(LAMBDA l, mem : removeAllItems(mem, l), m, DOMAIN m.list)

Emptied(next) ==
    /\ m' = RemoveAll
    /\ phase' = Phase(m', next)
    /\ given' = Nothing /\ input' = NoInput /\ result' = 0
    /\ UNCHANGED program

CleanUp == phase = "shown" /\ Emptied("menu")
Quit == AtMenu /\ Emptied("quit")

Ended == phase \in {"quit", "crashed"} /\ UNCHANGED vars

(***************************************************************************)
(* The mains of section A.                                                 *)
(***************************************************************************)
\* Insert into one of the lists, call the function once and empty the lists.
Main(p, lists, mem) ==
    /\ program = p
    /\ \/ \E l \in lists : Insert(l)
       \/ Call(NoInput, mem, 0, "shown")
       \/ CleanUp
       \/ Quit

\* Question 1 inserts with the function itself; f(i) is its memory and index.
\* Choice 3 prints the list and empties it.
SortedMain(p, f(_)) ==
    /\ program = p
    /\ \/ HasRoom /\ \E i \in Items : Call(i, f(i).memory, f(i).index, "answered")
       \/ AtMenu /\ Emptied("menu")
       \/ Quit

TypeOK ==
    /\ program \in Programs
    /\ phase \in {"menu", "answered", "shown", "quit", "crashed"}
    /\ DOMAIN m.node \subseteq Addresses
    /\ \A p \in DOMAIN m.node : m.node[p].next \in Addresses \cup {NULL, Wild}
    /\ DOMAIN m.list = Lists(program)
    /\ \A l \in DOMAIN m.list : m.list[l].size \in Nat /\ m.list[l].head \in Addresses \cup {NULL}
    /\ DOMAIN given = Lists(program)
    /\ result \in Int
=============================================================================
