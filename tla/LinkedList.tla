----------------------------- MODULE LinkedList -----------------------------
(***************************************************************************)
(* The singly linked lists of the exercises in sections A and C: the       *)
(* functions every question file starts from, on the memory they work in.  *)
(* The mapped lines are those of _Exercise, the copies handed out.         *)
(*                                                                         *)
(* A memory is a record                                                    *)
(*    node   the allocated ListNodes, a function from their addresses      *)
(*    list   the LinkedList variables by name, each with its size and head *)
(*    fault  has a pointer been followed that points at no node?           *)
(* A C function that changes memory is an operator from a memory to a      *)
(* memory; a LinkedList* argument is the name of the variable.             *)
(***************************************************************************)
EXTENDS Integers, SequencesExt

CONSTANT Addresses       \* where malloc can place a ListNode

NULL == 0
Wild == -1               \* what an uninitialised pointer may hold

ASSUME AddressAssumption == Addresses \subseteq Nat \ {NULL}

\* Mutant: head is left uninitialised.
EmptyListWild == [size |-> 0, head |-> Wild]
EmptyList == [size |-> 0, head |-> NULL]
EmptyMemory(lists) ==
    [node |-> <<>>, list |-> [l \in lists |-> EmptyList], fault |-> FALSE]

Fault(m) == [m EXCEPT !.fault = TRUE]

\* Doing step n times; a faulting program does nothing more.
Repeat(step(_), m, n) ==
    FoldLeft(LAMBDA s, i : IF s.fault THEN s ELSE step(s), m, [i \in 1..n |-> i])

\* C's remainder has the sign of the dividend.
Rem(a, b) == IF a >= 0 THEN a % b ELSE -((-a) % b)

\* The addresses of the nodes from p on, each at most once.
Chain(m, p) ==
    LET Longer(s, i) ==
            LET q == IF s = <<>> THEN p ELSE m.node[Last(s)].next
            IN  IF q \in DOMAIN m.node \ Range(s) THEN Append(s, q) ELSE s
    IN  FoldLeft(Longer, <<>>, [i \in 1..Cardinality(DOMAIN m.node) |-> i])

Nodes(m, l) == Chain(m, m.list[l].head)
ItemsFrom(m, p) == [i \in DOMAIN Chain(m, p) |-> m.node[Chain(m, p)[i]].item]

\* What printList prints.
printList(m, l) == ItemsFrom(m, m.list[l].head)

\* Where following next from the last node of the list ends: NULL, if all is well.
EndOfList(m, l) ==
    IF Nodes(m, l) = <<>> THEN m.list[l].head ELSE m.node[Last(Nodes(m, l))].next

findNode(m, l, index) ==
    IF index < 0 \/ index >= m.list[l].size \/ index >= Len(Nodes(m, l))
    THEN NULL
    ELSE Nodes(m, l)[index + 1]

\* A new node holding value and next, at an address that is free.
NewNode(m) == CHOOSE p \in Addresses \ DOMAIN m.node : TRUE
Store(m, p, value, next) == (p :> [item |-> value, next |-> next]) @@ m.node

\* Index size + 1 passes the first test; then no node is found before it,
\* unless the list is empty.
insertNode(m, l, index, value) ==
    LET ll == m.list[l]
        pre == findNode(m, l, index - 1)
        new == NewNode(m)
    IN  IF index < 0 \/ index > ll.size + 1 THEN m
        ELSE IF ll.head = NULL \/ index = 0
        THEN [m EXCEPT !.node = Store(m, new, value, ll.head),
                       !.list[l] = [size |-> ll.size + 1, head |-> new]]
        ELSE IF pre = NULL THEN m
        ELSE [m EXCEPT !.node = [Store(m, new, value, m.node[pre].next)
                                    EXCEPT ![pre].next = new],
                       !.list[l].size = @ + 1]

\* Mutant: free is forgotten.
FreedNever(m, ps) == m.node
Freed(m, ps) == Restrict(m.node, DOMAIN m.node \ ps)

SizeAfterRemoval(size) == size - 1

removeNode(m, l, index) ==
    LET ll == m.list[l]
        pre == findNode(m, l, index - 1)
    IN  IF index < 0 \/ index >= ll.size THEN m
        ELSE IF index = 0
        THEN IF ll.head \notin DOMAIN m.node THEN Fault(m)
             ELSE [m EXCEPT !.node = Freed(m, {ll.head}),
                            !.list[l] = [size |-> SizeAfterRemoval(ll.size), head |-> m.node[ll.head].next]]
        ELSE IF pre = NULL \/ m.node[pre].next = NULL THEN m
        ELSE LET cur == m.node[pre].next
                 relinked == [m EXCEPT !.node[pre].next = m.node[cur].next,
                                       !.list[l].size = SizeAfterRemoval(@)]
             IN  [relinked EXCEPT !.node = Freed(relinked, {cur})]

removeAllItems(m, l) ==
    IF EndOfList(m, l) # NULL THEN Fault(m)
    ELSE [m EXCEPT !.node = Freed(m, Range(Nodes(m, l))), !.list[l] = EmptyList]

(***************************************************************************)
(* A memory in order: every list ends, has the nodes its size says, shares *)
(* none with another list, and every allocated node is in some list.       *)
(***************************************************************************)
ListsEnd(m) == \A l \in DOMAIN m.list : EndOfList(m, l) = NULL
SizesRight(m) == \A l \in DOMAIN m.list : m.list[l].size = Len(Nodes(m, l))
ListsApart(m) == \A k, l \in DOMAIN m.list :
                    k # l => Range(Nodes(m, k)) \cap Range(Nodes(m, l)) = {}
NoLeak(m) == DOMAIN m.node = UNION {Range(Nodes(m, l)) : l \in DOMAIN m.list}
=============================================================================
