----------------------------- MODULE BinaryTree -----------------------------
(***************************************************************************)
(* The binary trees of the exercises in sections E (BTNode) and F          *)
(* (BSTNode): two structs of the same shape, and the functions every       *)
(* question file starts from.  The mapped lines are those of _Exercise.    *)
(*                                                                         *)
(* A memory is a record                                                    *)
(*    node   the allocated nodes, a function from their addresses          *)
(*    root   the root variables of main, by name                           *)
(*    fault  has NULL been followed?                                       *)
(* The linked stacks and queues of node pointers are sequences: a stack    *)
(* with its top first, a queue with its head first.                        *)
(***************************************************************************)
EXTENDS Integers, SequencesExt

CONSTANT Addresses       \* where malloc can place a node

NULL == 0

ASSUME AddressAssumption == Addresses \subseteq Nat \ {NULL}

EmptyMemory(roots) == [node |-> <<>>, root |-> [r \in roots |-> NULL], fault |-> FALSE]

Fault(m) == [m EXCEPT !.fault = TRUE]

\* A C function that recurs into both subtrees: what it returns for each node,
\* when it returns empty for NULL and at(p, l, r) for the node p whose left and
\* right calls return l and r.
OnTree(m, empty, at(_, _, _)) ==
    LET f[p \in DOMAIN m.node \cup {NULL}] ==
            IF p = NULL THEN empty ELSE at(p, f[m.node[p].left], f[m.node[p].right])
    IN  f

NewNode(m) == CHOOSE p \in Addresses \ DOMAIN m.node : TRUE

createBTNode(m, value) ==
    [m EXCEPT !.node = (NewNode(m) :> [item |-> value, left |-> NULL, right |-> NULL]) @@ @]

\* The nodes of the tree at p.
Subtree(m, p) == OnTree(m, {}, LAMBDA q, l, r : l \cup r \cup {q})[p]

\* What printTree prints of it.
printTree(m, p) == OnTree(m, <<>>, LAMBDA q, l, r : l \o <<m.node[q].item>> \o r)[p]

Freed(m, ps) == Restrict(m.node, DOMAIN m.node \ ps)

\* Mutant: the root keeps pointing at the node that was freed.
removeAllKeepsRoot(m, r) == [m EXCEPT !.node = Freed(m, Subtree(m, m.root[r]))]
removeAll(m, r) ==
    [m EXCEPT !.node = Freed(m, Subtree(m, m.root[r])), !.root[r] = NULL]

push(stack, p) == <<p>> \o stack
pop(stack) == Tail(stack)
peek(stack) == IF stack = <<>> THEN NULL ELSE Head(stack)
isEmpty(stack) == stack = <<>>
enqueue(queue, p) == Append(queue, p)
dequeue(queue) == Tail(queue)

\* Mutant: a value that is there already goes to the right of itself.
PlaceTwice(m, p, value) ==
    LET f[q \in DOMAIN m.node] ==
            LET n == m.node[q]
                side == IF value < n.item THEN "left" ELSE "right"
            IN  IF n[side] = NULL THEN <<q, side>> ELSE f[n[side]]
    IN  f[p]

\* The node under which value belongs in the search tree at p, and the side;
\* a value that is there already leads to its own node and no side.
Place(m, p, value) ==
    LET f[q \in DOMAIN m.node] ==
            LET n == m.node[q]
                side == IF value < n.item THEN "left" ELSE "right"
            IN  IF value = n.item THEN <<q, "none">>
                ELSE IF n[side] = NULL THEN <<q, side>> ELSE f[n[side]]
    IN  f[p]

insertBSTNode(m, r, value) ==
    LET p == m.root[r]
        grown == createBTNode(m, value)
    IN  IF p = NULL THEN [grown EXCEPT !.root[r] = NewNode(m)]
        ELSE LET at == Place(m, p, value)
             IN  CASE at[2] = "none" -> m
                   [] at[2] = "left" -> [grown EXCEPT !.node[at[1]].left = NewNode(m)]
                   [] at[2] = "right" -> [grown EXCEPT !.node[at[1]].right = NewNode(m)]
=============================================================================
