---------------------------- MODULE SanglimLists ----------------------------
(***************************************************************************)
(* sanglim/Exercise/ds_template/Linked_List: the seven functions of        *)
(* section A and their programs.  Most of them relink the nodes that are   *)
(* there; the size fields are then up to the function.                     *)
(***************************************************************************)
EXTENDS ListSession

(***************************************************************************)
(* Q1_A_LL.c: an integer that is already there is inserted once more.      *)
(***************************************************************************)
insertSortedLL(mem, l, item) ==
    LET items == printList(mem, l)
        i == SelectInSeq(items, LAMBDA x : ~(x < item))
        counter == IF i = 0 THEN Len(items) ELSE i - 1
    IN  [memory |-> insertNode(mem, l, counter, item), index |-> counter]

Q1_main == SortedMain(<<"sanglim", "A", 1>>, LAMBDA i : insertSortedLL(m, "ll", i))

(***************************************************************************)
(* Q2_A_LL.c: the nodes of ll2 are linked in behind those of ll1 while     *)
(* both lists last.  No size is touched.                                   *)
(***************************************************************************)
alternateMergeLinkedList(mem) ==
    LET a == Nodes(mem, "ll1")
        b == Nodes(mem, "ll2")
        n == IF Len(a) < Len(b) THEN Len(a) ELSE Len(b)
        LinkIn(node, i) == [node EXCEPT ![a[i]].next = b[i], ![b[i]].next = node[a[i]].next]
    IN  [mem EXCEPT !.node = FoldLeft(LinkIn, @, [i \in 1..n |-> i]),
                    !.list["ll2"].head = IF n < Len(b) THEN b[n + 1] ELSE NULL]

Q2_main == Main(<<"sanglim", "A", 2>>, {"ll1", "ll2"}, alternateMergeLinkedList(m))

(***************************************************************************)
(* Q3_A_LL.c and Q4_A_LL.c: pp points at the pointer that leads to the     *)
(* current node, which is the head or, when pp is a node here, its next.   *)
(* A node to move is unlinked there and linked to the end of a second      *)
(* list, from head oh to tail ot, which finally follows the first.         *)
(***************************************************************************)
Target(s) == IF s.pp = NULL THEN s.head ELSE s.node[s.pp].next
Redirect(s, p) == IF s.pp = NULL THEN [s EXCEPT !.head = p] ELSE [s EXCEPT !.node[s.pp].next = p]

LinkBehind(s, p) ==
    IF s.oh = NULL
    THEN [s EXCEPT !.oh = p, !.ot = p, !.node[p].next = NULL]
    ELSE [s EXCEPT !.ot = p, !.node = [@ EXCEPT ![s.ot].next = p, ![p].next = NULL]]

MoveNodesToBack(mem, Moves(_)) ==
    LET start == [node |-> mem.node, head |-> mem.list["ll"].head,
                  pp |-> NULL, oh |-> NULL, ot |-> NULL]
        Visit(s, i) ==
            LET current == Target(s)
            IN  IF Moves(s.node[current].item)
                THEN LinkBehind(Redirect(s, s.node[current].next), current)
                ELSE [s EXCEPT !.pp = current]
        walked == FoldLeft(Visit, start, [i \in 1..Len(Nodes(mem, "ll")) |-> i])
        joined == IF walked.oh = NULL THEN walked ELSE Redirect(walked, walked.oh)
    IN  [mem EXCEPT !.node = joined.node, !.list["ll"].head = joined.head]

moveOddItemsToBack(mem) == MoveNodesToBack(mem, LAMBDA i : Rem(i, 2) # 0)

Q3_main == Main(<<"sanglim", "A", 3>>, {"ll"}, moveOddItemsToBack(m))

moveEvenItemsToBack(mem) ==
    IF Len(Nodes(mem, "ll")) <= 1 THEN mem ELSE MoveNodesToBack(mem, LAMBDA i : Rem(i, 2) = 0)

Q4_main == Main(<<"sanglim", "A", 4>>, {"ll"}, moveEvenItemsToBack(m))

(***************************************************************************)
(* Q5_A_LL.c: the items are copied; insertNode and the function both count *)
(* them.  The list that was given is cut after its front half, and nothing *)
(* points at the nodes behind it any more.                                 *)
(***************************************************************************)
FrontLength(size) == (size \div 2) + (size % 2)

frontBackSplitLinkedList(mem) ==
    LET nodes == Nodes(mem, "ll")
        front == FrontLength(Len(nodes))
        emptied == [mem EXCEPT !.list["resultFrontList"] = EmptyList,
                               !.list["resultBackList"] = EmptyList]
        Append1(s, l, count, item) == [insertNode(s, l, count, item) EXCEPT !.list[l].size = @ + 1]
        Copy(s, i) ==
            LET item == s.node[nodes[i]].item
            IN  IF i <= front THEN Append1(s, "resultFrontList", i - 1, item)
                              ELSE Append1(s, "resultBackList", i - 1 - front, item)
        copied == FoldLeft(Copy, emptied, [i \in DOMAIN nodes |-> i])
    IN  IF nodes = <<>> THEN mem ELSE [copied EXCEPT !.node[nodes[front]].next = NULL]

Q5_main == Main(<<"sanglim", "A", 5>>, {"ll"}, frontBackSplitLinkedList(m))

(***************************************************************************)
(* Q6_A_LL.c                                                               *)
(***************************************************************************)
moveMaxToFront(mem) ==
    LET nodes == Nodes(mem, "ll")
        items == printList(mem, "ll")
        k == SelectInSeq(items, LAMBDA x : \A y \in Range(items) : y <= x)
    IN  IF Len(nodes) <= 1 \/ k = 1 THEN mem
        ELSE [mem EXCEPT !.node = [@ EXCEPT ![nodes[k - 1]].next = mem.node[nodes[k]].next,
                                            ![nodes[k]].next = nodes[1]],
                         !.list["ll"].head = nodes[k]]

Q6_main == Main(<<"sanglim", "A", 6>>, {"ll"}, moveMaxToFront(m))

(***************************************************************************)
(* Q7_A_LL.c                                                               *)
(***************************************************************************)
TurnAround(s, first) ==
    [s EXCEPT !.node = [@ EXCEPT ![s.node[first].next].next = first, ![first].next = NULL]]

\* The calls return from the last node to the first, each handing rest up.
RecursiveReverse(mem) ==
    LET nodes == Nodes(mem, "ll")
    IN  IF Len(nodes) <= 1 THEN mem
        ELSE [FoldRight(LAMBDA first, s : TurnAround(s, first), Front(nodes), mem)
                EXCEPT !.list["ll"].head = Last(nodes)]

Q7_main == Main(<<"sanglim", "A", 7>>, {"ll"}, RecursiveReverse(m))

Next == Q1_main \/ Q2_main \/ Q3_main \/ Q4_main \/ Q5_main \/ Q6_main \/ Q7_main
=============================================================================
