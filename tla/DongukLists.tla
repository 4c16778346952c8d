---------------------------- MODULE DongukLists -----------------------------
(***************************************************************************)
(* donguk/Exercise/ds_template/Linked_List: the seven functions of section *)
(* A and their programs.  Most of them are built from findNode, insertNode *)
(* and removeNode, so that items are copied into new nodes.                *)
(***************************************************************************)
EXTENDS ListSession

(***************************************************************************)
(* Q1_A_LL.c                                                               *)
(***************************************************************************)
insertSortedLL(mem, l, item) ==
    LET items == printList(mem, l)
        i == SelectInSeq(items, LAMBDA x : x >= item)
    IN  IF i = 0
        THEN [memory |-> insertNode(mem, l, Len(items), item), index |-> Len(items)]
        ELSE IF items[i] = item
        THEN [memory |-> mem, index |-> -1]
        ELSE [memory |-> insertNode(mem, l, i - 1, item), index |-> i - 1]

Q1_main == SortedMain(<<"donguk", "A", 1>>, LAMBDA i : insertSortedLL(m, "ll", i))

(***************************************************************************)
(* Q2_A_LL.c: the first node of ll2 is copied behind the next node of ll1, *)
(* as often as both lists allow.                                           *)
(***************************************************************************)
\* The loop's body; inspos is 2 * i - 1 the i-th time.
MoveFirst(mem, i) ==
    removeNode(insertNode(mem, "ll1", 2 * i - 1, mem.node[findNode(mem, "ll2", 0)].item), "ll2", 0)

alternateMergeLinkedList(mem) ==
    LET fixsize1 == mem.list["ll1"].size
        fixsize2 == mem.list["ll2"].size
        rounds == IF fixsize1 >= fixsize2 THEN fixsize2 ELSE fixsize1
    IN  FoldLeft(MoveFirst, mem, [i \in 1..rounds |-> i])

Q2_main == Main(<<"donguk", "A", 2>>, {"ll1", "ll2"}, alternateMergeLinkedList(m))

(***************************************************************************)
(* Q3_A_LL.c and Q4_A_LL.c: as many times as there are items to move, the  *)
(* first of them is removed and inserted at the end.                       *)
(***************************************************************************)
MoveItemsToBack(mem, Moves(_)) ==
    LET count == Len(SelectSeq(printList(mem, "ll"), Moves))
        MoveOne(s) ==
            LET index == SelectInSeq(printList(s, "ll"), Moves) - 1
                removed == removeNode(s, "ll", index)
            IN  insertNode(removed, "ll", removed.list["ll"].size, printList(s, "ll")[index + 1])
    IN  Repeat(MoveOne, mem, count)

moveOddItemsToBack(mem) == MoveItemsToBack(mem, LAMBDA i : Rem(i, 2) = 1 \/ Rem(i, 2) = -1)

Q3_main == Main(<<"donguk", "A", 3>>, {"ll"}, moveOddItemsToBack(m))

moveEvenItemsToBack(mem) == MoveItemsToBack(mem, LAMBDA i : Rem(i, 2) = 0)

Q4_main == Main(<<"donguk", "A", 4>>, {"ll"}, moveEvenItemsToBack(m))

(***************************************************************************)
(* Q5_A_LL.c: each item is copied to the end of one of the results.  For a *)
(* list of even size the index in the back list is computed with the wrong *)
(* sign, and insertNode refuses all indices behind the end of the list.    *)
(***************************************************************************)
FrontLength(size) == (size + 1) \div 2

BackIndex(i, size) == IF size % 2 = 1 THEN i - 1 - size \div 2 ELSE i - 1 + size \div 2

frontBackSplitLinkedList(mem) ==
    LET size == mem.list["ll"].size
        Copy(s, i) ==
            LET item == s.node[findNode(s, "ll", i)].item
            IN  IF i < FrontLength(size)
                THEN insertNode(s, "resultFrontList", i, item)
                ELSE insertNode(s, "resultBackList", BackIndex(i, size), item)
    IN  FoldLeft(Copy, mem, [i \in 1..size |-> i - 1])

Q5_main == Main(<<"donguk", "A", 5>>, {"ll"}, frontBackSplitLinkedList(m))

(***************************************************************************)
(* Q6_A_LL.c: front looks for the node before max, which does not exist    *)
(* when max is the head; and an empty list is not expected.                *)
(***************************************************************************)
FirstMax(items) == SelectInSeq(items, LAMBDA x : \A y \in Range(items) : y <= x)

moveMaxToFront(mem) ==
    LET head == mem.list["ll"].head
        nodes == Nodes(mem, "ll")
        k == FirstMax(printList(mem, "ll"))
        max == nodes[k]
        front == nodes[k - 1]
    IN  IF head = NULL THEN Fault(mem)
        ELSE IF mem.node[head].next = NULL THEN mem
        ELSE IF max = head THEN Fault(mem)
        ELSE [mem EXCEPT !.node[front].next = mem.node[max].next,
                         !.node[max].next = head,
                         !.list["ll"].head = max]

Q6_main == Main(<<"donguk", "A", 6>>, {"ll"}, moveMaxToFront(m))

(***************************************************************************)
(* Q7_A_LL.c: the rest is reversed first; its last node, which first still *)
(* points at, then points back at first.                                   *)
(***************************************************************************)
\* Mutant: first goes on pointing at the node that now points back at it.
TurnAroundCyclic(s, first) ==
    [s EXCEPT !.node = [@ EXCEPT ![s.node[first].next].next = first]]
TurnAround(s, first) ==
    [s EXCEPT !.node = [@ EXCEPT ![s.node[first].next].next = first, ![first].next = NULL]]

\* The calls return from the last node to the first, each handing rest up.
RecursiveReverse(mem) ==
    LET nodes == Nodes(mem, "ll")
    IN  IF Len(nodes) <= 1 THEN mem
        ELSE [FoldRight(LAMBDA first, s : TurnAround(s, first), Front(nodes), mem)
                EXCEPT !.list["ll"].head = Last(nodes)]

Q7_main == Main(<<"donguk", "A", 7>>, {"ll"}, RecursiveReverse(m))

Next == Q1_main \/ Q2_main \/ Q3_main \/ Q4_main \/ Q5_main \/ Q6_main \/ Q7_main
=============================================================================
