------------------------- MODULE SanglimStacksQueues ------------------------
(***************************************************************************)
(* sanglim/Exercise/ds_template/Stack_and_Queue: the functions of section  *)
(* C and their programs.  Local Stacks are initialised.                    *)
(***************************************************************************)
EXTENDS StackQueue

Program(q) == <<"sanglim", "C", q>>

(***************************************************************************)
(* Q1_C_SQ.c.  The queue is not emptied before it is created.              *)
(***************************************************************************)
createQueueFromLinkedList(mem) ==
    FoldLeft(LAMBDA s, item : enqueue(s, "q", item), mem, printList(mem, "ll"))

\* Mutant: an even item goes back to the front of the queue.
KeepIfEvenInFront(mem) ==
    LET temp_item == dequeue(mem, "q")
    IN  IF Rem(temp_item.value, 2) = 0
        THEN push(temp_item.memory, "q", temp_item.value)
        ELSE temp_item.memory
KeepIfEven(mem) ==
    LET temp_item == dequeue(mem, "q")
    IN  IF Rem(temp_item.value, 2) = 0
        THEN enqueue(temp_item.memory, "q", temp_item.value)
        ELSE temp_item.memory

removeOddValues(mem, frame) == Repeat(KeepIfEven, mem, mem.list["q"].size)

Q1_main == ConvertMain(Program(1), {EmptyList}, createQueueFromLinkedList, removeOddValues)

(***************************************************************************)
(* Q2_C_SQ.c.  All items are popped into an array, temp_array, and the odd *)
(* ones pushed back from its end.                                          *)
(***************************************************************************)
createStackFromLinkedList(mem) ==
    FoldLeft(LAMBDA s, item : push(s, "s", item), mem, printList(mem, "ll"))

removeEvenValues(mem, frame) ==
    LET temp_array == printList(mem, "s")
        popped == Repeat(LAMBDA s : pop(s, "s").memory, mem, mem.list["s"].size)
        PushIfOdd(item, s) == IF Rem(item, 2) # 0 THEN push(s, "s", item) ELSE s
    IN  FoldRight(PushIfOdd, temp_array, popped)

Q2_main == ConvertMain(Program(2), {EmptyList}, createStackFromLinkedList, removeEvenValues)

(***************************************************************************)
(* Q3_C_SQ.c.  The first pair fixes isAscOrDesc for all pairs.  It is a    *)
(* short; a difference that is cut to +-1 fails at the first pair anyway.  *)
(***************************************************************************)
isStackPairwiseConsecutive(mem) ==
    LET items == printList(mem, "s")
        isAscOrDesc == items[2] - items[1]
        pairs == 1..(Len(items) \div 2)
    IN  Returns(mem,
            IF /\ mem.list["s"].size # 0 /\ mem.list["s"].size % 2 = 0
               /\ isAscOrDesc \in {-1, 1}
               /\ \A i \in pairs : items[2 * i] = items[2 * i - 1] + isAscOrDesc
            THEN 1 ELSE 0)

Q3_main == PairwiseMain(Program(3), isStackPairwiseConsecutive)

(***************************************************************************)
(* Q4_C_SQ.c                                                               *)
(***************************************************************************)
reverse(mem, frame) ==
    LET size == mem.list["q"].size
        ToStack(s) == LET taken == dequeueUnchecked(s, "q")
                      IN  push(taken.memory, "local", taken.value)
        ToQueue(s) == LET popped == popBySize(s, "local")
                      IN  enqueue(popped.memory, "q", popped.value)
        filled == Repeat(ToStack, WithLocal(mem, "local", EmptyList), size)
    IN  Leave(Repeat(ToQueue, filled, filled.list["local"].size), "local")

Q4_main == ReverseMain(Program(4), {EmptyList}, reverse)

(***************************************************************************)
(* Q5_C_SQ.c.  Each call dequeues before, and enqueues after, the next.    *)
(***************************************************************************)
recursiveReverse(mem, frame) ==
    LET items == printList(mem, "q")
        emptied == Repeat(LAMBDA s : dequeue(s, "q").memory, mem, Len(Nodes(mem, "q")))
    IN  FoldRight(LAMBDA temp_item, s : enqueue(s, "q", temp_item), items, emptied)

Q5_main == ReverseMain(Program(5), {EmptyList}, recursiveReverse)

(***************************************************************************)
(* Q6_C_SQ.c.  The value found is popped too, and pushed back unless the   *)
(* stack is empty then.                                                    *)
(***************************************************************************)
removeUntil(mem, value) ==
    LET items == printList(mem, "s")
        found == SelectInSeq(items, LAMBDA i : i = value)
        pops == IF found = 0 THEN Len(items) ELSE found
        popped == Repeat(LAMBDA s : pop(s, "s").memory, mem, pops)
    IN  IF isEmpty(popped, "s") THEN popped ELSE push(popped, "s", value)

Q6_main == RemoveUntilMain(Program(6), removeUntil)

(***************************************************************************)
(* Q7_C_SQ.c.  Any character is pushed on the empty stack; on another one  *)
(* none is, and a match with its top pops it.                              *)
(***************************************************************************)
Matches(open, close) == <<open, close>> \in {<<40, 41>>, <<91, 93>>, <<123, 125>>}

Consume(mem, temp) ==
    IF isEmpty(mem, "local") THEN push(mem, "local", temp)
    ELSE IF Matches(peek(mem, "local").value, temp) THEN pop(mem, "local").memory
    ELSE mem

balanced(mem, expression, frame) ==
    LET done == FoldLeft(Consume, WithLocal(mem, "local", EmptyList), expression)
    IN  Returns(Leave(done, "local"), IF isEmpty(done, "local") THEN 0 ELSE 1)

Q7_main == BalancedMain(Program(7), {EmptyList}, balanced)

Next == Q1_main \/ Q2_main \/ Q3_main \/ Q4_main \/ Q5_main \/ Q6_main \/ Q7_main
=============================================================================
