------------------------- MODULE DongukStacksQueues -------------------------
(***************************************************************************)
(* donguk/Exercise/ds_template/Stack_and_Queue: the functions of section C *)
(* and their programs.  A local Stack is not initialised: it starts as     *)
(* whatever frame holds.                                                   *)
(***************************************************************************)
EXTENDS StackQueue

Program(q) == <<"donguk", "C", q>>

(***************************************************************************)
(* Q1_C_SQ.c.  The queue is not emptied before it is created.              *)
(***************************************************************************)
createQueueFromLinkedList(mem) ==
    FoldLeft(LAMBDA s, item : enqueue(s, "q", item), mem, printList(mem, "ll"))

\* One turn of the loop: the first item goes to the end, or away.
KeepIfEven(mem) ==
    LET taken == dequeue(mem, "q")
    IN  IF Rem(taken.value, 2) = 0 THEN enqueue(taken.memory, "q", taken.value) ELSE taken.memory

removeOddValues(mem, frame) == Repeat(KeepIfEven, mem, mem.list["q"].size)

Q1_main == ConvertMain(Program(1), {EmptyList}, createQueueFromLinkedList, removeOddValues)

(***************************************************************************)
(* Q2_C_SQ.c.  Negative odd integers have remainder -1 and are dropped.    *)
(***************************************************************************)
createStackFromLinkedList(mem) ==
    FoldLeft(LAMBDA s, item : push(s, "s", item), mem, printList(mem, "ll"))

KeepIfOdd(mem) ==
    LET popped == pop(mem, "s")
    IN  IF Rem(popped.value, 2) = 1 THEN push(popped.memory, "temp", popped.value) ELSE popped.memory

PopOver(mem, from, to) ==
    LET popped == pop(mem, from) IN push(popped.memory, to, popped.value)

removeEvenValues(mem, frame) ==
    LET sorted == Repeat(KeepIfOdd, WithLocal(mem, "temp", frame), mem.list["s"].size)
        Back(s) == PopOver(s, "temp", "s")
    IN  Leave(Repeat(Back, sorted, sorted.list["temp"].size), "temp")

Q2_main == ConvertMain(Program(2), Frames, createStackFromLinkedList, removeEvenValues)

(***************************************************************************)
(* Q3_C_SQ.c.  The result for an odd size is -1, which main takes as true. *)
(***************************************************************************)
PopPair(call) ==
    LET a == popBySize(call.memory, "s")
        b == popBySize(a.memory, "s")
    IN  Returns(b.memory, IF a.value - b.value \in {-1, 1} THEN 1 ELSE 0)

isStackPairwiseConsecutive(mem) ==
    LET size == mem.list["s"].size
        Pairs(call, i) == IF call.value = 1 THEN PopPair(call) ELSE call
    IN  IF size % 2 # 0 THEN Returns(mem, -1)
        ELSE FoldLeft(Pairs, Returns(mem, 1), [i \in 1..(size \div 2) |-> i])

Q3_main == PairwiseMain(Program(3), isStackPairwiseConsecutive)

(***************************************************************************)
(* Q4_C_SQ.c                                                               *)
(***************************************************************************)
reverse(mem, frame) ==
    LET size == mem.list["q"].size
        ToStack(s) == LET taken == dequeueUnchecked(s, "q")
                      IN  push(taken.memory, "s", taken.value)
        ToQueue(s) == LET popped == popBySize(s, "s")
                      IN  enqueue(popped.memory, "q", popped.value)
    IN  Leave(Repeat(ToQueue, Repeat(ToStack, WithLocal(mem, "s", frame), size), size), "s")

Q4_main == ReverseMain(Program(4), Frames, reverse)

(***************************************************************************)
(* Q5_C_SQ.c.  Each call dequeues before, and enqueues after, the next.    *)
(***************************************************************************)
recursiveReverse(mem, frame) ==
    LET items == printList(mem, "q")
        emptied == Repeat(LAMBDA s : dequeue(s, "q").memory, mem, mem.list["q"].size)
    IN  FoldRight(LAMBDA temp, s : enqueue(s, "q", temp), items, emptied)

Q5_main == ReverseMain(Program(5), {EmptyList}, recursiveReverse)

(***************************************************************************)
(* Q6_C_SQ.c                                                               *)
(***************************************************************************)
removeUntil(mem, value) ==
    LET PopUnless(s) == IF peek(s, "s").value = value THEN s ELSE pop(s, "s").memory
    IN  Repeat(PopUnless, mem, mem.list["s"].size)

Q6_main == RemoveUntilMain(Program(6), removeUntil)

(***************************************************************************)
(* Q7_C_SQ.c.  A closing bracket that does not match is passed over.       *)
(***************************************************************************)
CloserOf == (40 :> 41) @@ (91 :> 93) @@ (123 :> 125)     \* ( ) [ ] { }

Consume(mem, temp) ==
    LET top == peek(mem, "local")
    IN  IF temp \in DOMAIN CloserOf THEN push(mem, "local", temp)
        ELSE IF top.value \in DOMAIN CloserOf /\ CloserOf[top.value] = temp
        THEN pop(mem, "local").memory
        ELSE top.memory

balanced(mem, expression, frame) ==
    LET done == FoldLeft(LAMBDA s, temp : IF s.fault THEN s ELSE Consume(s, temp),
                         WithLocal(mem, "local", frame), expression)
    IN  Returns(Leave(done, "local"), IF isEmpty(done, "local") THEN 0 ELSE 1)

Q7_main == BalancedMain(Program(7), Frames, balanced)

Next == Q1_main \/ Q2_main \/ Q3_main \/ Q4_main \/ Q5_main \/ Q6_main \/ Q7_main
=============================================================================
