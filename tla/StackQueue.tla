----------------------------- MODULE StackQueue -----------------------------
(***************************************************************************)
(* Stacks and queues of section C: a struct around a LinkedList, so a      *)
(* Stack* or Queue* argument is again the name of a list variable.  The    *)
(* mapped lines are those of _Exercise.  And the mains of the section.     *)
(***************************************************************************)
EXTENDS ListSession

MIN_INT == -1000
INT_MIN == -2147483647 - 1

\* An operation's memory and the integer it returns.
Returns(mem, value) == [memory |-> mem, value |-> value]

push(mem, s, item) == insertNode(mem, s, 0, item)
enqueue(mem, q, item) == insertNode(mem, q, mem.list[q].size, item)

isEmpty(mem, l) == mem.list[l].size = 0

\* The first item, and the memory without it; the head may point at nothing.
TakeFirst(mem, l) ==
    IF mem.list[l].head \notin DOMAIN mem.node
    THEN Returns(Fault(mem), 0)
    ELSE Returns(removeNode(mem, l, 0), mem.node[mem.list[l].head].item)

\* pop of questions 2, 6 and 7 tests head, that of 3 and 4 the size.
pop(mem, s) ==
    IF mem.list[s].head = NULL THEN Returns(mem, MIN_INT) ELSE TakeFirst(mem, s)
popBySize(mem, s) ==
    IF isEmpty(mem, s) THEN Returns(mem, INT_MIN) ELSE TakeFirst(mem, s)

\* dequeue of question 4 has no test at all.
dequeue(mem, q) ==
    IF isEmpty(mem, q) THEN Returns(mem, -1) ELSE TakeFirst(mem, q)
dequeueUnchecked(mem, q) == TakeFirst(mem, q)

peek(mem, s) ==
    IF isEmpty(mem, s) THEN Returns(mem, MIN_INT)
    ELSE IF mem.list[s].head \notin DOMAIN mem.node THEN Returns(Fault(mem), 0)
    ELSE Returns(mem, mem.node[mem.list[s].head].item)

\* A Stack declared in a function, which starts as frame, until it returns.  What
\* is still in it then can never be reached again, and is dropped here.
WithLocal(mem, l, frame) == [mem EXCEPT !.list = (l :> frame) @@ @]
Leave(mem, l) ==
    [mem EXCEPT !.node = Freed(mem, Range(Nodes(mem, l))),
                !.list = Restrict(@, DOMAIN @ \ {l})]

(***************************************************************************)
(* The mains.  frames are what the function finds in its uninitialised     *)
(* local Stack, {EmptyList} when it has none.                              *)
(***************************************************************************)
\* Questions 1 and 2: fill a list, create the queue or stack from it, remove
\* some values and empty both.  Only the creation leaves the menu waiting.
ConvertMain(p, frames, create(_), remove(_, _)) ==
    /\ program = p
    /\ \/ Insert("ll")
       \/ HasRoom /\ Call(NoInput, create(m), 0, "answered")
       \/ \E frame \in frames : Call(frame, remove(m, frame), 0, "shown")
       \/ CleanUp
       \/ Quit

\* Question 3: the answer is the function's result.
PairwiseMain(p, f(_)) ==
    /\ program = p
    /\ \/ InsertAtIndex("s", 0)
       \/ Call(NoInput, f(m).memory, f(m).value, "shown")
       \/ CleanUp
       \/ Quit

\* Questions 4 and 5.
ReverseMain(p, frames, f(_, _)) ==
    /\ program = p
    /\ \/ Insert("q")
       \/ \E frame \in frames : Call(frame, f(m, frame), 0, "shown")
       \/ CleanUp
       \/ Quit

\* Question 6.
RemoveUntilMain(p, f(_, _)) ==
    /\ program = p
    /\ \/ InsertAtIndex("s", 0)
       \/ \E value \in Items : Call(value, f(m, value), 0, "shown")
       \/ CleanUp
       \/ Quit

\* Question 7: choice 1 reads the expression, choice 2 checks it; before the
\* first choice 1 the array holds any expression.
BalancedMain(p, frames, f(_, _, _)) ==
    /\ program = p
    /\ \/ \E e \in Expressions, frame \in frames :
             LET checked == f(m, e, frame)
             IN  Call([expression |-> e, frame |-> frame],
                      checked.memory, checked.value, "shown")
       \/ CleanUp       \* main's own lists are empty
       \/ AtMenu /\ phase' = "quit" /\ UNCHANGED <<program, m, given, input, result>>
=============================================================================
