---------------------------- MODULE ListQuestions ---------------------------
(***************************************************************************)
(* The programs of sections A and C together, and what the questions ask   *)
(* for: for each question, Right says what the function should have done   *)
(* to the lists it was given, as sequences, and Deviates for which calls   *)
(* the author's function does something else.  sungjoo wrote none of them. *)
(***************************************************************************)
EXTENDS ListSession

DongukA == INSTANCE DongukLists
SanglimA == INSTANCE SanglimLists
DongukC == INSTANCE DongukStacksQueues
SanglimC == INSTANCE SanglimStacksQueues
Sungjoo == INSTANCE SungjooExercises

Next ==
    DongukA!Next \/ SanglimA!Next \/ DongukC!Next \/ SanglimC!Next \/ Sungjoo!Next \/ Ended

Spec == Init /\ [][Next]_vars

now == Contents(m)
IsOdd(i) == i % 2 = 1
IsEven(i) == i % 2 = 0

(***************************************************************************)
(* Section A.                                                              *)
(***************************************************************************)
\* A new integer goes where the ascending order wants it, and its index is
\* returned; one that is there already is refused with -1.
SortedInsertion ==
    IF input \in Range(given["ll"])
    THEN result = -1 /\ now["ll"] = given["ll"]
    ELSE now["ll"] = InsertAt(given["ll"], result + 1, input) /\ IsSorted(now["ll"], <=)

\* The nodes of the second list go behind those of the first, one each, while
\* there are any; the rest of the second list stays there.
AlternateMerge ==
    LET a == given["ll1"]
        b == given["ll2"]
        n == IF Len(a) < Len(b) THEN Len(a) ELSE Len(b)
    IN  /\ now["ll1"] = FlattenSeq(Interleave(SubSeq(a, 1, n), SubSeq(b, 1, n)))
                          \o SubSeq(a, n + 1, Len(a))
        /\ now["ll2"] = SubSeq(b, n + 1, Len(b))

\* The middle one of an odd number goes to the front half.
FrontBackSplit ==
    /\ now["resultFrontList"] \o now["resultBackList"] = given["ll"]
    /\ Len(now["resultFrontList"]) - Len(now["resultBackList"]) \in {0, 1}

\* The largest integer comes first, the others keep their order.
MaxAtFront ==
    LET old == given["ll"]
    IN  \/ old = <<>> /\ now["ll"] = <<>>
        \/ \E i \in DOMAIN old : /\ \A j \in DOMAIN old : old[j] <= old[i]
                                 /\ now["ll"] = <<old[i]>> \o RemoveAt(old, i)

RightList(question) ==
    CASE question = 1 -> SortedInsertion
      [] question = 2 -> AlternateMerge
      [] question = 3 -> now["ll"] = SelectSeq(given["ll"], IsEven) \o SelectSeq(given["ll"], IsOdd)
      [] question = 4 -> now["ll"] = SelectSeq(given["ll"], IsOdd) \o SelectSeq(given["ll"], IsEven)
      [] question = 5 -> FrontBackSplit
      [] question = 6 -> MaxAtFront
      [] question = 7 -> now["ll"] = Reverse(given["ll"])

MaxIsFirst == given["ll"] = <<>> \/ \A i \in Range(given["ll"]) : i <= Head(given["ll"])

\* sanglim inserts an integer once more; donguk loses the back half of a list of
\* even size, but for size 2, where insertNode takes any index of an empty list,
\* and follows a null pointer when there is no node before the maximum.
ListDeviates ==
    \/ program = <<"sanglim", "A", 1>> /\ input \in Range(given["ll"])
    \/ program = <<"donguk", "A", 5>> /\ IsEven(Len(given["ll"])) /\ Len(given["ll"]) > 2
    \/ program = <<"donguk", "A", 6>> /\ MaxIsFirst /\ Len(given["ll"]) # 1

(***************************************************************************)
(* Section C.                                                              *)
(***************************************************************************)
\* The queue or stack just created is a copy of the list.
CreatedFromList ==
    IF program[3] = 1 THEN now["q"] = given["ll"] ELSE now["s"] = Reverse(given["ll"])

IsPair(a, b) == a - b \in {-1, 1}
PairsFrom(s) == {<<s[2 * i - 1], s[2 * i]>> : i \in 1..(Len(s) \div 2)}

PairwiseConsecutive(s) == IsEven(Len(s)) /\ \A p \in PairsFrom(s) : IsPair(p[1], p[2])

\* Values are removed until the given one is on top; all, if it is not there.
RemovedUntil ==
    LET found == SelectInSeq(given["s"], LAMBDA i : i = input)
    IN  now["s"] = IF found = 0 THEN <<>> ELSE SubSeq(given["s"], found, Len(given["s"]))

\* The brackets still open after an expression, and those that closed nothing.
Pair == {<<40, 41>>, <<91, 93>>, <<123, 125>>}
Pending(e) ==
    FoldLeft(LAMBDA s, c : IF s # <<>> /\ <<Last(s), c>> \in Pair THEN Front(s) ELSE Append(s, c),
             <<>>, e)
Balanced(e) == Pending(e) = <<>>

\* Balanced when some closing brackets are left out.
BalancedWithout(e) ==
    \E kept \in SUBSET DOMAIN e :
        /\ \A i \in DOMAIN e \ kept : e[i] \in {41, 93, 125}
        /\ Balanced(FoldLeft(LAMBDA s, i : IF i \in kept THEN Append(s, e[i]) ELSE s,
                             <<>>, [i \in DOMAIN e |-> i]))

RightStackQueue(question) ==
    CASE question \in {1, 2} /\ phase = "answered" -> CreatedFromList
      [] question = 1 /\ phase = "shown" -> now["q"] = SelectSeq(given["q"], IsEven)
      [] question = 2 /\ phase = "shown" -> now["s"] = SelectSeq(given["s"], IsOdd)
      [] question = 3 -> (result # 0) = PairwiseConsecutive(given["s"])
      [] question \in {4, 5} -> now["q"] = Reverse(given["q"])
      [] question = 6 -> RemovedUntil
      [] question = 7 -> (result = 0) = Balanced(input.expression)
      [] OTHER -> FALSE           \* it crashed

\* Neither author empties the queue or stack first.
AppendedTo == phase = "answered" /\ given[IF program[3] = 1 THEN "q" ELSE "s"] # <<>>

\* donguk's temp holds frame.size items more, or less, than were pushed.
TempDisturbs ==
    \/ \E i \in Range(given["s"]) : i < 0 /\ IsOdd(i)
    \/ input.size > 0
    \/ input.size < 0 /\ \E i \in Range(given["s"]) : IsOdd(i)

SameDirection(s) == \E d \in {-1, 1} : \A p \in PairsFrom(s) : p[2] - p[1] = d

StackQueueDeviates ==
    \/ program[3] \in {1, 2} /\ AppendedTo
    \/ program = <<"donguk", "C", 2>> /\ phase # "answered" /\ TempDisturbs
    \/ program = <<"donguk", "C", 3>> /\ IsOdd(Len(given["s"]))
    \/ /\ program = <<"sanglim", "C", 3>>
       /\ PairwiseConsecutive(given["s"]) /\ (given["s"] = <<>> \/ ~SameDirection(given["s"]))
    \/ program = <<"donguk", "C", 4>> /\ input.size < 0 /\ given["q"] # <<>>
    \/ /\ program = <<"sanglim", "C", 6>>
       /\ SelectInSeq(given["s"], LAMBDA i : i = input) = Len(given["s"])
       /\ given["s"] # <<>>
    \/ /\ program = <<"donguk", "C", 7>>
       /\ BalancedWithout(input.expression) /\ ~Balanced(input.expression)

Written == program[1] # "sungjoo"

Called == Written /\ phase \in {"answered", "shown", "crashed"}

\* Each function of section A does to the lists what its question asks for and
\* leaves lists that end, on exactly the calls that are not a known deviation of
\* its author; only those may crash.
ListsAnswered ==
    Called /\ program[2] = "A" =>
        ((phase # "crashed" /\ RightList(program[3]) /\ ListsEnd(m)) <=> ~ListDeviates)

\* The same for section C, on exactly the calls listed above, for an
\* uninitialised Stack that reads as any of Frames; of question 7 only where
\* the author's stack is enough for the answer.
StacksQueuesAnswered ==
    LET claimed == /\ program = <<"donguk", "C", 7>> => input.frame.size = 0
                   /\ program # <<"sanglim", "C", 7>>
    IN  Called /\ program[2] = "C" /\ claimed =>
            ((phase # "crashed" /\ RightStackQueue(program[3])) <=> ~StackQueueDeviates)

\* What every later choice relies on when the menu waits: each list ends, its
\* size is true, no two lists share a node and no node is lost, but by sanglim's
\* question 5, which cuts the list it was given.
ListsInOrder ==
    AtMenu => /\ ListsEnd(m) /\ SizesRight(m) /\ ListsApart(m)
              /\ program = <<"sanglim", "A", 5>> \/ NoLeak(m)
=============================================================================
