----------------------------- MODULE DongukTrees ----------------------------
(***************************************************************************)
(* donguk's answers of sections E and F, in the mains they came with.      *)
(***************************************************************************)
EXTENDS TreeSession

\* Both children are compared even when the left ones differ.
identical(a, b) ==
    LET same[p, q \in DOMAIN m.node \cup {NULL}] ==
            IF p = NULL /\ q = NULL THEN 1
            ELSE IF p = NULL \/ q = NULL THEN 0
            ELSE IF m.node[p].item # m.node[q].item THEN 0
            ELSE same[m.node[p].left, m.node[q].left] * same[m.node[p].right, m.node[q].right]
    IN  same[a, b]

maxHeight(p) == OnTree(m, -1, LAMBDA q, l, r : IF l > r THEN l + 1 ELSE r + 1)[p]

\* Both conditions of the test are the same: no left child, but a right one.
countOneChildNodes(p) ==
    OnTree(m, 0, LAMBDA q, l, r :
        IF m.node[q].left = NULL /\ m.node[q].right # NULL THEN l + r + 1 ELSE l + r)[p]

\* item % 2 == 1 in C: the remainder of a negative odd number is -1.
IsOddInC(i) == i >= 0 /\ i % 2 = 1

sumOfOddNodes(p) ==
    OnTree(m, 0, LAMBDA q, l, r : (IF IsOddInC(m.node[q].item) THEN m.node[q].item ELSE 0) + l + r)[p]

\* Mutant: a child is stored over the other one before that is read.
MirroredNoTemp(n) == [n EXCEPT !.left = n.right]
Mirrored(n) == [n EXCEPT !.left = n.right, !.right = n.left]

mirrorTree(p) ==
    [m EXCEPT !.node = [q \in DOMAIN @ |-> IF q \in Subtree(m, p) THEN Mirrored(@[q]) ELSE @[q]]]

printSmallerValues(p, i) ==
    OnTree(m, <<>>, LAMBDA q, l, r :
        (IF m.node[q].item < i THEN <<m.node[q].item>> ELSE <<>>) \o l \o r)[p]

\* Only the leaves' values count.
smallestValue(p) ==
    OnTree(m, 99999999, LAMBDA q, l, r :
        IF m.node[q].left = NULL /\ m.node[q].right = NULL THEN m.node[q].item
        ELSE IF l > r THEN r ELSE l)[p]

\* A node is printed from height 4 on.
hasGreatGrandchild(p) ==
    OnTree(m, [height |-> -1, out |-> <<>>], LAMBDA q, l, r :
        LET f == (IF l.height > r.height THEN l.height ELSE r.height) + 1
        IN  [height |-> f,
             out |-> l.out \o r.out \o (IF f > 3 THEN <<m.node[q].item>> ELSE <<>>)])[p]

E(q) == <<"donguk", "E", q>>

Q1_main == IdenticalMain(E(1), identical)
Q2_main == HeightMain(E(2), maxHeight(m.root["root"]))
Q3_main == Main(E(3), m, countOneChildNodes(Root), <<>>)
Q4_main == Main(E(4), m, sumOfOddNodes(Root), <<>>)
Q5_main == Main(E(5), mirrorTree(Root), 0, <<>>)
Q6_main == SmallerMain(E(6), LAMBDA i : printSmallerValues(Root, i))
Q7_main == Main(E(7), m, smallestValue(Root), <<>>)
Q8_main == Main(E(8), m, hasGreatGrandchild(Root).height, hasGreatGrandchild(Root).out)

(***************************************************************************)
(* Section F.                                                              *)
(***************************************************************************)
F(q) == <<"donguk", "F", q>>

InQueue(queue, p) == IF p = NULL THEN queue ELSE enqueue(queue, p)
OnStack(s, p) == IF p = NULL THEN s ELSE push(s, p)
Item(p) == m.node[p].item

levelOrderTraversal ==
    \/ Enter(InQueue(<<>>, Root), Root, <<>>, IF Root = NULL THEN "walked" ELSE "walking")
    \/ LET p == Head(stack)
           queue == InQueue(InQueue(dequeue(stack), m.node[p].left), m.node[p].right)
       IN  Walk("walking", queue, p, Append(printed, Item(p)),
                IF isEmpty(queue) THEN "walked" ELSE "walking")

\* The tests are the wrong way round: an empty tree is followed, and of another
\* nothing was pushed when the loop looks at the stack.
inOrderTraversal ==
    \/ Root = NULL /\ AtMenu /\ Crash
    \/ Root # NULL /\ Enter(<<>>, Root, <<>>, "walked")

\* No loop: the root is printed, it and its children stay on the stack.
preOrderIterative ==
    IF Root = NULL THEN Enter(<<>>, NULL, <<>>, "walked")
    ELSE Enter(OnStack(OnStack(push(<<>>, Root), m.node[Root].right), m.node[Root].left),
               Root, <<Item(Root)>>, "walked")

\* Down the left side a node is pushed over its right child; popped over it,
\* it trades places with that child first.
postOrderIterativeS1 ==
    LET p == peek(stack)
        below == pop(stack)
    IN  \/ Enter(<<>>, Root, <<>>, IF Root = NULL THEN "walked" ELSE "walking")
        \/ /\ phase = "walking" /\ temp # NULL
           /\ Walk("walking", push(OnStack(stack, Node.right), temp), Node.left, printed, "walking")
        \/ /\ phase = "walking" /\ temp = NULL
           /\ IF m.node[p].right # NULL /\ peek(below) = m.node[p].right
              THEN Walk("walking", push(pop(below), p), m.node[p].right, printed, "walking")
              ELSE Walk("walking", below, NULL, Append(printed, Item(p)),
                        IF isEmpty(below) THEN "walked" ELSE "walking")

\* Pop from the first stack, push on the second and push the children, the
\* right one last; then print what the second holds.
postOrderIterativeS2 ==
    \/ Enter(OnStack(<<>>, Root), Root, <<>>, IF Root = NULL THEN "walked" ELSE "walking")
    \/ LET p == peek(stack)
           s == OnStack(OnStack(pop(stack), m.node[p].left), m.node[p].right)
       IN  Move(s, p, IF isEmpty(s) THEN "emptying" ELSE "walking")
    \/ PrintSecond

Q1_F_main == SearchMain(F(1), levelOrderTraversal)
Q2_F_main == SearchMain(F(2), inOrderTraversal)
Q3_F_main == SearchMain(F(3), preOrderIterative)
Q4_F_main == SearchMain(F(4), postOrderIterativeS1)
Q5_F_main == SearchMain(F(5), postOrderIterativeS2)

Next ==
    \/ Q1_main \/ Q2_main \/ Q3_main \/ Q4_main \/ Q5_main \/ Q6_main \/ Q7_main \/ Q8_main
    \/ Q1_F_main \/ Q2_F_main \/ Q3_F_main \/ Q4_F_main \/ Q5_F_main
=============================================================================
