---------------------------- MODULE SanglimTrees ----------------------------
(***************************************************************************)
(* sanglim's answers of sections E and F, in the mains they came with;     *)
(* question 4 of section F is unfinished and does not compile.             *)
(***************************************************************************)
EXTENDS TreeSession

identical(a, b) ==
    LET same[p, q \in DOMAIN m.node \cup {NULL}] ==
            \/ p = NULL /\ q = NULL
            \/ /\ p # NULL /\ q # NULL
               /\ m.node[p].item = m.node[q].item
               /\ same[m.node[p].left, m.node[q].left]
               /\ same[m.node[p].right, m.node[q].right]
    IN  IF same[a, b] THEN 1 ELSE 0

max(a, b) == IF a > b THEN a ELSE b

maxHeight(p) == OnTree(m, -1, LAMBDA q, l, r : max(l, r) + 1)[p]

countOneChildNodes(p) ==
    OnTree(m, 0, LAMBDA q, l, r :
        IF (m.node[q].left = NULL) <=> (m.node[q].right = NULL) THEN l + r ELSE l + r + 1)[p]

\* item % 2 == 1 in C: the remainder of a negative odd number is -1.
IsOddInC(i) == i >= 0 /\ i % 2 = 1

sumOfOddNodes(p) ==
    OnTree(m, 0, LAMBDA q, l, r : (IF IsOddInC(m.node[q].item) THEN m.node[q].item ELSE 0) + l + r)[p]

Mirrored(n) == [n EXCEPT !.left = n.right, !.right = n.left]

mirrorTree(p) ==
    [m EXCEPT !.node = [q \in DOMAIN @ |-> IF q \in Subtree(m, p) THEN Mirrored(@[q]) ELSE @[q]]]

printSmallerValues(p, i) ==
    OnTree(m, <<>>, LAMBDA q, l, r :
        (IF m.node[q].item < i THEN <<m.node[q].item>> ELSE <<>>) \o l \o r)[p]

\* Without a left child the right one is not looked at.
smallestValue(p) ==
    OnTree(m, 999999999, LAMBDA q, l, r :
        IF m.node[q].left = NULL THEN m.node[q].item
        ELSE LET currentMin == IF m.node[q].item < l THEN m.node[q].item ELSE l
             IN  IF currentMin < r THEN currentMin ELSE r)[p]

hasGreatGrandchild(p) ==
    OnTree(m, [level |-> -1, out |-> <<>>], LAMBDA q, l, r :
        LET level == max(l.level, r.level) + 1
        IN  [level |-> level,
             out |-> l.out \o r.out \o (IF level >= 3 THEN <<m.node[q].item>> ELSE <<>>)])[p]

E(q) == <<"sanglim", "E", q>>

Q1_main == IdenticalMain(E(1), identical)
Q2_main == HeightMain(E(2), maxHeight(m.root["root"]))
Q3_main == Main(E(3), m, countOneChildNodes(Root), <<>>)
Q4_main == Main(E(4), m, sumOfOddNodes(Root), <<>>)
Q5_main == Main(E(5), mirrorTree(Root), 0, <<>>)
Q6_main == SmallerMain(E(6), LAMBDA i : printSmallerValues(Root, i))
Q7_main == Main(E(7), m, smallestValue(Root), <<>>)
Q8_main == Main(E(8), m, hasGreatGrandchild(Root).level, hasGreatGrandchild(Root).out)

(***************************************************************************)
(* Section F.                                                              *)
(***************************************************************************)
F(q) == <<"sanglim", "F", q>>

InQueue(queue, p) == IF p = NULL THEN queue ELSE enqueue(queue, p)
OnStack(s, p) == IF p = NULL THEN s ELSE push(s, p)
Item(p) == m.node[p].item

levelOrderTraversal ==
    \/ Enter(InQueue(<<>>, Root), Root, <<>>, IF Root = NULL THEN "walked" ELSE "walking")
    \/ LET p == Head(stack)
           queue == InQueue(InQueue(dequeue(stack), m.node[p].left), m.node[p].right)
       IN  Walk("walking", queue, p, Append(printed, Item(p)),
                IF isEmpty(queue) THEN "walked" ELSE "walking")

\* Push down the left side; at its end pop, print and go right, or stop.
inOrderTraversal ==
    \/ Enter(<<>>, Root, <<>>, IF Root = NULL THEN "walked" ELSE "walking")
    \/ temp # NULL /\ Walk("walking", push(stack, temp), Node.left, printed, "walking")
    \/ /\ temp = NULL
       /\ IF isEmpty(stack) THEN Walk("walking", <<>>, NULL, printed, "walked")
          ELSE LET p == peek(stack)
               IN  Walk("walking", pop(stack), m.node[p].right, Append(printed, Item(p)), "walking")

\* Mutant: the children are pushed in the order they are visited in.
preOrderIterativeSwapped ==
    \/ Enter(OnStack(<<>>, Root), NULL, <<>>, IF Root = NULL THEN "walked" ELSE "walking")
    \/ LET p == peek(stack)
           s == OnStack(OnStack(pop(stack), m.node[p].left), m.node[p].right)
       IN  Walk("walking", s, p, Append(printed, Item(p)), IF isEmpty(s) THEN "walked" ELSE "walking")
preOrderIterative ==
    \/ Enter(OnStack(<<>>, Root), NULL, <<>>, IF Root = NULL THEN "walked" ELSE "walking")
    \/ LET p == peek(stack)
           s == OnStack(OnStack(pop(stack), m.node[p].right), m.node[p].left)
       IN  Walk("walking", s, p, Append(printed, Item(p)), IF isEmpty(s) THEN "walked" ELSE "walking")

\* Pop from the first stack, push on the second and push the children, the
\* right one last; then print what the second holds.
postOrderIterativeS2 ==
    \/ Enter(OnStack(<<>>, Root), NULL, <<>>, IF Root = NULL THEN "walked" ELSE "walking")
    \/ LET p == peek(stack)
           s == OnStack(OnStack(pop(stack), m.node[p].left), m.node[p].right)
       IN  Move(s, p, IF isEmpty(s) THEN "emptying" ELSE "walking")
    \/ PrintSecond

Q1_F_main == SearchMain(F(1), levelOrderTraversal)
Q2_F_main == SearchMain(F(2), inOrderTraversal)
Q3_F_main == SearchMain(F(3), preOrderIterative)
Q5_F_main == SearchMain(F(5), postOrderIterativeS2)

Next ==
    \/ Q1_main \/ Q2_main \/ Q3_main \/ Q4_main \/ Q5_main \/ Q6_main \/ Q7_main \/ Q8_main
    \/ Q1_F_main \/ Q2_F_main \/ Q3_F_main \/ Q5_F_main
=============================================================================
