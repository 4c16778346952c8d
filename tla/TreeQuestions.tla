---------------------------- MODULE TreeQuestions ---------------------------
(***************************************************************************)
(* The programs of sections E and F together, and what the questions ask   *)
(* for.  Right says what a call should have returned, printed or left for  *)
(* the tree it was given, by quantifying over the tree's nodes and paths;  *)
(* Deviates, for which trees the author's function does something else.    *)
(* sungjoo wrote none of the functions.                                    *)
(***************************************************************************)
EXTENDS TreeSession, FiniteSetsExt

Donguk == INSTANCE DongukTrees
Sanglim == INSTANCE SanglimTrees
Sungjoo == INSTANCE SungjooTrees

Next == Donguk!Next \/ Sanglim!Next \/ Sungjoo!Next \/ Ended

Spec == Init /\ [][Next]_vars

(***************************************************************************)
(* Trees as sets of places: a place is the path to it, a sequence of       *)
(* "left" and "right" from the root, and holds the node at its end.        *)
(***************************************************************************)
\* The node at the end of a path, NULL where there is none.
NodeAt(mem, r, path) ==
    FoldLeft(LAMBDA p, side : IF p = NULL THEN NULL ELSE mem.node[p][side], mem.root[r], path)

Paths == UNION {[1..n -> {"left", "right"}] : n \in 0..(MaxNodes(program) - 1)}
Places(mem, r) == {path \in Paths : NodeAt(mem, r, path) # NULL}
ItemAt(mem, r, path) == mem.node[NodeAt(mem, r, path)].item

Leads(a, b) == IsPrefix(a, b)
Child(path, side) == Append(path, side)
Was == Places(given, "root")
ItemWas(path) == ItemAt(given, "root", path)

\* The same shape with the same items.
SameTree(mem, a, b) ==
    /\ Places(mem, a) = Places(mem, b)
    /\ \A path \in Places(mem, a) : ItemAt(mem, a, path) = ItemAt(mem, b, path)

Flipped(path) == [i \in DOMAIN path |-> IF path[i] = "left" THEN "right" ELSE "left"]

Children(path) == {Child(path, side) : side \in {"left", "right"}} \cap Was
Smallest == Min({ItemWas(path) : path \in Was})

\* The items at a set of places, with how often each occurs, as printed.
PrintsItemsAt(places) ==
    /\ Len(printed) = Cardinality(places)
    /\ \A i \in Range(printed) \cup {ItemWas(path) : path \in places} :
          Cardinality({k \in DOMAIN printed : printed[k] = i})
             = Cardinality({path \in places : ItemWas(path) = i})

RightTree(question) ==
    CASE question = 1 -> (result # 0) <=> SameTree(given, "root1", "root2")
      [] question = 2 -> result = Max({Len(path) : path \in Was} \cup {-1})
      [] question = 3 -> result = Cardinality({path \in Was : Cardinality(Children(path)) = 1})
      [] question = 4 -> result = MapThenSumSet(ItemWas, {path \in Was : ItemWas(path) % 2 = 1})
      [] question = 5 -> /\ Places(m, "root") = {Flipped(path) : path \in Was}
                         /\ \A path \in Was : ItemAt(m, "root", Flipped(path)) = ItemWas(path)
      [] question = 6 -> PrintsItemsAt({path \in Was : ItemWas(path) < input})
      [] question = 7 -> result = Smallest
      [] question = 8 -> PrintsItemsAt({path \in Was : \E low \in Was :
                                           Leads(path, low) /\ Len(low) - Len(path) >= 3})

\* donguk's countOneChildNodes misses the nodes with a left child only; both
\* sumOfOddNodes miss negative numbers; donguk's smallestValue sees leaves only,
\* sanglim's nothing below a node without a left child; donguk's
\* hasGreatGrandchild wants one generation more.
Seen == {path \in Was : \A k \in 0..(Len(path) - 1) :
                            Child(SubSeq(path, 1, k), "left") \in Was}
Leaves == {path \in Was : Children(path) = {}}

TreeDeviates ==
    \/ /\ program = <<"donguk", "E", 3>>
       /\ \E path \in Was : Children(path) = {Child(path, "left")}
    \/ program[3] = 4 /\ \E path \in Was : ItemWas(path) < 0 /\ ItemWas(path) % 2 = 1
    \/ program = <<"donguk", "E", 7>> /\ Smallest \notin {ItemWas(path) : path \in Leaves}
    \/ program = <<"sanglim", "E", 7>> /\ Smallest \notin {ItemWas(path) : path \in Seen}
    \/ /\ program = <<"donguk", "E", 8>>
       /\ \E path \in Was : Max({Len(low) - Len(path) : low \in {low \in Was : Leads(path, low)}}) = 3

(***************************************************************************)
(* Section F.                                                              *)
(***************************************************************************)
Here == Places(m, "root")
ItemHere(path) == ItemAt(m, "root", path)

\* Does a traversal visit place a before place b?  The first step at which the
\* paths differ decides, or one path leads to the other.
Diverge(a, b) == CHOOSE i \in 1..(MaxNodes(program) + 1) :
                    /\ SubSeq(a, 1, i - 1) = SubSeq(b, 1, i - 1)
                    /\ i > Len(a) \/ i > Len(b) \/ a[i] # b[i]
Side(path, i) == IF i > Len(path) THEN "here" ELSE path[i]
Before(order, a, b) ==
    LET i == Diverge(a, b)
        rank(path) == CHOOSE k \in 1..3 : order[k] = Side(path, i)
    IN  rank(a) < rank(b)

BeforeInLevels(a, b) ==
    Len(a) < Len(b) \/ (Len(a) = Len(b) /\ Before(<<"left", "here", "right">>, a, b))

Visits(question, a, b) ==
    CASE question = 1 -> BeforeInLevels(a, b)
      [] question = 2 -> Before(<<"left", "here", "right">>, a, b)
      [] question = 3 -> Before(<<"here", "left", "right">>, a, b)
      [] question \in {4, 5} -> Before(<<"left", "right", "here">>, a, b)

\* The items in the order a question wants them.
Traversal(question) ==
    LET rank(path) == Cardinality({p \in Here : p # path /\ Visits(question, p, path)}) + 1
    IN  [k \in 1..Cardinality(Here) |-> ItemHere(CHOOSE path \in Here : rank(path) = k)]

\* All is printed in the order asked for, and every stack node is freed again.
RightTraversal ==
    /\ phase = "walked"
    /\ printed = Traversal(program[3])
    /\ stack = <<>> /\ other = <<>>

\* donguk's in-order traversal prints nothing and follows the NULL of an empty
\* tree; its pre-order traversal prints the root and frees no stack node.
TraversalDeviates ==
    \/ program = <<"donguk", "F", 2>>
    \/ program = <<"donguk", "F", 3>> /\ Here # {}

-----------------------------------------------------------------------------
Written == program[1] # "sungjoo"

\* Each function of section E returns, prints or leaves what its question asks
\* for, on exactly the trees that are not a known deviation of its author;
\* nothing is asked of the smallest value of an empty tree.
TreesAnswered ==
    Written /\ phase = "shown" /\ ~(program[3] = 7 /\ Was = {}) => (RightTree(program[3]) <=> ~TreeDeviates)

\* Each traversal prints the items in its order, with a loop and a stack or
\* queue in place of recursion, and leaves nothing allocated, on exactly the
\* trees that are not a known deviation; on the way it has printed a prefix.
TraversalsAnswered ==
    /\ Written /\ phase \in {"walked", "crashed"} => (RightTraversal <=> ~TraversalDeviates)
    /\ phase \in {"walking", "emptying"} => IsPrefix(printed, Traversal(program[3]))

\* What removeAll and every later call rely on: each allocated node is in one
\* tree at one place, none is lost, and a search tree's items ascend.
TreesInOrder ==
    /\ UNION {Subtree(m, m.root[r]) : r \in DOMAIN m.root} = DOMAIN m.node
    /\ MapThenSumSet(LAMBDA r : Cardinality(Places(m, r)), DOMAIN m.root) = Cardinality(DOMAIN m.node)
    /\ program[2] = "F" => \A a, b \in Here :
          a # b /\ Before(<<"left", "here", "right">>, a, b) => ItemHere(a) < ItemHere(b)

\* The menu is left only when its user says so, but for the programs of question
\* 2: they keep the height in the variable the loop tests, and a tree of one
\* node, and only that, ends them; unwritten, the function decides by accident.
LeftOnlyWhenAsked ==
    [][phase = "shown" => (phase' = "quit" <=> (program[3] = 2 /\ IF Written THEN Was = {<<>>} ELSE result = 0))]_vars
=============================================================================
