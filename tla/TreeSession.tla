---------------------------- MODULE TreeSession -----------------------------
(***************************************************************************)
(* The programs of sections E (binary trees) and F (binary search trees):  *)
(* a menu that builds a tree and calls the function a question asks for.   *)
(* A program is <<author, section, question>>.  In section E the function  *)
(* is recursive, one call of it is one step, and the tree goes after the   *)
(* call; in section F it is a loop with a stack or a queue of its own, one *)
(* iteration of it is one step, and the tree stays.                        *)
(*                                                                         *)
(* phase "menu"      the menu waits                                        *)
(*       "building"  createTree asks for the children of the nodes pending *)
(*       "walking"   a traversal is in its loop                            *)
(*       "emptying"  the same, in its second loop                          *)
(*       "shown"     section E: the call's result is printed               *)
(*       "walked"    section F: the traversal has returned, the menu waits *)
(*       "quit", "crashed"                                                 *)
(***************************************************************************)
EXTENDS BinaryTree

CONSTANTS
    Programs,      \* which of the programs run
    Items(_),      \* the integers a user types into a program
    MaxNodes(_)    \* nothing is added to it while so many nodes are allocated

VARIABLES
    program,
    phase,
    m,             \* the program's memory
    stack,         \* the local stack (or queue) of createTree or of a traversal,
    other,         \* its second stack
    temp,          \* and its current node
    printed,       \* what the function has printed
    given,         \* the memory the function was called in,
    input,         \* the integer it was given
    result         \* and the one it returned

locals == <<stack, other, temp>>
vars == <<program, phase, m, stack, other, temp, printed, given, input, result>>

ASSUME SessionAssumption == \A p \in Programs : MaxNodes(p) \in Nat /\ Items(p) \subseteq Int

Roots(p) == IF p[2] = "E" /\ p[3] = 1 THEN {"root1", "root2"} ELSE {"root"}

NoCall == EmptyMemory({})

Init ==
    /\ program \in Programs
    /\ phase = "menu"
    /\ m = EmptyMemory(Roots(program))
    /\ stack = <<>> /\ other = <<>> /\ temp = NULL
    /\ printed = <<>>
    /\ given = NoCall /\ input = 0 /\ result = 0

AtMenu == phase \in {"menu", "walked"}
HasRoom == Cardinality(DOMAIN m.node) < MaxNodes(program)

Forgotten == printed' = <<>> /\ given' = NoCall /\ input' = 0 /\ result' = 0

RemoveAll == FoldSet(LAMBDA r, mem : removeAll(mem, r), m, DOMAIN m.root)

Quit ==
    /\ AtMenu
    /\ phase' = "quit"
    /\ m' = RemoveAll
    /\ stack' = <<>> /\ other' = <<>> /\ temp' = NULL
    /\ Forgotten
    /\ UNCHANGED program

Ended == phase \in {"quit", "crashed"} /\ UNCHANGED vars

(***************************************************************************)
(* Section E.                                                              *)
(***************************************************************************)
\* createTree starts: the old tree goes, the root is asked for; a letter means
\* no node.
CreateTree(r) ==
    /\ phase = "menu"
    /\ LET gone == removeAll(m, r)
           new == NewNode(gone)
       IN  \/ m' = gone /\ UNCHANGED <<phase, stack>>
           \/ /\ Cardinality(DOMAIN gone.node) < MaxNodes(program)
              /\ \E i \in Items(program) :
                    m' = [createBTNode(gone, i) EXCEPT !.root[r] = new]
              /\ phase' = "building"
              /\ stack' = push(stack, new)
    /\ UNCHANGED <<program, other, temp, printed, given, input, result>>

\* The memory after a child was asked for, and the child.
Grown(mem, p, side, i) ==
    [createBTNode(mem, i) EXCEPT !.node[p] = [@ EXCEPT ![side] = NewNode(mem)]]
Asked(mem, p, side) ==
    {mem} \cup IF Cardinality(DOMAIN mem.node) < MaxNodes(program)
               THEN {Grown(mem, p, side, i) : i \in Items(program)} ELSE {}

\* The node popped is given its left and its right child, which are pushed.
AskChildren ==
    /\ phase = "building"
    /\ LET p == peek(stack)
       IN  \E left \in Asked(m, p, "left") : \E both \in Asked(left, p, "right") :
              LET n == both.node[p]
                  pending == (IF n.left = NULL THEN <<>> ELSE <<n.left>>)
                             \o (IF n.right = NULL THEN <<>> ELSE <<n.right>>)
                             \o pop(stack)
              IN  /\ m' = both
                  /\ stack' = pending
                  /\ phase' = IF isEmpty(pending) THEN "menu" ELSE "building"
    /\ UNCHANGED <<program, other, temp, printed, given, input, result>>

\* A call with integer in leaves memory mem, returns res and prints out.
Call(in, mem, res, out) ==
    /\ phase = "menu"
    /\ phase' = "shown"
    /\ m' = mem
    /\ given' = m
    /\ input' = in
    /\ result' = res
    /\ printed' = out
    /\ UNCHANGED <<program, locals>>

CleanUp(next) ==
    /\ phase = "shown"
    /\ phase' = next
    /\ m' = RemoveAll
    /\ Forgotten
    /\ UNCHANGED <<program, locals>>

\* The loop of main but for its call.
Menu == (\E r \in Roots(program) : CreateTree(r)) \/ AskChildren \/ Quit

\* A function from a tree to an integer, and one that prints as well.
Main(p, mem, res, out) ==
    /\ program = p
    /\ Menu \/ Call(0, mem, res, out) \/ CleanUp("menu")

\* Question 1 has two trees.
IdenticalMain(p, identical(_, _)) ==
    Main(p, m, identical(m.root["root1"], m.root["root2"]), <<>>)

\* Question 2 stores the height in the variable that holds the menu's choice.
\* Mutant: the loop goes on while the choice is positive.
HeightMainPositive(p, height) ==
    /\ program = p
    /\ Menu \/ Call(0, m, height, <<>>) \/ CleanUp(IF result <= 0 THEN "quit" ELSE "menu")
HeightMain(p, height) ==
    /\ program = p
    /\ Menu \/ Call(0, m, height, <<>>) \/ CleanUp(IF result = 0 THEN "quit" ELSE "menu")

\* Question 6 asks for the integer to compare with.
SmallerMain(p, smaller(_)) ==
    /\ program = p
    /\ \/ Menu
       \/ \E i \in Items(p) : Call(i, m, 0, smaller(i))
       \/ CleanUp("menu")

(***************************************************************************)
(* Section F.                                                              *)
(***************************************************************************)
Insert ==
    /\ AtMenu /\ HasRoom
    /\ \E i \in Items(program) : m' = insertBSTNode(m, "root", i)
    /\ phase' = "menu"
    /\ stack' = <<>> /\ other' = <<>> /\ temp' = NULL
    /\ Forgotten
    /\ UNCHANGED program

Root == m.root["root"]
Node == m.node[temp]

\* The traversal is called: stack s, second stack empty, current node t.
Enter(s, t, out, next) ==
    /\ AtMenu
    /\ phase' = next
    /\ stack' = s /\ other' = <<>> /\ temp' = t
    /\ printed' = out
    /\ UNCHANGED <<program, m, given, input, result>>

\* One iteration of its loop.
Walk(in, s, t, out, next) ==
    /\ phase = in
    /\ phase' = next
    /\ stack' = s /\ temp' = t
    /\ printed' = out
    /\ UNCHANGED <<program, m, other, given, input, result>>

\* An iteration that moves p from the first stack, which becomes s, to the second.
Move(s, p, next) ==
    /\ phase = "walking"
    /\ phase' = next
    /\ stack' = s /\ other' = push(other, p) /\ temp' = p
    /\ UNCHANGED <<program, m, printed, given, input, result>>

\* Pop the second stack and print the node.
PrintSecond ==
    /\ phase = "emptying"
    /\ phase' = IF isEmpty(pop(other)) THEN "walked" ELSE "emptying"
    /\ other' = pop(other) /\ temp' = peek(other)
    /\ printed' = Append(printed, m.node[peek(other)].item)
    /\ UNCHANGED <<program, m, stack, given, input, result>>

\* A pointer was followed that is NULL.
Crash ==
    /\ phase' = "crashed"
    /\ m' = Fault(m)
    /\ UNCHANGED <<program, locals, printed, given, input, result>>

SearchMain(p, traversal) == program = p /\ (Insert \/ traversal \/ Quit)

TypeOK ==
    /\ program \in Programs
    /\ phase \in {"menu", "building", "walking", "emptying", "shown", "walked", "quit", "crashed"}
    /\ DOMAIN m.node \subseteq Addresses
    /\ \A p \in DOMAIN m.node : {m.node[p].left, m.node[p].right} \subseteq DOMAIN m.node \cup {NULL}
    /\ DOMAIN m.root = Roots(program)
    /\ \A r \in DOMAIN m.root : m.root[r] \in DOMAIN m.node \cup {NULL}
    /\ temp \in DOMAIN m.node \cup {NULL}
    /\ Range(stack) \cup Range(other) \subseteq DOMAIN m.node
=============================================================================
