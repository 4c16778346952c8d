-------------------------- MODULE HandoutExercises --------------------------
(***************************************************************************)
(* _Exercise/ds_template, sections A and C: the programs as they are       *)
(* handed out.  Their functions are empty, so a call leaves the lists      *)
(* alone and an integer result is what was left in its register.  author   *)
(* is who runs them.                                                       *)
(***************************************************************************)
EXTENDS StackQueue

A(author, q) == <<author, "A", q>>
C(author, q) == <<author, "C", q>>

LeftOver == {0, 1}       \* main only tells 0 from the rest

Q1_A_main(author) == \E v \in LeftOver : SortedMain(A(author, 1), LAMBDA i : [memory |-> m, index |-> v])
Q2_A_main(author) == Main(A(author, 2), {"ll1", "ll2"}, m)
Q3_A_main(author) == Main(A(author, 3), {"ll"}, m)
Q4_A_main(author) == Main(A(author, 4), {"ll"}, m)
Q5_A_main(author) == Main(A(author, 5), {"ll"}, m)
Q6_A_main(author) == Main(A(author, 6), {"ll"}, m)
Q7_A_main(author) == Main(A(author, 7), {"ll"}, m)

Alone(mem, frame) == mem

Q1_C_main(author) == ConvertMain(C(author, 1), {EmptyList}, LAMBDA mem : mem, Alone)
Q2_C_main(author) == ConvertMain(C(author, 2), {EmptyList}, LAMBDA mem : mem, Alone)
Q3_C_main(author) == \E v \in LeftOver : PairwiseMain(C(author, 3), LAMBDA mem : Returns(mem, v))
Q4_C_main(author) == ReverseMain(C(author, 4), {EmptyList}, Alone)
Q5_C_main(author) == ReverseMain(C(author, 5), {EmptyList}, Alone)
Q6_C_main(author) == RemoveUntilMain(C(author, 6), Alone)
Q7_C_main(author) ==
    \E v \in LeftOver : BalancedMain(C(author, 7), {EmptyList}, LAMBDA mem, e, frame : Returns(mem, v))
=============================================================================
