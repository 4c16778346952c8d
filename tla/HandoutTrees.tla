---------------------------- MODULE HandoutTrees ----------------------------
(***************************************************************************)
(* _Exercise/ds_template, sections E and F: the programs as they are       *)
(* handed out.  Their functions are empty: a call leaves the tree alone,   *)
(* prints nothing and returns what was left in a register.  author is who  *)
(* runs them.                                                              *)
(***************************************************************************)
EXTENDS TreeSession

E(author, q) == <<author, "E", q>>
F(author, q) == <<author, "F", q>>

LeftOver == {0, 1}       \* main only tells 0 from the rest

Q1_main(author) == \E v \in LeftOver : IdenticalMain(E(author, 1), LAMBDA a, b : v)
Q2_main(author) == \E v \in LeftOver : HeightMain(E(author, 2), v)
Q3_main(author) == \E v \in LeftOver : Main(E(author, 3), m, v, <<>>)
Q4_main(author) == \E v \in LeftOver : Main(E(author, 4), m, v, <<>>)
Q5_main(author) == Main(E(author, 5), m, 0, <<>>)
Q6_main(author) == SmallerMain(E(author, 6), LAMBDA i : <<>>)
Q7_main(author) == \E v \in LeftOver : Main(E(author, 7), m, v, <<>>)
Q8_main(author) == \E v \in LeftOver : Main(E(author, 8), m, v, <<>>)

Nothing == Enter(<<>>, NULL, <<>>, "walked")

Q1_F_main(author) == SearchMain(F(author, 1), Nothing)
Q2_F_main(author) == SearchMain(F(author, 2), Nothing)
Q3_F_main(author) == SearchMain(F(author, 3), Nothing)
Q4_F_main(author) == SearchMain(F(author, 4), Nothing)
Q5_F_main(author) == SearchMain(F(author, 5), Nothing)
=============================================================================
