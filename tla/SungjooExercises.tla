-------------------------- MODULE SungjooExercises --------------------------
(***************************************************************************)
(* sungjoo/Exercise/ds_template, sections A and C: the handed out programs *)
(* unchanged, each in its file.                                            *)
(***************************************************************************)
EXTENDS HandoutExercises

Q1_A == Q1_A_main("sungjoo")
Q2_A == Q2_A_main("sungjoo")
Q3_A == Q3_A_main("sungjoo")
Q4_A == Q4_A_main("sungjoo")
Q5_A == Q5_A_main("sungjoo")
Q6_A == Q6_A_main("sungjoo")
Q7_A == Q7_A_main("sungjoo")

Q1_C == Q1_C_main("sungjoo")
Q2_C == Q2_C_main("sungjoo")
Q3_C == Q3_C_main("sungjoo")
Q4_C == Q4_C_main("sungjoo")
Q5_C == Q5_C_main("sungjoo")
Q6_C == Q6_C_main("sungjoo")
Q7_C == Q7_C_main("sungjoo")

Next ==
    \/ Q1_A \/ Q2_A \/ Q3_A \/ Q4_A \/ Q5_A \/ Q6_A \/ Q7_A
    \/ Q1_C \/ Q2_C \/ Q3_C \/ Q4_C \/ Q5_C \/ Q6_C \/ Q7_C
=============================================================================
