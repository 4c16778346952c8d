---------------------------- MODULE SungjooTrees ----------------------------
(***************************************************************************)
(* sungjoo/Exercise/ds_template, sections E and F: the handed out programs *)
(* unchanged, each in its file.                                            *)
(***************************************************************************)
EXTENDS HandoutTrees

Q1_E == Q1_main("sungjoo")
Q2_E == Q2_main("sungjoo")
Q3_E == Q3_main("sungjoo")
Q4_E == Q4_main("sungjoo")
Q5_E == Q5_main("sungjoo")
Q6_E == Q6_main("sungjoo")
Q7_E == Q7_main("sungjoo")
Q8_E == Q8_main("sungjoo")

Q1_F == Q1_F_main("sungjoo")
Q2_F == Q2_F_main("sungjoo")
Q3_F == Q3_F_main("sungjoo")
Q4_F == Q4_F_main("sungjoo")
Q5_F == Q5_F_main("sungjoo")

Next ==
    \/ Q1_E \/ Q2_E \/ Q3_E \/ Q4_E \/ Q5_E \/ Q6_E \/ Q7_E \/ Q8_E
    \/ Q1_F \/ Q2_F \/ Q3_F \/ Q4_F \/ Q5_F
=============================================================================
