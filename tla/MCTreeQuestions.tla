--------------------------- MODULE MCTreeQuestions --------------------------
(* Where no integer decides, one will do; -1 is the odd number that C's %     *)
(* makes negative.  Five nodes make a tree with two great-grandparents.       *)
EXTENDS TreeQuestions

MCPrograms ==
    LET authors == {"donguk", "sanglim", "sungjoo"}
    IN  ((authors \X {"E"} \X (1..8)) \cup (authors \X {"F"} \X (1..5)))
           \ {<<"sanglim", "F", 4>>}
MCItems(p) ==
    CASE p[2] = "F" -> 1..5
      [] p[2] = "E" /\ p[3] = 4 -> {-1, 1, 2}
      [] p[2] = "E" /\ p[3] \in {1, 5, 6, 7} -> {1, 2}
      [] OTHER -> {1}
MCMaxNodes(p) ==
    IF p[1] = "sungjoo" THEN 3
    ELSE IF p[2] = "E" /\ p[3] \in {1, 4, 5, 6, 7} THEN 4 ELSE 5
MCAddresses == 1..5
=============================================================================
