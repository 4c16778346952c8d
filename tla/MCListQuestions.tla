--------------------------- MODULE MCListQuestions --------------------------
(* -1 is the odd number that C's % makes negative; four nodes make lists of   *)
(* odd and even size with a middle, and a pair of pairs.                      *)
EXTENDS ListQuestions

MCPrograms == {"donguk", "sanglim", "sungjoo"} \X {"A", "C"} \X (1..7)
MCItems == {-1, 1, 2}
MCAddresses == 1..12
MCExpressions == UNION {[1..n -> {40, 41, 91, 93}] : n \in 0..4}
MCFrames == {EmptyList, [size |-> 0, head |-> Wild], [size |-> 1, head |-> NULL],
             [size |-> -1, head |-> NULL]}
=============================================================================
