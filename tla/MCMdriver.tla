----------------------------- MODULE MCMdriver ------------------------------
(* One file of four requests, or two of two each; see the README. *)
EXTENDS Mdriver

MCIds == 1..2
MCSizes == {0, 8, 16}
MCFill == [id \in MCIds |-> id]
MCHeapLimits == {24, 64}
MCGarbage == {0, 17}      \* 17 reads as the tag of an allocated block of 16 bytes
MCTimings ==
    {[cycles |-> 1, ticks |-> 0], [cycles |-> 2, ticks |-> 0], [cycles |-> 1, ticks |-> 1]}
MCReadings == {2, 13}
MCSetups ==
    {[num_ops |-> <<4>>, fcyc |-> FALSE], [num_ops |-> <<2, 2>>, fcyc |-> TRUE]}
=============================================================================
