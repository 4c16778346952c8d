---------------------------- MODULE MCEvalMmValid ---------------------------
(* A heap of 16 bytes, three aligned addresses, one misaligned, one outside. *)
EXTENDS EvalMmValid

MCIds == {1, 2}
LargeIds == {1, 200}     \* an index whose low byte has its top bit set
MCSizes == {2, 4, 14}
MCAddrs == {8, 12, 16, 24}
=============================================================================
