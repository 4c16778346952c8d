----------------------------- MODULE MCPolicyMm -----------------------------
(* A heap of at most four chunks of 16 bytes: room for two free blocks of     *)
(* different size with an allocated one between them.                         *)
EXTENDS PolicyMm

MCIds == 1..2
MCSizes == {0, 8, 16}
MCFill == [id \in MCIds |-> 100 + id]
MCHeapLimits == {24, 72}
MCGarbage == {0}
=============================================================================
