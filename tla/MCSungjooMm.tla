---------------------------- MODULE MCSungjooMm -----------------------------
(* A heap of at most three chunks of 16 bytes; see the README for the bounds. *)
EXTENDS SungjooMm

MCIds == 1..3
MCSizes == {0, 8, 16}
MCFill == [id \in MCIds |-> 100]
MCHeapLimits == {8, 24, 64}
MCGarbage == {0, 17}      \* 17 reads as the tag of an allocated block of 16 bytes
=============================================================================
