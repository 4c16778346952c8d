----------------------------- MODULE MCDongukMm -----------------------------
(* A heap of at most three chunks of 16 bytes; see the README for the bounds. *)
EXTENDS DongukMm

MCIds == 1..2
MCSizes == {0, 8, 16}
MCFill == [id \in MCIds |-> 100 + id]
MCHeapLimits == {8, 24, 64}
MCGarbage == {0, 17}      \* 17 reads as the tag of an allocated block of 16 bytes
=============================================================================
