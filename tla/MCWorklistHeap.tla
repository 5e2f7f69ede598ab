--------------------------- MODULE MCWorklistHeap ---------------------------
(* Seven constraints, two pairs of which have the same rank.               *)
EXTENDS WorklistHeap

mcIds == 1 .. 7
mcKey == <<1, 2, 2, 3, 4, 4, 5>>
mcNothing == 0
=============================================================================
