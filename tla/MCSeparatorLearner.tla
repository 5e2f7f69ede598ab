------------------------- MODULE MCSeparatorLearner -------------------------
(* Up to three good and three bad samples over N predicates.               *)
EXTENDS SeparatorLearner

mcSamples == {S \in SUBSET SUBSET Cols : Cardinality(S) \in 1 .. 3}
mcEnforceable == {{}, {N}}
=============================================================================
