---------------------------- MODULE MCCdnfLearner ----------------------------
EXTENDS CdnfLearner
Cube == SUBSET (1 .. N)
Functions == {{},                                              \* false
              {x \in Cube : Cardinality(x) >= 2},              \* majority
              {x \in Cube : Cardinality(x) \in {0, N}},        \* all equal
              {x \in Cube : (1 \in x) # (N \in x)},            \* exclusive or
              {x \in Cube : IF 1 \in x THEN 2 \in x ELSE N \in x},  \* a choice
              {x \in Cube : x = {} \/ x = {1, 2}},             \* members apart
              {x \in Cube : N \in x}}                          \* the last variable
=============================================================================
