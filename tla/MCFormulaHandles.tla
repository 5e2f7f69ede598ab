--------------------------- MODULE MCFormulaHandles --------------------------
EXTENDS FormulaHandles, TLC

Symmetry == Permutations(Formulas) \cup Permutations(Handles)

=============================================================================
