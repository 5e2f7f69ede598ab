SPECIFICATION Spec
CONSTANTS
  None = None
  Formulas = {f1, f2, f3}
  Handles = {h1, h2, h3}
  MaxSlots = 2
  MaxRef = 3
INVARIANTS NoDangling FreesOnlyFilled NoGarbage
SYMMETRY Symmetry
