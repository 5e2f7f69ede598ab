SPECIFICATION FairSpec
CONSTANTS
  None = None
  Formulas = {f1, f2, f3}
  Handles = {h1, h2}
  MaxSlots = 1
  MaxRef = 3
PROPERTIES Reclaimed
