SPECIFICATION Spec
CONSTANTS
  N = 3
  Targets <- Functions
  Modes = {"CDNF", "Plus", "PlusPlus", "Plus3"}
  MaxSession = 2
INVARIANTS LearnerInv LearnsItsTarget
PROPERTIES EveryFixCounts Ends
