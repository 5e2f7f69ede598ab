SPECIFICATION Spec
CONSTANTS
  NVars = 2
  Formulas <- Some
INVARIANTS OracleInv AnswersRight
