SPECIFICATION Spec
CHECK_DEADLOCK FALSE
INVARIANTS ProbeInv
PROPERTIES ProbesEnd
