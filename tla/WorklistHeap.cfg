SPECIFICATION Spec
CONSTANTS
    Ids <- mcIds
    Key <- mcKey
    Nothing <- mcNothing
INVARIANTS
    HeapInv
PROPERTIES
    IsPriorityQueue
