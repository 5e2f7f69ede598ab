SPECIFICATION Spec
CONSTANTS
    MaxCalls = 5
INVARIANTS
    LinesWhole
    OwnEnvironment
    LaterEnvironment
