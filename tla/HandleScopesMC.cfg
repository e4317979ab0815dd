CONSTANTS
    GenMod = 2
    MaxSlots = 3
    ValueLimit = 2
    MaxLocals = 4
    MaxScopes = 4
SPECIFICATION Spec
CHECK_DEADLOCK FALSE
INVARIANTS
    TypeOK
    IdsSound
    ValuesAlive
    CallerFramesKept
