CONSTANTS
    NThreads = 2
    MemTotal = 5
    AcctLimit = 5
    MaxEnvs = 1
    Overhead = 1
    UnwindSlack = 1
    DefaultOld = 2
    GrowStep = 1
    OldRequests = {0, 1}
    ChargeSizes = {1}
    MaxHeld = 1
SPECIFICATION Spec
INVARIANTS
    TypeOK
    Limits
    Conservation
PROPERTY ReleaseCompletes
