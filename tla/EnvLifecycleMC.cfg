CONSTANTS
    Envs = {e1, e2}
    Addrs = {a1, a2}
    MaxDepth = 2
    MaxFinalizers = 2
    Requests = {r1}
    NoEnv = NoEnv
    NoAddr = NoAddr
SPECIFICATION Spec
SYMMETRY Symmetry
INVARIANTS
    TypeOK
    PointersSafe
    Accounts
    ReleaseLeavesNothing
    StopHoldsUnlessUndone
