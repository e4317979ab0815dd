CONSTANTS
    Envs = {e1}
    Addrs = {a1}
    MaxDepth = 1
    MaxFinalizers = 2
    Requests = {r1}
    NoEnv = NoEnv
    NoAddr = NoAddr
SPECIFICATION Spec
PROPERTY ReleaseFinishes
