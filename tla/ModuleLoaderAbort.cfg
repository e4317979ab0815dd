SPECIFICATION LoaderSpec
CONSTANTS
  Modules = {A, B, C}
  NoModule = NoModule
  MaxRequests = 1
  MaxScripts = 2
SYMMETRY ModuleSymmetry
INVARIANT NeverAborts
CHECK_DEADLOCK FALSE
