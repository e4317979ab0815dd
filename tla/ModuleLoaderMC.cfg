SPECIFICATION LoaderSpec
CONSTANTS
  Modules = {A, B, C}
  NoModule = NoModule
  MaxRequests = 2
  MaxScripts = 2
SYMMETRY ModuleSymmetry
INVARIANTS EngineContract CallsLeaveNothing
PROPERTY NeverBack
CHECK_DEADLOCK FALSE
