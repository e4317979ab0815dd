SPECIFICATION Spec
CONSTANTS
  N = 3
  Kinds <- MCKinds
  MaxTasks = 2
INVARIANTS GoneForGood DrainOwed DetachedFirst
PROPERTIES KeepsContract ReleaseEnds
CHECK_DEADLOCK FALSE
