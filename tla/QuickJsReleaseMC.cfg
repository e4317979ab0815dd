SPECIFICATION Spec
CONSTANTS
  N = 4
  Kinds <- MCKinds
INVARIANTS HintsOwnedOnce DetachedFirst
PROPERTIES KeepsContract ReleaseEnds
CHECK_DEADLOCK FALSE
