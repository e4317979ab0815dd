SPECIFICATION Spec
CONSTANTS
  N = 3
  MaxNesting = 2
INVARIANTS OneOwner IdsNameOne ReleaseReclaims
CHECK_DEADLOCK FALSE
