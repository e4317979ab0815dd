SPECIFICATION Spec
CONSTANTS
  Providers = {"v8", "qjs"}
  Paths <- MCPaths
  MaxJs = 2
  Timeouts = TRUE
INVARIANTS
  StoppedJsUnwinds
  TerminationStaysUncatchable
  CancelLeavesNothing
  FailureExplained
  OuterExceptionApart
