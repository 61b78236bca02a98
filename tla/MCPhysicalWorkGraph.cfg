CONSTANTS
  N = 4
  Kinds = {"ir", "diagnostics"}
  Keys = {"a", "b"}
  EmptyKey = ""
  Contents = {"x", "y"}
  Budget <- MCBudget
  Plans <- MCPlans
  Batches <- MCBatches
SPECIFICATION DriverSpec
INVARIANTS
  ReportIsPlanned
PROPERTIES
  RunReturns
CHECK_DEADLOCK FALSE
