CONSTANTS
  N = 3
  Kinds = {"ir", "diagnostics"}
  Keys = {"a", "b"}
  EmptyKey = ""
  Contents = {"x", "y"}
  Budget <- MCBudget
  Plans <- MCPlans
  Batches <- MCBatches
SPECIFICATION Spec
INVARIANTS
  AccountingExact
  CommitsDeliver
  PropagationExact
PROPERTIES
  ExecutesGraph
