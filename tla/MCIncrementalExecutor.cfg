SPECIFICATION FairSpec
CONSTANTS
  Actions <- MCActions
  Graphs <- MCGraphs
  None = None
  Workers = {w1, w2}
  Scenarios <- AnyScenario
CHECK_DEADLOCK FALSE
INVARIANTS OutcomeIsPlanned
PROPERTIES RunReturns ExecutesGraph
