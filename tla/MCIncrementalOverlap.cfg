SPECIFICATION FairSpec
CONSTANTS
  Actions <- MCActions
  Graphs <- MCGraphs
  None = None
  Workers = {w1, w2}
  Scenarios <- Overlapping
CHECK_DEADLOCK FALSE
PROPERTIES RunAlwaysReturns
