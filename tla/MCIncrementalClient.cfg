SPECIFICATION Spec
CONSTANTS
  Actions <- MCActions
  Graphs <- MCGraphs
  None = None
  Starts <- MCStarts
  Deltas <- MCDeltas
  Events <- MCEvents
  MaxIndex = 4
CHECK_DEADLOCK FALSE
INVARIANTS GraphStaysOrdered
PROPERTIES LifecycleAdvances SettlingReachesConsumers DemandFollowsSupersession
