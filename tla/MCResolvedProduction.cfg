SPECIFICATION ProductionSpec
CONSTANTS
  None = None
  Inputs <- MCInputs
  Workspaces <- MCWorkspaces
  Closures <- MCClosures
  Lists <- MCLists
  MaxSeq = 4
INVARIANTS PublishedMeetsSources CompleteFactsPublish DemandDrivenAgrees
PROPERTIES GateIsHonest
CHECK_DEADLOCK FALSE
