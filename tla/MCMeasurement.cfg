SPECIFICATION Spec
CONSTANTS
  None = None
  Paths <- MCPaths
  Declared <- MCDeclared
  Digests = {"1", "2"}
  Installed <- MCInstalled
  Machines <- MCMachines
  Scenarios <- MCScenarios
  MaxRuns = 3
  MaxChanges = 1
  MaxFailures = 1
INVARIANTS LabelsAreTrue VerdictsAreFair ReuseIsSound
CHECK_DEADLOCK FALSE
