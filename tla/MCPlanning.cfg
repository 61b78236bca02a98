SPECIFICATION BridgeSpec
CONSTANTS
  None = None
  Inputs <- MCInputs
  Damaged <- MCDamaged
  Fabricated <- MCFabricated
  Contracts <- MCContracts
  Requests <- MCRequests
INVARIANTS PlansRun PlanIsCanonical PhysicalWorkSurvives
CHECK_DEADLOCK FALSE
