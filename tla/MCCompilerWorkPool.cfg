CONSTANTS
  N = 5
  Workers = {t1, t2, t3}
  None = None
  Plans <- MCPlans
  Stores <- AnyStore
  Files = {"one", "two"}
  Texts <- MCTexts
  Requests <- MCRequests
  Calls <- MCCalls
  Arity <- MCArity
  Tests <- MCTests
  Versions = {"v1"}
  Macho = "macho"
  MaxResults = 4
SPECIFICATION ExecutorSpec
INVARIANTS
  OutcomeIsPlanned
  ReceiptHonest
PROPERTIES
  PoolReturns
  ExecutesGraph
  ANameIsOneResult
CHECK_DEADLOCK FALSE
