SPECIFICATION Spec
CONSTANTS
  None = None
  Torn = Torn
  MaxGenerations = 2
  MaxEdits = 1
INVARIANTS DeliversItsOwn EvidenceAgrees
CHECK_DEADLOCK FALSE
