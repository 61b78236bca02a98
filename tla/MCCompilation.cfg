SPECIFICATION CompilerSpec
CONSTANTS
  Width = 4
  MaxFrame = 64
  MaxPasses = 3
  MaxBuilds = 1
  None = None
  Sources <- MCSources
  Values <- MCValues
  ByName <- MCByName
  CrateOf <- MCCrateOf
  Bits <- MCBits
  Slices <- MCSlices
  RustWorkspaces <- MCRustWorkspaces
  Fixtures <- MCFixtures
  Keys <- MCKeys
  RequestSources = {"code", "test"}
  Fingerprints = {1}
  WorklistInputs <- MCWorklistInputs
  WordBits = 5
  Programs <- MCPrograms
  Edits <- MCEdits
INVARIANTS LoweringKeepsMeaning InliningKeepsMeaning TargetsAgree
  ObjectsMeetDemand SupportIsSound WorkIsNeeded EntryKeepsMeaning
CHECK_DEADLOCK FALSE
