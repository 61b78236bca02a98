SPECIFICATION FairSpec
CONSTANTS
  Nothing = Nothing
  Torn = Torn
  Versions = {"good", "broken"}
  Answering = {"good"}
  MaxFaults = 2
  MaxEdits = 1
INVARIANTS PublishedAnswers PassIsExact
PROPERTIES Recovers
