SPECIFICATION ArtifactSpec
CONSTANTS
  Paths <- ThreePaths
  Contents = {v1, v2}
  Blank = Blank
  Escaping <- Outside
  Absent = Absent
  Torn = Torn
  MaxCalls = 2
  MaxStops = 1
  MaxUnread = 1
  MaxTampers = 1
CHECK_DEADLOCK FALSE
INVARIANTS EvidenceIsExact BundleIsComplete
