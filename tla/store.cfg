SPECIFICATION Spec
CONSTANTS
  p1 = p1
  p2 = p2
  Processes = {p1, p2}
  Nothing = Nothing
  Torn = Torn
  Limits = {0, 1, 2}
  MaxChanges = 2
  MaxSaves = 4
  MaxFaults = 1
  MaxCrashes = 1
CHECK_DEADLOCK FALSE
SYMMETRY Symmetry
INVARIANTS StoreIsConsistent
PROPERTIES VersionsAreUnique HistoryIsKept ImplementsRegister
