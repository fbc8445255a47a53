SPECIFICATION Spec
CONSTANTS
  Archiving = TRUE
  MaxCount = 2
  MaxLen = 2
  MaxEntries = 6
  MaxFaults = 0
  MaxLosses = 0
INVARIANT NothingSkipped
