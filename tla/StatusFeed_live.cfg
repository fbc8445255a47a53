SPECIFICATION Spec
CONSTANTS
  Archiving = FALSE
  MaxCount = 2
  MaxLen = 2
  MaxEntries = 6
  MaxFaults = 1
  MaxLosses = 1
INVARIANT EachOnce
