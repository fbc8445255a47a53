SPECIFICATION FairSpec
CONSTANTS
  Archiving = TRUE
  MaxCount = 1
  MaxLen = 1
  MaxEntries = 4
  MaxFaults = 1
  MaxLosses = 1
INVARIANT GapIsFilled
PROPERTY MarkAdvances
PROPERTY CatchesUp
