SPECIFICATION Spec
CONSTANTS
  Writes = {w1}
  Fingerprints = {a, b}
  Unknown = Unknown
  Gap = 1
  Retention = 2
  MaxTime = 6
  MaxBeats = 4
  MaxFaults = 0
  MaxLost = 0
INVARIANT ItemsSelfPurge
