SPECIFICATION Spec
CONSTANTS
  Writes = {w1}
  Fingerprints = {a, b}
  Unknown = Unknown
  Gap = 3
  Retention = 5
  MaxTime = 8
  MaxBeats = 4
  MaxFaults = 1
  MaxLost = 1
INVARIANT HeartbeatCovered
INVARIANT SilenceIsShown
INVARIANT Compressed
INVARIANT ValueHolds
