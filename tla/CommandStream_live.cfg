SPECIFICATION FairSpec
CONSTANTS
  i1 = i1
  i2 = i2
  s1 = s1
  s2 = s2
  p1 = p1
  p2 = p2
  m1 = m1
  g1 = g1
  Senders = {s1}
  Pollers = {p1, p2}
  Markers = {}
  Gauges = {g1}
  Instances = {i1, i2}
  Home <- TwoHomes
  MaxLen = 1
  DepthCap = 2
  MaxPosts = 2
  MaxFaults = 0
  MaxResends = 0
  MaxLosses = 1
INVARIANT DepthCountsWaiting
PROPERTY CommandsSettle
