SPECIFICATION Spec
CONSTANTS
  i1 = i1
  i2 = i2
  s1 = s1
  s2 = s2
  p1 = p1
  p2 = p2
  m1 = m1
  g1 = g1
  Senders = {s1}
  Pollers = {p1}
  Markers = {m1}
  Gauges = {}
  Instances = {i1}
  Home <- OneHome
  MaxLen = 2
  DepthCap = 1
  MaxPosts = 2
  MaxFaults = 1
  MaxResends = 1
  MaxLosses = 1
INVARIANT MarkAllHolds
PROPERTY ImplementsChannel
