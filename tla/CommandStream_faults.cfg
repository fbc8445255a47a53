SPECIFICATION Spec
CONSTANTS
  i1 = i1
  i2 = i2
  s1 = s1
  s2 = s2
  p1 = p1
  p2 = p2
  m1 = m1
  g1 = g1
  Senders = {s1, s2}
  Pollers = {p1, p2}
  Markers = {}
  Gauges = {}
  Instances = {i1, i2}
  Home <- TwoHomes
  MaxLen = 2
  DepthCap = 1
  MaxPosts = 3
  MaxFaults = 2
  MaxResends = 0
  MaxLosses = 1
INVARIANT AtMostOnce
INVARIANT Accounted
PROPERTY ImplementsChannel
