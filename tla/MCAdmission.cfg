SPECIFICATION Spec
SYMMETRY Symmetric
CONSTANTS
  MaxTime = 4
  Accounts = {u1, u2}
  Addresses = {ip1, ip2}
  Limit = 2
  Window = 2
  MaxAccepted = 4
  NoKey = NoKey
  GateEnd = 3
  Users = {ann, bob}
  Requests = {q1, q2}
  Nobody = Nobody
  GateTtl = 1
  TokenLife = 1
  LookupDelay = 1
INVARIANTS
  WindowBound
  RefusedOnlyWhenFull
  GateIsRecent
