SPECIFICATION Spec
CONSTANTS
  MaxTime = 2
  Phones = {p1, p2}
  Machines = {m1}
  Lifetime = 1
  FetchLimit = 1
  Lookback = 1
  MaxBeacons = 2
  MaxClears = 1
  MaxBeaconFaults = 1
  MaxDrops = 2
  Callers = {h1, h2}
  Owners = {o1}
  Devices = {d1}
  ConsentTypes = {t1}
  MaxCalls = 3
  MaxLedgerFaults = 1
  Panels = {c1, c2}
  ConfirmTime = 1
  ResultTime = 1
  MaxMarks = 2
INVARIANTS
  ConfirmedIsDurable
  ListensWithBroker
  AnswersHold
  ConsentsHold
PROPERTIES
  PhoneIsAnswered
  ServesUntilSignalled
  LifeGoesOn
  MarkIsDeliberate
  CountIsFresh
CHECK_DEADLOCK FALSE
