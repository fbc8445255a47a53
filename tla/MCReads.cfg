SPECIFICATION Spec
SYMMETRY Symmetric
CONSTANTS
  MaxTime = 3
  BoardEnd = 2
  Phones = {p1}
  Machines = {m1, m2}
  Lifetime = 1
  FetchLimit = 1
  Lookback = 1
  MaxBeacons = 2
  MaxClears = 1
  MaxBeaconFaults = 1
  Lookups = {l1, l2}
  Subs = {sub1, sub2}
  Mails = {mail}
  NoMail = NoMail
  HitTtl = 2
  MissTtl = 1
  MaxEntries = 1
  MaxOutages = 1
  Horizon = 4
  MaxModes = 4
  Coldest = 50
  Hottest = 96
  Now = 6
  GapTime = 3
  Retention = 6
  MaxRaw = 1
  HourFactor = 3
  Widths <- BucketWidths
  LiveEdge = 1
  LongHeld = 2
  SampleCap = 2
  Pages = {1, 4}
  Rates = {0, 10, 54}
  Threshold = 20
  PageSize = 2
  MaxStream = 3
  MaxCount = 3
  MaxRows = 4
  MaxParts = 3
  LastMs = 2
  Words <- FilterWords
INVARIANTS
  TypesOK
  BoardIsCurrent
  CacheIsSound
  PictureAgreesWithStrip
  LinesAreTrue
  ArchiveAnswersTrue
  ChartIsTrue
  ReadingsAgree
  FilterSurvives
  ListsAreTrue
CHECK_DEADLOCK FALSE
