\* Small plans, workbooks and files, a short stream, two deviations, one record
\* of each kind, and one recovery case that can be replanned twice.
SPECIFICATION Spec
CONSTANTS
  SupplyHorizon = 3
  SupplyDays = {2, 4}
  StockLevels = {1, 2}
  NeedDay = 1
  PlannedNeed <- NeedOfDays
  OpenNeed = 2
  DeliveryQty = 2
  LotSize = 2
  LeadDays = 0
  Updates <- DeliveryUpdates
  MaxEntries = 1
  MaxPlans = 3
  MaxInputs = 3
  MaxScenarios = 1
  Workbooks <- SomeWorkbooks
  MaxBatches = 3
  MaxEdits = 1
  MaxExports = 1
  Files <- SomeFiles
  Materials = {"a", "b"}
  MaxFeeds = 3
  MaxStream = 2
  MaxSyncs = 3
  PullLimit = 1
  LookBack = 1
  MaxAlarms = 3
  Keys = {"k1", "k2"}
  KindOf <- KindOfKey
  Seeded = {"k2"}
  Detectors = {d1}
  MaxDeviations = 2
  MaxVersion = 2
  People = {p1, p2}
  Assets = {a1}
  MaxCases = 1
  MaxWork = 2
  MaxRecordEdits = 4
  Cases = {c1}
  Strategies = {s1, s2, s3}
  Steps = 2
  Results = {"RECOVERED", "PARTIALLY_RECOVERED", "NO_EFFECT", "INCONCLUSIVE"}
  NoStrategy = NoStrategy
SYMMETRY Symmetry
CHECK_DEADLOCK FALSE
INVARIANTS
  
  PositionIsNewest
  
  VerifiedAsRead
  StrategyBehindStatus
PROPERTIES
  EditsAreReviewed
  VerifiedByItsCase
  NoExecutionWithoutSelection
