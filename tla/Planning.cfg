\* Two workers on two runs, with a retry and a crash; every plan over three days
\* with small quantities.
SPECIFICATION PlanningServiceSpec
CONSTANTS
  RunIds = {r1, r2}
  Workers = {w1, w2}
  MaxRetries = 1
  MaxCrashes = 1
  NoTask = NoTask
  Horizon = 3
  Quantities = {0, 1, 2}
  Openings <- SomeOpenings
  Policies <- SomePolicies
  CriticalDays = 0
  RedDays = 1
  Fence = 0
  Lead = 1
  MinOrder = 0
  Multiple = 2
  Window = 2
  Coverage = 2
  CancelWindow = 0
  NoDay = NoDay
CHECK_DEADLOCK FALSE
INVARIANTS
  ResultsAreWhole
  DatesAreFirst
  ShortagesAreShown
  PeggingAgrees
  InterventionHelps
PROPERTIES
  CompletedOnce
  EveryRunIsSettled
