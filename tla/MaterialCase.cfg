\* Three runs, two observations to recover.
SPECIFICATION FairSpec
CONSTANTS
  Runs = {r1, r2, r3}
  ScenarioRuns = {}
  Required = 2
CHECK_DEADLOCK FALSE
INVARIANTS
  ClosedOnEvidence
  ObservedOnce
PROPERTIES
  RecoveryIsNoticed
