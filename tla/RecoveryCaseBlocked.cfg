\* Two cases with two strategies each, of one action; observations conclude.
SPECIFICATION RecoveryFairSpec
CONSTANTS
  Cases = {c1, c2}
  Strategies = {s1, s2}
  Steps = 1
  Results = {"RECOVERED", "NO_EFFECT"}
  NoStrategy = NoStrategy
CHECK_DEADLOCK FALSE
PROPERTY MonitoredIsSettled
