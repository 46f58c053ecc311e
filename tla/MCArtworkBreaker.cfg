CONSTANTS
  Callers = {c1, c2, c3}
  Idle = Idle
  breakerThreshold = 2
  breakerRecoveries = 2
  breakerProbeAfter = 1
  RetryDelays = {1, 2}
  MaxTime = 6
  MaxGeneration = 3
SYMMETRY Symmetry
SPECIFICATION BreakerSpec
PROPERTY ClosesAfterProbeWindows
PROPERTY BackoffHonoured
