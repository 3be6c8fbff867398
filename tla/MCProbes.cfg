SPECIFICATION StreakSpec
CONSTANTS
  Callers = {c1, c2, c3}
  FailureThreshold = 2
  RecoveryTimeout = 2
  SuccessThreshold = 2
  HalfOpenMaxCalls = 1
INVARIANT ConcurrentProbesLimited
