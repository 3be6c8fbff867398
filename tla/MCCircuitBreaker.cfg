SPECIFICATION FairStreakSpec
CONSTANTS
  Callers = {c1, c2, c3}
  FailureThreshold = 2
  RecoveryTimeout = 2
  SuccessThreshold = 2
  HalfOpenMaxCalls = 2
INVARIANTS NoLeakedProbeSlot ProbeLimit
PROPERTIES OpensOnFullStreak FollowsDiagram Recovers
CHECK_DEADLOCK TRUE
