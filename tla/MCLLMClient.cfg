SPECIFICATION FairSpec
CONSTANTS
  p = p
  short = short
  none = none
  Requests = {r1, r2}
  Prompts = {p}
  MaxTokens = {short, none}
  NoLimit = none
  Calls <- MixedCalls
  Providers = 2
  Limit = 1
  Projected = 1
  MaxCost = 1
  FailureThreshold = 1
  RecoveryTimeout = 1
  SuccessThreshold = 1
  HalfOpenMaxCalls = 1
  MaxAttempts = 2
  BaseDelay = 1
  MaxDelay = 1
  MaxElapsed = 1
  RetryAfters = {2}
  MaxSize = 1
  TTL = 2
INVARIANTS TypeOK BudgetOvershootBounded OneOutcomePerAdmission
PROPERTIES UsesBreaker OnlyStoringRenews EveryRequestEnds
