SPECIFICATION FairSpec
CONSTANTS
  Keys = {k1}
  Burst = 2
  Unit = 11
  Second = 4
  Refill = 2
  Grain = 3
  Horizon = 11
  MaxWatch = 12
INVARIANTS RateHolds RetryAfterFits
PROPERTIES ImplementsTokenBucket ServedAgain
