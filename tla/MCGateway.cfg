CONSTANTS
  Requests = {r1, r2}
  MaxTurns = 1
  Streams = {st1}
  WindowSize = 2
  MinimumCalls = 2
  Permitted = 2
  MaxAttempts = 2
SPECIFICATION GatewaySpec
INVARIANTS
  HistoryWellFormed
  ExpiresUnlessCutOff
  HalfOpenNotStuck
PROPERTIES
  EveryChatAnswered
CHECK_DEADLOCK FALSE
