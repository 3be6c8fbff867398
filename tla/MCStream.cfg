CONSTANTS
  Streams = {st1}
  WindowSize = 1
  MinimumCalls = 1
  Permitted = 1
SPECIFICATION StreamSpec
INVARIANT DoneAfterWholeAnswer
CHECK_DEADLOCK FALSE
