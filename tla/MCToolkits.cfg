CONSTANTS
  q1 = q1
  s1 = s1
  s2 = s2
  t1 = t1
  t2 = t2
  t3 = t3
  c1 = c1
  c2 = c2
  c3 = c3
  Texts = {t1, t2, t3}
  Questions = {q1}
  Sources = {s1, s2}
  Words <- MCWords
  Cosine <- MCCosine
  Reciprocal <- MCReciprocal
  MaxScore = 2
  Contents = {c1, c2, c3}
  NoContent = NoContent
  Pieces <- MCPieces
  Tokens <- MCTokens
  Configs <- MCConfigs
  TopK = 2
  FetchK = 3
  MaxContext = 4
  MinChunk = 2
  MinScore = 5
  Gain <- MCGain
  MaxBatch = 2
  MaxChunks = 4
  Characters = {"w", "s", "n", "p", "1", "2"}
  ChunkSize = 3
  Overlap = 1
  Percentile = 8
  MaxLength = 5
  a = a
  b = b
  ToolNames = {a, b}
  NoList = NoList
  Policies <- MCPolicies
  Categories = {"override", "exfiltration"}
  MaxAudit = 5
  Parameters = {"p", "q"}
  Strangers = {"x"}
  Annotations = {"float", "bool", "dict", "Literal", "Optional"}
  Sizes = {0, 9, 60}
  MaxTokens = 20
  MaxMessageTokens = 4
  ThresholdTokens = 12
  KeepRecent = 2
  MaxMessages = 4
  Alphabet = {"o", "c", "q", "b", "f", "a", "w"}
  MaxAttempts = 2
  MaxReply = 5
  MaxLines = 4
SYMMETRY Tenants
SPECIFICATION Spec
\* Every machine stops at its bounds.
CHECK_DEADLOCK FALSE
INVARIANTS
  SkippedIsIndexed
  TenantIsolation
  GroundedAnswer
  MetricsAgree
  ChunksTrace
  AuditAccountsForCalls
  ValidCallsBind
  WindowsHold
  NothingForgotten
  CorrectionsBounded
  RetryableIffMayPass
  OneEnding
  ChargedWhenWhole
  OneWastedText
