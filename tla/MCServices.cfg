CONSTANTS
  Calls = {1, 2, 3}
  Key <- Keys
  Estimate <- Estimates
  Concurrency = 1
  PerMinute = 1
  TokenCap = 1
  MaxRetries = 1
  Adapters = {"openai", "anthropic", "gemini"}
  Indexes = {1, 2}
  MaxEvents = 5
  MaxTokens = 6
  Openers = {o1, o2, o3}
  Creators = {c1, c2}
  Jobs = {1, 2}
  Streams = {s1}
  Sources = 1
  KeepFinished = 0
  Work <- Works
  Asks = {"ask1", "ask2"}
  Cap = 2
  Cost = 2
  Workers = {w1, w2}
  MaxCost = 2
  MaxWall = 2
  Window = 2
  MinSpan = 1
  MaxHead = 4
  MaxClock = 2
  MaxSpend = 3
  Fetchers = {1}
  Size = 3
  MaxVersion = 2
  MaxAttempts = 4
  MinDistance = 25
  HardDistance = 70
  Remembered = 4
  MinShotSamples = 2
  Distances = {5, 30, 60, 80}
  MaxSamples = 5
  MaxAhead = 1
SPECIFICATION Spec
INVARIANTS ProviderLimitsHold  OpenedOnce  LastSnapshotIsWhole WindowIsExact ShotsAreFinal
PROPERTIES SpentLimitsHold CallsAndStreamsEnd
CHECK_DEADLOCK FALSE
