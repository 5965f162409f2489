CONSTANTS
  MaxRuns = 2
  NumShots = 2
  Models = {1, 2}
  Jobs = {1, 2}
  Columns = {"phash"}
  MaxFrames = 4
  MaxSampled = 2
  Batch = 2
  Lines = {a}
  MaxGap = 2
  MaxPasses = 2
  NumRanges = 3
  SpanSecs = 4
  Gap = 1
  WordGap = 0
  WordSpan = 7
  Concurrency = 2
  Window = 4
  Totals = {1, 7, 9}
  Times = {0, 3, 4, 8}
  Names = {n1, n2}
  MinScene = 2
  MaxScene = 6
  MinChapter = 6
  TargetChapter = 7
  Snap = 1
  ShotLengths = {1, 6, 9}
  MaxShots = 3
  Planned = {"diarize"}
  Needed = "scenes"
  Bindings = {{"vlm"}, {"asr", "vlm"}}
  MaxOps = 4
  MaxCalls = 2
SPECIFICATION Spec
CHECK_DEADLOCK FALSE
INVARIANT MarkersMeanChapters
