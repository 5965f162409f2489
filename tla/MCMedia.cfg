CONSTANTS
  Interval = 3
  Chunk = 3
  TickEvery = 5
  Reanchor = 1
  Never = 100
  Intervals = {1, 3, 5}
  KeyEvery = 2
  KeyframeHint = 2
  Piece = 3
  Overlaps = {0, 1}
  Lead = 2
  None = None
  MinSilence = 2
  MinSpeech = 2
  Pad = 1
  MaxUtterance = 2
  FlushAfter = 3
  MaxSegment = 4
  MaxWindows = 7
  Slack = 0
  MaxStretches = 2
  MaxJump = 1
  MaxLag = 1
  Width = 5
  Height = 4
  DetThreshold = 1
  MinSide = 1
  MinCrop = 1
  Batch = 2
  MaxLines = 3
  Target = 5
  MaxGap = 1
SPECIFICATION Spec
CHECK_DEADLOCK FALSE
INVARIANTS   ScreenIsReadInOrder SubtitlesSayTheLines
