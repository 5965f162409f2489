CONSTANTS
  SlotCount = 2
  Readers = {x, y}
  Frames = 3
  IdleLimit = 1
  MayFail = TRUE
  MayDrop = TRUE
SPECIFICATION FairSpec
CHECK_DEADLOCK FALSE
INVARIANTS SessionIsSound
PROPERTIES FramesAreAStream SessionEndsReaped
