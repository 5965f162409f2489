CONSTANTS
  N = 3
  Consumers <- Triangle
  Roots = {1, 3}
  Plans <- RunTriangle
  Capacity = 2
  MaxEmit <- TriangleEmits
  Outcomes <- Mixed
  MayError = {1}
  MayPanic = {}
  MayCancel = FALSE
  CheckpointMayFail = FALSE
  LiveModes = {FALSE}
  HasFine = FALSE
  InitialStates = {"acquired"}
SPECIFICATION Spec
INVARIANTS MarkerMeansWholeInput
CHECK_DEADLOCK FALSE
