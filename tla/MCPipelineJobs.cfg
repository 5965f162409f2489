CONSTANTS
  N = 3
  Consumers <- Triangle
  Roots = {1, 3}
  Plans <- TrianglePlans
  Capacity = 2
  MaxEmit <- TriangleEmits
  Outcomes <- Mixed
  MayError = {1, 2}
  MayPanic = {2}
  MayCancel = TRUE
  CheckpointMayFail = TRUE
  LiveModes = {TRUE, FALSE}
  HasFine = TRUE
  InitialStates = {"acquired"}
SPECIFICATION FairSpec
CHECK_DEADLOCK FALSE
INVARIANTS JobIsSound
PROPERTIES StepsAreOrderly JobAndTasksEnd
