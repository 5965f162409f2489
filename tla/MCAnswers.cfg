CONSTANTS
  MaxToolCalls = 2
  MaxTokens = 2
  CallsPerTurn = 2
  MaxTurns = 3
  MaxCalls = 2
  MaxSession = 1
  Times = {0, 6, 10, 20}
  FrameTimes = {0, 4, 8, 12, 16, 20}
  Last1 = 20
  None = None
  Videos = {"v1", "v2"}
  Minute = 4
  PerVideo = {0, 1, 2}
  RowSize = 2
  BaseSize = 1
  MaxSize = 4
  MaxWrites = 1
  Length = 10
  MaxWindows = 2
  MaxText = 4
  MinText = 2
  ViewText = 3
  MinViewText = 1
  MaxWindow = 6
  MultiWindow = 3
  DetailWindow = 2
  MaxFrames = 2
  DetailFrames = 1
  MinCrop = 3
  Sides = {2, 3, 5, 8}
  Rows <- SomeRows
  Asked <- SomeCalls
  Lines <- SomeLines
  ShotLists <- SomeShots
  Layouts <- SomeLayouts
  Duration <- TenTicks
  Live = {"v2"}
  Registered = {"v1"}
  Unit = 4
  Week = 8
  Bounds = {None, 5}
  Caps = {1}
  Scope = {}
  AskedKinds = {None, "frame"}
  K = 2
  PerList = 1
  MaxSearchWrites = 2
  MaxParts = 2
  MaxMarker = 400
SPECIFICATION Spec
CHECK_DEADLOCK FALSE
INVARIANTS AskIsBounded RequestsAreAccepted CountsAreOfOneMoment NothingIsSilentlyLeftOut HitsHoldTheirEvidence CitationsAsWritten
 
