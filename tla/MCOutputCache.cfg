CONSTANTS
  N = 2
  Consumers <- Two
  Replayable = {1}
  Policies <- CoarseAndFine
  MaxParams = 2
  ParamsReturn = TRUE
  MaxJobs = 4
  MayForce = TRUE
  MayFail = TRUE
  MayCrash = TRUE
  OrderlyN = 4
  OrderlyConsumers <- Four
  OrderlyReplayable = {2, 3}
  OrderlyMaxParams = 2
  OrderlyMaxJobs = 3
SPECIFICATION MCSpec
INVARIANTS OrderlySuccessMeansFresh FaultsHeal
PROPERTIES PartialIsRetried
CHECK_DEADLOCK FALSE
