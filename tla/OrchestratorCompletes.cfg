SPECIFICATION FairSpec
CONSTANTS
  MCGen = {1, 2}
  MCChain = TRUE
  MCStages = TRUE
  MCSerial = FALSE
  Node <- MCNode
  GenNode <- MCGen
  PreNode <- MCPreNode
  PostNode <- MCPostNode
  InputNode = {}
  Hash <- MCHash
  Plans <- TwoPlans
  Owner = {o1, o2}
  LocalOwner = local
  Null = null
  StageOf <- MCStageOf
  SerialStages <- MCSerialStages
  LaneOf <- MCLaneOf
  Capacity <- MCCapacity
  SharedGpu = TRUE
  MaxAttempt = 12
  MaxBorn = 1
  OneExecutor = TRUE
  MayFail = FALSE
  MayDrift = FALSE
  MayCrash = TRUE
  MayStall = FALSE
  MaxCancel = 0
CHECK_DEADLOCK FALSE
PROPERTIES
  Completes
