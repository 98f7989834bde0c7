SPECIFICATION FairSpec
CONSTANTS
  MCGen = {1, 2}
  MCChain = FALSE
  MCStages = TRUE
  MCSerial = FALSE
  Node <- MCNode
  GenNode <- MCGen
  PreNode <- MCPreNode
  PostNode <- MCPostNode
  InputNode <- MCPostNode
  Hash <- MCHash
  Plans <- OnePlan
  Owner = {o1, o2}
  LocalOwner = local
  Null = null
  StageOf <- MCStageOf
  SerialStages <- MCSerialStages
  LaneOf <- MCLaneOf
  Capacity <- MCCapacity
  SharedGpu = TRUE
  MaxAttempt = 12
  MaxBorn = 1
  OneExecutor = TRUE
  MayFail = TRUE
  MayDrift = FALSE
  MayCrash = TRUE
  MayStall = TRUE
  MaxCancel = 0
CHECK_DEADLOCK FALSE
PROPERTIES
  Terminates
