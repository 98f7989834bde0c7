SPECIFICATION Spec
CONSTANTS
  MCGen = {1}
  MCChain = FALSE
  MCStages = FALSE
  MCSerial = FALSE
  Node <- MCNode
  GenNode <- MCGen
  PreNode <- MCPreNode
  PostNode <- MCPostNode
  InputNode <- MCPostNode
  Hash <- MCHash
  Plans <- OnePlan
  Owner = {o1, o2}
  LocalOwner = local
  Null = null
  StageOf <- MCStageOf
  SerialStages <- MCSerialStages
  LaneOf <- MCLaneOf
  Capacity <- MCCapacity
  SharedGpu = FALSE
  MaxAttempt = 3
  MaxBorn = 1
  OneExecutor = FALSE
  MayFail = FALSE
  MayDrift = FALSE
  MayCrash = FALSE
  MayStall = TRUE
  MaxCancel = 1
CHECK_DEADLOCK FALSE
SYMMETRY OwnerSymmetry
PROPERTIES
  CancelStopsGeneration
