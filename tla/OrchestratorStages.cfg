SPECIFICATION Spec
CONSTANTS
  MCGen = {1}
  MCChain = FALSE
  MCStages = TRUE
  MCSerial = FALSE
  Node <- MCNode
  GenNode <- MCGen
  PreNode <- MCPreNode
  PostNode <- MCPostNode
  InputNode <- MCPostNode
  Hash <- MCHash
  Plans <- OnePlan
  Owner = {o1, o2}
  LocalOwner = local
  Null = null
  StageOf <- MCStageOf
  SerialStages <- MCSerialStages
  LaneOf <- MCLaneOf
  Capacity <- MCCapacity
  SharedGpu = FALSE
  MaxAttempt = 12
  MaxBorn = 1
  OneExecutor = TRUE
  MayFail = TRUE
  MayDrift = TRUE
  MayCrash = TRUE
  MayStall = FALSE
  MaxCancel = 2
CHECK_DEADLOCK FALSE
SYMMETRY OwnerSymmetry
PROPERTIES
  NoReplay
  ImplementsClients
