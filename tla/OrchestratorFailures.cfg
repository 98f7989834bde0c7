SPECIFICATION Spec
CONSTANTS
  MCGen = {1, 2}
  MCChain = FALSE
  MCStages = TRUE
  MCSerial = TRUE
  Node <- MCNode
  GenNode <- MCGen
  PreNode <- MCPreNode
  PostNode <- MCPostNode
  InputNode <- MCPostNode
  Hash <- MCHash
  Plans <- TwoPlans
  Owner = {o1, o2}
  LocalOwner = local
  Null = null
  StageOf <- MCStageOf
  SerialStages <- MCSerialStages
  LaneOf <- MCLaneOf
  Capacity <- MCCapacity
  SharedGpu = FALSE
  MaxAttempt = 12
  MaxBorn = 1
  OneExecutor = TRUE
  MayFail = TRUE
  MayDrift = FALSE
  MayCrash = TRUE
  MayStall = TRUE
  MaxCancel = 0
CHECK_DEADLOCK FALSE
SYMMETRY OwnerSymmetry
INVARIANTS
  NoLostClaim
  SafeConcurrency
  ReceiptMatchesInput
