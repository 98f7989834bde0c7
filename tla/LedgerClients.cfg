SPECIFICATION Spec
CONSTANTS
  Node <- MCNode
  GenNode <- MCGenNode
  Hash <- MCHash
  Plans <- MCPlans
  Owner = {o1}
  LocalOwner = local
  Null = null
  StageOf <- MCStageOf
  SerialStages <- MCSerial
  LaneOf <- MCLaneOf
  Capacity <- MCCapacity
  SharedGpu = TRUE
  MaxAttempt = 2
  MaxBorn = 1
  MaxClaims = 1
  OneExecutor = TRUE
INVARIANTS
  TypeOK
  DepsDone
  InputBound
  RowEvidence
PROPERTIES
  StaleStaysStale
  ImplementsWorkGraph
