SPECIFICATION Spec
CONSTANTS
  Key = {k1}
  Caller = {c1, c2, c3, c4}
  Hash = {h1, h2}
  Null = null
  Damaged = damaged
  OneExecutor = FALSE
  MayFail = TRUE
  MayCrash = TRUE
  MayRot = TRUE
  MaxCancel = 2
CHECK_DEADLOCK FALSE
SYMMETRY Symmetric
INVARIANTS
  TypeOK
  ResultFits
  NoOrphan
  Exclusive
PROPERTIES
  SuccessKept
