SPECIFICATION Spec
CONSTANTS
  t1 = t1
  t2 = t2
  t3 = t3
  Thread <- MCThread
  Path = {1, 2}
  Existing = {1}
  Null = null
  Absent = absent
  Torn = torn
  MaxFaults = 2
  Role <- MCRole
  Target <- MCTarget
  MaxVerify = 1
INVARIANTS
  NeverHalfway
  AllOrNothing
  ChangesComplete
  NoPathDeadlock
CHECK_DEADLOCK FALSE
