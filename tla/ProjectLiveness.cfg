SPECIFICATION Spec
CONSTANTS
  t1 = t1
  t2 = t2
  t3 = t3
  Thread <- MCThread
  Path = {1, 2}
  Existing = {1}
  Null = null
  Absent = absent
  Torn = torn
  MaxFaults = 0
  Role <- LiveRole
  Target <- LiveTarget
  MaxVerify = 1
PROPERTIES
  CoarseServed
  ScopedServed
CHECK_DEADLOCK FALSE
