SPECIFICATION Spec
CONSTANTS
  u1 = u1
  u2 = u2
  f1 = f1
  Thread = {u1, u2, f1}
  Budgeted = {u1, u2}
  Slots = 2
  Null = Null
  Items <- MCItems
  Outer = Outer
  MaxWorkers = 2
  Settings <- MCSettings
  MaxRefresh = 1
INVARIANTS
  NoLatePublication
  GPUExclusive
  ClaimsMatch
  NothingLost
  SleepersHaveWaker
  HangContained
CHECK_DEADLOCK FALSE
