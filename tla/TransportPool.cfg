SPECIFICATION Spec
SYMMETRY Surfaces
CONSTANTS
  v = v
  x = x
  y = y
  t = t
  s1 = s1
  Client = {v, t}
  Scope = {s1}
  ScopeOf <- MCScopeOf
  Safe = {v}
  Surface = {x, y}
  NWorkers = 2
  MaxPending = 1
  MaxFailures = 2
  Null = Null
  End = End
INVARIANTS
  OneSurface
  NoLateEffect
  AtMostOnce
  NothingForgotten
CHECK_DEADLOCK FALSE
