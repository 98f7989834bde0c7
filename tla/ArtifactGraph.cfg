SPECIFICATION Spec
CONSTANTS
  a = a
  b = b
  c = c
  f = f
  g = g
  Job = {a, b, c}
  Order <- MCOrder
  Requires <- MCRequires
  Target = {f, g}
  TargetOf <- MCTargetOf
  Creates = {a}
  Relocated = {f}
  Value = {1, 2}
  Answer <- MCAnswer
  Workers = 2
  Null = Null
  Absent = Absent
  MaxCall = 2
  MaxCrash = 1
  MaxImpl = 2
INVARIANTS
  BytesHaveEvidence
  InOrder
  ReuseSound
  SuccessHasEvidence
PROPERTIES
  QuietAfterEnd
CHECK_DEADLOCK FALSE
