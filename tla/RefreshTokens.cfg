SPECIFICATION Spec
CONSTANTS
  f1 = f1
  k1 = k1
  k2 = k2
  k3 = k3
  r1 = r1
  r2 = r2
  r3 = r3
  None = None
  Families = {f1}
  Ids = {k1, k2, k3}
  Requests = {r1, r2, r3}
CHECK_DEADLOCK FALSE
SYMMETRY Symmetry
INVARIANTS TypeOK RotationChain EndedForGood ReuseEndsFamily NoFalseAlarm
