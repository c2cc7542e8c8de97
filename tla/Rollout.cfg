SPECIFICATION Spec
CONSTANTS
  i1 = i1
  e1 = e1
  e2 = e2
  o1 = o1
  o2 = o2
  w1 = w1
  w2 = w2
  None = None
  Internal = {}
  External <- OtherTenants
  Operators = {o1, o2}
  Workers = {w1, w2}
  MaxCalls = 5
  Mortal = {"server", "worker"}
CHECK_DEADLOCK FALSE
SYMMETRY Symmetry
INVARIANTS TypeOK StageGate CompletedMeansAll OneWorkerPerTenant
PROPERTIES KeepsStages
