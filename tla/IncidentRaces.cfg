SPECIFICATION Spec
CONSTANTS
  v1 = v1
  v2 = v2
  d1 = d1
  s1 = s1
  a1 = a1
  c1 = c1
  Assigned = Assigned
  HasAssigned = TRUE
  Alternatives = {v1}
  Phoned = {}
  Direct = Direct
  Dispatchers = {d1}
  Sweepers = {s1}
  Answerers = {a1}
  Customers = {}
  None = None
  MaxTries = 1
  MaxDials = 1
  MaxFailures = 0
CHECK_DEADLOCK FALSE
INVARIANTS TypeOK FallbackInOrder
PROPERTIES TravellerAnswered
