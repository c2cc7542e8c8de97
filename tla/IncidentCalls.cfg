SPECIFICATION Spec
CONSTANTS
  v1 = v1
  v2 = v2
  d1 = d1
  s1 = s1
  a1 = a1
  c1 = c1
  Assigned = Assigned
  HasAssigned = FALSE
  Alternatives = {v1}
  Phoned = {v1}
  Direct = Direct
  Dispatchers = {}
  Sweepers = {s1}
  Answerers = {a1}
  Customers = {a1}
  None = None
  MaxTries = 2
  MaxDials = 1
  MaxFailures = 1
CHECK_DEADLOCK FALSE
PROPERTIES TravellerAnswered ConfirmationsTold AttemptsClose
