SPECIFICATION Spec
CONSTANTS
  o = o
  p1 = p1
  p2 = p2
  q1 = q1
  q2 = q2
  People = {o, p1, p2}
  Founder = o
  Requests = {q1, q2}
  Seats = 2
  MaxTries = 2
  MaxRows = 2
  MaxAsked = 1
CHECK_DEADLOCK FALSE
SYMMETRY Symmetry
INVARIANTS TypeOK SeatsWithinPlan OneInvitation
