SPECIFICATION Spec
CONSTANTS
  p1 = p1
  p2 = p2
  r1 = r1
  r2 = r2
  w1 = w1
  w2 = w2
  c1 = c1
  c2 = c2
  None = None
  Proposals = {p1, p2}
  Risk <- RiskMixed
  Callers = {c1, c2}
  Reviewers = {r1}
  Workers = {w1}
  MaxAttempts = 2
SYMMETRY Symmetry
INVARIANTS LowRiskActsOnce
