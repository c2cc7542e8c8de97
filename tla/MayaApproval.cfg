SPECIFICATION FairSpec
CONSTANTS
  p1 = p1
  p2 = p2
  r1 = r1
  r2 = r2
  w1 = w1
  w2 = w2
  c1 = c1
  c2 = c2
  None = None
  Proposals = {p1}
  Risk <- RiskOne
  Callers = {c1}
  Reviewers = {r1, r2}
  Workers = {w1, w2}
  MaxAttempts = 2
PROPERTIES ImplementsLedger EventsSettle
INVARIANTS TypeOK EffectsSpendTimelyApprovals OneHandlerPerEvent OutboxAgrees
