SPECIFICATION FairSpec
CONSTANTS
  c1 = c1
  c2 = c2
  l1 = l1
  l2 = l2
  Callers = {c1, c2}
  Lanes = {l1, l2}
  MaxAttempts = 2
  MaxAsked = 1
  MaxRuns = 4
  MaxFaults = 1
CHECK_DEADLOCK FALSE
INVARIANTS TypeOK TrialAfterParts OneSubscription ActivatedOnce
PROPERTIES RegistrationDecided
