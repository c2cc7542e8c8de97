SPECIFICATION FairSpec
CONSTANTS
  t1 = t1
  t2 = t2
  s1 = s1
  s2 = s2
  l1 = l1
  l2 = l2
  Tenants = {t1, t2}
  Servers = {s1, s2}
  Lanes = {l1}
  TicksPerMinute = 2
  Minutes = 1
  MaxAttempts = 2
CHECK_DEADLOCK FALSE
INVARIANTS TypeOK WorkOncePerSlot ScannedMinutesQueued CompletionRecorded
PROPERTIES JobsEnd
