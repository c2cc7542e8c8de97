SPECIFICATION FairSpec
CONSTANTS
  t1 = t1
  t2 = t2
  Threads = {t1, t2}
  States = {"authenticated", "active", "pending", "halted", "paused", "cancelled"}
  Menu = {"checkout", "cancelNow", "reconcile"}
  MaxEvents = 2
  MaxRequests = 0
  MaxCalls = 2
  MaxFailures = 1
CHECK_DEADLOCK FALSE
PROPERTIES LedgerConverges
