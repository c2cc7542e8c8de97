SPECIFICATION Spec
CONSTANTS
  t1 = t1
  t2 = t2
  Threads = {t1, t2}
  States = {"active", "pending", "halted", "cancelled"}
  Menu = {"checkout", "cancelNow", "manual", "suspendManual", "renewManual",
          "suspend", "reactivate", "extendTrial",
          "stopTrial", "requestDeletion", "ownerCancels", "operatorCancels",
          "retryDeletion", "reconcile", "time"}
  MaxEvents = 2
  MaxRequests = 2
  MaxCalls = 2
  MaxFailures = 1
SYMMETRY Symmetry
CHECK_DEADLOCK FALSE
INVARIANTS TypeOK ChargesInvoiced PurgeHasGrounds
