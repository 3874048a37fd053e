\* The shim alone, both supervisors killed, every fault: liveness.
CONSTANTS
  Kids = {}
  MaxCrashes = 2
  Faults = TRUE
  CanDetect = TRUE
SPECIFICATION FairSpec
PROPERTIES BudgetIsEnforced VerdictLands
CHECK_DEADLOCK FALSE
