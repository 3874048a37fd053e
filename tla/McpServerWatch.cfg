\* One job, three requests that may overlap.
SPECIFICATION McpFairSpec
CONSTANTS
  Jobs = {j1}
  Tasks = {t1, t2, t3}
  None = None
  MaxRequests = 3
  MaxApplies = 2
INVARIANTS OneWatch
PROPERTIES EndIsLearnt NewJobIsAnnounced
CHECK_DEADLOCK FALSE
