\* apply, its detached poll and a refused second apply, under every fault.
CONSTANTS
  Pollers = {"detached"}
  Lookers = {}
  Destroyers = {}
  Candidates = 2
  MaxSignals = 2
  MaxKills = 1
  MayKeep = TRUE
  ControlResult = TRUE
  SecondApply = TRUE
  Faults = {"launch", "read", "scrub", "expiry", "release", "reclaim", "error"}
SPECIFICATION FairSpec
PROPERTIES ExitIsResponsible ApplyEnds HandedOffIsReleased
CHECK_DEADLOCK FALSE
