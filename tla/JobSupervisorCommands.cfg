\* job status and job destroy, in any order, beside apply and its detached poll.
CONSTANTS
  Pollers = {"detached"}
  Lookers = {"l"}
  Destroyers = {"l"}
  Candidates = 1
  MaxSignals = 1
  MaxKills = 1
  MayKeep = FALSE
  ControlResult = TRUE
  SecondApply = FALSE
  Faults = {"read", "scrub", "expiry", "release", "reclaim", "error"}
SPECIFICATION Spec
INVARIANTS RecordIsTrue OnlyOrphansReleased
PROPERTIES ApplyKeepsVerdict LiveRunnerSpared
CHECK_DEADLOCK FALSE
