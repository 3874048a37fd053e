\* Two invocations, one of which may be killed; two artifacts, one required.
CONSTANTS
  Runners = {r1, r2}
  NoRunner = NoRunner
  MaxCrashes = 1
  Artifacts = {1, 2}
  Required = {1}
  NumInputs = 1
  Pinned = {1}
  MaxWrites = 2
  MayStay = TRUE
  LeaveUp = FALSE
  Rescue = TRUE
  Failures = {"transient", "expired", "absent"}
SPECIFICATION TransfersSpec
INVARIANTS SerialRetryIsSafe LaunchIsNotLost ConsumerSeesPlan StoreIsTrue
PROPERTIES OutcomeIsUsable
CONSTRAINT Explored
SYMMETRY Symmetry
CHECK_DEADLOCK FALSE
