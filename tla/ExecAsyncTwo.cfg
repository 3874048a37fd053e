SPECIFICATION Spec
CONSTANTS
  Cmds = {c1, c2}
  Paths = {default}
  Default = default
  None = None
  Interrupts = TRUE
  MaxStarts = 2
  MaxChunks = 1
INVARIANTS SecondNeedsLostPid PollIsTrue FollowIsComplete
CONSTRAINT Tracked
SYMMETRY Symmetric
CHECK_DEADLOCK FALSE
