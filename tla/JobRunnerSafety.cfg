\* Two kids, or one kid and one supervisor killed, every fault: safety and
\* refinement.
CONSTANTS
  Kids = {k1, k2}
  MaxCrashes = 1
  Faults = TRUE
  CanDetect = TRUE
SPECIFICATION Spec
INVARIANTS SucceededIsContained StopIsExplained
PROPERTIES SupervisorsSpared ImplementsRemoteJob
CONSTRAINT Explored
SYMMETRY Symmetry
CHECK_DEADLOCK FALSE
