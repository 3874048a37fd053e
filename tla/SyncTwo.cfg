SPECIFICATION Spec
CONSTANTS
    Syncs = {s1, s2}
    Kernels = {k1, k2, k3}
    NoKernel = NoKernel
    Faults = {"interrupt", "cleanup", "restart", "gone", "writeback"}
    MaxReads = 1
INVARIANTS AnswerIsTrue NothingIsLeft
PROPERTIES DestinationIsWhole RerunWins
CONSTRAINT Explored
SYMMETRY Symmetry
CHECK_DEADLOCK FALSE
