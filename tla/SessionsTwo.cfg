SPECIFICATION Spec
CONSTANTS
  Cmds = {c1, c2}
  Daemons = {d1}
  Names = {s1}
  Endpoints = {e1, e2}
  None = None
INVARIANTS NoVmForgotten DaemonFindsRecord
PROPERTIES RecordOutlivesVm
CONSTRAINT NoneLost
SYMMETRY Symmetric
CHECK_DEADLOCK FALSE
