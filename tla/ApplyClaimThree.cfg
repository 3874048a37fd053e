\* Three applies of one job ID, a plan, a prune, and files that change while
\* at most two applies have started.
CONSTANTS
  Applies = {p1, p2, p3}
  Stagers = {p1, p2, p3}
  NoApply = NoApply
  Pruner = Pruner
  Sources = {f1, f2}
  MaxEdits = 1
SPECIFICATION Spec
INVARIANTS IdentityNamesWorker OneKnownVm RunsWhatWasPlanned
SYMMETRY Symmetry
CONSTRAINT Explored
CHECK_DEADLOCK FALSE
