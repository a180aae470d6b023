CONSTANTS
  Proc = {p1, p2, p3}
  NoProc = NoProc
SYMMETRY Symmetry
SPECIFICATION Spec
INVARIANTS TypeOK OneApprover ExecutorHoldsNoLock
PROPERTIES PhaseHasInputs NoWayBack ImplementsMilestones
CHECK_DEADLOCK FALSE
