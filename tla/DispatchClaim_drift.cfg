SPECIFICATION Spec
CONSTANTS
  Dispatchers = {d1, d2}
  Natives = {n1, n2}
  Faults = TRUE
  Drift <- AllDrift
  Budget = 2
  Stranger = Stranger
  None = None
SYMMETRY Symmetry
INVARIANTS SoleDispatch AuthorizedIsBound
PROPERTY LifecycleUntilDeleted
CHECK_DEADLOCK FALSE
