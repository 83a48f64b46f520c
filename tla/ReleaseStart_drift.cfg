SPECIFICATION Spec
CONSTANTS
  Runs = {r1, r2}
  MaxCommit = 2
  Releases = {1, 2}
  Serialized = FALSE
  Faults = TRUE
  Drift <- AllDrift
  Budget = 1
  Stranger = Stranger
  None = None
SYMMETRY Symmetry
INVARIANTS StaleWriteIsLast OneReleaseInFlight SealedIsOwnCandidate
PROPERTY ImplementsLifecycle
CHECK_DEADLOCK FALSE
