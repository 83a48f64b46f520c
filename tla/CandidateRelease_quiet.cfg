SPECIFICATION ReleaseSpec
CONSTANTS
  Runs = {r1, r2}
  Dispatchers = {d1, d2}
  Natives = {n1}
  MaxCommit = 1
  Releases = {1}
  Serialized = TRUE
  Faults = FALSE
  Drift = {}
  Budget = 0
  Stranger = Stranger
  None = None
PROPERTIES ImplementsWholeLifecycle QuietStartSeals QuietReleaseConsumed
CHECK_DEADLOCK FALSE
