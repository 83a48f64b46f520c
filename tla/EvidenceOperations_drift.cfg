SPECIFICATION FairSpec
CONSTANTS
  Inputs = {runtime, bundle}
  Pinned = {runtime}
  Reported = {bundle}
  Wanted = {"record", "audit", "recover"}
  Budget = 2
  Faults = 1
  None = None
INVARIANTS StoodTogether ExposedIsVerified FailureLeavesNoRequest
PROPERTY QuietCompletes
CHECK_DEADLOCK FALSE
