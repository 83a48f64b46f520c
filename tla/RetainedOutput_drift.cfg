SPECIFICATION FairRetainSpec
CONSTANTS
  OutputNames = {payload, origin}
  Extra = extra
  Retries = 1
  Meddlings = 2
  Faults = 1
  Nothing = Nothing
INVARIANTS RetainedWhole CleanedLeavesNothing
PROPERTIES OthersKept QuietRetains
CHECK_DEADLOCK FALSE
