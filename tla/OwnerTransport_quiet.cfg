SPECIFICATION FairSpec
CONSTANTS
  NumLanes = 2
  MaxAttempt = 3
  Bytes = {b1}
  Same = {same}
  Cross = {}
  Faulty <- FirstOnly
  Drift <- NoDrift
  Budget = 0
  Stray = Stray
  None = None
PROPERTY FullAttemptCollects
CHECK_DEADLOCK FALSE
