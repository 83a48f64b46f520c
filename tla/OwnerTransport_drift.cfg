SPECIFICATION Spec
CONSTANTS
  NumLanes = 1
  MaxAttempt = 2
  Bytes = {b1, b2}
  Same = {}
  Cross = {cross}
  Faulty <- Everywhere
  Drift <- AllDrift
  Budget = 3
  Stray = Stray
  None = None
SYMMETRY Symmetry
INVARIANTS DeliveredByOwner DeliveredAsSigned
CHECK_DEADLOCK FALSE
