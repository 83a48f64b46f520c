SPECIFICATION FairInspectSpec
CONSTANTS
  Files = {aros, verify}
  Signed = {aros, verify}
  Native = {aros, verify}
  Wanted = {"frozen", "restore"}
  Budget = 2
  Passes = 3
  Stops = 1
  Damaged = TRUE
  Nothing = Nothing
INVARIANTS FrozenSnapshot RestoreAllOrNothing
PROPERTIES NothingGrantedWhenDamaged RestoreResumes
CHECK_DEADLOCK FALSE
