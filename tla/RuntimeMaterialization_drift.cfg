SPECIFICATION MCSpec
CONSTANTS
  Runs = {r1, r2}
  Verifiers = {v1}
  Payload <- TwoFiles
  Archives <- Deliveries
  Alien = "bin/other"
  MaxLock = 2
  Faulty = TRUE
  None = None
INVARIANTS PublishedWhole AcceptedComplete
PROPERTIES OwnDirectoryOnly SomeCalmRunCompletes
CHECK_DEADLOCK FALSE
