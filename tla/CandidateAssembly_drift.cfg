SPECIFICATION FairSpec
CONSTANTS
  lane = lane
  lane2 = lane2
  sdk = sdk
  sdk2 = sdk2
  Lanes <- Two
  Sdks <- TwoSdks
  Clashes <- Clashing
  Troubles = 2
  None = None
INVARIANTS GenuineVerdicts InventoryVerified NoFoldedClash
PROPERTY QuietReturns
CHECK_DEADLOCK FALSE
