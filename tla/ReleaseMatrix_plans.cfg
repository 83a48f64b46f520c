SPECIFICATION Spec
CONSTANTS
  Groups = {1, 2}
  Profiles = {1, 2, 3}
  Sdks = {1}
  MaxGroups = 2
  MaxSdks = 1
  MaxRefs = 2
  MaxBuilds = 12
  Edits = 1
  None = None
  Refused = Refused
  Selected = Selected
INVARIANTS ExactlyProductsAccepted WholeOrRefused OwnersJoin
CHECK_DEADLOCK FALSE
