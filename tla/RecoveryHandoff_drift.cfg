SPECIFICATION FairSpec
CONSTANTS
  Attempts = 2
  Budget = 3
  Faults = 1
  Outages = 2
  None = None
INVARIANTS RecoveredAsJudged DraftAtAdmittedTag NoSecondDraftOnceAnswered
PROPERTY QuietRecovers
CHECK_DEADLOCK FALSE
