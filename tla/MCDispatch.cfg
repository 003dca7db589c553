SPECIFICATION FairSpec
CONSTANTS
  r1 = r1
  r2 = r2
  None = None
  json <- MCJson
  Stdout <- MCStdout
  Reviewer = {r1, r2}
  VerifyReviseRounds = 5
  verifyReviseRoundsMax = 1
  Code = {clean, modified}
  Clean = clean
  MaxOthers = 1
CHECK_DEADLOCK FALSE
INVARIANTS
  RecordAgrees
  GatedByReview
  PassedOnThisTree
  FilesAreNet
PROPERTIES
  KeepsLedger
  DispatchEnds
