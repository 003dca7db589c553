SPECIFICATION FairSpec
CONSTANTS
  h1 = h1
  h2 = h2
  None = None
  Id <- MCId
  Host = {h1, h2}
  s1 = s1
  s2 = s2
  Server = {s1, s2}
  Vias <- MCVias
  MaxAttempts = 2
  Plans <- MCPlans
  Revisions <- MCRevisions
  MaxRevisions = 1
  MaxPlans = 2
INVARIANTS
  AttemptsCounted
  AttemptsBounded
  NullMeansBlocked
PROPERTIES
  RemovedStaysRemoved
  LoopEnds
