SPECIFICATION FairSpec
CONSTANTS
  j1 = j1
  j2 = j2
  r1 = r1
  r2 = r2
  Job = {j1, j2}
  Reader = {r1, r2}
  Terminal <- MCTerminal
  None = None
INVARIANTS
  TypeOK
  ToldTheTruth
PROPERTIES
  EndsOnce
  JobsImplementBoard
  CallsReturn
