SPECIFICATION Spec
CONSTANTS
  Slot <- MCSlot
  Agent <- MCAgent
  nameRank <- MCNameRank
  MaxEntries = 3
  HostMaxEntries = {3}
  Reviewing = {1}
  Resultless = {2}
  NamesOthers = FALSE
  Ticks = {1}
  MaxClock = 10
  MaxIndex = 4
  MaxUpdates <- MCUpdateOfTwo
CHECK_DEADLOCK FALSE
INVARIANTS
  KeysFresh
  NoResultLost
  IntentOnRecord
