SPECIFICATION Spec
CONSTANTS
  Slot <- MCSlot
  Agent <- MCOneAgent
  nameRank <- MCOneRank
  MaxEntries = 4
  HostMaxEntries = {1}
  Reviewing = {}
  Resultless = {2}
  NamesOthers = FALSE
  Ticks = {1}
  MaxClock = 9
  MaxIndex = 4
  MaxUpdates <- MCOneUpdate
CHECK_DEADLOCK FALSE
INVARIANTS
  KeysFresh
