SPECIFICATION Spec
CONSTANTS
  Note <- MCNote
  Task <- MCTask
  Significant <- MCSignificant
  MaxInsights <- MCCaps
  insightInjectK = 1
  MaxAdds = 11
  MaxClock = 1
CHECK_DEADLOCK FALSE
INVARIANTS
  HeldOnce
  HitsAreDerivations
  RecallsMostDerived
PROPERTIES
  EvictsLeastDerived
