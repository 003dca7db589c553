SPECIFICATION Spec
CONSTANTS
  d1 = d1
  d2 = d2
  None = None
  Agent <- MCAgent
  Signal <- MCSignal
  nameRank <- MCNameRank
  agents <- MCAgents
  costRank <- MCCostRank
  strength <- MCStrength
  defaultAgent <- MCDefaultAgent
  weight <- MCWeight
  bands <- MCBands
  defaultThresholds <- MCThresholds
  Task <- MCTask
  Request <- MCRequest
  Installed <- MCInstalled
  Dispatcher = {d1, d2}
  maxDispatchLogSize = 2
  MaxDispatches = 4
  MaxRestarts = 2
SYMMETRY Symmetry
CHECK_DEADLOCK FALSE
INVARIANTS
  GenerationKept
  OneNudge
  RiseIsEvidenced
