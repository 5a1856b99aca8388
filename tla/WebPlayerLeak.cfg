SPECIFICATION Spec
CONSTANTS
  Sessions = {1, 2}
  HlsSessions = {}
  MaxLoads = 2
  MaxStops = 0
INVARIANTS SessionsOwned
CHECK_DEADLOCK FALSE
