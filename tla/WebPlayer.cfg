SPECIFICATION Spec
CONSTANTS
  Sessions = {1, 2}
  HlsSessions = {2}
  MaxLoads = 2
  MaxStops = 1
INVARIANTS TypeOK SessionsTracked LeakFree
PROPERTIES StoppedQuiet LoadsSettle
CHECK_DEADLOCK FALSE
