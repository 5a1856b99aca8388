SPECIFICATION Spec
CONSTANTS
  MaxAppendQueue = 2
  MaxQuotaRetries = 1
  MaxSegments = 2
  MaxSeeks = 0
  MaxEvents = 2
INVARIANTS TakenWhenAppended
CHECK_DEADLOCK FALSE
