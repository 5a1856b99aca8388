SPECIFICATION Spec
CONSTANTS
  Parts = 1
  Independent = {3, 5}
  MaxRetries = 1
  Window = 2
  MaxSegments = 3
  MaxSeeks = 1
  MaxRequests = 4
PROPERTY LiveReloads
CHECK_DEADLOCK FALSE
