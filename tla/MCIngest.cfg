SPECIFICATION MCSpec
CONSTANTS
  MaxChunks = 3
  MaxRetries = 2
  MaxReading = 3
  LastGeneration = 5
  MaxResets = 1
  MaxStores = 5
  MaxBytes = 4
  MaxFrames = 3
  MaxDuration = 2
  Sizes = {1, 3}
  Times = {0, 2, 3}
  MaxPackets = 4
  MaxGeneration = 1
INVARIANTS TypeOK SyncSafe ArenaSafe GopSafe
PROPERTIES ImplementsStreamInput InputsEnd
\* Streams end.
CHECK_DEADLOCK FALSE
