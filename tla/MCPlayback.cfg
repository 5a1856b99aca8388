\* Commands, callbacks of two sessions, leaks, and a clock that passes every window.
SPECIFICATION MCSpec
CONSTANTS
  Codes = {1}
  MaxAttempts <- SmallAttempts
  Window <- SmallWindow
  Kinds = {Decoder}
  MaxHandles = 1
  MaxEpoch = 2
  MaxTime = 2
  ChannelSize = 2
  MemoryChunks = 2
  MaxSessions = 2
  MaxChunks = 3
  MaxCalls = 5
  MaxLoads = 2
  MaxStops = 2
  RuntimePending = 2
  RuntimeCalls = 5
  MaxFailures = 1
  MaxPending = 1
  MaxVideoQueue = 1
  Configures = {1, 2}
  DecoderChunks = 2
  MaxSteps = 1
  MaxErrors = 1
  MaxMarks = 1
  \* A counter of three bits, over which two epochs step in both directions.
  WrapBits = 3
  Threshold = 2
  TickNum = 3
  TickDen = 2
  Ms = 2
  MaxDrift = 2
  Late = 1
  Epochs = {1, 2}
  Starts = {2, 4}
  Steps <- SmallSteps
  MaxSamples = 4
INVARIANTS TypeOK SessionCoherent BudgetRespected
INVARIANTS RuntimeSafe DecoderSafe
PROPERTIES EventsTellState NativePlays TimelineFollows
\* A destroyed engine stops, once the bounded clock has.
CHECK_DEADLOCK FALSE
