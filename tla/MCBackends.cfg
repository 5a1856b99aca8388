SPECIFICATION MCSpec
CONSTANTS
  Capacity = 3
  Block = 2
  Batches = {1, 3}
  MaxFrames = 5
  MaxResets = 1
  MaxAppendQueue = 2
  MaxQuotaRetries = 1
  MaxSegments = 3
  MaxSeeks = 2
  MaxEvents = 2
  Backends = {"a", "b"}
  CandidatePlan <- SmallPlan
  Calls = {1, 2, 3}
  MaxEpochs = 1
  \* Two codecs, two tracks, and maxima within and beyond the limit.
  Codecs = {"a", "b"}
  Transports = {"Rtmp"}
  Sizes = {2, 9}
  MaxSize = 8
  DefaultW = 4
  DefaultH = 3
  MaxTracks = 2
INVARIANTS RingSafe MseSafe PlansSafe
PROPERTIES EventuallyHeard PartsSettle FallbackSafe
CHECK_DEADLOCK FALSE
