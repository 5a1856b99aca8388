SPECIFICATION MCSpec
CONSTANTS
  \* Three overlapping buffer lifetimes, counters wide enough never to wrap.
  Clients = {c1, c2, c3}
  Sizes = {1, 2, 3}
  MaxCount = 2
  MaxTotalBytes = 3
  MaxObjectSize = 2
  MaxFreeCount = 1
  UsizeMod = 16
  ServedBound = 3
  Stages = 3
  Priorities = {0, 2, 3}
  Capacity <- Capacities
  MaxPushed = 5
  Bitrates = {1, 2}
  MaxSequence = 3
  \* Segments of one part; the second and the third start with an independent one.
  Parts = 1
  Independent = {3, 5}
  MaxRetries = 1
  Window = 2
  MaxSegments = 3
  MaxSeeks = 1
  MaxRequests = 4
INVARIANTS TypeOK CountersExact ChunksFit TypesOK DevicesAgree SegmentsOnce
PROPERTIES ImplementsBoundedPool SchedulerKeeps DownloadsGoOn
\* Callers need not call again, and a destroyed engine stops.
CHECK_DEADLOCK FALSE
